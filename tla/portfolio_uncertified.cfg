SPECIFICATION Spec
CHECK_DEADLOCK FALSE
CONSTANTS
    Worker <- Workers2
    NoWorker = 0
    Depth <- Depths
    CertOptions = {TRUE}
    ShareOptions = {FALSE}
PROPERTIES
    AnswerEnds
