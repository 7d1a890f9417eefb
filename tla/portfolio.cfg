SPECIFICATION Spec
CHECK_DEADLOCK FALSE
CONSTANTS
    Worker <- Workers2
    NoWorker = 0
    Depth <- Depths
    CertOptions = {TRUE, FALSE}
    ShareOptions = {TRUE, FALSE}
INVARIANTS
    ResultIsWinners
    NoAnswerDropped
    NoWorkerLeft
PROPERTIES
    AnswerReturned
    StopHeeded
