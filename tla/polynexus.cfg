SPECIFICATION Spec
CHECK_DEADLOCK FALSE
CONSTANTS
    Prop <- Two
    Workers = 2
    Configs = 3
    Truth <- Truth2
    Cached <- Fresh2
    Depth <- Depths
    MaxBound = 1
    MaxCrash = 1
INVARIANTS
    ResolvedCertified
    PicksBalanced
    NoLateStart
PROPERTIES
    ShownAdvances
    AnswersEnd
