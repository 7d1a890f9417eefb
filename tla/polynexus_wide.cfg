SPECIFICATION Spec
CHECK_DEADLOCK FALSE
CONSTANTS
    Prop <- One
    Workers = 3
    Configs = 2
    Truth <- Truth1
    Cached <- Fresh1
    Depth <- Depths
    MaxBound = 1
    MaxCrash = 0
INVARIANT PickSucceeds
