SPECIFICATION Spec
CONSTANTS
    State <- State3
    Trans <- UnsafeTrans3
    Bad <- Bad3
    Cube <- Cube3
    InitCubes <- Init3
    MaxLevel = 5
    CtgMax = 2
    CtpMax = 3
    DropPo = TRUE
INVARIANTS
    CexReal
    TracedBoundSafe
