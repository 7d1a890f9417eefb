SPECIFICATION FairSpec
CONSTANTS
    State <- State3
    Trans <- MixTrans3
    Bad <- Bad3
    Cube <- Cube3
    InitCubes <- Init3
    MaxLevel = 8
    CtgMax = 1
    CtpMax = 1
    DropPo = FALSE
INVARIANTS
    TypeOK
    UnsatCertified
    FramesAgree
    FramesCover
    ObligationsBlockedBelow
    ObligationsDistinct
    InfLemmasNew
PROPERTIES
    CheckReturns
