SPECIFICATION Spec
CHECK_DEADLOCK FALSE
CONSTANTS
    Model <- MCModel
    Plan <- MCPlan
    MaxFault = 1
    Prop <- Two
    Version <- MCVersion
    Failing <- MCFailing
    MaxStart = 2
    MaxEdit = 1
    MaxKillRun = 1
INVARIANTS
    VerdictRight
    FinalWhole
    ResultsOfDesign
    WitnessKept
PROPERTIES
    LightReturns
    ResultsKept
