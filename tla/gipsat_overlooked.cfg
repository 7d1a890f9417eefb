SPECIFICATION Spec
CONSTANTS
    NumVar = 5
    Def <- Def2
    Users = {"ic3"}
    Lemmas <- Lemmas2
    Questions <- Questions2
    Domains = {}
    Candidates = {}
    RestartBase = 1
    MaxRestarts = 3
    SimplifyPeriod = 1
    MaxCalls = 5
CHECK_DEADLOCK FALSE
INVARIANT FalseWatchSatisfied
