SPECIFICATION FairSpec
CONSTANTS
    NumVar = 8
    Def <- Def1
    Users = {"ic3", "frts"}
    Lemmas <- Lemmas1
    Questions <- Questions1
    Domains <- Domains1
    Candidates <- Candidates1
    RestartBase = 1
    MaxRestarts = 3
    SimplifyPeriod = 1
    MaxCalls = 5
CHECK_DEADLOCK FALSE
INVARIANTS ClausesFollow DatabaseComplete UnitsPropagated
PROPERTIES ContractKept AnswersEnd
