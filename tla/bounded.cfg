SPECIFICATION Spec
CHECK_DEADLOCK FALSE
CONSTANTS
    System <- MCSystem
    Config <- MCConfig
    Lemmas <- MCLemmas
INVARIANTS
    AnswersRight
    BoundsChecked
    ProofInductive
    SimplePathDecides
PROPERTIES
    StopHeeded
