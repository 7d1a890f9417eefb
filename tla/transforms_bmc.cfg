SPECIFICATION Spec
CONSTANTS
    Circuit <- MCCircuit
    Job <- LateJob
CHECK_DEADLOCK FALSE
INVARIANTS CexPrinted
