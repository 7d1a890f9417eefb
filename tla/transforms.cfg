SPECIFICATION Spec
CONSTANTS
    Circuit <- MCCircuit
    Job <- MCJob
CHECK_DEADLOCK FALSE
INVARIANTS VerdictKept CexRestores ProofRestores
