SPECIFICATION Spec
CONSTANTS
    Block <- MCBlock
    Genesis <- g
    nChainTrust <- MCTrust
    NULL = NULL
    Cases <- MCCases
INVARIANTS OrphansRecorded 
CHECK_DEADLOCK FALSE
