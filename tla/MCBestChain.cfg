\* Two interruptions; b3 and c3 do not connect.
SPECIFICATION Spec
CONSTANTS
    Block <- MCBlock
    Genesis <- g
    nChainTrust <- MCTrust
    NULL = NULL
    ValidBlock <- MCValidBlock
    MaxCrashes = 2
INVARIANTS CommittedUnlessStale  LinksMarkBestChain DiskLoads 
PROPERTIES  SetBestChainReturns
CHECK_DEADLOCK FALSE
