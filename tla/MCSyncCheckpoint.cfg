SPECIFICATION Spec
CONSTANTS
    Block <- MCBlock
    Genesis <- g
    nChainTrust <- MCTrust
    NULL = NULL
    BadBlocks <- MCBadBlocks
    Hardened <- MCHardened
    Signed <- MCSigned
    StaticPending <- b2
    MaxCrashes = 2
INVARIANTS CheckpointOnChain
PROPERTIES CheckpointBinds
CHECK_DEADLOCK FALSE
