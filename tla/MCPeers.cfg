SPECIFICATION FairSpec
CONSTANTS
    Node = {n1, n2}
    Address = {a}
    NameProxy = FALSE
    MaxOutbound = 2
    MaxInbound = 1
    NULL = NULL
INVARIANTS ReferencesExact ConnectionsWithinLimits
PROPERTIES ClosedDeleted
CHECK_DEADLOCK FALSE
