SPECIFICATION Spec
CONSTANTS
    Key = {k1, k2, k3, k4, k5}
    Index = {1, 2, 3, 4}
    PoolSize = 1
    NULL = NULL
INVARIANTS GivenOnceAndStored PoolUsable DiskLoads FreshAfterEncryption
