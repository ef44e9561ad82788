SPECIFICATION Spec
CONSTANTS
    Addr = {"x", "y", "z"}
    Source = {1, 2}
    NewBucket = {1, 2}
    TriedBucket = {1}
    GetNewBucket <- MCGetNewBucket
    GetTriedBucket <- MCGetTriedBucket
    NewBucketSize = 1
    TriedBucketSize = 1
    NewBucketsPerAddress = 2
    TriedEntriesInspect = 2
    GetAddrMaxPct = 67
    MaxId = 5
    MaxTime = 1
INVARIANTS Check BucketsBounded
PROPERTIES AddressesKept
