CONSTANTS
    maxBucketSize = 10
    maxBucketRecords = 2
    Lengths = {1}
    MaxTimestamp = 2
    MaxMessages = 3
    MaxBuckets = 3
    MaxExpiries = 1
SPECIFICATION FairSpec
INVARIANTS TypeOK HeapMirrorsBuckets StoredMeansSaved MessagesAreFindable
PROPERTY EventuallyInBucket
CHECK_DEADLOCK FALSE
