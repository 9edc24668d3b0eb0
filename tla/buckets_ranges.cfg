CONSTANTS
    maxBucketSize = 10
    maxBucketRecords = 2
    Lengths = {1}
    MaxTimestamp = 2
    MaxMessages = 3
    MaxBuckets = 3
    MaxExpiries = 1
SPECIFICATION Spec
INVARIANT RangesFindMessages
CHECK_DEADLOCK FALSE
