CONSTANTS
    b1 = b1
    b2 = b2
    Buckets = {b1, b2}
    Lengths = {1, 2}
    MaxRecords = 3
    maxSize = 3
    maxRecordCount = 2
    maxRetries = 2
SPECIFICATION FairSpec
INVARIANTS TypeOK NothingLost AcknowledgedIsStored BatchesAreBounded OneWayToTheDatabase
PROPERTY EventuallySettled
CHECK_DEADLOCK FALSE
