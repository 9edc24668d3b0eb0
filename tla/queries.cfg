SPECIFICATION Spec
CONSTANTS
    MaxSeq = 2
    BucketDates = {1, 2, 3}
    MaxResendLast = 4
    Rows <- MCRows
    Requests <- MCRequests
    Absent = Absent
    NaN = NaN
    Limit = 2
    MaxTs = 9
    MaxStores = 1
INVARIANTS
    RangeIsExact
    
    AdaptersAgree
PROPERTIES
    EventuallyAnswered
CHECK_DEADLOCK FALSE
