SPECIFICATION Spec
CONSTANTS
    MaxSeq = 2
    BucketDates = {1, 3}
    MaxResendLast = 4
    Rows <- MCRows
    Requests <- MCRequests
    Absent = Absent
    NaN = NaN
    Limit = 2
    MaxTs = 9
    MaxStores = 0
INVARIANT LimitIsReported
CHECK_DEADLOCK FALSE
