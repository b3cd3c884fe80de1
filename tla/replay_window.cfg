SPECIFICATION Spec
CONSTANTS
    NULL = NULL
    EventIds = {e1, e2}
    Retention = 6
    MaxEntries = 1
    Second = 2
    Window = 1
    Skew = 2
    Lag = 1
    MaxTime = 8
    MaxSigned = 2
    MaxUnreadable = 1
INVARIANT LedgerIsBounded
PROPERTY CaptureWorksOnce ReappliedOnlyAfterRetention
CHECK_DEADLOCK FALSE
