SPECIFICATION FairSpec
CONSTANTS
    Msgs = {m1}
    Workers = {w1, w2}
    Skipped = {}
    ReceiptTypes = {}
    Requests <- MCRequests
    Lease = 1
    Ttl = 1
    PollLimit = 1
    ScanLimit = 2
    SeenCap = 1
    MaxFaults = 1
PROPERTIES
    EventuallySettled
CHECK_DEADLOCK FALSE
