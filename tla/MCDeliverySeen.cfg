SPECIFICATION DSpec
CONSTANTS
    Msgs = {m1, m2}
    Workers = {w1}
    Skipped = {m2}
    ReceiptTypes = {}
    Requests <- MCRequests
    Lease = 1
    Ttl = 1
    PollLimit = 2
    ScanLimit = 2
    SeenCap = 1
    MaxFaults = 1
INVARIANTS
    DeliveredWasHandled
CHECK_DEADLOCK FALSE
