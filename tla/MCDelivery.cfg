SPECIFICATION DSpec
CONSTANTS
    Msgs = {m1}
    Workers = {w1, w2}
    Skipped = {}
    ReceiptTypes = {"result"}
    Requests <- MCRequests
    Lease = 1
    Ttl = 1
    PollLimit = 1
    ScanLimit = 2
    SeenCap = 1
    MaxFaults = 2
SYMMETRY Perms
INVARIANTS
    NoDoubleClaim
PROPERTIES
    RecalledNotHandedOut
    Promise
CHECK_DEADLOCK FALSE
