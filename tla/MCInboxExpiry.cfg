SPECIFICATION Spec
CONSTANTS
    Msgs = {m1}
    ReceiptTypes = {}
    Requests = {r1}
    Lease = 1
    Ttl = 1
    PollLimit = 1
    ScanLimit = 2
PROPERTIES
    ExpiresOnlyQueued
CHECK_DEADLOCK FALSE
