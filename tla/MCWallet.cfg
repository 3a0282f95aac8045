SPECIFICATION Spec
CONSTANTS
    a = a
    b = b
    c = c
    Owners = {a, b, c}
    Rank <- MCRank
    Transfers = {"ab", "ba", "sub a", "sub b"}
    From <- MCFrom
    To <- MCTo
    Grants = {g}
    Topups = {t}
    Withdrawals = {w}
    OwnerOf <- MCOwnerOf
    Amount <- MCAmount
    Sessions = {s1, s2, s3}
    Batches <- OneBatch
    None = None
SYMMETRY Symmetry
INVARIANTS
    CoinsAccountedFor
    TransferredOnce
    DeadlockNeedsBatch
CHECK_DEADLOCK FALSE
