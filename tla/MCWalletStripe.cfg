SPECIFICATION Spec
CONSTANTS
    a = a
    b = b
    c = c
    Owners = {a}
    Rank <- MCRank
    Transfers = {}
    From <- MCFrom
    To <- MCTo
    Grants = {}
    Topups = {t}
    Withdrawals = {}
    OwnerOf <- MCOwnerOf
    Amount <- MCAmount
    Sessions = {s1, s2}
    Batches <- NoBatches
    None = None
SYMMETRY Symmetry
INVARIANTS
    TopupCreditedOnce
CHECK_DEADLOCK FALSE
