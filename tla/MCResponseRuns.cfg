SPECIFICATION Spec
CONSTANTS
    Runs = {r1, r2}
    Inputs = {a, b}
    Replies = {p1, p2}
    FinishOutcomes = {"unconfirmed"}
    Recallable = {a, b}
    Lease = 1
    None = None
SYMMETRY Perms
CONSTRAINT Small
INVARIANTS
    LedgerComplete
    NoInputLeftBehind
    OneFinalReply
    EventsNeverCollide
PROPERTIES
    ResolvedForever
    QueuedNeverPreempts
CHECK_DEADLOCK FALSE
