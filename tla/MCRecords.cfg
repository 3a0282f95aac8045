SPECIFICATION AllSpec
CONSTANTS
  Msgs = {m1}
  ReceiptTypes = {"result"}
  Requests = {r1, r2}
  Lease = 1
  Ttl = 1
  PollLimit = 1
  ScanLimit = 2
  Agents = {a1, a2}
  Profiles = {f1}
  Handlers = {h1, h2}
  MaxFrames = 4
  NoAgent = NoAgent
  Adapters = {1, 2}
  Callers = {k1, k2}
  Relays = {l1}
  MaxBackoff = 1
  NoChannel = NoChannel
  p1 = p1
  p2 = p2
  p3 = p3
  c1 = c1
  c2 = c2
  Procs = {p1, p2, p3, c1, c2}
  Child <- Children
  Worlds <- SomeWorlds
  MaxMishaps = 2
SYMMETRY Symmetry
INVARIANTS
    ClaimHasDeadline
    ExpiryReportedOnce
    ReceiptForwarded
    StoresAgree
    LoopsFollowFrames
    SingletonHolds
PROPERTIES
    NoResurrection
CHECK_DEADLOCK FALSE
