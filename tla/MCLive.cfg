SPECIFICATION AllFairSpec
CONSTANTS
  m1 = m1
  m2 = m2
  a1 = a1
  Msgs = {m1, m2, a1}
  Multimodal = {a1}
  NoMsg = NoMsg
  Modes = {"cancel", "serial"}
  BufferCap = 1
  CharCap = 2
  UnknownRuntime = TRUE
  MaxCrashes = 0
  MaxParks = 2
  MaxWait = 3
  MaxInbound = 3
  NoTimer = NoTimer
  Runners = {r1, r2}
  Clients = {c1, c2}
  MaxFailed = 2
  MaxPeriods = 3
  MaxAnchors = 3
  MaxFaults = 1
INVARIANTS
    RowFollowsPayments
    NoAccessWhenCancelled
PROPERTIES
    EveryHandleReturns
    EventuallyQuiet
    DueIsSettled
CHECK_DEADLOCK FALSE
