SPECIFICATION AllSpec
CONSTANTS
  m1 = m1
  m2 = m2
  m3 = m3
  Msgs = {m1, m2, m3}
  Multimodal = {}
  NoMsg = NoMsg
  Modes = {"cancel", "serial"}
  BufferCap = 1
  CharCap = 2
  UnknownRuntime = TRUE
  MaxCrashes = 1
  MaxResumeTurns = 2
  Threshold = 1
  MaxAttempts = 3
  MaxRestarts = 1
  MaxStreams = 2
  MaxEvents = 3
  Budget = 1
  Debounce = 2
  RecencyCap = 1
SYMMETRY Symmetry
INVARIANTS
    OneTurnAtATime
    NewestSurvives
    RepliesInOrder
    AckedTextIsSettled
PROPERTIES
    SessionInOrder
    ChatIsHonest
    SupersededIsSilent
CHECK_DEADLOCK FALSE
