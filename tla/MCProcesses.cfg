SPECIFICATION AllSpec
CONSTANTS
  Sockets = {1, 2, 3}
  MaxLinkFaults = 3
  Hangs = TRUE
  NoSocket = NoSocket
  Adapters = {1, 2}
  Callers = {k1}
  Relays = {r1}
  MaxBackoff = 1
  NoChannel = NoChannel
  p1 = p1
  p2 = p2
  c1 = c1
  Procs = {p1, p2, c1}
  Child <- Children
  Worlds <- OneByOne
  MaxMishaps = 2
  e1 = e1
  e2 = e2
  g1 = g1
  Events = {e1, e2}
  Gateways = {g1}
  GatewayOf <- OneGateway
  RuntimeSockets = {s1, s2, s3}
  HandshakeHangs = FALSE
  MaxFaults = 1
INVARIANTS
    ConnectionsAgree
    RowsTellTheTruth
PROPERTIES
    ControlSettles
    SupervisorGoesOn
    StartSucceeds
    EventsSettle
CHECK_DEADLOCK FALSE
