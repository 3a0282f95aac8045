--------------------------- MODULE ControlChannel ---------------------------
(***************************************************************************)
(* The control connection of a daemon: the reconnecting client             *)
(* (packages/daemon/src/control-channel.ts) and the hub's registry of      *)
(* connections (backend/hub/routers/daemon_control.py).  The two ends of a *)
(* socket learn of its fate at different times.  A refused handshake is an *)
(* HTTP error to the client, whatever close code the hub names.            *)
(***************************************************************************)
EXTENDS Naturals, FiniteSets, FiniteSetsExt

CONSTANTS Sockets,    \* sockets that may exist at once; numbered
          MaxLinkFaults,  \* bound on network and token faults
          Hangs,      \* a handshake may stay without any answer
          NoSocket

ASSUME ControlAssumption ==
  /\ Sockets \subseteq Nat /\ NoSocket \notin Sockets
  /\ MaxLinkFaults \in Nat /\ Hangs \in BOOLEAN

VARIABLES ws,             \* ControlChannel.ws
          connecting,     \* connect(): "no", "token", "opening"; "unstarted" before start()
          connected,
          timer,          \* reconnectTimer is set
          stopRequested,
          client,         \* client end of each socket
          server,         \* hub end of each socket
          registry,       \* _REGISTRY entry of the instance
          revoked,        \* revoked_at is set at the hub
          expired,        \* the access token needs a refresh
          linkFaults

daemon == <<ws, connecting, connected, timer, stopRequested>>
controlVars == <<daemon, client, server, registry, revoked, expired, linkFaults>>

Ends == {"none", "connecting", "open", "closing"}
Active == {s \in Sockets : client[s] \in {"connecting", "open"}}

ControlTypeOK ==
  /\ ws \in Sockets \cup {NoSocket} /\ registry \in Sockets \cup {NoSocket}
  /\ connecting \in {"unstarted", "no", "token", "opening"}
  /\ connected \in BOOLEAN /\ timer \in BOOLEAN /\ stopRequested \in BOOLEAN
  /\ client \in [Sockets -> Ends \cup {"hung"}]
  /\ server \in [Sockets -> {"none", "accepted", "serving", "gone"}]
  /\ revoked \in BOOLEAN /\ expired \in BOOLEAN /\ linkFaults \in 0..MaxLinkFaults
  \* One attempt at a time: none is scheduled while one is under way.
  /\ timer => connecting = "no" /\ ~connected

ControlInit ==
  /\ ws = NoSocket /\ connecting = "unstarted" /\ connected = FALSE
  /\ timer = FALSE /\ stopRequested = FALSE
  /\ client = [s \in Sockets |-> "none"] /\ server = [s \in Sockets |-> "none"]
  /\ registry = NoSocket /\ revoked = FALSE /\ expired = FALSE /\ linkFaults = 0

LinkFault == linkFaults < MaxLinkFaults /\ linkFaults' = linkFaults + 1

-----------------------------------------------------------------------------
(* The client *)

\* scheduleReconnect, with the socket the channel then has.
scheduleReconnect(w) ==
  timer' = (~stopRequested /\ (w = NoSocket \/ client[w] \notin {"connecting", "open"}))

\* start() calls connect().
StartChannel ==
  /\ connecting = "unstarted" /\ connecting' = "token"
  /\ UNCHANGED <<ws, connected, timer, stopRequested, client, server, registry, revoked, expired, linkFaults>>

\* The reconnect timer fires and connect() begins.
Reconnect ==
  /\ timer /\ timer' = FALSE
  /\ connecting' = IF stopRequested \/ ws \in Active THEN "no" ELSE "token"
  /\ UNCHANGED <<ws, connected, stopRequested, client, server, registry, revoked, expired, linkFaults>>

\* The access token is there: a socket is made, stopped meanwhile or not.
OpenSocket ==
  /\ connecting = "token"
  /\ expired => ~revoked
  /\ \E s \in Sockets :
       /\ client[s] = "none" /\ server[s] = "none"
       /\ s = Min({x \in Sockets : client[x] = "none" /\ server[x] = "none"})
       /\ ws' = s /\ client' = [client EXCEPT ![s] = "connecting"]
  /\ connecting' = "opening" /\ expired' = FALSE
  /\ UNCHANGED <<connected, timer, stopRequested, server, registry, revoked, linkFaults>>

\* The refresh fails: AuthRefreshRejectedError halts the channel, any other
\* error is retried.
TokenRejected ==
  /\ connecting = "token" /\ expired /\ revoked
  /\ connecting' = "no" /\ stopRequested' = TRUE
  /\ UNCHANGED <<ws, connected, timer, client, server, registry, revoked, expired, linkFaults>>

TokenFails ==
  /\ connecting = "token" /\ expired /\ LinkFault
  /\ connecting' = "no" /\ scheduleReconnect(ws)
  /\ UNCHANGED <<ws, connected, stopRequested, client, server, registry, revoked, expired>>

\* The handshake succeeded.  A stopped channel closes the socket at once.
onOpen(s) ==
  /\ client[s] = "connecting" /\ server[s] # "none"
  /\ IF stopRequested \/ ws # s
     THEN client' = [client EXCEPT ![s] = "closing"] /\ UNCHANGED connected
     ELSE client' = [client EXCEPT ![s] = "open"] /\ connected' = TRUE
  /\ connecting' = "no"
  /\ UNCHANGED <<ws, timer, stopRequested, server, registry, revoked, expired, linkFaults>>

\* The handshake failed: refused by the hub, or by a fault.  The error of a
\* socket that is no longer current is ignored.
onError(s) ==
  /\ client[s] = "connecting" /\ server[s] = "none"
  /\ \/ revoked /\ UNCHANGED linkFaults
     \/ LinkFault
  /\ client' = [client EXCEPT ![s] = "none"]
  /\ connecting' = "no"
  /\ IF ws = s THEN scheduleReconnect(NoSocket) ELSE UNCHANGED timer
  /\ UNCHANGED <<ws, connected, stopRequested, server, registry, revoked, expired>>

\* Mutant of onClose: only an error leads to a reconnect.
onCloseQuiet(s, code) ==
  IF ws # s THEN UNCHANGED <<ws, connected, timer, stopRequested>>
  ELSE /\ connected' = FALSE /\ ws' = NoSocket
       /\ stopRequested' = (stopRequested \/ code = "auth")
       /\ UNCHANGED timer

\* The close event; a close with an authentication code stops the channel.
onClose(s, code) ==
  IF ws # s THEN UNCHANGED <<ws, connected, timer, stopRequested>>
  ELSE /\ connected' = FALSE /\ ws' = NoSocket
       /\ stopRequested' = (stopRequested \/ code = "auth")
       /\ IF code = "auth" THEN UNCHANGED timer ELSE scheduleReconnect(NoSocket)

\* The hub has closed the connection, or it was lost, or close() completes.
Closed(s) ==
  /\ \/ client[s] = "open" /\ server[s] = "gone" /\ UNCHANGED linkFaults
     \/ client[s] = "open" /\ LinkFault
     \/ client[s] = "closing" /\ UNCHANGED linkFaults
  /\ client' = [client EXCEPT ![s] = "none"]
  /\ \E code \in {"other"} \cup (IF revoked /\ server[s] = "gone" THEN {"auth"} ELSE {}) : onClose(s, code)
  /\ UNCHANGED <<connecting, server, registry, revoked, expired>>

Stop ==
  /\ connecting # "unstarted" /\ ~stopRequested /\ stopRequested' = TRUE
  /\ timer' = FALSE /\ ws' = NoSocket /\ connected' = FALSE
  /\ client' = IF ws # NoSocket /\ client[ws] # "none" THEN [client EXCEPT ![ws] = "closing"] ELSE client
  /\ connecting' = IF connecting = "opening" THEN "no" ELSE connecting
  /\ UNCHANGED <<server, registry, revoked, expired, linkFaults>>

-----------------------------------------------------------------------------
(* The hub *)

\* The token and the instance are checked, then the upgrade is accepted.
Accept(s) ==
  /\ client[s] \in {"connecting", "closing"} /\ server[s] = "none" /\ ~revoked
  /\ server' = [server EXCEPT ![s] = "accepted"]
  /\ UNCHANGED <<daemon, client, registry, revoked, expired, linkFaults>>

\* The connection is registered and displaces the previous one.  The close of
\* the previous one is awaited right after the swap and is taken with it: in
\* between its handler still receives acks, but frames go by the registry.
Register(s) ==
  /\ server[s] = "accepted"
  /\ server' = [x \in Sockets |-> IF x = s THEN "serving"
                                  ELSE IF x = registry /\ server[x] = "serving" THEN "gone"
                                  ELSE server[x]]
  /\ registry' = s
  /\ UNCHANGED <<daemon, client, revoked, expired, linkFaults>>

\* Mutant of unregister: whatever is registered goes.
unregisterAny(s) == registry' = NoSocket

unregister(s) == registry' = IF registry = s THEN NoSocket ELSE registry

\* The handler notices that the peer is gone, or that it was closed itself.
HandlerEnds(s) ==
  /\ \/ server[s] = "serving" /\ client[s] = "none"
     \/ server[s] = "gone"
  /\ server' = [server EXCEPT ![s] = IF client[s] = "none" THEN "none" ELSE "gone"]
  /\ unregister(s)
  /\ UNCHANGED <<daemon, client, revoked, expired, linkFaults>>

\* revoke_instance: the refresh token is burnt; the registered connection,
\* if there is one, gets a revoke frame and is closed with 4403.
Revoke ==
  /\ ~revoked /\ revoked' = TRUE
  /\ server' = IF registry = NoSocket THEN server ELSE [server EXCEPT ![registry] = "gone"]
  /\ registry' = NoSocket
  /\ UNCHANGED <<daemon, client, expired, linkFaults>>

\* The revoke frame arrives before the close.
RevokeFrame ==
  /\ revoked /\ connected /\ server[ws] = "gone"
  /\ stopRequested' = TRUE
  /\ timer' = FALSE /\ ws' = NoSocket /\ connected' = FALSE
  /\ client' = [client EXCEPT ![ws] = "closing"]
  /\ UNCHANGED <<connecting, server, registry, revoked, expired, linkFaults>>

TokenExpires ==
  /\ ~expired /\ expired' = TRUE
  /\ UNCHANGED <<daemon, client, server, registry, revoked, linkFaults>>

\* The peer takes the connection and never answers the upgrade.
Hang(s) ==
  /\ Hangs /\ client[s] = "connecting" /\ server[s] = "none" /\ LinkFault
  /\ client' = [client EXCEPT ![s] = "hung"]
  /\ UNCHANGED <<daemon, server, registry, revoked, expired>>

Client == Reconnect \/ OpenSocket \/ TokenRejected \/ \E s \in Sockets : onOpen(s) \/ onError(s) \/ Closed(s)
Hub == \E s \in Sockets : Accept(s) \/ Register(s) \/ HandlerEnds(s)

ControlNext ==
  \/ StartChannel \/ Client \/ Hub
  \/ Stop \/ TokenFails \/ Revoke \/ RevokeFrame \/ TokenExpires
  \/ \E s \in Sockets : Hang(s)

\* Timers fire and both ends go on; a connection that stays idle is kept
\* (no fairness for faults), and the access token of a revoked instance
\* expires in the end.
ControlFairness ==
  /\ WF_controlVars(Reconnect) /\ WF_controlVars(OpenSocket) /\ WF_controlVars(TokenRejected)
  /\ WF_controlVars(TokenExpires /\ revoked)
  /\ \A s \in Sockets :
       /\ WF_controlVars(onOpen(s)) /\ WF_controlVars(onError(s) /\ linkFaults' = linkFaults)
       /\ WF_controlVars(Closed(s) /\ linkFaults' = linkFaults)
       /\ WF_controlVars(Accept(s)) /\ WF_controlVars(Register(s)) /\ WF_controlVars(HandlerEnds(s))

ControlSpec == ControlInit /\ [][ControlNext]_controlVars /\ ControlFairness

-----------------------------------------------------------------------------
(* Properties *)

\* "the daemon is expected to maintain a single socket" (_DaemonRegistry):
\* however stops, errors and reconnects interleave, at most one is in use.
OneSocket == Cardinality(Active) <= 1

\* A connection that the hub serves is the one frames are sent to: the late
\* end of an older connection does not take the newer one out of the registry.
ServedIsRegistered == \A s \in Sockets : server[s] = "serving" => registry = s

\* Both ends agree on the connection: the daemon uses one socket (connect,
\* onClose, scheduleReconnect), and the one the hub serves is the one it sends
\* frames to (register, unregister), however late the events of older sockets.
ConnectionsAgree == ControlTypeOK /\ OneSocket /\ ServedIsRegistered

\* After a stop no socket stays open and no reconnect is pending.
ChannelStops == stopRequested ~> [](Active = {} /\ ~timer /\ ~connected)

Online == connected /\ registry = ws

\* "Long-lived, self-healing WS connection": when the faults are over, the
\* hub and the daemon are connected again, unless stopped or revoked.  A
\* handshake that is never answered is the exception: nothing ends it.
SelfHealing ==
  connecting # "unstarted" ~>
    [](Online \/ stopRequested \/ revoked \/ \E s \in Sockets : client[s] = "hung")

\* When stop() was called, or the faults are over, the channel gets where it
\* should be and stays there: down, or connected and registered.
ControlSettles == ChannelStops /\ SelfHealing

\* "instance-level revoke: write the expired flag, ack, and tear down the
\* control plane": a revoked daemon stops, whether the frame, the close code
\* or the refused refresh tells it.
RevokedStops == revoked ~> stopRequested
=============================================================================
