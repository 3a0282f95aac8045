---------------------------- MODULE DaemonProofs ----------------------------
(***************************************************************************)
(* Proofs about the parts of the daemon process: the control connection,   *)
(* the provisioner, the channel supervisor, the start of a daemon, and the *)
(* session and the stream of a conversation.  Each part has its own        *)
(* variables and its own inductive invariant.                              *)
(***************************************************************************)
EXTENDS ControlChannel, Provision, ChannelManager, DaemonStart, RuntimeSession,
        TurnStream, FiniteSetTheorems, TLAPS

-----------------------------------------------------------------------------
(* The control connection: the inductive invariant *)

\* A socket in use is the channel's own; connect() that has no socket yet, or
\* waits for its timer, has left no other one in use.
OnlyCurrent ==
  /\ Active \subseteq {ws}
  /\ connecting \in {"unstarted", "token"} \/ timer => Active = {}

\* The flag says what the socket is.
FlagTrue ==
  /\ connected => ws \in Sockets /\ client[ws] = "open"
  /\ ws \in Sockets /\ client[ws] = "open" => connecting = "no"

\* The channel closes its socket only when it stops.
ClosesToStop == ws \in Sockets /\ client[ws] = "closing" => stopRequested

CInv == ControlTypeOK /\ OnlyCurrent /\ FlagTrue /\ ClosesToStop /\ ServedIsRegistered


\* Init establishes the invariant.
LEMMA CInit == ControlInit => CInv
<1> SUFFICES ASSUME ControlInit PROVE CInv
  OBVIOUS
<1> USE ControlAssumption DEF ControlInit
<1>1. ControlTypeOK
  <2>1. /\ client \in [Sockets -> Ends \cup {"hung"}]
        /\ server \in [Sockets -> {"none", "accepted", "serving", "gone"}]
    BY DEF Ends
  <2>2. linkFaults \in 0..MaxLinkFaults /\ connecting \in {"unstarted", "no", "token", "opening"}
    OBVIOUS
  <2> QED BY <2>1, <2>2, Zenon DEF ControlTypeOK
<1>2. OnlyCurrent
  BY DEF OnlyCurrent, Active
<1>3. FlagTrue /\ ClosesToStop /\ ServedIsRegistered
  BY DEF FlagTrue, ClosesToStop, ServedIsRegistered
<1> QED BY <1>1, <1>2, <1>3 DEF CInv

-----------------------------------------------------------------------------
(* The steps *)

\* A fault keeps their number within the bound.
LEMMA FaultCounted ==
  ASSUME linkFaults \in 0..MaxLinkFaults, LinkFault
  PROVE  linkFaults' \in 0..MaxLinkFaults
BY ControlAssumption DEF LinkFault

\* start, reconnect and the access token: the steps before there is a socket.
LEMMA AttemptStep ==
  ASSUME CInv, StartChannel \/ Reconnect \/ OpenSocket \/ TokenRejected \/ TokenFails \/ TokenExpires
  PROVE  CInv'
<1> USE ControlAssumption DEF CInv
<1>1. CASE StartChannel
  BY <1>1 DEF StartChannel, ControlTypeOK, OnlyCurrent, FlagTrue, ClosesToStop, ServedIsRegistered, Active
<1>2. CASE Reconnect
  BY <1>2 DEF Reconnect, ControlTypeOK, OnlyCurrent, FlagTrue, ClosesToStop, ServedIsRegistered, Active
<1>3. CASE OpenSocket
  <2>1. PICK s \in Sockets : client[s] = "none" /\ ws' = s /\ client' = [client EXCEPT ![s] = "connecting"]
    BY <1>3 DEF OpenSocket
  <2>2. /\ connecting = "token" /\ connecting' = "opening" /\ expired' = FALSE
        /\ UNCHANGED <<connected, timer, stopRequested, server, registry, revoked, linkFaults>>
    BY <1>3 DEF OpenSocket
  <2>3. ~timer /\ Active = {} /\ ~connected
    BY <2>2 DEF ControlTypeOK, OnlyCurrent, FlagTrue, Active
  <2>4. ControlTypeOK'
    BY <2>1, <2>2, <2>3 DEF ControlTypeOK, Ends
  <2>5. OnlyCurrent' /\ FlagTrue' /\ ClosesToStop'
    BY <2>1, <2>2, <2>3 DEF ControlTypeOK, OnlyCurrent, FlagTrue, ClosesToStop, Active
  <2> QED BY <2>2, <2>4, <2>5 DEF ServedIsRegistered
<1>4. CASE TokenRejected
  BY <1>4 DEF TokenRejected, ControlTypeOK, OnlyCurrent, FlagTrue, ClosesToStop, ServedIsRegistered, Active
<1>5. CASE TokenFails
  <2>1. linkFaults' \in 0..MaxLinkFaults
    BY <1>5, FaultCounted DEF TokenFails, ControlTypeOK
  <2>2. timer' \in BOOLEAN /\ Active = {} /\ ~connected
    BY <1>5 DEF TokenFails, scheduleReconnect, OnlyCurrent, FlagTrue, Active
  <2> QED
    BY <1>5, <2>1, <2>2 DEF TokenFails, ControlTypeOK, OnlyCurrent, FlagTrue, ClosesToStop, ServedIsRegistered, Active
<1>6. CASE TokenExpires
  BY <1>6 DEF TokenExpires, daemon, ControlTypeOK, OnlyCurrent, FlagTrue, ClosesToStop, ServedIsRegistered, Active
<1> QED BY <1>1, <1>2, <1>3, <1>4, <1>5, <1>6

\* The handshake succeeds, fails or is never answered: it is the current
\* socket's, since no other one can be connecting.
LEMMA HandshakeStep ==
  ASSUME CInv, NEW s \in Sockets, onOpen(s) \/ onError(s) \/ Hang(s)
  PROVE  CInv'
<1> USE ControlAssumption DEF CInv
<1>0. client[s] = "connecting" /\ s \in Active /\ ws = s /\ ~timer /\ ~connected
  BY DEF onOpen, onError, Hang, Active, OnlyCurrent, FlagTrue, ControlTypeOK
<1>1. CASE onOpen(s)
  <2>1. client' = [client EXCEPT ![s] = IF stopRequested THEN "closing" ELSE "open"]
    BY <1>0, <1>1 DEF onOpen
  <2>2. connected' = ~stopRequested /\ connecting' = "no"
    BY <1>0, <1>1 DEF onOpen, ControlTypeOK
  <2>3. UNCHANGED <<ws, timer, stopRequested, server, registry, revoked, expired, linkFaults>>
    BY <1>1 DEF onOpen
  <2>4. ControlTypeOK'
    BY <1>0, <2>1, <2>2, <2>3 DEF ControlTypeOK, Ends
  <2>5. OnlyCurrent' /\ FlagTrue' /\ ClosesToStop'
    BY <1>0, <2>1, <2>2, <2>3 DEF ControlTypeOK, OnlyCurrent, FlagTrue, ClosesToStop, Active
  <2> QED BY <2>3, <2>4, <2>5 DEF ServedIsRegistered
<1>2. CASE onError(s)
  <2>1. linkFaults' \in 0..MaxLinkFaults
    BY <1>2, FaultCounted DEF onError, ControlTypeOK
  <2>2. timer' = ~stopRequested /\ client' = [client EXCEPT ![s] = "none"] /\ connecting' = "no"
    BY <1>0, <1>2 DEF onError, scheduleReconnect
  <2>3. UNCHANGED <<ws, connected, stopRequested, server, registry, revoked, expired>>
    BY <1>2 DEF onError
  <2>4. ControlTypeOK'
    BY <1>0, <2>1, <2>2, <2>3 DEF ControlTypeOK, Ends
  <2>5. OnlyCurrent' /\ FlagTrue' /\ ClosesToStop'
    BY <1>0, <2>2, <2>3 DEF ControlTypeOK, OnlyCurrent, FlagTrue, ClosesToStop, Active
  <2> QED BY <2>3, <2>4, <2>5 DEF ServedIsRegistered
<1>3. CASE Hang(s)
  <2>1. linkFaults' \in 0..MaxLinkFaults
    BY <1>3, FaultCounted DEF Hang, ControlTypeOK
  <2>2. /\ client' = [client EXCEPT ![s] = "hung"]
        /\ UNCHANGED <<ws, connecting, connected, timer, stopRequested, server, registry, revoked, expired>>
    BY <1>3 DEF Hang, daemon
  <2>4. ControlTypeOK'
    BY <1>0, <2>1, <2>2 DEF ControlTypeOK, Ends
  <2>5. OnlyCurrent' /\ FlagTrue' /\ ClosesToStop'
    BY <1>0, <2>2 DEF ControlTypeOK, OnlyCurrent, FlagTrue, ClosesToStop, Active
  <2> QED BY <2>2, <2>4, <2>5 DEF ServedIsRegistered
<1> QED BY <1>1, <1>2, <1>3

\* The close event of the current socket, or of one given up long ago.
LEMMA ClosedStep ==
  ASSUME CInv, NEW s \in Sockets, Closed(s)
  PROVE  CInv'
<1> USE ControlAssumption DEF CInv
<1>1. linkFaults' \in 0..MaxLinkFaults
  BY FaultCounted DEF Closed, ControlTypeOK
<1>2. /\ client[s] \in {"open", "closing"} /\ client' = [client EXCEPT ![s] = "none"]
      /\ UNCHANGED <<connecting, server, registry, revoked, expired>>
  BY DEF Closed
<1>3. PICK code \in {"other", "auth"} : onClose(s, code)
  BY DEF Closed
<1>4. CASE ws # s
  <2>1. UNCHANGED <<ws, connected, timer, stopRequested>>
    BY <1>3, <1>4 DEF onClose
  <2>2. ControlTypeOK'
    BY <1>1, <1>2, <2>1 DEF ControlTypeOK, Ends
  <2>3. OnlyCurrent' /\ FlagTrue' /\ ClosesToStop'
    BY <1>2, <1>4, <2>1 DEF ControlTypeOK, OnlyCurrent, FlagTrue, ClosesToStop, Active
  <2> QED BY <1>2, <2>2, <2>3 DEF ServedIsRegistered
<1>5. CASE ws = s
  <2>1. /\ connected' = FALSE /\ ws' = NoSocket /\ stopRequested' = (stopRequested \/ code = "auth")
        /\ timer' = IF code = "auth" THEN timer ELSE ~stopRequested
    BY <1>3, <1>5 DEF onClose, scheduleReconnect
  <2>2. Active' = {}
    BY <1>2, <1>5 DEF ControlTypeOK, OnlyCurrent, Active
  <2>3. timer' => connecting' = "no"
    BY <1>2, <1>5, <2>1 DEF ControlTypeOK, FlagTrue, ClosesToStop
  <2>4. ControlTypeOK'
    BY <1>1, <1>2, <2>1, <2>3 DEF ControlTypeOK, Ends
  <2>5. OnlyCurrent' /\ FlagTrue' /\ ClosesToStop'
    BY <2>1, <2>2 DEF OnlyCurrent, FlagTrue, ClosesToStop
  <2> QED BY <1>2, <2>4, <2>5 DEF ServedIsRegistered
<1> QED BY <1>4, <1>5

\* stop() and the revoke frame give the socket up.
LEMMA StopStep ==
  ASSUME CInv, Stop \/ RevokeFrame
  PROVE  CInv'
<1> USE ControlAssumption DEF CInv
<1>1. /\ stopRequested' = TRUE /\ timer' = FALSE /\ ws' = NoSocket /\ connected' = FALSE
      /\ UNCHANGED <<server, registry, revoked, expired, linkFaults>>
      /\ connecting' \in {"unstarted", "no", "token", "opening"}
  BY DEF Stop, RevokeFrame, ControlTypeOK
<1>2. client' \in [Sockets -> Ends \cup {"hung"}] /\ Active' = {}
  BY DEF Stop, RevokeFrame, ControlTypeOK, OnlyCurrent, FlagTrue, Active, Ends
<1>3. ControlTypeOK'
  BY <1>1, <1>2 DEF ControlTypeOK
<1>4. OnlyCurrent' /\ FlagTrue' /\ ClosesToStop'
  BY <1>1, <1>2 DEF OnlyCurrent, FlagTrue, ClosesToStop
<1> QED BY <1>1, <1>3, <1>4 DEF ServedIsRegistered

\* The hub's steps: what is served stays what is registered.
LEMMA HubStep ==
  ASSUME CInv, Revoke \/ (\E s \in Sockets : Accept(s) \/ Register(s) \/ HandlerEnds(s))
  PROVE  CInv'
<1> USE ControlAssumption DEF CInv
<1>1. UNCHANGED <<ws, connecting, connected, timer, stopRequested, client, expired, linkFaults>>
  BY DEF Revoke, Accept, Register, HandlerEnds, daemon
<1>2. OnlyCurrent' /\ FlagTrue' /\ ClosesToStop'
  BY <1>1 DEF OnlyCurrent, FlagTrue, ClosesToStop, Active
<1>3. CASE Revoke
  BY <1>1, <1>2, <1>3 DEF Revoke, ControlTypeOK, ServedIsRegistered
<1>4. ASSUME NEW s \in Sockets, Accept(s) PROVE CInv'
  BY <1>1, <1>2, <1>4 DEF Accept, ControlTypeOK, ServedIsRegistered
<1>5. ASSUME NEW s \in Sockets, Register(s) PROVE CInv'
  BY <1>1, <1>2, <1>5 DEF Register, ControlTypeOK, ServedIsRegistered
<1>6. ASSUME NEW s \in Sockets, HandlerEnds(s) PROVE CInv'
  BY <1>1, <1>2, <1>6 DEF HandlerEnds, unregister, ControlTypeOK, ServedIsRegistered
<1> QED BY <1>3, <1>4, <1>5, <1>6

\* Every step preserves the invariant.
LEMMA CStep == CInv /\ [ControlNext]_controlVars => CInv'
<1> SUFFICES ASSUME CInv, [ControlNext]_controlVars PROVE CInv'
  OBVIOUS
<1>1. CASE UNCHANGED controlVars
  BY <1>1 DEF controlVars, daemon, CInv, ControlTypeOK, OnlyCurrent, FlagTrue, ClosesToStop, ServedIsRegistered, Active
<1>2. CASE ControlNext
  BY <1>2, AttemptStep, HandshakeStep, ClosedStep, StopStep, HubStep DEF ControlNext, Client, Hub
<1> QED BY <1>1, <1>2

\* The invariant holds throughout.
LEMMA CInvAlways == ControlSpec => []CInv
BY CInit, CStep, PTL DEF ControlSpec

\* Subsets of the channel's socket count at most one.
LEMMA CurrentIsOne == CInv => OneSocket
<1> SUFFICES ASSUME CInv PROVE Cardinality(Active) <= 1
  BY DEF OneSocket
<1>1. IsFiniteSet({ws}) /\ Cardinality({ws}) = 1
  BY FS_Singleton
<1>2. Active \subseteq {ws}
  BY DEF CInv, OnlyCurrent
<1> QED BY <1>1, <1>2, FS_Subset

\* Both ends agree on the connection: however stops, errors, refused tokens,
\* hung handshakes and reconnects interleave, the daemon uses one socket
\* (connect, onClose, scheduleReconnect), and the connection the hub serves is
\* the one it sends frames to (register, unregister).
THEOREM EndsAgree == ControlSpec => []ConnectionsAgree
<1>1. CInv => ConnectionsAgree
  BY CurrentIsOne DEF CInv, ConnectionsAgree
<1> QED BY <1>1, CInvAlways, PTL
-----------------------------------------------------------------------------
(* The start of a daemon: the inductive invariant *)

\* A process that waits waits for another one, and none is on its own list.
VictimsAreOthers ==
    /\ victim \in [Procs -> Procs \cup {NoPid}]
    /\ \A p \in Procs : (pc[p] \in Waiting => victim[p] \in Procs) /\ p \notin list[p]

\* Only the command of a background start spawns, and it takes no lock.
Locking == {"mkdir", "owner", "read", "reread", "rm", "retry", "waitLock"}
Roles ==
    \A p \in Procs :
        /\ pc[p] \in {"spawn", "poll"} => Mode(p) = "background"
        /\ pc[p] \in {"pid", "waitPid", "ps", "kill", "waitPs"} => Mode(p) # "child"
        /\ pc[p] = "check" => Mode(p) = "child"
        /\ pc[p] \in Locking => Mode(p) # "background"

\* Where a process is once it has run ps: the cloud start takes the lock first.
RanPs(p) ==
    \/ pc[p] \in {"kill", "waitPs", "spawn", "write"} \cup Serving
    \/ pc[p] \in Locking /\ Mode(p) # "cloud"

WillStop(p, q) == pc[p] \in {"kill", "waitPs"} /\ q \in list[p]

\* Of two processes that have run a ps that sees everything, the later one
\* has the earlier one still on its list, or has sent it SIGKILL.
Swept ==
    \A p, q \in Procs :
        /\ p # q /\ Runs(p) /\ Runs(q) /\ Mode(p) # "child" /\ Mode(q) # "child"
        /\ RanPs(p) /\ RanPs(q)
        => WillStop(p, q) \/ WillStop(q, p)

\* Starts that do not overlap: one process starts at a time;
Lone ==
    \A p, q \in Procs : pc[p] \in Starting \cup {"boot"} /\ pc[q] \in Starting \cup {"boot"} => p = q

\* while a daemon is there, the one that starts is at the step that finds it,
\* or waits for its end;
AtItsDoor(p, q) ==
    IF Mode(p) = "cloud"
    THEN pc[p] \in {"mkdir", "read"} \/ (pc[p] = "waitLock" /\ victim[p] = q)
    ELSE pc[p] = "pid" \/ (pc[p] = "waitPid" /\ victim[p] = q)

\* while one is stuck in its end, the lock is still its own.
BeforeTheLock(p) ==
    \/ pc[p] \in {"mkdir", "read", "waitLock", "reread", "retry"}
    \/ pc[p] \in {"pid", "waitPid", "ps", "kill", "waitPs", "spawn", "check"} /\ Mode(p) # "cloud"

OnRecord ==
    \A q \in Procs : pc[q] \in {"up", "stopping"} =>
        /\ lock = q
        /\ Runs(q) => pidFile = q
        /\ \A p \in Procs \ {q} : Alive(p) /\ pc[p] # "poll" =>
             IF Runs(q) THEN AtItsDoor(p, q) ELSE BeforeTheLock(p)

\* and a process has the lock when it writes its pid.
HoldsLock ==
    \A p \in Procs :
        /\ (\/ pc[p] \in {"write", "boot"}
            \/ Mode(p) = "cloud" /\ pc[p] \in {"pid", "waitPid", "ps", "kill", "waitPs"})
           => lock = p
        /\ pc[p] = "boot" => pidFile = p

InTurn == Lone /\ OnRecord /\ HoldsLock

StartInv ==
    /\ StartTypeOK /\ VictimsAreOthers /\ Roles
    /\ ~world.psFails => Swept
    /\ ~world.overlapping => InTurn

\* Init establishes the invariant of the start.
LEMMA StartInvInit == StartInit => StartInv
<1> SUFFICES ASSUME StartInit PROVE StartInv
  OBVIOUS
<1> USE DaemonStartAssumption DEF StartInit
<1>1. StartTypeOK
  <2>1. /\ pc \in [Procs -> Starting \cup {"poll"} \cup Serving \cup Gone]
        /\ sig \in [Procs -> {"none", "term", "kill"}] /\ list \in [Procs -> SUBSET Procs]
    BY DEF Gone
  <2>2. /\ \A p \in Procs : victim[p] \in (Procs \ {p}) \cup {NoPid}
        /\ mishaps \in 0..MaxMishaps
    OBVIOUS
  <2> QED BY <2>1, <2>2 DEF StartTypeOK
<1>2. VictimsAreOthers /\ Roles
  BY DEF VictimsAreOthers, Waiting, Roles, Locking
<1>3. Swept
  BY DEF Swept, RanPs, Serving, Locking
<1>4. Lone /\ OnRecord /\ HoldsLock
  BY DEF Lone, OnRecord, HoldsLock, Starting, Waiting
<1> QED BY <1>1, <1>2, <1>3, <1>4 DEF StartInv, InTurn

\* How a process goes on after its victim.
LEMMA AfterVictim ==
  ASSUME StartTypeOK, NEW p \in Procs, pc[p] \in Waiting, GoOn(p)
  PROVE  /\ pc' = [pc EXCEPT ![p] = IF pc[p] = "waitPid" THEN "ps"
                                    ELSE IF pc[p] = "waitPs" THEN "kill" ELSE "reread"]
         /\ victim' = [victim EXCEPT ![p] = NoPid]
         /\ list' = [list EXCEPT ![p] = @ \ {victim[p]}]
         /\ pidFile' = IF pc[p] = "waitPs" THEN pidFile ELSE NoPid
         /\ UNCHANGED <<world, sig, lock, mishaps>>
<1>1. /\ victim' = [victim EXCEPT ![p] = NoPid]
      /\ list' = [list EXCEPT ![p] = @ \ {victim[p]}]
      /\ pidFile' = IF pc[p] = "waitPs" THEN pidFile ELSE NoPid
      /\ UNCHANGED <<world, sig, lock, mishaps>>
  BY DEF GoOn
<1>2. pc' = [pc EXCEPT ![p] = [waitPid |-> "ps", waitPs |-> "kill", waitLock |-> "reread"][pc[p]]]
  BY DEF GoOn, Go
<1>3. CASE pc[p] = "waitPid"
  BY <1>1, <1>2, <1>3
<1>4. CASE pc[p] = "waitPs"
  BY <1>1, <1>2, <1>4
<1>5. CASE pc[p] = "waitLock"
  BY <1>1, <1>2, <1>5
<1> QED BY <1>3, <1>4, <1>5 DEF Waiting

\* Any step of a process.
ProcStep(p) ==
    \/ Start(p) \/ StartStep(p) \/ (Runs(p) /\ Escalate(p)) \/ Setback(p)
    \/ Deliver(p) \/ Killed(p)

\* Steps keep the types, and what a process waits for is another process.
LEMMA StartTypes ==
  ASSUME StartTypeOK, VictimsAreOthers, Roles, NEW p \in Procs, ProcStep(p)
  PROVE  StartTypeOK' /\ VictimsAreOthers'
<1> USE DaemonStartAssumption DEF Alive, StartTypeOK, VictimsAreOthers, Waiting,
        Starting, Serving, Gone
<1>1. CASE Start(p)
  BY <1>1 DEF Start, Goto, Go, Mode
<1>2. CASE StopFromPidFile(p)
  BY <1>2 DEF StopFromPidFile, Signal, Goto, Go, Term
<1>3. CASE ListOthers(p)
  BY <1>3 DEF ListOthers, Go
<1>4. CASE StopOther(p)
  BY <1>4 DEF StopOther, Signal, Goto, Go, Term, AfterPs, Mode
<1>5. CASE Stopped(p)
  BY <1>5, AfterVictim DEF Stopped
<1>6. CASE Spawn(p)
  BY <1>6 DEF Spawn
<1>7. CASE Polled(p)
  BY <1>7 DEF Polled, Goto, Go
<1>8. CASE CheckNoOther(p)
  BY <1>8 DEF CheckNoOther, Goto, Go
<1>9. CASE MakeLock(p)
  BY <1>9 DEF MakeLock, Go
<1>10. CASE WriteOwner(p)
  BY <1>10 DEF WriteOwner, Go, AfterLock, Mode
<1>11. CASE ReadOwner(p)
  BY <1>11 DEF ReadOwner, Signal, Goto, Go, Term, AfterLock, Mode
<1>12. CASE RereadOwner(p)
  BY <1>12 DEF RereadOwner, Goto, Go
<1>13. CASE RemoveStale(p)
  BY <1>13 DEF RemoveStale, Go
<1>14. CASE Retry(p)
  BY <1>14 DEF Retry, Goto, Go
<1>15. CASE WritePid(p)
  BY <1>15 DEF WritePid, Go
<1>16. CASE Up(p)
  BY <1>16 DEF Up, Goto, Go
<1>17. CASE Shutdown(p)
  BY <1>17 DEF Shutdown, Exit, Go
<1>18. CASE Escalate(p)
  BY <1>18 DEF Escalate
<1>19. CASE WaitedOut(p)
  BY <1>19, AfterVictim DEF WaitedOut
<1>20. CASE AcquireTimeout(p)
  BY <1>20 DEF AcquireTimeout, Mishap, Go
<1>21. CASE BootFails(p)
  BY <1>21 DEF BootFails, Mishap, Exit, Go
<1>22. CASE Deliver(p)
  BY <1>22 DEF Deliver, Go
<1>23. CASE Killed(p)
  BY <1>23 DEF Killed, Mishap, Go
<1> QED BY <1>1, <1>2, <1>3, <1>4, <1>5, <1>6, <1>7, <1>8, <1>9, <1>10, <1>11, <1>12, <1>13, <1>14, <1>15, <1>16, <1>17, <1>18, <1>19, <1>20, <1>21, <1>22, <1>23
     DEF ProcStep, StartStep, Setback

\* Steps keep to the part of the process.
LEMMA RolesStep ==
  ASSUME StartTypeOK, VictimsAreOthers, Roles, NEW p \in Procs, ProcStep(p)
  PROVE  Roles'
<1> USE DaemonStartAssumption DEF Alive, StartTypeOK, VictimsAreOthers, Roles, Mode, Locking, Waiting,
        Starting, Serving, Gone
<1>1. CASE Start(p)
  BY <1>1 DEF Start, Goto, Go, Mode
<1>2. CASE StopFromPidFile(p)
  BY <1>2 DEF StopFromPidFile, Signal, Goto, Go, Term
<1>3. CASE ListOthers(p)
  BY <1>3 DEF ListOthers, Go
<1>4. CASE StopOther(p)
  BY <1>4 DEF StopOther, Signal, Goto, Go, Term, AfterPs, Mode
<1>5. CASE Stopped(p)
  BY <1>5, AfterVictim DEF Stopped
<1>6. CASE Spawn(p)
  BY <1>6 DEF Spawn
<1>7. CASE Polled(p)
  BY <1>7 DEF Polled, Goto, Go
<1>8. CASE CheckNoOther(p)
  BY <1>8 DEF CheckNoOther, Goto, Go
<1>9. CASE MakeLock(p)
  BY <1>9 DEF MakeLock, Go
<1>10. CASE WriteOwner(p)
  BY <1>10 DEF WriteOwner, Go, AfterLock, Mode
<1>11. CASE ReadOwner(p)
  BY <1>11 DEF ReadOwner, Signal, Goto, Go, Term, AfterLock, Mode
<1>12. CASE RereadOwner(p)
  BY <1>12 DEF RereadOwner, Goto, Go
<1>13. CASE RemoveStale(p)
  BY <1>13 DEF RemoveStale, Go
<1>14. CASE Retry(p)
  BY <1>14 DEF Retry, Goto, Go
<1>15. CASE WritePid(p)
  BY <1>15 DEF WritePid, Go
<1>16. CASE Up(p)
  BY <1>16 DEF Up, Goto, Go
<1>17. CASE Shutdown(p)
  BY <1>17 DEF Shutdown, Exit, Go
<1>18. CASE Escalate(p)
  BY <1>18 DEF Escalate
<1>19. CASE WaitedOut(p)
  BY <1>19, AfterVictim DEF WaitedOut
<1>20. CASE AcquireTimeout(p)
  BY <1>20 DEF AcquireTimeout, Mishap, Go
<1>21. CASE BootFails(p)
  BY <1>21 DEF BootFails, Mishap, Exit, Go
<1>22. CASE Deliver(p)
  BY <1>22 DEF Deliver, Go
<1>23. CASE Killed(p)
  BY <1>23 DEF Killed, Mishap, Go
<1> QED BY <1>1, <1>2, <1>3, <1>4, <1>5, <1>6, <1>7, <1>8, <1>9, <1>10, <1>11, <1>12, <1>13, <1>14, <1>15, <1>16, <1>17, <1>18, <1>19, <1>20, <1>21, <1>22, <1>23
     DEF ProcStep, StartStep, Setback

\* With a ps that sees everything: a process leaves its list only when all that
\* were on it have ended or have SIGKILL on its way to them.
LEMMA SweptStep ==
  ASSUME StartTypeOK, VictimsAreOthers, Roles, ~world.psFails, Swept, NEW p \in Procs, ProcStep(p)
  PROVE  Swept'
<1> USE DaemonStartAssumption DEF Alive, Runs, StartTypeOK, VictimsAreOthers, Roles, Mode, Swept, RanPs,
        WillStop, Locking, Waiting, Starting, Serving, Gone
<1>1. CASE Start(p)
  BY <1>1 DEF Start, Goto, Go, Mode
<1>2. CASE StopFromPidFile(p)
  BY <1>2 DEF StopFromPidFile, Signal, Goto, Go, Term
<1>3. CASE ListOthers(p)
  BY <1>3 DEF ListOthers, Go
<1>4. CASE StopOther(p)
  BY <1>4 DEF StopOther, Signal, Goto, Go, Term, AfterPs, Mode
<1>5. CASE Stopped(p)
  BY <1>5, AfterVictim DEF Stopped
<1>6. CASE Spawn(p)
  BY <1>6 DEF Spawn
<1>7. CASE Polled(p)
  BY <1>7 DEF Polled, Goto, Go
<1>8. CASE CheckNoOther(p)
  BY <1>8 DEF CheckNoOther, Goto, Go
<1>9. CASE MakeLock(p)
  BY <1>9 DEF MakeLock, Go
<1>10. CASE WriteOwner(p)
  BY <1>10 DEF WriteOwner, Go, AfterLock, Mode
<1>11. CASE ReadOwner(p)
  BY <1>11 DEF ReadOwner, Signal, Goto, Go, Term, AfterLock, Mode
<1>12. CASE RereadOwner(p)
  BY <1>12 DEF RereadOwner, Goto, Go
<1>13. CASE RemoveStale(p)
  BY <1>13 DEF RemoveStale, Go
<1>14. CASE Retry(p)
  BY <1>14 DEF Retry, Goto, Go
<1>15. CASE WritePid(p)
  BY <1>15 DEF WritePid, Go
<1>16. CASE Up(p)
  BY <1>16 DEF Up, Goto, Go
<1>17. CASE Shutdown(p)
  BY <1>17 DEF Shutdown, Exit, Go
<1>18. CASE Escalate(p)
  BY <1>18 DEF Escalate
<1>19. CASE WaitedOut(p)
  BY <1>19, AfterVictim DEF WaitedOut
<1>20. CASE AcquireTimeout(p)
  BY <1>20 DEF AcquireTimeout, Mishap, Go
<1>21. CASE BootFails(p)
  BY <1>21 DEF BootFails, Mishap, Exit, Go
<1>22. CASE Deliver(p)
  BY <1>22 DEF Deliver, Go
<1>23. CASE Killed(p)
  BY <1>23 DEF Killed, Mishap, Go
<1> QED BY <1>1, <1>2, <1>3, <1>4, <1>5, <1>6, <1>7, <1>8, <1>9, <1>10, <1>11, <1>12, <1>13, <1>14, <1>15, <1>16, <1>17, <1>18, <1>19, <1>20, <1>21, <1>22, <1>23
     DEF ProcStep, StartStep, Setback

\* Starts one at a time: only a start makes a starter, and it waits for the
\* other to be through.
LEMMA LoneStep ==
  ASSUME StartTypeOK, VictimsAreOthers, Roles, ~world.overlapping, InTurn, NEW p \in Procs, ProcStep(p)
  PROVE  Lone'
<1> USE DaemonStartAssumption DEF Alive, StartTypeOK, VictimsAreOthers, Roles, InTurn, Lone,
        Mode, Waiting, Starting, Serving, Gone
<1>1. CASE Start(p)
  BY <1>1 DEF Start, Goto, Go, Mode
<1>2. CASE StopFromPidFile(p)
  BY <1>2 DEF StopFromPidFile, Signal, Goto, Go, Term
<1>3. CASE ListOthers(p)
  BY <1>3 DEF ListOthers, Go
<1>4. CASE StopOther(p)
  BY <1>4 DEF StopOther, Signal, Goto, Go, Term, AfterPs, Mode
<1>5. CASE Stopped(p)
  BY <1>5, AfterVictim DEF Stopped
<1>6. CASE Spawn(p)
  BY <1>6 DEF Spawn
<1>7. CASE Polled(p)
  BY <1>7 DEF Polled, Goto, Go
<1>8. CASE CheckNoOther(p)
  BY <1>8 DEF CheckNoOther, Goto, Go
<1>9. CASE MakeLock(p)
  BY <1>9 DEF MakeLock, Go
<1>10. CASE WriteOwner(p)
  BY <1>10 DEF WriteOwner, Go, AfterLock, Mode
<1>11. CASE ReadOwner(p)
  BY <1>11 DEF ReadOwner, Signal, Goto, Go, Term, AfterLock, Mode
<1>12. CASE RereadOwner(p)
  BY <1>12 DEF RereadOwner, Goto, Go
<1>13. CASE RemoveStale(p)
  BY <1>13 DEF RemoveStale, Go
<1>14. CASE Retry(p)
  BY <1>14 DEF Retry, Goto, Go
<1>15. CASE WritePid(p)
  BY <1>15 DEF WritePid, Go
<1>16. CASE Up(p)
  BY <1>16 DEF Up, Goto, Go
<1>17. CASE Shutdown(p)
  BY <1>17 DEF Shutdown, Exit, Go
<1>18. CASE Escalate(p)
  BY <1>18 DEF Escalate
<1>19. CASE WaitedOut(p)
  BY <1>19, AfterVictim DEF WaitedOut
<1>20. CASE AcquireTimeout(p)
  BY <1>20 DEF AcquireTimeout, Mishap, Go
<1>21. CASE BootFails(p)
  BY <1>21 DEF BootFails, Mishap, Exit, Go
<1>22. CASE Deliver(p)
  BY <1>22 DEF Deliver, Go
<1>23. CASE Killed(p)
  BY <1>23 DEF Killed, Mishap, Go
<1> QED BY <1>1, <1>2, <1>3, <1>4, <1>5, <1>6, <1>7, <1>8, <1>9, <1>10, <1>11, <1>12, <1>13, <1>14, <1>15, <1>16, <1>17, <1>18, <1>19, <1>20, <1>21, <1>22, <1>23
     DEF ProcStep, StartStep, Setback

\* Starts one at a time: nobody gets past a daemon that lives, whatever ps says,
\* since the pid file (or the lock, in the cloud) names it.
LEMMA OnRecordStep ==
  ASSUME StartTypeOK, VictimsAreOthers, Roles, ~world.overlapping, InTurn, NEW p \in Procs, ProcStep(p)
  PROVE  OnRecord'
<1> USE DaemonStartAssumption DEF Alive, Runs, StartTypeOK, VictimsAreOthers, Roles, Locking, InTurn, Lone,
        OnRecord, HoldsLock, AtItsDoor, BeforeTheLock, Mode, Waiting, Starting, Serving, Gone
<1>1. CASE Start(p)
  BY <1>1 DEF Start, Goto, Go, Mode
<1>2. CASE StopFromPidFile(p)
  BY <1>2 DEF StopFromPidFile, Signal, Goto, Go, Term
<1>3. CASE ListOthers(p)
  BY <1>3 DEF ListOthers, Go
<1>4. CASE StopOther(p)
  BY <1>4 DEF StopOther, Signal, Goto, Go, Term, AfterPs, Mode
<1>5. CASE Stopped(p)
  BY <1>5, AfterVictim DEF Stopped
<1>6. CASE Spawn(p)
  BY <1>6 DEF Spawn
<1>7. CASE Polled(p)
  BY <1>7 DEF Polled, Goto, Go
<1>8. CASE CheckNoOther(p)
  BY <1>8 DEF CheckNoOther, Goto, Go
<1>9. CASE MakeLock(p)
  BY <1>9 DEF MakeLock, Go
<1>10. CASE WriteOwner(p)
  BY <1>10 DEF WriteOwner, Go, AfterLock, Mode
<1>11. CASE ReadOwner(p)
  BY <1>11 DEF ReadOwner, Signal, Goto, Go, Term, AfterLock, Mode
<1>12. CASE RereadOwner(p)
  BY <1>12 DEF RereadOwner, Goto, Go
<1>13. CASE RemoveStale(p)
  BY <1>13 DEF RemoveStale, Go
<1>14. CASE Retry(p)
  BY <1>14 DEF Retry, Goto, Go
<1>15. CASE WritePid(p)
  BY <1>15 DEF WritePid, Go
<1>16. CASE Up(p)
  BY <1>16 DEF Up, Goto, Go
<1>17. CASE Shutdown(p)
  BY <1>17 DEF Shutdown, Exit, Go
<1>18. CASE Escalate(p)
  BY <1>18 DEF Escalate
<1>19. CASE WaitedOut(p)
  BY <1>19, AfterVictim DEF WaitedOut
<1>20. CASE AcquireTimeout(p)
  BY <1>20 DEF AcquireTimeout, Mishap, Go
<1>21. CASE BootFails(p)
  BY <1>21 DEF BootFails, Mishap, Exit, Go
<1>22. CASE Deliver(p)
  BY <1>22 DEF Deliver, Go
<1>23. CASE Killed(p)
  BY <1>23 DEF Killed, Mishap, Go
<1> QED BY <1>1, <1>2, <1>3, <1>4, <1>5, <1>6, <1>7, <1>8, <1>9, <1>10, <1>11, <1>12, <1>13, <1>14, <1>15, <1>16, <1>17, <1>18, <1>19, <1>20, <1>21, <1>22, <1>23
     DEF ProcStep, StartStep, Setback

\* Starts one at a time: the release of an older daemon does not take the lock
\* that the one that starts has made.
LEMMA HoldsLockStep ==
  ASSUME StartTypeOK, VictimsAreOthers, Roles, ~world.overlapping, InTurn, NEW p \in Procs, ProcStep(p)
  PROVE  HoldsLock'
<1> USE DaemonStartAssumption DEF Alive, Runs, StartTypeOK, VictimsAreOthers, Roles, InTurn, Lone,
        OnRecord, HoldsLock, AtItsDoor, BeforeTheLock, Mode, Waiting, Starting, Serving, Gone
<1>1. CASE Start(p)
  BY <1>1 DEF Start, Goto, Go, Mode
<1>2. CASE StopFromPidFile(p)
  BY <1>2 DEF StopFromPidFile, Signal, Goto, Go, Term
<1>3. CASE ListOthers(p)
  BY <1>3 DEF ListOthers, Go
<1>4. CASE StopOther(p)
  BY <1>4 DEF StopOther, Signal, Goto, Go, Term, AfterPs, Mode
<1>5. CASE Stopped(p)
  BY <1>5, AfterVictim DEF Stopped
<1>6. CASE Spawn(p)
  BY <1>6 DEF Spawn
<1>7. CASE Polled(p)
  BY <1>7 DEF Polled, Goto, Go
<1>8. CASE CheckNoOther(p)
  BY <1>8 DEF CheckNoOther, Goto, Go
<1>9. CASE MakeLock(p)
  BY <1>9 DEF MakeLock, Go
<1>10. CASE WriteOwner(p)
  BY <1>10 DEF WriteOwner, Go, AfterLock, Mode
<1>11. CASE ReadOwner(p)
  BY <1>11 DEF ReadOwner, Signal, Goto, Go, Term, AfterLock, Mode
<1>12. CASE RereadOwner(p)
  BY <1>12 DEF RereadOwner, Goto, Go
<1>13. CASE RemoveStale(p)
  BY <1>13 DEF RemoveStale, Go
<1>14. CASE Retry(p)
  BY <1>14 DEF Retry, Goto, Go
<1>15. CASE WritePid(p)
  BY <1>15 DEF WritePid, Go
<1>16. CASE Up(p)
  BY <1>16 DEF Up, Goto, Go
<1>17. CASE Shutdown(p)
  BY <1>17 DEF Shutdown, Exit, Go
<1>18. CASE Escalate(p)
  BY <1>18 DEF Escalate
<1>19. CASE WaitedOut(p)
  BY <1>19, AfterVictim DEF WaitedOut
<1>20. CASE AcquireTimeout(p)
  BY <1>20 DEF AcquireTimeout, Mishap, Go
<1>21. CASE BootFails(p)
  BY <1>21 DEF BootFails, Mishap, Exit, Go
<1>22. CASE Deliver(p)
  BY <1>22 DEF Deliver, Go
<1>23. CASE Killed(p)
  BY <1>23 DEF Killed, Mishap, Go
<1> QED BY <1>1, <1>2, <1>3, <1>4, <1>5, <1>6, <1>7, <1>8, <1>9, <1>10, <1>11, <1>12, <1>13, <1>14, <1>15, <1>16, <1>17, <1>18, <1>19, <1>20, <1>21, <1>22, <1>23
     DEF ProcStep, StartStep, Setback

\* cmdStop takes away only a pid file that names no living process.
LEMMA StopCommandStep ==
  ASSUME StartInv, StopCommand
  PROVE  StartInv'
<1> USE DaemonStartAssumption DEF StartInv
<1>1. /\ UNCHANGED <<pc, world, list, victim, lock>>
      /\ mishaps' \in 0..MaxMishaps
      /\ sig' \in [Procs -> {"none", "term", "kill"}]
      /\ \A p \in Procs : sig'[p] = "kill" <=> sig[p] = "kill"
      /\ pidFile \in Procs
      /\ pidFile' = IF Alive(pidFile) THEN pidFile ELSE NoPid
  BY DEF StopCommand, Mishap, Term, StartTypeOK
<1>2. StartTypeOK' /\ VictimsAreOthers' /\ Roles'
  BY <1>1 DEF StartTypeOK, VictimsAreOthers, Roles, Mode
<1>3. Swept => Swept'
  BY <1>1 DEF Swept, RanPs, WillStop, Runs, Mode
<1>4. InTurn => InTurn'
  BY <1>1 DEF InTurn, Lone, OnRecord, HoldsLock, AtItsDoor, BeforeTheLock, Runs, Mode, Alive, Gone
<1> QED BY <1>1, <1>2, <1>3, <1>4

\* Every step preserves the invariant, and the world stays.
LEMMA StartInvStep == StartInv /\ [StartNext]_startVars => StartInv'
<1> SUFFICES ASSUME StartInv, [StartNext]_startVars PROVE StartInv'
  OBVIOUS
<1>1. CASE UNCHANGED startVars
  <2>1. StartTypeOK' /\ VictimsAreOthers' /\ Roles' /\ UNCHANGED world
    BY <1>1 DEF startVars, StartInv, StartTypeOK, VictimsAreOthers, Roles, Mode
  <2>2. (Swept => Swept') /\ (InTurn => InTurn')
    BY <1>1 DEF startVars, Swept, RanPs, WillStop, Runs, Mode, InTurn, Lone, OnRecord, HoldsLock,
                AtItsDoor, BeforeTheLock, Alive
  <2> QED BY <2>1, <2>2 DEF StartInv
<1>2. CASE \E p \in Procs : ProcStep(p)
  <2> PICK p \in Procs : ProcStep(p)
    BY <1>2
  <2>1. UNCHANGED world
    BY DEF ProcStep, StartStep, Setback, Start, StopFromPidFile, ListOthers, StopOther, Stopped, WaitedOut, GoOn,
           Spawn, Polled, CheckNoOther, MakeLock, WriteOwner, ReadOwner, RereadOwner, RemoveStale, Retry,
           WritePid, Up, Shutdown, Escalate, AcquireTimeout, BootFails, Deliver, Killed, Goto, Signal, Exit
  <2>2. StartTypeOK' /\ VictimsAreOthers' /\ Roles'
    BY StartTypes, RolesStep DEF StartInv
  <2>3. ~world.psFails => Swept'
    BY SweptStep DEF StartInv
  <2>4. ~world.overlapping => InTurn'
    BY LoneStep, OnRecordStep, HoldsLockStep DEF StartInv, InTurn
  <2> QED BY <2>1, <2>2, <2>3, <2>4 DEF StartInv
<1>3. CASE StopCommand
  BY <1>3, StopCommandStep
<1> QED BY <1>1, <1>2, <1>3 DEF StartNext, ProcStep

\* Who serves a home directory, for any number of starts in any mode, crashes
\* between any two calls to the file system, victims that outlive SIGKILL and
\* commands to stop: one daemon, which the pid file and the lock name, when the
\* starts come one at a time.  When they overlap, still one if ps sees every
\* process, except for the detached child of a background start, which runs no
\* ps (acquireDaemonSingletonLock, stopExistingDaemonForRestart,
\* stopOtherDaemonProcessesForRestart, cmdStart).
THEOREM OneDaemon == StartSpec => []SingletonHolds
<1>1. StartInv => SingletonHolds
  <2> SUFFICES ASSUME StartInv PROVE SingletonHolds
    OBVIOUS
  <2>1. OneDaemonIfSwept
    <3> SUFFICES ASSUME NEW p \in Daemons, NEW q \in Daemons, p # q
                 PROVE  world.overlapping /\ (world.psFails \/ "child" \in {Mode(p), Mode(q)})
      BY DEF OneDaemonIfSwept
    <3>1. ASSUME ~world.overlapping PROVE FALSE
      BY <3>1 DEF StartInv, InTurn, Lone, OnRecord, AtItsDoor, BeforeTheLock, Alive, Gone, Daemons, Serving
    <3>2. ASSUME ~world.psFails, Mode(p) # "child", Mode(q) # "child" PROVE FALSE
      BY <3>2 DEF StartInv, Swept, RanPs, WillStop, Daemons, Serving
    <3> QED BY <3>1, <3>2
  <2>2. DaemonIsOnRecord
    BY DEF StartInv, InTurn, OnRecord, DaemonIsOnRecord, Runs
  <2> QED BY <2>1, <2>2 DEF SingletonHolds, StartInv
<1> QED BY <1>1, StartInvInit, StartInvStep, PTL DEF StartSpec

-----------------------------------------------------------------------------
(* The channel supervisor: the inductive invariant *)

Loops(i) == i \in live \/ channel[i].timer

\* i runs no more than to its end: no restart follows.
Ending(i) == ~channel[i].timer /\ (i \in live => channel[i].stopRequested)

\* Adapters are made in their order.
MadeInOrder == \E k \in 0..Cardinality(Adapters) : Made = 1..k

\* What runs, or will run again, has the manager's entry, unless it is a stray.
LoopsHaveEntry == \A i \in Adapters \ strays : Loops(i) => i = entries

\* The adapter a removal waits for is at its end; what has the entry instead of
\* it was added meanwhile.
RemovalEnds ==
  \A c \in Callers : call[c].pc = "removing" =>
    /\ call[c].target # NoChannel => Ending(call[c].target)
    /\ entries \in {call[c].target, NoChannel} \cup strays

\* Nothing is added once the gateway stops, and what runs ends.
StopEnds ==
  stopping.pc # "no" =>
    /\ entries \in {stopping.target, NoChannel}
    /\ entries # NoChannel => Ending(entries) /\ (stopping.pc = "done" => entries \notin live)

\* What the gateway does not know, or was removed, has no entry left.
MapsAgree == channelMap = NoChannel \/ removed => entries \in {NoChannel} \cup strays

\* A removal waits for an adapter that was made.
TargetsMade == \A c \in Callers : call[c].target \in Made \cup {NoChannel}

ManagerInv ==
  /\ ManagerTypeOK /\ MadeInOrder /\ TargetsMade /\ LoopsHaveEntry
  /\ RemovalEnds /\ StopEnds /\ MapsAgree

\* Init establishes the invariant of the supervisor.
LEMMA ManagerInvInit == ManagerInit => ManagerInv
<1> SUFFICES ASSUME ManagerInit PROVE ManagerInv
  OBVIOUS
<1> USE ChannelAssumption DEF ManagerInit
<1>1. Made = 1..1 /\ Cardinality(Adapters) \in Nat /\ 1 <= Cardinality(Adapters)
  BY FS_CardinalityType DEF Made, Running, Fresh
<1>2. ManagerTypeOK
  <2>1. channel \in [Adapters -> ChannelEntries]
    BY DEF Running, Fresh, ChannelEntries
  <2>2. live \subseteq Made /\ entries \in Made /\ backoff \in [Adapters -> 0..MaxBackoff]
    BY <1>1
  <2>3. call \in [Callers -> Calls]
    BY DEF NoCall, Calls
  <2>4. relay \in [Relays -> [pc : {"idle", "busy", "done"}, previous : Adapters \cup Relays \cup {NoChannel}]]
    OBVIOUS
  <2>5. /\ stopping \in [pc : {"no", "waiting", "done"}, target : Adapters \cup {NoChannel}]
        /\ removed \in BOOLEAN /\ strays \subseteq Adapters
    OBVIOUS
  <2>6. channelMap \in Adapters /\ \A i \in Adapters : ~channel[i].timer
    BY DEF Running, Fresh
  <2> QED BY <2>1, <2>2, <2>3, <2>4, <2>5, <2>6 DEF ManagerTypeOK, ChannelEntries, Calls
<1>3. MadeInOrder /\ TargetsMade /\ LoopsHaveEntry
  BY <1>1 DEF MadeInOrder, TargetsMade, NoCall, LoopsHaveEntry, Loops, Running, Fresh
<1>4. RemovalEnds /\ StopEnds /\ MapsAgree
  BY DEF RemovalEnds, StopEnds, MapsAgree, NoCall
<1> QED BY <1>2, <1>3, <1>4 DEF ManagerInv

\* The next adapter is a new one, and comes next in the order.
LEMMA NextAdapter ==
  ASSUME MadeInOrder, Made # Adapters
  PROVE  /\ Cardinality(Made) + 1 \in Adapters \ Made
         /\ \E k \in 0..Cardinality(Adapters) : Made \cup {Cardinality(Made) + 1} = 1..k
<1> DEFINE N == Cardinality(Adapters)
<1>1. N \in Nat /\ Adapters = 1..N
  BY ChannelAssumption, FS_CardinalityType
<1>2. PICK k \in 0..N : Made = 1..k
  BY DEF MadeInOrder
<1>3. Cardinality(Made) = k
  BY <1>1, <1>2, FS_Interval
<1>4. k + 1 \in 1..N /\ k < N
  BY <1>1, <1>2
<1>5. Made \cup {k + 1} = 1..(k + 1)
  BY <1>1, <1>2
<1> QED BY <1>1, <1>2, <1>3, <1>4, <1>5

\* The backoff stays within its maximum.
LEMMA BackoffBounded ==
  ASSUME NEW b \in 0..MaxBackoff
  PROVE  Min({b + 1, MaxBackoff}) \in 0..MaxBackoff
<1>1. \E x \in {b + 1, MaxBackoff} : \A y \in {b + 1, MaxBackoff} : x <= y
  BY ChannelAssumption
<1>2. /\ Min({b + 1, MaxBackoff}) \in {b + 1, MaxBackoff}
      /\ Min({b + 1, MaxBackoff}) <= MaxBackoff
  BY <1>1 DEF Min
<1> QED BY <1>2, ChannelAssumption

\* Requests to stop: no restart follows.
LEMMA StopRequested ==
  ASSUME ManagerTypeOK, NEW i \in Adapters, RequestStop(i), UNCHANGED live
  PROVE  /\ channel' \in [Adapters -> ChannelEntries]
         /\ Made' = Made
         /\ Ending(i)'
         /\ \A j \in Adapters : Ending(j) => Ending(j)'
         /\ \A j \in Adapters : Loops(j)' => Loops(j)
         /\ \A j \in Adapters : channel'[j].timer => channel[j].timer /\ channel'[j] = channel[j]
BY DEF RequestStop, ManagerTypeOK, Made, Ending, Loops, ChannelEntries, Calls

\* A run ends, and a restart follows only if nobody asked for a stop.
LEMMA ExitStep ==
  ASSUME ManagerInv, NEW i \in Adapters, NEW how \in {"exit", "crash", "permanent"}, onExit(i, how)
  PROVE  ManagerInv'
<1> USE ChannelAssumption DEF ManagerInv
<1> DEFINE told == channel[i].stopRequested \/ how = "permanent"
<1>1. /\ i \in live /\ live' = live \ {i}
      /\ UNCHANGED <<entries, channelMap, call, relay, stopping, removed, strays>>
  BY DEF onExit, front
<1>9. backoff' \in [Adapters -> 0..MaxBackoff]
  <2>1. backoff \in [Adapters -> 0..MaxBackoff] /\ 0 \in 0..MaxBackoff
    BY DEF ManagerTypeOK, ChannelEntries, Calls
  <2>2. backoff' = backoff \/ \E b \in {backoff[i], 0} : backoff' = [backoff EXCEPT ![i] = b]
    BY DEF onExit
  <2> QED BY <2>1, <2>2
<1>2. PICK st \in {"idle", "crashed"} :
        channel' = [channel EXCEPT ![i] = [state |-> st, stopRequested |-> told, timer |-> ~told]]
  <2>1. ExitState[how] \in {"idle", "crashed"}
    BY DEF ExitState
  <2> QED BY <2>1 DEF onExit
<1>3. channel[i].stopRequested \in BOOLEAN /\ told \in BOOLEAN
  BY DEF ManagerTypeOK, ChannelEntries, Calls
<1> HIDE DEF told
<1>4. Made' = Made
  BY <1>1, <1>2 DEF Made, ManagerTypeOK, ChannelEntries, Calls
<1>5. ManagerTypeOK'
  BY <1>1, <1>9, <1>2, <1>3, <1>4 DEF ManagerTypeOK, ChannelEntries, Calls
<1>6. MadeInOrder' /\ TargetsMade' /\ LoopsHaveEntry'
  BY <1>1, <1>2, <1>4 DEF ManagerTypeOK, MadeInOrder, TargetsMade, LoopsHaveEntry, Loops, ChannelEntries, Calls
<1>7. \A j \in Adapters : Ending(j) => Ending(j)'
  BY <1>1, <1>2 DEF Ending, ManagerTypeOK, told, ChannelEntries, Calls
<1>10. entries \in Adapters \cup {NoChannel} /\ \A c \in Callers : call[c].target \in Adapters \cup {NoChannel}
  BY DEF ManagerTypeOK, Made, Calls
<1>8. RemovalEnds' /\ StopEnds' /\ MapsAgree'
  BY <1>1, <1>7, <1>10 DEF RemovalEnds, StopEnds, MapsAgree
<1> QED BY <1>5, <1>6, <1>8

\* A restart timer fires: nobody removes the adapter.
LEMMA RestartStep ==
  ASSUME ManagerInv, NEW i \in Adapters, scheduleRestart(i)
  PROVE  ManagerInv'
<1> USE ChannelAssumption DEF ManagerInv
<1>1. /\ channel[i].timer /\ ~channel[i].stopRequested
      /\ channel' = [channel EXCEPT ![i] = Running] /\ live' = live \cup {i}
      /\ UNCHANGED <<entries, channelMap, call, relay, stopping, removed, strays>>
  BY DEF scheduleRestart, launch, front
<1>2. backoff' \in [Adapters -> 0..MaxBackoff]
  <2>1. backoff' = [backoff EXCEPT ![i] = Min({backoff[i] + 1, MaxBackoff})] /\ backoff[i] \in 0..MaxBackoff
    BY DEF scheduleRestart, ManagerTypeOK, ChannelEntries, Calls
  <2>2. Min({backoff[i] + 1, MaxBackoff}) \in 0..MaxBackoff
    BY <2>1, BackoffBounded
  <2> HIDE DEF Min
  <2> QED BY <2>1, <2>2 DEF ManagerTypeOK, ChannelEntries, Calls
<1>3. Made' = Made /\ i \in Made
  BY <1>1 DEF Made, ManagerTypeOK, Running, ChannelEntries, Calls
<1>4. ManagerTypeOK'
  BY <1>1, <1>2, <1>3 DEF ManagerTypeOK, Running, ChannelEntries, Calls
<1>5. MadeInOrder' /\ TargetsMade' /\ LoopsHaveEntry'
  BY <1>1, <1>3 DEF MadeInOrder, TargetsMade, LoopsHaveEntry, Loops, ManagerTypeOK, ChannelEntries, Calls
<1>6. \A j \in Adapters : Ending(j) => j # i /\ Ending(j)' /\ (j \notin live => j \notin live')
  BY <1>1 DEF Ending, ManagerTypeOK
<1>8. entries \in Adapters \cup {NoChannel} /\ \A c \in Callers : call[c].target \in Adapters \cup {NoChannel}
  BY DEF ManagerTypeOK, Made, Calls
<1>7. RemovalEnds' /\ StopEnds' /\ MapsAgree'
  BY <1>1, <1>6, <1>8 DEF RemovalEnds, StopEnds, MapsAgree
<1> QED BY <1>4, <1>5, <1>7

\* A frame begins with a request to stop what has the entry, if the gateway
\* knows a channel.
LEMMA RemoveStartStep ==
  ASSUME ManagerInv, NEW c \in Callers, NEW op \in {"remove", "upsert"}, RemoveStart(c, op)
  PROVE  ManagerInv'
<1> USE ChannelAssumption DEF ManagerInv
<1> PICK i \in Adapters \cup {NoChannel} : i = IF channelMap = NoChannel THEN NoChannel ELSE entries
  BY DEF ManagerTypeOK, Made, ChannelEntries, Calls
<1>1. /\ UNCHANGED <<live, backoff, entries, channelMap, relay, stopping, removed, strays>>
      /\ i # NoChannel => i = entries
  BY DEF RemoveStart
<1>2. PICK st \in BOOLEAN :
        call' = [call EXCEPT ![c] = [pc |-> "removing", op |-> op, target |-> i,
                                     forgets |-> channelMap # NoChannel, stops |-> st]]
  BY DEF RemoveStart
<1>3. IF i = NoChannel THEN UNCHANGED channel ELSE RequestStop(i)
  BY DEF RemoveStart
<1>4. /\ channel' \in [Adapters -> ChannelEntries]
      /\ Made' = Made
      /\ i # NoChannel => Ending(i)'
      /\ \A j \in Adapters : Ending(j) => Ending(j)'
      /\ \A j \in Adapters : Loops(j)' => Loops(j)
      /\ \A j \in Adapters : channel'[j].timer => channel[j].timer /\ channel'[j] = channel[j]
  <2>1. CASE i = NoChannel
    <3>1. UNCHANGED <<channel, live>>
      BY <1>1, <1>3, <2>1
    <3>2. Made' = Made /\ \A j \in Adapters : (Ending(j) <=> Ending(j)') /\ (Loops(j) <=> Loops(j)')
      BY <3>1 DEF Made, Ending, Loops
    <3> QED BY <2>1, <3>1, <3>2 DEF ManagerTypeOK, ChannelEntries, Calls
  <2>2. CASE i # NoChannel
    BY <1>1, <1>3, <2>2, StopRequested
  <2> QED BY <2>1, <2>2
<1>5. ManagerTypeOK'
  BY <1>1, <1>2, <1>4 DEF ManagerTypeOK, ChannelEntries, Calls
<1>6. MadeInOrder' /\ LoopsHaveEntry'
  BY <1>1, <1>4 DEF MadeInOrder, LoopsHaveEntry
<1>7. call'[c].pc = "removing" /\ call'[c].target = i /\ \A d \in Callers \ {c} : call'[d] = call[d]
  BY <1>2 DEF ManagerTypeOK, ChannelEntries, Calls
<1>11. /\ entries \in {i, NoChannel} \cup strays
       /\ \A d \in Callers : call[d].target \in Adapters \cup {NoChannel}
  BY DEF MapsAgree, ManagerTypeOK, Calls
<1>12. TargetsMade'
  <2>1. i \in Made \cup {NoChannel}
    BY <1>1 DEF ManagerTypeOK
  <2> QED BY <1>4, <1>7, <2>1 DEF TargetsMade
<1>8. RemovalEnds'
  BY <1>1, <1>4, <1>7, <1>11 DEF RemovalEnds
<1>9. StopEnds'
  BY <1>1, <1>4 DEF StopEnds, ManagerTypeOK, Made, ChannelEntries, Calls
<1>10. MapsAgree'
  BY <1>1, <1>7 DEF MapsAgree
<1> QED BY <1>5, <1>6, <1>8, <1>9, <1>10, <1>12

\* adapter.stop() has settled, and the removal is over: what it waited for
\* runs no more and is not restarted.
LEMMA RemoveStep ==
  ASSUME ManagerInv, NEW c \in Callers, AdapterStopped(c) \/ RemoveEnd(c)
  PROVE  ManagerInv'
<1> USE ChannelAssumption DEF ManagerInv
<1>0. \A d \in Callers : call[d].target \in Adapters \cup {NoChannel}
  BY DEF ManagerTypeOK, Calls
<1>1. CASE AdapterStopped(c)
  <2>1. /\ UNCHANGED <<channel, live, backoff, entries, channelMap, relay, stopping, removed, strays>>
        /\ call' = [call EXCEPT ![c].stops = FALSE]
    BY <1>1 DEF AdapterStopped
  <2>2. ManagerTypeOK'
    <3>1. Made' = Made
      BY <2>1 DEF Made
    <3>2. call[c] \in Calls
      BY DEF ManagerTypeOK
    <3>3. [call[c] EXCEPT !.stops = FALSE] \in Calls
      BY <3>2 DEF Calls
    <3>4. call' \in [Callers -> Calls]
      BY <2>1, <3>2, <3>3 DEF ManagerTypeOK
    <3> QED BY <2>1, <3>1, <3>4 DEF ManagerTypeOK, Calls, ChannelEntries
  <2>3. MadeInOrder' /\ TargetsMade' /\ LoopsHaveEntry' /\ StopEnds'
    BY <2>1 DEF MadeInOrder, TargetsMade, Made, LoopsHaveEntry, Loops, StopEnds, Ending
  <2>4. \A d \in Callers : call'[d].pc = call[d].pc /\ call'[d].target = call[d].target
    BY <2>1 DEF ManagerTypeOK, ChannelEntries, Calls
  <2>5. RemovalEnds' /\ MapsAgree'
    BY <1>0, <2>1, <2>4 DEF RemovalEnds, MapsAgree, Ending
  <2> QED BY <2>2, <2>3, <2>5
<1>2. CASE RemoveEnd(c)
  <2>1. /\ call[c].pc = "removing" /\ call[c].target \notin live
        /\ entries' = IF call[c].target = NoChannel THEN entries ELSE NoChannel
        /\ channelMap' = IF call[c].forgets THEN NoChannel ELSE channelMap
        /\ UNCHANGED <<channel, live, backoff, relay, stopping, strays>>
    BY <1>2 DEF RemoveEnd, Awaited
  <2>2. /\ call' \in [Callers -> Calls] /\ call'[c].pc # "removing" /\ removed' \in BOOLEAN
        /\ call'[c].target \in {NoChannel, call[c].target} /\ \A d \in Callers \ {c} : call'[d] = call[d]
    <3>1. call \in [Callers -> Calls] /\ removed \in BOOLEAN
      BY DEF ManagerTypeOK, Calls, ChannelEntries
    <3>2. NoCall \in Calls /\ NoCall.pc = "idle" /\ [call[c] EXCEPT !.pc = "adding"] \in Calls
          /\ [call[c] EXCEPT !.pc = "adding"].pc = "adding" /\ NoCall.target = NoChannel
          /\ [call[c] EXCEPT !.pc = "adding"].target = call[c].target
      BY <3>1 DEF NoCall, Calls
    <3>3. \/ call' = [call EXCEPT ![c] = NoCall] /\ removed' = TRUE
          \/ call' = [call EXCEPT ![c] = [call[c] EXCEPT !.pc = "adding"]] /\ removed' = removed
      BY <1>2 DEF RemoveEnd
    <3> QED BY <3>1, <3>2, <3>3
  <2>3. ManagerTypeOK'
    BY <2>1, <2>2 DEF ManagerTypeOK, Made, Calls, ChannelEntries
  <2>4. MadeInOrder' /\ TargetsMade' /\ LoopsHaveEntry' /\ StopEnds'
    <3>1. entries \notin strays /\ entries # NoChannel => entries = call[c].target
      BY <2>1 DEF RemovalEnds
    <3>2. call[c].target # NoChannel => ~Loops(call[c].target)
      BY <1>0, <2>1 DEF RemovalEnds, Ending, Loops
    <3>3. MadeInOrder' /\ TargetsMade' /\ StopEnds'
      <4>1. Made' = Made
        BY <2>1 DEF Made
      <4> QED BY <2>1, <2>2, <4>1 DEF MadeInOrder, TargetsMade, StopEnds, Ending
    <3>4. LoopsHaveEntry'
      BY <2>1, <3>1, <3>2 DEF LoopsHaveEntry, Loops
    <3> QED BY <3>3, <3>4
  <2>5. RemovalEnds' /\ MapsAgree'
    <3>1. RemovalEnds'
      BY <1>0, <2>1, <2>2 DEF RemovalEnds, Ending
    <3>2. entries \in {NoChannel, call[c].target} \cup strays
      BY <2>1 DEF RemovalEnds
    <3>3. MapsAgree'
      BY <2>1, <3>2 DEF MapsAgree
    <3> QED BY <3>1, <3>3
  <2> QED BY <2>3, <2>4, <2>5
<1> QED BY <1>1, <1>2

\* A fresh adapter is launched only when nothing has the entry, so nothing but
\* strays runs; while others remove, it is one itself.
LEMMA AddStep ==
  ASSUME ManagerInv, NEW c \in Callers, AddChannel(c)
  PROVE  ManagerInv'
<1> USE ChannelAssumption DEF ManagerInv
<1>0. \A d \in Callers : call[d].target \in Adapters \cup {NoChannel}
  BY DEF ManagerTypeOK, Calls
<1>1. /\ call' \in [Callers -> Calls] /\ call'[c].pc = "idle" /\ call'[c].target = NoChannel
      /\ \A d \in Callers \ {c} : call'[d] = call[d]
      /\ UNCHANGED <<backoff, relay, stopping>>
  BY DEF AddChannel, ManagerTypeOK, NoCall, ChannelEntries, Calls
<1>2. CASE /\ UNCHANGED <<channel, live, entries, removed, strays>>
           /\ channelMap' \in Adapters \cup {channelMap}
  <2>1. ManagerTypeOK'
    BY <1>1, <1>2 DEF ManagerTypeOK, Made, ChannelEntries, Calls
  <2>2. MadeInOrder' /\ TargetsMade' /\ LoopsHaveEntry' /\ StopEnds'
    <3>1. Made' = Made
      BY <1>2 DEF Made
    <3> QED BY <1>1, <1>2, <3>1 DEF MadeInOrder, TargetsMade, LoopsHaveEntry, Loops, StopEnds, Ending
  <2>3. RemovalEnds' /\ MapsAgree'
    BY <1>1, <1>2 DEF RemovalEnds, MapsAgree, Ending
  <2> QED BY <2>1, <2>2, <2>3
<1>3. CASE /\ stopping.pc = "no" /\ channelMap = NoChannel /\ Made # Adapters /\ entries = NoChannel
           /\ channelMap' = Cardinality(Made) + 1
  <2> DEFINE i == Cardinality(Made) + 1
  <2>1. i \in Adapters \ Made /\ \E k \in 0..Cardinality(Adapters) : Made \cup {i} = 1..k
    BY <1>3, NextAdapter
  <2>2. /\ channelMap' = i /\ entries' = i /\ launch(i) /\ removed' = FALSE
        /\ strays' = IF Overlaps(c) THEN strays \cup {i} ELSE strays
    <3>1. channelMap' # channelMap
      BY <1>3, <2>1
    <3> QED BY <1>3, <3>1 DEF AddChannel
  <2> HIDE DEF i
  <2>3. channel' = [channel EXCEPT ![i] = Running] /\ live' = live \cup {i}
    BY <2>2 DEF launch
  <2>4. i \notin live /\ ~channel[i].timer /\ \A j \in Adapters \ strays : ~Loops(j)
    BY <1>3, <2>1 DEF LoopsHaveEntry, ManagerTypeOK, Made
  <2>5. Made' = Made \cup {i}
    BY <2>1, <2>3 DEF Made, ManagerTypeOK, Running, ChannelEntries, Calls
  <2>6. ManagerTypeOK'
    BY <1>1, <2>1, <2>2, <2>3, <2>5 DEF ManagerTypeOK, Running, ChannelEntries, Calls
  <2>7. MadeInOrder' /\ TargetsMade'
    BY <1>1, <2>1, <2>5 DEF MadeInOrder, TargetsMade
  <2>8. LoopsHaveEntry'
    BY <2>1, <2>2, <2>3, <2>4 DEF LoopsHaveEntry, Loops, ManagerTypeOK, Running, ChannelEntries, Calls
  <2>9. StopEnds' /\ MapsAgree'
    BY <1>1, <1>3, <2>1, <2>2 DEF StopEnds, MapsAgree
  <2>10. RemovalEnds'
    <3> SUFFICES ASSUME NEW d \in Callers, call'[d].pc = "removing"
                 PROVE  /\ call'[d].target # NoChannel => Ending(call[d].target)'
                        /\ entries' \in {call'[d].target, NoChannel} \cup strays'
      BY DEF RemovalEnds
    <3>1. d # c /\ call'[d] = call[d] /\ Overlaps(c)
      BY <1>1 DEF Overlaps
    <3>2. ASSUME call[d].target # NoChannel PROVE Ending(call[d].target)'
      <4>1. call[d].target \in Made /\ call[d].target \in Adapters /\ Ending(call[d].target)
        BY <3>1, <3>2, <1>0 DEF TargetsMade, RemovalEnds
      <4>2. channel'[call[d].target] = channel[call[d].target] /\ call'[d].target = call[d].target
            /\ (call[d].target \in live' => call[d].target \in live)
        BY <2>1, <2>3, <3>1, <4>1 DEF ManagerTypeOK
      <4> QED BY <4>1, <4>2 DEF Ending
    <3> QED BY <2>2, <3>1, <3>2
  <2> QED BY <2>6, <2>7, <2>8, <2>9, <2>10
<1> QED
  <2>1. \/ UNCHANGED <<channel, live, entries, channelMap, removed, strays>>
        \/ /\ stopping.pc = "no" /\ channelMap = NoChannel /\ Made # Adapters
           /\ channelMap' = Cardinality(Made) + 1
           /\ entries # NoChannel => UNCHANGED <<channel, live, entries, removed, strays>>
    BY DEF AddChannel
  <2>2. Made # Adapters => Cardinality(Made) + 1 \in Adapters
    BY NextAdapter
  <2> QED BY <1>2, <1>3, <2>1, <2>2

\* Gateway.stop: what has the entry is asked to stop; when it has, the reset of
\* its flag revives nothing.
LEMMA StopAllStep ==
  ASSUME ManagerInv, StopAll \/ StopAllEnds
  PROVE  ManagerInv'
<1> USE ChannelAssumption DEF ManagerInv
<1>0. UNCHANGED <<live, backoff, entries, channelMap, call, relay, removed, strays>>
  BY DEF StopAll, StopAllEnds
<1>1. CASE StopAll
  <2>1. /\ stopping.pc = "no" /\ stopping' = [pc |-> "waiting", target |-> entries]
        /\ IF entries = NoChannel THEN UNCHANGED channel ELSE RequestStop(entries)
    BY <1>1 DEF StopAll
  <2>2. /\ channel' \in [Adapters -> ChannelEntries]
        /\ Made' = Made
        /\ entries # NoChannel => Ending(entries)'
        /\ \A j \in Adapters : Ending(j) => Ending(j)'
        /\ \A j \in Adapters : Loops(j)' => Loops(j)
        /\ \A j \in Adapters : channel'[j].timer => channel[j].timer /\ channel'[j] = channel[j]
    <3>1. CASE entries = NoChannel
      <4>1. UNCHANGED <<channel, live>>
        BY <1>0, <2>1, <3>1
      <4>2. Made' = Made /\ \A j \in Adapters : (Ending(j) <=> Ending(j)') /\ (Loops(j) <=> Loops(j)')
        BY <4>1 DEF Made, Ending, Loops
      <4> QED BY <3>1, <4>1, <4>2 DEF ManagerTypeOK, ChannelEntries, Calls
    <3>2. CASE entries # NoChannel
      <4>1. entries \in Adapters /\ RequestStop(entries)
        BY <2>1, <3>2 DEF ManagerTypeOK, Made, ChannelEntries, Calls
      <4> QED BY <1>0, <4>1, StopRequested
    <3> QED BY <3>1, <3>2
  <2>3. ManagerTypeOK'
    <3>1. stopping' \in [pc : {"no", "waiting", "done"}, target : Adapters \cup {NoChannel}]
      BY <2>1 DEF ManagerTypeOK, Made, ChannelEntries, Calls
    <3> QED BY <1>0, <2>2, <3>1 DEF ManagerTypeOK, ChannelEntries, Calls
  <2>4. MadeInOrder' /\ TargetsMade' /\ LoopsHaveEntry' /\ MapsAgree'
    BY <1>0, <2>2 DEF MadeInOrder, TargetsMade, LoopsHaveEntry, MapsAgree
  <2>5. RemovalEnds' /\ StopEnds'
    BY <1>0, <2>1, <2>2 DEF RemovalEnds, StopEnds, ManagerTypeOK, Made, ChannelEntries, Calls
  <2> QED BY <2>3, <2>4, <2>5
<1>2. CASE StopAllEnds
  <2>1. /\ stopping.pc = "waiting" /\ stopping.target \notin live
        /\ stopping' = [stopping EXCEPT !.pc = "done"]
        /\ IF entries = NoChannel THEN UNCHANGED channel
           ELSE channel' = [channel EXCEPT ![entries].stopRequested = FALSE]
    BY <1>2 DEF StopAllEnds
  <2>2. entries # NoChannel => entries \in Adapters /\ entries \notin live /\ ~channel[entries].timer
    BY <2>1 DEF StopEnds, Ending, ManagerTypeOK, Made, ChannelEntries, Calls
  <2>3. /\ channel' \in [Adapters -> ChannelEntries]
        /\ \A j \in Adapters : channel'[j].timer = channel[j].timer /\ channel'[j].state = channel[j].state
    <3>1. channel \in [Adapters -> ChannelEntries]
      BY DEF ManagerTypeOK, ChannelEntries, Calls
    <3>2. CASE entries = NoChannel
      BY <2>1, <3>1, <3>2
    <3>3. CASE entries # NoChannel
      <4> DEFINE e == [channel[entries] EXCEPT !.stopRequested = FALSE]
      <4>1. channel' = [channel EXCEPT ![entries] = e]
        BY <2>1, <3>3
      <4>2. e \in ChannelEntries /\ e.timer = channel[entries].timer /\ e.state = channel[entries].state
        BY <2>2, <3>1, <3>3 DEF ChannelEntries
      <4> HIDE DEF e
      <4> QED BY <2>2, <3>1, <3>3, <4>1, <4>2
    <3> QED BY <3>2, <3>3
  <2>4. Made' = Made
    BY <2>3 DEF Made
  <2>5. stopping' \in [pc : {"no", "waiting", "done"}, target : Adapters \cup {NoChannel}]
        /\ stopping'.pc = "done" /\ stopping'.target = stopping.target
    BY <2>1 DEF ManagerTypeOK, ChannelEntries, Calls
  <2>6. ManagerTypeOK'
    BY <1>0, <2>3, <2>4, <2>5 DEF ManagerTypeOK, ChannelEntries, Calls
  <2>7. MadeInOrder' /\ TargetsMade' /\ LoopsHaveEntry' /\ MapsAgree'
    BY <1>0, <2>3, <2>4 DEF MadeInOrder, TargetsMade, LoopsHaveEntry, Loops, MapsAgree
  <2>8. entries # NoChannel => Ending(entries)' /\ entries' \notin live'
    BY <1>0, <2>2, <2>3 DEF Ending
  <2>9. \A j \in Adapters : Ending(j) => Ending(j)'
    <3>1. \A j \in Adapters : j # entries => channel'[j] = channel[j]
      BY <2>1, <2>2 DEF ManagerTypeOK
    <3> QED BY <1>0, <2>2, <2>8, <3>1 DEF Ending
  <2>10. RemovalEnds' /\ StopEnds'
    <3>1. \A d \in Callers : call[d].target \in Adapters \cup {NoChannel}
      BY DEF ManagerTypeOK, Calls
    <3> QED BY <1>0, <2>1, <2>5, <2>8, <2>9, <3>1 DEF RemovalEnds, StopEnds
  <2> QED BY <2>6, <2>7, <2>10
<1> QED BY <1>1, <1>2

\* An injected message changes the gateway's map alone.
LEMMA InjectStep ==
  ASSUME ManagerInv, NEW r \in Relays, InjectStart(r) \/ InjectEnd(r)
  PROVE  ManagerInv'
<1> USE ChannelAssumption DEF ManagerInv
<1>1. /\ UNCHANGED <<channel, live, backoff, entries, call, stopping, removed>>
      /\ strays \subseteq strays' /\ strays' \subseteq strays \cup ({entries} \ {NoChannel})
  BY DEF InjectStart, InjectEnd, Hides
<1>2. /\ relay' \in [Relays -> [pc : {"idle", "busy", "done"}, previous : Adapters \cup Relays \cup {NoChannel}]]
      /\ channelMap' \in Adapters \cup Relays \cup {NoChannel} /\ relay'[r].pc # "idle"
  <2> DEFINE R == [pc : {"idle", "busy", "done"}, previous : Adapters \cup Relays \cup {NoChannel}]
  <2>1. relay \in [Relays -> R] /\ channelMap \in Adapters \cup Relays \cup {NoChannel}
    BY DEF ManagerTypeOK, ChannelEntries, Calls
  <2>2. CASE InjectStart(r)
    BY <2>1, <2>2 DEF InjectStart
  <2>3. CASE InjectEnd(r)
    <3>1. relay' = [relay EXCEPT ![r] = [relay[r] EXCEPT !.pc = "done"]] /\ channelMap' = relay[r].previous
      BY <2>3 DEF InjectEnd
    <3>2. [relay[r] EXCEPT !.pc = "done"] \in R /\ [relay[r] EXCEPT !.pc = "done"].pc = "done"
          /\ relay[r].previous \in Adapters \cup Relays \cup {NoChannel}
      BY <2>1
    <3> QED BY <2>1, <3>1, <3>2
  <2> QED BY <2>2, <2>3
<1>3. ManagerTypeOK'
  <2>1. strays' \subseteq Adapters
    BY <1>1 DEF ManagerTypeOK, Made
  <2> QED BY <1>1, <1>2, <2>1 DEF ManagerTypeOK, Made, ChannelEntries, Calls
<1>4. MadeInOrder' /\ TargetsMade' /\ LoopsHaveEntry' /\ RemovalEnds' /\ StopEnds'
  BY <1>1 DEF MadeInOrder, TargetsMade, Made, LoopsHaveEntry, Loops, RemovalEnds, StopEnds, Ending
<1>5. MapsAgree'
  <2>1. CASE InjectStart(r)
    BY <1>1, <2>1 DEF InjectStart, MapsAgree
  <2>2. CASE InjectEnd(r)
    BY <1>1, <2>2 DEF InjectEnd, Hides, MapsAgree
  <2> QED BY <2>1, <2>2
<1> QED BY <1>3, <1>4, <1>5

\* Every step preserves the invariant.
LEMMA ManagerInvStep ==
  ManagerInv /\ [ManagerNext]_managerVars => ManagerInv'
<1> SUFFICES ASSUME ManagerInv, [ManagerNext]_managerVars PROVE ManagerInv'
  OBVIOUS
<1>1. CASE UNCHANGED managerVars
  <2> USE <1>1 DEF managerVars, ManagerInv
  <2>1. ManagerTypeOK'
    BY DEF ManagerTypeOK, Made, ChannelEntries, Calls
  <2>2. MadeInOrder' /\ TargetsMade' /\ LoopsHaveEntry' /\ RemovalEnds' /\ StopEnds' /\ MapsAgree'
    BY DEF MadeInOrder, TargetsMade, Made, LoopsHaveEntry, Loops, RemovalEnds, StopEnds, Ending, MapsAgree
  <2> QED BY <2>1, <2>2
<1>2. CASE ManagerNext
  BY <1>2, ExitStep, RestartStep, RemoveStartStep, RemoveStep, AddStep, StopAllStep, InjectStep
     DEF ManagerNext, Supervise, FrameStep
<1> QED BY <1>1, <1>2

\* Loops follow the frames, for any number of adapters, overlapping frames and
\* injected messages: one loop per channel, and none after remove_gateway had
\* its effect or the gateway stopped, whatever exits and restart timers come
\* between; the strays that two overlapping calls make are not covered, and
\* nothing else is one (launch, onExit, scheduleRestart, removeOne, addOne,
\* stopAll, injectInboundThrough).
THEOREM LoopsObey == ManagerSpec => []LoopsFollowFrames
<1>1. ManagerInv => LoopsFollowFrames
  <2> SUFFICES ASSUME ManagerInv PROVE LoopsFollowFrames
    OBVIOUS
  <2>1. OneLoop
    <3>1. live \ strays \subseteq {entries}
      BY DEF ManagerInv, ManagerTypeOK, Made, LoopsHaveEntry, Loops, ChannelEntries, Calls
    <3>2. IsFiniteSet({entries}) /\ Cardinality({entries}) = 1
      BY FS_Singleton
    <3> QED BY <3>1, <3>2, FS_Subset DEF OneLoop
  <2>2. entries \in {NoChannel} \cup strays => NoLoop
    BY ChannelAssumption DEF ManagerInv, LoopsHaveEntry, Loops, NoLoop
  <2>3. RemoveIsFinal
    BY <2>2 DEF RemoveIsFinal, ManagerInv, MapsAgree
  <2>4. StopIsFinal
    BY <2>2 DEF StopIsFinal, NoLoop, ManagerInv, StopEnds, LoopsHaveEntry, Loops, Ending
  <2> QED BY <2>1, <2>3, <2>4 DEF LoopsFollowFrames, ManagerInv
<1>2. ManagerInv /\ [ManagerNext]_managerVars => ManagerInv'
  BY ManagerInvStep
<1> QED BY <1>1, <1>2, ManagerInvInit, PTL DEF ManagerSpec

-----------------------------------------------------------------------------
(* The provisioner: the inductive invariant *)

\* The agents and gateways excused, by what for.
Crossed == Excused({"crossed"})
Spoilt == Excused({"repeated", "crossed", "stale"})
Pardoned == Excused({"half", "crossed", "stale"})

\* What a handler is at.
JobsKnow ==
  \A h \in Handlers :
    /\ job[h].op = "none" => job[h] = NoJob
    /\ job[h].op \in {"provision", "revoke"} => job[h].for \in Agents
    /\ job[h].op \in {"upsert", "remove"} => job[h].for \in Profiles
    /\ job[h].op = "reload" => job[h].for = NoAgent
    /\ job[h].op # "reload" => job[h].todo \subseteq {job[h].for}
    /\ job[h].cfg.enabled \subseteq job[h].cfg.gateways

\* Two frames that undo each other are known to have crossed.
Against(op, other) ==
  <<op, other>> \in {<<"provision", "provision">>, <<"provision", "revoke">>, <<"upsert", "remove">>}
CrossKnown ==
  \A g, h \in Handlers :
    g # h /\ job[g].for = job[h].for /\ Against(job[g].op, job[h].op) => job[g].for \in Crossed

\* The agent of an installation is not there yet, and the config that was read
\* is right about it.
Installing ==
  \A h \in Handlers : job[h].op = "provision" =>
    /\ job[h].for \in channels => job[h].for \in Spoilt
    /\ job[h].for \in erased => job[h].for \in Crossed
    /\ job[h].for \in job[h].cfg.agents \ config.agents => job[h].for \in Spoilt

\* What is being removed is not installed again, nor comes back meanwhile.
Removing ==
  \A h \in Handlers :
    /\ job[h].op = "revoke" /\ job[h].for \in installed => job[h].for \in Crossed
    /\ job[h].op \in {"revoke", "remove"} /\ job[h].for \in channels \ job[h].todo
         => job[h].for \in Crossed
    /\ job[h].op = "upsert" /\ job[h].for \in erased => job[h].for \in Crossed

\* Nor what a reload removes.
Unloading ==
  \A h \in Handlers : job[h].op = "reload" =>
    /\ job[h].todo \cap installed \subseteq Spoilt
    /\ \A g \in Handlers : job[g].op = "provision" /\ job[g].for \in job[h].todo
                             => job[g].for \in Spoilt

ProvisionInv ==
  /\ StoresAgree /\ config.enabled \subseteq config.gateways
  /\ JobsKnow /\ CrossKnown /\ Installing /\ Removing /\ Unloading

\* Who is excused stays so while nothing is forgotten.
LEMMA ExcusedGrow ==
  ASSUME troubles \subseteq troubles'
  PROVE  Crossed \subseteq Crossed' /\ Spoilt \subseteq Spoilt' /\ Pardoned \subseteq Pardoned'
BY DEF Excused, Crossed, Spoilt, Pardoned

LEMMA CrossedIsExcused == Crossed \subseteq Spoilt \cap Pardoned
BY DEF Excused, Crossed, Spoilt, Pardoned

\* A handler that is free, one that takes a frame and one that is done with it.
LEMMA FreeJob ==
  /\ NoConfig \in Configs /\ NoConfig.enabled = {} /\ NoConfig.gateways = {}
  /\ NoJob \in Jobs /\ NoJob.op = "none" /\ NoJob.for = NoAgent /\ NoJob.todo = {}
  /\ NoJob.cfg = NoConfig
BY DEF NoJob, Jobs, Configs, NoConfig

LEMMA TakesIs ==
  ASSUME ProvisionInv, NEW h \in Handlers, NEW j \in Jobs, job[h] = NoJob,
         job' = [job EXCEPT ![h] = j], taken < MaxFrames, taken' = taken + 1
  PROVE  /\ job[h].op = "none" /\ job[h].for = NoAgent /\ job[h].todo = {}
         /\ job' \in [Handlers -> Jobs] /\ taken' \in 0..MaxFrames
         /\ job'[h] = j /\ \A g \in Handlers \ {h} : job'[g] = job[g]
<1> USE ProvisionAssumption DEF ProvisionInv, StoresAgree, ProvisionTypeOK
<1>1. taken' \in 0..MaxFrames
  OBVIOUS
<1> QED BY <1>1, FreeJob

LEMMA FinishesIs ==
  ASSUME ProvisionInv, NEW h \in Handlers, NEW op, Finishes(h, op)
  PROVE  /\ job[h].op = op /\ job' \in [Handlers -> Jobs] /\ taken' \in 0..MaxFrames
         /\ job'[h] = NoJob /\ \A g \in Handlers \ {h} : job'[g] = job[g]
BY FreeJob DEF Finishes, ProvisionInv, StoresAgree, ProvisionTypeOK

\* Init establishes the invariant of the provisioner.
LEMMA ProvisionInvInit == ProvisionInit => ProvisionInv
<1> SUFFICES ASSUME ProvisionInit PROVE ProvisionInv
  OBVIOUS
<1> USE ProvisionAssumption DEF ProvisionInit
<1>1. ProvisionTypeOK
  BY FreeJob DEF ProvisionTypeOK, Configs, Names
<1>2. InstalledWorks /\ RestartKeepsAgents /\ RevokedStaysGone /\ config.enabled \subseteq config.gateways
  BY DEF InstalledWorks, RestartKeepsAgents, RevokedStaysGone, BootAgents
<1>3. JobsKnow /\ CrossKnown /\ Installing /\ Removing /\ Unloading
  BY FreeJob DEF JobsKnow, CrossKnown, Installing, Removing, Unloading, Against
<1> QED BY <1>1, <1>2, <1>3 DEF ProvisionInv, StoresAgree

\* provision_agent begins.
LEMMA ProvisionStartStep ==
  ASSUME ProvisionInv, NEW h \in Handlers, NEW a \in Agents, ProvisionStart(h, a)
  PROVE  ProvisionInv'
<1> USE ProvisionAssumption DEF ProvisionInv, StoresAgree
<1>1. /\ UNCHANGED <<config, credentials, routes, channels, installed>>
      /\ erased' = erased \ {a} /\ Takes(h, "provision", a, {}, FALSE, config)
      /\ troubles' = troubles \cup {<<a, r>> : r \in (IF Busy(a) THEN {"crossed"} ELSE {})
                                         \cup (IF a \in channels THEN {"repeated"} ELSE {})}
  BY DEF ProvisionStart
<1>2. a \in Names /\ config \in Configs
  BY DEF Names, ProvisionTypeOK
<1>3. /\ job[h].op = "none" /\ job[h].for = NoAgent /\ job[h].todo = {}
      /\ job' \in [Handlers -> Jobs] /\ taken' \in 0..MaxFrames
      /\ job'[h].op = "provision" /\ job'[h].for = a /\ job'[h].todo = {}
      /\ job'[h].cfg = config
      /\ \A g \in Handlers \ {h} : job'[g] = job[g]
  <2> DEFINE j == [op |-> "provision", for |-> a, todo |-> {}, flag |-> FALSE, cfg |-> config]
  <2>1. j \in Jobs
    BY <1>2 DEF Jobs
  <2>2. job[h] = NoJob /\ job' = [job EXCEPT ![h] = j] /\ taken' = taken + 1 /\ taken < MaxFrames
    BY <1>1 DEF Takes
  <2> QED BY <2>1, <2>2, TakesIs
<1>4. /\ troubles' \subseteq Names \X Reasons
      /\ Crossed \subseteq Crossed' /\ Spoilt \subseteq Spoilt' /\ Pardoned \subseteq Pardoned'
      /\ (Busy(a) => a \in Crossed' \cap Spoilt') /\ (a \in channels => a \in Spoilt')
  <2>1. troubles' \subseteq Names \X Reasons /\ troubles \subseteq troubles'
    BY <1>1, <1>2 DEF ProvisionTypeOK, Reasons
  <2>2. (Busy(a) => <<a, "crossed">> \in troubles') /\ (a \in channels => <<a, "repeated">> \in troubles')
    BY <1>1
  <2>3. (Busy(a) => a \in Crossed' \cap Spoilt') /\ (a \in channels => a \in Spoilt')
    BY <1>2, <2>2 DEF Crossed, Spoilt, Excused
  <2> QED BY <2>1, <2>3, ExcusedGrow
<1>5. ProvisionTypeOK' /\ config'.enabled \subseteq config'.gateways
  BY <1>1, <1>3, <1>4 DEF ProvisionTypeOK
<1>6. InstalledWorks' /\ RestartKeepsAgents' /\ RevokedStaysGone'
  BY <1>1, <1>4 DEF InstalledWorks, RestartKeepsAgents, RevokedStaysGone, Works, BootAgents, Spoilt, Pardoned
<1>7. JobsKnow'
  BY <1>3 DEF JobsKnow
<1>8. CrossKnown'
  BY <1>3, <1>4 DEF CrossKnown, Busy
<1>9. Installing' /\ Removing'
  BY <1>1, <1>3, <1>4 DEF Installing, Removing
<1>10. Unloading'
  BY <1>1, <1>3, <1>4 DEF Unloading, Busy
<1> QED BY <1>5, <1>6, <1>7, <1>8, <1>9, <1>10

\* revoke_agent and remove_gateway begin.
LEMMA RemovalStartStep ==
  ASSUME ProvisionInv, NEW h \in Handlers, NEW x \in Names,
         \/ x \in Agents /\ \E d \in BOOLEAN : RevokeStart(h, x, d)
         \/ x \in Profiles /\ RemoveGatewayStart(h, x)
  PROVE  ProvisionInv'
<1> USE ProvisionAssumption DEF ProvisionInv, StoresAgree
<1> PICK op \in {"revoke", "remove"}, build \in {"provision", "upsert"}, d \in BOOLEAN :
         /\ op = "revoke" <=> x \in Agents
         /\ <<build, op>> \in {<<"provision", "revoke">>, <<"upsert", "remove">>}
         /\ UNCHANGED <<config, credentials, routes, channels>>
         /\ Takes(h, op, x, {x} \cap channels, d, NoConfig)
         /\ installed' = installed \ {x} /\ erased' = erased \ {x}
         /\ troubles' = troubles \cup {<<y, "crossed">> : y \in {z \in {x} : Handling(z, {build})}}
  <2>1. ASSUME x \in Agents, NEW d \in BOOLEAN, RevokeStart(h, x, d)
        PROVE  /\ UNCHANGED <<config, credentials, routes, channels>>
               /\ Takes(h, "revoke", x, {x} \cap channels, d, NoConfig)
               /\ installed' = installed \ {x} /\ erased' = erased \ {x}
               /\ troubles' = troubles \cup {<<y, "crossed">> : y \in {z \in {x} : Handling(z, {"provision"})}}
    BY <2>1 DEF RevokeStart
  <2>2. ASSUME x \in Profiles, RemoveGatewayStart(h, x)
        PROVE  /\ UNCHANGED <<config, credentials, routes, channels>>
               /\ Takes(h, "remove", x, {x} \cap channels, FALSE, NoConfig)
               /\ installed' = installed \ {x} /\ erased' = erased \ {x}
               /\ troubles' = troubles \cup {<<y, "crossed">> : y \in {z \in {x} : Handling(z, {"upsert"})}}
               /\ x \notin Agents
    BY <2>2 DEF RemoveGatewayStart, ProvisionTypeOK
  <2>3. CASE x \in Agents /\ \E d \in BOOLEAN : RevokeStart(h, x, d)
    BY <2>1, <2>3
  <2>4. CASE x \in Profiles /\ RemoveGatewayStart(h, x)
    BY <2>2, <2>4
  <2> QED BY <2>3, <2>4
<1>2. /\ {x} \cap channels \in SUBSET Names /\ NoConfig \in Configs /\ NoConfig.enabled = {}
      /\ x \in Names \cup {NoAgent} /\ op \in {"provision", "revoke", "reload", "upsert", "remove"}
  BY FreeJob
<1>3. /\ job[h].op = "none" /\ job[h].for = NoAgent /\ job[h].todo = {}
      /\ job' \in [Handlers -> Jobs] /\ taken' \in 0..MaxFrames
      /\ job'[h].op = op /\ job'[h].for = x /\ job'[h].todo = {x} \cap channels
      /\ job'[h].cfg = NoConfig
      /\ \A g \in Handlers \ {h} : job'[g] = job[g]
  <2> DEFINE j == [op |-> op, for |-> x, todo |-> {x} \cap channels, flag |-> d, cfg |-> NoConfig]
  <2>1. j \in Jobs
    BY <1>2 DEF Jobs
  <2>2. job[h] = NoJob /\ job' = [job EXCEPT ![h] = j] /\ taken' = taken + 1 /\ taken < MaxFrames
    BY DEF Takes
  <2>3. j.op = op /\ j.for = x /\ j.todo = {x} \cap channels /\ j.cfg = NoConfig
    OBVIOUS
  <2> HIDE DEF j
  <2> QED BY <2>1, <2>2, <2>3, TakesIs
<1>4. /\ troubles' \subseteq Names \X Reasons
      /\ Crossed \subseteq Crossed' /\ Spoilt \subseteq Spoilt' /\ Pardoned \subseteq Pardoned'
      /\ \A g \in Handlers : job[g].for = x /\ job[g].op = build => x \in Crossed'
  <2>1. troubles' \subseteq Names \X Reasons /\ troubles \subseteq troubles'
    BY DEF ProvisionTypeOK, Reasons
  <2>2. \A g \in Handlers : job[g].for = x /\ job[g].op = build => <<x, "crossed">> \in troubles'
    BY DEF Handling
  <2>3. \A g \in Handlers : job[g].for = x /\ job[g].op = build => x \in Crossed'
    BY <2>2 DEF Crossed, Excused
  <2> QED BY <2>1, <2>3, ExcusedGrow
<1>5. ProvisionTypeOK' /\ config'.enabled \subseteq config'.gateways
  BY <1>3, <1>4 DEF ProvisionTypeOK
<1>6. InstalledWorks' /\ RestartKeepsAgents' /\ RevokedStaysGone'
  BY <1>4 DEF InstalledWorks, RestartKeepsAgents, RevokedStaysGone, Works, BootAgents, Spoilt, Pardoned
<1>7. JobsKnow'
  <2>1. x \in Profiles <=> op = "remove"
    BY DEF Names
  <2> QED BY <1>2, <1>3, <2>1, FreeJob DEF JobsKnow
<1>8. CrossKnown'
  BY <1>3, <1>4 DEF CrossKnown, Against
<1>9. Installing' /\ Removing'
  BY <1>3, <1>4 DEF Installing, Removing
<1>10. Unloading'
  BY <1>3, <1>4 DEF Unloading
<1> QED BY <1>5, <1>6, <1>7, <1>8, <1>9, <1>10

\* What addAgentToConfig leaves on disk, and what that changes for others.
LEMMA WrittenConfig ==
  ASSUME ProvisionInv, NEW h \in Handlers, job[h].op = "provision",
         NEW a \in Agents, a = job[h].for, troubles' = Overwritten(job[h].cfg, a)
  PROVE  LET new == addAgentToConfig(job[h].cfg, a)
             Live == channels \cap Agents
         IN /\ new \in Configs /\ new.enabled \subseteq new.gateways
            /\ new = config \/ (new.agents = job[h].cfg.agents \cup Live \cup {a})
            /\ a \notin channels => a \in new.agents \/ a \in Spoilt
            /\ troubles \subseteq troubles' /\ troubles' \subseteq Names \X Reasons
            /\ new.agents \ (config.agents \cup Live \cup {a}) \subseteq Pardoned'
            /\ new.gateways \ config.gateways \subseteq Pardoned'
            /\ config.agents \ new.agents \subseteq Spoilt'
<1> USE ProvisionAssumption DEF ProvisionInv, StoresAgree
<1> DEFINE cfg == job[h].cfg
           new == addAgentToConfig(cfg, a)
           Live == channels \cap Agents
           named == cfg.agents \cup Live
           back == (new.agents \ (config.agents \cup channels \cup {a})) \cup (new.gateways \ config.gateways)
           lost == config.agents \ new.agents
<1>1. cfg \in Configs /\ config \in Configs /\ cfg.enabled \subseteq cfg.gateways
  BY DEF ProvisionTypeOK, Jobs, JobsKnow
<1>2. named \cup {a} \in SUBSET Agents
  BY <1>1 DEF Configs
<1>3. new = IF a \in named THEN config ELSE [cfg EXCEPT !.agents = named \cup {a}]
  BY DEF addAgentToConfig
<1>4. LET n == [cfg EXCEPT !.agents = named \cup {a}] IN
      n \in Configs /\ n.agents = named \cup {a} /\ n.gateways = cfg.gateways /\ n.enabled = cfg.enabled
  BY <1>1, <1>2 DEF Configs
<1>5. new \in Configs /\ new.enabled \subseteq new.gateways /\ (new = config \/ new.agents = named \cup {a})
  BY <1>1, <1>3, <1>4
<1>6. troubles' = troubles \cup {<<x, "stale">> : x \in back \cup lost}
  BY DEF Overwritten
<1>7. back \cup lost \subseteq Names
  BY <1>1, <1>5 DEF Configs, Names
<1>8. a \notin channels => a \in new.agents \/ a \in Spoilt
  BY <1>1, <1>3, <1>4 DEF Installing
<1> HIDE DEF new, cfg
<1>9. troubles' \subseteq Names \X Reasons /\ troubles \subseteq troubles'
  BY <1>6, <1>7 DEF ProvisionTypeOK, Reasons
<1>10. \A x \in back \cup lost : <<x, "stale">> \in troubles'
  BY <1>6
<1>11. back \cup lost \subseteq Pardoned' \cap Spoilt'
  BY <1>7, <1>10 DEF Pardoned, Spoilt, Excused
<1>12. new.agents \subseteq Agents
  BY <1>5 DEF Configs
<1>13. new.agents \ (config.agents \cup Live \cup {a}) \subseteq back
  BY <1>12
<1>14. /\ new.agents \ (config.agents \cup Live \cup {a}) \subseteq Pardoned'
       /\ new.gateways \ config.gateways \subseteq Pardoned'
       /\ config.agents \ new.agents \subseteq Spoilt'
  BY <1>11, <1>13
<1> QED BY <1>5, <1>8, <1>9, <1>14 DEF cfg, new

\* provision_agent ends: installed, rolled back or failed.
LEMMA ProvisionEndStep ==
  ASSUME ProvisionInv, NEW h \in Handlers, ProvisionEnd(h)
  PROVE  ProvisionInv'
<1> USE ProvisionAssumption DEF ProvisionInv, StoresAgree
<1>0. /\ job[h].op = "provision" /\ job' \in [Handlers -> Jobs] /\ taken' \in 0..MaxFrames
      /\ job'[h] = NoJob /\ \A g \in Handlers \ {h} : job'[g] = job[g]
  BY FinishesIs DEF ProvisionEnd
<1> PICK a \in Agents : a = job[h].for
  BY <1>0 DEF JobsKnow
<1>1. a \notin Profiles /\ a \in Names
  BY DEF Names
<1>2. /\ a \in channels => a \in Spoilt
      /\ a \in erased => a \in Crossed
      /\ \A g \in Handlers \ {h} : job[g].for = a /\ job[g].op \in {"provision", "revoke"} => a \in Crossed
  BY <1>0 DEF Installing, CrossKnown, Against
<1> DEFINE new == addAgentToConfig(job[h].cfg, a)
           Live == channels \cap Agents
<1>3. CASE InstallFails(a)
  <2>1. /\ UNCHANGED <<config, routes, channels, installed, erased, troubles>>
        /\ credentials' \in {credentials \ {a}, credentials \cup {a}}
    BY <1>3 DEF InstallFails, hub
  <2>2. Crossed' = Crossed /\ Spoilt' = Spoilt /\ Pardoned' = Pardoned
    BY <2>1 DEF Crossed, Spoilt, Pardoned, Excused
  <2>3. ProvisionTypeOK' /\ config'.enabled \subseteq config'.gateways
    BY <1>0, <2>1 DEF ProvisionTypeOK
  <2>4. InstalledWorks' /\ RestartKeepsAgents'
    <3>1. a \in installed => a \in Spoilt
      BY <1>2 DEF InstalledWorks, Works, Spoilt
    <3>2. InstalledWorks'
      BY <2>1, <2>2, <3>1 DEF InstalledWorks, Works, Spoilt
    <3>3. RestartKeepsAgents'
      BY <1>2, <2>1, <2>2 DEF RestartKeepsAgents, BootAgents, Spoilt
    <3> QED BY <3>2, <3>3
  <2>5. RevokedStaysGone'
    <3>1. Crossed \subseteq Pardoned
      BY CrossedIsExcused
    <3> QED BY <1>2, <2>1, <2>2, <3>1 DEF RevokedStaysGone, BootAgents, Pardoned
  <2>6. JobsKnow' /\ CrossKnown' /\ Installing' /\ Removing' /\ Unloading'
    <3>1. JobsKnow' /\ CrossKnown'
      BY <1>0, <2>1, <2>2, FreeJob DEF JobsKnow, CrossKnown, Against
    <3>2. Installing' /\ Removing' /\ Unloading'
      BY <1>0, <2>1, <2>2, FreeJob DEF Installing, Removing, Unloading
    <3> QED BY <3>1, <3>2
  <2> QED BY <2>3, <2>4, <2>5, <2>6
<1>4. CASE installLocalAgent(job[h].cfg, a) \/ RollBack(job[h].cfg, a)
  <2>1. troubles' = Overwritten(job[h].cfg, a) /\ erased' = erased
    BY <1>4 DEF installLocalAgent, RollBack
  <2>2. /\ new \in Configs /\ new.enabled \subseteq new.gateways
        /\ new = config \/ (new.agents = job[h].cfg.agents \cup Live \cup {a})
        /\ a \notin channels => a \in new.agents \/ a \in Spoilt
        /\ troubles \subseteq troubles' /\ troubles' \subseteq Names \X Reasons
        /\ new.agents \ (config.agents \cup Live \cup {a}) \subseteq Pardoned'
        /\ new.gateways \ config.gateways \subseteq Pardoned'
        /\ config.agents \ new.agents \subseteq Spoilt'
    BY <1>0, <2>1, WrittenConfig
  <2>3. /\ Crossed \subseteq Crossed' /\ Spoilt \subseteq Spoilt' /\ Pardoned \subseteq Pardoned'
        /\ Crossed' \subseteq Spoilt' \cap Pardoned'
    BY <2>2, ExcusedGrow, CrossedIsExcused DEF Crossed, Spoilt, Pardoned, Excused
  <2> HIDE DEF new
  <2>4. removeAgentFromConfig(new, a) \in Configs
        /\ removeAgentFromConfig(new, a).agents = new.agents \ {a}
        /\ removeAgentFromConfig(new, a).gateways = new.gateways
        /\ removeAgentFromConfig(new, a).enabled = new.enabled
    BY <2>2 DEF removeAgentFromConfig, Configs
  <2>5. /\ config' \in Configs /\ config'.enabled \subseteq config'.gateways
        /\ config'.gateways = new.gateways
        /\ config'.agents = new.agents \/ (config'.agents = new.agents \ {a} /\ installed' = installed /\ channels' = channels)
        /\ credentials' = credentials \cup {a} \/ (credentials' = credentials \ {a} /\ installed' = installed /\ channels' = channels)
        /\ routes' = routes \cup {a} \/ (routes' = routes \ {a} /\ installed' = installed /\ channels' = channels)
        /\ \/ installed' = installed /\ channels' = channels
           \/ a \notin channels /\ installed' = installed \cup {a} /\ channels' = channels \cup {a}
              /\ routes' = routes \cup {a} /\ credentials' = credentials \cup {a} /\ config'.agents = new.agents
    <3>1. CASE installLocalAgent(job[h].cfg, a)
      <4>1. /\ config' = new /\ credentials' = credentials \cup {a} /\ routes' = routes \cup {a}
            /\ a \notin channels /\ installed' = installed \cup {a} /\ channels' = channels \cup {a}
        BY <3>1 DEF installLocalAgent, new
      <4> QED BY <2>2, <4>1
    <3>2. CASE RollBack(job[h].cfg, a)
      <4>1. /\ config' \in {new, removeAgentFromConfig(new, a)}
            /\ credentials' \in {credentials \ {a}, credentials \cup {a}} /\ routes' = routes \ {a}
            /\ installed' = installed /\ channels' = channels
        BY <3>2 DEF RollBack, new
      <4> QED BY <2>2, <2>4, <4>1
    <3> QED BY <1>4, <3>1, <3>2
  <2>6. ProvisionTypeOK'
    <3>1. credentials' \subseteq Agents /\ routes' \subseteq Agents
      BY <2>5 DEF ProvisionTypeOK
    <3>2. installed' \subseteq Agents /\ channels' \subseteq Names
      BY <1>1, <2>5 DEF ProvisionTypeOK
    <3> QED BY <1>0, <2>1, <2>2, <2>5, <3>1, <3>2 DEF ProvisionTypeOK
  <2>7. InstalledWorks'
    <3> SUFFICES ASSUME NEW b \in installed' \ Spoilt'
                 PROVE  b \in credentials' /\ b \in routes' /\ b \in channels' /\ b \in config'.agents
      BY DEF InstalledWorks, Works, Spoilt
    <3>1. CASE b = a
      <4>1. a \in installed => a \in channels \/ a \in Spoilt
        BY DEF InstalledWorks, Works, Spoilt
      <4>2. installed' # installed
        BY <1>2, <2>3, <3>1, <4>1
      <4> QED BY <2>2, <2>3, <2>5, <3>1, <4>2
    <3>2. CASE b # a
      <4>1. b \in credentials \cap routes \cap channels \cap config.agents
        BY <2>3, <2>5, <3>2 DEF InstalledWorks, Works, Spoilt
      <4> QED BY <2>2, <2>5, <3>2, <4>1
    <3> QED BY <3>1, <3>2
  <2>8. RestartKeepsAgents'
    <3> SUFFICES ASSUME NEW b \in (channels' \cap Agents) \ Spoilt'
                 PROVE  b \in BootAgents'
      BY DEF RestartKeepsAgents, Spoilt
    <3>1. CASE b = a
      <4>1. channels' # channels /\ a \notin channels
        BY <1>2, <2>3, <2>5, <3>1
      <4>2. a \in config'.agents
        BY <2>2, <2>3, <2>5, <3>1, <4>1
      <4> QED BY <3>1, <4>2 DEF BootAgents
    <3>2. CASE b # a
      <4>1. b \in Live /\ b \in BootAgents
        BY <2>3, <2>5, <3>2 DEF RestartKeepsAgents, Spoilt
      <4>2. CASE new = config
        BY <2>5, <3>2, <4>1, <4>2 DEF BootAgents
      <4>3. CASE new.agents = job[h].cfg.agents \cup Live \cup {a}
        BY <2>5, <3>2, <4>1, <4>3 DEF BootAgents
      <4> QED BY <2>2, <4>2, <4>3
    <3> QED BY <3>1, <3>2
  <2>9. RevokedStaysGone'
    <3> SUFFICES ASSUME NEW x \in erased' \ Pardoned'
                 PROVE  x \notin credentials' \cup channels' \cup BootAgents' \cup config'.gateways
      BY DEF RevokedStaysGone, Pardoned
    <3>1. x # a
      BY <1>2, <2>1, <2>3
    <3>2. x \notin credentials \cup channels \cup BootAgents \cup config.gateways
      BY <2>1, <2>3 DEF RevokedStaysGone, Pardoned
    <3>3. x \notin config.agents
      BY <3>2 DEF BootAgents
    <3>4. x \notin config'.agents /\ x \notin config'.gateways
      BY <2>2, <2>5, <3>1, <3>2, <3>3
    <3>5. x \notin credentials' /\ x \notin channels'
      BY <2>5, <3>1, <3>2
    <3> QED BY <3>4, <3>5 DEF BootAgents
  <2>10. JobsKnow' /\ CrossKnown'
    BY <1>0, <2>3, FreeJob DEF JobsKnow, CrossKnown, Against
  <2>11. Installing'
    <3> SUFFICES ASSUME NEW g \in Handlers, job'[g].op = "provision", NEW b, b = job'[g].for
                 PROVE  /\ b \in channels' => b \in Spoilt'
                        /\ b \in erased' => b \in Crossed'
                        /\ b \in job'[g].cfg.agents \ config'.agents => b \in Spoilt'
      BY DEF Installing
    <3>1. g # h /\ job'[g] = job[g]
      BY <1>0, FreeJob
    <3>2. b = a => b \in Crossed'
      BY <1>2, <2>3, <3>1
    <3>3. CASE b # a
      BY <2>1, <2>2, <2>3, <2>5, <3>1, <3>3 DEF Installing
    <3> QED BY <2>3, <3>2, <3>3
  <2>12. Removing'
    <3> SUFFICES ASSUME NEW g \in Handlers, NEW b, b = job'[g].for
                 PROVE  /\ job'[g].op = "revoke" /\ b \in installed' => b \in Crossed'
                        /\ job'[g].op \in {"revoke", "remove"} /\ b \in channels' \ job'[g].todo => b \in Crossed'
                        /\ job'[g].op = "upsert" /\ b \in erased' => b \in Crossed'
      BY DEF Removing
    <3>1. CASE g = h
      BY <1>0, <3>1, FreeJob
    <3>2. CASE g # h /\ b # a
      BY <1>0, <2>1, <2>3, <2>5, <3>2 DEF Removing
    <3>3. CASE g # h /\ b = a
      <4>1. job'[g].op \notin {"upsert", "remove"}
        BY <1>0, <1>1, <3>3 DEF JobsKnow
      <4> QED BY <1>0, <1>2, <2>3, <3>3, <4>1
    <3> QED BY <3>1, <3>2, <3>3
  <2>13. Unloading'
    <3>1. \A g \in Handlers : job[g].op = "reload" /\ a \in job[g].todo => a \in Spoilt
      BY <1>0 DEF Unloading
    <3> QED BY <1>0, <2>3, <2>5, <3>1, FreeJob DEF Unloading
  <2> QED BY <2>5, <2>6, <2>7, <2>8, <2>9, <2>10, <2>11, <2>12, <2>13
<1> QED BY <1>3, <1>4 DEF ProvisionEnd

\* Only what is over is forgotten: who is excused for another name, or while
\* its own is still in use, stays so.
LEMMA ForgottenIs ==
  ASSUME ProvisionInv, NEW h \in Handlers, NEW x \in Names,
         troubles \ Forgotten(h, x) \subseteq troubles'
  PROVE  /\ Crossed \ {x} \subseteq Crossed' /\ Spoilt \ {x} \subseteq Spoilt'
         /\ Pardoned \ {x} \subseteq Pardoned'
         /\ \/ x \in config'.agents \cup config'.gateways \cup channels' \cup installed
            \/ x \in erased' \cap credentials'
            \/ \E other \in Handlers \ {h} : job[other].for = x
            => Crossed \subseteq Crossed' /\ Spoilt \subseteq Spoilt' /\ Pardoned \subseteq Pardoned'
<1>1. Forgotten(h, x) \subseteq {x} \X Reasons
  BY DEF Forgotten
<1>2. \A y, r : y # x /\ <<y, r>> \in troubles => <<y, r>> \in troubles'
  BY <1>1
<1>3. Crossed \ {x} \subseteq Crossed' /\ Spoilt \ {x} \subseteq Spoilt' /\ Pardoned \ {x} \subseteq Pardoned'
  BY <1>2 DEF Crossed, Spoilt, Pardoned, Excused
<1>4. ASSUME \/ x \in config'.agents \cup config'.gateways \cup channels' \cup installed
             \/ x \in erased' \cap credentials'
             \/ \E other \in Handlers \ {h} : job[other].for = x
      PROVE  Crossed \subseteq Crossed' /\ Spoilt \subseteq Spoilt' /\ Pardoned \subseteq Pardoned'
  <2>1. Forgotten(h, x) = {}
    BY <1>4 DEF Forgotten
  <2>2. troubles \subseteq troubles'
    BY <2>1
  <2> QED BY <2>2, ExcusedGrow
<1> QED BY <1>3, <1>4

\* revoke_agent and remove_gateway end, with the disk written or not.
LEMMA RemovalEndStep ==
  ASSUME ProvisionInv, NEW h \in Handlers, RevokeEnd(h) \/ RemoveGatewayEnd(h)
  PROVE  ProvisionInv'
<1> USE ProvisionAssumption DEF ProvisionInv, StoresAgree
<1>0. /\ job[h].op \in {"revoke", "remove"} /\ job' \in [Handlers -> Jobs] /\ taken' \in 0..MaxFrames
      /\ job'[h] = NoJob /\ \A g \in Handlers \ {h} : job'[g] = job[g]
  BY FinishesIs DEF RevokeEnd, RemoveGatewayEnd
<1> PICK x \in Names : x = job[h].for /\ (job[h].op = "revoke" <=> x \in Agents)
  BY <1>0 DEF JobsKnow, Names
<1>1. /\ config' \in Configs /\ config'.enabled \subseteq config'.gateways
      /\ config'.agents = config.agents \/ config'.agents = config.agents \ {x}
      /\ config'.gateways = config.gateways \/ config'.gateways = config.gateways \ {x}
      /\ channels' = channels \ job[h].todo /\ job[h].todo \subseteq {x}
      /\ routes' = routes \/ (routes' = routes \ {x} /\ x \in Agents)
      /\ credentials' = credentials \/ (credentials' = credentials \ {x} /\ x \in Agents)
      /\ (erased' = erased \/ erased' = erased \cup {x})
      /\ installed' = installed
      /\ x \in Agents \/ (config'.agents = config.agents /\ x \notin credentials')
      /\ x \in erased' \ erased => x \notin config'.gateways
  <2>0. config \in Configs /\ config.agents \subseteq Agents /\ config.gateways \subseteq Profiles
    BY DEF ProvisionTypeOK, Configs
  <2>1. job[h].todo \subseteq {x}
    BY <1>0 DEF JobsKnow
  <2>2. CASE RevokeEnd(h)
    <3>1. job[h].op = "revoke" /\ x \in Agents /\ x \notin config.gateways
      BY <2>0, <2>2, FinishesIs DEF RevokeEnd
    <3>2. removeAgentFromConfig(config, x) \in Configs
          /\ removeAgentFromConfig(config, x).agents = config.agents \ {x}
          /\ removeAgentFromConfig(config, x).gateways = config.gateways
          /\ removeAgentFromConfig(config, x).enabled = config.enabled
      BY <2>0 DEF removeAgentFromConfig, Configs
    <3>3. /\ config' \in {removeAgentFromConfig(config, x), config}
          /\ channels' = channels \ job[h].todo /\ routes' = routes \ {x} /\ installed' = installed
          /\ credentials' = credentials \/ credentials' = credentials \ {x}
          /\ erased' = erased \/ erased' = erased \cup {x}
      BY <2>2 DEF RevokeEnd
    <3> QED BY <2>0, <2>1, <3>1, <3>2, <3>3
  <2>3. CASE RemoveGatewayEnd(h)
    <3>1. job[h].op = "remove" /\ x \notin Agents
      BY <2>3, FinishesIs DEF RemoveGatewayEnd
    <3> DEFINE less == [config EXCEPT !.gateways = @ \ {x}, !.enabled = @ \ {x}]
    <3>2. /\ less \in Configs /\ less.agents = config.agents /\ less.gateways = config.gateways \ {x}
          /\ less.enabled = config.enabled \ {x}
      BY <2>0 DEF Configs
    <3>3. /\ (config' = less /\ erased' = erased \cup {x}) \/ (config' = config /\ erased' = erased)
          /\ channels' = channels \ job[h].todo /\ UNCHANGED <<credentials, routes, installed>>
      BY <2>3 DEF RemoveGatewayEnd
    <3> HIDE DEF less
    <3>4. x \notin credentials
      BY <3>1 DEF ProvisionTypeOK
    <3>5. CASE config' = less /\ erased' = erased \cup {x}
      <4>1. less.enabled \subseteq less.gateways
        BY <3>2
      <4> QED BY <2>1, <3>1, <3>2, <3>3, <3>4, <3>5, <4>1
    <3>6. CASE config' = config /\ erased' = erased
      BY <2>0, <2>1, <3>1, <3>3, <3>4, <3>6
    <3> QED BY <3>3, <3>5, <3>6
  <2> QED BY <2>2, <2>3
<1>2. troubles' \subseteq Names \X Reasons /\ troubles \ Forgotten(h, x) \subseteq troubles'
  BY DEF RevokeEnd, RemoveGatewayEnd, ProvisionTypeOK, Reasons
<1>3. /\ Crossed \ {x} \subseteq Crossed' /\ Spoilt \ {x} \subseteq Spoilt' /\ Pardoned \ {x} \subseteq Pardoned'
      /\ \/ x \in config'.agents \cup config'.gateways \cup channels' \cup installed
         \/ x \in erased' \cap credentials'
         \/ \E other \in Handlers \ {h} : job[other].for = x
         => Crossed \subseteq Crossed' /\ Spoilt \subseteq Spoilt' /\ Pardoned \subseteq Pardoned'
  BY <1>2, ForgottenIs
<1>4. Crossed' \subseteq Spoilt' \cap Pardoned'
  BY CrossedIsExcused DEF Crossed, Spoilt, Pardoned, Excused
<1>5. /\ x \in installed => x \in Crossed /\ x \in Crossed'
      /\ x \in channels' => x \in Crossed /\ x \in Crossed'
  <2>1. x \in installed => x \in Agents
    BY DEF ProvisionTypeOK
  <2> QED BY <1>0, <1>1, <1>3, <2>1 DEF Removing
<1>6. ProvisionTypeOK'
  <2>1. channels' \subseteq Names /\ erased' \subseteq Names
    BY <1>1 DEF ProvisionTypeOK
  <2>2. routes' \subseteq Agents /\ credentials' \subseteq Agents /\ installed' \subseteq Agents
    BY <1>1 DEF ProvisionTypeOK
  <2> QED BY <1>0, <1>1, <1>2, <2>1, <2>2 DEF ProvisionTypeOK
<1>7. InstalledWorks'
  <2> SUFFICES ASSUME NEW b \in installed' \ Spoilt'
               PROVE  b \in credentials' /\ b \in routes' /\ b \in channels' /\ b \in config'.agents
    BY DEF InstalledWorks, Works, Spoilt
  <2>1. b # x /\ b \in installed
    BY <1>1, <1>4, <1>5
  <2>2. b \in credentials \cap routes \cap channels \cap config.agents
    BY <1>3, <2>1 DEF InstalledWorks, Works, Spoilt
  <2> QED BY <1>1, <2>1, <2>2
<1>8. RestartKeepsAgents'
  <2> SUFFICES ASSUME NEW b \in (channels' \cap Agents) \ Spoilt'
               PROVE  b \in BootAgents'
    BY DEF RestartKeepsAgents, Spoilt
  <2>1. b # x /\ b \in channels
    BY <1>1, <1>4, <1>5
  <2>2. b \in BootAgents
    BY <1>3, <2>1 DEF RestartKeepsAgents, Spoilt
  <2> QED BY <1>1, <2>1, <2>2 DEF BootAgents
<1>9. RevokedStaysGone'
  <2> SUFFICES ASSUME NEW y \in erased' \ Pardoned'
               PROVE  y \notin credentials' \cup channels' \cup BootAgents' \cup config'.gateways
    BY DEF RevokedStaysGone, Pardoned
  <2>1. CASE y # x
    <3>1. y \notin credentials \cup channels \cup BootAgents \cup config.gateways
      BY <1>1, <1>3, <2>1 DEF RevokedStaysGone, Pardoned
    <3>2. y \notin config.agents
      BY <3>1 DEF BootAgents
    <3> QED BY <1>1, <3>1, <3>2 DEF BootAgents
  <2>2. CASE y = x
    <3>1. x \notin channels'
      BY <1>4, <1>5, <2>2
    <3>2. x \notin credentials' \cup config'.agents
      <4>1. CASE RevokeEnd(h)
        <5>1. x \in erased' \cap (credentials' \cup config'.agents) => <<x, "half">> \in troubles'
          BY <4>1 DEF RevokeEnd
        <5> QED BY <2>2, <5>1 DEF Pardoned, Excused
      <4>2. CASE RemoveGatewayEnd(h)
        <5>1. x \notin Agents
          BY <4>2, FinishesIs DEF RemoveGatewayEnd
        <5> QED BY <1>6, <5>1 DEF ProvisionTypeOK, Configs
      <4> QED BY <4>1, <4>2
    <3>3. x \notin config'.gateways
      <4>1. CASE x \in erased
        BY <1>1, <1>3, <2>2, <4>1 DEF RevokedStaysGone, Pardoned
      <4>2. CASE x \notin erased
        BY <1>1, <2>2, <4>2
      <4> QED BY <4>1, <4>2
    <3> QED BY <2>2, <3>1, <3>2, <3>3 DEF BootAgents
  <2> QED BY <2>1, <2>2
<1>10. JobsKnow' /\ CrossKnown'
  <2>1. JobsKnow'
    BY <1>0, FreeJob DEF JobsKnow
  <2>2. CrossKnown'
    BY <1>0, <1>3, FreeJob DEF CrossKnown, Against
  <2> QED BY <2>1, <2>2
<1>11. Installing'
  <2> SUFFICES ASSUME NEW g \in Handlers, job'[g].op = "provision", NEW b, b = job'[g].for
               PROVE  /\ b \in channels' => b \in Spoilt'
                      /\ b \in erased' => b \in Crossed'
                      /\ b \in job'[g].cfg.agents \ config'.agents => b \in Spoilt'
    BY DEF Installing
  <2>1. g # h /\ job'[g] = job[g]
    BY <1>0, FreeJob
  <2>2. CASE b = x
    <3>1. b \in Agents /\ job[h].op = "revoke"
      BY <1>0, <2>1, <2>2 DEF JobsKnow
    <3>2. b \in Crossed
      BY <1>0, <2>1, <2>2, <3>1 DEF CrossKnown, Against
    <3> QED BY <1>3, <1>4, <2>1, <2>2, <3>2
  <2>3. CASE b # x
    BY <1>1, <1>3, <2>1, <2>3 DEF Installing
  <2> QED BY <2>2, <2>3
<1>12. Removing'
  <2> SUFFICES ASSUME NEW g \in Handlers, NEW b, b = job'[g].for
               PROVE  /\ job'[g].op = "revoke" /\ b \in installed' => b \in Crossed'
                      /\ job'[g].op \in {"revoke", "remove"} /\ b \in channels' \ job'[g].todo => b \in Crossed'
                      /\ job'[g].op = "upsert" /\ b \in erased' => b \in Crossed'
    BY DEF Removing
  <2>1. CASE g = h
    BY <1>0, <2>1, FreeJob
  <2>2. CASE g # h /\ b # x
    BY <1>0, <1>1, <1>3, <2>2 DEF Removing
  <2>3. CASE g # h /\ b = x
    <3>1. job'[g] = job[g] /\ Crossed \subseteq Crossed'
      BY <1>0, <1>3, <2>3
    <3>2. job[g].op = "upsert" => b \in Crossed
      <4> SUFFICES ASSUME job[g].op = "upsert" PROVE b \in Crossed
        OBVIOUS
      <4>1. b \notin Agents /\ job[h].op = "remove"
        BY <1>0, <2>3, <3>1 DEF JobsKnow
      <4> QED BY <2>3, <3>1, <4>1 DEF CrossKnown, Against
    <3>3. job[g].op = "revoke" /\ b \in installed' => b \in Crossed
      BY <1>1, <2>3, <3>1 DEF Removing
    <3>4. job[g].op \in {"revoke", "remove"} /\ b \in channels' => b \in Crossed
      BY <1>5, <2>3
    <3> QED BY <3>1, <3>2, <3>3, <3>4
  <2> QED BY <2>1, <2>2, <2>3
<1>13. Unloading'
  <2> SUFFICES ASSUME NEW g \in Handlers, job'[g].op = "reload"
               PROVE  /\ job'[g].todo \cap installed' \subseteq Spoilt'
                      /\ \A k \in Handlers : job'[k].op = "provision" /\ job'[k].for \in job'[g].todo
                                               => job'[k].for \in Spoilt'
    BY DEF Unloading
  <2>1. g # h /\ job'[g] = job[g]
    BY <1>0, FreeJob
  <2>2. job'[g].todo \cap installed' \subseteq Spoilt'
    BY <1>1, <1>3, <1>4, <1>5, <2>1 DEF Unloading
  <2>3. ASSUME NEW k \in Handlers, job'[k].op = "provision", job'[k].for \in job'[g].todo
        PROVE  job'[k].for \in Spoilt'
    <3>1. k # h /\ job'[k] = job[k]
      BY <1>0, <2>3, FreeJob
    <3> QED BY <1>3, <2>1, <2>3, <3>1 DEF Unloading
  <2> QED BY <2>2, <2>3
<1> QED BY <1>1, <1>6, <1>7, <1>8, <1>9, <1>10, <1>11, <1>12, <1>13

\* reload_config: what it removes the config does not name.
LEMMA ReloadStep ==
  ASSUME ProvisionInv, NEW h \in Handlers,
         ReloadStart(h) \/ ReloadEnd(h) \/ \E c \in job[h].todo : ReloadRemove(h, c)
  PROVE  ProvisionInv'
<1> USE ProvisionAssumption DEF ProvisionInv, StoresAgree
<1>0. /\ UNCHANGED <<config, credentials, installed, erased>>
      /\ config \in Configs /\ config.agents \subseteq Agents /\ BootAgents' = BootAgents
  BY DEF ReloadStart, ReloadEnd, ReloadRemove, hub, ProvisionTypeOK, Configs, BootAgents
<1>1. CASE ReloadStart(h)
  <2>1. PICK added \in SUBSET (config.agents \ channels) :
          /\ channels' = channels \cup added /\ routes' = routes
          /\ Takes(h, "reload", NoAgent, channels \ config.agents, FALSE, NoConfig)
          /\ troubles' = troubles \cup {<<a, "crossed">> : a \in {x \in added : Busy(x)}}
    BY <1>1 DEF ReloadStart
  <2>2. added \subseteq Agents /\ added \subseteq Names /\ channels \ config.agents \in SUBSET Names
    BY <1>0 DEF Names, ProvisionTypeOK
  <2>3. /\ job[h].op = "none" /\ job[h].for = NoAgent /\ job[h].todo = {}
        /\ job' \in [Handlers -> Jobs] /\ taken' \in 0..MaxFrames
        /\ job'[h].op = "reload" /\ job'[h].for = NoAgent /\ job'[h].todo = channels \ config.agents
        /\ job'[h].cfg = NoConfig
        /\ \A g \in Handlers \ {h} : job'[g] = job[g]
    <3> DEFINE j == [op |-> "reload", for |-> NoAgent, todo |-> channels \ config.agents, flag |-> FALSE,
                     cfg |-> NoConfig]
    <3>1. j \in Jobs
      BY <2>2, FreeJob DEF Jobs
    <3>2. job[h] = NoJob /\ job' = [job EXCEPT ![h] = j] /\ taken' = taken + 1 /\ taken < MaxFrames
      BY <2>1 DEF Takes
    <3> QED BY <3>1, <3>2, TakesIs
  <2>4. /\ troubles' \subseteq Names \X Reasons
        /\ Crossed \subseteq Crossed' /\ Spoilt \subseteq Spoilt' /\ Pardoned \subseteq Pardoned'
        /\ \A x \in added : Busy(x) => x \in Crossed' \cap Spoilt'
    <3>1. troubles' \subseteq Names \X Reasons /\ troubles \subseteq troubles'
      BY <2>1, <2>2 DEF ProvisionTypeOK, Reasons
    <3>2. \A x \in added : Busy(x) => <<x, "crossed">> \in troubles'
      BY <2>1
    <3>3. \A x \in added : Busy(x) => x \in Crossed' \cap Spoilt'
      BY <2>2, <3>2 DEF Crossed, Spoilt, Excused
    <3> QED BY <3>1, <3>3, ExcusedGrow
  <2>5. ProvisionTypeOK' /\ config'.enabled \subseteq config'.gateways
    BY <1>0, <2>1, <2>2, <2>3, <2>4 DEF ProvisionTypeOK
  <2>6. added \subseteq BootAgents
    BY DEF BootAgents
  <2>7. InstalledWorks' /\ RestartKeepsAgents' /\ RevokedStaysGone'
    <3>1. InstalledWorks'
      BY <1>0, <2>1, <2>4 DEF InstalledWorks, Works, Spoilt
    <3>2. RestartKeepsAgents'
      BY <1>0, <2>1, <2>4, <2>6 DEF RestartKeepsAgents, Spoilt
    <3>3. RevokedStaysGone'
      BY <1>0, <2>1, <2>4, <2>6 DEF RevokedStaysGone, Pardoned
    <3> QED BY <3>1, <3>2, <3>3
  <2>8. JobsKnow' /\ CrossKnown'
    <3>1. JobsKnow'
      BY <2>3, FreeJob DEF JobsKnow
    <3>2. CrossKnown'
      BY <2>3, <2>4 DEF CrossKnown, Against
    <3> QED BY <3>1, <3>2
  <2>9. Installing' /\ Removing'
    <3>1. Installing'
      BY <1>0, <2>1, <2>3, <2>4 DEF Installing, Busy
    <3>2. Removing'
      BY <1>0, <2>1, <2>3, <2>4 DEF Removing, Busy
    <3> QED BY <3>1, <3>2
  <2>10. Unloading'
    <3>1. (channels \ config.agents) \cap installed \subseteq Spoilt
      BY DEF InstalledWorks, Works, Spoilt
    <3>2. \A g \in Handlers : job[g].op = "provision" /\ job[g].for \in channels => job[g].for \in Spoilt
      BY DEF Installing
    <3> QED BY <1>0, <2>3, <2>4, <3>1, <3>2 DEF Unloading
  <2> QED BY <2>5, <2>7, <2>8, <2>9, <2>10
<1>2. ASSUME NEW c \in job[h].todo, ReloadRemove(h, c) PROVE ProvisionInv'
  <2> DEFINE j == [job[h] EXCEPT !.todo = @ \ {c}]
  <2>1. /\ channels' = channels \ {c} /\ job' = [job EXCEPT ![h] = j]
        /\ UNCHANGED <<routes, taken, troubles>> /\ job[h].op = "reload"
    BY <1>2 DEF ReloadRemove, hub
  <2>2. j \in Jobs /\ j.op = "reload" /\ j.for = job[h].for /\ j.cfg = job[h].cfg /\ j.todo = job[h].todo \ {c}
    BY <2>1 DEF ProvisionTypeOK, Jobs
  <2> HIDE DEF j
  <2>3. job'[h] = j /\ job' \in [Handlers -> Jobs] /\ \A g \in Handlers \ {h} : job'[g] = job[g]
    BY <2>1, <2>2 DEF ProvisionTypeOK
  <2>4. Crossed' = Crossed /\ Spoilt' = Spoilt /\ Pardoned' = Pardoned
    BY <2>1 DEF Crossed, Spoilt, Pardoned, Excused
  <2>5. ProvisionTypeOK' /\ config'.enabled \subseteq config'.gateways
    BY <1>0, <2>1, <2>3 DEF ProvisionTypeOK
  <2>6. InstalledWorks'
    <3>1. c \in installed => c \in Spoilt
      BY <2>1 DEF Unloading
    <3> QED BY <1>0, <2>1, <2>4, <3>1 DEF InstalledWorks, Works, Spoilt
  <2>7. RestartKeepsAgents' /\ RevokedStaysGone'
    BY <1>0, <2>1, <2>4 DEF RestartKeepsAgents, RevokedStaysGone, Spoilt, Pardoned
  <2>8. JobsKnow' /\ CrossKnown'
    <3>1. JobsKnow'
      BY <2>1, <2>2, <2>3 DEF JobsKnow
    <3>2. CrossKnown'
      BY <2>1, <2>2, <2>3, <2>4 DEF CrossKnown, Against
    <3> QED BY <3>1, <3>2
  <2>9. Installing' /\ Removing' /\ Unloading'
    <3>1. Installing'
      BY <1>0, <2>1, <2>2, <2>3, <2>4 DEF Installing
    <3>2. Removing'
      BY <1>0, <2>1, <2>2, <2>3, <2>4 DEF Removing
    <3>3. Unloading'
      BY <1>0, <2>1, <2>2, <2>3, <2>4 DEF Unloading
    <3> QED BY <3>1, <3>2, <3>3
  <2> QED BY <2>5, <2>6, <2>7, <2>8, <2>9
<1>3. CASE ReloadEnd(h)
  <2>1. /\ job[h].op = "reload" /\ job' \in [Handlers -> Jobs] /\ taken' \in 0..MaxFrames
        /\ job'[h] = NoJob /\ \A g \in Handlers \ {h} : job'[g] = job[g]
    BY <1>3, FinishesIs DEF ReloadEnd
  <2>2. routes' \in {config.agents, routes} /\ UNCHANGED <<channels, troubles>>
    BY <1>3 DEF ReloadEnd, hub
  <2>3. Crossed' = Crossed /\ Spoilt' = Spoilt /\ Pardoned' = Pardoned
    BY <2>2 DEF Crossed, Spoilt, Pardoned, Excused
  <2>4. ProvisionTypeOK' /\ config'.enabled \subseteq config'.gateways
    BY <1>0, <2>1, <2>2 DEF ProvisionTypeOK
  <2>5. InstalledWorks' /\ RestartKeepsAgents' /\ RevokedStaysGone'
    <3>1. InstalledWorks'
      BY <1>0, <2>2, <2>3 DEF InstalledWorks, Works, Spoilt
    <3>2. RestartKeepsAgents' /\ RevokedStaysGone'
      BY <1>0, <2>2, <2>3 DEF RestartKeepsAgents, RevokedStaysGone, Spoilt, Pardoned
    <3> QED BY <3>1, <3>2
  <2>6. JobsKnow' /\ CrossKnown'
    BY <2>1, <2>3, FreeJob DEF JobsKnow, CrossKnown, Against
  <2>7. Installing' /\ Removing' /\ Unloading'
    BY <1>0, <2>1, <2>2, <2>3, FreeJob DEF Installing, Removing, Unloading
  <2> QED BY <2>4, <2>5, <2>6, <2>7
<1> QED BY <1>1, <1>2, <1>3

\* upsert_gateway, which leaves the agents alone.
LEMMA UpsertStep ==
  ASSUME ProvisionInv, NEW h \in Handlers,
         UpsertEnd(h) \/ \E g \in Profiles, on \in BOOLEAN : UpsertStart(h, g, on)
  PROVE  ProvisionInv'
<1> USE ProvisionAssumption DEF ProvisionInv, StoresAgree
<1>0. /\ UNCHANGED <<credentials, routes, installed>>
      /\ config \in Configs /\ config.gateways \subseteq Profiles
  BY DEF UpsertStart, UpsertEnd, hub, ProvisionTypeOK, Configs
<1>1. ASSUME NEW g \in Profiles, NEW on \in BOOLEAN, UpsertStart(h, g, on) PROVE ProvisionInv'
  <2> DEFINE on2 == IF on THEN config.enabled \cup {g} ELSE config.enabled \ {g}
             new == [config EXCEPT !.gateways = @ \cup {g}, !.enabled = on2]
             j == [op |-> "upsert", for |-> g, todo |-> {g} \cap channels, flag |-> on, cfg |-> config]
  <2>1. /\ config' = new /\ erased' = erased \ {g} /\ UNCHANGED channels
        /\ troubles' = IF Busy(g) THEN troubles \cup {<<g, "crossed">>} ELSE troubles
        /\ job[h] = NoJob /\ job' = [job EXCEPT ![h] = j] /\ taken' = taken + 1 /\ taken < MaxFrames
    BY <1>1 DEF UpsertStart, Takes
  <2>2. /\ new \in Configs /\ new.agents = config.agents /\ new.gateways = config.gateways \cup {g}
        /\ new.enabled \subseteq new.gateways
    <3>1. on2 \subseteq config.gateways \cup {g}
      OBVIOUS
    <3> HIDE DEF on2
    <3> QED BY <1>0, <3>1 DEF Configs
  <2>3. /\ g \in Names /\ g \notin Agents /\ j \in Jobs
        /\ j.op = "upsert" /\ j.for = g /\ j.todo = {g} \cap channels /\ j.cfg = config
    BY <1>0 DEF Jobs, Names
  <2> HIDE DEF new, j
  <2>4. /\ job[h].op = "none" /\ job[h].for = NoAgent /\ job[h].todo = {}
        /\ job' \in [Handlers -> Jobs] /\ taken' \in 0..MaxFrames
        /\ job'[h] = j /\ \A k \in Handlers \ {h} : job'[k] = job[k]
    BY <2>1, <2>3, TakesIs
  <2>5. /\ troubles' \subseteq Names \X Reasons
        /\ Crossed \subseteq Crossed' /\ Spoilt \subseteq Spoilt' /\ Pardoned \subseteq Pardoned'
        /\ Busy(g) => g \in Crossed'
    <3>1. troubles' \subseteq Names \X Reasons /\ troubles \subseteq troubles'
      BY <2>1, <2>3 DEF ProvisionTypeOK, Reasons
    <3>2. Busy(g) => g \in Crossed'
      BY <2>1, <2>3 DEF Crossed, Excused
    <3> QED BY <3>1, <3>2, ExcusedGrow
  <2>6. ProvisionTypeOK' /\ config'.enabled \subseteq config'.gateways
    BY <1>0, <2>1, <2>2, <2>4, <2>5 DEF ProvisionTypeOK
  <2>7. BootAgents' = BootAgents
    BY <1>0, <2>1, <2>2 DEF BootAgents
  <2>8. InstalledWorks' /\ RestartKeepsAgents'
    BY <1>0, <2>1, <2>2, <2>5, <2>7 DEF InstalledWorks, Works, RestartKeepsAgents, Spoilt
  <2>9. RevokedStaysGone'
    BY <1>0, <2>1, <2>2, <2>5, <2>7 DEF RevokedStaysGone, Pardoned
  <2>10. JobsKnow' /\ CrossKnown'
    <3>1. JobsKnow'
      BY <2>3, <2>4 DEF JobsKnow
    <3>2. CrossKnown'
      BY <2>3, <2>4, <2>5 DEF CrossKnown, Against, Busy
    <3> QED BY <3>1, <3>2
  <2>11. Installing' /\ Removing' /\ Unloading'
    <3>1. Installing'
      BY <1>0, <2>1, <2>2, <2>3, <2>4, <2>5 DEF Installing
    <3>2. Removing'
      BY <1>0, <2>1, <2>3, <2>4, <2>5 DEF Removing
    <3>3. Unloading'
      BY <1>0, <2>3, <2>4, <2>5 DEF Unloading
    <3> QED BY <3>1, <3>2, <3>3
  <2> QED BY <2>6, <2>8, <2>9, <2>10, <2>11
<1>2. CASE UpsertEnd(h)
  <2>1. /\ job[h].op = "upsert" /\ job' \in [Handlers -> Jobs] /\ taken' \in 0..MaxFrames
        /\ job'[h] = NoJob /\ \A g \in Handlers \ {h} : job'[g] = job[g]
    BY <1>2, FinishesIs DEF UpsertEnd
  <2> PICK g \in Profiles : g = job[h].for
    BY <2>1 DEF JobsKnow
  <2>2. g \notin Agents /\ g \in Names /\ (g \in erased => g \in Crossed) /\ job[h].todo \subseteq {g}
    BY <2>1 DEF Names, Removing, JobsKnow
  <2>3. /\ UNCHANGED <<erased, troubles>>
        /\ channels \ {g} \subseteq channels' /\ channels' \subseteq channels \cup {g}
        /\ config' \in Configs /\ config'.agents = config.agents /\ config'.enabled \subseteq config'.gateways
        /\ config.gateways \subseteq config'.gateways /\ config'.gateways \subseteq config.gateways \cup {g}
    <3> DEFINE on2 == IF g \in job[h].cfg.enabled THEN config.enabled \cup {g} ELSE config.enabled \ {g}
               restored == [config EXCEPT !.gateways = @ \cup {g}, !.enabled = on2]
               stopped == channels \ job[h].todo
    <3>1. UNCHANGED <<erased, troubles>> /\ config' \in {config, restored} /\ channels' \in {stopped, stopped \cup {g}}
      BY <1>2 DEF UpsertEnd, hub
    <3>2. on2 \subseteq config.gateways \cup {g}
      OBVIOUS
    <3> HIDE DEF on2
    <3>3. /\ restored \in Configs /\ restored.agents = config.agents
          /\ restored.gateways = config.gateways \cup {g} /\ restored.enabled \subseteq restored.gateways
      BY <1>0, <3>2 DEF Configs
    <3> HIDE DEF restored
    <3>4. channels \ {g} \subseteq channels' /\ channels' \subseteq channels \cup {g}
      BY <2>2, <3>1
    <3> QED BY <1>0, <3>1, <3>3, <3>4
  <2>4. Crossed' = Crossed /\ Spoilt' = Spoilt /\ Pardoned' = Pardoned /\ Crossed \subseteq Pardoned
    BY <2>3, CrossedIsExcused DEF Crossed, Spoilt, Pardoned, Excused
  <2>5. ProvisionTypeOK'
    BY <1>0, <2>1, <2>2, <2>3 DEF ProvisionTypeOK
  <2>6. BootAgents' = BootAgents
    BY <1>0, <2>3 DEF BootAgents
  <2>7. InstalledWorks' /\ RestartKeepsAgents'
    <3>1. InstalledWorks'
      BY <1>0, <2>2, <2>3, <2>4 DEF InstalledWorks, Works, Spoilt, ProvisionTypeOK
    <3>2. RestartKeepsAgents'
      BY <2>2, <2>3, <2>4, <2>6 DEF RestartKeepsAgents, Spoilt
    <3> QED BY <3>1, <3>2
  <2>8. RevokedStaysGone'
    BY <1>0, <2>2, <2>3, <2>4, <2>6 DEF RevokedStaysGone, Pardoned
  <2>9. JobsKnow' /\ CrossKnown'
    BY <2>1, <2>4, FreeJob DEF JobsKnow, CrossKnown, Against
  <2>10. Installing' /\ Unloading'
    <3>1. \A k \in Handlers : job[k].op = "provision" => job[k].for # g
      BY <2>2 DEF JobsKnow
    <3> QED BY <1>0, <2>1, <2>3, <2>4, <3>1, FreeJob DEF Installing, Unloading
  <2>11. Removing'
    <3>1. \A k \in Handlers : job[k].for = g /\ job[k].op \in {"revoke", "remove"} => g \in Crossed
      BY <2>1, <2>2 DEF JobsKnow, CrossKnown, Against
    <3> QED BY <1>0, <2>1, <2>3, <2>4, <3>1, FreeJob DEF Removing
  <2> QED BY <2>3, <2>5, <2>7, <2>8, <2>9, <2>10, <2>11
<1> QED BY <1>1, <1>2

\* A restart, also in the middle of a frame.
LEMMA DaemonRestartStep ==
  ASSUME ProvisionInv, DaemonRestarts
  PROVE  ProvisionInv'
<1> USE ProvisionAssumption DEF ProvisionInv, StoresAgree
<1> DEFINE busy == {job[h].for : h \in {x \in Handlers : job[x].op = "provision"}}
<1>1. busy \subseteq Agents /\ busy \cap erased \subseteq Crossed
  BY DEF JobsKnow, Installing
<1>2. PICK kept \in SUBSET busy : credentials' = credentials \cup kept
  BY DEF DaemonRestarts
<1> HIDE DEF busy
<1>3. /\ UNCHANGED <<taken, config, installed, erased, troubles>>
      /\ routes' = BootAgents' /\ channels' = BootAgents' \cup config.enabled
      /\ job' = [h \in Handlers |-> NoJob]
  BY DEF DaemonRestarts, hub
<1>4. BootAgents' = IF config.agents = {} THEN credentials' ELSE config.agents
  BY <1>3 DEF BootAgents
<1>5. config.agents \subseteq Agents /\ config.gateways \subseteq Profiles
  BY DEF ProvisionTypeOK, Configs
<1>6. Crossed' = Crossed /\ Spoilt' = Spoilt /\ Pardoned' = Pardoned /\ Crossed \subseteq Pardoned
  BY <1>3, CrossedIsExcused DEF Crossed, Spoilt, Pardoned, Excused
<1>7. ProvisionTypeOK' /\ config'.enabled \subseteq config'.gateways
  <2>1. credentials' \subseteq Agents
    BY <1>1, <1>2 DEF ProvisionTypeOK
  <2>2. BootAgents' \subseteq Agents
    BY <1>4, <1>5, <2>1
  <2>3. channels' \subseteq Names
    BY <1>3, <1>5, <2>2 DEF Names
  <2> QED BY <1>3, <2>1, <2>2, <2>3, FreeJob DEF ProvisionTypeOK
<1>8. InstalledWorks' /\ RestartKeepsAgents'
  <2>1. InstalledWorks'
    BY <1>2, <1>3, <1>4, <1>6 DEF InstalledWorks, Works, Spoilt
  <2>2. RestartKeepsAgents'
    BY <1>3, <1>5 DEF RestartKeepsAgents
  <2> QED BY <2>1, <2>2
<1>9. RevokedStaysGone'
  <2> SUFFICES ASSUME NEW x \in erased \ Pardoned
               PROVE  x \notin credentials' \cup channels' \cup BootAgents' \cup config.gateways
    BY <1>3, <1>6 DEF RevokedStaysGone, Pardoned
  <2>1. x \notin credentials \cup channels \cup BootAgents \cup config.gateways
    BY DEF RevokedStaysGone, Pardoned
  <2>2. x \notin credentials' /\ x \notin config.agents
    BY <1>1, <1>2, <1>6, <2>1 DEF BootAgents
  <2> QED BY <1>3, <1>4, <2>1, <2>2
<1>10. JobsKnow' /\ CrossKnown' /\ Installing' /\ Removing' /\ Unloading'
  BY <1>3, FreeJob DEF JobsKnow, CrossKnown, Installing, Removing, Unloading, Against
<1> QED BY <1>7, <1>8, <1>9, <1>10

\* Every step preserves the invariant.
LEMMA ProvisionInvStep == ProvisionInv /\ [ProvisionNext]_provisionVars => ProvisionInv'
<1> SUFFICES ASSUME ProvisionInv, [ProvisionNext]_provisionVars PROVE ProvisionInv'
  OBVIOUS
<1>1. CASE UNCHANGED provisionVars
  BY <1>1 DEF provisionVars, hub, ProvisionInv, StoresAgree, ProvisionTypeOK, InstalledWorks, Works,
     RestartKeepsAgents, RevokedStaysGone, BootAgents, JobsKnow, CrossKnown, Installing, Removing, Unloading,
     Crossed, Spoilt, Excused
<1>2. CASE ProvisionNext
  <2>1. Agents \subseteq Names /\ Profiles \subseteq Names
    BY DEF Names
  <2>2. ASSUME NEW h \in Handlers,
               \/ \E a \in Agents : ProvisionStart(h, a) \/ \E d \in BOOLEAN : RevokeStart(h, a, d)
               \/ \E g \in Profiles : RemoveGatewayStart(h, g) \/ \E on \in BOOLEAN : UpsertStart(h, g, on)
        PROVE  ProvisionInv'
    BY <2>1, <2>2, ProvisionStartStep, RemovalStartStep, UpsertStep
  <2> QED BY <1>2, <2>2, ProvisionEndStep, RemovalEndStep, ReloadStep, UpsertStep, DaemonRestartStep
          DEF ProvisionNext
<1> QED BY <1>1, <1>2

\* Config, credentials, routes and channels agree, for any number of agents,
\* gateways and frames handled at the same time: over writes that fail,
\* rollbacks, reloads and restarts in the middle of any frame, an installed
\* agent works, the agents of now are those of the next start and what was
\* revoked stays gone, with the exceptions the properties name (repeated or
\* crossed frames, a stale config, a revocation the disk refused), and no other
\* (installLocalAgent, revokeAgent, reloadConfig, handleUpsert, handleRemove).
THEOREM StoresInStep == ProvisionSpec => []StoresAgree
<1>1. ProvisionInv => StoresAgree
  BY DEF ProvisionInv
<1>2. ProvisionInv /\ [ProvisionNext]_provisionVars => ProvisionInv'
  BY ProvisionInvStep
<1> QED BY <1>1, <1>2, ProvisionInvInit, PTL DEF ProvisionSpec

-----------------------------------------------------------------------------
(* The session of a conversation: the inductive invariant *)

Attempts ==
  [phase : {"idle", "ready", "run", "retry", "ran"}, entry : Entry, active : Ids \cup {0},
   recovery : BOOLEAN, aborted : BOOLEAN, text : BOOLEAN, newId : Ids \cup {0},
   error : {"none", "auth", "session", "transient", "again"}]

SessionTypes ==
  /\ entry \in Entry /\ disk \in Entry /\ writing \subseteq Entry
  /\ attempt \in Attempts /\ waiting \in BOOLEAN
  /\ failures \in Nat /\ blocked \in {"no", "yes", "expired"} /\ authRow \in Nat
  /\ length \in [Ids -> Nat]
  /\ dead \subseteq Ids /\ unburied \subseteq Ids /\ deleted \in [Ids -> Nat]
  /\ turns \in 0..MaxAttempts /\ started \in Nat /\ queued \in Nat

\* A turn starts at most two sessions and changes the entry at most three
\* times.
TurnsBound ==
  /\ started <= 2 * turns /\ queued <= 4 * turns
  /\ attempt.phase # "idle" => turns > 0 /\ queued + 1 <= 4 * turns
  /\ attempt.phase \in {"ready", "run"} => started + 2 <= 2 * turns
  /\ attempt.phase = "retry" => started + 1 <= 2 * turns
  /\ attempt.phase = "ready" => queued + 4 <= 4 * turns
  /\ attempt.phase = "run" => queued + 3 <= 4 * turns
  /\ attempt.phase = "retry" /\ attempt.error # "again" => queued + 3 <= 4 * turns
  /\ attempt.phase \in {"retry", "ran"} => queued + 2 <= 4 * turns

\* Session ids come from the past.
IdsStarted ==
  /\ entry.id <= started /\ disk.id <= started /\ \A p \in writing : p.id <= started
  /\ \A i \in dead : i <= started
  /\ \A i \in Ids : i > started => length[i] = 0

\* One flush at a time, and what is behind is older.
FlushesInOrder ==
  /\ \A p, q \in writing : p = q
  /\ \A p \in writing : disk.ver <= p.ver /\ p.ver <= entry.ver
  /\ disk.ver <= entry.ver

\* The entry is a session that lives and is as long as it says.
EntryLives ==
  /\ entry.id \notin dead \ unburied
  /\ entry.id # 0 => length[entry.id] <= entry.turns
  /\ \A i \in Ids : length[i] <= MaxResumeTurns

\* Only what is older than its delete still names a dead session.
Buried ==
  \A i \in dead \ unburied :
    /\ deleted[i] <= entry.ver
    /\ \A p \in writing \cup {disk} : p.id = i => p.ver < deleted[i]

\* A turn works on the entry it read, unless it has deleted it.
AttemptOnEntry ==
  /\ attempt.phase # "idle" => attempt.active = entry.id
  /\ attempt.phase # "idle" /\ attempt.active # 0 => attempt.entry = entry
  /\ attempt.phase \in {"run", "retry", "ran"} /\ attempt.active # 0 =>
       attempt.entry.turns < MaxResumeTurns

\* It reports the session it resumed, or a new one.
ReportsItsOwn ==
  attempt.phase \in {"retry", "ran"} /\ attempt.error # "again" /\ attempt.newId # 0 =>
    IF attempt.active # 0 THEN attempt.newId = attempt.active
    ELSE /\ attempt.newId = started /\ started \notin dead /\ length[started] = 0

\* Once the breaker is open, what was admitted before is all that still runs.
BreakerCounts ==
  /\ authRow = failures
  /\ failures >= Threshold <=> blocked # "no"
  /\ failures >= Threshold =>
       /\ failures <= Threshold + 1
       /\ waiting \/ attempt.phase # "idle" => failures <= Threshold
       /\ ~(waiting /\ attempt.phase # "idle")

SessionInv ==
  /\ SessionTypes /\ TurnsBound /\ IdsStarted /\ FlushesInOrder
  /\ EntryLives /\ Buried /\ AttemptOnEntry /\ ReportsItsOwn /\ BreakerCounts

\* Init establishes the invariant of the session.
LEMMA SessionInvInit == SessionInit => SessionInv
<1> SUFFICES ASSUME SessionInit PROVE SessionInv
  OBVIOUS
<1> USE SessionAssumption DEF SessionInit
<1>1. NoEntry(0) \in Entry /\ NoEntry(0).id = 0 /\ NoEntry(0).ver = 0
  BY DEF NoEntry, Entry
<1>2. IdleTurn \in Attempts /\ IdleTurn.phase = "idle"
  BY <1>1 DEF IdleTurn, Attempts
<1>3. SessionTypes
  <2>1. waiting \in BOOLEAN
    BY Zenon
  <2>2. length \in [Ids -> Nat] /\ turns \in 0..MaxAttempts
    OBVIOUS
  <2> QED BY <1>1, <1>2, <2>1, <2>2 DEF SessionTypes
<1>4. TurnsBound /\ AttemptOnEntry /\ ReportsItsOwn
  BY <1>2 DEF TurnsBound, AttemptOnEntry, ReportsItsOwn
<1>5. IdsStarted /\ FlushesInOrder /\ EntryLives /\ Buried
  BY <1>1 DEF IdsStarted, FlushesInOrder, EntryLives, Buried
<1>6. BreakerCounts
  BY <1>2 DEF BreakerCounts
<1> QED BY <1>3, <1>4, <1>5, <1>6 DEF SessionInv

\* An empty entry, and the turn that is not there.
LEMMA Idle ==
  /\ \A v \in Nat : NoEntry(v) \in Entry /\ NoEntry(v).id = 0 /\ NoEntry(v).ver = v
  /\ IdleTurn \in Attempts /\ IdleTurn.phase = "idle"
<1>1. \A v \in Nat : NoEntry(v) \in Entry /\ NoEntry(v).id = 0 /\ NoEntry(v).ver = v
  BY SessionAssumption DEF NoEntry, Entry
<1>2. IdleTurn \in Attempts /\ IdleTurn.phase = "idle"
  BY <1>1 DEF IdleTurn, Attempts
<1> QED BY <1>1, <1>2

\* What a write of the entry is.
LEMMA PutIs ==
  ASSUME SessionTypes, NEW id \in Ids \cup {0}, NEW n \in 0..MaxResumeTurns, Put(id, n)
  PROVE  /\ entry' \in Entry /\ entry'.id = id /\ entry'.turns = n /\ entry'.ver = entry.ver + 1
         /\ queued' = queued + 1 /\ UNCHANGED <<writing, disk>>
BY DEF Put, Entry, SessionTypes

\* A change of the entry alone leaves the dead buried.
LEMMA BuriedStays ==
  ASSUME SessionInv, entry' \in Entry, entry'.ver = entry.ver + 1,
         UNCHANGED <<writing, disk, dead, deleted, unburied>>
  PROVE  Buried'
<1>1. entry.ver \in Nat /\ \A i \in dead : deleted[i] \in Nat
  BY DEF SessionInv, SessionTypes, Entry
<1> QED BY <1>1 DEF SessionInv, Buried

\* A session that dies is deleted by a newer change than any that was flushed.
LEMMA BuriedGrows ==
  ASSUME SessionInv, entry' \in Entry, entry'.ver = entry.ver + 1, UNCHANGED <<writing, disk>>,
         NEW a \in Ids, Bury(a)
  PROVE  Buried'
<1>1. /\ entry.ver \in Nat /\ deleted \in [Ids -> Nat] /\ dead \subseteq Ids
      /\ \A p \in writing \cup {disk} : p.ver \in Nat /\ p.ver <= entry.ver
  BY DEF SessionInv, SessionTypes, Entry, FlushesInOrder
<1>2. ASSUME NEW i \in dead' \ unburied'
      PROVE  /\ deleted'[i] <= entry'.ver
             /\ \A p \in writing' \cup {disk'} : p.id = i => p.ver < deleted'[i]
  <2>1. CASE i = a
    BY <1>1, <2>1 DEF Bury
  <2>2. CASE i # a
    <3>1. i \in dead \ unburied /\ i \in Ids /\ deleted'[i] = deleted[i] /\ deleted[i] \in Nat
      BY <1>1, <1>2, <2>2 DEF Bury
    <3>2. deleted[i] <= entry.ver /\ \A p \in writing \cup {disk} : p.id = i => p.ver < deleted[i]
      BY <3>1 DEF SessionInv, Buried
    <3> QED BY <1>1, <3>1, <3>2
  <2> QED BY <2>1, <2>2
<1> QED BY <1>2 DEF Buried

\* Flushes and restarts.
LEMMA StoreStep ==
  ASSUME SessionInv, FlushStart \/ (\E p \in writing : FlushEnd(p)) \/ Restart
  PROVE  SessionInv'
<1> USE SessionAssumption DEF SessionInv
<1>1. CASE FlushStart
  <2>1. /\ queued' = queued - 1 /\ queued > 0 /\ writing' = {entry}
        /\ UNCHANGED <<entry, disk, attempt, waiting, failures, blocked, started, length, dead, deleted, unburied, authRow, turns>>
    BY <1>1 DEF FlushStart, breaker, ghosts, graves
  <2>2. SessionTypes' /\ TurnsBound'
    BY <2>1 DEF SessionTypes, TurnsBound
  <2>3. IdsStarted' /\ FlushesInOrder'
    BY <2>1 DEF IdsStarted, FlushesInOrder, SessionTypes, Entry
  <2>4. EntryLives' /\ AttemptOnEntry' /\ ReportsItsOwn' /\ BreakerCounts'
    BY <2>1 DEF EntryLives, AttemptOnEntry, ReportsItsOwn, BreakerCounts
  <2>5. Buried'
    BY <2>1 DEF EntryLives, Buried
  <2> QED BY <2>2, <2>3, <2>4, <2>5
<1>2. ASSUME NEW p \in writing, FlushEnd(p) PROVE SessionInv'
  <2>1. /\ writing' = writing \ {p} /\ (disk' = p \/ disk' = disk)
        /\ UNCHANGED <<entry, queued, attempt, waiting, failures, blocked, started, length, dead, deleted, unburied, authRow, turns>>
    BY <1>2 DEF FlushEnd, breaker, ghosts, graves
  <2>2. SessionTypes' /\ TurnsBound'
    BY <2>1 DEF SessionTypes, TurnsBound
  <2>3. IdsStarted' /\ FlushesInOrder'
    BY <2>1 DEF IdsStarted, FlushesInOrder, SessionTypes, Entry
  <2>4. EntryLives' /\ AttemptOnEntry' /\ ReportsItsOwn' /\ BreakerCounts'
    BY <2>1 DEF EntryLives, AttemptOnEntry, ReportsItsOwn, BreakerCounts
  <2>5. Buried'
    BY <2>1 DEF EntryLives, Buried
  <2> QED BY <2>2, <2>3, <2>4, <2>5
<1>3. CASE Restart
  <2>1. /\ entry' = disk \/ entry' = NoEntry(disk.ver)
        /\ writing' = {} /\ queued' = 0 /\ disk' = disk /\ attempt' = IdleTurn /\ waiting' = FALSE
        /\ failures' = 0 /\ blocked' = "no" /\ authRow' = 0
        /\ unburied' = unburied \cup {i \in dead : deleted[i] > disk.ver} /\ UNCHANGED <<dead, deleted>>
        /\ length' = [i \in Ids |-> IF i = disk.id THEN disk.turns ELSE 0]
        /\ UNCHANGED <<started, turns>>
    BY <1>3 DEF Restart
  <2>2. disk \in Entry /\ disk.ver \in Nat /\ disk.turns \in 0..MaxResumeTurns /\ disk.id \in Ids \cup {0}
    BY DEF SessionTypes, Entry
  <2>3. entry' \in Entry /\ entry'.ver = disk.ver /\ (entry'.id = 0 \/ entry' = disk)
    BY <2>1, <2>2, Idle
  <2>4. SessionTypes'
    <3>1. waiting' \in BOOLEAN
      BY <2>1, Zenon
    <3>2. length' \in [Ids -> Nat]
      BY <2>1, <2>2
    <3> QED BY <2>1, <2>3, <3>1, <3>2, Idle DEF SessionTypes
  <2>5. TurnsBound' /\ AttemptOnEntry' /\ ReportsItsOwn' /\ BreakerCounts'
    BY <2>1, Idle DEF TurnsBound, AttemptOnEntry, ReportsItsOwn, BreakerCounts, SessionTypes
  <2>6. IdsStarted'
    BY <2>1, <2>2, <2>3 DEF IdsStarted, SessionTypes, Ids
  <2>7. FlushesInOrder'
    BY <2>1, <2>2, <2>3 DEF FlushesInOrder
  <2>8. EntryLives' /\ Buried'
    <3>1. ASSUME NEW i \in dead' \ unburied'
          PROVE  /\ i \in dead \ unburied /\ deleted[i] \in Nat /\ deleted[i] <= disk.ver
                 /\ disk.id # i /\ i # 0
      <4>1. i \in dead \ unburied /\ ~(deleted[i] > disk.ver) /\ i \in Ids
        BY <2>1, <3>1 DEF SessionTypes
      <4>2. deleted[i] \in Nat /\ i # 0
        BY <4>1 DEF SessionTypes, Ids
      <4> QED BY <2>2, <4>1, <4>2 DEF Buried
    <3>2. Buried'
      BY <2>1, <2>3, <3>1 DEF Buried
    <3>3. EntryLives'
      BY <2>1, <2>2, <2>3, <3>1 DEF EntryLives
    <3> QED BY <3>2, <3>3
  <2> QED BY <2>4, <2>5, <2>6, <2>7, <2>8
<1> QED BY <1>1, <1>2, <1>3

\* Messages are admitted, and a turn begins.
LEMMA AdmitStep ==
  ASSUME SessionInv, Admit \/ CooldownPasses \/ BeginAttempt
  PROVE  SessionInv'
<1> USE SessionAssumption DEF SessionInv
<1>0. UNCHANGED <<entry, writing, queued, disk, started, length, dead, deleted, unburied>>
  BY DEF Admit, CooldownPasses, BeginAttempt, store, ghosts, graves
<1>1. CASE Admit
  <2>1. /\ waiting' = TRUE /\ blocked # "yes" /\ UNCHANGED <<attempt, turns>>
        /\ IF blocked = "expired" THEN failures' = 0 /\ blocked' = "no" /\ authRow' = 0
           ELSE UNCHANGED <<failures, blocked, authRow>>
    BY <1>1 DEF Admit, openRuntimeAuthBreaker, breaker
  <2>2. SessionTypes'
    BY <1>0, <2>1 DEF SessionTypes
  <2>3. TurnsBound' /\ IdsStarted' /\ FlushesInOrder' /\ EntryLives' /\ Buried' /\ AttemptOnEntry' /\ ReportsItsOwn'
    BY <1>0, <2>1 DEF TurnsBound, IdsStarted, FlushesInOrder, EntryLives, Buried, AttemptOnEntry, ReportsItsOwn
  <2>4. BreakerCounts'
    BY <2>1 DEF BreakerCounts, SessionTypes
  <2> QED BY <2>2, <2>3, <2>4
<1>2. CASE CooldownPasses
  <2>1. blocked = "yes" /\ blocked' = "expired" /\ UNCHANGED <<attempt, waiting, failures, authRow, turns>>
    BY <1>2 DEF CooldownPasses, ghosts, graves
  <2>2. SessionTypes'
    BY <1>0, <2>1 DEF SessionTypes
  <2>3. TurnsBound' /\ IdsStarted' /\ FlushesInOrder' /\ EntryLives' /\ Buried' /\ AttemptOnEntry' /\ ReportsItsOwn'
    BY <1>0, <2>1 DEF TurnsBound, IdsStarted, FlushesInOrder, EntryLives, Buried, AttemptOnEntry, ReportsItsOwn
  <2>4. BreakerCounts'
    BY <2>1 DEF BreakerCounts
  <2> QED BY <2>2, <2>3, <2>4
<1>3. CASE BeginAttempt
  <2> DEFINE t == [IdleTurn EXCEPT !.phase = "ready", !.entry = entry, !.active = entry.id]
  <2>1. /\ attempt.phase = "idle" /\ waiting /\ turns < MaxAttempts /\ turns' = turns + 1 /\ waiting' = FALSE
        /\ attempt' = t /\ UNCHANGED <<failures, blocked, authRow>>
    BY <1>3 DEF BeginAttempt, breaker, ghosts, graves
  <2>2. t \in Attempts /\ t.phase = "ready" /\ t.entry = entry /\ t.active = entry.id
    <3>1. entry \in Entry /\ entry.id \in Ids \cup {0}
      BY DEF SessionTypes, Entry
    <3> QED BY <3>1, Idle DEF Attempts
  <2> HIDE DEF t
  <2>3. SessionTypes'
    <3>1. waiting' \in BOOLEAN
      BY <2>1, Zenon
    <3>2. turns' \in 0..MaxAttempts
      BY <2>1 DEF SessionTypes
    <3> QED BY <1>0, <2>1, <2>2, <3>1, <3>2 DEF SessionTypes
  <2>4. TurnsBound'
    BY <1>0, <2>1, <2>2 DEF TurnsBound, SessionTypes
  <2>5. IdsStarted' /\ FlushesInOrder' /\ EntryLives' /\ Buried' /\ AttemptOnEntry' /\ ReportsItsOwn'
    BY <1>0, <2>1, <2>2 DEF IdsStarted, FlushesInOrder, EntryLives, Buried, AttemptOnEntry, ReportsItsOwn
  <2>6. BreakerCounts'
    BY <2>1, <2>2 DEF BreakerCounts
  <2> QED BY <2>3, <2>4, <2>5, <2>6
<1> QED BY <1>1, <1>2, <1>3

\* Steps that leave the store alone and change nothing but how the turn goes on.
LEMMA GoesOnStep ==
  ASSUME SessionInv, Resume \/ AbortAttempt \/ RetryTransient
  PROVE  SessionInv'
<1> USE SessionAssumption DEF SessionInv
<1>1. UNCHANGED <<entry, writing, queued, disk, waiting, failures, blocked, started, length, dead, deleted, unburied, authRow, turns>>
  BY DEF Resume, AbortAttempt, RetryTransient, store, RunFrame, graves, breaker
<1>2. /\ attempt' \in Attempts /\ attempt.phase # "idle" /\ attempt'.phase # "idle"
      /\ attempt'.entry = attempt.entry /\ attempt'.active = attempt.active /\ attempt'.newId = attempt.newId
      /\ \/ attempt.phase = "ready" /\ attempt'.phase = "run"
            /\ (attempt.active # 0 => attempt.entry.turns < MaxResumeTurns)
         \/ attempt'.phase = attempt.phase /\ attempt'.error = attempt.error
         \/ attempt.phase = "retry" /\ attempt'.phase = "retry" /\ attempt.error # "again" /\ attempt'.error = "again"
  <2>0. attempt \in Attempts
    BY DEF SessionTypes
  <2>1. CASE Resume
    <3>1. /\ attempt.phase = "ready" /\ (attempt.active # 0 => attempt.entry.turns < MaxResumeTurns)
          /\ attempt' = [attempt EXCEPT !.phase = "run"]
      BY <2>1 DEF Resume
    <3> QED BY <2>0, <3>1 DEF Attempts
  <2>2. CASE AbortAttempt
    <3>1. attempt.phase \in {"ready", "run", "retry", "ran"} /\ attempt' = [attempt EXCEPT !.aborted = TRUE]
      BY <2>2 DEF AbortAttempt
    <3> QED BY <2>0, <3>1 DEF Attempts
  <2>3. CASE RetryTransient
    <3>1. attempt.phase = "retry" /\ attempt.error = "transient" /\ attempt' = [attempt EXCEPT !.error = "again"]
      BY <2>3 DEF RetryTransient, ReadyToRetry
    <3> QED BY <2>0, <3>1 DEF Attempts
  <2> QED BY <2>1, <2>2, <2>3
<1>3. SessionTypes'
  BY <1>1, <1>2 DEF SessionTypes
<1>4. TurnsBound'
  BY <1>1, <1>2 DEF TurnsBound, SessionTypes
<1>5. IdsStarted' /\ FlushesInOrder' /\ EntryLives' /\ Buried'
  BY <1>1 DEF IdsStarted, FlushesInOrder, EntryLives, Buried
<1>6. AttemptOnEntry' /\ ReportsItsOwn'
  BY <1>1, <1>2 DEF AttemptOnEntry, ReportsItsOwn
<1>7. BreakerCounts'
  BY <1>1, <1>2 DEF BreakerCounts
<1> QED BY <1>3, <1>4, <1>5, <1>6, <1>7

\* The runtime has run, in the session it was given or in a new one.
LEMMA AttemptEndsStep ==
  ASSUME SessionInv, NEW error \in {"none", "auth", "session", "transient"},
         NEW text \in BOOLEAN, NEW echo \in BOOLEAN, AttemptEnds(error, text, echo)
  PROVE  SessionInv'
<1> USE SessionAssumption DEF SessionInv
<1> DEFINE id == IF attempt.active # 0 THEN attempt.active ELSE started + 1
           t == [attempt EXCEPT !.phase = IF @ = "run" THEN "retry" ELSE "ran",
                                !.error = error, !.text = text, !.newId = IF echo THEN id ELSE 0]
<1>1. /\ attempt.phase = "run" \/ (attempt.phase = "retry" /\ attempt.error = "again")
      /\ started' = IF attempt.active # 0 THEN started ELSE started + 1
      /\ attempt' = t
      /\ UNCHANGED <<entry, writing, queued, disk, waiting, failures, blocked, length, dead, deleted, unburied, authRow, turns>>
  BY DEF AttemptEnds, store, RunFrame, graves, breaker
<1>2. attempt \in Attempts /\ attempt.active \in Ids \cup {0} /\ started \in Nat /\ started + 1 <= 2 * MaxAttempts
  BY <1>1 DEF SessionTypes, Attempts, TurnsBound
<1>3. id \in Ids
  BY <1>2 DEF Ids
<1>4. /\ t \in Attempts /\ t.entry = attempt.entry /\ t.active = attempt.active /\ t.error = error
      /\ t.phase = (IF attempt.phase = "run" THEN "retry" ELSE "ran") /\ t.newId \in {0, id}
  BY <1>2, <1>3 DEF Attempts
<1> HIDE DEF t
<1>5. SessionTypes'
  BY <1>1, <1>2, <1>4 DEF SessionTypes
<1>6. TurnsBound'
  BY <1>1, <1>2, <1>4 DEF TurnsBound, SessionTypes
<1>7. IdsStarted' /\ FlushesInOrder'
  <2>1. entry.id \in Nat /\ disk.id \in Nat /\ (\A p \in writing : p.id \in Nat) /\ (\A i \in Ids : i \in Nat)
    BY DEF SessionTypes, Entry, Ids
  <2>2. started' \in {started, started + 1}
    BY <1>1
  <2>3. IdsStarted'
    BY <1>1, <1>2, <2>1, <2>2 DEF IdsStarted, SessionTypes
  <2>4. FlushesInOrder'
    BY <1>1 DEF FlushesInOrder
  <2> QED BY <2>3, <2>4
<1>8. EntryLives' /\ Buried' /\ AttemptOnEntry'
  BY <1>1, <1>4 DEF EntryLives, Buried, AttemptOnEntry
<1>9. ReportsItsOwn'
  <2>1. CASE attempt.active # 0
    BY <1>1, <1>4, <2>1 DEF ReportsItsOwn
  <2>2. CASE attempt.active = 0
    <3>1. started' = started + 1 /\ id = started + 1 /\ t.active = 0
      BY <1>1, <1>4, <2>2
    <3>2. started + 1 \notin dead /\ length[started + 1] = 0
      BY <1>2, <1>3, <3>1 DEF IdsStarted, SessionTypes, Ids
    <3> QED BY <1>1, <1>4, <3>1, <3>2 DEF ReportsItsOwn
  <2> QED BY <2>1, <2>2
<1>10. BreakerCounts'
  BY <1>1, <1>4 DEF BreakerCounts
<1> QED BY <1>5, <1>6, <1>7, <1>8, <1>9, <1>10

\* A rotation, or a fresh start after a session failed: the entry is deleted,
\* and the turn resumes nothing.
LEMMA DropStep ==
  ASSUME SessionInv, Rotate \/ RetryFresh
  PROVE  SessionInv'
<1> USE SessionAssumption DEF SessionInv
<1>1. /\ Put(0, 0) /\ attempt.active # 0
      /\ UNCHANGED <<waiting, failures, blocked, started, length, authRow, turns>>
  BY DEF Rotate, RetryFresh, Delete, RunFrame, FreshFrame, breaker
<1>2. /\ entry' \in Entry /\ entry'.id = 0 /\ entry'.ver = entry.ver + 1
      /\ queued' = queued + 1 /\ UNCHANGED <<writing, disk>>
  BY <1>1, PutIs
<1>3. /\ attempt' \in Attempts /\ attempt'.active = 0
      /\ \/ attempt.phase = "ready" /\ attempt'.phase = "run" /\ UNCHANGED <<dead, deleted, unburied>>
         \/ /\ attempt.phase = "retry" /\ attempt.error # "again" /\ attempt'.phase = "retry" /\ attempt'.error = "again"
            /\ Bury(attempt.active)
  <2>0. attempt \in Attempts
    BY DEF SessionTypes
  <2>1. CASE Rotate
    <3>1. attempt.phase = "ready" /\ UNCHANGED <<dead, deleted, unburied>>
          /\ attempt' = [attempt EXCEPT !.phase = "run", !.active = 0, !.recovery = TRUE]
      BY <2>1 DEF Rotate, RunFrame, graves
    <3> QED BY <2>0, <3>1 DEF Attempts
  <2>2. CASE RetryFresh
    <3>1. attempt.phase = "retry" /\ attempt.error = "session" /\ Bury(attempt.active)
          /\ attempt' = [attempt EXCEPT !.active = 0, !.recovery = TRUE, !.error = "again"]
      BY <2>2 DEF RetryFresh, ReadyToRetry
    <3> QED BY <2>0, <3>1 DEF Attempts
  <2> QED BY <2>1, <2>2
<1>4. attempt.active \in Ids /\ attempt.active = entry.id /\ attempt.active <= started /\ entry.ver \in Nat
  BY <1>1, <1>3 DEF SessionTypes, Attempts, Entry, AttemptOnEntry, IdsStarted
<1>4a. /\ dead' \in {dead, dead \cup {attempt.active}} /\ unburied' \subseteq Ids
       /\ deleted' \in [Ids -> Nat] /\ dead' \subseteq Ids
  BY <1>2, <1>3, <1>4 DEF Bury, SessionTypes
<1>5. SessionTypes'
  BY <1>1, <1>2, <1>3, <1>4a DEF SessionTypes
<1>6. TurnsBound'
  BY <1>1, <1>2, <1>3 DEF TurnsBound, SessionTypes
<1>7. IdsStarted'
  BY <1>1, <1>2, <1>4, <1>4a DEF IdsStarted, SessionTypes
<1>8. FlushesInOrder'
  BY <1>2, <1>4 DEF FlushesInOrder, SessionTypes, Entry
<1>9. EntryLives' /\ AttemptOnEntry' /\ ReportsItsOwn'
  <2>1. 0 \notin Ids /\ 0 \notin dead'
    BY <1>4a DEF Ids
  <2> QED BY <1>1, <1>2, <1>3, <2>1 DEF EntryLives, AttemptOnEntry, ReportsItsOwn
<1>9a. Buried'
  <2>1. CASE UNCHANGED <<dead, deleted, unburied>>
    BY <1>2, <2>1, BuriedStays
  <2>2. CASE Bury(attempt.active)
    BY <1>2, <1>4, <2>2, BuriedGrows
  <2> QED BY <1>3, <2>1, <2>2
<1>10. BreakerCounts'
  BY <1>1, <1>3 DEF BreakerCounts
<1> QED BY <1>5, <1>6, <1>7, <1>8, <1>9, <1>9a, <1>10

\* A turn that stores nothing.
LEMMA GiveUpStep ==
  ASSUME SessionInv, GiveUp
  PROVE  SessionInv'
<1> USE SessionAssumption DEF SessionInv
<1>1. /\ attempt.phase # "idle" /\ attempt' = IdleTurn
      /\ UNCHANGED <<entry, writing, queued, disk, waiting, failures, blocked, started, length, dead, deleted, unburied, authRow, turns>>
  BY DEF GiveUp, store, breaker, ghosts, graves
<1>2. SessionTypes' /\ TurnsBound'
  BY <1>1, Idle DEF SessionTypes, TurnsBound
<1>3. IdsStarted' /\ FlushesInOrder' /\ EntryLives' /\ Buried' /\ AttemptOnEntry' /\ ReportsItsOwn'
  BY <1>1, Idle DEF IdsStarted, FlushesInOrder, EntryLives, Buried, AttemptOnEntry, ReportsItsOwn
<1>4. BreakerCounts'
  BY <1>1, Idle DEF BreakerCounts
<1> QED BY <1>2, <1>3, <1>4

\* What Conclude leaves of the store: the entry deleted, or the session that ran
\* with its turns, or nothing changed.
LEMMA PersistIs ==
  ASSUME SessionInv, Conclude
  PROVE  \/ Put(0, 0) /\ (UNCHANGED graves \/ (attempt.active # 0 /\ Bury(attempt.active)))
         \/ /\ attempt.newId # 0 /\ UNCHANGED graves
            /\ Put(attempt.newId, IF attempt.active # 0 THEN entry.turns + 1 ELSE 1)
         \/ UNCHANGED <<store, graves>> /\ (attempt.newId = 0 \/ entry.id = 0)
<1> USE DEF SessionInv
<1>1. /\ attempt.phase # "idle" /\ Persist
      /\ IF attempt.active # 0 /\ attempt.error # "none" /\ ~attempt.text
         THEN Bury(attempt.active) ELSE UNCHANGED graves
  BY DEF Conclude
<1>2. attempt.active = entry.id /\ (attempt.active # 0 => attempt.entry = entry)
  BY <1>1 DEF AttemptOnEntry
<1>3. CASE attempt.active # 0 /\ attempt.error # "none" /\ ~attempt.text
  BY <1>1, <1>3 DEF Persist, Delete
<1>4. CASE ~(attempt.active # 0 /\ attempt.error # "none" /\ ~attempt.text)
  <2>1. UNCHANGED graves
    BY <1>1, <1>4
  <2>2. CASE attempt.newId # 0 /\ attempt.error # "auth"
    BY <1>1, <1>2, <1>4, <2>1, <2>2 DEF Persist
  <2>3. CASE ~(attempt.newId # 0 /\ attempt.error # "auth") /\ attempt.active # 0 /\ attempt.error # "none"
    <3>1. Put(0, 0)
      BY <1>1, <1>4, <2>3 DEF Persist, Delete
    <3> QED BY <2>1, <3>1
  <2>4. CASE ~(attempt.newId # 0 /\ attempt.error # "auth") /\ ~(attempt.active # 0 /\ attempt.error # "none")
    <3>1. UNCHANGED store
      BY <1>1, <1>4, <2>4 DEF Persist
    <3>2. attempt.newId = 0 \/ entry.id = 0
      BY <1>2, <2>4
    <3> QED BY <2>1, <3>1, <3>2
  <2> QED BY <2>2, <2>3, <2>4
<1> QED BY <1>3, <1>4

\* The turn is over.
LEMMA ConcludeStep ==
  ASSUME SessionInv, Conclude
  PROVE  SessionInv'
<1> USE SessionAssumption DEF SessionInv
<1>1. /\ attempt.phase \in {"retry", "ran"} /\ attempt.error # "again" /\ attempt' = IdleTurn
      /\ length' = IF attempt.newId # 0 /\ attempt.newId = entry'.id
                   THEN [length EXCEPT ![attempt.newId] = @ + 1] ELSE length
      /\ UNCHANGED <<waiting, started, turns>>
  BY DEF Conclude
<1>2. /\ attempt \in Attempts /\ attempt.newId \in Ids \cup {0} /\ attempt.active \in Ids \cup {0}
      /\ attempt.active = entry.id /\ started \in Nat /\ entry.turns \in 0..MaxResumeTurns /\ entry.ver \in Nat
      /\ 0 \notin Ids
  BY <1>1 DEF SessionTypes, Attempts, AttemptOnEntry, Entry, Ids
<1>3. failures' \in Nat /\ authRow' \in Nat /\ blocked' \in {"no", "yes", "expired"} /\ BreakerCounts'
  <2>1. \/ failures' = failures + 1 /\ authRow' = authRow + 1 /\ blocked' = IF failures + 1 >= Threshold THEN "yes" ELSE "no"
        \/ failures' = 0 /\ authRow' = 0 /\ blocked' = "no"
        \/ UNCHANGED <<failures, authRow, blocked>>
    BY DEF Conclude, recordRuntimeAuthFailure, clearRuntimeAuthFailures, breaker
  <2> QED BY <1>1, <2>1, Idle DEF SessionTypes, BreakerCounts
<1>4. AttemptOnEntry' /\ ReportsItsOwn'
  BY <1>1, Idle DEF AttemptOnEntry, ReportsItsOwn
<1>5. CASE Put(0, 0) /\ (UNCHANGED graves \/ (attempt.active # 0 /\ Bury(attempt.active)))
  <2>1. /\ entry' \in Entry /\ entry'.id = 0 /\ entry'.ver = entry.ver + 1
        /\ queued' = queued + 1 /\ UNCHANGED <<writing, disk>>
    BY <1>5, PutIs
  <2>2. length' = length
    BY <1>1, <2>1
  <2>2a. /\ dead' \in {dead, dead \cup {attempt.active}} /\ unburied' \subseteq Ids
         /\ deleted' \in [Ids -> Nat] /\ dead' \subseteq Ids
    BY <1>2, <1>5, <2>1 DEF Bury, SessionTypes, graves
  <2>3. SessionTypes' /\ TurnsBound'
    <3>1. SessionTypes'
      BY <1>1, <1>3, <2>1, <2>2, <2>2a, Idle DEF SessionTypes
    <3>2. TurnsBound'
      BY <1>1, <2>1, Idle DEF TurnsBound, SessionTypes
    <3> QED BY <3>1, <3>2
  <2>4. IdsStarted' /\ FlushesInOrder'
    BY <1>1, <1>2, <2>1, <2>2, <2>2a DEF IdsStarted, FlushesInOrder, SessionTypes, Entry
  <2>5. EntryLives' /\ Buried'
    <3>1. EntryLives'
      BY <1>2, <2>1, <2>2, <2>2a DEF EntryLives
    <3>2. Buried'
      BY <1>2, <1>5, <2>1, BuriedStays, BuriedGrows DEF graves
    <3> QED BY <3>1, <3>2
  <2> QED BY <1>3, <1>4, <2>3, <2>4, <2>5
<1>6. CASE /\ attempt.newId # 0 /\ UNCHANGED <<dead, deleted, unburied>>
           /\ Put(attempt.newId, IF attempt.active # 0 THEN entry.turns + 1 ELSE 1)
  <2> DEFINE n == IF attempt.active # 0 THEN entry.turns + 1 ELSE 1
  <2>1. n \in 1..MaxResumeTurns
    BY <1>1, <1>2 DEF AttemptOnEntry
  <2>2. /\ entry' \in Entry /\ entry'.id = attempt.newId /\ entry'.turns = n /\ entry'.ver = entry.ver + 1
        /\ queued' = queued + 1 /\ UNCHANGED <<writing, disk>>
    <3>1. n \in 0..MaxResumeTurns /\ Put(attempt.newId, n)
      BY <1>6, <2>1
    <3> HIDE DEF n
    <3> QED BY <1>2, <3>1, PutIs
  <2>3. /\ attempt.newId \in Ids /\ attempt.newId <= started /\ attempt.newId \notin dead \ unburied
        /\ length[attempt.newId] + 1 <= n
    <3>1. CASE attempt.active # 0
      BY <1>1, <1>2, <1>6, <3>1 DEF ReportsItsOwn, EntryLives, IdsStarted, SessionTypes
    <3>2. CASE attempt.active = 0
      BY <1>1, <1>2, <1>6, <3>2 DEF ReportsItsOwn, SessionTypes
    <3> QED BY <3>1, <3>2
  <2> HIDE DEF n
  <2>4. length' = [length EXCEPT ![attempt.newId] = @ + 1] /\ length \in [Ids -> Nat]
    BY <1>1, <1>6, <2>2 DEF SessionTypes
  <2>5. SessionTypes' /\ TurnsBound'
    <3>1. length' \in [Ids -> Nat]
      BY <2>3, <2>4
    <3>2. SessionTypes'
      BY <1>1, <1>3, <1>6, <2>2, <3>1, Idle DEF SessionTypes
    <3>3. TurnsBound'
      BY <1>1, <2>2, Idle DEF TurnsBound, SessionTypes
    <3> QED BY <3>2, <3>3
  <2>6. IdsStarted' /\ FlushesInOrder'
    <3>1. IdsStarted'
      BY <1>1, <1>2, <1>6, <2>2, <2>3, <2>4 DEF IdsStarted, SessionTypes, Ids
    <3>2. FlushesInOrder'
      BY <1>2, <2>2 DEF FlushesInOrder, SessionTypes, Entry
    <3> QED BY <3>1, <3>2
  <2>7. EntryLives' /\ Buried'
    <3>1. EntryLives'
      BY <1>6, <2>1, <2>2, <2>3, <2>4 DEF EntryLives
    <3>2. Buried'
      BY <1>6, <2>2, BuriedStays
    <3> QED BY <3>1, <3>2
  <2> QED BY <1>3, <1>4, <2>5, <2>6, <2>7
<1>7. CASE UNCHANGED <<store, graves>> /\ (attempt.newId = 0 \/ entry.id = 0)
  <2>1. UNCHANGED <<entry, writing, queued, disk, dead, deleted, unburied, length>>
    BY <1>1, <1>7 DEF store, graves
  <2>2. SessionTypes' /\ TurnsBound'
    BY <1>1, <1>3, <2>1, Idle DEF SessionTypes, TurnsBound
  <2>3. IdsStarted' /\ FlushesInOrder' /\ EntryLives' /\ Buried'
    BY <1>1, <2>1 DEF IdsStarted, FlushesInOrder, EntryLives, Buried
  <2> QED BY <1>3, <1>4, <2>2, <2>3
<1> QED BY <1>5, <1>6, <1>7, PersistIs DEF graves

\* Every step preserves the invariant.
LEMMA SessionInvStep == SessionInv /\ [SessionNext]_sessionVars => SessionInv'
<1> SUFFICES ASSUME SessionInv, [SessionNext]_sessionVars PROVE SessionInv'
  OBVIOUS
<1>1. CASE UNCHANGED sessionVars
  <2>1. UNCHANGED <<entry, writing, queued, disk, attempt, waiting, failures, blocked, started, length, dead, deleted, unburied, authRow, turns>>
    BY <1>1 DEF sessionVars, store, breaker, ghosts, graves
  <2>2. SessionTypes' /\ TurnsBound' /\ IdsStarted' /\ FlushesInOrder'
    BY <2>1 DEF SessionInv, SessionTypes, TurnsBound, IdsStarted, FlushesInOrder
  <2>3. EntryLives' /\ Buried' /\ AttemptOnEntry' /\ ReportsItsOwn' /\ BreakerCounts'
    BY <2>1 DEF SessionInv, EntryLives, Buried, AttemptOnEntry, ReportsItsOwn, BreakerCounts
  <2> QED BY <2>2, <2>3 DEF SessionInv
<1>2. CASE SessionNext
  BY <1>2, StoreStep, AdmitStep, GoesOnStep, AttemptEndsStep, DropStep, GiveUpStep, ConcludeStep DEF SessionNext
<1> QED BY <1>1, <1>2

\* The file does not go back: what is written is not older than it.
LEMMA DiskStep == SessionInv /\ [SessionNext]_sessionVars => [disk'.ver >= disk.ver]_sessionVars
<1> SUFFICES ASSUME SessionInv, SessionNext PROVE disk'.ver >= disk.ver
  OBVIOUS
<1>1. disk.ver \in Nat /\ \A p \in writing : p.ver \in Nat /\ p.ver >= disk.ver
  BY DEF SessionInv, SessionTypes, Entry, FlushesInOrder
<1>2. disk' = disk \/ \E p \in writing : disk' = p
  <2>1. CASE FlushStart \/ (\E p \in writing : FlushEnd(p)) \/ Restart
    BY <2>1 DEF FlushStart, FlushEnd, Restart
  <2>2. CASE Admit \/ CooldownPasses \/ BeginAttempt \/ Resume \/ AbortAttempt \/ RetryTransient \/ GiveUp
    BY <2>2 DEF Admit, CooldownPasses, BeginAttempt, Resume, AbortAttempt, RetryTransient, GiveUp, store
  <2>3. CASE Rotate \/ RetryFresh \/ Conclude
    BY <2>3 DEF Rotate, RetryFresh, Conclude, Persist, Delete, Put, store
  <2>4. CASE \E error \in {"none", "auth", "session", "transient"}, text \in BOOLEAN, echo \in BOOLEAN :
               AttemptEnds(error, text, echo)
    BY <2>4 DEF AttemptEnds, store
  <2> QED BY <2>1, <2>2, <2>3, <2>4 DEF SessionNext
<1> QED BY <1>1, <1>2

\* The session of a conversation is kept in order, for any number of turns and
\* restarts and any thresholds: a dead session is not resumed unless its delete
\* was lost with a restart before it was written, a living one
\* keeps no more turns than the rotation allows, the breaker opens in time, and
\* the file does not go back (runTurn, SessionStore, recordRuntimeAuthFailure).
THEOREM SessionsInOrder == SessionSpec => SessionInOrder
<1> DEFINE Ok == SessionTypeOK /\ DeadNotResumed /\ SessionsRotate /\ BreakerHolds
<1>1. SessionInv => Ok
  <2> SUFFICES ASSUME SessionInv PROVE Ok
    OBVIOUS
  <2> USE SessionAssumption DEF SessionInv
  <2>1. started \in 0..(2 * MaxAttempts) /\ queued \in 0..(4 * MaxAttempts)
    BY DEF SessionTypes, TurnsBound
  <2>2. SessionTypeOK
    BY <2>1 DEF SessionTypes, SessionTypeOK, Attempts
  <2>3. DeadNotResumed
    BY DEF DeadNotResumed, AttemptOnEntry, EntryLives
  <2>4. SessionsRotate /\ BreakerHolds
    BY DEF SessionsRotate, EntryLives, BreakerHolds, BreakerCounts, SessionTypes
  <2> QED BY <2>2, <2>3, <2>4
<1> HIDE DEF Ok
<1>2. SessionSpec => []SessionInv
  BY SessionInvInit, SessionInvStep, PTL DEF SessionSpec
<1>3. SessionSpec => []Ok
  BY <1>1, <1>2, PTL
<1>4. SessionSpec => [][disk'.ver >= disk.ver]_sessionVars
  BY <1>2, DiskStep, PTL DEF SessionSpec
<1> QED BY <1>3, <1>4 DEF SessionInOrder, DiskMonotone, Ok
-----------------------------------------------------------------------------
(* The stream of a turn *)

\* A runtime event yields at most two frames, the end of the turn one more.
FramesCounted ==
  /\ tools <= events
  /\ blocksSent <= 2 * events + (IF phase = "idle" THEN 1 ELSE 0)

\* While a turn runs its frames leave "Thinking..." on the screen only when
\* the dispatcher knows that it has to take it back.
ShownThinks == phase # "idle" /\ shown => thinking

StreamInv == StreamTypeOK /\ FramesCounted /\ ShownThinks /\ NotLeftThinking /\ PingsSpaced

LEMMA PingKeepsDistance ==
  ASSUME StreamTypeOK, PingsSpaced, sendTypingPing
  PROVE  /\ lastPing' \in 0..Old /\ pings' \in 0..Old /\ PingsSpaced'
         /\ others' \in 0..RecencyCap
BY StreamAssumption DEF StreamTypeOK, PingsSpaced, sendTypingPing, Remembered, Old

\* What onBlock, onStatus and Finalize forward: nothing, a frame, or a frame
\* after the start of the thinking.
LEMMA ForwardNone ==
  ASSUME StreamTypeOK, Forward(<<>>)
  PROVE  blocksSent' = blocksSent /\ frames' = frames /\ shown' = shown
<1> DEFINE fs == <<>>
<1>1. Len(fs) = 0 /\ DOMAIN fs = {}
  OBVIOUS
<1>2. /\ blocksSent' = blocksSent + Len(fs)
      /\ frames' = IF fs = <<>> THEN frames ELSE fs
      /\ shown' = /\ shown \/ \E i \in DOMAIN fs : fs[i] \in {"started", "updated"}
                  /\ \A i \in DOMAIN fs : fs[i] \notin {"stopped", "assistant_text"}
  BY DEF Forward
<1>3. frames' = frames
  BY <1>2
<1> HIDE DEF fs
<1>4. shown' = shown
  BY Zenon, <1>1, <1>2 DEF StreamTypeOK
<1>5. blocksSent' = blocksSent
  BY <1>1, <1>2 DEF StreamTypeOK
<1> QED BY <1>3, <1>4, <1>5

LEMMA ForwardOne ==
  ASSUME NEW k, StreamTypeOK, Forward(<<k>>)
  PROVE  /\ blocksSent' = blocksSent + 1 /\ frames' = <<k>> /\ shown' \in BOOLEAN
         /\ k \in {"stopped", "assistant_text"} => ~shown'
         /\ k \notin {"started", "updated"} /\ shown' => shown
<1>1. /\ blocksSent' = blocksSent + Len(<<k>>)
      /\ frames' = IF <<k>> = <<>> THEN frames ELSE <<k>>
      /\ shown' = /\ shown \/ \E i \in DOMAIN <<k>> : <<k>>[i] \in {"started", "updated"}
                  /\ \A i \in DOMAIN <<k>> : <<k>>[i] \notin {"stopped", "assistant_text"}
  BY DEF Forward
<1>2. Len(<<k>>) = 1 /\ <<k>> # <<>> /\ DOMAIN <<k>> = {1} /\ <<k>>[1] = k
  OBVIOUS
<1>3. shown' = /\ shown \/ k \in {"started", "updated"}
               /\ k \notin {"stopped", "assistant_text"}
  BY <1>1, <1>2
<1> QED BY Zenon, <1>1, <1>2, <1>3

LEMMA ForwardTwo ==
  ASSUME NEW k, StreamTypeOK, Forward(<<"started", k>>)
  PROVE  blocksSent' = blocksSent + 2 /\ Len(frames') = 2 /\ shown' \in BOOLEAN
<1> DEFINE fs == <<"started", k>>
<1>1. Len(fs) = 2 /\ fs # <<>>
  OBVIOUS
<1>2. /\ blocksSent' = blocksSent + Len(fs)
      /\ frames' = IF fs = <<>> THEN frames ELSE fs
      /\ shown' = /\ shown \/ \E i \in DOMAIN fs : fs[i] \in {"started", "updated"}
                  /\ \A i \in DOMAIN fs : fs[i] \notin {"stopped", "assistant_text"}
  BY DEF Forward
<1> HIDE DEF fs
<1>3. shown' \in BOOLEAN
  BY Zenon, <1>2
<1> QED BY <1>1, <1>2, <1>3

LEMMA BlockStep ==
  ASSUME StreamInv, NEW kind \in Kinds, onBlock(kind)
  PROVE  StreamInv' /\ (Aborted => blocksSent' = blocksSent)
<1> DEFINE start == /\ ~thinking /\ kind # "assistant_text"
                    /\ ~sawText \/ kind = "tool_use"
<1>1. /\ phase = "running" /\ UNCHANGED <<stream, several, phase, typing, lastPing, others, pings>>
      /\ events < MaxEvents /\ events' = events + 1
      /\ tools' = IF kind = "tool_use" THEN tools + 1 ELSE tools
  BY DEF onBlock
<1>2. CASE Aborted \/ OverBudget(kind) \/ Withheld(kind)
  <2>1. /\ stop' \in {"no", "superseded", "timedOut", "budget"}
        /\ UNCHANGED <<thinking, sawText, blocksSent, frames, shown>>
    BY <1>2 DEF onBlock, StreamInv, StreamTypeOK
  <2> QED BY <1>1, <2>1, StreamAssumption
      DEF StreamInv, StreamTypeOK, FramesCounted, ShownThinks, NotLeftThinking, PingsSpaced, Old
<1>3. CASE ~(Aborted \/ OverBudget(kind) \/ Withheld(kind))
  <2>1. /\ thinking' = IF kind = "assistant_text" THEN FALSE ELSE thinking \/ start
        /\ sawText' = (sawText \/ kind = "assistant_text") /\ stop' = stop
        /\ start => Forward(<<"started", kind>>)
        /\ ~start => Forward(<<kind>>)
    BY <1>3 DEF onBlock
  <2>2. thinking' \in BOOLEAN /\ sawText' \in BOOLEAN
    BY Zenon, <2>1 DEF StreamInv, StreamTypeOK
  <2>3. /\ blocksSent' \in {blocksSent + 1, blocksSent + 2} /\ Len(frames') <= 2
        /\ shown' \in BOOLEAN /\ (shown' => thinking')
    <3>0. StreamTypeOK
      BY DEF StreamInv
    <3>1. CASE start
      <4>1. blocksSent' = blocksSent + 2 /\ Len(frames') = 2 /\ shown' \in BOOLEAN
        BY Zenon, <3>0, <3>1, <2>1, ForwardTwo
      <4>2. thinking'
        BY Zenon, <3>1, <2>1
      <4> QED BY <4>1, <4>2
    <3>2. CASE ~start
      <4>1. /\ blocksSent' = blocksSent + 1 /\ frames' = <<kind>> /\ shown' \in BOOLEAN
            /\ kind \in {"stopped", "assistant_text"} => ~shown'
            /\ kind \notin {"started", "updated"} /\ shown' => shown
        BY Zenon, <3>0, <3>2, <2>1, ForwardOne
      <4>2. shown' => shown /\ kind # "assistant_text"
        BY <4>1 DEF Kinds
      <4>3. shown' => thinking'
        BY <4>2, <2>1, <1>1 DEF StreamInv, ShownThinks
      <4>4. Len(<<kind>>) = 1
        OBVIOUS
      <4> QED BY <4>1, <4>3, <4>4
    <3> QED BY <3>1, <3>2
  <2> HIDE DEF start
  <2>4. tools' \in 0..MaxEvents /\ events' \in 0..MaxEvents /\ FramesCounted'
        /\ blocksSent' \in 0..(2 * MaxEvents + 1)
    BY <1>1, <2>3, StreamAssumption DEF StreamInv, StreamTypeOK, FramesCounted
  <2>5. StreamTypeOK'
    BY Zenon, <1>1, <2>1, <2>2, <2>3, <2>4 DEF StreamInv, StreamTypeOK, Old
  <2> QED BY <1>1, <1>3, <2>3, <2>4, <2>5 DEF StreamInv, ShownThinks, NotLeftThinking, PingsSpaced
<1> QED BY <1>2, <1>3

LEMMA StatusStep ==
  ASSUME StreamInv, NEW ev \in {"started", "updated", "stopped"}, onStatus(ev)
  PROVE  StreamInv' /\ ~Aborted
<1>1. /\ phase = "running" /\ events < MaxEvents /\ events' = events + 1 /\ ~Aborted
      /\ thinking' = (ev # "stopped")
      /\ UNCHANGED <<stream, several, phase, stop, typing, sawText, tools, lastPing, others, pings>>
      /\ Forward(IF ev = "stopped" /\ ~thinking THEN <<>> ELSE <<ev>>)
  BY DEF onStatus
<1>2. /\ blocksSent' \in {blocksSent, blocksSent + 1} /\ Len(frames') <= 2
      /\ shown' \in BOOLEAN /\ (ev = "stopped" => ~shown')
  <2>1. CASE ev = "stopped" /\ ~thinking
    BY <2>1, <1>1, ForwardNone DEF StreamInv, ShownThinks, StreamTypeOK
  <2>2. CASE ~(ev = "stopped" /\ ~thinking)
    <3>1. Forward(<<ev>>)
      BY <2>2, <1>1
    <3>2. StreamTypeOK /\ Len(<<ev>>) = 1
      BY DEF StreamInv
    <3>3. /\ blocksSent' = blocksSent + 1 /\ frames' = <<ev>> /\ shown' \in BOOLEAN
          /\ ev \in {"stopped", "assistant_text"} => ~shown'
      BY Zenon, <3>1, <3>2, ForwardOne
    <3> QED BY <3>2, <3>3
  <2> QED BY <2>1, <2>2
<1>3. events' \in 0..MaxEvents /\ FramesCounted' /\ blocksSent' \in 0..(2 * MaxEvents + 1)
  BY <1>1, <1>2, StreamAssumption DEF StreamInv, StreamTypeOK, FramesCounted
<1>4. StreamTypeOK'
  BY Zenon, <1>1, <1>2, <1>3 DEF StreamInv, StreamTypeOK, Old
<1> QED BY <1>1, <1>2, <1>3, <1>4 DEF StreamInv, ShownThinks, NotLeftThinking, PingsSpaced

LEMMA FinalizeStep ==
  ASSUME StreamInv, Finalize
  PROVE  StreamInv' /\ (blocksSent' > blocksSent => frames' = <<"stopped">>)
<1> DEFINE superseded == Aborted /\ stop # "timedOut"
<1>1. /\ phase = "finally" /\ phase' = "idle" /\ typing' = FALSE
      /\ UNCHANGED <<stream, several, stop, sawText, tools, events, lastPing, others, pings>>
      /\ thinking' = (thinking /\ superseded)
      /\ Forward(IF thinking /\ ~superseded THEN <<"stopped">> ELSE <<>>)
  BY DEF Finalize
<1>2. thinking' \in BOOLEAN
  BY Zenon, <1>1
<1>3. /\ blocksSent' \in {blocksSent, blocksSent + 1} /\ Len(frames') <= 2
      /\ shown' \in BOOLEAN /\ (shown' => superseded)
      /\ blocksSent' > blocksSent => frames' = <<"stopped">>
  <2>1. CASE thinking /\ ~superseded
    <3>1. Forward(<<"stopped">>)
      BY <2>1, <1>1
    <3>2. StreamTypeOK /\ Len(<<"stopped">>) = 1
      BY DEF StreamInv
    <3>3. blocksSent' = blocksSent + 1 /\ frames' = <<"stopped">> /\ ~shown' /\ shown' \in BOOLEAN
      BY Zenon, <3>1, <3>2, ForwardOne
    <3> QED BY <3>2, <3>3
  <2>2. CASE ~(thinking /\ ~superseded)
    <3>1. Forward(<<>>)
      BY <2>2, <1>1
    <3>2. shown => superseded
      BY <2>2, <1>1 DEF StreamInv, ShownThinks
    <3> QED BY <3>1, <3>2, ForwardNone DEF StreamInv, StreamTypeOK
  <2> QED BY <2>1, <2>2
<1>4. FramesCounted' /\ blocksSent' \in 0..(2 * MaxEvents + 1)
  BY <1>1, <1>3, StreamAssumption DEF StreamInv, StreamTypeOK, FramesCounted
<1>5. typing' = (phase' # "idle")
  BY Zenon, <1>1
<1>6. StreamTypeOK'
  BY Zenon, <1>1, <1>2, <1>3, <1>4, <1>5 DEF StreamInv, StreamTypeOK, Old
<1> QED BY <1>1, <1>3, <1>4, <1>6 DEF StreamInv, ShownThinks, NotLeftThinking, PingsSpaced, Aborted

LEMMA StreamStep ==
  ASSUME StreamInv, [StreamNext]_streamVars
  PROVE  /\ StreamInv'
         /\ Aborted /\ blocksSent' > blocksSent => frames' = <<"stopped">>
<1> USE StreamAssumption
<1>1. CASE OpenStream
  <2>1. lastPing' \in 0..Old /\ pings' \in 0..Old /\ PingsSpaced' /\ others' \in 0..RecencyCap
    BY <1>1, PingKeepsDistance DEF OpenStream, StreamInv
  <2>2. stream' \in 0..MaxStreams /\ FramesCounted' /\ Len(frames') <= 2
        /\ tools' \in 0..MaxEvents /\ events' \in 0..MaxEvents
        /\ blocksSent' \in 0..(2 * MaxEvents + 1) /\ ~(blocksSent' > blocksSent)
    BY <1>1 DEF OpenStream, StreamInv, StreamTypeOK, FramesCounted
  <2>3. typing' = (phase' # "idle")
    BY Zenon, <1>1 DEF OpenStream
  <2>4. StreamTypeOK'
    BY Zenon, <1>1, <2>1, <2>2, <2>3 DEF OpenStream, StreamInv, StreamTypeOK
  <2> QED BY <1>1, <2>1, <2>2, <2>4 DEF OpenStream, StreamInv, ShownThinks, NotLeftThinking
<1>2. CASE Tick
  BY <1>2 DEF Tick, StreamInv, StreamTypeOK, FramesCounted, ShownThinks, NotLeftThinking,
              PingsSpaced, Old
<1>10. CASE OtherPing
  BY <1>10 DEF OtherPing, Remembered, StreamInv, StreamTypeOK, FramesCounted, ShownThinks,
               NotLeftThinking, PingsSpaced
<1>3. CASE RefreshTyping
  <2>1. lastPing' \in 0..Old /\ pings' \in 0..Old /\ PingsSpaced' /\ others' \in 0..RecencyCap
    BY <1>3, PingKeepsDistance DEF RefreshTyping, StreamInv
  <2>2. UNCHANGED <<stream, several, phase, stop, typing, thinking, sawText, tools, events,
                    blocksSent, frames, shown>>
    BY <1>3 DEF RefreshTyping
  <2>3. FramesCounted' /\ ShownThinks' /\ NotLeftThinking' /\ ~(blocksSent' > blocksSent)
    BY <2>2 DEF StreamInv, StreamTypeOK, FramesCounted, ShownThinks, NotLeftThinking
  <2>4. StreamTypeOK'
    BY Zenon, <2>1, <2>2 DEF StreamInv, StreamTypeOK, Old
  <2> QED BY <2>1, <2>3, <2>4 DEF StreamInv
<1>4. CASE StreamEnds
  BY <1>4 DEF StreamEnds, StreamInv, StreamTypeOK, FramesCounted, ShownThinks, NotLeftThinking,
              PingsSpaced
<1>5. CASE Finalize
  BY <1>5, FinalizeStep
<1>6. CASE \E why \in {"superseded", "timedOut"} : AbortStream(why)
  BY <1>6 DEF AbortStream, StreamInv, StreamTypeOK, FramesCounted, ShownThinks, NotLeftThinking,
              PingsSpaced
<1>7. CASE \E kind \in Kinds : onBlock(kind)
  BY <1>7, BlockStep DEF StreamInv, StreamTypeOK
<1>8. CASE \E ev \in {"started", "updated", "stopped"} : onStatus(ev)
  BY <1>8, StatusStep
<1>9. CASE UNCHANGED streamVars
  BY <1>9 DEF streamVars, StreamInv, StreamTypeOK, FramesCounted, ShownThinks, NotLeftThinking,
              PingsSpaced
<1> QED BY <1>1, <1>2, <1>3, <1>4, <1>5, <1>6, <1>7, <1>8, <1>9, <1>10 DEF StreamNext

\* The owner's chat is honest: whatever the runtime emits, and however turns
\* are aborted, nothing of an aborted turn is forwarded but its last marker,
\* "Thinking..." ends with a turn that ran to its end or timed out (of turns
\* that were superseded or ran over the tool budget it says nothing: the
\* latter do stick, NeverSticks), and pings keep their distance unless
\* RecencyCap other conversations pinged in between (onBlock, onStatus,
\* finalizeThinkingIfActive and sendTypingPing of runTurn).
THEOREM StreamHonest == StreamSpec => ChatIsHonest
<1>1. StreamInit => StreamInv
  <2> SUFFICES ASSUME StreamInit PROVE StreamInv
    OBVIOUS
  <2>1. /\ 0 \in 0..MaxStreams /\ 0 \in 0..MaxEvents /\ 0 \in 0..(2 * MaxEvents + 1)
        /\ Old \in 0..Old /\ Len(<<>>) <= 2 /\ 0 \in 0..RecencyCap
    BY StreamAssumption DEF Old
  <2>2. StreamTypeOK
    BY Zenon, <2>1 DEF StreamInit, StreamTypeOK
  <2> QED BY <2>2, StreamAssumption
      DEF StreamInit, StreamInv, FramesCounted, ShownThinks, NotLeftThinking, PingsSpaced, Old
<1>2. StreamInv /\ [StreamNext]_streamVars => StreamInv'
  BY StreamStep
<1>3. StreamInv /\ [StreamNext]_streamVars
      => [Aborted /\ blocksSent' > blocksSent => frames' = <<"stopped">>]_streamVars
  BY StreamStep
<1>4. StreamInv => StreamTypeOK /\ NotLeftThinking /\ PingsSpaced
  BY DEF StreamInv
<1> QED BY <1>1, <1>2, <1>3, <1>4, PTL DEF StreamSpec, ChatIsHonest, AbortedIsSilent
=============================================================================
