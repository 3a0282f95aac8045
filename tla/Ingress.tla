------------------------------- MODULE Ingress -------------------------------
(***************************************************************************)
(* gateway-ingress: a message of a third-party provider becomes a durable  *)
(* event, is sent to the cloud daemon over a runtime WebSocket, and the    *)
(* reply goes back through the provider (packages/gateway-ingress/src:     *)
(* orchestrator.ts, runtime/session.ts, storage/store.ts).                 *)
(*                                                                         *)
(* One process with one event loop: code between two awaits that leave it  *)
(* is one step.  Status rows are files and survive a crash, all else is    *)
(* memory.  All gateways belong to one agent.  Backoff is time: an event   *)
(* that is queued is due sooner or later.  A frame that is repeated on the *)
(* same socket while the hub works on the first is counted once.           *)
(***************************************************************************)
EXTENDS Naturals, FiniteSets

CONSTANTS
    Events,      \* messages of the providers, by their provider event id
    Gateways,
    GatewayOf,   \* the gateway an event comes in through
    RuntimeSockets, \* runtime WebSockets that exist at the same time
    HandshakeHangs, \* whether a handshake may never be answered
    MaxFaults    \* bound on crashes, lost sockets and refusals

Absent == "none"     \* no socket, gateway or event

ASSUME IngressAssumption ==
    /\ GatewayOf \in [Events -> Gateways] /\ Absent \notin RuntimeSockets
    /\ HandshakeHangs \in BOOLEAN
    /\ MaxFaults \in Nat

VARIABLES
    status,    \* the event's row: InboundEvent.status
    disp,      \* dispatchEventLocked of the event, see below
    waitsFor,  \* the socket whose ready promise it awaits
    retrying,  \* retryRunning
    todo,      \* the rows retryPending listed and has still to look at
    current,   \* the event whose dispatch it awaits
    session,   \* RuntimeSessionManager.sessions, per gateway
    sock,      \* the state of a socket
    sockOf,    \* the gateway it was opened for
    turns,     \* inbound frames the hub works on, with their socket
    sending,   \* completingEvents: how far the reply is that it stands for
    replies,   \* history: how often the provider's user got a reply, 2 for more
    skipped,   \* history: events a reply of which was skipped during hub.touch
    faults

memVars == <<disp, waitsFor, retrying, todo, current, session, sock, sockOf, turns, sending>>
ingressVars == <<status, memVars, replies, skipped, faults>>

(***************************************************************************)
(* A dispatch awaits the hub ("hub"), the ready promise of the socket that *)
(* ensureSession opened ("ready"), or in sendInbound that of whichever     *)
(* socket is the session by then ("push").                                 *)
(***************************************************************************)
Dispatching == {"hub", "ready", "push"}
Terminal == {"delivered", "failed"}
Pending == {"queued", "delivering"}

IngressTypeOK ==
    /\ status \in [Events -> {"none"} \cup Pending \cup Terminal]
    /\ disp \in [Events -> {"idle"} \cup Dispatching]
    /\ waitsFor \in [Events -> RuntimeSockets \cup {Absent}]
    /\ retrying \in BOOLEAN
    /\ todo \in SUBSET Events
    /\ current \in Events \cup {Absent}
    /\ session \in [Gateways -> RuntimeSockets \cup {Absent}]
    /\ sock \in [RuntimeSockets -> {"closed", "connecting", "open"}]
    /\ sockOf \in [RuntimeSockets -> Gateways \cup {Absent}]
    /\ turns \in SUBSET (RuntimeSockets \X Events)
    /\ sending \in [Events -> {"no", "sending", "sent", "touching"}]
    /\ replies \in [Events -> 0..2]
    /\ skipped \in SUBSET Events
    /\ faults \in 0..MaxFaults
    \* someone waits for a socket exactly if it may still report
    /\ \A e \in Events : disp[e] \in {"ready", "push"} =>
           waitsFor[e] \in RuntimeSockets /\ sock[waitsFor[e]] = "connecting"
    /\ \A g \in Gateways : session[g] \in RuntimeSockets => sockOf[session[g]] = g

IngressInit ==
    /\ status = [e \in Events |-> "none"]
    /\ disp = [e \in Events |-> "idle"]
    /\ waitsFor = [e \in Events |-> Absent]
    /\ current = Absent
    /\ session = [g \in Gateways |-> Absent]
    /\ sock = [s \in RuntimeSockets |-> "closed"]
    /\ sockOf = [s \in RuntimeSockets |-> Absent]
    /\ turns = {}
    /\ sending = [e \in Events |-> "no"]
    /\ retrying = FALSE
    /\ todo = {}
    /\ replies = [e \in Events |-> 0]
    /\ skipped = {}
    /\ faults = 0

Fault == faults < MaxFaults /\ faults' = faults + 1

\* The retry worker may go on: the dispatch it awaited is over, or the process
\* has just come up.  Its continuation runs before any other event of the loop.
PassResumes == retrying /\ (current # Absent => disp[current] = "idle")
LoopFree == ~PassResumes

-----------------------------------------------------------------------------
(* Dispatch *)

\* dispatchEvent up to its first await, of an event that is not being
\* dispatched.
Begin(e) == disp' = [disp EXCEPT ![e] = "hub"]

\* ingest: store the row, then dispatch.  A provider event that is known, by
\* the ring buffer or by its row, is not stored again.
Ingest(e) ==
    /\ LoopFree
    /\ status[e] = "none"
    /\ status' = [status EXCEPT ![e] = "queued"]
    /\ Begin(e)
    /\ UNCHANGED <<waitsFor, retrying, todo, current, session, sock, sockOf, turns,
                   sending, replies, skipped, faults>>

\* requeueEvent and failEvent: the row is overwritten, whatever it says by now.
EndDispatch(e, st) ==
    /\ LoopFree
    /\ status' = [status EXCEPT ![e] = st]
    /\ disp' = [disp EXCEPT ![e] = "idle"]
    /\ UNCHANGED <<waitsFor, retrying, todo, current, session, sock, sockOf, turns,
                   sending, replies, skipped>>

\* resolveRuntimeMetadata: the hub is not ready, fails, or the call does.
HubNotReady(e) == Fault /\ disp[e] = "hub" /\ EndDispatch(e, "queued")

\* failed, deleted, 404, 409.
HubRefuses(e) == Fault /\ disp[e] = "hub" /\ EndDispatch(e, "failed")

\* The end of dispatchEventLocked for events W that run on in this step, given
\* the sessions and sockets as they are then: the row says "delivering", and
\* sendInbound sends, waits for a session that is connecting, or throws and
\* the event is queued again.
Push(W, ses, sk) ==
    LET s(e) == ses[GatewayOf[e]]
        open == {e \in W : s(e) # Absent /\ sk[s(e)] = "open"}
        wait == {e \in W : s(e) # Absent /\ sk[s(e)] = "connecting"}
    IN /\ status' = [e \in Events |->
              IF e \in open \cup wait THEN "delivering"
              ELSE IF e \in W THEN "queued" ELSE status[e]]
       /\ disp' = [e \in Events |->
              IF e \in wait THEN "push" ELSE IF e \in W THEN "idle" ELSE disp[e]]
       /\ waitsFor' = [e \in Events |->
              IF e \in wait THEN s(e) ELSE IF e \in W THEN Absent ELSE waitsFor[e]]
       /\ turns' = turns \cup {<<s(e), e>> : e \in open}

\* Events whose dispatch awaits the ready promise of socket s.
Awaiting(s) == {e \in Events : disp[e] # "idle" /\ waitsFor[e] = s}

\* ensureSession with the metadata of a runtime that is ready.  A session that
\* is not open, be it only connecting still, is closed as stale; "error" and
\* "close" of the aborted handshake come when the new session is in place, so
\* that the dispatches that awaited the old one fail, the new session is
\* dropped and onRuntimeClose queues the events that are being delivered.
HubReady(e) ==
    LET g == GatewayOf[e]
        old == session[g]
        lost == IF old = Absent THEN {} ELSE Awaiting(old)
    IN /\ LoopFree
       /\ disp[e] = "hub"
       /\ IF old # Absent /\ sock[old] = "open"
          THEN Push({e}, session, sock) /\ UNCHANGED <<session, sock, sockOf>>
          ELSE \E s \in RuntimeSockets :
              /\ sock[s] = "closed"
              /\ sock' = [x \in RuntimeSockets |->
                     IF x = s THEN "connecting" ELSE IF x = old THEN "closed" ELSE sock[x]]
              /\ sockOf' = [x \in RuntimeSockets |->
                     IF x = s THEN g ELSE IF x = old THEN Absent ELSE sockOf[x]]
              /\ session' = [session EXCEPT ![g] = IF old = Absent THEN s ELSE Absent]
              /\ disp' = [x \in Events |->
                     IF x = e THEN "ready" ELSE IF x \in lost THEN "idle" ELSE disp[x]]
              /\ waitsFor' = [x \in Events |->
                     IF x = e THEN s ELSE IF x \in lost THEN Absent ELSE waitsFor[x]]
              /\ status' = [x \in Events |->
                     IF x \in lost \/ (old # Absent /\ status[x] = "delivering")
                     THEN "queued" ELSE status[x]]
              /\ UNCHANGED turns
       /\ UNCHANGED <<retrying, todo, current, sending, replies, skipped, faults>>

-----------------------------------------------------------------------------
(* RuntimeSockets *)

\* "open": ready resolves; who awaited it in ensureSession goes on to
\* sendInbound, who awaited it there sends.
SocketOpens(s) ==
    /\ LoopFree
    /\ sock[s] = "connecting"
    /\ sock' = [sock EXCEPT ![s] = "open"]
    /\ Push(Awaiting(s), session, sock')
    /\ UNCHANGED <<retrying, todo, current, session, sockOf, sending, replies, skipped, faults>>

\* Mutant of SocketClosed: the events that are being delivered are not queued.
ClosedQuietly(s) ==
    LET W == Awaiting(s)
    IN /\ sock' = [sock EXCEPT ![s] = "closed"]
       /\ sockOf' = [sockOf EXCEPT ![s] = Absent]
       /\ session' = [session EXCEPT ![sockOf[s]] = Absent]
       /\ turns' = {t \in turns : t[1] # s}
       /\ status' = [e \in Events |-> IF e \in W THEN "queued" ELSE status[e]]
       /\ disp' = [e \in Events |-> IF e \in W THEN "idle" ELSE disp[e]]
       /\ waitsFor' = [e \in Events |-> IF e \in W THEN Absent ELSE waitsFor[e]]
       /\ UNCHANGED <<retrying, todo, current, sending, replies, skipped>>

\* "error", if the socket was not open yet (ready rejects, the dispatch queues
\* its event again), and "close": the gateway's session is dropped, also when
\* it is a newer socket's, and onRuntimeClose queues every event of the agent
\* that is being delivered.
SocketClosed(s) ==
    LET W == Awaiting(s)
    IN /\ sock' = [sock EXCEPT ![s] = "closed"]
       /\ sockOf' = [sockOf EXCEPT ![s] = Absent]
       /\ session' = [session EXCEPT ![sockOf[s]] = Absent]
       /\ turns' = {t \in turns : t[1] # s}
       /\ status' = [e \in Events |->
              IF e \in W \/ status[e] = "delivering" THEN "queued" ELSE status[e]]
       /\ disp' = [e \in Events |-> IF e \in W THEN "idle" ELSE disp[e]]
       /\ waitsFor' = [e \in Events |-> IF e \in W THEN Absent ELSE waitsFor[e]]
       /\ UNCHANGED <<retrying, todo, current, sending, replies, skipped>>

\* The hub restarts, the token is refused, or the connection is lost.
SocketLost(s) == LoopFree /\ Fault /\ sock[s] \in {"connecting", "open"} /\ SocketClosed(s)

-----------------------------------------------------------------------------
(* onRuntimeFrame *)

\* The hub answers an inbound frame on the socket it came by.
Answer(t) ==
    /\ LoopFree
    /\ t \in turns
    /\ turns' = turns \ {t}
    /\ UNCHANGED <<disp, waitsFor, retrying, todo, current, session, sock, sockOf, replies>>

\* gateway_inbound_ack that is not accepted, gateway_outbound_error, or a
\* reply for which no provider is registered (it is being restarted).
TurnFails(t) ==
    /\ Fault
    /\ Answer(t)
    /\ status' = [status EXCEPT ![t[2]] = "failed"]
    /\ UNCHANGED <<sending, skipped>>

\* gateway_outbound_complete: sent unless the event is terminal or the handler
\* of an earlier one has not ended, which goes on until the hub was touched.
TurnCompletes(t) ==
    /\ Answer(t)
    /\ sending' = [sending EXCEPT ![t[2]] =
           IF status[t[2]] \in Terminal \/ @ # "no" THEN @ ELSE "sending"]
    /\ skipped' = IF status[t[2]] \notin Terminal /\ sending[t[2]] = "touching"
                  THEN skipped \cup {t[2]} ELSE skipped
    /\ UNCHANGED <<status, faults>>

\* provider.send reaches the provider ...
ProviderSends(e) ==
    /\ LoopFree
    /\ sending[e] = "sending"
    /\ sending' = [sending EXCEPT ![e] = "sent"]
    /\ replies' = [replies EXCEPT ![e] = IF @ < 2 THEN @ + 1 ELSE @]
    /\ UNCHANGED <<status, disp, waitsFor, retrying, todo, current, session, sock, sockOf,
                   turns, skipped, faults>>

\* ... and its promise resolves, or rejects.  The event stays in
\* completingEvents until the hub has been touched, or was not.
SendSettles(e, st, next) ==
    /\ LoopFree
    /\ status' = [status EXCEPT ![e] = st]
    /\ sending' = [sending EXCEPT ![e] = next]
    /\ UNCHANGED <<disp, waitsFor, retrying, todo, current, session, sock, sockOf, turns,
                   replies, skipped>>
SendResolves(e) ==
    sending[e] = "sent" /\ SendSettles(e, "delivered", "touching") /\ UNCHANGED faults
SendRejects(e) ==
    Fault /\ sending[e] \in {"sending", "sent"} /\ SendSettles(e, "failed", "no")
TouchEnds(e) ==
    sending[e] = "touching" /\ SendSettles(e, status[e], "no") /\ UNCHANGED faults

-----------------------------------------------------------------------------
(* The retry worker *)

\* The loop of retryPending over the rows T, up to the next dispatch, which it
\* awaits.  Rows it comes to on the way are skipped if their event is being
\* dispatched or, as dispatchEventLocked reads the row again, has become
\* terminal.  The order of the rows, by creation, is left open.
Advance(T) ==
    LET due == {e \in T : disp[e] = "idle" /\ status[e] \notin Terminal}
    IN /\ \/ \E e \in due, passed \in SUBSET (T \ due) :
                /\ Begin(e)
                /\ current' = e
                /\ todo' = T \ (passed \cup {e})
                /\ retrying' = TRUE
          \/ /\ due = {}
             /\ current' = Absent
             /\ todo' = {}
             /\ retrying' = FALSE
             /\ UNCHANGED disp
       /\ UNCHANGED <<status, waitsFor, session, sock, sockOf, turns, sending, replies, skipped, faults>>

\* The timer.  It does nothing while a pass is under way.
RetryTick ==
    /\ ~retrying
    /\ \E e \in Events : status[e] = "queued"
    /\ Advance({e \in Events : status[e] = "queued"})

RetryOn == PassResumes /\ Advance(todo)

\* A new process: what was in memory is gone, the sockets with it, and
\* resumePending dispatches the rows R.
Restart(R) ==
    /\ LoopFree
    /\ Fault
    /\ disp' = [e \in Events |-> "idle"]
    /\ waitsFor' = [e \in Events |-> Absent]
    /\ current' = Absent
    /\ session' = [g \in Gateways |-> Absent]
    /\ sock' = [s \in RuntimeSockets |-> "closed"]
    /\ sockOf' = [s \in RuntimeSockets |-> Absent]
    /\ turns' = {}
    /\ sending' = [e \in Events |-> "no"]
    /\ retrying' = TRUE
    /\ todo' = R
    /\ UNCHANGED <<status, replies, skipped>>

\* Mutant of Crash: resumePending looks at queued rows only.
CrashResumesQueued == Restart({e \in Events : status[e] = "queued"})

\* The process dies and comes back with resumePending.
Crash == Restart({e \in Events : status[e] \in Pending})

IngressNext ==
    \/ \E e \in Events : Ingest(e) \/ HubReady(e) \/ HubNotReady(e) \/ HubRefuses(e)
                          \/ ProviderSends(e) \/ SendResolves(e) \/ SendRejects(e) \/ TouchEnds(e)
    \/ \E s \in RuntimeSockets : SocketOpens(s) \/ SocketLost(s)
    \/ \E t \in RuntimeSockets \X Events : TurnFails(t) \/ TurnCompletes(t)
    \/ RetryTick \/ RetryOn \/ Crash

(***************************************************************************)
(* The retry timer fires, the hub answers and has the agent running in the *)
(* end, turns end (they have a timeout of 30 minutes) and providers settle *)
(* a send (15 seconds), the call that touches the hub ends (fetch gives up *)
(* after 5 minutes).  A handshake is answered, unless HandshakeHangs.      *)
(***************************************************************************)
IngressFairness ==
    /\ WF_ingressVars(RetryTick) /\ WF_ingressVars(RetryOn)
    /\ \A e \in Events :
        /\ WF_ingressVars(HubReady(e))
        /\ WF_ingressVars(ProviderSends(e)) /\ WF_ingressVars(SendResolves(e))
        /\ WF_ingressVars(TouchEnds(e))
    /\ \A s \in RuntimeSockets :
        /\ HandshakeHangs \/ WF_ingressVars(SocketOpens(s))
        /\ \A e \in Events : WF_ingressVars(TurnCompletes(<<s, e>>))

IngressSpec == IngressInit /\ [][IngressNext]_ingressVars
IngressFairSpec == IngressSpec /\ IngressFairness

-----------------------------------------------------------------------------
(* Properties *)

\* Someone will change the row of an event that is being delivered: a frame the
\* hub works on, a dispatch, a reply on its way, or the resumption after a crash.
Watched(e) ==
    \/ disp[e] # "idle" \/ e \in todo \/ sending[e] \in {"sending", "sent"}
    \/ \E s \in RuntimeSockets : <<s, e>> \in turns

\* The retry timer looks at queued rows only; so a row that says "delivering"
\* has someone who will change it (onRuntimeClose, resumePending).  There is one
\* exception: a dispatch that overtook the reply to an earlier one writes
\* "delivering" over "delivered", and the reply to it comes while the handler of
\* the earlier one still touches the hub (orchestrator.ts:467) and is skipped.
\* Then the row stays until a crash or a lost socket, but the user has a reply.
DeliveringIsWatched ==
    \A e \in Events : status[e] = "delivering" =>
        Watched(e) \/ (e \in skipped /\ replies[e] > 0)

\* A row says "delivered" only if the provider got a reply.
DeliveredWasReplied ==
    \A e \in Events : status[e] = "delivered" => replies[e] > 0

\* The durable rows tell the truth: "delivered" was replied to, "delivering"
\* has someone who will change it or was replied to and skipped, whichever
\* sockets close, dispatches overlap or crashes happen (dispatchEventLocked,
\* onRuntimeClose, onRuntimeFrame).
RowsTellTheTruth == IngressTypeOK /\ DeliveringIsWatched /\ DeliveredWasReplied

\* "Retryable failures stay queued with backoff unless the Hub reports a
\* terminal agent/gateway state" (orchestrator.ts, dispatchEvent): an event
\* that is queued is delivered or fails in the end; or, as in the exception
\* above, a second reply to it is skipped.
EventsSettle ==
    \A e \in Events : status[e] = "queued" ~> (status[e] \in Terminal \/ e \in skipped)

\* The same without the exception, as the comment has it: "Drive one durable
\* event through ensure-running ... Retryable failures stay queued with backoff".
\* An event that was queued again is not left "delivering" for ever.
RetriedToTheEnd ==
    \A e \in Events : status[e] = "queued" ~> status[e] \in Terminal

\* "does not retry an in-flight delivering event during the normal retry loop"
\* (orchestrator.test.ts): the worker leaves alone an event whose frame the
\* daemon is working on.
NoRetryInFlight ==
    [][\A e \in Events :
        retrying /\ current' = e /\ current # e
            => ~\E s \in RuntimeSockets : session[GatewayOf[e]] = s /\ <<s, e>> \in turns]_ingressVars

\* "ignores duplicate outbound complete after an event is delivered"
\* (orchestrator.test.ts): as long as nothing fails, the user gets one reply.
RepliedOnce == \A e \in Events : faults = 0 => replies[e] <= 1
=============================================================================
