------------------------------ MODULE Delivery ------------------------------
(***************************************************************************)
(* The hub's inbox (module Inbox) composed with the daemon channels that   *)
(* consume it: packages/daemon/src/gateway/channels/botcord.ts.            *)
(*                                                                         *)
(* A worker is one daemon process with a channel for the receiving agent.  *)
(* Two workers stand for the old and the new process of a restart, or for  *)
(* a daemon and a second machine with the same credentials: the hub knows  *)
(* the agent, never the worker.  Each message is its own conversation, so  *)
(* handoffs of different messages run side by side.                        *)
(***************************************************************************)
EXTENDS Inbox

CONSTANTS
    Workers,    \* daemon processes serving the receiving agent
    Skipped,    \* messages normalizeInbox has no use for
    SeenCap,    \* SEEN_MESSAGES_CAP
    MaxFaults   \* bound on crashes, lost calls and thrown errors

ASSUME DeliveryAssumption ==
    /\ Requests = Workers \X Msgs   \* a worker acks a message once at a time
    /\ Skipped \subseteq Msgs
    /\ SeenCap \in Nat \ {0}
    /\ MaxFaults \in Nat

VARIABLES
    seen,       \* seenMessages of each worker
    hand,       \* the handoff of a message inside a worker
    handled,    \* messages some worker's dispatcher has finished with
    dropped,    \* messages whose rejection by the dispatcher was swallowed
    leaseLost,  \* history: claims the hub took back while the worker held them
    faults

chVars == <<seen, hand, handled, dropped, leaseLost, faults>>
dvars == <<vars, chVars>>

(***************************************************************************)
(* The handoff of a message: "reack" is the ack of a duplicate, or of a    *)
(* message that is skipped, which drainInbox awaits; "eligible" is a new   *)
(* message that waits for these; "running" and "accept" are the members of *)
(* pendingHandoffMessages (the dispatcher is at work and the lease timer   *)
(* runs; accept() was called and the timer stopped); "acking" and          *)
(* "reacking" are an ack with the hub serving the request.                 *)
(***************************************************************************)
Handoffs == {"idle", "eligible", "running", "accept", "acking", "reack", "reacking"}

DTypeOK ==
    /\ TypeOK
    /\ seen \in [Workers -> SUBSET Msgs]
    /\ hand \in [Workers -> [Msgs -> Handoffs]]
    /\ handled \in SUBSET Msgs
    /\ dropped \in SUBSET Msgs
    /\ leaseLost \in SUBSET (Workers \X Msgs)
    /\ faults \in 0..MaxFaults

DInit ==
    /\ Init
    /\ seen = [w \in Workers |-> {}]
    /\ hand = [w \in Workers |-> [m \in Msgs |-> "idle"]]
    /\ handled = {}
    /\ dropped = {}
    /\ leaseLost = {}
    /\ faults = 0

Fault == faults < MaxFaults /\ faults' = faults + 1

\* The worker is done with m, whatever came of it.
Release(w, m) ==
    /\ hand' = [hand EXCEPT ![w][m] = "idle"]
    /\ leaseLost' = leaseLost \ {<<w, m>>}

-----------------------------------------------------------------------------
(* The channel *)

\* rememberSeen for each of the messages: past the cap the set drops old
\* entries (the code the oldest ones, the model any), never the new ones.
RememberSeen(old, new) ==
    IF Cardinality(old \cup new) <= SeenCap
    THEN {old \cup new}
    ELSE {S \in SUBSET (old \cup new) :
            Cardinality(S) = SeenCap /\ (new \subseteq S \/ S \subseteq new)}

\* Mutant of Drain: a message whose handoff is pending counts as a duplicate
\* and is acked.
DrainAcksPending(w) ==
    /\ \A m \in Msgs : hand[w][m] \notin {"eligible", "reack", "reacking"}
    /\ \E S \in Oldest(Fetchable("receiver"), PollLimit) :
        LET ms == {m \in Msgs : Msg(m) \in S}
            new == ms \ seen[w]
            run == new \ Skipped
        IN /\ Claim(S)
           /\ \E s \in RememberSeen(seen[w], new) : seen' = [seen EXCEPT ![w] = s]
           /\ hand' = [hand EXCEPT ![w] = [m \in Msgs |->
                  IF m \in run THEN "eligible"
                  ELSE IF m \in ms THEN "reack" ELSE hand[w][m]]]
           /\ leaseLost' = leaseLost \ {<<w, m>> : m \in ms}
    /\ UNCHANGED <<handled, dropped, faults>>

\* drainInbox: poll with ack=false.  A message whose handoff is pending is
\* left alone, one that was seen before is acked again, of the new ones those
\* to skip are acked and the others collected.  A drain waits for the previous
\* one to finish.
Drain(w) ==
    /\ \A m \in Msgs : hand[w][m] \notin {"eligible", "reack", "reacking"}
    /\ \E S \in Oldest(Fetchable("receiver"), PollLimit) :
        LET ms == {m \in Msgs : Msg(m) \in S /\ hand[w][m] = "idle"}
            new == ms \ seen[w]
            run == new \ Skipped
        IN /\ Claim(S)
           /\ \E s \in RememberSeen(seen[w], new) : seen' = [seen EXCEPT ![w] = s]
           /\ hand' = [hand EXCEPT ![w] = [m \in Msgs |->
                  IF m \in run THEN "eligible"
                  ELSE IF m \in ms THEN "reack" ELSE hand[w][m]]]
           /\ leaseLost' = leaseLost \ {<<w, m>> : m \in {n \in Msgs : Msg(n) \in S}}
    /\ UNCHANGED <<handled, dropped, faults>>

\* drainInbox, after its acks: the messages go to the dispatcher and their
\* leases are renewed from now on.
HandOff(w) ==
    /\ \E m \in Msgs : hand[w][m] = "eligible"
    /\ \A m \in Msgs : hand[w][m] \notin {"reack", "reacking"}
    /\ hand' = [hand EXCEPT ![w] = [m \in Msgs |->
           IF @[m] = "eligible" THEN "running" ELSE @[m]]]
    /\ UNCHANGED <<vars, seen, handled, dropped, leaseLost, faults>>

\* The poll commits at the hub and its answer never arrives.
PollLost ==
    /\ Fault
    /\ PollProcessing("receiver")
    /\ UNCHANGED <<seen, hand, handled, dropped, leaseLost>>

\* The interval timer of startInboxLeaseRenewal, until accept() stops it.
Renew(w, m) ==
    /\ hand[w][m] = "running"
    /\ RenewLease({Msg(m)})
    /\ UNCHANGED chVars

\* emit: the dispatcher is done with the message and calls accept().
EmitDone(w, m) ==
    /\ hand[w][m] = "running"
    /\ hand' = [hand EXCEPT ![w][m] = "accept"]
    /\ handled' = handled \cup {m}
    /\ UNCHANGED <<vars, seen, dropped, leaseLost, faults>>

\* Mutant of EmitThrow: the message stays in the seen-cache.
EmitThrowKeepsSeen(w, m) ==
    /\ Fault
    /\ hand[w][m] = "running"
    /\ Release(w, m)
    /\ UNCHANGED <<vars, seen, handled, dropped>>

\* The dispatcher rejects the message and ChannelManager.safeEmit, which the
\* daemon gives to every channel, only logs it: the channel takes the handoff
\* for accepted and keeps the message in its seen-cache, though nothing was
\* handled and nothing acked.
EmitSwallowed(w, m) ==
    /\ Fault
    /\ hand[w][m] = "running"
    /\ Release(w, m)
    /\ dropped' = dropped \cup {m}
    /\ UNCHANGED <<vars, seen, handled>>

\* An emit of another embedder throws: forgetSeen, so that a redelivery is
\* handled and not acked.
EmitThrow(w, m) ==
    /\ Fault
    /\ hand[w][m] = "running"
    /\ Release(w, m)
    /\ seen' = [seen EXCEPT ![w] = @ \ {m}]
    /\ UNCHANGED <<vars, handled, dropped>>

\* ackMessages reaches the hub, which loads the row ...
AckSent(w, m) ==
    /\ hand[w][m] \in {"accept", "reack"}
    /\ AckLoad(<<w, m>>, {Msg(m)})
    /\ hand' = [hand EXCEPT ![w][m] =
           IF @ = "accept" THEN "acking" ELSE "reacking"]
    /\ UNCHANGED <<seen, handled, dropped, leaseLost, faults>>

\* ... or finds that it is settled already ("acked": 0).
AckMissed(w, m) ==
    /\ hand[w][m] \in {"accept", "reack"}
    /\ state[Msg(m)] \notin Live
    /\ Release(w, m)
    /\ UNCHANGED <<vars, seen, handled, dropped, faults>>

\* The call fails before it reaches the hub; the error is swallowed.
AckLost(w, m) ==
    /\ Fault
    /\ hand[w][m] \in {"accept", "reack"}
    /\ Release(w, m)
    /\ UNCHANGED <<vars, seen, handled, dropped>>

\* The hub finishes serving an ack, whether or not the worker still waits.
Acked(w, m) ==
    /\ AckWrite(<<w, m>>)
    /\ IF hand[w][m] \in {"acking", "reacking"}
       THEN Release(w, m) ELSE UNCHANGED <<hand, leaseLost>>
    /\ UNCHANGED <<seen, handled, dropped, faults>>

\* The hub fails to serve it.
AckFailed(w, m) ==
    /\ Fault
    /\ AckAbort(<<w, m>>)
    /\ IF hand[w][m] \in {"acking", "reacking"}
       THEN Release(w, m) ELSE UNCHANGED <<hand, leaseLost>>
    /\ UNCHANGED <<seen, handled, dropped>>

\* The worker gives up on the answer while the hub still serves the ack.
AckTimedOut(w, m) ==
    /\ Fault
    /\ hand[w][m] \in {"acking", "reacking"}
    /\ Release(w, m)
    /\ UNCHANGED <<vars, seen, handled, dropped>>

\* The daemon stops and a new process starts: everything above is memory.
Restart(w) ==
    /\ Fault
    /\ seen' = [seen EXCEPT ![w] = {}]
    /\ hand' = [hand EXCEPT ![w] = [m \in Msgs |-> "idle"]]
    /\ leaseLost' = {p \in leaseLost : p[1] # w}
    /\ UNCHANGED <<vars, handled, dropped>>

-----------------------------------------------------------------------------
(* The rest of the system *)

\* Only an agent that was handed the message knows the id to reply to.
SendReceipt(m, t) ==
    /\ m \in handled \cup dropped \/ \E w \in Workers : hand[w][m] # "idle"
    /\ Receipt(m, t)
    /\ UNCHANGED chVars

\* Reclaim, noting in the history which workers lost their claim by it.
ReclaimNoted ==
    /\ Reclaim
    /\ leaseLost' = leaseLost \cup
           {p \in Workers \X Msgs : Msg(p[2]) \in Stale /\ hand[p[1]][p[2]] # "idle"}
    /\ UNCHANGED <<seen, hand, handled, dropped, faults>>

DNext ==
    \/ \E m \in Msgs : Send(m) /\ UNCHANGED chVars
    \/ \E m \in Msgs : Recall(m) /\ UNCHANGED chVars
    \/ \E m \in Msgs, t \in ReceiptTypes : SendReceipt(m, t)
    \/ PollDelivered("sender") /\ UNCHANGED chVars
    \/ \E w \in Workers : Drain(w)
    \/ \E w \in Workers : HandOff(w)
    \/ PollLost
    \/ \E w \in Workers, m \in Msgs :
        \/ Renew(w, m) \/ EmitDone(w, m) \/ EmitThrow(w, m)
        \/ EmitSwallowed(w, m)
        \/ AckSent(w, m) \/ AckMissed(w, m) \/ AckLost(w, m)
        \/ Acked(w, m) \/ AckFailed(w, m) \/ AckTimedOut(w, m)
    \/ \E w \in Workers : Restart(w)
    \/ ReclaimNoted
    \/ Scan /\ UNCHANGED chVars
    \/ \E i \in Ids : ExpireOne(i) /\ UNCHANGED chVars
    \/ Fault /\ LoopAbort /\ UNCHANGED <<seen, hand, handled, dropped, leaseLost>>
    \/ Tick /\ UNCHANGED chVars

(***************************************************************************)
(* Time passes and the hub's loop runs.  A dispatcher that was handed a    *)
(* message finishes with it (turns have a timeout), the channel then sends *)
(* its ack, and the hub serves the requests it accepted.  Nothing is       *)
(* assumed of polls: without any, messages expire.                         *)
(***************************************************************************)
Fairness ==
    /\ WF_dvars(Tick /\ UNCHANGED chVars)
    /\ WF_dvars(ReclaimNoted)
    /\ WF_dvars(Scan /\ UNCHANGED chVars)
    /\ WF_dvars(\E i \in Ids : ExpireOne(i) /\ UNCHANGED chVars)
    /\ \A w \in Workers : WF_dvars(HandOff(w))
    /\ \A w \in Workers, m \in Msgs :
        /\ WF_dvars(EmitDone(w, m))
        /\ WF_dvars(AckSent(w, m) \/ AckMissed(w, m))
        /\ WF_dvars(Acked(w, m))

DSpec == DInit /\ [][DNext]_dvars
FairSpec == DSpec /\ Fairness

-----------------------------------------------------------------------------
(* Properties *)

\* No message is lost between hub and daemon but by a swallowed rejection: the
\* hub records a delivery only for a message a dispatcher has finished with,
\* that the channel skips, or whose rejection safeEmit swallowed, by whichever
\* worker's ack, duplicate or late, it was recorded (botcord.ts drainInbox and
\* its seen-cache, hub.py ack_inbox_messages).
DeliveredWasHandled ==
    \A m \in Msgs \ Skipped :
        state[Msg(m)] = "delivered" => m \in handled \cup dropped

\* A handle that the dispatcher rejects is retried: "reject every waiting handle
\* so its Hub lease can expire and the message retries" (dispatcher.ts
\* runSerial), so that the hub does not record it as delivered before it was
\* handled.
RejectedIsRetried ==
    \A m \in Msgs \ Skipped : state[Msg(m)] = "delivered" => m \in handled

\* Two workers have the same message in hand at the same time only if the hub
\* had taken the claim of one of them back (SKIP LOCKED poll, conditional
\* reclaim).
NoDoubleClaim ==
    \A m \in Msgs, w, v \in Workers :
        w # v /\ {hand[w][m], hand[v][m]} \subseteq {"eligible", "running"}
        => <<w, m>> \in leaseLost \/ <<v, m>> \in leaseLost

\* A recalled message is not handed to a worker any more, not even when it was
\* being processed, its worker died and the hub took it back.
RecalledNotHandedOut ==
    [][\A w \in Workers, m \in Msgs :
        Msg(m) \in recalled /\ hand[w][m] = "idle" => hand'[w][m] = "idle"]_dvars

\* What the hub has to say of a message, for module AtLeastOnce.
Fate == [m \in Msgs |->
    LET s == state[Msg(m)] IN
    IF s \in Live THEN IF Msg(m) \in recalled THEN "withdrawn" ELSE "open"
    ELSE IF s \in {"acked", "done"} THEN "answered" ELSE s]

Abstract == INSTANCE AtLeastOnce WITH fate <- Fate

\* Leases, polls, late acks, receipts, the seen-cache, recalls and the expiry
\* loop, with a daemon that restarts and calls that get lost, are an
\* implementation of at-least-once delivery whose one way to lose a message is
\* the rejection that safeEmit swallows (hub.py, expiry.py, botcord.ts,
\* channel-manager.ts).
Promise == Abstract!Spec

\* Nothing is stuck: a record that is queued or being processed is settled in
\* the end, or was recalled, whatever crashes, is lost or is thrown on the way.
EventuallySettled ==
    \A i \in Ids : state[i] \in Live ~> (state[i] \in Settled \/ i \in recalled)
=============================================================================
