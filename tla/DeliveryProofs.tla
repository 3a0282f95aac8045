--------------------------- MODULE DeliveryProofs ---------------------------
(***************************************************************************)
(* The hub's inbox is safe, for any number of messages, of ack requests    *)
(* served at once and of ticks in a lease or a TTL, and whatever the       *)
(* clients do; and delivery through it is at least once, for any number of *)
(* daemons, messages, crashes and lost calls, and for any capacity of the  *)
(* seen-cache.                                                             *)
(*                                                                         *)
(* The properties of Inbox are not inductive: a handler that writes what   *)
(* it loaded earlier (ack, expiry) is harmless only because it loaded rows *)
(* that exist, and a new row starts without a deadline only because no row *)
(* that does not exist has one.                                            *)
(*                                                                         *)
(* A delivery is recorded by an ack, and an ack is sent for a message the  *)
(* dispatcher is done with, for one the channel skips, or for a duplicate. *)
(* The last is what needs an argument: a message counts as a duplicate     *)
(* when the seen-cache of the worker has it, so the invariant says what    *)
(* being there means: the message was dealt with, or is in hand.           *)
(***************************************************************************)
EXTENDS Delivery, TLAPS

-----------------------------------------------------------------------------
(* The inbox *)

\* A row that was never inserted has no deadline.
AbsentIsBlank == \A i \in Ids : ~Exists(i) => retry[i] = NULL

\* What a handler holds in memory are rows of the table.
LoadedExist ==
    /\ \A r \in Requests, i \in Ids : ackRows[r][i] # "none" => Exists(i)
    /\ \A i \in scanned : Exists(i)

\* The inductive invariant.
IInv ==
    /\ TypeOK
    /\ ClaimHasDeadline
    /\ AbsentIsBlank
    /\ LoadedExist
    /\ ExpiryReportedOnce
    /\ ReceiptForwarded

-----------------------------------------------------------------------------
(* Record identifiers *)

\* The records of a message are distinct rows of the table.
LEMMA IdFacts ==
    /\ \A m \in Msgs : Msg(m) \in Ids /\ TtlError(m) \in Ids
    /\ \A m, n \in Msgs : Msg(m) # TtlError(n)
    /\ \A m, n \in Msgs : Msg(m) = Msg(n) => m = n
    /\ \A m, n \in Msgs : TtlError(m) = TtlError(n) => m = n
    /\ \A m \in Msgs, t \in ReceiptTypes : ReceiptOf(m, t) \in Ids
    /\ \A m, n \in Msgs, t \in ReceiptTypes :
           ReceiptOf(m, t) # Msg(n) /\ ReceiptOf(m, t) # TtlError(n)
    /\ \A m, n \in Msgs : \A t, u \in ReceiptTypes :
           ReceiptOf(m, t) = ReceiptOf(n, u) => m = n /\ t = u
BY InboxAssumption DEF Msg, TtlError, ReceiptOf, Ids, Kinds, AllReceipts

\* What a receipt makes of a message.
LEMMA ReceiptFacts ==
    /\ \A t \in ReceiptTypes : ReceiptState[t] \in {"acked", "done", "failed"}
    /\ ReceiptState["ack"] = "acked" /\ ReceiptState["result"] = "done"
    /\ \A t \in ReceiptTypes : ReceiptState[t] = "acked" => t = "ack"
    /\ \A t \in ReceiptTypes : ReceiptState[t] = "done" => t = "result"
BY InboxAssumption DEF ReceiptState, AllReceipts

\* A poll or a scan only ever selects from the rows of its WHERE clause.
LEMMA OldestFacts ==
    ASSUME NEW Q, NEW n, NEW S \in Oldest(Q, n)
    PROVE  S \subseteq Q
BY DEF Oldest

-----------------------------------------------------------------------------
(* One step *)

\* What NoResurrection says of a step.
KeepsSettled == \A i \in Ids : state[i] \in Settled => state'[i] \in Settled

LEMMA InitIInv == Init => IInv
BY IdFacts, ReceiptFacts, InboxAssumption
   DEF Init, IInv, TypeOK, ClaimHasDeadline, AbsentIsBlank, LoadedExist,
       ExpiryReportedOnce, ReceiptForwarded, Exists, NULL, NoRows, States, Live,
       Settled

\* Every step keeps the invariant, and keeps settled records settled.
LEMMA NextStep ==
    ASSUME IInv, Next
    PROVE  IInv' /\ KeepsSettled
<1> USE IdFacts, ReceiptFacts, InboxAssumption
    DEF IInv, TypeOK, ClaimHasDeadline, AbsentIsBlank, LoadedExist,
        ExpiryReportedOnce, ReceiptForwarded, KeepsSettled,
        Exists, NULL, States, Live, Settled
<1>1. CASE \E m \in Msgs : Send(m)
  <2>1. TypeOK'
    BY <1>1 DEF Send
  <2>2. ClaimHasDeadline' /\ AbsentIsBlank'
    BY <1>1 DEF Send
  <2>3. LoadedExist'
    BY <1>1 DEF Send
  <2>4. ExpiryReportedOnce'
    BY <1>1 DEF Send
  <2>5. ReceiptForwarded'
    BY <1>1 DEF Send
  <2>6. KeepsSettled
    BY <1>1 DEF Send
  <2> QED BY <2>1, <2>2, <2>3, <2>4, <2>5, <2>6
<1>2. CASE \E a \in Inboxes : PollProcessing(a)
  <2>1. TypeOK'
    BY OldestFacts, <1>2 DEF PollProcessing, Claim, Fetchable
  <2>2. ClaimHasDeadline' /\ AbsentIsBlank'
    BY OldestFacts, <1>2 DEF PollProcessing, Claim, Fetchable
  <2>3. LoadedExist'
    BY OldestFacts, <1>2 DEF PollProcessing, Claim, Fetchable
  <2>4. ExpiryReportedOnce'
    BY OldestFacts, <1>2 DEF PollProcessing, Claim, Fetchable
  <2>5. ReceiptForwarded'
    BY OldestFacts, <1>2 DEF PollProcessing, Claim, Fetchable
  <2>6. KeepsSettled
    BY OldestFacts, <1>2 DEF PollProcessing, Claim, Fetchable
  <2> QED BY <2>1, <2>2, <2>3, <2>4, <2>5, <2>6
<1>3. CASE \E a \in Inboxes : PollDelivered(a)
  <2>1. TypeOK'
    BY OldestFacts, <1>3 DEF PollDelivered, Fetchable
  <2>2. ClaimHasDeadline' /\ AbsentIsBlank'
    BY OldestFacts, <1>3 DEF PollDelivered, Fetchable
  <2>3. LoadedExist'
    BY OldestFacts, <1>3 DEF PollDelivered, Fetchable
  <2>4. ExpiryReportedOnce'
    BY OldestFacts, <1>3 DEF PollDelivered, Fetchable
  <2>5. ReceiptForwarded'
    BY OldestFacts, <1>3 DEF PollDelivered, Fetchable
  <2>6. KeepsSettled
    BY OldestFacts, <1>3 DEF PollDelivered, Fetchable
  <2> QED BY <2>1, <2>2, <2>3, <2>4, <2>5, <2>6
<1>4. CASE \E r \in Requests, M \in SUBSET Ids : AckLoad(r, M)
  <2>1. TypeOK' /\ ClaimHasDeadline' /\ AbsentIsBlank' /\ LoadedExist'
    BY <1>4 DEF AckLoad, NoRows, dbVars
  <2>2. ExpiryReportedOnce' /\ ReceiptForwarded' /\ KeepsSettled
    BY <1>4 DEF AckLoad, NoRows, dbVars
  <2> QED BY <2>1, <2>2
<1>5. CASE \E r \in Requests : AckWrite(r)
  <2>1. TypeOK'
    BY <1>5 DEF AckWrite, NoRows
  <2>2. ClaimHasDeadline' /\ AbsentIsBlank'
    BY <1>5 DEF AckWrite, NoRows
  <2>3. LoadedExist'
    BY <1>5 DEF AckWrite, NoRows
  <2>4. ExpiryReportedOnce'
    BY <1>5 DEF AckWrite, NoRows
  <2>5. ReceiptForwarded'
    BY <1>5 DEF AckWrite, NoRows
  <2>6. KeepsSettled
    BY <1>5 DEF AckWrite, NoRows
  <2> QED BY <2>1, <2>2, <2>3, <2>4, <2>5, <2>6
<1>6. CASE \E r \in Requests : AckAbort(r)
  <2>1. TypeOK' /\ ClaimHasDeadline' /\ AbsentIsBlank' /\ LoadedExist'
    BY <1>6 DEF AckAbort, NoRows, dbVars
  <2>2. ExpiryReportedOnce' /\ ReceiptForwarded' /\ KeepsSettled
    BY <1>6 DEF AckAbort, NoRows, dbVars
  <2> QED BY <2>1, <2>2
<1>7. CASE \E M \in SUBSET Ids : RenewLease(M)
  <2>1. TypeOK' /\ ClaimHasDeadline' /\ AbsentIsBlank' /\ LoadedExist'
    BY <1>7 DEF RenewLease
  <2>2. ExpiryReportedOnce' /\ ReceiptForwarded' /\ KeepsSettled
    BY <1>7 DEF RenewLease
  <2> QED BY <2>1, <2>2
<1>8. CASE \E m \in Msgs, t \in ReceiptTypes : Receipt(m, t)
  <2>1. TypeOK'
    BY <1>8 DEF Receipt
  <2>2. ClaimHasDeadline' /\ AbsentIsBlank'
    BY <1>8 DEF Receipt
  <2>3. LoadedExist'
    BY <1>8 DEF Receipt
  <2>4. ExpiryReportedOnce'
    BY <1>8 DEF Receipt
  <2>5. ReceiptForwarded'
    BY <1>8 DEF Receipt
  <2>6. KeepsSettled
    BY <1>8 DEF Receipt
  <2> QED BY <2>1, <2>2, <2>3, <2>4, <2>5, <2>6
<1>9. CASE \E m \in Msgs : Recall(m)
  <2>1. TypeOK' /\ ClaimHasDeadline' /\ AbsentIsBlank' /\ LoadedExist'
    BY <1>9 DEF Recall
  <2>2. ExpiryReportedOnce' /\ ReceiptForwarded' /\ KeepsSettled
    BY <1>9 DEF Recall
  <2> QED BY <2>1, <2>2
<1>10. CASE Reclaim
  <2>1. TypeOK'
    BY <1>10 DEF Reclaim, Stale
  <2>2. ClaimHasDeadline' /\ AbsentIsBlank'
    BY <1>10 DEF Reclaim, Stale
  <2>3. LoadedExist'
    BY <1>10 DEF Reclaim, Stale
  <2>4. ExpiryReportedOnce'
    BY <1>10 DEF Reclaim, Stale
  <2>5. ReceiptForwarded'
    BY <1>10 DEF Reclaim, Stale
  <2>6. KeepsSettled
    BY <1>10 DEF Reclaim, Stale
  <2> QED BY <2>1, <2>2, <2>3, <2>4, <2>5, <2>6
<1>11. CASE Scan
  <2>1. TypeOK' /\ ClaimHasDeadline' /\ AbsentIsBlank' /\ LoadedExist'
    BY OldestFacts, <1>11 DEF Scan, Expired, dbVars
  <2>2. ExpiryReportedOnce' /\ ReceiptForwarded' /\ KeepsSettled
    BY OldestFacts, <1>11 DEF Scan, Expired, dbVars
  <2> QED BY <2>1, <2>2
<1>12. CASE \E i \in Ids : ExpireOne(i)
  <2>1. TypeOK'
    BY <1>12 DEF ExpireOne
  <2>2. ClaimHasDeadline' /\ AbsentIsBlank'
    BY <1>12 DEF ExpireOne
  <2>3. LoadedExist'
    BY <1>12 DEF ExpireOne
  <2>4. ExpiryReportedOnce'
    BY <1>12 DEF ExpireOne
  <2>5. ReceiptForwarded'
    BY <1>12 DEF ExpireOne
  <2>6. KeepsSettled
    BY <1>12 DEF ExpireOne
  <2> QED BY <2>1, <2>2, <2>3, <2>4, <2>5, <2>6
<1>13. CASE LoopAbort
  <2>1. TypeOK' /\ ClaimHasDeadline' /\ AbsentIsBlank' /\ LoadedExist'
    BY <1>13 DEF LoopAbort, dbVars
  <2>2. ExpiryReportedOnce' /\ ReceiptForwarded' /\ KeepsSettled
    BY <1>13 DEF LoopAbort, dbVars
  <2> QED BY <2>1, <2>2
<1>14. CASE Tick
  <2>1. TypeOK' /\ ClaimHasDeadline' /\ AbsentIsBlank' /\ LoadedExist'
    BY <1>14 DEF Tick
  <2>2. ExpiryReportedOnce' /\ ReceiptForwarded' /\ KeepsSettled
    BY <1>14 DEF Tick
  <2> QED BY <2>1, <2>2
<1> QED
  BY <1>1, <1>2, <1>3, <1>4, <1>5, <1>6, <1>7, <1>8,
     <1>9, <1>10, <1>11, <1>12, <1>13, <1>14 DEF Next, ExpiryLoop, OfInbox

\* A stuttering step changes nothing.
LEMMA StutterStep ==
    ASSUME IInv, UNCHANGED vars
    PROVE  IInv' /\ KeepsSettled
BY DEF vars, IInv, TypeOK, ClaimHasDeadline, AbsentIsBlank, LoadedExist,
       ExpiryReportedOnce, ReceiptForwarded, KeepsSettled, Exists

LEMMA Invariance == Spec => []IInv
<1>1. IInv /\ [Next]_vars => IInv'
  BY NextStep, StutterStep
<1> QED
  BY InitIInv, <1>1, PTL DEF Spec

-----------------------------------------------------------------------------
(* Theorems *)

\* The table and the handlers' memory have the types of Inbox in every
\* reachable state.
THEOREM TypeCorrect == Spec => []TypeOK
BY Invariance, PTL DEF IInv

\* Every record handed out under ack=false has a deadline and no queued one
\* does (hub.py poll, ack and renew, expiry.py reclaim), for any clients.
THEOREM DeadlinesHold == Spec => []ClaimHasDeadline
BY Invariance, PTL DEF IInv

\* An expired message is reported to its sender, once (expiry.py).
THEOREM ReportedOnce == Spec => []ExpiryReportedOnce
BY Invariance, PTL DEF IInv

\* No message is acked or done without its receipt (hub.py receive_receipt).
THEOREM ReceiptsForwarded == Spec => []ReceiptForwarded
BY Invariance, PTL DEF IInv

\* No settled record is ever queued or handed out again, by any interleaving
\* of polls, acks, renewals, receipts, recalls and the expiry loop.
THEOREM SettledForever == Spec => NoResurrection
<1>1. IInv /\ [Next]_vars => [KeepsSettled]_vars
  BY NextStep
<1> QED
  BY Invariance, <1>1, PTL DEF Spec, NoResurrection, KeepsSettled

-----------------------------------------------------------------------------
(* Delivery through the inbox *)

\* A dispatcher finished with the message or gave it up, or none need see it.
Dealt(m) == m \in handled \cup dropped \cup Skipped

\* Being in the seen-cache, and not in hand, means having been dealt with; so
\* does every handoff that leads to an ack.
SeenIsDealt ==
    \A w \in Workers, m \in Msgs :
        \/ hand[w][m] \in {"accept", "acking", "reack", "reacking"}
        \/ hand[w][m] = "idle" /\ m \in seen[w]
        => Dealt(m)

\* The row an ack request holds is that of a message that was dealt with.
AckedIsDealt ==
    \A w \in Workers, m \in Msgs, i \in Ids :
        ackRows[<<w, m>>][i] # "none" => i = Msg(m) /\ Dealt(m)

\* Only rows of the table are in hand or recalled.
KnownExist ==
    /\ \A w \in Workers, m \in Msgs : hand[w][m] # "idle" => Exists(Msg(m))
    /\ \A m \in Msgs : Msg(m) \in recalled => Exists(Msg(m))

\* While a worker has a claim the hub did not take back, no poll finds it.
ClaimHolds ==
    \A w \in Workers, m \in Msgs :
        hand[w][m] \in {"eligible", "running"} /\ <<w, m>> \notin leaseLost
        => state[Msg(m)] # "queued"

ChTypeOK ==
    /\ seen \in [Workers -> SUBSET Msgs]
    /\ hand \in [Workers -> [Msgs -> Handoffs]]
    /\ handled \in SUBSET Msgs
    /\ dropped \in SUBSET Msgs
    /\ leaseLost \in SUBSET (Workers \X Msgs)
    /\ faults \in 0..MaxFaults

\* The inductive invariant of the composition, on top of that of the inbox.
ChInv ==
    /\ ChTypeOK
    /\ SeenIsDealt
    /\ AckedIsDealt
    /\ KnownExist
    /\ ClaimHolds
    /\ DeliveredWasHandled
    /\ NoDoubleClaim

DInv == IInv /\ ChInv

-----------------------------------------------------------------------------
(* The composition is one of the systems Inbox allows *)

\* A daemon is one of the clients the inbox is open to: every step of the
\* composition is a step of the inbox or leaves the inbox alone.
LEMMA StepOfInbox ==
    ASSUME DNext
    PROVE  Next \/ UNCHANGED vars
<1> USE IdFacts, DeliveryAssumption
<1>1. "receiver" \in Inboxes /\ "sender" \in Inboxes
  BY DEF Inboxes
<1>2. \A m \in Msgs : {Msg(m)} \in SUBSET OfInbox("receiver")
  <2>1. \A m \in Msgs : InboxOf(Msg(m)) = "receiver"
    BY DEF InboxOf, Msg
  <2> QED BY <2>1 DEF OfInbox
<1>3. CASE \E m \in Msgs : Send(m) \/ Recall(m)
  BY <1>3 DEF Next
<1>4. CASE \E m \in Msgs, t \in ReceiptTypes : SendReceipt(m, t)
  BY <1>4 DEF SendReceipt, Next
<1>5. CASE PollDelivered("sender")
  BY <1>1, <1>5 DEF Next
<1>6. CASE \E w \in Workers : Drain(w)
  BY <1>1, <1>6 DEF Drain, PollProcessing, Next
<1>7. CASE PollLost
  BY <1>1, <1>7 DEF PollLost, Next
<1>8. CASE \E w \in Workers : HandOff(w) \/ Restart(w)
  BY <1>8 DEF HandOff, Restart
<1>9. ASSUME NEW w \in Workers, NEW m \in Msgs,
             \/ Renew(w, m) \/ EmitDone(w, m) \/ EmitThrow(w, m)
             \/ EmitSwallowed(w, m)
             \/ AckSent(w, m) \/ AckMissed(w, m) \/ AckLost(w, m)
             \/ Acked(w, m) \/ AckFailed(w, m) \/ AckTimedOut(w, m)
      PROVE  Next \/ UNCHANGED vars
  <2>1. <<w, m>> \in Requests
    OBVIOUS
  <2>2. CASE Renew(w, m)
    BY <1>1, <1>2, <2>2 DEF Renew, Next
  <2>3. CASE AckSent(w, m)
    BY <1>1, <1>2, <2>1, <2>3 DEF AckSent, Next
  <2>4. CASE Acked(w, m)
    BY <2>1, <2>4 DEF Acked, Next
  <2>5. CASE AckFailed(w, m)
    BY <2>1, <2>5 DEF AckFailed, Next
  <2> QED
    BY <1>9, <2>2, <2>3, <2>4, <2>5
       DEF EmitDone, EmitThrow, EmitSwallowed, AckMissed, AckLost, AckTimedOut
<1>10. CASE ReclaimNoted
  BY <1>10 DEF ReclaimNoted, Next, ExpiryLoop
<1>11. CASE Scan \/ (\E i \in Ids : ExpireOne(i)) \/ LoopAbort \/ Tick
  BY <1>11 DEF Next, ExpiryLoop
<1> QED
  BY <1>3, <1>4, <1>5, <1>6, <1>7, <1>8, <1>9, <1>10, <1>11 DEF DNext

\* The hub composed with its daemons satisfies the specification of the inbox
\* (and so every theorem about the inbox), for any number of daemons.
THEOREM ComposedIsInbox == DSpec => Spec
<1>1. DInit => Init
  BY DEF DInit
<1>2. [DNext]_dvars => [Next]_vars
  BY StepOfInbox DEF dvars
<1> QED
  BY <1>1, <1>2, PTL DEF DSpec, Spec

-----------------------------------------------------------------------------
(* One step *)

LEMMA DInitInv == DInit => DInv
<1> SUFFICES ASSUME DInit PROVE DInv
  OBVIOUS
<1>1. IInv
  BY InitIInv DEF DInit
<1>2. ChTypeOK
  BY DeliveryAssumption DEF DInit, ChTypeOK, Handoffs
<1>3. SeenIsDealt /\ KnownExist /\ ClaimHolds /\ NoDoubleClaim
  BY DEF DInit, Init, SeenIsDealt, KnownExist, ClaimHolds, NoDoubleClaim
<1>4. AckedIsDealt
  BY DeliveryAssumption DEF DInit, Init, AckedIsDealt, NoRows
<1>5. DeliveredWasHandled
  BY IdFacts DEF DInit, Init, DeliveredWasHandled
<1> QED
  BY <1>1, <1>2, <1>3, <1>4, <1>5 DEF DInv, ChInv

\* A poll of the receiver's inbox only claims queued rows that are not recalled.
LEMMA ClaimedWereQueued ==
    ASSUME NEW S \in Oldest(Fetchable("receiver"), PollLimit)
    PROVE  \A i \in S : i \in Ids /\ state[i] = "queued" /\ i \notin recalled
BY OldestFacts DEF Fetchable

\* The seen-cache holds what it held and what was added to it, or less.
LEMMA RememberSeenFacts ==
    ASSUME NEW old, NEW new, NEW s \in RememberSeen(old, new)
    PROVE  s \subseteq old \cup new
BY DEF RememberSeen

\* A step of the hub alone keeps the invariant if it queues no row a worker may
\* have claimed, delivers none, drops none and starts no ack.
LEMMA HubStep ==
    ASSUME ChInv,
           UNCHANGED <<seen, hand, handled, dropped, leaseLost, ackRows>>,
           faults' \in 0..MaxFaults,
           \A m \in Msgs :
               /\ Exists(Msg(m)) => Exists(Msg(m))'
               /\ state'[Msg(m)] = "queued" => state[Msg(m)] \in {"none", "queued"}
               /\ state'[Msg(m)] = "delivered" => state[Msg(m)] = "delivered"
               /\ Msg(m) \in recalled' => Exists(Msg(m))'
    PROVE  ChInv'
<1>1. ChTypeOK' /\ SeenIsDealt' /\ AckedIsDealt'
  BY DEF ChInv, ChTypeOK, SeenIsDealt, AckedIsDealt, Dealt
<1>2. KnownExist'
  BY DEF ChInv, KnownExist
<1>3. ClaimHolds'
  BY DEF ChInv, ClaimHolds, KnownExist, Exists
<1>4. DeliveredWasHandled' /\ NoDoubleClaim'
  BY DEF ChInv, DeliveredWasHandled, NoDoubleClaim
<1> QED
  BY <1>1, <1>2, <1>3, <1>4 DEF ChInv

\* Every step of the composition keeps what is said of the channel and of its
\* acks; IInv takes care of itself, by StepOfInbox.
LEMMA DNextStep ==
    ASSUME DInv, DNext
    PROVE  DInv'
<1>1. IInv'
  BY StepOfInbox, NextStep, StutterStep DEF DInv
<1>2. /\ state \in [Ids -> States] /\ recalled \in SUBSET Ids
      /\ ackRows \in [Requests -> [Ids -> Live \cup {"none"}]]
      /\ \A r \in Requests, i \in Ids : ackRows[r][i] # "none" => Exists(i)
      /\ Requests = Workers \X Msgs
  BY DeliveryAssumption DEF DInv, IInv, TypeOK, LoadedExist
<1>3. ChInv
  BY DEF DInv
<1> USE <1>2, IdFacts, DeliveryAssumption DEF Exists
<1>4. ASSUME NEW m \in Msgs, Send(m), UNCHANGED chVars
      PROVE  ChInv'
  BY <1>3, <1>4, HubStep DEF Send, chVars, ChInv, ChTypeOK, KnownExist
<1>5. ASSUME NEW m \in Msgs, Recall(m), UNCHANGED chVars
      PROVE  ChInv'
  BY <1>3, <1>5, HubStep DEF Recall, chVars, ChInv, ChTypeOK, KnownExist
<1>6. ASSUME NEW m \in Msgs, NEW t \in ReceiptTypes, SendReceipt(m, t)
      PROVE  ChInv'
  <2>1. \A n \in Msgs : /\ state'[Msg(n)] \in {state[Msg(n)], "acked", "done", "failed"}
                        /\ Exists(Msg(n)) <=> Exists(Msg(n))'
    BY <1>6, ReceiptFacts DEF SendReceipt, Receipt
  <2>2. UNCHANGED <<seen, hand, handled, dropped, leaseLost, faults, recalled, ackRows>>
    BY <1>6 DEF SendReceipt, Receipt, chVars
  <2> QED
    BY <1>3, <2>1, <2>2, HubStep DEF ChInv, ChTypeOK, KnownExist
<1>7. ASSUME PollDelivered("sender"), UNCHANGED chVars
      PROVE  ChInv'
  <2>1. \A n \in Msgs : InboxOf(Msg(n)) = "receiver"
    BY DEF InboxOf, Msg
  <2>2. \A n \in Msgs : state'[Msg(n)] = state[Msg(n)]
    BY <1>7, <2>1, OldestFacts DEF PollDelivered, Fetchable
  <2>3. UNCHANGED <<recalled, ackRows>>
    BY <1>7 DEF PollDelivered
  <2> QED
    BY <1>3, <1>7, <2>2, <2>3, HubStep DEF chVars, ChInv, ChTypeOK, KnownExist
<1>8. ASSUME NEW w \in Workers, Drain(w)
      PROVE  ChInv'
  <2> DEFINE Of(S) == {m \in Msgs : Msg(m) \in S /\ hand[w][m] = "idle"}
  <2>1. PICK S \in Oldest(Fetchable("receiver"), PollLimit) :
           /\ Claim(S)
           /\ \E s \in RememberSeen(seen[w], Of(S) \ seen[w]) : seen' = [seen EXCEPT ![w] = s]
           /\ hand' = [hand EXCEPT ![w] = [m \in Msgs |->
                  IF m \in (Of(S) \ seen[w]) \ Skipped THEN "eligible"
                  ELSE IF m \in Of(S) THEN "reack" ELSE hand[w][m]]]
           /\ leaseLost' = leaseLost \ {<<w, m>> : m \in {n \in Msgs : Msg(n) \in S}}
           /\ UNCHANGED <<handled, dropped, faults>>
    BY <1>8 DEF Drain
  <2>2. PICK s \in RememberSeen(seen[w], Of(S) \ seen[w]) : seen' = [seen EXCEPT ![w] = s]
    BY <2>1
  <2>10. s \subseteq seen[w] \cup Of(S)
    BY RememberSeenFacts
  <2>3. \A i \in S : i \in Ids /\ state[i] = "queued"
    BY ClaimedWereQueued
  <2>4. /\ \A n \in Msgs : state'[Msg(n)] = IF Msg(n) \in S THEN "processing" ELSE state[Msg(n)]
        /\ UNCHANGED <<recalled, ackRows>>
    BY <2>1 DEF Claim
  <2>5. ChTypeOK'
    BY <1>3, <2>1, <2>2, <2>10 DEF ChInv, ChTypeOK, Handoffs
  <2>6. SeenIsDealt' /\ AckedIsDealt'
    BY <1>3, <2>1, <2>2, <2>4, <2>10 DEF ChInv, ChTypeOK, SeenIsDealt, AckedIsDealt, Dealt
  <2>7. KnownExist' /\ DeliveredWasHandled'
    BY <1>3, <2>1, <2>3, <2>4 DEF ChInv, ChTypeOK, KnownExist, DeliveredWasHandled
  <2>8. ClaimHolds'
    BY <1>3, <2>1, <2>3, <2>4 DEF ChInv, ChTypeOK, ClaimHolds
  <2>9. NoDoubleClaim'
    BY <1>3, <2>1, <2>3, <2>4 DEF ChInv, ChTypeOK, ClaimHolds, NoDoubleClaim
  <2> QED
    BY <2>5, <2>6, <2>7, <2>8, <2>9 DEF ChInv
<1>9. ASSUME NEW w \in Workers, HandOff(w)
      PROVE  ChInv'
  BY <1>3, <1>9 DEF HandOff, Handoffs, vars, ChInv, ChTypeOK, SeenIsDealt, AckedIsDealt, KnownExist,
       ClaimHolds, DeliveredWasHandled, NoDoubleClaim, Dealt
<1>10. ASSUME PollLost
       PROVE  ChInv'
  <2>1. PICK S \in Oldest(Fetchable("receiver"), PollLimit) : Claim(S)
    BY <1>10 DEF PollLost, PollProcessing
  <2>2. \A i \in S : i \in Ids /\ state[i] = "queued"
    BY ClaimedWereQueued
  <2>3. /\ \A n \in Msgs : state'[Msg(n)] = IF Msg(n) \in S THEN "processing" ELSE state[Msg(n)]
        /\ UNCHANGED <<recalled, ackRows>>
    BY <2>1 DEF Claim
  <2>4. UNCHANGED <<seen, hand, handled, dropped, leaseLost>> /\ faults' \in 0..MaxFaults
    BY <1>3, <1>10 DEF PollLost, Fault, ChInv, ChTypeOK
  <2> QED
    BY <1>3, <2>2, <2>3, <2>4, HubStep DEF ChInv, KnownExist
<1>11. ASSUME NEW w \in Workers, NEW m \in Msgs, Renew(w, m)
       PROVE  ChInv'
  BY <1>3, <1>11, HubStep DEF Renew, RenewLease, chVars, ChInv, ChTypeOK, KnownExist
<1>12. ASSUME NEW w \in Workers, NEW m \in Msgs,
              \/ EmitDone(w, m) \/ EmitSwallowed(w, m) \/ EmitThrow(w, m)
              \/ AckMissed(w, m) \/ AckLost(w, m) \/ AckTimedOut(w, m)
       PROVE  ChInv'
  <2>1. CASE EmitDone(w, m)
    BY <1>3, <2>1 DEF EmitDone, vars, Handoffs, ChInv, ChTypeOK, SeenIsDealt, AckedIsDealt, KnownExist,
         ClaimHolds, DeliveredWasHandled, NoDoubleClaim, Dealt
  <2>2. CASE EmitSwallowed(w, m)
    BY <1>3, <2>2 DEF EmitSwallowed, Release, Fault, vars, Handoffs, ChInv, ChTypeOK, SeenIsDealt, AckedIsDealt, KnownExist,
         ClaimHolds, DeliveredWasHandled, NoDoubleClaim, Dealt
  <2>3. CASE EmitThrow(w, m)
    BY <1>3, <2>3 DEF EmitThrow, Release, Fault, vars, Handoffs, ChInv, ChTypeOK, SeenIsDealt, AckedIsDealt, KnownExist,
         ClaimHolds, DeliveredWasHandled, NoDoubleClaim, Dealt
  <2>4. CASE AckMissed(w, m)
    BY <1>3, <2>4 DEF AckMissed, Release, Fault, vars, Handoffs, ChInv, ChTypeOK, SeenIsDealt, AckedIsDealt, KnownExist,
         ClaimHolds, DeliveredWasHandled, NoDoubleClaim, Dealt
  <2>5. CASE AckLost(w, m)
    BY <1>3, <2>5 DEF AckLost, Release, Fault, vars, Handoffs, ChInv, ChTypeOK, SeenIsDealt, AckedIsDealt, KnownExist,
         ClaimHolds, DeliveredWasHandled, NoDoubleClaim, Dealt
  <2>6. CASE AckTimedOut(w, m)
    BY <1>3, <2>6 DEF AckTimedOut, Release, Fault, vars, Handoffs, ChInv, ChTypeOK, SeenIsDealt, AckedIsDealt, KnownExist,
         ClaimHolds, DeliveredWasHandled, NoDoubleClaim, Dealt
  <2> QED
    BY <1>12, <2>1, <2>2, <2>3, <2>4, <2>5, <2>6
<1>13. ASSUME NEW w \in Workers, NEW m \in Msgs, AckSent(w, m)
       PROVE  ChInv'
  <2>1. UNCHANGED <<state, recalled>>
    BY <1>13 DEF AckSent, AckLoad, dbVars
  <2>2. \A v \in Workers, n \in Msgs, i \in Ids :
           ackRows'[<<v, n>>][i] # "none" =>
               \/ ackRows[<<v, n>>][i] # "none"
               \/ v = w /\ n = m /\ i = Msg(m)
    BY <1>13 DEF AckSent, AckLoad
  <2>3. Dealt(m)
    BY <1>3, <1>13 DEF AckSent, ChInv, SeenIsDealt
  <2>4. AckedIsDealt'
    BY <1>3, <1>13, <2>2, <2>3 DEF AckSent, ChInv, AckedIsDealt, Dealt
  <2> QED
    BY <1>3, <1>13, <2>1, <2>3, <2>4 DEF AckSent, Handoffs, ChInv, ChTypeOK, SeenIsDealt, KnownExist,
       ClaimHolds, DeliveredWasHandled, NoDoubleClaim, Dealt
<1>14. ASSUME NEW w \in Workers, NEW m \in Msgs, Acked(w, m) \/ AckFailed(w, m)
       PROVE  ChInv'
  <2>1. \A n \in Msgs : \/ state'[Msg(n)] = state[Msg(n)]
                        \/ state'[Msg(n)] = "delivered" /\ Dealt(n) /\ Exists(Msg(n))
    BY <1>3, <1>14 DEF Acked, AckFailed, AckWrite, AckAbort, dbVars, ChInv, AckedIsDealt
  <2>2. UNCHANGED <<recalled, seen, handled, dropped>> /\ faults' \in 0..MaxFaults
    BY <1>3, <1>14 DEF Acked, AckFailed, AckWrite, AckAbort, dbVars, Fault, ChInv, ChTypeOK
  <2>3. ackRows' = [ackRows EXCEPT ![<<w, m>>] = NoRows]
    BY <1>14 DEF Acked, AckFailed, AckWrite, AckAbort
  <2>4. \A v \in Workers, n \in Msgs, i \in Ids :
           ackRows'[<<v, n>>][i] # "none" => ackRows[<<v, n>>][i] # "none"
    BY <2>3 DEF NoRows
  <2>5. CASE UNCHANGED <<hand, leaseLost>>
    <3>1. ChTypeOK' /\ SeenIsDealt' /\ AckedIsDealt'
      BY <1>3, <2>2, <2>4, <2>5 DEF ChInv, ChTypeOK, SeenIsDealt, AckedIsDealt, Dealt
    <3>3. KnownExist'
      BY <1>3, <2>1, <2>2, <2>5 DEF ChInv, KnownExist
    <3>2. ClaimHolds' /\ DeliveredWasHandled' /\ NoDoubleClaim'
      BY <1>3, <2>1, <2>2, <2>5 DEF ChInv, ClaimHolds, DeliveredWasHandled, NoDoubleClaim, Dealt
    <3> QED BY <3>1, <3>2, <3>3 DEF ChInv
  <2>6. CASE hand[w][m] \in {"acking", "reacking"} /\ Release(w, m)
    <3>1. ChTypeOK' /\ AckedIsDealt'
      BY <1>3, <2>2, <2>4, <2>6 DEF Release, Handoffs, ChInv, ChTypeOK, AckedIsDealt, Dealt
    <3>2. SeenIsDealt'
      BY <1>3, <2>2, <2>6 DEF Release, ChInv, ChTypeOK, SeenIsDealt, Dealt
    <3>3. KnownExist'
      BY <1>3, <2>1, <2>2, <2>6 DEF Release, ChInv, ChTypeOK, KnownExist
    <3>4. ClaimHolds'
      BY <1>3, <2>1, <2>6 DEF Release, ChInv, ChTypeOK, ClaimHolds
    <3>5. DeliveredWasHandled' /\ NoDoubleClaim'
      BY <1>3, <2>1, <2>2, <2>6 DEF Release, ChInv, ChTypeOK, DeliveredWasHandled, NoDoubleClaim, Dealt
    <3> QED BY <3>1, <3>2, <3>3, <3>4, <3>5 DEF ChInv
  <2> QED
    BY <1>14, <2>5, <2>6 DEF Acked, AckFailed
<1>15. ASSUME NEW w \in Workers, Restart(w)
       PROVE  ChInv'
  BY <1>3, <1>15 DEF Restart, Fault, vars, Handoffs, ChInv, ChTypeOK, SeenIsDealt, AckedIsDealt, KnownExist,
       ClaimHolds, DeliveredWasHandled, NoDoubleClaim, Dealt
<1>16. ASSUME ReclaimNoted
       PROVE  ChInv'
  <2>1. /\ \A n \in Msgs : state'[Msg(n)] = IF Msg(n) \in Stale THEN "queued" ELSE state[Msg(n)]
        /\ UNCHANGED <<recalled, ackRows, seen, hand, handled, dropped, faults>>
        /\ \A v \in Workers, n \in Msgs :
             <<v, n>> \in leaseLost' <=>
                 <<v, n>> \in leaseLost \/ (Msg(n) \in Stale /\ hand[v][n] # "idle")
        /\ leaseLost' \in SUBSET (Workers \X Msgs)
    BY <1>3, <1>16 DEF ReclaimNoted, Reclaim, ChInv, ChTypeOK
  <2>2. \A n \in Msgs : Msg(n) \in Stale => state[Msg(n)] = "processing"
    BY DEF Stale
  <2>3. ChTypeOK' /\ SeenIsDealt' /\ AckedIsDealt'
    BY <1>3, <2>1 DEF ChInv, ChTypeOK, SeenIsDealt, AckedIsDealt, Dealt
  <2>4. KnownExist' /\ DeliveredWasHandled'
    BY <1>3, <2>1, <2>2 DEF ChInv, KnownExist, DeliveredWasHandled
  <2>5. ClaimHolds' /\ NoDoubleClaim'
    BY <1>3, <2>1, <2>2 DEF ChInv, ClaimHolds, NoDoubleClaim
  <2> QED
    BY <2>3, <2>4, <2>5 DEF ChInv
<1>17. ASSUME Scan \/ LoopAbort \/ Tick, UNCHANGED <<seen, hand, handled, dropped, leaseLost>>,
              UNCHANGED faults \/ Fault
       PROVE  ChInv'
  BY <1>3, <1>17, HubStep DEF Scan, LoopAbort, Tick, Fault, dbVars, ChInv, ChTypeOK, KnownExist
<1>18. ASSUME NEW i \in Ids, ExpireOne(i), UNCHANGED chVars
       PROVE  ChInv'
  <2>1. \A n \in Msgs : state'[Msg(n)] \in {state[Msg(n)], "failed"}
    BY <1>18 DEF ExpireOne
  <2>2. UNCHANGED <<recalled, ackRows>>
    BY <1>18 DEF ExpireOne
  <2>3. \A n \in Msgs : Exists(Msg(n)) => Exists(Msg(n))'
    BY <2>1
  <2> QED
    BY <1>3, <1>18, <2>1, <2>2, <2>3, HubStep DEF chVars, ChInv, ChTypeOK, KnownExist
<1> QED
  BY <1>1, <1>4, <1>5, <1>6, <1>7, <1>8, <1>9, <1>10, <1>11, <1>12, <1>13, <1>14, <1>15,
     <1>16, <1>17, <1>18 DEF DNext, DInv, chVars

LEMMA DStutterStep ==
    ASSUME DInv, UNCHANGED dvars
    PROVE  DInv'
<1>1. IInv'
  BY StutterStep DEF DInv, dvars
<1>2. ChInv'
  BY DEF DInv, dvars, vars, chVars, ChInv, ChTypeOK, SeenIsDealt, AckedIsDealt, KnownExist,
     ClaimHolds, DeliveredWasHandled, NoDoubleClaim, Dealt, Exists
<1> QED
  BY <1>1, <1>2 DEF DInv

LEMMA DInvariance == DSpec => []DInv
<1>1. DInv /\ [DNext]_dvars => DInv'
  BY DNextStep, DStutterStep
<1> QED
  BY DInitInv, <1>1, PTL DEF DSpec

-----------------------------------------------------------------------------
(* Theorems *)

\* The table, the handlers' memory and the channels have the types of Delivery
\* in every reachable state, so no lookup of the code misses.
THEOREM DeliveryTypeCorrect == DSpec => []DTypeOK
BY DInvariance, PTL DEF DInv, IInv, ChInv, ChTypeOK, DTypeOK

\* A message is recorded as delivered before a dispatcher finished with it only
\* if safeEmit swallowed a rejection of it: not by the ack of a duplicate, nor
\* by an ack that outlives its worker, for a seen-cache of any capacity
\* (botcord.ts drainInbox, hub.py ack_inbox_messages).
THEOREM OnlyRejectedAreLost == DSpec => []DeliveredWasHandled
BY DInvariance, PTL DEF DInv, ChInv

\* Of any number of workers that have one message in hand, all but one lost
\* their claim to the reclaim loop (hub.py poll, expiry.py reclaim).
THEOREM OneClaim == DSpec => []NoDoubleClaim
BY DInvariance, PTL DEF DInv, ChInv

\* A recalled message is not handed to a worker any more, after any crash,
\* reclaim or redelivery (hub.py recall and _fetch_queued_messages).
THEOREM RecalledStays == DSpec => RecalledNotHandedOut
<1> DEFINE Stays == \A w \in Workers, m \in Msgs :
        Msg(m) \in recalled /\ hand[w][m] = "idle" => hand'[w][m] = "idle"
<1>1. DInv /\ [DNext]_dvars => [Stays]_dvars
  <2> SUFFICES ASSUME DInv, DNext PROVE Stays
    OBVIOUS
  <2>1. ChTypeOK
    BY DEF DInv, ChInv
  <2>2. ASSUME NEW v \in Workers, Drain(v)
        PROVE  Stays
    <3>1. PICK S \in Oldest(Fetchable("receiver"), PollLimit) :
             \A m \in Msgs : Msg(m) \notin S => hand'[v][m] = hand[v][m]
      BY <2>1, <2>2 DEF Drain, ChTypeOK
    <3>2. \A w \in Workers \ {v} : hand'[w] = hand[w]
      BY <2>1, <2>2 DEF Drain, ChTypeOK
    <3> QED
      BY <2>2, <3>1, <3>2, ClaimedWereQueued
  <2>3. ASSUME NEW v \in Workers, HandOff(v)
        PROVE  Stays
    BY <2>1, <2>3 DEF HandOff, ChTypeOK
  <2>4. ASSUME NEW v \in Workers, NEW n \in Msgs,
               \/ EmitDone(v, n) \/ EmitThrow(v, n) \/ EmitSwallowed(v, n)
               \/ AckSent(v, n) \/ AckMissed(v, n) \/ AckLost(v, n)
               \/ Acked(v, n) \/ AckFailed(v, n) \/ AckTimedOut(v, n)
        PROVE  Stays
    BY <2>1, <2>4 DEF EmitDone, EmitThrow, EmitSwallowed, AckSent, AckMissed, AckLost, Acked,
       AckFailed, AckTimedOut, Release, ChTypeOK
  <2>5. ASSUME NEW v \in Workers, Restart(v)
        PROVE  Stays
    BY <2>1, <2>5 DEF Restart, ChTypeOK
  <2>6. ASSUME UNCHANGED hand
        PROVE  Stays
    BY <2>6
  <2> QED
    BY <2>2, <2>3, <2>4, <2>5, <2>6 DEF DNext, chVars, SendReceipt, PollLost, Renew, ReclaimNoted
<1> QED
  BY DInvariance, <1>1, PTL DEF DSpec, RecalledNotHandedOut

-----------------------------------------------------------------------------
(* Delivery implements AtLeastOnce *)

\* What the hub has to say of a message, by the state of its row.
LEMMA FateFacts ==
    /\ \A m \in Msgs : state[Msg(m)] \in Live =>
           Fate[m] = IF Msg(m) \in recalled THEN "withdrawn" ELSE "open"
    /\ \A m \in Msgs : state[Msg(m)] \in {"acked", "done"} => Fate[m] = "answered"
    /\ \A m \in Msgs : state[Msg(m)] \in {"none", "delivered", "failed"} =>
           Fate[m] = state[Msg(m)]
BY DEF Fate, Live

\* Fates are told from rows and recalls alone.
LEMMA SameFates ==
    ASSUME \A m \in Msgs : state'[Msg(m)] = state[Msg(m)] \/ {state[Msg(m)], state'[Msg(m)]} \subseteq Live,
           UNCHANGED recalled
    PROVE  Fate' = Fate
BY DEF Fate, Live

\* When one row moves, the fate of one message changes.
LEMMA OneFate ==
    ASSUME NEW m \in Msgs,
           \A n \in Msgs \ {m} :
               state'[Msg(n)] = state[Msg(n)] /\ (Msg(n) \in recalled' <=> Msg(n) \in recalled)
    PROVE  Fate' = [Fate EXCEPT ![m] = Fate'[m]]
BY DEF Fate

\* Every step is one of the abstract specification or leaves it alone.
LEMMA AbstractStep ==
    ASSUME DInv, DNext
    PROVE  Abstract!Next \/ UNCHANGED <<Fate, handled, dropped>>
<1>1. /\ state \in [Ids -> States] /\ recalled \in SUBSET Ids
      /\ ackRows \in [Requests -> [Ids -> Live \cup {"none"}]]
      /\ \A r \in Requests, i \in Ids : ackRows[r][i] # "none" => Exists(i)
      /\ Requests = Workers \X Msgs
  BY DeliveryAssumption DEF DInv, IInv, TypeOK, LoadedExist
<1>2. \A m \in Msgs : Exists(Msg(m)) <=> Fate[m] # "none"
  BY <1>1, IdFacts, FateFacts DEF Exists, States, Live, Settled
<1>3. /\ \A w \in Workers, m \in Msgs : hand[w][m] # "idle" => Exists(Msg(m))
      /\ \A m \in Msgs : Msg(m) \in recalled => Exists(Msg(m))
      /\ \A w \in Workers, m \in Msgs, i \in Ids :
             ackRows[<<w, m>>][i] # "none" => i = Msg(m) /\ m \in handled \cup dropped \cup Skipped
  BY DEF DInv, ChInv, KnownExist, AckedIsDealt, Dealt
<1> USE <1>1, IdFacts
<1>4. ASSUME NEW m \in Msgs, Send(m), UNCHANGED chVars
      PROVE  Abstract!Accept(m)
  <2>1. Fate[m] = "none" /\ Fate'[m] = "open"
    BY <1>3, <1>4 DEF Send, Exists, Fate, Live
  <2>2. Fate' = [Fate EXCEPT ![m] = Fate'[m]]
    BY <1>4, OneFate DEF Send
  <2> QED
    BY <1>4, <2>1, <2>2 DEF Abstract!Accept, chVars
<1>5. ASSUME NEW m \in Msgs, Recall(m), UNCHANGED chVars
      PROVE  Abstract!Withdraw(m) \/ UNCHANGED <<Fate, handled, dropped>>
  <2>1. Fate' = [Fate EXCEPT ![m] = Fate'[m]]
    BY <1>5, OneFate DEF Recall
  <2>2. CASE state[Msg(m)] \in Live
    <3>1. Fate[m] = "open" /\ Fate'[m] = "withdrawn"
      BY <1>5, <2>2 DEF Recall, Fate
    <3> QED
      BY <1>5, <2>1, <3>1 DEF Abstract!Withdraw, chVars
  <2>3. CASE state[Msg(m)] \notin Live
    <3>1. Fate'[m] = Fate[m]
      BY <1>5, <2>3 DEF Recall, Fate
    <3>2. Fate' = Fate
      BY <2>1, <3>1 DEF Fate
    <3> QED
      BY <1>5, <3>2 DEF chVars
  <2> QED
    BY <2>2, <2>3
<1>6. ASSUME NEW m \in Msgs, NEW t \in ReceiptTypes, SendReceipt(m, t)
      PROVE  Abstract!Answer(m) \/ Abstract!Fail(m)
  <2>1. Exists(Msg(m)) /\ UNCHANGED <<handled, dropped>>
    BY <1>6 DEF SendReceipt, Receipt, chVars
  <2>2. Fate' = [Fate EXCEPT ![m] = Fate'[m]]
    BY <1>6, OneFate DEF SendReceipt, Receipt
  <2>3. state'[Msg(m)] \in {"acked", "done", "failed"}
    BY <1>6, ReceiptFacts DEF SendReceipt, Receipt
  <2>4. Fate'[m] \in {"answered", "failed"}
    BY <2>3 DEF Fate, Live
  <2> QED
    BY <1>2, <2>1, <2>2, <2>4 DEF Abstract!Answer, Abstract!Fail
<1>7. ASSUME PollDelivered("sender"), UNCHANGED chVars
      PROVE  UNCHANGED <<Fate, handled, dropped>>
  <2>1. \A n \in Msgs : InboxOf(Msg(n)) = "receiver"
    BY DEF InboxOf, Msg
  <2>2. \A n \in Msgs : state'[Msg(n)] = state[Msg(n)]
    BY <1>7, <2>1, OldestFacts DEF PollDelivered, Fetchable
  <2> QED
    BY <1>7, <2>2, SameFates DEF PollDelivered, chVars
<1>8. ASSUME NEW S \in Oldest(Fetchable("receiver"), PollLimit), Claim(S),
             UNCHANGED <<handled, dropped>>
      PROVE  UNCHANGED <<Fate, handled, dropped>>
  <2>1. \A n \in Msgs : {state[Msg(n)], state'[Msg(n)]} \subseteq Live \/ state'[Msg(n)] = state[Msg(n)]
    BY <1>8, ClaimedWereQueued DEF Claim, Live
  <2> QED
    BY <1>8, <2>1, SameFates DEF Claim
<1>9. ASSUME NEW w \in Workers, NEW m \in Msgs, EmitDone(w, m) \/ EmitSwallowed(w, m)
      PROVE  Abstract!Handle(m) \/ Abstract!Drop(m)
  <2>1. UNCHANGED Fate
    BY <1>9, SameFates DEF EmitDone, EmitSwallowed, vars
  <2> QED
    BY <1>2, <1>3, <1>9, <2>1 DEF EmitDone, EmitSwallowed, Abstract!Handle, Abstract!Drop
<1>10. ASSUME NEW w \in Workers, NEW m \in Msgs, Acked(w, m)
       PROVE  Abstract!Deliver(m)
  <2>1. \E i \in Ids : ackRows[<<w, m>>][i] # "none"
    <3>1. ackRows[<<w, m>>] \in [Ids -> Live \cup {"none"}] /\ ackRows[<<w, m>>] # NoRows
      BY <1>10 DEF Acked, AckWrite
    <3> QED
      BY <3>1 DEF NoRows
  <2>2. ackRows[<<w, m>>][Msg(m)] # "none" /\ m \in handled \cup dropped \cup Skipped /\ Exists(Msg(m))
    BY <1>3, <2>1
  <2>3. /\ state'[Msg(m)] = "delivered"
        /\ \A n \in Msgs \ {m} : state'[Msg(n)] = state[Msg(n)]
        /\ UNCHANGED <<recalled, handled, dropped>>
    BY <1>3, <1>10, <2>2 DEF Acked, AckWrite
  <2>4. Fate' = [Fate EXCEPT ![m] = Fate'[m]]
    BY <2>3, OneFate
  <2>5. Fate'[m] = "delivered"
    BY <2>3 DEF Fate, Live
  <2> QED
    BY <1>2, <2>2, <2>3, <2>4, <2>5 DEF Abstract!Deliver
<1>11. ASSUME NEW w \in Workers, NEW m \in Msgs,
              \/ Renew(w, m) \/ EmitThrow(w, m) \/ AckSent(w, m) \/ AckMissed(w, m)
              \/ AckLost(w, m) \/ AckFailed(w, m) \/ AckTimedOut(w, m)
       PROVE  UNCHANGED <<Fate, handled, dropped>>
  BY <1>11, SameFates DEF Renew, RenewLease, EmitThrow, AckSent, AckLoad, AckMissed, AckLost,
     AckFailed, AckAbort, AckTimedOut, vars, dbVars, chVars
<1>12. ASSUME NEW w \in Workers, HandOff(w) \/ Restart(w)
       PROVE  UNCHANGED <<Fate, handled, dropped>>
  BY <1>12, SameFates DEF HandOff, Restart, vars
<1>13. ASSUME ReclaimNoted
       PROVE  UNCHANGED <<Fate, handled, dropped>>
  <2>1. \A n \in Msgs : {state[Msg(n)], state'[Msg(n)]} \subseteq Live \/ state'[Msg(n)] = state[Msg(n)]
    BY <1>13 DEF ReclaimNoted, Reclaim, Stale, Live
  <2> QED
    BY <1>13, <2>1, SameFates DEF ReclaimNoted, Reclaim
<1>14. ASSUME Scan \/ LoopAbort \/ Tick, UNCHANGED <<handled, dropped>>
       PROVE  UNCHANGED <<Fate, handled, dropped>>
  BY <1>14, SameFates DEF Scan, LoopAbort, Tick, dbVars
<1>15. ASSUME NEW i \in Ids, ExpireOne(i), UNCHANGED chVars
       PROVE  (\E m \in Msgs : Abstract!Fail(m)) \/ UNCHANGED <<Fate, handled, dropped>>
  <2>1. Exists(i)
    BY <1>15 DEF ExpireOne, DInv, IInv, LoadedExist
  <2>2. UNCHANGED <<recalled, handled, dropped>>
    BY <1>15 DEF ExpireOne, chVars
  <2>3. \A n \in Msgs : Msg(n) # i => state'[Msg(n)] = state[Msg(n)]
    BY <1>15 DEF ExpireOne
  <2>4. CASE \E m \in Msgs : i = Msg(m)
    <3>1. PICK m \in Msgs : i = Msg(m)
      BY <2>4
    <3>2. Fate' = [Fate EXCEPT ![m] = Fate'[m]]
      BY <2>2, <2>3, <3>1, OneFate
    <3>3. state'[Msg(m)] = "failed"
      BY <1>15, <3>1 DEF ExpireOne
    <3>4. Fate'[m] = "failed"
      BY <3>3 DEF Fate, Live
    <3> QED
      BY <1>2, <2>1, <2>2, <3>1, <3>2, <3>4 DEF Abstract!Fail
  <2>5. CASE \A m \in Msgs : i # Msg(m)
    BY <2>2, <2>3, <2>5, SameFates
  <2> QED
    BY <2>4, <2>5
<1>16. CASE (\E w \in Workers : Drain(w)) \/ PollLost
  BY <1>8, <1>16 DEF Drain, PollLost, PollProcessing
<1> QED
  BY <1>4, <1>5, <1>6, <1>7, <1>9, <1>10, <1>11, <1>12, <1>13, <1>14, <1>15, <1>16
     DEF DNext, chVars, Abstract!Next

\* Leases, polls, late and duplicate acks, receipts, recalls, expiry, crashes
\* and lost calls implement at-least-once delivery, for any number of messages
\* and daemons: only a rejection that safeEmit swallowed makes a message count
\* as delivered that was not handled (hub.py, expiry.py, botcord.ts).
THEOREM DeliveryImplementsPromise == DSpec => Promise
<1>1. DInit => Abstract!Init
  BY IdFacts DEF DInit, Init, Abstract!Init, Fate, Live
<1>2. DInv /\ [DNext]_dvars => [Abstract!Next]_<<Fate, handled, dropped>>
  <2>1. CASE UNCHANGED dvars
    BY <2>1, SameFates DEF dvars, vars, chVars
  <2> QED
    BY <2>1, AbstractStep
<1> QED
  BY <1>1, <1>2, DInvariance, PTL DEF DSpec, Promise, Abstract!Spec, Abstract!avars
=============================================================================
