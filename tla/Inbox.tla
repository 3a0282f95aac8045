------------------------------- MODULE Inbox -------------------------------
(***************************************************************************)
(* The hub's durable inbox: the message_records table, the handlers of     *)
(* routers/hub.py that move a record through its delivery states, and the  *)
(* background loop of expiry.py.                                           *)
(*                                                                         *)
(* A handler whose database transaction locks the rows it read (the poll,  *)
(* SELECT ... FOR UPDATE SKIP LOCKED), or whose UPDATE repeats its         *)
(* condition (lease renewal, reclaim), is one action.  A handler that      *)
(* reads rows without a lock and later writes them by primary key (the     *)
(* explicit ack, the expiry scan) is split at that point: what it wrote is *)
(* decided by what it read, and anything may happen in between.            *)
(*                                                                         *)
(* Clients are left open here: any client of an agent may poll, ack, renew *)
(* or send receipts at any time.  Module Delivery closes the system with   *)
(* the daemon's channel.  Push notifications carry no state (a lost one is *)
(* made up for by the next poll) and are left out.                         *)
(***************************************************************************)
EXTENDS Integers, FiniteSets

CONSTANTS
    Msgs,          \* messages sent by one agent to another
    ReceiptTypes,  \* the receipts the receiver sends: a subset of AllReceipts
    Requests,      \* ack requests the hub can be serving at the same time
    Lease,         \* INBOX_PROCESSING_LEASE_SECONDS, in ticks
    Ttl,           \* ttl_sec of every envelope, in ticks
    PollLimit,     \* the limit parameter of a poll
    ScanLimit      \* LIMIT 100 of the expiry scan

AllReceipts == {"ack", "result", "error"}

ASSUME InboxAssumption ==
    /\ ReceiptTypes \subseteq AllReceipts
    /\ Lease \in Nat \ {0}
    /\ Ttl \in Nat \ {0}
    /\ PollLimit \in Nat \ {0}
    /\ ScanLimit \in Nat \ {0}

(***************************************************************************)
(* A record is identified by the message it is about and by what it is:    *)
(* the message itself (in the receiver's inbox), or one of the records it  *)
(* gives rise to in the sender's inbox: a receipt, or the TTL error the    *)
(* hub writes when the message expires.                                    *)
(***************************************************************************)
Kinds == {"msg", "ttl"} \cup ReceiptTypes
Ids == Msgs \X Kinds
Msg(m) == <<m, "msg">>
TtlError(m) == <<m, "ttl">>
ReceiptOf(m, t) == <<m, t>>

Inboxes == {"receiver", "sender"}
InboxOf(i) == IF i[2] = "msg" THEN "receiver" ELSE "sender"
OfInbox(a) == {i \in Ids : InboxOf(i) = a}

Live == {"queued", "processing"}
Settled == {"delivered", "acked", "done", "failed"}
States == Live \cup Settled \cup {"none"}   \* "none": no such row

NULL == -1   \* next_retry_at IS NULL

VARIABLES
    state,     \* MessageRecord.state
    retry,     \* next_retry_at: NULL, or ticks until it is due
    ttl,       \* ticks until created_at + ttl_sec
    lastError, \* last_error: what made a record fail
    recalled,  \* the records whose recalled_at is set
    older,     \* created_at: the records that were there before this one
    ackRows,   \* per ack request: the state each row had when it was loaded
    loop,      \* where message_expiry_loop is
    scanned    \* the rows _expire_batch has loaded and not yet written

vars == <<state, retry, ttl, lastError, recalled, older, ackRows, loop, scanned>>
dbVars == <<state, retry, ttl, lastError, recalled, older>>

NoRows == [i \in Ids |-> "none"]
Exists(i) == state[i] # "none"

TypeOK ==
    /\ state \in [Ids -> States]
    /\ retry \in [Ids -> {NULL} \cup 0..Lease]
    /\ ttl \in [Ids -> 0..Ttl]
    /\ lastError \in [Ids -> {"none", "TTL_EXPIRED", "receipt"}]
    /\ recalled \in SUBSET Ids
    /\ older \in [Ids -> SUBSET Ids]
    /\ ackRows \in [Requests -> [Ids -> Live \cup {"none"}]]
    /\ loop \in {"sleep", "scan", "write"}
    /\ scanned \in SUBSET Ids

Init ==
    /\ state = [i \in Ids |-> "none"]
    /\ retry = [i \in Ids |-> NULL]
    /\ ttl = [i \in Ids |-> 0]
    /\ lastError = [i \in Ids |-> "none"]
    /\ recalled = {}
    /\ older = [i \in Ids |-> {}]
    /\ ackRows = [r \in Requests |-> NoRows]
    /\ loop = "sleep"
    /\ scanned = {}

-----------------------------------------------------------------------------
(* Helpers *)

\* ORDER BY created_at LIMIT n over the rows Q.
Oldest(Q, n) ==
    {S \in SUBSET Q :
        /\ \A i \in S : (older[i] \cap Q) \subseteq S
        /\ IF Cardinality(Q) <= n THEN S = Q ELSE Cardinality(S) = n}

\* Mutants of Fetchable: claims that are still being processed, or recalled
\* messages, are handed out.
FetchableClaimed(a) ==
    {i \in Ids : InboxOf(i) = a /\ state[i] \in Live /\ i \notin recalled}
FetchableRecalled(a) ==
    {i \in Ids : InboxOf(i) = a /\ state[i] = "queued"}

\* The rows _fetch_queued_messages selects from, in one agent's inbox.
Fetchable(a) ==
    {i \in Ids : InboxOf(i) = a /\ state[i] = "queued" /\ i \notin recalled}

\* Mutant of Stale: the deadline alone decides.
StaleAnyState == {i \in Ids : retry[i] = 0}

\* next_retry_at <= now on a record being processed.
Stale == {i \in Ids : state[i] = "processing" /\ retry[i] = 0}

\* Mutant of Expired: the TTL alone decides.
ExpiredAnyState == {i \in Ids : Exists(i) /\ i \notin recalled /\ ttl[i] = 0}

\* The rows the expiry scan selects from.
Expired == {i \in Ids : state[i] = "queued" /\ i \notin recalled /\ ttl[i] = 0}

-----------------------------------------------------------------------------
(* Handlers *)

\* POST /hub/send: a new queued record.  A retry with the same msg_id runs
\* into the unique (msg_id, receiver_id) and changes nothing.
Send(m) ==
    /\ ~Exists(Msg(m))
    /\ state' = [state EXCEPT ![Msg(m)] = "queued"]
    /\ ttl' = [ttl EXCEPT ![Msg(m)] = Ttl]
    /\ older' = [older EXCEPT ![Msg(m)] = {i \in Ids : Exists(i)}]
    /\ UNCHANGED <<retry, lastError, recalled, ackRows, loop, scanned>>

\* Mutant of Claim: no deadline is set.
ClaimWithoutDeadline(S) ==
    /\ S # {}
    /\ state' = [i \in Ids |-> IF i \in S THEN "processing" ELSE state[i]]
    /\ UNCHANGED <<retry, ttl, lastError, recalled, older, ackRows, loop, scanned>>

\* GET /hub/inbox?ack=false: claim the oldest queued records under a lease.
Claim(S) ==
    /\ S # {}
    /\ state' = [i \in Ids |-> IF i \in S THEN "processing" ELSE state[i]]
    /\ retry' = [i \in Ids |-> IF i \in S THEN Lease ELSE retry[i]]
    /\ UNCHANGED <<ttl, lastError, recalled, older, ackRows, loop, scanned>>

PollProcessing(a) == \E S \in Oldest(Fetchable(a), PollLimit) : Claim(S)

\* GET /hub/inbox?ack=true: delivered as soon as they are read.
PollDelivered(a) ==
    \E S \in Oldest(Fetchable(a), PollLimit) :
        /\ S # {}
        /\ state' = [i \in Ids |-> IF i \in S THEN "delivered" ELSE state[i]]
        /\ retry' = [i \in Ids |-> IF i \in S THEN NULL ELSE retry[i]]
        /\ UNCHANGED <<ttl, lastError, recalled, older, ackRows, loop, scanned>>

\* POST /hub/inbox/ack, first half: load the rows still queued or processing.
\* No lock is taken.
AckLoad(r, M) ==
    /\ ackRows[r] = NoRows
    /\ \E i \in M : state[i] \in Live
    /\ ackRows' = [ackRows EXCEPT ![r] =
           [i \in Ids |-> IF i \in M /\ state[i] \in Live
                          THEN state[i] ELSE "none"]]
    /\ UNCHANGED <<dbVars, loop, scanned>>

\* POST /hub/inbox/ack, second half: UPDATE ... WHERE id = ..., whatever the
\* row is by now.  next_retry_at is only part of the UPDATE if it was set
\* when the row was loaded, which is when the row was "processing".
AckWrite(r) ==
    /\ ackRows[r] # NoRows
    /\ state' = [i \in Ids |->
           IF ackRows[r][i] # "none" THEN "delivered" ELSE state[i]]
    /\ retry' = [i \in Ids |->
           IF ackRows[r][i] = "processing" THEN NULL ELSE retry[i]]
    /\ ackRows' = [ackRows EXCEPT ![r] = NoRows]
    /\ UNCHANGED <<ttl, lastError, recalled, older, loop, scanned>>

\* The ack transaction fails, or the hub stops before it commits.
AckAbort(r) ==
    /\ ackRows[r] # NoRows
    /\ ackRows' = [ackRows EXCEPT ![r] = NoRows]
    /\ UNCHANGED <<dbVars, loop, scanned>>

\* POST /hub/inbox/lease/renew: one UPDATE ... WHERE state = 'processing'.
RenewLease(M) ==
    /\ \E i \in M : state[i] = "processing"
    /\ retry' = [i \in Ids |-> IF i \in M /\ state[i] = "processing"
                               THEN Lease ELSE retry[i]]
    /\ UNCHANGED <<state, ttl, lastError, recalled, older, ackRows, loop, scanned>>

ReceiptState == [ack |-> "acked", result |-> "done", error |-> "failed"]

\* Mutant of Receipt: the state is committed and the receipt is not queued.
ReceiptNotQueued(m, t) ==
    /\ Exists(Msg(m))
    /\ state' = [state EXCEPT ![Msg(m)] = ReceiptState[t]]
    /\ UNCHANGED <<retry, ttl, lastError, recalled, older, ackRows, loop, scanned>>

\* POST /hub/receipt: set the record's state, whatever it was, and queue the
\* receipt for the sender, in one transaction.  A second delivery of the same
\* receipt violates unique (msg_id, receiver_id): the handler returns without
\* a commit, and the state it had set is rolled back.
Receipt(m, t) ==
    LET rcpt == ReceiptOf(m, t) IN
    /\ Exists(Msg(m))
    /\ ~Exists(rcpt)
    /\ state' = [state EXCEPT ![Msg(m)] = ReceiptState[t], ![rcpt] = "queued"]
    /\ lastError' = IF t = "error"
                    THEN [lastError EXCEPT ![Msg(m)] = "receipt"]
                    ELSE lastError
    /\ ttl' = [ttl EXCEPT ![rcpt] = Ttl]
    /\ older' = [older EXCEPT ![rcpt] = {i \in Ids : Exists(i)}]
    /\ UNCHANGED <<retry, recalled, ackRows, loop, scanned>>

\* POST .../messages/{msg_id}/recall: the delivery state is left as it is.
Recall(m) ==
    /\ Exists(Msg(m))
    /\ Msg(m) \notin recalled
    /\ recalled' = recalled \cup {Msg(m)}
    /\ UNCHANGED <<state, retry, ttl, lastError, older, ackRows, loop, scanned>>

-----------------------------------------------------------------------------
(* message_expiry_loop *)

\* _reclaim_stale_processing: one conditional UPDATE.
Reclaim ==
    /\ loop = "sleep"
    /\ state' = [i \in Ids |-> IF i \in Stale THEN "queued" ELSE state[i]]
    /\ retry' = [i \in Ids |-> IF i \in Stale THEN NULL ELSE retry[i]]
    /\ loop' = "scan"
    /\ UNCHANGED <<ttl, lastError, recalled, older, ackRows, scanned>>

\* _expire_batch: the SELECT, without a lock.
Scan ==
    /\ loop = "scan"
    /\ \E S \in Oldest(Expired, ScanLimit) :
        /\ scanned' = S
        /\ loop' = IF S = {} THEN "sleep" ELSE "write"
    /\ UNCHANGED <<dbVars, ackRows>>

\* _expire_batch: one turn of its loop, oldest row first: UPDATE by primary
\* key, together with the TTL error for the sender, and one commit.
ExpireOne(i) ==
    /\ loop = "write"
    /\ i \in scanned
    /\ older[i] \cap scanned = {}
    /\ scanned' = scanned \ {i}
    /\ loop' = IF scanned' = {} THEN "sleep" ELSE "write"
    /\ lastError' = [lastError EXCEPT ![i] = "TTL_EXPIRED"]
    /\ LET new == {TtlError(m) : m \in {n \in Msgs : i = Msg(n)}} IN
       /\ state' = [j \in Ids |-> IF j = i THEN "failed"
                                  ELSE IF j \in new THEN "queued" ELSE state[j]]
       /\ ttl' = [j \in Ids |-> IF j \in new THEN Ttl ELSE ttl[j]]
       /\ older' = [j \in Ids |-> IF j \in new THEN {k \in Ids : Exists(k)}
                                               ELSE older[j]]
    /\ UNCHANGED <<retry, recalled, ackRows>>

\* An exception in the loop body, or a restart of the hub: what was scanned
\* is forgotten, the database keeps what was committed.
LoopAbort ==
    /\ loop # "sleep"
    /\ loop' = "sleep"
    /\ scanned' = {}
    /\ UNCHANGED <<dbVars, ackRows>>

\* Time passes.  Only the clocks of unsettled records are ever read again.
Tick ==
    /\ \E i \in Ids : state[i] \in Live /\ (retry[i] > 0 \/ ttl[i] > 0)
    /\ retry' = [i \in Ids |-> IF state[i] = "processing" /\ retry[i] > 0
                               THEN retry[i] - 1 ELSE retry[i]]
    /\ ttl' = [i \in Ids |-> IF state[i] \in Live /\ ttl[i] > 0
                             THEN ttl[i] - 1 ELSE ttl[i]]
    /\ UNCHANGED <<state, lastError, recalled, older, ackRows, loop, scanned>>

ExpiryLoop == Reclaim \/ Scan \/ (\E i \in Ids : ExpireOne(i))

Next ==
    \/ \E m \in Msgs : Send(m)
    \/ \E a \in Inboxes : PollProcessing(a)
    \/ \E a \in Inboxes : PollDelivered(a)
    \/ \E r \in Requests, a \in Inboxes : \E M \in SUBSET OfInbox(a) : AckLoad(r, M)
    \/ \E r \in Requests : AckWrite(r)
    \/ \E r \in Requests : AckAbort(r)
    \/ \E a \in Inboxes : \E M \in SUBSET OfInbox(a) : RenewLease(M)
    \/ \E m \in Msgs, t \in ReceiptTypes : Receipt(m, t)
    \/ \E m \in Msgs : Recall(m)
    \/ ExpiryLoop
    \/ LoopAbort
    \/ Tick

Spec == Init /\ [][Next]_vars

-----------------------------------------------------------------------------
(* Properties *)

\* A record handed to a client under ack=false always has a deadline, so the
\* expiry loop can take it back if the client dies; a queued one has none.
\* Every write of state or next_retry_at, by two racing handlers too, has to
\* keep the pair consistent (hub.py poll/ack/renew, expiry.py reclaim).
ClaimHasDeadline ==
    \A i \in Ids :
        /\ state[i] = "processing" => retry[i] # NULL
        /\ state[i] = "queued" => retry[i] = NULL

\* A settled record is never queued or processed again: no interleaving of a
\* poll, a late ack, a renewal and the reclaim loop redelivers it.
NoResurrection ==
    [][\A i \in Ids : state[i] \in Settled => state'[i] \in Settled]_vars

\* The sender is told of an expired message, in the transaction that failed
\* it, and at most once: a row the scan holds has not been reported, and a
\* reported message is settled for good (expiry.py _expire_batch).
ExpiryReportedOnce ==
    \A m \in Msgs :
        /\ lastError[Msg(m)] = "TTL_EXPIRED" => Exists(TtlError(m))
        /\ Exists(TtlError(m)) => state[Msg(m)] \in Settled
        /\ Msg(m) \in scanned => ~Exists(TtlError(m))

\* A message is "acked" or "done" only if the receipt saying so is (or was)
\* in the sender's inbox: state and receipt commit together, and a duplicate
\* receipt rolls both back (hub.py receive_receipt).
ReceiptForwarded ==
    \A m \in Msgs, t \in {"ack", "result"} :
        state[Msg(m)] = ReceiptState[t] => t \in ReceiptTypes /\ Exists(ReceiptOf(m, t))

\* What expiry.py says of itself: "Scan for queued messages past their TTL
\* and expire them".  A record fails with TTL_EXPIRED only while it is queued.
ExpiresOnlyQueued ==
    [][\A i \in Ids : lastError[i] # "TTL_EXPIRED" /\ lastError'[i] = "TTL_EXPIRED"
                      => state[i] = "queued"]_vars
=============================================================================
