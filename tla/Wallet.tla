------------------------------- MODULE Wallet -------------------------------
(***************************************************************************)
(* The hub's coin wallets: services/wallet.py (transfers, topups,          *)
(* withdrawals and the ledger), the fulfilment of a Stripe checkout in     *)
(* services/stripe_topup.py, and the charging batch of the subscription    *)
(* billing loop.                                                           *)
(*                                                                         *)
(* A session is one database transaction.  It takes its row locks one by   *)
(* one (SELECT ... FOR UPDATE), reads and writes under them, and releases  *)
(* them all when it commits or rolls back.  An operation that takes one    *)
(* lock only is a single action, enabled while nobody else has the lock.   *)
(*                                                                         *)
(* The requests that clients may make are given as constants: a member of  *)
(* Transfers or Grants stands for one idempotency key with its parties and *)
(* amount, and may be sent any number of times.  The members of Charges    *)
(* are the due cycles of subscriptions: only the billing loop, of which    *)
(* there is one, sends them.  Wallet rows exist.                           *)
(***************************************************************************)
EXTENDS Integers, Sequences, FiniteSets, FiniteSetsExt

CONSTANTS
    Owners, Rank,           \* wallet owners, and the order of their ids
    Transfers, From, To,    \* transfers: idempotency keys with their parties
    Grants,                 \* grants: idempotency keys
    Topups, Withdrawals,    \* topup and withdrawal requests ...
    OwnerOf,                \* the owner of a grant, topup or withdrawal
    Amount,                 \* the amount of each (with the fee)
    Sessions,               \* requests being served
    Batches,                \* the lists of due charges that a SELECT may return
    None

Rows == Topups \cup Withdrawals
Keys == Transfers \cup Grants
Charges == {x \in Transfers : \E b \in Batches : \E i \in 1..Len(b) : b[i] = x}

ASSUME WalletAssumption ==
    /\ Rank \in [Owners -> Nat]
    /\ \A o, p \in Owners : Rank[o] = Rank[p] => o = p
    /\ From \in [Transfers -> Owners]
    /\ To \in [Transfers -> Owners]
    /\ \A x \in Transfers : From[x] # To[x]
    /\ OwnerOf \in [Grants \cup Rows -> Owners]
    /\ Amount \in [Keys \cup Rows -> Nat \ {0}]
    /\ Batches \subseteq Seq(Transfers)
    /\ \A l \in Batches : \A i, j \in 1..Len(l) : l[i] = l[j] => i = j
    /\ Transfers \cap Grants = {} /\ IsFiniteSet(Withdrawals) /\ IsFiniteSet(Sessions)
    /\ Topups \cap Withdrawals = {} /\ Owners \cap Rows = {}
    /\ None \notin Sessions /\ None \notin Owners \cup Rows

VARIABLES
    avail,     \* WalletAccount.available_balance_minor
    locked,    \* WalletAccount.locked_balance_minor
    ledger,    \* per owner: the credits less the debits of its WalletEntry rows
    applied,   \* per key: the committed WalletTransaction rows
    topup,     \* TopupRequest.status
    credited,  \* per topup: the WalletEntry rows that credit it
    wd,        \* WithdrawalRequest.status
    holder,    \* the session that has the lock of a row
    sess,      \* what each session is doing
    delta      \* per session: its uncommitted change of available balances

moneyVars == <<avail, locked, ledger, applied, topup, credited, wd>>
sessVars == <<holder, sess, delta>>
vars == <<moneyVars, sessVars>>

(***************************************************************************)
(* A session has an operation; "transfer" and "billing" have transfers to  *)
(* do, the ones they have done and the wallets these keep locked, the      *)
(* operations on a topup or withdrawal have an item and the status they    *)
(* believe it has.                                                         *)
(***************************************************************************)
MoveOps == {"transfer", "billing"}
RowOps == {"fulfill", "complete_topup", "reject", "cancel", "complete_withdrawal"}
Idle == [op |-> "idle", todo |-> <<>>, done |-> {}, kept |-> {},
         item |-> None, status |-> "unread"]
NoDelta == [o \in Owners |-> 0]

TopupStates == {"none", "pending", "completed", "failed"}
WithdrawalStates == {"none", "pending", "approved", "rejected", "completed", "cancelled"}
Status(i) == IF i \in Topups THEN topup[i] ELSE wd[i]

TypeOK ==
    /\ avail \in [Owners -> Nat] /\ locked \in [Owners -> Nat]
    /\ ledger \in [Owners -> Int]
    /\ applied \in [Keys -> Nat]
    /\ topup \in [Topups -> TopupStates]
    /\ credited \in [Topups -> Nat]
    /\ wd \in [Withdrawals -> WithdrawalStates]
    /\ holder \in [Owners \cup Rows -> Sessions \cup {None}]
    /\ \A s \in Sessions :
        /\ sess[s].op \in {"idle"} \cup MoveOps \cup RowOps
        /\ \A i \in 1..Len(sess[s].todo) : sess[s].todo[i] \in Transfers
        /\ sess[s].done \subseteq Transfers /\ sess[s].kept \subseteq Owners
        /\ sess[s].op \in RowOps => sess[s].item \in Rows
    /\ delta \in [Sessions -> [Owners -> Int]]

Init ==
    /\ avail = [o \in Owners |-> 0]
    /\ locked = [o \in Owners |-> 0]
    /\ ledger = [o \in Owners |-> 0]
    /\ applied = [x \in Keys |-> 0]
    /\ topup = [t \in Topups |-> "none"]
    /\ credited = [t \in Topups |-> 0]
    /\ wd = [w \in Withdrawals |-> "none"]
    /\ holder = [l \in Owners \cup Rows |-> None]
    /\ sess = [s \in Sessions |-> Idle]
    /\ delta = [s \in Sessions |-> NoDelta]

-----------------------------------------------------------------------------
(* Locks *)

\* Mutant of Sorted: the sender's wallet first.
SortedSenderFirst(x) == <<From[x], To[x]>>

\* sorted([from_owner_id, to_owner_id])
Sorted(x) == IF Rank[From[x]] < Rank[To[x]] THEN <<From[x], To[x]>> ELSE <<To[x], From[x]>>

\* The locks a session takes next, in their order.
Plan(s) ==
    LET j == sess[s] IN
    IF j.op \in MoveOps THEN IF j.todo = <<>> THEN <<>> ELSE Sorted(Head(j.todo))
    ELSE IF j.op \in RowOps THEN <<j.item, OwnerOf[j.item]>> ELSE <<>>

\* The first of them that it does not have, or None.
Want(s) ==
    LET p == Plan(s) IN
    IF p = <<>> THEN None
    ELSE IF holder[p[1]] # s THEN p[1]
    ELSE IF holder[p[2]] # s THEN p[2] ELSE None

\* The session has all the locks of its current operation.
Locked(s) == Plan(s) # <<>> /\ Want(s) = None

Released(s) == [l \in Owners \cup Rows |-> IF holder[l] = s THEN None ELSE holder[l]]

\* The transaction ends, and every lock of the session with it.
End(s) ==
    /\ holder' = Released(s)
    /\ sess' = [sess EXCEPT ![s] = Idle]
    /\ delta' = [delta EXCEPT ![s] = NoDelta]

\* The status an operation on a topup or withdrawal demands.
Demands(op) == IF op = "complete_withdrawal" THEN "approved" ELSE "pending"

\* _lock_wallet: wait for the wallet.  On a topup or withdrawal the status
\* has been checked by then.
LockWallet(s, o) ==
    /\ Want(s) = o
    /\ holder[o] = None
    /\ sess[s].op \in RowOps => sess[s].status = Demands(sess[s].op)
    /\ holder' = [holder EXCEPT ![o] = s]
    /\ UNCHANGED <<moneyVars, sess, delta>>

\* SELECT ... FOR UPDATE of the topup or withdrawal.  The row is fresh, but an
\* object the session loaded before keeps the attributes it was loaded with.
LockRow(s, i) ==
    /\ Want(s) = i
    /\ holder[i] = None
    /\ holder' = [holder EXCEPT ![i] = s]
    /\ sess' = [sess EXCEPT ![s].status = IF @ = "unread" THEN Status(i) ELSE @]
    /\ UNCHANGED <<moneyVars, delta>>

\* "... is not pending": the request fails.
RefuseRow(s) ==
    /\ sess[s].op \in RowOps
    /\ sess[s].status \notin {"unread", Demands(sess[s].op)}
    /\ End(s)
    /\ UNCHANGED moneyVars

\* The client goes away, the hub stops, or the database picks this session as
\* the victim of a deadlock.
Abort(s) ==
    /\ sess[s] # Idle
    /\ End(s)
    /\ UNCHANGED moneyVars

-----------------------------------------------------------------------------
(* Transfers *)

\* create_transfer: a key that was used already is answered from the table.
BeginTransfer(s, x) ==
    /\ sess[s] = Idle
    /\ x \notin Charges
    /\ applied[x] = 0
    /\ sess' = [sess EXCEPT ![s] = [Idle EXCEPT !.op = "transfer", !.todo = <<x>>]]
    /\ UNCHANGED <<moneyVars, holder, delta>>

\* process_due_subscription_billings: the charges of a batch, one after the
\* other in one transaction, by the billing loop or /run-billing, perhaps both
\* at once.  A charge that was made is not due any more.
BeginBatch(s, b) ==
    /\ sess[s] = Idle
    /\ b # <<>> /\ \A i \in 1..Len(b) : applied[b[i]] = 0
    /\ sess' = [sess EXCEPT ![s] = [Idle EXCEPT !.op = "billing", !.todo = b]]
    /\ UNCHANGED <<moneyVars, holder, delta>>

\* An error in a charge, as that of the victim of a deadlock: its savepoint
\* is rolled back with the locks taken since, and the batch goes on.
SkipCharge(s) ==
    /\ sess[s].op = "billing" /\ sess[s].todo # <<>>
    /\ sess' = [sess EXCEPT ![s].todo = Tail(@)]
    /\ holder' = [l \in Owners \cup Rows |->
                    IF holder[l] = s /\ l \notin sess[s].kept THEN None ELSE holder[l]]
    /\ UNCHANGED <<moneyVars, delta>>

Balance(s, o) == avail[o] + delta[s][o]

\* Mutant of Transfer: the key is not unique.
TransferNotUnique(s) ==
    LET x == Head(sess[s].todo) IN
    /\ sess[s].op \in MoveOps /\ Locked(s)
    /\ Balance(s, From[x]) >= Amount[x]
    /\ delta' = [delta EXCEPT ![s][From[x]] = @ - Amount[x], ![s][To[x]] = @ + Amount[x]]
    /\ sess' = [sess EXCEPT ![s].todo = Tail(@), ![s].done = @ \cup {x},
                            ![s].kept = @ \cup {From[x], To[x]}]
    /\ UNCHANGED <<moneyVars, holder>>

\* The transfer goes through: the row with its key is new.
Transfer(s) ==
    LET x == Head(sess[s].todo) IN
    /\ sess[s].op \in MoveOps /\ Locked(s)
    /\ Balance(s, From[x]) >= Amount[x]
    /\ applied[x] = 0
    /\ delta' = [delta EXCEPT ![s][From[x]] = @ - Amount[x], ![s][To[x]] = @ + Amount[x]]
    /\ sess' = [sess EXCEPT ![s].todo = Tail(@), ![s].done = @ \cup {x},
                            ![s].kept = @ \cup {From[x], To[x]}]
    /\ UNCHANGED <<moneyVars, holder>>

\* "Insufficient balance" fails the request; a charge of the billing loop is
\* noted as failed and the batch goes on, with the locks it has.
Insufficient(s) ==
    LET x == Head(sess[s].todo) IN
    /\ sess[s].op \in MoveOps /\ Locked(s)
    /\ Balance(s, From[x]) < Amount[x]
    /\ \/ /\ sess[s].op = "transfer"
          /\ End(s)
       \/ /\ sess[s].op = "billing"
          /\ sess' = [sess EXCEPT ![s].todo = Tail(@), ![s].kept = @ \cup {From[x], To[x]}]
          /\ UNCHANGED <<holder, delta>>
    /\ UNCHANGED moneyVars

\* Somebody else used the key meanwhile: IntegrityError, rollback, and the
\* existing transaction is returned.
Duplicate(s) ==
    /\ sess[s].op = "transfer" /\ Locked(s)
    /\ Balance(s, From[Head(sess[s].todo)]) >= Amount[Head(sess[s].todo)]
    /\ applied[Head(sess[s].todo)] # 0
    /\ End(s)
    /\ UNCHANGED moneyVars

\* One debit and one credit entry for each transfer that was made.
CommitTransfers(s) ==
    /\ sess[s].op \in MoveOps /\ sess[s].todo = <<>>
    /\ avail' = [o \in Owners |-> avail[o] + delta[s][o]]
    /\ ledger' = [o \in Owners |-> ledger[o] + delta[s][o]]
    /\ applied' = [x \in Keys |-> IF x \in sess[s].done THEN applied[x] + 1 ELSE applied[x]]
    /\ End(s)
    /\ UNCHANGED <<locked, topup, credited, wd>>

\* create_grant: one lock, one unique row, one entry.
Grant(g) ==
    LET o == OwnerOf[g] IN
    /\ applied[g] = 0 /\ holder[o] = None
    /\ avail' = [avail EXCEPT ![o] = @ + Amount[g]]
    /\ ledger' = [ledger EXCEPT ![o] = @ + Amount[g]]
    /\ applied' = [applied EXCEPT ![g] = 1]
    /\ UNCHANGED <<locked, topup, credited, wd, sessVars>>

-----------------------------------------------------------------------------
(* Topups *)

CreateTopup(t) ==
    /\ topup[t] = "none"
    /\ topup' = [topup EXCEPT ![t] = "pending"]
    /\ UNCHANGED <<avail, locked, ledger, applied, credited, wd, sessVars>>

FailTopup(t) ==
    /\ topup[t] = "pending" /\ holder[t] = None
    /\ topup' = [topup EXCEPT ![t] = "failed"]
    /\ UNCHANGED <<avail, locked, ledger, applied, credited, wd, sessVars>>

\* fulfill_stripe_checkout, by the webhook or by the session-status request:
\* the payment is done, and the topup is read without a lock.
BeginFulfill(s, t) ==
    /\ sess[s] = Idle
    /\ topup[t] = "pending"
    /\ sess' = [sess EXCEPT ![s] = [Idle EXCEPT !.op = "fulfill", !.item = t,
                                                !.status = "pending"]]
    /\ UNCHANGED <<moneyVars, holder, delta>>

\* The other operations on a topup or withdrawal read it when they lock it.
BeginRow(s, op, i) ==
    /\ sess[s] = Idle
    /\ Status(i) # "none"
    /\ IF i \in Topups THEN op = "complete_topup"
                       ELSE op \in {"reject", "cancel", "complete_withdrawal"}
    /\ sess' = [sess EXCEPT ![s] = [Idle EXCEPT !.op = op, !.item = i]]
    /\ UNCHANGED <<moneyVars, holder, delta>>

\* complete_topup_request: credit, entry, commit.
CompleteTopup(s) ==
    LET t == sess[s].item
        o == OwnerOf[t] IN
    /\ sess[s].op \in {"fulfill", "complete_topup"} /\ Locked(s)
    /\ avail' = [avail EXCEPT ![o] = @ + Amount[t]]
    /\ ledger' = [ledger EXCEPT ![o] = @ + Amount[t]]
    /\ topup' = [topup EXCEPT ![t] = "completed"]
    /\ credited' = [credited EXCEPT ![t] = @ + 1]
    /\ End(s)
    /\ UNCHANGED <<locked, applied, wd>>

-----------------------------------------------------------------------------
(* Withdrawals *)

\* create_withdrawal_request: the amount and the fee move to locked.
CreateWithdrawal(w) ==
    LET o == OwnerOf[w] IN
    /\ wd[w] = "none" /\ holder[o] = None
    /\ avail[o] >= Amount[w]
    /\ avail' = [avail EXCEPT ![o] = @ - Amount[w]]
    /\ locked' = [locked EXCEPT ![o] = @ + Amount[w]]
    /\ wd' = [wd EXCEPT ![w] = "pending"]
    /\ UNCHANGED <<ledger, applied, topup, credited, sessVars>>

ApproveWithdrawal(w) ==
    /\ wd[w] = "pending" /\ holder[w] = None
    /\ wd' = [wd EXCEPT ![w] = "approved"]
    /\ UNCHANGED <<avail, locked, ledger, applied, topup, credited, sessVars>>

\* Mutant of Unlock: the amount is not taken from locked.
UnlockOnce(s, op, outcome) ==
    LET w == sess[s].item
        o == OwnerOf[w] IN
    /\ sess[s].op = op /\ Locked(s)
    /\ avail' = [avail EXCEPT ![o] = @ + Amount[w]]
    /\ wd' = [wd EXCEPT ![w] = outcome]
    /\ End(s)
    /\ UNCHANGED <<locked, ledger, applied, topup, credited>>

\* The coins of a withdrawal go back to its owner.
Unlock(s, op, outcome) ==
    LET w == sess[s].item
        o == OwnerOf[w] IN
    /\ sess[s].op = op /\ Locked(s)
    /\ avail' = [avail EXCEPT ![o] = @ + Amount[w]]
    /\ locked' = [locked EXCEPT ![o] = @ - Amount[w]]
    /\ wd' = [wd EXCEPT ![w] = outcome]
    /\ End(s)
    /\ UNCHANGED <<ledger, applied, topup, credited>>

RejectWithdrawal(s) == Unlock(s, "reject", "rejected")
CancelWithdrawal(s) == Unlock(s, "cancel", "cancelled")

CompleteWithdrawal(s) ==
    LET w == sess[s].item
        o == OwnerOf[w] IN
    /\ sess[s].op = "complete_withdrawal" /\ Locked(s)
    /\ locked' = [locked EXCEPT ![o] = @ - Amount[w]]
    /\ ledger' = [ledger EXCEPT ![o] = @ - Amount[w]]
    /\ wd' = [wd EXCEPT ![w] = "completed"]
    /\ End(s)
    /\ UNCHANGED <<avail, applied, topup, credited>>

-----------------------------------------------------------------------------
Next ==
    \/ \E g \in Grants : Grant(g)
    \/ \E t \in Topups : CreateTopup(t) \/ FailTopup(t)
    \/ \E w \in Withdrawals : CreateWithdrawal(w) \/ ApproveWithdrawal(w)
    \/ \E s \in Sessions :
        \/ \E x \in Transfers : BeginTransfer(s, x)
        \/ \E b \in Batches : BeginBatch(s, b)
        \/ \E t \in Topups : BeginFulfill(s, t)
        \/ \E i \in Rows, op \in RowOps : BeginRow(s, op, i)
        \/ \E o \in Owners : LockWallet(s, o)
        \/ \E i \in Rows : LockRow(s, i)
        \/ RefuseRow(s) \/ SkipCharge(s) \/ Abort(s)
        \/ Transfer(s) \/ Insufficient(s) \/ Duplicate(s) \/ CommitTransfers(s)
        \/ CompleteTopup(s)
        \/ RejectWithdrawal(s) \/ CancelWithdrawal(s) \/ CompleteWithdrawal(s)

Spec == Init /\ [][Next]_vars

-----------------------------------------------------------------------------
(* Properties *)

\* The ledger explains every balance: what an owner has, free or locked, is
\* the sum of its entries (_write_entry beside every change of a balance).
LedgerExplainsBalance ==
    \A o \in Owners : avail[o] + locked[o] = ledger[o]

\* The amounts of a set of requests.
Sum(S) == MapThenSumSet(LAMBDA x : Amount[x], S)

\* What is locked is what the owner's open withdrawals will need: neither
\* two reviews of one withdrawal nor a cancel racing an approval unlock twice.
LockedCoversWithdrawals ==
    \A o \in Owners : locked[o] =
        Sum({w \in Withdrawals : OwnerOf[w] = o /\ wd[w] \in {"pending", "approved"}})

\* No session sees a balance below zero, its own uncommitted charges counted.
NeverOverdrawn == \A s \in Sessions, o \in Owners : Balance(s, o) >= 0

\* Every coin is accounted for: balances do not go below zero, not even before
\* a batch commits, each is the sum of its ledger entries, and what is locked
\* belongs to an open withdrawal, whatever requests, reviews, savepoints and
\* rollbacks interleave (create_transfer, _write_entry, the reviews).
CoinsAccountedFor ==
    TypeOK /\ NeverOverdrawn /\ LedgerExplainsBalance /\ LockedCoversWithdrawals

\* A transfer is made at most once for its idempotency key, however many
\* requests with that key run at the same time.
TransferredOnce == \A x \in Transfers : applied[x] <= 1

\* Sessions wait for each other in a circle only if one of them is the billing
\* batch, which keeps the wallets of its earlier charges locked.
DeadlockNeedsBatch ==
    \A S \in (SUBSET {s \in Sessions : sess[s].op # "billing"}) \ {{}} :
        \E s \in S : Want(s) = None \/ holder[Want(s)] \notin S \ {s}

\* wallet.py locks wallets in "consistent ordering to avoid deadlock": no
\* sessions wait for each other in a circle.
NoWaitCycle ==
    \A S \in (SUBSET Sessions) \ {{}} :
        \E s \in S : Want(s) = None \/ holder[Want(s)] \notin S \ {s}

\* fulfill_stripe_checkout completes a topup "idempotently": it is credited at
\* most once, by webhook and session-status together.
TopupCreditedOnce == \A t \in Topups : credited[t] <= 1
=============================================================================
