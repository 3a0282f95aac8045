---------------------------- MODULE Subscriptions ----------------------------
(***************************************************************************)
(* The life of one room subscription: recurring charges by the billing     *)
(* loop and by /run-billing, cancellation, resubscription, and the change  *)
(* of the room's plan (backend/hub/services/subscriptions.py).             *)
(*                                                                         *)
(* A request is a transaction.  It loads the subscription without a lock   *)
(* and, when it commits, writes the columns that differ from what it       *)
(* loaded, as the ORM does.  Nothing shows before the commit, so the       *)
(* writes of a transaction are one step.                                   *)
(***************************************************************************)
EXTENDS Naturals, FiniteSets

CONSTANTS
    Runners,      \* transactions that charge
    Clients,      \* transactions that resubscribe
    MaxFailed,    \* MAX_FAILED_BILLING_ATTEMPTS
    MaxPeriods,   \* bound on the periods after a (re)subscription
    MaxAnchors,   \* bound on (re)subscriptions
    MaxFaults     \* bound on transactions that are rolled back

ASSUME SubscriptionsAssumption ==
    /\ MaxFailed \in Nat \ {0} /\ MaxPeriods \in Nat \ {0}
    /\ MaxAnchors \in Nat \ {0} /\ MaxFaults \in Nat

NoRunner == "nobody"

VARIABLES
    sub,       \* the row: status, end of the period, failures in a row, whether due
    member,    \* the subscriber is in the room
    planOk,    \* the room still requires this product
    attempts,  \* SubscriptionChargeAttempt of a billing cycle
    paid,      \* history: transfers of a cycle, by their idempotency key
    holder,    \* the charge that has an uncommitted attempt
    charge,    \* a runner's transaction: where it is, and what it loaded
    client,    \* a client's transaction
    anchors,   \* history: (re)subscriptions that were paid
    wants,     \* history: what the subscriber asked for last
    faults

subVars == <<sub, member, planOk, attempts, paid, holder, charge, client, anchors, wants, faults>>

\* current_period_end: the n-th end since the subscription was taken out for
\* the a-th time.  It is also the billing_cycle_key.
Periods == (1..MaxAnchors) \X (1..MaxPeriods)
Subs == [status : {"active", "past_due", "cancelled"}, period : Periods,
         failed : 0..MaxFailed, due : BOOLEAN]
Fresh(a) == [status |-> "active", period |-> <<a, 1>>, failed |-> 0, due |-> FALSE]
NoCharge == [pc |-> "idle", sub |-> Fresh(1), attempt |-> "none"]

SubTypeOK ==
    /\ sub \in Subs
    /\ member \in BOOLEAN /\ planOk \in BOOLEAN
    /\ attempts \in [Periods -> {"none", "pending", "failed", "succeeded"}]
    /\ paid \in [Periods -> Nat]
    /\ holder \in Runners \cup {NoRunner}
    /\ charge \in [Runners -> [pc : {"idle", "loaded", "transfer", "mismatch"}, sub : Subs,
                               attempt : {"none", "failed"}]]
    /\ client \in [Clients -> {"idle", "reactivate"}]
    /\ anchors \in 1..MaxAnchors
    /\ wants \in {"in", "out"}
    /\ faults \in 0..MaxFaults
    \* an attempt succeeded exactly if the cycle was paid
    /\ \A p \in Periods : (attempts[p] = "succeeded") = (paid[p] > 0)

\* create_subscription has charged the first period.
SubInit ==
    /\ sub = Fresh(1)
    /\ member = TRUE /\ planOk = TRUE
    /\ attempts = [p \in Periods |-> "none"]
    /\ paid = [p \in Periods |-> 0]
    /\ holder = NoRunner
    /\ charge = [r \in Runners |-> NoCharge]
    /\ client = [c \in Clients |-> "idle"]
    /\ anchors = 1
    /\ wants = "in"
    /\ faults = 0

-----------------------------------------------------------------------------
(* Charging *)

\* next_charge_at is reached: the end of a period, or RETRY_DELAY after a
\* failed attempt.  Both are days; a transaction that is open does not last so
\* long, nor does the hub stay down for a whole period.
FallsDue ==
    /\ \A r \in Runners : charge[r].pc = "idle"
    /\ \A c \in Clients : client[c] = "idle"
    /\ ~sub.due /\ sub.status # "cancelled"
    /\ sub.period[2] < MaxPeriods
    /\ sub' = [sub EXCEPT !.due = TRUE]
    /\ UNCHANGED <<member, planOk, attempts, paid, holder, charge, client, anchors, wants, faults>>

\* process_due_subscription_billings up to the look at the attempt of the
\* cycle; one that succeeded, or is pending, is skipped.
Load(r) ==
    /\ charge[r].pc = "idle"
    /\ sub.due /\ sub.status # "cancelled"
    /\ planOk => attempts[sub.period] \notin {"succeeded", "pending"}
    /\ charge' = [charge EXCEPT ![r] =
           IF planOk THEN [pc |-> "loaded", sub |-> sub, attempt |-> attempts[sub.period]]
           ELSE [NoCharge EXCEPT !.pc = "mismatch", !.sub = sub]]
    /\ UNCHANGED <<sub, member, planOk, attempts, paid, holder, client, anchors, wants, faults>>

EndCharge(r) == charge' = [charge EXCEPT ![r] = NoCharge]

\* The room has another plan: cancelled without a charge, access revoked.
CancelMismatch(r) ==
    /\ charge[r].pc = "mismatch"
    /\ sub' = [sub EXCEPT !.status = "cancelled"]
    /\ member' = FALSE
    /\ EndCharge(r)
    /\ UNCHANGED <<planOk, attempts, paid, holder, client, anchors, wants, faults>>

\* Mutant of EnsureAttempt: the pending attempt is committed before the transfer.
EnsureAttemptCommits(r) ==
    /\ charge[r].pc = "loaded"
    /\ holder = NoRunner
    /\ IF charge[r].attempt = "none" /\ attempts[charge[r].sub.period] # "none"
       THEN EndCharge(r) /\ UNCHANGED <<holder, attempts>>
       ELSE /\ charge' = [charge EXCEPT ![r].pc = "transfer"] /\ holder' = r
            /\ attempts' = [attempts EXCEPT ![charge[r].sub.period] = "pending"]
    /\ UNCHANGED <<sub, member, planOk, paid, client, anchors, wants, faults>>

\* _ensure_charge_attempt waits for a charge that has the attempt uncommitted.
\* The INSERT fails if there is one by now (uq_subscription_cycle) and the
\* savepoint is rolled back; one that was loaded as failed is written again,
\* whatever it says by now.  The attempt is pending until the commit, in the
\* same savepoint as the transfer: no other transaction sees it so.
EnsureAttempt(r) ==
    /\ charge[r].pc = "loaded"
    /\ holder = NoRunner
    /\ IF charge[r].attempt = "none" /\ attempts[charge[r].sub.period] # "none"
       THEN EndCharge(r) /\ UNCHANGED holder
       ELSE charge' = [charge EXCEPT ![r].pc = "transfer"] /\ holder' = r
    /\ UNCHANGED <<sub, member, planOk, attempts, paid, client, anchors, wants, faults>>

\* Mutant of Settled: the period is moved on from the row as it is now.
SettledByIncrement(old, succeeded) ==
    [sub EXCEPT !.status = IF succeeded THEN "active" ELSE "past_due",
                !.period[2] = IF succeeded /\ @ < MaxPeriods THEN @ + 1 ELSE @,
                !.failed = IF succeeded THEN 0 ELSE old.failed + 1,
                !.due = FALSE]

\* The row after a charge that had loaded old: columns that the charge sets to
\* what it had loaded are not written.
Settled(old, succeeded) ==
    LET failed == IF succeeded THEN 0 ELSE old.failed + 1
        status == IF succeeded THEN "active"
                  ELSE IF failed >= MaxFailed THEN "cancelled" ELSE "past_due"
    IN [status |-> IF status = old.status THEN sub.status ELSE status,
        period |-> IF succeeded THEN <<old.period[1], old.period[2] + 1>> ELSE sub.period,
        failed |-> IF failed = old.failed THEN sub.failed ELSE failed,
        due    |-> FALSE]

\* create_transfer: a key that was used moves nothing and succeeds (Wallet,
\* TransferredOnce).  A charge may well get that far with a cycle that was paid
\* since it loaded a failed attempt of it.
Transferred(p, succeeded) == IF succeeded /\ paid[p] = 0 THEN 1 ELSE paid[p]

\* create_transfer, what _charge_subscription makes of it, and the commit.
Settle(r, succeeded) ==
    LET old == charge[r].sub
        p == old.period
    IN /\ charge[r].pc = "transfer"
       /\ paid[p] > 0 => succeeded
       /\ paid' = [paid EXCEPT ![p] = Transferred(p, succeeded)]
       /\ attempts' = [attempts EXCEPT ![p] = IF succeeded THEN "succeeded" ELSE "failed"]
       /\ sub' = Settled(old, succeeded)
       /\ member' = (member /\ (succeeded \/ old.failed + 1 < MaxFailed))
       /\ holder' = NoRunner
       /\ EndCharge(r)
       /\ UNCHANGED <<planOk, client, anchors, wants, faults>>

\* The transaction is rolled back, or its process dies.
Rollback(r) ==
    /\ faults < MaxFaults /\ faults' = faults + 1
    /\ charge[r].pc # "idle"
    /\ EndCharge(r)
    /\ holder' = IF holder = r THEN NoRunner ELSE holder
    /\ UNCHANGED <<sub, member, planOk, attempts, paid, client, anchors, wants>>

-----------------------------------------------------------------------------
(* Requests *)

\* Mutant of Cancel: access is kept.
CancelKeepsAccess ==
    /\ sub.status # "cancelled"
    /\ sub' = [sub EXCEPT !.status = "cancelled"]
    /\ wants' = "out"
    /\ UNCHANGED <<member, planOk, attempts, paid, holder, charge, client, anchors, faults>>

Cancel ==
    /\ sub.status # "cancelled"
    /\ sub' = [sub EXCEPT !.status = "cancelled"]
    /\ member' = FALSE
    /\ wants' = "out"
    /\ UNCHANGED <<planOk, attempts, paid, holder, charge, client, anchors, faults>>

\* create_subscription loads a cancelled subscription; any other is returned
\* as it is.
Resubscribe(c) ==
    /\ client[c] = "idle"
    /\ sub.status = "cancelled" /\ planOk
    /\ anchors < MaxAnchors
    /\ client' = [client EXCEPT ![c] = "reactivate"]
    /\ UNCHANGED <<sub, member, planOk, attempts, paid, holder, charge, anchors, wants, faults>>

\* _reactivate_subscription charges, under a key of its own, and joins the
\* room if it still has the plan; or the charge or the join fails.
Reactivate(c) ==
    /\ client[c] = "reactivate"
    /\ client' = [client EXCEPT ![c] = "idle"]
    /\ anchors < MaxAnchors
    /\ anchors' = anchors + 1
    /\ sub' = Fresh(anchors')
    /\ member' = (member \/ planOk)
    /\ wants' = "in"
    /\ UNCHANGED <<planOk, attempts, paid, holder, charge, faults>>

ReactivateFails(c) ==
    /\ client[c] = "reactivate"
    /\ client' = [client EXCEPT ![c] = "idle"]
    /\ UNCHANGED <<sub, member, planOk, attempts, paid, holder, charge, anchors, wants, faults>>

\* The owner gives the room another plan, or none.
ChangePlan ==
    /\ planOk
    /\ planOk' = FALSE
    /\ UNCHANGED <<sub, member, attempts, paid, holder, charge, client, anchors, wants, faults>>

SubNext ==
    \/ FallsDue \/ Cancel \/ ChangePlan
    \/ \E r \in Runners :
        \/ Load(r) \/ CancelMismatch(r) \/ EnsureAttempt(r) \/ Rollback(r)
        \/ \E ok \in BOOLEAN : Settle(r, ok)
    \/ \E c \in Clients : Resubscribe(c) \/ Reactivate(c) \/ ReactivateFails(c)

\* The billing loop catches every error and goes on after 30 seconds.
SubFairness ==
    \A r \in Runners :
        /\ WF_subVars(Load(r)) /\ WF_subVars(CancelMismatch(r)) /\ WF_subVars(EnsureAttempt(r))
        /\ WF_subVars(\E ok \in BOOLEAN : Settle(r, ok))

SubSpec == SubInit /\ [][SubNext]_subVars
SubFairSpec == SubSpec /\ SubFairness

-----------------------------------------------------------------------------
(* Properties *)

\* The row stands just past the cycles that were paid: since the subscription
\* was taken out, each period that it has moved over was paid once, and none
\* was paid that it has not moved over.  Charges that overlap, one of which
\* failed or repeats what the other has done, give no period away and take no
\* money for nothing (_charge_subscription).
RowFollowsPayments ==
    \A n \in 1..MaxPeriods :
        paid[<<sub.period[1], n>>] = IF n < sub.period[2] THEN 1 ELSE 0

\* A subscription that is cancelled, by whomever, gives no access to the room
\* (_revoke_subscription_room_access).
NoAccessWhenCancelled == sub.status = "cancelled" => ~member

\* A subscription that is due is charged, tried again later, or cancelled: no
\* attempt is left in a state in which every later batch skips it.
DueIsSettled == sub.due ~> (~sub.due \/ sub.status = "cancelled")

\* "cancel_subscription ... immediately status=cancelled + revoke"
\* (docs/archive/implemented/room-subscription-redesign.md): what the
\* subscriber has cancelled stays so until they subscribe again.
CancelHolds == wants = "out" => sub.status = "cancelled"

\* "Reactivate cancelled subscription: charge and reset billing period"
\* (create_subscription): only a cancelled subscription is charged anew.
ReactivatesCancelled == [][anchors' # anchors => sub.status = "cancelled"]_subVars
=============================================================================
