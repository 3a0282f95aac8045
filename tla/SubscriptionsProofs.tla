------------------------ MODULE SubscriptionsProofs ------------------------
(***************************************************************************)
(* Billing of a subscription, for any number of overlapping charges and    *)
(* resubscriptions.                                                        *)
(*                                                                         *)
(* A charge writes columns computed from the row it loaded, which may have *)
(* been cancelled, charged or taken out anew meanwhile.  What keeps this   *)
(* in bounds is that charges that overlap loaded the same row: a row is    *)
(* due once, and the first charge of it that commits makes it not due.     *)
(***************************************************************************)
EXTENDS Subscriptions, TLAPS

Charging(r) == charge[r].pc # "idle"

\* A row that can be charged: there is a next period, another failure, and a
\* status that a failure may have left.
Chargeable(row) ==
    /\ row.due /\ row.status # "cancelled"
    /\ row.period[2] < MaxPeriods
    /\ row.failed < MaxFailed
    /\ row.status = "past_due" => MaxFailed > 1

\* The row itself keeps within the retry budget of the billing loop.
RowInv ==
    /\ sub.due => sub.period[2] < MaxPeriods
    /\ sub.status # "cancelled" => sub.failed < MaxFailed
    /\ sub.status = "past_due" => MaxFailed > 1

\* Charges that overlap loaded the same row, and the row has moved by at most
\* one failure since; as long as it is due they loaded what it still is.
LoadedInv ==
    \A r \in Runners : Charging(r) =>
        /\ Chargeable(charge[r].sub)
        /\ sub.failed \in {0, charge[r].sub.failed, charge[r].sub.failed + 1}
        /\ sub.due /\ sub.status # "cancelled" => charge[r].sub = sub
        /\ \A q \in Runners : Charging(q) => charge[q].sub = charge[r].sub

\* What has been paid, seen from a period p: the cycles before it once, those
\* after it not at all.
PaidAround(p) ==
    /\ \A n \in 1..MaxPeriods : n < p[2] => paid[<<p[1], n>>] = 1
    /\ \A n \in 1..MaxPeriods : n > p[2] => paid[<<p[1], n>>] = 0

\* RowFollowsPayments, and what a charge in flight finds: it may have been
\* overtaken by a charge of the same cycle, never by one of a later cycle.
\* No cycle of a subscription yet to be taken out is paid.
PaidInv ==
    /\ RowFollowsPayments
    /\ \A r \in Runners : Charging(r) =>
          /\ PaidAround(charge[r].sub.period)
          /\ paid[charge[r].sub.period] \in 0..1
          /\ charge[r].sub.period[1] <= anchors
    /\ \A p \in Periods : p[1] > anchors => paid[p] = 0
    /\ sub.period[1] <= anchors

\* The inductive invariant.
SubInv ==
    /\ SubTypeOK
    /\ RowInv
    /\ LoadedInv
    /\ PaidInv
    /\ NoAccessWhenCancelled

-----------------------------------------------------------------------------
(* One step *)

LEMMA SubInitInv == SubInit => SubInv
<1> SUFFICES ASSUME SubInit PROVE SubInv
  OBVIOUS
<1> USE SubscriptionsAssumption DEF SubInit, Fresh
<1>1. Fresh(1) \in Subs
  BY DEF Subs, Periods
<1>2. SubTypeOK
  BY <1>1 DEF SubTypeOK, NoCharge
<1>3. RowInv /\ NoAccessWhenCancelled
  BY DEF RowInv, NoAccessWhenCancelled
<1>4. LoadedInv
  BY DEF LoadedInv, Charging, NoCharge
<1>5. PaidInv
  BY DEF PaidInv, RowFollowsPayments, Charging, NoCharge, Periods
<1> QED
  BY <1>2, <1>3, <1>4, <1>5 DEF SubInv

\* What a charge writes, given the row it loaded and the row as it is now.
LEMMA SettledFacts ==
    ASSUME sub \in Subs, RowInv, NEW old \in Subs, Chargeable(old),
           sub.failed \in {0, old.failed, old.failed + 1}, NEW ok \in BOOLEAN
    PROVE  /\ Settled(old, ok) \in Subs
           /\ ~Settled(old, ok).due
           /\ Settled(old, ok).failed \in {0, old.failed, old.failed + 1}
           /\ Settled(old, ok).status # "cancelled" => Settled(old, ok).failed < MaxFailed
           /\ Settled(old, ok).status = "past_due" => MaxFailed > 1
           /\ Settled(old, ok).status = "cancelled" =>
                 sub.status = "cancelled" \/ (~ok /\ old.failed + 1 >= MaxFailed)
           /\ Settled(old, ok).period =
                 IF ok THEN <<old.period[1], old.period[2] + 1>> ELSE sub.period
<1> USE SubscriptionsAssumption DEF Subs, Periods
<1>1. /\ old.failed \in 0..MaxFailed /\ old.failed < MaxFailed
      /\ old.status \in {"active", "past_due"}
      /\ old.status = "past_due" => MaxFailed > 1
      /\ old.period \in Periods /\ old.period[2] < MaxPeriods
  BY DEF Chargeable
<1>2. <<old.period[1], old.period[2] + 1>> \in Periods
  BY <1>1
<1>3. /\ sub.failed \in 0..MaxFailed /\ sub.period \in Periods
      /\ sub.status \in {"active", "past_due", "cancelled"}
  OBVIOUS
<1>4. CASE ok
  BY <1>1, <1>2, <1>3, <1>4 DEF Settled, RowInv
<1>5. CASE ~ok
  BY <1>1, <1>2, <1>3, <1>5 DEF Settled, RowInv
<1> QED
  BY <1>4, <1>5

\* A step that pays nothing, moves no period and begins no charge.
LEMMA PaidStays ==
    ASSUME PaidInv, UNCHANGED <<paid, anchors>>, sub'.period = sub.period,
           \A r \in Runners : Charging(r)' => Charging(r) /\ charge'[r].sub = charge[r].sub
    PROVE  PaidInv'
BY DEF PaidInv, RowFollowsPayments, PaidAround

\* Every step keeps the invariant.
LEMMA SubNextStep ==
    ASSUME SubInv, SubNext
    PROVE  SubInv'
<1> USE SubscriptionsAssumption
<1>1. /\ SubTypeOK /\ RowInv /\ LoadedInv /\ PaidInv
      /\ NoAccessWhenCancelled
  BY DEF SubInv
<1>2. NoCharge \in [pc : {"idle", "loaded", "transfer", "mismatch"}, sub : Subs,
                    attempt : {"none", "failed"}]
  BY DEF NoCharge, Fresh, Subs, Periods
<1>3. CASE FallsDue
  <2>1. SubTypeOK'
    BY <1>1, <1>3 DEF FallsDue, Charging, SubTypeOK, Subs
  <2>3. PaidInv'
    BY <1>1, <1>3, PaidStays DEF FallsDue, Charging, SubTypeOK, Subs
  <2>2. RowInv' /\ LoadedInv' /\ NoAccessWhenCancelled'
    BY <1>1, <1>3 DEF FallsDue, SubTypeOK, Subs, RowInv, LoadedInv, Charging,
       NoAccessWhenCancelled
  <2> QED BY <2>1, <2>2, <2>3 DEF SubInv
<1>4. CASE Cancel
  <2>1. SubTypeOK'
    BY <1>1, <1>4 DEF Cancel, Charging, SubTypeOK, Subs
  <2>3. PaidInv'
    BY <1>1, <1>4, PaidStays DEF Cancel, Charging, SubTypeOK, Subs
  <2>2. RowInv' /\ LoadedInv' /\ NoAccessWhenCancelled'
    BY <1>1, <1>4 DEF Cancel, SubTypeOK, Subs, RowInv, LoadedInv, Charging,
       NoAccessWhenCancelled
  <2> QED BY <2>1, <2>2, <2>3 DEF SubInv
<1>5. CASE ChangePlan
  BY <1>1, <1>5 DEF ChangePlan, SubInv, SubTypeOK, RowInv, LoadedInv, Charging,
     PaidInv, PaidAround, RowFollowsPayments, NoAccessWhenCancelled
<1>6. ASSUME NEW r \in Runners, Load(r)
      PROVE  SubInv'
  <2>1. SubTypeOK'
    <3>1. sub \in Subs /\ sub.period \in Periods
      BY <1>1 DEF SubTypeOK, Subs
    <3>2. planOk => attempts[sub.period] \in {"none", "failed"}
      BY <1>1, <1>6, <3>1 DEF Load, SubTypeOK
    <3>3. charge'[r] \in [pc : {"idle", "loaded", "transfer", "mismatch"}, sub : Subs,
                         attempt : {"none", "failed"}]
      BY <1>1, <1>6, <3>1, <3>2 DEF Load, SubTypeOK, NoCharge
    <3>4. charge' \in [Runners -> [pc : {"idle", "loaded", "transfer", "mismatch"}, sub : Subs,
                                  attempt : {"none", "failed"}]]
      BY <1>1, <1>6, <3>3 DEF Load, SubTypeOK
    <3> QED
      BY <1>1, <1>6, <3>4 DEF Load, SubTypeOK
  <2>2. /\ charge'[r].sub = sub /\ Chargeable(sub)
        /\ \A q \in Runners \ {r} : charge'[q] = charge[q]
        /\ UNCHANGED sub
    BY <1>1, <1>6 DEF Load, SubTypeOK, NoCharge, RowInv, Chargeable
  <2>3. LoadedInv'
    BY <1>1, <1>6, <2>2 DEF Load, LoadedInv, Charging, Chargeable
  <2>4. RowInv' /\ NoAccessWhenCancelled'
    BY <1>1, <1>6 DEF Load, RowInv, NoAccessWhenCancelled
  <2>5. PaidInv'
    <3>1. /\ sub.period \in Periods /\ sub.period = <<sub.period[1], sub.period[2]>>
          /\ sub.period[2] \in 1..MaxPeriods
      BY <1>1 DEF SubTypeOK, Subs, Periods
    <3>2. PaidAround(sub.period) /\ paid[sub.period] = 0 /\ sub.period[1] <= anchors
      <4>1. \A n \in 1..MaxPeriods :
               paid[<<sub.period[1], n>>] = IF n < sub.period[2] THEN 1 ELSE 0
        BY <1>1 DEF PaidInv, RowFollowsPayments
      <4>2. paid[<<sub.period[1], sub.period[2]>>] = 0
        BY <3>1, <4>1
      <4>3. paid[sub.period] = 0
        BY <3>1, <4>2, Zenon
      <4>4. PaidAround(sub.period)
        BY <3>1, <4>1 DEF PaidAround
      <4> QED
        BY <1>1, <4>3, <4>4 DEF PaidInv
    <3>3. UNCHANGED <<paid, anchors, sub>>
      BY <1>6 DEF Load
    <3>4. \A q \in Runners : Charging(q)' =>
              \/ charge'[q].sub = sub
              \/ Charging(q) /\ charge'[q].sub = charge[q].sub
      BY <2>2 DEF Charging
    <3>5. RowFollowsPayments' /\ (\A p \in Periods : p[1] > anchors' => paid'[p] = 0)
          /\ sub'.period[1] <= anchors'
      BY <1>1, <3>3 DEF PaidInv, RowFollowsPayments
    <3> QED
      BY <1>1, <3>2, <3>3, <3>4, <3>5 DEF PaidInv, PaidAround
  <2> QED BY <2>1, <2>3, <2>4, <2>5 DEF SubInv
<1>7. ASSUME NEW r \in Runners, CancelMismatch(r)
      PROVE  SubInv'
  <2>1. SubTypeOK'
    BY <1>1, <1>2, <1>7 DEF CancelMismatch, EndCharge, SubTypeOK, Subs
  <2>2. LoadedInv'
    BY <1>1, <1>7 DEF CancelMismatch, EndCharge, NoCharge, SubTypeOK, Subs, LoadedInv, Charging
  <2>4. PaidInv'
    BY <1>1, <1>7, PaidStays DEF CancelMismatch, EndCharge, NoCharge, Charging, SubTypeOK, Subs
  <2>3. RowInv' /\ NoAccessWhenCancelled'
    BY <1>1, <1>7 DEF CancelMismatch, SubTypeOK, Subs, RowInv,
       NoAccessWhenCancelled
  <2> QED BY <2>1, <2>2, <2>3, <2>4 DEF SubInv
<1>8. ASSUME NEW r \in Runners, EnsureAttempt(r)
      PROVE  SubInv'
  <2>1. SubTypeOK'
    BY <1>1, <1>2, <1>8 DEF EnsureAttempt, EndCharge, SubTypeOK
  <2>2. LoadedInv'
    BY <1>1, <1>8 DEF EnsureAttempt, EndCharge, NoCharge, SubTypeOK, LoadedInv, Charging
  <2>4. PaidInv'
    <3>1. \A q \in Runners : Charging(q)' => Charging(q) /\ charge'[q].sub = charge[q].sub
      <4> TAKE q \in Runners
      <4>1. CASE q # r
        BY <1>1, <1>8, <4>1 DEF EnsureAttempt, EndCharge, Charging, SubTypeOK
      <4>2. CASE q = r
        BY <1>1, <1>8, <4>2 DEF EnsureAttempt, EndCharge, NoCharge, Charging, SubTypeOK
      <4> QED BY <4>1, <4>2
    <3> QED
      BY <1>1, <1>8, <3>1, PaidStays DEF EnsureAttempt
  <2>3. RowInv' /\ NoAccessWhenCancelled'
    BY <1>1, <1>8 DEF EnsureAttempt, RowInv, NoAccessWhenCancelled
  <2> QED BY <2>1, <2>2, <2>3, <2>4 DEF SubInv
<1>9. ASSUME NEW r \in Runners, Rollback(r)
      PROVE  SubInv'
  <2>1. SubTypeOK'
    BY <1>1, <1>2, <1>9 DEF Rollback, EndCharge, SubTypeOK
  <2>2. LoadedInv'
    BY <1>1, <1>9 DEF Rollback, EndCharge, NoCharge, SubTypeOK, LoadedInv, Charging
  <2>4. PaidInv'
    BY <1>1, <1>9, PaidStays DEF Rollback, EndCharge, NoCharge, Charging, SubTypeOK, Subs
  <2>3. RowInv' /\ NoAccessWhenCancelled'
    BY <1>1, <1>9 DEF Rollback, RowInv, NoAccessWhenCancelled
  <2> QED BY <2>1, <2>2, <2>3, <2>4 DEF SubInv
<1>10. ASSUME NEW r \in Runners, NEW ok \in BOOLEAN, Settle(r, ok)
       PROVE  SubInv'
  <2> DEFINE old == charge[r].sub
             p == old.period
  <2>1. /\ old \in Subs /\ Chargeable(old) /\ p \in Periods
        /\ sub.failed \in {0, old.failed, old.failed + 1}
    BY <1>1, <1>10 DEF Settle, SubTypeOK, LoadedInv, Charging, Subs
  <2>2. /\ sub' \in Subs /\ ~sub'.due
        /\ sub'.failed \in {0, old.failed, old.failed + 1}
        /\ sub'.status # "cancelled" => sub'.failed < MaxFailed
        /\ sub'.status = "past_due" => MaxFailed > 1
        /\ sub'.status = "cancelled" =>
              sub.status = "cancelled" \/ (~ok /\ old.failed + 1 >= MaxFailed)
        /\ sub'.period = IF ok THEN <<p[1], p[2] + 1>> ELSE sub.period
    BY <1>1, <1>10, <2>1, SettledFacts DEF Settle, SubTypeOK
  <2>3. /\ paid' = [paid EXCEPT ![p] = Transferred(p, ok)]
        /\ attempts' = [attempts EXCEPT ![p] = IF ok THEN "succeeded" ELSE "failed"]
        /\ paid[p] > 0 => ok
        /\ paid[p] \in 0..1 /\ PaidAround(p) /\ p[1] <= anchors
    BY <1>1, <1>10, <2>1 DEF Settle, SubTypeOK, PaidInv, Charging
  <2>4. /\ paid' \in [Periods -> Nat]
        /\ \A c \in Periods : c # p => paid'[c] = paid[c]
        /\ ok => paid'[p] = 1
        /\ ~ok => paid'[p] = paid[p]
    BY <1>1, <2>1, <2>3 DEF Transferred, SubTypeOK
  <2>5. \A c \in Periods : (attempts'[c] = "succeeded") = (paid'[c] > 0)
    BY <1>1, <2>1, <2>3 DEF Transferred, SubTypeOK
  <2>6. SubTypeOK'
    <3>1. /\ attempts' \in [Periods -> {"none", "pending", "failed", "succeeded"}]
          /\ charge' \in [Runners -> [pc : {"idle", "loaded", "transfer", "mismatch"}, sub : Subs,
                                      attempt : {"none", "failed"}]]
      BY <1>1, <1>2, <1>10, <2>1, <2>3 DEF Settle, EndCharge, SubTypeOK
    <3>2. member' \in BOOLEAN
      BY <1>1, <1>10 DEF Settle, SubTypeOK
    <3> QED
      BY <1>1, <1>10, <2>2, <2>4, <2>5, <3>1, <3>2 DEF Settle, SubTypeOK
  <2>7. RowInv'
    BY <2>2 DEF RowInv
  <2>8. LoadedInv'
    BY <1>1, <1>10, <2>2 DEF Settle, EndCharge, NoCharge, SubTypeOK, LoadedInv, Charging
  <2>9. PaidInv'
    <3>1. /\ p = <<p[1], p[2]>> /\ p[1] \in 1..MaxAnchors /\ p[2] \in 1..MaxPeriods
          /\ sub.period \in Periods /\ anchors' = anchors /\ anchors \in 1..MaxAnchors
      BY <1>1, <1>10, <2>1 DEF Settle, SubTypeOK, Subs, Periods
    <3>2. /\ \A n \in 1..MaxPeriods : n < p[2] => paid'[<<p[1], n>>] = 1
          /\ \A n \in 1..MaxPeriods : n > p[2] => paid'[<<p[1], n>>] = 0
          /\ paid'[p] \in 0..1
      <4> HIDE DEF p
      <4>1. \A n \in 1..MaxPeriods : n # p[2] =>
               paid'[<<p[1], n>>] = paid[<<p[1], n>>]
        BY <2>4, <3>1 DEF Periods
      <4> QED
        BY <2>3, <2>4, <3>1, <4>1 DEF PaidAround
    <3>3. \A q \in Runners : Charging(q)' => charge'[q].sub = old
      BY <1>1, <1>10 DEF Settle, EndCharge, NoCharge, SubTypeOK, LoadedInv, Charging
    <3>4. RowFollowsPayments' /\ sub'.period[1] <= anchors
      <4>1. CASE ok
        <5>1. sub'.period[1] = p[1] /\ sub'.period[2] = p[2] + 1 /\ paid'[<<p[1], p[2]>>] = 1
          BY <2>2, <2>4, <3>1, <4>1
        <5>2. \A n \in 1..MaxPeriods :
                 paid'[<<p[1], n>>] = IF n < p[2] + 1 THEN 1 ELSE 0
          <6> TAKE n \in 1..MaxPeriods
          <6>1. CASE n < p[2]
            BY <3>1, <3>2, <6>1
          <6>2. CASE n = p[2]
            BY <3>1, <5>1, <6>2
          <6>3. CASE n > p[2]
            BY <3>1, <3>2, <6>3
          <6> QED BY <3>1, <6>1, <6>2, <6>3
        <5> QED
          BY <2>3, <5>1, <5>2 DEF RowFollowsPayments
      <4>2. CASE ~ok
        <5>1. paid' = paid
          BY <1>1, <2>1, <2>3, <4>2 DEF Transferred, SubTypeOK
        <5> QED
          BY <1>1, <2>2, <4>2, <5>1 DEF PaidInv, RowFollowsPayments
      <4> QED BY <4>1, <4>2
    <3>5. \A c \in Periods : c[1] > anchors => paid'[c] = 0
      BY <1>1, <2>3, <2>4, <3>1 DEF PaidInv, Periods
    <3> QED
      BY <2>3, <3>1, <3>2, <3>3, <3>4, <3>5 DEF PaidInv, PaidAround
  <2>10. NoAccessWhenCancelled'
    BY <1>1, <1>10, <2>1, <2>2 DEF Settle, NoAccessWhenCancelled, Subs
  <2> QED
    BY <2>6, <2>7, <2>8, <2>9, <2>10 DEF SubInv
<1>11. ASSUME NEW c \in Clients, Resubscribe(c) \/ ReactivateFails(c)
       PROVE  SubInv'
  BY <1>1, <1>11 DEF Resubscribe, ReactivateFails, SubInv, SubTypeOK, RowInv, LoadedInv, Charging,
     PaidInv, PaidAround, RowFollowsPayments, NoAccessWhenCancelled
<1>12. ASSUME NEW c \in Clients, Reactivate(c)
       PROVE  SubInv'
  <2>1. sub' \in Subs /\ anchors' \in 1..MaxAnchors
    BY <1>1, <1>12 DEF Reactivate, SubTypeOK, Fresh, Subs, Periods
  <2>2. SubTypeOK'
    BY <1>1, <1>12, <2>1 DEF Reactivate, SubTypeOK
  <2>5. PaidInv'
    <3>1. /\ UNCHANGED <<paid, charge>> /\ sub'.period = <<anchors + 1, 1>>
          /\ anchors' = anchors + 1 /\ anchors \in 1..MaxAnchors /\ anchors < MaxAnchors
      BY <1>1, <1>12 DEF Reactivate, Fresh, SubTypeOK
    <3>2. RowFollowsPayments'
      BY <1>1, <3>1 DEF RowFollowsPayments, PaidInv, Periods
    <3>3. \A r \in Runners : charge[r].sub.period[1] \in Nat
      BY <1>1 DEF SubTypeOK, Subs, Periods
    <3> QED
      BY <1>1, <3>1, <3>2, <3>3 DEF PaidInv, PaidAround, Charging, Periods
  <2>3. RowInv' /\ NoAccessWhenCancelled'
    BY <1>1, <1>12 DEF Reactivate, Fresh, RowInv, NoAccessWhenCancelled
  <2>4. LoadedInv'
    BY <1>1, <1>12 DEF Reactivate, Fresh, LoadedInv, Charging
  <2> QED BY <2>2, <2>3, <2>4, <2>5 DEF SubInv
<1> QED
  BY <1>3, <1>4, <1>5, <1>6, <1>7, <1>8, <1>9, <1>10, <1>11, <1>12 DEF SubNext

LEMMA SubInvariance == SubSpec => []SubInv
<1>1. SubInv /\ UNCHANGED subVars => SubInv'
  BY DEF subVars, SubInv, SubTypeOK, RowInv, LoadedInv, Charging,
     PaidInv, PaidAround, RowFollowsPayments, NoAccessWhenCancelled
<1>2. SubInv /\ [SubNext]_subVars => SubInv'
  BY <1>1, SubNextStep
<1> QED
  BY SubInitInv, <1>2, PTL DEF SubSpec

-----------------------------------------------------------------------------
(* Theorems *)

\* The row stays within its types: no interleaving of charges, cancellations
\* and resubscriptions takes the failures of a subscription past the maximum,
\* and an attempt is recorded as succeeded exactly when its cycle was paid.
THEOREM SubTypeCorrect == SubSpec => []SubTypeOK
BY SubInvariance, PTL DEF SubInv

\* The row moves exactly with the payments, for any number of overlapping
\* charges on rows loaded before others committed: no period is given away, no
\* cycle paid twice, and none paid and not given (_charge_subscription).
THEOREM PaidAsGiven == SubSpec => []RowFollowsPayments
BY SubInvariance, PTL DEF SubInv, PaidInv

\* A cancelled subscription gives no access, though charges in flight write
\* rows they loaded before it was cancelled (_revoke_subscription_room_access).
THEOREM CancelledIsOut == SubSpec => []NoAccessWhenCancelled
BY SubInvariance, PTL DEF SubInv
=============================================================================
