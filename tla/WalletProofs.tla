---------------------------- MODULE WalletProofs ----------------------------
(***************************************************************************)
(* Proofs about the wallets: every coin is accounted for, an idempotency   *)
(* key moves money once, and a circle of waiting sessions needs a billing  *)
(* batch, for any owners, requests, batches and sessions.                  *)
(***************************************************************************)
EXTENDS Wallet, FiniteSetTheorems, WellFoundedInduction, TLAPS

-----------------------------------------------------------------------------
(* Sums over finite sets *)

\* MapThenSumSet takes the members of its set in the order CHOOSE picks them.
\* SumFun is the recursive function it unfolds to.
Some(s) == CHOOSE x \in s : TRUE
SumStep(g, S) ==
    [s \in SUBSET S |-> IF s = {} THEN 0 ELSE Amount[Some(s)] + g[s \ {Some(s)}]]
SumFun(S) == CHOOSE g : g = SumStep(g, S)

\* The sum of MapThenSumSet is the value of that function.
LEMMA SumIsFun ==
    ASSUME NEW S
    PROVE  Sum(S) = SumFun(S)[S]
BY Zenon DEF Sum, MapThenSumSet, MapThenFoldSet, SumStep, SumFun, Some

\* Induction over finite sets: a set of subsets of S has a minimal member.
LEMMA Minimal ==
    ASSUME NEW S, IsFiniteSet(S), NEW T \in SUBSET (SUBSET S), T # {}
    PROVE  \E x \in T : \A y \in T : ~(y \subseteq x /\ y # x)
<1>1. IsWellFoundedOn(StrictSubsetOrdering(S), SUBSET S)
  BY FS_StrictSubsetOrderingWellFounded, FS_FiniteSubsetsOfFinite
<1>2. \E x \in T : \A y \in T : ~ (<<y, x>> \in StrictSubsetOrdering(S))
  BY <1>1, WFMin
<1> QED BY <1>2 DEF StrictSubsetOrdering

\* The member picked is a member.
LEMMA SomeIn == ASSUME NEW s, s # {} PROVE Some(s) \in s
BY DEF Some

\* Two such functions agree where both are defined.
LEMMA SumFunUnique ==
    ASSUME NEW S, IsFiniteSet(S), NEW R \in SUBSET S,
           NEW g, g = SumStep(g, S), NEW h, h = SumStep(h, R)
    PROVE  \A s \in SUBSET R : g[s] = h[s]
<1> DEFINE Bad == {s \in SUBSET R : g[s] # h[s]}
<1> SUFFICES ASSUME Bad # {} PROVE FALSE
  OBVIOUS
<1>0. Bad \in SUBSET (SUBSET S)
  OBVIOUS
<1>1. PICK s \in Bad : \A y \in Bad : ~(y \subseteq s /\ y # s)
  <2> HIDE DEF Bad
  <2> QED BY <1>0, Minimal
<1>2. g[s] = IF s = {} THEN 0 ELSE Amount[Some(s)] + g[s \ {Some(s)}]
  <2>1. s \in SUBSET S
    OBVIOUS
  <2>2. SumStep(g, S)[s] = IF s = {} THEN 0 ELSE Amount[Some(s)] + g[s \ {Some(s)}]
    BY <2>1 DEF SumStep
  <2> QED BY <2>2
<1>3. h[s] = IF s = {} THEN 0 ELSE Amount[Some(s)] + h[s \ {Some(s)}]
  <2>1. s \in SUBSET R
    OBVIOUS
  <2>2. SumStep(h, R)[s] = IF s = {} THEN 0 ELSE Amount[Some(s)] + h[s \ {Some(s)}]
    BY <2>1 DEF SumStep
  <2> QED BY <2>2
<1>4. s # {} => g[s \ {Some(s)}] = h[s \ {Some(s)}]
  BY <1>1, SomeIn
<1> QED BY <1>1, <1>2, <1>3, <1>4

\* For a finite set the function exists.
LEMMA SumFunExists ==
    ASSUME NEW S, IsFiniteSet(S)
    PROVE  \A R \in SUBSET S : SumFun(R) = SumStep(SumFun(R), R)
<1> DEFINE Bad == {R \in SUBSET S : ~ \E g : g = SumStep(g, R)}
<1>1. Bad = {}
  <2> SUFFICES ASSUME Bad # {} PROVE FALSE
    OBVIOUS
  <2>0. Bad \in SUBSET (SUBSET S)
    OBVIOUS
  <2>1. PICK T \in Bad : \A y \in Bad : ~(y \subseteq T /\ y # T)
    <3> HIDE DEF Bad
    <3> QED BY <2>0, Minimal
  <2>2. \A V \in SUBSET T : V # T => SumFun(V) = SumStep(SumFun(V), V)
    BY <2>1 DEF SumFun
  <2> DEFINE G == [s \in SUBSET T |->
                     IF s = {} THEN 0
                     ELSE Amount[Some(s)] + SumFun(s \ {Some(s)})[s \ {Some(s)}]]
  <2>3. \A V \in SUBSET T : V # T => G[V] = SumFun(V)[V]
    <3> SUFFICES ASSUME NEW V \in SUBSET T, V # T PROVE G[V] = SumFun(V)[V]
      OBVIOUS
    <3>1. SumFun(V) = SumStep(SumFun(V), V)
      BY <2>2
    <3>2. SumFun(V)[V] = IF V = {} THEN 0 ELSE Amount[Some(V)] + SumFun(V)[V \ {Some(V)}]
      <4> DEFINE f == SumFun(V)
      <4>1. f = SumStep(f, V)
        BY <3>1
      <4> HIDE DEF f
      <4>2. f[V] = IF V = {} THEN 0 ELSE Amount[Some(V)] + f[V \ {Some(V)}]
        BY <4>1 DEF SumStep
      <4> QED BY <4>2 DEF f
    <3>3. CASE V = {}
      BY <3>2, <3>3
    <3>4. CASE V # {}
      <4> DEFINE R == V \ {Some(V)}
      <4>1. R \in SUBSET V /\ R # T /\ R \in SUBSET T
        BY <3>4, SomeIn
      <4>2. SumFun(R) = SumStep(SumFun(R), R)
        BY <4>1, <2>2
      <4>3. IsFiniteSet(V)
        BY FS_Subset
      <4> HIDE DEF R
      <4>4. SumFun(V)[R] = SumFun(R)[R]
        BY <4>1, <4>2, <4>3, <3>1, SumFunUnique
      <4> QED BY <3>2, <3>4, <4>4 DEF R
    <3> QED BY <3>3, <3>4
  <2>4. G = SumStep(G, T)
    <3>1. \A s \in SUBSET T : s # {} => s \ {Some(s)} \in SUBSET T /\ s \ {Some(s)} # T
      BY SomeIn
    <3>2. \A s \in SUBSET T : s # {} => G[s \ {Some(s)}] = SumFun(s \ {Some(s)})[s \ {Some(s)}]
      BY <3>1, <2>3
    <3> HIDE DEF G
    <3>3. \A s \in SUBSET T : (IF s = {} THEN 0 ELSE Amount[Some(s)] + SumFun(s \ {Some(s)})[s \ {Some(s)}])
                             = (IF s = {} THEN 0 ELSE Amount[Some(s)] + G[s \ {Some(s)}])
      BY <3>2
    <3> QED BY <3>3 DEF SumStep, G
  <2> QED BY <2>4, <2>1
<1> QED BY <1>1 DEF SumFun

\* The recursive equation of the sum.
LEMMA SumUnfold ==
    ASSUME NEW S, IsFiniteSet(S)
    PROVE  Sum(S) = IF S = {} THEN 0 ELSE Amount[Some(S)] + Sum(S \ {Some(S)})
<1> DEFINE f == SumFun(S)
           R == S \ {Some(S)}
           h == SumFun(R)
<1>1. f = SumStep(f, S) /\ h = SumStep(h, R)
  BY SumFunExists
<1>2. Sum(S) = f[S] /\ Sum(R) = h[R]
  BY SumIsFun
<1> HIDE DEF f, h
<1>3. f[S] = IF S = {} THEN 0 ELSE Amount[Some(S)] + f[R]
  BY <1>1 DEF SumStep
<1>4. R \in SUBSET S
  OBVIOUS
<1> HIDE DEF R
<1>5. f[R] = h[R]
  BY <1>1, <1>4, SumFunUnique
<1> QED BY <1>2, <1>3, <1>5 DEF R

\* A finite sum of naturals is a natural.
LEMMA SumNat ==
    ASSUME NEW S, IsFiniteSet(S), \A x \in S : Amount[x] \in Nat
    PROVE  Sum(S) \in Nat
<1> DEFINE Bad == {s \in SUBSET S : Sum(s) \notin Nat}
<1> SUFFICES ASSUME Bad # {} PROVE FALSE
  OBVIOUS
<1>0. Bad \in SUBSET (SUBSET S)
  OBVIOUS
<1>1. PICK s \in Bad : \A y \in Bad : ~(y \subseteq s /\ y # s)
  <2> HIDE DEF Bad
  <2> QED BY <1>0, Minimal
<1>2. IsFiniteSet(s)
  BY FS_Subset
<1>3. Sum(s) = IF s = {} THEN 0 ELSE Amount[Some(s)] + Sum(s \ {Some(s)})
  BY <1>2, SumUnfold
<1>4. s # {} => Sum(s \ {Some(s)}) \in Nat /\ Amount[Some(s)] \in Nat
  BY <1>1, SomeIn
<1> QED BY <1>1, <1>3, <1>4

\* Any member can be taken out of the sum, not only the one CHOOSE picks.
LEMMA SumRemove ==
    ASSUME NEW S, IsFiniteSet(S), \A x \in S : Amount[x] \in Nat, NEW w \in S
    PROVE  Sum(S) = Amount[w] + Sum(S \ {w})
<1> DEFINE Bad == {s \in SUBSET S : \E x \in s : Sum(s) # Amount[x] + Sum(s \ {x})}
<1> SUFFICES ASSUME Bad # {} PROVE FALSE
  OBVIOUS
<1>0. Bad \in SUBSET (SUBSET S)
  OBVIOUS
<1>1. PICK s \in Bad : \A y \in Bad : ~(y \subseteq s /\ y # s)
  <2> HIDE DEF Bad
  <2> QED BY <1>0, Minimal
<1>2. PICK x \in s : Sum(s) # Amount[x] + Sum(s \ {x})
  BY <1>1
<1> DEFINE y == Some(s)
<1>3. y \in s
  BY <1>2, SomeIn
<1>f. \A r \in SUBSET S : IsFiniteSet(r) /\ Sum(r) \in Nat
  <2> SUFFICES ASSUME NEW r \in SUBSET S PROVE IsFiniteSet(r) /\ Sum(r) \in Nat
    OBVIOUS
  <2>1. IsFiniteSet(r)
    BY FS_Subset
  <2> QED BY <2>1, SumNat
<1>4. Sum(s) = Amount[y] + Sum(s \ {y})
  BY <1>f, <1>2, SumUnfold
<1> HIDE DEF y
<1>5. y # x
  BY <1>2, <1>4
<1>m. \A r \in SUBSET s : r # s => \A z \in r : Sum(r) = Amount[z] + Sum(r \ {z})
  BY <1>1
<1>6. Sum(s \ {y}) = Amount[x] + Sum((s \ {y}) \ {x})
  <2>1. s \ {y} \in SUBSET s /\ s \ {y} # s /\ x \in s \ {y}
    BY <1>2, <1>3, <1>5
  <2> QED BY <2>1, <1>m
<1>7. Sum(s \ {x}) = Amount[y] + Sum((s \ {x}) \ {y})
  <2>1. s \ {x} \in SUBSET s /\ s \ {x} # s /\ y \in s \ {x}
    BY <1>2, <1>3, <1>5
  <2> QED BY <2>1, <1>m
<1>8. (s \ {y}) \ {x} = (s \ {x}) \ {y}
  OBVIOUS
<1>9. Sum((s \ {y}) \ {x}) \in Nat
  BY <1>f
<1>10. Amount[x] \in Nat /\ Amount[y] \in Nat
  BY <1>3
<1>11. Sum((s \ {y}) \ {x}) = Sum((s \ {x}) \ {y})
  BY <1>8
<1> HIDE DEF Bad
<1> QED BY <1>2, <1>4, <1>6, <1>7, <1>9, <1>10, <1>11

-----------------------------------------------------------------------------
(* The inductive invariant *)

Open == {"pending", "approved"}
OpenOf(o) == {w \in Withdrawals : OwnerOf[w] = o /\ wd[w] \in Open}

TopupOps == {"fulfill", "complete_topup"}
WithdrawalOps == {"reject", "cancel", "complete_withdrawal"}

SessionRecords ==
    [op : {"idle"} \cup MoveOps \cup RowOps, todo : Seq(Transfers),
     done : SUBSET Transfers, kept : SUBSET Owners, item : Rows \cup {None},
     status : {"unread"} \cup TopupStates \cup WithdrawalStates]

MoneyType ==
    /\ avail \in [Owners -> Nat] /\ locked \in [Owners -> Nat]
    /\ ledger \in [Owners -> Int]
    /\ applied \in [Keys -> Nat]
    /\ topup \in [Topups -> TopupStates]
    /\ credited \in [Topups -> Nat]
    /\ wd \in [Withdrawals -> WithdrawalStates]

SessType ==
    /\ holder \in [Owners \cup Rows -> Sessions \cup {None}]
    /\ sess \in [Sessions -> SessionRecords]
    /\ delta \in [Sessions -> [Owners -> Int]]

\* A session without an operation has no lock.
IdleHoldsNothing(s) ==
    sess[s].op = "idle" => /\ sess[s] = Idle
                           /\ \A l \in Owners \cup Rows : holder[l] # s

\* The uncommitted transfers of a session are on wallets it has locked, and
\* their keys are not used: nobody else can commit them meanwhile.
UncommittedIsLocked(s) ==
    /\ \A o \in sess[s].kept : holder[o] = s
    /\ \A x \in sess[s].done : /\ From[x] \in sess[s].kept /\ To[x] \in sess[s].kept
                               /\ applied[x] = 0
    /\ \A o \in Owners : delta[s][o] # 0 => o \in sess[s].kept

\* No balance is below zero when the session commits.
Covered(s) == \A o \in Owners : avail[o] + delta[s][o] >= 0

\* What a session knows of its topup or withdrawal.  A withdrawal is read
\* under its lock, so what the session has read is what the row says.
RowKnown(s) ==
    /\ sess[s].op \in TopupOps => sess[s].item \in Topups
    /\ sess[s].op \in WithdrawalOps =>
        /\ sess[s].item \in Withdrawals
        /\ wd[sess[s].item] # "none"
        /\ holder[sess[s].item] # s => sess[s].status = "unread"
        /\ holder[sess[s].item] = s => sess[s].status = wd[sess[s].item]
    /\ sess[s].op \in RowOps =>
        /\ sess[s].kept = {}
        /\ \A l \in Owners \cup Rows :
            holder[l] = s => l = sess[s].item \/ l = OwnerOf[sess[s].item]
        /\ holder[OwnerOf[sess[s].item]] = s =>
            /\ holder[sess[s].item] = s
            /\ sess[s].status = Demands(sess[s].op)

\* A single transfer takes the locks of its two wallets in the order of ids.
InOrder(s) ==
    sess[s].op = "transfer" =>
        /\ sess[s].todo = <<>> \/ Tail(sess[s].todo) = <<>>
        /\ sess[s].todo # <<>> =>
            LET p == Sorted(Head(sess[s].todo)) IN
            /\ \A l \in Owners \cup Rows : holder[l] = s => l = p[1] \/ l = p[2]
            /\ holder[p[2]] = s => holder[p[1]] = s

SessionInv(s) ==
    /\ IdleHoldsNothing(s)
    /\ UncommittedIsLocked(s)
    /\ Covered(s)
    /\ RowKnown(s)
    /\ InOrder(s)

WInv ==
    /\ MoneyType
    /\ SessType
    /\ \A s \in Sessions : SessionInv(s)
    /\ LedgerExplainsBalance
    /\ LockedCoversWithdrawals
    /\ TransferredOnce

-----------------------------------------------------------------------------
(* What the steps of a session rest on *)

\* A session that has the locks of a transfer has those of both wallets.
LEMMA LockedMove ==
    ASSUME SessType, NEW s \in Sessions, sess[s].op \in MoveOps, Locked(s)
    PROVE  /\ sess[s].todo # <<>>
           /\ Head(sess[s].todo) \in Transfers
           /\ From[Head(sess[s].todo)] \in Owners /\ To[Head(sess[s].todo)] \in Owners
           /\ From[Head(sess[s].todo)] # To[Head(sess[s].todo)]
           /\ Amount[Head(sess[s].todo)] \in Nat
           /\ holder[From[Head(sess[s].todo)]] = s
           /\ holder[To[Head(sess[s].todo)]] = s
<1>1. sess[s].todo # <<>>
  BY DEF Locked, Plan
<1>2. sess[s].todo \in Seq(Transfers)
  BY DEF SessType, SessionRecords
<1>3. Head(sess[s].todo) \in Transfers
  BY <1>1, <1>2
<1> DEFINE x == Head(sess[s].todo)
<1>4. Plan(s) = Sorted(x)
  BY <1>1 DEF Plan
<1>5. From[x] \in Owners /\ To[x] \in Owners /\ From[x] # To[x] /\ Amount[x] \in Nat
  BY <1>3, WalletAssumption DEF Keys
<1> HIDE DEF x
<1>6. holder[Sorted(x)[1]] = s /\ holder[Sorted(x)[2]] = s
  <2>1. Sorted(x)[1] # None /\ Sorted(x)[2] # None
    BY <1>5, WalletAssumption DEF Sorted
  <2>2. Sorted(x) # <<>>
    BY DEF Sorted
  <2> QED BY <1>4, <2>1, <2>2 DEF Locked, Want
<1>7. holder[From[x]] = s /\ holder[To[x]] = s
  BY <1>6 DEF Sorted
<1> QED BY <1>1, <1>3, <1>5, <1>7 DEF x

\* A session that has the locks of a topup or withdrawal has that of the row
\* and that of the wallet.
LEMMA LockedRow ==
    ASSUME SessType, NEW s \in Sessions, RowKnown(s), sess[s].op \in RowOps, Locked(s)
    PROVE  /\ sess[s].item \in Rows
           /\ OwnerOf[sess[s].item] \in Owners
           /\ Amount[sess[s].item] \in Nat
           /\ holder[sess[s].item] = s
           /\ holder[OwnerOf[sess[s].item]] = s
<1> DEFINE i == sess[s].item
<1>1. i \in Rows
  BY DEF RowKnown, RowOps, TopupOps, WithdrawalOps, Rows
<1>2. OwnerOf[i] \in Owners /\ Amount[i] \in Nat
  BY <1>1, WalletAssumption
<1>3. Plan(s) = <<i, OwnerOf[i]>>
  BY DEF Plan, RowOps, MoveOps
<1> HIDE DEF i
<1>4. i # None /\ OwnerOf[i] # None
  BY <1>1, <1>2, WalletAssumption
<1>5. holder[i] = s /\ holder[OwnerOf[i]] = s
  BY <1>3, <1>4 DEF Locked, Want
<1> QED BY <1>1, <1>2, <1>5 DEF i

\* The invariant of a session that does not move lasts while nobody takes its
\* locks, its balances, its keys and its withdrawal from it.
LEMMA Undisturbed ==
    ASSUME SessType, NEW q \in Sessions, SessionInv(q),
           sess'[q] = sess[q], delta'[q] = delta[q],
           \A l \in Owners \cup Rows : holder'[l] = q <=> holder[l] = q,
           Covered(q)',
           \A x \in sess[q].done : applied'[x] = 0,
           sess[q].op \in WithdrawalOps =>
             /\ wd'[sess[q].item] # "none"
             /\ holder[sess[q].item] = q => wd'[sess[q].item] = wd[sess[q].item]
    PROVE  SessionInv(q)'
<1>0. sess[q].kept \subseteq Owners /\ sess[q].todo \in Seq(Transfers)
  BY DEF SessType, SessionRecords
<1>1. IdleHoldsNothing(q)'
  BY DEF SessionInv, IdleHoldsNothing, Idle
<1>2. UncommittedIsLocked(q)'
  BY <1>0 DEF SessionInv, UncommittedIsLocked
<1>3. RowKnown(q)'
  <2>1. sess[q].op \in RowOps => sess[q].item \in Rows /\ OwnerOf[sess[q].item] \in Owners
    BY WalletAssumption DEF SessionInv, RowKnown, Rows, RowOps, TopupOps, WithdrawalOps
  <2>2. sess[q].op \in WithdrawalOps => sess[q].op \in RowOps
    BY DEF RowOps, WithdrawalOps
  <2> QED BY <2>1, <2>2 DEF SessionInv, RowKnown
<1>4. InOrder(q)'
  <2>1. sess[q].todo # <<>> => /\ Sorted(Head(sess[q].todo))[1] \in Owners
                               /\ Sorted(Head(sess[q].todo))[2] \in Owners
    BY <1>0, WalletAssumption DEF Sorted
  <2> QED BY <2>1 DEF SessionInv, InOrder
<1> QED BY <1>1, <1>2, <1>3, <1>4 DEF SessionInv

\* The end of a transaction: the session is idle, the others keep their locks.
LEMMA EndEffect ==
    ASSUME SessType, NEW s \in Sessions, End(s)
    PROVE  /\ SessType'
           /\ \A l \in Owners \cup Rows : holder'[l] # s
           /\ sess'[s] = Idle /\ delta'[s] = NoDelta
           /\ \A q \in Sessions \ {s} :
               /\ sess'[q] = sess[q] /\ delta'[q] = delta[q]
               /\ \A l \in Owners \cup Rows : holder'[l] = q <=> holder[l] = q
<1>1. Idle \in SessionRecords
  BY DEF Idle, SessionRecords
<1>2. NoDelta \in [Owners -> Int]
  BY DEF NoDelta
<1>3. s # None /\ None \notin Sessions
  BY WalletAssumption
<1>4. holder' \in [Owners \cup Rows -> Sessions \cup {None}]
  BY DEF End, Released, SessType
<1>5. sess' \in [Sessions -> SessionRecords] /\ sess'[s] = Idle
      /\ \A q \in Sessions \ {s} : sess'[q] = sess[q]
  <2> HIDE DEF Idle, SessionRecords
  <2> QED BY <1>1 DEF End, SessType
<1>6. delta' \in [Sessions -> [Owners -> Int]] /\ delta'[s] = NoDelta
      /\ \A q \in Sessions \ {s} : delta'[q] = delta[q]
  <2> HIDE DEF NoDelta
  <2> QED BY <1>2 DEF End, SessType
<1>7. \A l \in Owners \cup Rows : holder'[l] # s
  BY <1>3 DEF End, Released, SessType
<1>8. \A q \in Sessions \ {s} : \A l \in Owners \cup Rows : holder'[l] = q <=> holder[l] = q
  BY <1>3 DEF End, Released, SessType
<1> QED BY <1>4, <1>5, <1>6, <1>7, <1>8 DEF SessType

\* An idle session without locks satisfies the invariant.
LEMMA IdleSession ==
    ASSUME NEW s \in Sessions, MoneyType', sess'[s] = Idle, delta'[s] = NoDelta,
           \A l \in Owners \cup Rows : holder'[l] # s
    PROVE  SessionInv(s)'
<1>1. sess'[s].op = "idle" /\ sess'[s].kept = {} /\ sess'[s].done = {}
  BY DEF Idle
<1>2. \A o \in Owners : delta'[s][o] = 0
  BY DEF NoDelta
<1>3. IdleHoldsNothing(s)'
  BY DEF IdleHoldsNothing, Idle
<1>4. UncommittedIsLocked(s)'
  BY <1>1, <1>2 DEF UncommittedIsLocked
<1>5. Covered(s)'
  BY <1>2 DEF Covered, MoneyType
<1>6. RowKnown(s)' /\ InOrder(s)'
  BY <1>1 DEF RowKnown, InOrder, TopupOps, WithdrawalOps, RowOps
<1> QED BY <1>3, <1>4, <1>5, <1>6 DEF SessionInv

-----------------------------------------------------------------------------
(* Locked balances *)

\* LockedCoversWithdrawals in terms of Sum.
LEMMA CoversIsSum ==
    /\ LockedCoversWithdrawals <=> \A o \in Owners : locked[o] = Sum(OpenOf(o))
    /\ LockedCoversWithdrawals' <=> \A o \in Owners : locked'[o] = Sum(OpenOf(o)')
BY Zenon DEF LockedCoversWithdrawals, OpenOf, Open

\* The open withdrawals of an owner are finitely many, with natural amounts.
LEMMA OpenFinite ==
    ASSUME NEW S \in SUBSET Withdrawals
    PROVE  /\ IsFiniteSet(S) /\ Sum(S) \in Nat
           /\ \A w \in S : /\ Amount[w] \in Nat
                           /\ Sum(S) = Amount[w] + Sum(S \ {w})
<1>1. IsFiniteSet(S)
  BY WalletAssumption, FS_Subset
<1>2. \A w \in S : Amount[w] \in Nat
  BY WalletAssumption DEF Rows
<1> QED BY <1>1, <1>2, SumNat, SumRemove

\* A withdrawal is opened: its amount is locked.
LEMMA OpenOne ==
    ASSUME MoneyType, LockedCoversWithdrawals, NEW w \in Withdrawals,
           wd[w] \notin Open, wd' = [wd EXCEPT ![w] = "pending"],
           locked' = [locked EXCEPT ![OwnerOf[w]] = @ + Amount[w]]
    PROVE  LockedCoversWithdrawals'
<1> SUFFICES ASSUME NEW o \in Owners PROVE locked'[o] = Sum(OpenOf(o)')
  BY CoversIsSum
<1>1. locked[o] = Sum(OpenOf(o))
  BY CoversIsSum
<1>2. CASE OwnerOf[w] = o
  <2>1. w \in OpenOf(o)' /\ OpenOf(o)' \ {w} = OpenOf(o) /\ OpenOf(o)' \in SUBSET Withdrawals
    BY <1>2 DEF OpenOf, Open, MoneyType
  <2>2. Amount[w] \in Nat /\ Sum(OpenOf(o)') = Amount[w] + Sum(OpenOf(o)' \ {w})
    BY <2>1, OpenFinite
  <2>3. Sum(OpenOf(o)' \ {w}) = locked[o]
    BY <2>1, <1>1
  <2>4. locked'[o] = locked[o] + Amount[w] /\ locked[o] \in Nat
    BY <1>2 DEF MoneyType
  <2> QED BY <2>2, <2>3, <2>4
<1>3. CASE OwnerOf[w] # o
  <2>1. OpenOf(o)' = OpenOf(o)
    BY <1>3 DEF OpenOf, Open, MoneyType
  <2>2. locked'[o] = locked[o]
    BY <1>3 DEF MoneyType
  <2> QED BY <2>1, <2>2, <1>1
<1> QED BY <1>2, <1>3

\* An open withdrawal ends: its amount was locked, and is unlocked.
LEMMA CloseOne ==
    ASSUME MoneyType, LockedCoversWithdrawals, NEW w \in Withdrawals,
           wd[w] \in Open, NEW out \in WithdrawalStates \ Open,
           wd' = [wd EXCEPT ![w] = out],
           locked' = [locked EXCEPT ![OwnerOf[w]] = @ - Amount[w]]
    PROVE  /\ LockedCoversWithdrawals'
           /\ locked[OwnerOf[w]] - Amount[w] \in Nat
<1>0. OwnerOf[w] \in Owners
  BY WalletAssumption DEF Rows
<1>1. \A o \in Owners : locked[o] = Sum(OpenOf(o)) /\ locked[o] \in Nat
  BY CoversIsSum DEF MoneyType
<1>2. \A o \in Owners : OwnerOf[w] # o => OpenOf(o)' = OpenOf(o) /\ locked'[o] = locked[o]
  BY <1>0 DEF OpenOf, Open, MoneyType
<1> DEFINE p == OwnerOf[w]
<1>3. w \in OpenOf(p) /\ OpenOf(p)' = OpenOf(p) \ {w} /\ OpenOf(p) \in SUBSET Withdrawals
  BY DEF OpenOf, Open, MoneyType
<1>4. OpenOf(p) \ {w} \in SUBSET Withdrawals
  BY <1>3
<1>5. /\ Amount[w] \in Nat /\ Sum(OpenOf(p)) = Amount[w] + Sum(OpenOf(p) \ {w})
      /\ Sum(OpenOf(p) \ {w}) \in Nat
  BY <1>3, <1>4, OpenFinite
<1>6. locked'[p] = locked[p] - Amount[w]
  BY <1>0 DEF MoneyType
<1>7. locked[p] = Sum(OpenOf(p)) /\ locked[p] \in Nat
  BY <1>0, <1>1
<1>8. Sum(OpenOf(p)') = Sum(OpenOf(p) \ {w})
  BY <1>3
<1>9. locked'[p] = Sum(OpenOf(p)') /\ locked[p] - Amount[w] \in Nat
  BY <1>5, <1>6, <1>7, <1>8
<1>10. \A o \in Owners : locked'[o] = Sum(OpenOf(o)')
  <2> SUFFICES ASSUME NEW o \in Owners PROVE locked'[o] = Sum(OpenOf(o)')
    OBVIOUS
  <2>1. CASE o = p
    BY <2>1, <1>9
  <2>2. CASE o # p
    BY <2>2, <1>1, <1>2
  <2> QED BY <2>1, <2>2
<1> QED BY <1>9, <1>10, CoversIsSum

\* Nothing is opened or closed: the locked balances stay right.
LEMMA SameOpen ==
    ASSUME LockedCoversWithdrawals, locked' = locked,
           \A o \in Owners : OpenOf(o)' = OpenOf(o)
    PROVE  LockedCoversWithdrawals'
BY CoversIsSum

-----------------------------------------------------------------------------
(* The invariant holds at the start *)

\* Init establishes the invariant.
LEMMA WInit == Init => WInv
<1> SUFFICES ASSUME Init PROVE WInv
  OBVIOUS
<1>1. MoneyType
  BY DEF Init, MoneyType, TopupStates, WithdrawalStates
<1>2. SessType
  <2>1. Idle \in SessionRecords
    BY DEF Idle, SessionRecords
  <2>2. NoDelta \in [Owners -> Int]
    BY DEF NoDelta
  <2> HIDE DEF Idle, SessionRecords, NoDelta
  <2> QED BY <2>1, <2>2 DEF Init, SessType
<1>3. \A s \in Sessions : SessionInv(s)
  <2> SUFFICES ASSUME NEW s \in Sessions PROVE SessionInv(s)
    OBVIOUS
  <2>1. /\ sess[s] = Idle /\ delta[s] = NoDelta
        /\ \A l \in Owners \cup Rows : holder[l] # s
    BY WalletAssumption DEF Init
  <2>2. sess[s].op = "idle" /\ sess[s].kept = {} /\ sess[s].done = {}
    BY <2>1 DEF Idle
  <2>3. \A o \in Owners : delta[s][o] = 0 /\ avail[o] = 0
    BY <2>1 DEF NoDelta, Init
  <2>4. IdleHoldsNothing(s)
    BY <2>1 DEF IdleHoldsNothing
  <2>5. UncommittedIsLocked(s) /\ Covered(s)
    BY <2>2, <2>3 DEF UncommittedIsLocked, Covered
  <2>6. RowKnown(s) /\ InOrder(s)
    BY <2>2 DEF RowKnown, InOrder, TopupOps, WithdrawalOps, RowOps
  <2> QED BY <2>4, <2>5, <2>6 DEF SessionInv
<1>4. LedgerExplainsBalance
  BY DEF Init, LedgerExplainsBalance
<1>5. LockedCoversWithdrawals
  <2>1. \A o \in Owners : OpenOf(o) = {}
    BY DEF Init, OpenOf, Open
  <2>2. Sum({}) = 0
    BY FS_EmptySet, SumUnfold
  <2>3. \A o \in Owners : locked[o] = 0
    BY DEF Init
  <2> QED BY <2>1, <2>2, <2>3, CoversIsSum
<1>6. TransferredOnce
  BY DEF Init, TransferredOnce, Keys
<1> QED BY <1>1, <1>2, <1>3, <1>4, <1>5, <1>6 DEF WInv

-----------------------------------------------------------------------------
(* Requests served in one step *)

\* A wallet that nobody has locked has no uncommitted change.
LEMMA UnlockedIsStill ==
    ASSUME WInv, NEW o \in Owners, holder[o] = None
    PROVE  \A q \in Sessions : delta[q][o] = 0
BY WalletAssumption DEF WInv, SessionInv, UncommittedIsLocked

\* create_grant preserves the invariant.
LEMMA GrantStep ==
    ASSUME WInv, NEW g \in Grants, Grant(g)
    PROVE  WInv'
<1> DEFINE o == OwnerOf[g]
<1>0. o \in Owners /\ Amount[g] \in Nat /\ g \in Keys /\ g \notin Transfers
  BY WalletAssumption DEF Keys
<1> HIDE DEF o
<1>1. /\ avail' = [avail EXCEPT ![o] = @ + Amount[g]]
      /\ ledger' = [ledger EXCEPT ![o] = @ + Amount[g]]
      /\ applied' = [applied EXCEPT ![g] = 1]
      /\ UNCHANGED <<locked, topup, credited, wd>> /\ UNCHANGED <<holder, sess, delta>>
  BY DEF Grant, o, sessVars
<1>2. MoneyType'
  BY <1>0, <1>1 DEF WInv, MoneyType
<1>3. SessType'
  BY <1>1 DEF WInv, SessType
<1>4. \A q \in Sessions : SessionInv(q)'
  <2> SUFFICES ASSUME NEW q \in Sessions PROVE SessionInv(q)'
    OBVIOUS
  <2>1. Covered(q)'
    BY <1>0, <1>1 DEF WInv, SessionInv, Covered, MoneyType, SessType
  <2>2. \A x \in sess[q].done : applied'[x] = 0
    <3>1. sess[q].done \subseteq Transfers
      BY DEF WInv, SessType, SessionRecords
    <3> QED BY <3>1, <1>0, <1>1 DEF WInv, SessionInv, UncommittedIsLocked, MoneyType, Keys
  <2>3. sess[q].op \in WithdrawalOps => wd[sess[q].item] # "none"
    BY DEF WInv, SessionInv, RowKnown
  <2> QED BY <1>1, <2>1, <2>2, <2>3, Undisturbed DEF WInv
<1>5. LedgerExplainsBalance'
  BY <1>0, <1>1 DEF WInv, LedgerExplainsBalance, MoneyType
<1>6. LockedCoversWithdrawals'
  BY <1>1, SameOpen DEF WInv, OpenOf
<1>7. TransferredOnce'
  BY <1>0, <1>1 DEF WInv, TransferredOnce, MoneyType, Keys
<1> QED BY <1>2, <1>3, <1>4, <1>5, <1>6, <1>7 DEF WInv

\* The creation and the failure of a topup preserve the invariant.
LEMMA TopupStep ==
    ASSUME WInv, NEW t \in Topups, CreateTopup(t) \/ FailTopup(t)
    PROVE  WInv'
<1>1. /\ topup' \in [Topups -> TopupStates]
      /\ UNCHANGED <<avail, locked, ledger, applied, credited, wd>>
      /\ UNCHANGED <<holder, sess, delta>>
  BY DEF CreateTopup, FailTopup, WInv, MoneyType, TopupStates, sessVars
<1>2. MoneyType' /\ SessType' /\ LedgerExplainsBalance' /\ TransferredOnce'
  BY <1>1 DEF WInv, MoneyType, SessType, LedgerExplainsBalance, TransferredOnce
<1>3. \A q \in Sessions : SessionInv(q)'
  <2> SUFFICES ASSUME NEW q \in Sessions PROVE SessionInv(q)'
    OBVIOUS
  <2>1. Covered(q)'
    BY <1>1 DEF WInv, SessionInv, Covered
  <2>2. \A x \in sess[q].done : applied'[x] = 0
    BY <1>1 DEF WInv, SessionInv, UncommittedIsLocked
  <2>3. sess[q].op \in WithdrawalOps => wd[sess[q].item] # "none"
    BY DEF WInv, SessionInv, RowKnown
  <2> QED BY <1>1, <2>1, <2>2, <2>3, Undisturbed DEF WInv
<1>4. LockedCoversWithdrawals'
  BY <1>1, SameOpen DEF WInv, OpenOf
<1> QED BY <1>2, <1>3, <1>4 DEF WInv

\* create_withdrawal_request preserves the invariant.
LEMMA CreateWithdrawalStep ==
    ASSUME WInv, NEW w \in Withdrawals, CreateWithdrawal(w)
    PROVE  WInv'
<1> DEFINE o == OwnerOf[w]
<1>0. o \in Owners /\ Amount[w] \in Nat
  BY WalletAssumption DEF Rows
<1>1. /\ avail' = [avail EXCEPT ![o] = @ - Amount[w]]
      /\ locked' = [locked EXCEPT ![o] = @ + Amount[w]]
      /\ wd' = [wd EXCEPT ![w] = "pending"]
      /\ UNCHANGED <<ledger, applied, topup, credited>> /\ UNCHANGED <<holder, sess, delta>>
      /\ wd[w] = "none" /\ holder[o] = None /\ avail[o] >= Amount[w]
  BY DEF CreateWithdrawal, sessVars
<1>2. MoneyType'
  <2> HIDE DEF o
  <2> QED BY <1>0, <1>1 DEF WInv, MoneyType, WithdrawalStates
<1>3. SessType'
  BY <1>1 DEF WInv, SessType
<1>4. \A q \in Sessions : SessionInv(q)'
  <2> SUFFICES ASSUME NEW q \in Sessions PROVE SessionInv(q)'
    OBVIOUS
  <2>1. Covered(q)'
    <3>1. delta[q][o] = 0
      BY <1>0, <1>1, UnlockedIsStill
    <3>2. \A p \in Owners : avail'[p] + delta[q][p] >= 0
      <4> SUFFICES ASSUME NEW p \in Owners PROVE avail'[p] + delta[q][p] >= 0
        OBVIOUS
      <4> HIDE DEF o
      <4>1. CASE p = o
        BY <4>1, <3>1, <1>0, <1>1, <1>2 DEF MoneyType
      <4>2. CASE p # o
        BY <4>2, <1>0, <1>1 DEF WInv, SessionInv, Covered, MoneyType
      <4> QED BY <4>1, <4>2
    <3> QED BY <3>2, <1>1 DEF Covered
  <2>2. \A x \in sess[q].done : applied'[x] = 0
    BY <1>1 DEF WInv, SessionInv, UncommittedIsLocked
  <2>3. sess[q].op \in WithdrawalOps =>
             /\ wd'[sess[q].item] # "none"
             /\ holder[sess[q].item] = q => wd'[sess[q].item] = wd[sess[q].item]
    BY <1>1 DEF WInv, SessionInv, RowKnown, MoneyType
  <2> QED BY <1>1, <2>1, <2>2, <2>3, Undisturbed DEF WInv
<1>5. LedgerExplainsBalance'
  <2> HIDE DEF o
  <2> QED BY <1>0, <1>1 DEF WInv, LedgerExplainsBalance, MoneyType
<1>6. LockedCoversWithdrawals'
  BY <1>1, OpenOne DEF WInv, Open
<1>7. TransferredOnce'
  BY <1>1 DEF WInv, TransferredOnce
<1> QED BY <1>2, <1>3, <1>4, <1>5, <1>6, <1>7 DEF WInv

\* approve_withdrawal_request preserves the invariant.
LEMMA ApproveStep ==
    ASSUME WInv, NEW w \in Withdrawals, ApproveWithdrawal(w)
    PROVE  WInv'
<1>1. /\ wd' = [wd EXCEPT ![w] = "approved"]
      /\ UNCHANGED <<avail, locked, ledger, applied, topup, credited>>
      /\ UNCHANGED <<holder, sess, delta>>
      /\ wd[w] = "pending" /\ holder[w] = None
  BY DEF ApproveWithdrawal, sessVars
<1>2. MoneyType' /\ SessType' /\ LedgerExplainsBalance' /\ TransferredOnce'
  BY <1>1 DEF WInv, MoneyType, SessType, LedgerExplainsBalance, TransferredOnce,
              WithdrawalStates
<1>3. \A q \in Sessions : SessionInv(q)'
  <2> SUFFICES ASSUME NEW q \in Sessions PROVE SessionInv(q)'
    OBVIOUS
  <2>1. Covered(q)'
    BY <1>1 DEF WInv, SessionInv, Covered
  <2>2. \A x \in sess[q].done : applied'[x] = 0
    BY <1>1 DEF WInv, SessionInv, UncommittedIsLocked
  <2>3. sess[q].op \in WithdrawalOps =>
             /\ wd'[sess[q].item] # "none"
             /\ holder[sess[q].item] = q => wd'[sess[q].item] = wd[sess[q].item]
    BY <1>1, WalletAssumption DEF WInv, SessionInv, RowKnown, MoneyType
  <2> QED BY <1>1, <2>1, <2>2, <2>3, Undisturbed DEF WInv
<1>4. LockedCoversWithdrawals'
  <2>1. \A o \in Owners : OpenOf(o)' = OpenOf(o)
    BY <1>1 DEF OpenOf, Open, WInv, MoneyType
  <2> QED BY <1>1, <2>1, SameOpen DEF WInv
<1> QED BY <1>2, <1>3, <1>4 DEF WInv

-----------------------------------------------------------------------------
(* Steps of a session that commit nothing *)

\* Such a step preserves the invariant if it does for the session's own part.
LEMMA UncommittedStep ==
    ASSUME WInv, NEW s \in Sessions, UNCHANGED moneyVars, SessType', SessionInv(s)',
           \A q \in Sessions \ {s} :
               /\ sess'[q] = sess[q] /\ delta'[q] = delta[q]
               /\ \A l \in Owners \cup Rows : holder'[l] = q <=> holder[l] = q
    PROVE  WInv'
<1>1. UNCHANGED <<avail, locked, ledger, applied, topup, credited, wd>>
  BY DEF moneyVars
<1>2. MoneyType' /\ LedgerExplainsBalance' /\ TransferredOnce'
  BY <1>1 DEF WInv, MoneyType, LedgerExplainsBalance, TransferredOnce
<1>3. LockedCoversWithdrawals'
  BY <1>1, SameOpen DEF WInv, OpenOf
<1>4. \A q \in Sessions : SessionInv(q)'
  <2> SUFFICES ASSUME NEW q \in Sessions, q # s PROVE SessionInv(q)'
    OBVIOUS
  <2>1. Covered(q)'
    BY <1>1 DEF WInv, SessionInv, Covered
  <2>2. \A x \in sess[q].done : applied'[x] = 0
    BY <1>1 DEF WInv, SessionInv, UncommittedIsLocked
  <2>3. sess[q].op \in WithdrawalOps => wd[sess[q].item] # "none"
    BY DEF WInv, SessionInv, RowKnown
  <2> QED BY <1>1, <2>1, <2>2, <2>3, Undisturbed DEF WInv
<1> QED BY <1>2, <1>3, <1>4 DEF WInv

\* A rollback preserves the invariant.
LEMMA RollbackStep ==
    ASSUME WInv, NEW s \in Sessions, End(s), UNCHANGED moneyVars
    PROVE  WInv'
<1>1. MoneyType'
  BY DEF WInv, MoneyType, moneyVars
<1> QED BY <1>1, EndEffect, IdleSession, UncommittedStep DEF WInv

\* An idle session begins an operation.
LEMMA BeginStep ==
    ASSUME WInv, NEW s \in Sessions, sess[s] = Idle, UNCHANGED <<moneyVars, holder, delta>>,
           NEW r \in SessionRecords, sess' = [sess EXCEPT ![s] = r],
           r.op # "idle", r.done = {}, r.kept = {},
           r.op \in TopupOps => r.item \in Topups,
           r.op \in WithdrawalOps =>
             /\ r.item \in Withdrawals /\ wd[r.item] # "none" /\ r.status = "unread",
           r.op = "transfer" => r.todo = <<>> \/ Tail(r.todo) = <<>>
    PROVE  WInv'
<1>1. UNCHANGED moneyVars /\ UNCHANGED <<avail, applied, wd, holder, delta>>
  BY DEF moneyVars
<1>2. /\ sess' \in [Sessions -> SessionRecords] /\ sess'[s] = r
      /\ \A q \in Sessions \ {s} : sess'[q] = sess[q]
  BY DEF WInv, SessType
<1>3. SessType'
  BY <1>1, <1>2 DEF WInv, SessType
<1>4. sess[s].op = "idle" /\ sess[s].kept = {}
  BY DEF Idle
<1>5. \A l \in Owners \cup Rows : holder'[l] # s
  BY <1>1, <1>4 DEF WInv, SessionInv, IdleHoldsNothing
<1>6. \A o \in Owners : delta'[s][o] = 0
  BY <1>1, <1>4 DEF WInv, SessionInv, UncommittedIsLocked
<1>7. IdleHoldsNothing(s)' /\ UncommittedIsLocked(s)'
  BY <1>2, <1>6 DEF IdleHoldsNothing, UncommittedIsLocked
<1>8. Covered(s)'
  BY <1>1, <1>6 DEF Covered, WInv, MoneyType
<1>9. RowKnown(s)'
  <2>1. r.op \in RowOps => r.item \in Rows /\ OwnerOf[r.item] \in Owners
    BY WalletAssumption DEF RowOps, TopupOps, WithdrawalOps, Rows
  <2>2. r.op \in WithdrawalOps => r.op \in RowOps
    BY DEF RowOps, WithdrawalOps
  <2> QED BY <1>1, <1>2, <1>5, <2>1, <2>2 DEF RowKnown
<1>10. InOrder(s)'
  <2> SUFFICES ASSUME r.op = "transfer", r.todo # <<>>
               PROVE  LET p == Sorted(Head(r.todo)) IN p[1] \in Owners /\ p[2] \in Owners
    BY <1>2, <1>5 DEF InOrder
  <2>1. Head(r.todo) \in Transfers
    BY DEF SessionRecords
  <2> QED BY <2>1, WalletAssumption DEF Sorted
<1>11. SessionInv(s)'
  BY <1>7, <1>8, <1>9, <1>10 DEF SessionInv
<1> QED BY <1>1, <1>2, <1>3, <1>11, UncommittedStep

\* The beginnings of all operations.
LEMMA BeginSteps ==
    ASSUME WInv, NEW s \in Sessions,
           \/ \E x \in Transfers : BeginTransfer(s, x)
           \/ \E b \in Batches : BeginBatch(s, b)
           \/ \E t \in Topups : BeginFulfill(s, t)
           \/ \E i \in Rows, op \in RowOps : BeginRow(s, op, i)
    PROVE  WInv'
<1>1. ASSUME NEW x \in Transfers, BeginTransfer(s, x) PROVE WInv'
  <2> DEFINE r == [Idle EXCEPT !.op = "transfer", !.todo = <<x>>]
  <2>1. /\ r \in SessionRecords /\ r.op = "transfer" /\ r.done = {} /\ r.kept = {}
        /\ r.todo = <<x>> /\ Tail(r.todo) = <<>>
    <3>1. <<x>> \in Seq(Transfers) /\ Tail(<<x>>) = <<>>
      OBVIOUS
    <3>2. r \in SessionRecords
      BY <3>1 DEF Idle, SessionRecords, MoveOps
    <3>3. r.op = "transfer" /\ r.done = {} /\ r.kept = {} /\ r.todo = <<x>>
      BY DEF Idle
    <3> QED BY <3>1, <3>2, <3>3
  <2>2. /\ sess[s] = Idle /\ UNCHANGED <<moneyVars, holder, delta>>
        /\ sess' = [sess EXCEPT ![s] = r]
    BY <1>1 DEF BeginTransfer
  <2> HIDE DEF r
  <2> QED BY <2>1, <2>2, BeginStep DEF TopupOps, WithdrawalOps
<1>2. ASSUME NEW b \in Batches, BeginBatch(s, b) PROVE WInv'
  <2> DEFINE r == [Idle EXCEPT !.op = "billing", !.todo = b]
  <2>0. b \in Seq(Transfers)
    BY WalletAssumption
  <2>1. r \in SessionRecords /\ r.op = "billing" /\ r.done = {} /\ r.kept = {}
    BY <2>0 DEF Idle, SessionRecords, MoveOps
  <2>2. /\ sess[s] = Idle /\ UNCHANGED <<moneyVars, holder, delta>>
        /\ sess' = [sess EXCEPT ![s] = r]
    BY <1>2 DEF BeginBatch
  <2> HIDE DEF r
  <2> QED BY <2>1, <2>2, BeginStep DEF TopupOps, WithdrawalOps
<1>3. ASSUME NEW t \in Topups, BeginFulfill(s, t) PROVE WInv'
  <2> DEFINE r == [Idle EXCEPT !.op = "fulfill", !.item = t, !.status = "pending"]
  <2>1. /\ r \in SessionRecords /\ r.op = "fulfill" /\ r.done = {} /\ r.kept = {}
        /\ r.item = t
    <3>1. <<>> \in Seq(Transfers)
      OBVIOUS
    <3>2. r \in SessionRecords
      BY <3>1 DEF Idle, SessionRecords, RowOps, TopupStates, Rows
    <3>3. r.op = "fulfill" /\ r.done = {} /\ r.kept = {} /\ r.item = t
      BY DEF Idle
    <3> QED BY <3>1, <3>2, <3>3
  <2>2. /\ sess[s] = Idle /\ UNCHANGED <<moneyVars, holder, delta>>
        /\ sess' = [sess EXCEPT ![s] = r]
    BY <1>3 DEF BeginFulfill
  <2> HIDE DEF r
  <2> QED BY <2>1, <2>2, BeginStep DEF TopupOps, WithdrawalOps
<1>4. ASSUME NEW i \in Rows, NEW op \in RowOps, BeginRow(s, op, i) PROVE WInv'
  <2> DEFINE r == [Idle EXCEPT !.op = op, !.item = i]
  <2>1. /\ r \in SessionRecords /\ r.op = op /\ r.done = {} /\ r.kept = {}
        /\ r.item = i /\ r.status = "unread"
    <3>1. <<>> \in Seq(Transfers)
      OBVIOUS
    <3>2. r \in SessionRecords
      BY <3>1 DEF Idle, SessionRecords
    <3>3. r.op = op /\ r.done = {} /\ r.kept = {} /\ r.item = i /\ r.status = "unread"
      BY DEF Idle
    <3> QED BY <3>1, <3>2, <3>3
  <2>2. /\ sess[s] = Idle /\ UNCHANGED <<moneyVars, holder, delta>>
        /\ sess' = [sess EXCEPT ![s] = r]
    BY <1>4 DEF BeginRow
  <2>3. op \in TopupOps => i \in Topups
    BY <1>4 DEF BeginRow, TopupOps
  <2>4. op \in WithdrawalOps => i \in Withdrawals /\ wd[i] # "none"
    BY <1>4 DEF BeginRow, WithdrawalOps, Status, Rows
  <2> HIDE DEF r
  <2> QED BY <2>1, <2>2, <2>3, <2>4, BeginStep DEF RowOps
<1> QED BY <1>1, <1>2, <1>3, <1>4

\* _lock_wallet and SELECT ... FOR UPDATE: one more lock, in the order of Plan.
LEMMA LockWalletStep ==
    ASSUME WInv, NEW s \in Sessions, NEW o \in Owners, LockWallet(s, o)
    PROVE  WInv'
<1>1. /\ holder[o] = None /\ Want(s) = o
      /\ holder' = [holder EXCEPT ![o] = s]
      /\ UNCHANGED <<moneyVars, sess, delta>>
      /\ UNCHANGED <<avail, applied, wd, sess, delta>>
      /\ sess[s].op \in RowOps => sess[s].status = Demands(sess[s].op)
  BY DEF LockWallet, moneyVars
<1>2. SessType'
  BY <1>1 DEF WInv, SessType
<1>3. holder'[o] = s /\ \A l \in Owners \cup Rows : l # o => holder'[l] = holder[l]
  BY <1>1 DEF WInv, SessType
<1>4. \A q \in Sessions \ {s} : \A l \in Owners \cup Rows : holder'[l] = q <=> holder[l] = q
  BY <1>1, <1>3, WalletAssumption
<1>5. o # None /\ o \notin Rows /\ o \in Owners \cup Rows
  BY WalletAssumption
<1>6. IdleHoldsNothing(s)'
  <2>1. sess[s].op # "idle"
    BY <1>1, <1>5 DEF Want, Plan, MoveOps, RowOps
  <2> QED BY <2>1, <1>1 DEF IdleHoldsNothing
<1>7. UncommittedIsLocked(s)' /\ Covered(s)'
  <2>1. sess[s].kept \subseteq Owners
    BY DEF WInv, SessType, SessionRecords
  <2> QED BY <2>1, <1>1, <1>3 DEF WInv, SessionInv, UncommittedIsLocked, Covered
<1>8. RowKnown(s)'
  <2>1. CASE sess[s].op \in RowOps
    <3> DEFINE i == sess[s].item
    <3>1. i \in Rows /\ OwnerOf[i] \in Owners
      BY <2>1, WalletAssumption
         DEF WInv, SessionInv, RowKnown, Rows, RowOps, TopupOps, WithdrawalOps
    <3>2. Plan(s) = <<i, OwnerOf[i]>>
      BY <2>1 DEF Plan, RowOps, MoveOps
    <3> HIDE DEF i
    <3>3. i # o
      BY <3>1, <1>5
    <3>4. holder[i] = s /\ OwnerOf[i] = o
      BY <3>2, <3>3, <1>1, <1>5 DEF Want
    <3>5. sess[s].op \in WithdrawalOps => holder'[i] = holder[i]
      BY <3>1, <3>3, <1>3
    <3> QED BY <2>1, <3>1, <3>3, <3>4, <3>5, <1>1, <1>3
            DEF WInv, SessionInv, RowKnown, i
  <2>2. CASE sess[s].op \notin RowOps
    BY <2>2, <1>1 DEF RowKnown, RowOps, TopupOps, WithdrawalOps
  <2> QED BY <2>1, <2>2
<1>9. InOrder(s)'
  <2> SUFFICES ASSUME sess[s].op = "transfer", sess[s].todo # <<>>
               PROVE  LET p == Sorted(Head(sess[s].todo)) IN
                      /\ \A l \in Owners \cup Rows : holder'[l] = s => l = p[1] \/ l = p[2]
                      /\ holder'[p[2]] = s => holder'[p[1]] = s
    BY <1>1 DEF InOrder, WInv, SessionInv
  <2> DEFINE p == Sorted(Head(sess[s].todo))
  <2>1. Plan(s) = p
    BY DEF Plan, MoveOps
  <2>2. Head(sess[s].todo) \in Transfers
    BY DEF WInv, SessType, SessionRecords
  <2>3. p[1] \in Owners /\ p[2] \in Owners /\ p # <<>>
    BY <2>2, WalletAssumption DEF Sorted
  <2>4. /\ \A l \in Owners \cup Rows : holder[l] = s => l = p[1] \/ l = p[2]
        /\ holder[p[2]] = s => holder[p[1]] = s
    BY DEF WInv, SessionInv, InOrder
  <2> HIDE DEF p
  <2>5. \/ o = p[1]
        \/ o = p[2] /\ holder[p[1]] = s
    BY <2>1, <2>3, <1>1, <1>5 DEF Want
  <2>6. \A l \in Owners \cup Rows : holder'[l] = s => l = p[1] \/ l = p[2]
    BY <2>4, <2>5, <1>3
  <2>7. holder'[p[2]] = s => holder'[p[1]] = s
    BY <2>3, <2>4, <2>5, <1>3
  <2> QED BY <2>6, <2>7 DEF p
<1>10. SessionInv(s)'
  BY <1>6, <1>7, <1>8, <1>9 DEF SessionInv
<1> QED BY <1>1, <1>2, <1>4, <1>10, UncommittedStep

\* The lock of a topup or withdrawal, which is read with it.
LEMMA LockRowStep ==
    ASSUME WInv, NEW s \in Sessions, NEW i \in Rows, LockRow(s, i)
    PROVE  WInv'
<1> DEFINE j == sess[s]
           st == IF j.status = "unread" THEN Status(i) ELSE j.status
<1>1. /\ holder[i] = None /\ Want(s) = i
      /\ holder' = [holder EXCEPT ![i] = s]
      /\ sess' = [sess EXCEPT ![s].status = st]
      /\ UNCHANGED <<moneyVars, delta>> /\ UNCHANGED <<avail, applied, wd, delta>>
  BY DEF LockRow, moneyVars
<1>2. i # None /\ i \notin Owners /\ i \in Owners \cup Rows
  BY WalletAssumption
<1>3. j \in SessionRecords
  BY DEF WInv, SessType
<1>4. j.op \in RowOps
  <2>1. SUFFICES ASSUME j.op \notin RowOps PROVE FALSE
    OBVIOUS
  <2>2. j.op \in MoveOps /\ j.todo # <<>> /\ Plan(s) = Sorted(Head(j.todo))
    BY <2>1, <1>1, <1>2 DEF Want, Plan
  <2>3. Head(j.todo) \in Transfers
    BY <2>2, <1>3 DEF SessionRecords
  <2>4. Sorted(Head(j.todo))[1] \in Owners /\ Sorted(Head(j.todo))[2] \in Owners
    BY <2>3, WalletAssumption DEF Sorted
  <2> HIDE DEF j
  <2>5. i = Sorted(Head(j.todo))[1] \/ i = Sorted(Head(j.todo))[2]
    BY <2>2, <1>1, <1>2 DEF Want
  <2> QED BY <2>4, <2>5, <1>2
<1>5. j.item \in Rows /\ OwnerOf[j.item] \in Owners
  BY <1>4, WalletAssumption
     DEF WInv, SessionInv, RowKnown, Rows, RowOps, TopupOps, WithdrawalOps
<1>6. j.item = i /\ holder[i] # s
  <2>1. Plan(s) = <<j.item, OwnerOf[j.item]>>
    BY <1>4 DEF Plan, RowOps, MoveOps
  <2>2. OwnerOf[j.item] # i
    BY <1>2, <1>5
  <2> QED BY <2>1, <2>2, <1>1, <1>2, WalletAssumption DEF Want
<1>7. st \in {"unread"} \cup TopupStates \cup WithdrawalStates
  BY <1>3 DEF WInv, MoneyType, Status, Rows, SessionRecords
<1>8. /\ sess' \in [Sessions -> SessionRecords]
      /\ sess'[s] = [j EXCEPT !.status = st]
      /\ \A q \in Sessions \ {s} : sess'[q] = sess[q]
  <2>1. [j EXCEPT !.status = st] \in SessionRecords
    <3> HIDE DEF j, st
    <3> QED BY <1>3, <1>7 DEF SessionRecords
  <2>2. sess \in [Sessions -> SessionRecords] /\ sess' = [sess EXCEPT ![s] = [j EXCEPT !.status = st]]
    BY <1>1 DEF WInv, SessType
  <2> HIDE DEF j, st
  <2> QED BY <2>1, <2>2
<1>9. /\ sess'[s].op = j.op /\ sess'[s].todo = j.todo /\ sess'[s].done = j.done
      /\ sess'[s].kept = j.kept /\ sess'[s].item = j.item /\ sess'[s].status = st
  <2> HIDE DEF j, st
  <2> QED BY <1>3, <1>8 DEF SessionRecords
<1>10. holder'[i] = s /\ \A l \in Owners \cup Rows : l # i => holder'[l] = holder[l]
  BY <1>1 DEF WInv, SessType
<1>11. SessType'
  BY <1>1, <1>8 DEF WInv, SessType
<1>12. \A q \in Sessions \ {s} : \A l \in Owners \cup Rows : holder'[l] = q <=> holder[l] = q
  BY <1>1, <1>10, WalletAssumption
<1>13. IdleHoldsNothing(s)' /\ InOrder(s)'
  BY <1>4, <1>9 DEF IdleHoldsNothing, InOrder, RowOps
<1>14. UncommittedIsLocked(s)' /\ Covered(s)'
  <2>1. j.kept = {}
    BY <1>4 DEF WInv, SessionInv, RowKnown
  <2> QED BY <2>1, <1>1, <1>9 DEF WInv, SessionInv, UncommittedIsLocked, Covered
<1>15. RowKnown(s)'
  <2>1. j.op \in WithdrawalOps => st = wd[i]
    <3>1. j.op \in WithdrawalOps => i \in Withdrawals /\ j.status = "unread"
      BY <1>6 DEF WInv, SessionInv, RowKnown
    <3> QED BY <3>1, WalletAssumption DEF Status
  <2>2. holder[OwnerOf[i]] # s
    BY <1>4, <1>6 DEF WInv, SessionInv, RowKnown
  <2>3. holder'[OwnerOf[i]] # s
    BY <2>2, <1>2, <1>5, <1>6, <1>10
  <2>4. /\ j.op \in TopupOps => i \in Topups
        /\ j.op \in WithdrawalOps => i \in Withdrawals /\ wd[i] # "none"
        /\ j.kept = {}
        /\ \A l \in Owners \cup Rows : holder[l] = s => l = i \/ l = OwnerOf[i]
    BY <1>4, <1>6 DEF WInv, SessionInv, RowKnown
  <2> HIDE DEF j, st
  <2> QED BY <2>1, <2>3, <2>4, <1>1, <1>6, <1>9, <1>10 DEF RowKnown
<1>16. SessionInv(s)'
  BY <1>13, <1>14, <1>15 DEF SessionInv
<1> QED BY <1>1, <1>8, <1>11, <1>12, <1>16, UncommittedStep

\* The rest of a list of transfers is one.
LEMMA TailTyped ==
    ASSUME WInv, NEW s \in Sessions, sess[s].todo # <<>>
    PROVE  Tail(sess[s].todo) \in Seq(Transfers)
BY DEF WInv, SessType, SessionRecords

\* A savepoint is rolled back: the locks of the earlier charges stay.
LEMMA SkipChargeStep ==
    ASSUME WInv, NEW s \in Sessions, SkipCharge(s)
    PROVE  WInv'
<1> DEFINE j == sess[s]
           r == [j EXCEPT !.todo = Tail(j.todo)]
<1>1. /\ j.op = "billing" /\ j.todo # <<>>
      /\ holder' = [l \in Owners \cup Rows |->
                     IF holder[l] = s /\ l \notin j.kept THEN None ELSE holder[l]]
      /\ UNCHANGED <<moneyVars, delta>> /\ UNCHANGED <<avail, applied, wd, delta>>
  BY DEF SkipCharge, moneyVars
<1>2. j \in SessionRecords /\ sess \in [Sessions -> SessionRecords]
  BY DEF WInv, SessType
<1>3. Tail(j.todo) \in Seq(Transfers)
  BY <1>1, TailTyped
<1>4. sess' = [sess EXCEPT ![s] = r]
  BY <1>2 DEF SkipCharge
<1>5. r \in SessionRecords /\ r.op = "billing" /\ r.done = j.done /\ r.kept = j.kept
  <2> HIDE DEF j
  <2> QED BY <1>1, <1>2, <1>3 DEF SessionRecords
<1>6. /\ sess' \in [Sessions -> SessionRecords] /\ sess'[s] = r
      /\ \A q \in Sessions \ {s} : sess'[q] = sess[q]
  <2> HIDE DEF j, r
  <2> QED BY <1>2, <1>4, <1>5
<1>7. holder' \in [Owners \cup Rows -> Sessions \cup {None}]
  BY <1>1 DEF WInv, SessType
<1>8. SessType'
  BY <1>1, <1>6, <1>7 DEF WInv, SessType
<1>9. \A q \in Sessions \ {s} : \A l \in Owners \cup Rows : holder'[l] = q <=> holder[l] = q
  <2> HIDE DEF j
  <2> QED BY <1>1, WalletAssumption DEF WInv, SessType
<1>10. IdleHoldsNothing(s)' /\ InOrder(s)' /\ RowKnown(s)'
  BY <1>5, <1>6 DEF IdleHoldsNothing, InOrder, RowKnown, RowOps, TopupOps, WithdrawalOps
<1>11. UncommittedIsLocked(s)' /\ Covered(s)'
  <2>1. j.kept \subseteq Owners
    BY <1>2 DEF SessionRecords
  <2>2. \A o \in j.kept : holder'[o] = s
    BY <2>1, <1>1 DEF WInv, SessionInv, UncommittedIsLocked
  <2>3. sess'[s].kept = j.kept /\ sess'[s].done = j.done
    BY <1>5, <1>6
  <2>4. UncommittedIsLocked(s) /\ Covered(s)
    BY DEF WInv, SessionInv
  <2> HIDE DEF r
  <2> QED BY <2>2, <2>3, <2>4, <1>1 DEF UncommittedIsLocked, Covered
<1> QED BY <1>1, <1>6, <1>8, <1>9, <1>10, <1>11, UncommittedStep DEF SessionInv

\* A transfer goes through, not yet committed.
LEMMA TransferStep ==
    ASSUME WInv, NEW s \in Sessions, Transfer(s)
    PROVE  WInv'
<1> DEFINE j == sess[s]
           x == Head(j.todo)
           r == [j EXCEPT !.todo = Tail(j.todo), !.done = j.done \cup {x},
                          !.kept = j.kept \cup {From[x], To[x]}]
           f == [delta[s] EXCEPT ![From[x]] = @ - Amount[x], ![To[x]] = @ + Amount[x]]
<1>1. /\ j.op \in MoveOps /\ Locked(s)
      /\ avail[From[x]] + delta[s][From[x]] >= Amount[x]
      /\ applied[x] = 0
      /\ UNCHANGED <<moneyVars, holder>> /\ UNCHANGED <<avail, applied, wd, holder>>
  BY DEF Transfer, Balance, moneyVars
<1>2. /\ j \in SessionRecords /\ sess \in [Sessions -> SessionRecords]
      /\ delta \in [Sessions -> [Owners -> Int]] /\ delta[s] \in [Owners -> Int]
      /\ avail \in [Owners -> Nat]
  BY DEF WInv, SessType, MoneyType
<1>3. /\ j.todo # <<>> /\ x \in Transfers /\ From[x] \in Owners /\ To[x] \in Owners
      /\ From[x] # To[x] /\ Amount[x] \in Nat /\ holder[From[x]] = s /\ holder[To[x]] = s
  BY <1>1, LockedMove DEF WInv
<1>4. Tail(j.todo) \in Seq(Transfers)
  BY <1>3, TailTyped
<1>5. sess' = [sess EXCEPT ![s] = r]
  BY <1>2 DEF Transfer
<1>6. delta' = [delta EXCEPT ![s] = f]
  BY <1>2 DEF Transfer
<1>7. /\ r \in SessionRecords /\ r.op = j.op /\ r.done = j.done \cup {x}
      /\ r.kept = j.kept \cup {From[x], To[x]} /\ r.todo = Tail(j.todo)
  <2> HIDE DEF j, x
  <2> QED BY <1>2, <1>3, <1>4 DEF SessionRecords
<1>8. /\ f \in [Owners -> Int]
      /\ f[From[x]] = delta[s][From[x]] - Amount[x]
      /\ f[To[x]] = delta[s][To[x]] + Amount[x]
      /\ \A o \in Owners \ {From[x], To[x]} : f[o] = delta[s][o]
  <2> HIDE DEF x
  <2> QED BY <1>2, <1>3
<1>9. /\ sess' \in [Sessions -> SessionRecords] /\ sess'[s] = r
      /\ \A q \in Sessions \ {s} : sess'[q] = sess[q]
  <2> HIDE DEF r
  <2> QED BY <1>2, <1>5, <1>7
<1>10. /\ delta' \in [Sessions -> [Owners -> Int]] /\ delta'[s] = f
       /\ \A q \in Sessions \ {s} : delta'[q] = delta[q]
  <2> HIDE DEF f
  <2> QED BY <1>2, <1>6, <1>8
<1>11. SessType'
  BY <1>1, <1>9, <1>10 DEF WInv, SessType
<1>12. IdleHoldsNothing(s)' /\ RowKnown(s)'
  BY <1>1, <1>7, <1>9 DEF IdleHoldsNothing, RowKnown, MoveOps, RowOps, TopupOps, WithdrawalOps
<1>13. InOrder(s)'
  <2>1. j.op = "transfer" => r.todo = <<>>
    BY <1>3, <1>7 DEF WInv, SessionInv, InOrder
  <2> HIDE DEF j, r
  <2> QED BY <2>1, <1>7, <1>9 DEF InOrder
<1>14. UncommittedIsLocked(s)'
  <2>1. /\ \A o \in j.kept : holder[o] = s
        /\ \A y \in j.done : From[y] \in j.kept /\ To[y] \in j.kept /\ applied[y] = 0
        /\ \A o \in Owners : delta[s][o] # 0 => o \in j.kept
    BY DEF WInv, SessionInv, UncommittedIsLocked
  <2>2. /\ sess'[s].kept = j.kept \cup {From[x], To[x]}
        /\ sess'[s].done = j.done \cup {x}
    BY <1>7, <1>9
  <2> HIDE DEF j, x, r, f
  <2>3. \A o \in sess'[s].kept : holder'[o] = s
    BY <2>1, <2>2, <1>1, <1>3
  <2>4. \A y \in sess'[s].done : /\ From[y] \in sess'[s].kept /\ To[y] \in sess'[s].kept
                                 /\ applied'[y] = 0
    BY <2>1, <2>2, <1>1
  <2>5. \A o \in Owners : f[o] # 0 => o \in sess'[s].kept
    BY <2>1, <2>2, <1>8
  <2> QED BY <2>3, <2>4, <2>5, <1>10 DEF UncommittedIsLocked
<1>15. Covered(s)'
  <2>1. \A o \in Owners : avail[o] + delta[s][o] >= 0
    BY DEF WInv, SessionInv, Covered
  <2> HIDE DEF j, x, r, f
  <2>2. \A o \in Owners : avail[o] + f[o] >= 0
    <3> SUFFICES ASSUME NEW o \in Owners PROVE avail[o] + f[o] >= 0
      OBVIOUS
    <3>1. avail[o] \in Nat /\ delta[s][o] \in Int /\ avail[o] + delta[s][o] >= 0
      BY <2>1, <1>2
    <3>2. CASE o = From[x]
      BY <3>1, <3>2, <1>1, <1>3, <1>8
    <3>3. CASE o = To[x]
      BY <3>1, <3>3, <1>3, <1>8
    <3>4. CASE o \notin {From[x], To[x]}
      BY <3>1, <3>4, <1>8
    <3> QED BY <3>2, <3>3, <3>4
  <2> QED BY <2>2, <1>1, <1>10 DEF Covered
<1>16. SessionInv(s)'
  BY <1>12, <1>13, <1>14, <1>15 DEF SessionInv
<1> QED BY <1>1, <1>9, <1>10, <1>11, <1>16, UncommittedStep

\* A charge that the wallet cannot pay is noted, and the batch goes on.
LEMMA InsufficientStep ==
    ASSUME WInv, NEW s \in Sessions, Insufficient(s)
    PROVE  WInv'
<1>1. CASE sess[s].op = "transfer"
  BY <1>1, RollbackStep DEF Insufficient
<1>2. CASE sess[s].op # "transfer"
  <2> DEFINE j == sess[s]
             x == Head(j.todo)
             r == [j EXCEPT !.todo = Tail(j.todo), !.kept = j.kept \cup {From[x], To[x]}]
  <2>1. /\ j.op = "billing" /\ Locked(s) /\ j.op \in MoveOps
        /\ UNCHANGED moneyVars /\ UNCHANGED <<avail, applied, wd, holder, delta>>
    BY <1>2 DEF Insufficient, moneyVars, MoveOps
  <2>2. j \in SessionRecords /\ sess \in [Sessions -> SessionRecords]
    BY DEF WInv, SessType
  <2>3. /\ j.todo # <<>> /\ x \in Transfers /\ From[x] \in Owners /\ To[x] \in Owners
        /\ holder[From[x]] = s /\ holder[To[x]] = s
    BY <2>1, LockedMove DEF WInv
  <2>4. Tail(j.todo) \in Seq(Transfers)
    BY <2>3, TailTyped
  <2>5. sess' = [sess EXCEPT ![s] = r]
    BY <1>2, <2>2 DEF Insufficient
  <2>6. /\ r \in SessionRecords /\ r.op = "billing" /\ r.done = j.done
        /\ r.kept = j.kept \cup {From[x], To[x]}
    <3> HIDE DEF j, x
    <3> QED BY <2>1, <2>2, <2>3, <2>4 DEF SessionRecords
  <2>7. /\ sess' \in [Sessions -> SessionRecords] /\ sess'[s] = r
        /\ \A q \in Sessions \ {s} : sess'[q] = sess[q]
    <3> HIDE DEF j, r
    <3> QED BY <2>2, <2>5, <2>6
  <2>8. SessType'
    BY <2>1, <2>7 DEF WInv, SessType
  <2>9. IdleHoldsNothing(s)' /\ InOrder(s)' /\ RowKnown(s)'
    BY <2>6, <2>7 DEF IdleHoldsNothing, InOrder, RowKnown, RowOps, TopupOps, WithdrawalOps
  <2>10. UncommittedIsLocked(s)' /\ Covered(s)'
    <3> HIDE DEF x, r
    <3> QED BY <2>1, <2>3, <2>6, <2>7 DEF WInv, SessionInv, UncommittedIsLocked, Covered
  <2> QED BY <2>1, <2>7, <2>8, <2>9, <2>10, UncommittedStep DEF SessionInv
<1> QED BY <1>1, <1>2

-----------------------------------------------------------------------------
(* Commits *)

\* The commit of a batch or transfer.
LEMMA CommitStep ==
    ASSUME WInv, NEW s \in Sessions, CommitTransfers(s)
    PROVE  WInv'
<1>1. /\ avail' = [o \in Owners |-> avail[o] + delta[s][o]]
      /\ ledger' = [o \in Owners |-> ledger[o] + delta[s][o]]
      /\ applied' = [x \in Keys |-> IF x \in sess[s].done THEN applied[x] + 1 ELSE applied[x]]
      /\ End(s) /\ UNCHANGED <<locked, topup, credited, wd>>
  BY DEF CommitTransfers
<1>2. UncommittedIsLocked(s) /\ Covered(s)
  BY DEF WInv, SessionInv
<1>3. /\ avail \in [Owners -> Nat] /\ delta \in [Sessions -> [Owners -> Int]]
      /\ ledger \in [Owners -> Int] /\ applied \in [Keys -> Nat]
      /\ \A q \in Sessions : sess[q].done \subseteq Transfers
  BY DEF WInv, MoneyType, SessType, SessionRecords
<1>4. MoneyType'
  <2>1. \A o \in Owners : avail[o] + delta[s][o] \in Nat /\ ledger[o] + delta[s][o] \in Int
    BY <1>2, <1>3 DEF Covered
  <2>2. applied' \in [Keys -> Nat]
    BY <1>1, <1>3
  <2> QED BY <1>1, <2>1, <2>2 DEF WInv, MoneyType
<1>5. /\ SessType' /\ SessionInv(s)'
      /\ \A q \in Sessions \ {s} :
          /\ sess'[q] = sess[q] /\ delta'[q] = delta[q]
          /\ \A l \in Owners \cup Rows : holder'[l] = q <=> holder[l] = q
  BY <1>1, <1>4, EndEffect, IdleSession DEF WInv
<1>6. ASSUME NEW q \in Sessions, q # s PROVE SessionInv(q)'
  <2>1. UncommittedIsLocked(q) /\ Covered(q)
    BY DEF WInv, SessionInv
  <2>2. Covered(q)'
    <3> SUFFICES ASSUME NEW o \in Owners PROVE avail'[o] + delta'[q][o] >= 0
      BY DEF Covered
    <3>1. avail'[o] = avail[o] + delta[s][o] /\ delta'[q][o] = delta[q][o]
      BY <1>1, <1>5, <1>6
    <3>2. /\ avail[o] \in Nat /\ delta[s][o] \in Int /\ delta[q][o] \in Int
          /\ avail[o] + delta[s][o] >= 0 /\ avail[o] + delta[q][o] >= 0
      BY <1>2, <1>3, <2>1 DEF Covered
    <3>3. delta[s][o] = 0 \/ delta[q][o] = 0
      BY <1>2, <1>6, <2>1 DEF UncommittedIsLocked
    <3> QED BY <3>1, <3>2, <3>3
  <2>3. \A x \in sess[q].done : applied'[x] = 0
    <3> SUFFICES ASSUME NEW x \in sess[q].done PROVE applied'[x] = 0
      OBVIOUS
    <3>1. x \in Keys /\ applied[x] = 0 /\ From[x] \in sess[q].kept
      BY <1>3, <2>1 DEF UncommittedIsLocked, Keys
    <3>2. x \notin sess[s].done
      BY <3>1, <1>2, <1>6, <2>1 DEF UncommittedIsLocked
    <3> QED BY <3>1, <3>2, <1>1
  <2>4. sess[q].op \in WithdrawalOps => wd[sess[q].item] # "none"
    BY DEF WInv, SessionInv, RowKnown
  <2> QED BY <1>1, <1>5, <1>6, <2>2, <2>3, <2>4, Undisturbed DEF WInv
<1>7. LedgerExplainsBalance'
  <2> SUFFICES ASSUME NEW o \in Owners PROVE avail'[o] + locked'[o] = ledger'[o]
    BY DEF LedgerExplainsBalance
  <2>1. /\ avail[o] \in Nat /\ locked[o] \in Nat /\ ledger[o] \in Int
        /\ delta[s][o] \in Int /\ avail[o] + locked[o] = ledger[o]
    BY <1>3 DEF WInv, MoneyType, LedgerExplainsBalance
  <2> QED BY <2>1, <1>1
<1>8. LockedCoversWithdrawals'
  BY <1>1, SameOpen DEF WInv, OpenOf
<1>9. TransferredOnce'
  <2> SUFFICES ASSUME NEW x \in Transfers PROVE applied'[x] <= 1
    BY DEF TransferredOnce
  <2>1. x \in Keys /\ applied[x] \in Nat /\ applied[x] <= 1
    BY <1>3 DEF Keys, WInv, TransferredOnce
  <2>2. x \in sess[s].done => applied[x] = 0
    BY <1>2 DEF UncommittedIsLocked
  <2> QED BY <2>1, <2>2, <1>1
<1> QED BY <1>4, <1>5, <1>6, <1>7, <1>8, <1>9 DEF WInv

\* The completion of a topup.
LEMMA CompleteTopupStep ==
    ASSUME WInv, NEW s \in Sessions, CompleteTopup(s)
    PROVE  WInv'
<1> DEFINE t == sess[s].item
           o == OwnerOf[t]
<1>1. /\ sess[s].op \in TopupOps /\ Locked(s)
      /\ avail' = [avail EXCEPT ![o] = @ + Amount[t]]
      /\ ledger' = [ledger EXCEPT ![o] = @ + Amount[t]]
      /\ topup' = [topup EXCEPT ![t] = "completed"]
      /\ credited' = [credited EXCEPT ![t] = @ + 1]
      /\ End(s) /\ UNCHANGED <<locked, applied, wd>>
  BY DEF CompleteTopup, TopupOps
<1>2. t \in Topups /\ o \in Owners /\ Amount[t] \in Nat
  <2>1. sess[s].op \in RowOps /\ RowKnown(s)
    BY <1>1 DEF WInv, SessionInv, RowOps, TopupOps
  <2> QED BY <2>1, <1>1, LockedRow DEF WInv, RowKnown
<1> HIDE DEF t, o
<1>3. MoneyType'
  BY <1>1, <1>2 DEF WInv, MoneyType, TopupStates
<1>4. /\ SessType' /\ SessionInv(s)'
      /\ \A q \in Sessions \ {s} :
          /\ sess'[q] = sess[q] /\ delta'[q] = delta[q]
          /\ \A l \in Owners \cup Rows : holder'[l] = q <=> holder[l] = q
  BY <1>1, <1>3, EndEffect, IdleSession DEF WInv
<1>5. ASSUME NEW q \in Sessions, q # s PROVE SessionInv(q)'
  <2>1. Covered(q)'
    BY <1>1, <1>2, <1>4, <1>5 DEF WInv, SessionInv, Covered, MoneyType, SessType
  <2>2. \A x \in sess[q].done : applied'[x] = 0
    BY <1>1 DEF WInv, SessionInv, UncommittedIsLocked
  <2>3. sess[q].op \in WithdrawalOps => wd[sess[q].item] # "none"
    BY DEF WInv, SessionInv, RowKnown
  <2> QED BY <1>1, <1>4, <1>5, <2>1, <2>2, <2>3, Undisturbed DEF WInv
<1>6. LedgerExplainsBalance' /\ TransferredOnce'
  BY <1>1, <1>2 DEF WInv, LedgerExplainsBalance, TransferredOnce, MoneyType
<1>7. LockedCoversWithdrawals'
  BY <1>1, SameOpen DEF WInv, OpenOf
<1> QED BY <1>3, <1>4, <1>5, <1>6, <1>7 DEF WInv

\* The end of a withdrawal: rejected, cancelled or paid out.
LEMMA CloseStep ==
    ASSUME WInv, NEW s \in Sessions, sess[s].op \in WithdrawalOps, Locked(s), End(s),
           NEW out \in WithdrawalStates \ Open, out # "none",
           wd' = [wd EXCEPT ![sess[s].item] = out],
           locked' = [locked EXCEPT ![OwnerOf[sess[s].item]] = @ - Amount[sess[s].item]],
           \/ /\ avail' = [avail EXCEPT ![OwnerOf[sess[s].item]] = @ + Amount[sess[s].item]]
              /\ ledger' = ledger
           \/ /\ ledger' = [ledger EXCEPT ![OwnerOf[sess[s].item]] = @ - Amount[sess[s].item]]
              /\ avail' = avail,
           UNCHANGED <<applied, topup, credited>>
    PROVE  WInv'
<1> DEFINE w == sess[s].item
           o == OwnerOf[w]
<1>1. sess[s].op \in RowOps /\ RowKnown(s)
  BY DEF WInv, SessionInv, RowOps, WithdrawalOps
<1>2. /\ w \in Withdrawals /\ o \in Owners /\ Amount[w] \in Nat
      /\ holder[w] = s /\ holder[o] = s
  BY <1>1, LockedRow DEF WInv, RowKnown
<1>3. wd[w] \in Open
  BY <1>1, <1>2 DEF RowKnown, Demands, Open
<1>4. LockedCoversWithdrawals' /\ locked[o] - Amount[w] \in Nat
  <2>1. /\ wd' = [wd EXCEPT ![w] = out] /\ locked' = [locked EXCEPT ![OwnerOf[w]] = @ - Amount[w]]
        /\ MoneyType /\ LockedCoversWithdrawals
    BY DEF WInv
  <2> HIDE DEF w
  <2> QED BY <2>1, <1>2, <1>3, CloseOne
<1>5. /\ wd' = [wd EXCEPT ![w] = out]
      /\ locked' = [locked EXCEPT ![o] = @ - Amount[w]]
      /\ \/ avail' = [avail EXCEPT ![o] = @ + Amount[w]] /\ ledger' = ledger
         \/ ledger' = [ledger EXCEPT ![o] = @ - Amount[w]] /\ avail' = avail
  OBVIOUS
<1> HIDE DEF w, o
<1>6. MoneyType'
  <2>1. avail' \in [Owners -> Nat] /\ ledger' \in [Owners -> Int]
    BY <1>2, <1>5 DEF WInv, MoneyType
  <2>2. locked' \in [Owners -> Nat]
    BY <1>2, <1>4, <1>5 DEF WInv, MoneyType
  <2>3. wd' \in [Withdrawals -> WithdrawalStates]
    BY <1>5 DEF WInv, MoneyType
  <2> QED BY <2>1, <2>2, <2>3 DEF WInv, MoneyType
<1>7. /\ SessType' /\ SessionInv(s)'
      /\ \A q \in Sessions \ {s} :
          /\ sess'[q] = sess[q] /\ delta'[q] = delta[q]
          /\ \A l \in Owners \cup Rows : holder'[l] = q <=> holder[l] = q
  BY <1>6, EndEffect, IdleSession DEF WInv
<1>8. ASSUME NEW q \in Sessions, q # s PROVE SessionInv(q)'
  <2>1. Covered(q)'
    <3> SUFFICES ASSUME NEW p \in Owners PROVE avail'[p] + delta'[q][p] >= 0
      BY DEF Covered
    <3>1. /\ avail[p] \in Nat /\ delta[q][p] \in Int /\ avail[p] + delta[q][p] >= 0
          /\ delta'[q] = delta[q]
      BY <1>7, <1>8 DEF WInv, SessionInv, Covered, MoneyType, SessType
    <3>2. avail'[p] = avail[p] \/ avail'[p] = avail[p] + Amount[w]
      BY <1>2, <1>5 DEF WInv, MoneyType
    <3> QED BY <3>1, <3>2, <1>2
  <2>2. \A x \in sess[q].done : applied'[x] = 0
    BY DEF WInv, SessionInv, UncommittedIsLocked
  <2>3. sess[q].op \in WithdrawalOps =>
             /\ wd'[sess[q].item] # "none"
             /\ holder[sess[q].item] = q => wd'[sess[q].item] = wd[sess[q].item]
    BY <1>2, <1>5, <1>8 DEF WInv, SessionInv, RowKnown, MoneyType
  <2> QED BY <1>7, <1>8, <2>1, <2>2, <2>3, Undisturbed DEF WInv
<1>9. LedgerExplainsBalance'
  <2> SUFFICES ASSUME NEW p \in Owners PROVE avail'[p] + locked'[p] = ledger'[p]
    BY DEF LedgerExplainsBalance
  <2>1. /\ avail[p] \in Nat /\ locked[p] \in Nat /\ ledger[p] \in Int
        /\ avail[p] + locked[p] = ledger[p]
    BY DEF WInv, MoneyType, LedgerExplainsBalance
  <2>2. CASE p = o
    BY <2>1, <2>2, <1>2, <1>5 DEF WInv, MoneyType
  <2>3. CASE p # o
    BY <2>1, <2>3, <1>2, <1>5 DEF WInv, MoneyType
  <2> QED BY <2>2, <2>3
<1>10. TransferredOnce'
  BY DEF WInv, TransferredOnce
<1> QED BY <1>4, <1>6, <1>7, <1>8, <1>9, <1>10 DEF WInv

\* Reject, cancel and complete preserve the invariant.
LEMMA ReviewSteps ==
    ASSUME WInv, NEW s \in Sessions,
           RejectWithdrawal(s) \/ CancelWithdrawal(s) \/ CompleteWithdrawal(s)
    PROVE  WInv'
<1>1. CASE RejectWithdrawal(s)
  BY <1>1, CloseStep
     DEF RejectWithdrawal, Unlock, WithdrawalOps, WithdrawalStates, Open
<1>2. CASE CancelWithdrawal(s)
  BY <1>2, CloseStep
     DEF CancelWithdrawal, Unlock, WithdrawalOps, WithdrawalStates, Open
<1>3. CASE CompleteWithdrawal(s)
  BY <1>3, CloseStep
     DEF CompleteWithdrawal, WithdrawalOps, WithdrawalStates, Open
<1> QED BY <1>1, <1>2, <1>3

-----------------------------------------------------------------------------
(* The theorems *)

\* Every step preserves the invariant.
LEMMA WNext == WInv /\ [Next]_vars => WInv'
<1> SUFFICES ASSUME WInv, [Next]_vars PROVE WInv'
  OBVIOUS
<1>1. CASE \E g \in Grants : Grant(g)
  BY <1>1, GrantStep
<1>2. CASE \E t \in Topups : CreateTopup(t) \/ FailTopup(t)
  BY <1>2, TopupStep
<1>3. CASE \E w \in Withdrawals : CreateWithdrawal(w) \/ ApproveWithdrawal(w)
  BY <1>3, CreateWithdrawalStep, ApproveStep
<1>4. ASSUME NEW s \in Sessions,
             \/ \E x \in Transfers : BeginTransfer(s, x)
             \/ \E b \in Batches : BeginBatch(s, b)
             \/ \E t \in Topups : BeginFulfill(s, t)
             \/ \E i \in Rows, op \in RowOps : BeginRow(s, op, i)
      PROVE  WInv'
  BY <1>4, BeginSteps
<1>5. ASSUME NEW s \in Sessions,
             \/ \E o \in Owners : LockWallet(s, o)
             \/ \E i \in Rows : LockRow(s, i)
      PROVE  WInv'
  BY <1>5, LockWalletStep, LockRowStep
<1>6. ASSUME NEW s \in Sessions, RefuseRow(s) \/ Abort(s) \/ Duplicate(s) PROVE WInv'
  BY <1>6, RollbackStep DEF RefuseRow, Abort, Duplicate
<1>7. ASSUME NEW s \in Sessions,
             SkipCharge(s) \/ Transfer(s) \/ Insufficient(s) \/ CommitTransfers(s)
      PROVE  WInv'
  BY <1>7, SkipChargeStep, TransferStep, InsufficientStep, CommitStep
<1>8. ASSUME NEW s \in Sessions,
             \/ CompleteTopup(s) \/ RejectWithdrawal(s)
             \/ CancelWithdrawal(s) \/ CompleteWithdrawal(s)
      PROVE  WInv'
  BY <1>8, CompleteTopupStep, ReviewSteps
<1>9. CASE UNCHANGED vars
  <2>1. UNCHANGED <<avail, locked, ledger, applied, topup, credited, wd, holder, sess, delta>>
    BY <1>9 DEF vars, moneyVars, sessVars
  <2>2. MoneyType' /\ SessType' /\ LedgerExplainsBalance' /\ TransferredOnce'
    BY <2>1 DEF WInv, MoneyType, SessType, LedgerExplainsBalance, TransferredOnce
  <2>3. LockedCoversWithdrawals'
    BY <2>1, SameOpen DEF WInv, OpenOf
  <2>4. \A q \in Sessions : SessionInv(q)'
    BY <2>1 DEF WInv, SessionInv, IdleHoldsNothing, UncommittedIsLocked, Covered,
                RowKnown, InOrder
  <2> QED BY <2>2, <2>3, <2>4 DEF WInv
<1> QED BY <1>1, <1>2, <1>3, <1>4, <1>5, <1>6, <1>7, <1>8, <1>9 DEF Next

\* The wallets keep the invariant.
LEMMA WalletInvariant == Spec => []WInv
BY WInit, WNext, PTL DEF Spec

\* The two wallets of a transfer are locked in the order of ids.
LEMMA SortedRank ==
    ASSUME NEW x \in Transfers
    PROVE  /\ Sorted(x) # <<>> /\ Sorted(x)[1] \in Owners /\ Sorted(x)[2] \in Owners
           /\ Rank[Sorted(x)[1]] < Rank[Sorted(x)[2]]
<1>1. /\ From[x] \in Owners /\ To[x] \in Owners
      /\ Rank[From[x]] \in Nat /\ Rank[To[x]] \in Nat /\ Rank[From[x]] # Rank[To[x]]
  BY WalletAssumption
<1> QED BY <1>1 DEF Sorted

\* Who has a lock and waits for another waits for a wallet; and if what it has
\* is a wallet, the one it waits for has a higher rank.
LEMMA HolderWaits ==
    ASSUME WInv, NEW r \in Sessions, sess[r].op # "billing",
           NEW l \in Owners \cup Rows, holder[l] = r, Want(r) # None
    PROVE  /\ Want(r) \in Owners
           /\ l \in Owners => Rank[l] < Rank[Want(r)]
<1>1. sess[r].op = "transfer" \/ sess[r].op \in RowOps
  BY DEF WInv, SessType, SessionRecords, SessionInv, IdleHoldsNothing, MoveOps
<1>2. CASE sess[r].op = "transfer"
  <2>1. sess[r].todo # <<>>
    BY <1>2 DEF Want, Plan, MoveOps
  <2>2. Head(sess[r].todo) \in Transfers
    BY <2>1 DEF WInv, SessType, SessionRecords
  <2> DEFINE p == Sorted(Head(sess[r].todo))
  <2>3. Plan(r) = p
    BY <1>2, <2>1 DEF Plan, MoveOps
  <2>4. (l = p[1] \/ l = p[2]) /\ (holder[p[2]] = r => holder[p[1]] = r)
    BY <1>2, <2>1 DEF WInv, SessionInv, InOrder
  <2>5. /\ p # <<>> /\ p[1] \in Owners /\ p[2] \in Owners /\ Rank[p[1]] < Rank[p[2]]
    BY <2>2, SortedRank
  <2> HIDE DEF p
  <2> QED BY <2>3, <2>4, <2>5 DEF Want
<1>3. CASE sess[r].op \in RowOps
  <2> DEFINE i == sess[r].item
  <2>1. i \in Rows /\ OwnerOf[i] \in Owners
    BY <1>3, WalletAssumption
       DEF WInv, SessionInv, RowKnown, Rows, RowOps, TopupOps, WithdrawalOps
  <2>2. Plan(r) = <<i, OwnerOf[i]>>
    BY <1>3 DEF Plan, RowOps, MoveOps
  <2>3. (l = i \/ l = OwnerOf[i]) /\ (holder[OwnerOf[i]] = r => holder[i] = r)
    BY <1>3 DEF WInv, SessionInv, RowKnown
  <2>4. i \notin Owners
    BY <2>1, WalletAssumption
  <2> HIDE DEF i
  <2> QED BY <2>1, <2>2, <2>3, <2>4 DEF Want
<1> QED BY <1>1, <1>2, <1>3

\* What a session waits for is a lock.
LEMMA WantIsLock ==
    ASSUME WInv, NEW s \in Sessions, Want(s) # None
    PROVE  Want(s) \in Owners \cup Rows
<1>1. CASE sess[s].op \in MoveOps
  <2>1. sess[s].todo # <<>>
    BY <1>1 DEF Want, Plan
  <2>2. Head(sess[s].todo) \in Transfers
    BY <2>1 DEF WInv, SessType, SessionRecords
  <2>3. Plan(s) = Sorted(Head(sess[s].todo))
    BY <1>1, <2>1 DEF Plan
  <2> QED BY <2>2, <2>3, SortedRank DEF Want
<1>2. CASE sess[s].op \in RowOps
  <2>1. sess[s].item \in Rows /\ OwnerOf[sess[s].item] \in Owners
    BY <1>2, WalletAssumption
       DEF WInv, SessionInv, RowKnown, Rows, RowOps, TopupOps, WithdrawalOps
  <2>2. Plan(s) = <<sess[s].item, OwnerOf[sess[s].item]>>
    BY <1>2 DEF Plan, RowOps, MoveOps
  <2> QED BY <2>1, <2>2 DEF Want
<1>3. CASE sess[s].op \notin MoveOps \cup RowOps
  BY <1>3 DEF Want, Plan
<1> QED BY <1>1, <1>2, <1>3

\* Of the sessions that wait for each other, take one that waits for a wallet
\* of highest rank: who has that wallet waits for a higher one.
LEMMA NoCircle ==
    ASSUME WInv
    PROVE  DeadlockNeedsBatch
<1> SUFFICES ASSUME NEW S \in SUBSET {s \in Sessions : sess[s].op # "billing"}, S # {},
                    \A s \in S : Want(s) # None /\ holder[Want(s)] \in S \ {s}
             PROVE  FALSE
  BY DEF DeadlockNeedsBatch
<1>1. \A s \in S : s \in Sessions /\ sess[s].op # "billing"
  OBVIOUS
<1>2. \A s \in S : Want(s) \in Owners \cup Rows
  BY <1>1, WantIsLock
<1>3. \A s \in S : /\ holder[Want(s)] \in S
                   /\ Want(holder[Want(s)]) \in Owners
                   /\ Want(s) \in Owners => Rank[Want(s)] < Rank[Want(holder[Want(s)])]
  <2> SUFFICES ASSUME NEW s \in S
               PROVE  /\ holder[Want(s)] \in S
                      /\ Want(holder[Want(s)]) \in Owners
                      /\ Want(s) \in Owners => Rank[Want(s)] < Rank[Want(holder[Want(s)])]
    OBVIOUS
  <2>1. PICK r \in S : holder[Want(s)] = r
    OBVIOUS
  <2>2. r \in Sessions /\ sess[r].op # "billing" /\ Want(r) # None
    BY <1>1
  <2>3. Want(s) \in Owners \cup Rows
    BY <1>2
  <2> QED BY <2>1, <2>2, <2>3, HolderWaits
<1> DEFINE V == {s \in S : Want(s) \in Owners}
           Up(s) == {q \in V : Rank[Want(s)] < Rank[Want(q)]}
           T == {Up(s) : s \in V}
<1>4. V # {}
  BY <1>3
<1>5. T \in SUBSET (SUBSET Sessions) /\ T # {}
  <2>1. \A s \in V : Up(s) \subseteq Sessions
    BY <1>1
  <2> HIDE DEF V, Up
  <2> QED BY <2>1, <1>4
<1>6. PICK u \in T : \A y \in T : ~(y \subseteq u /\ y # u)
  <2> HIDE DEF T
  <2> QED BY <1>5, WalletAssumption, Minimal
<1>7. PICK s \in V : u = Up(s)
  OBVIOUS
<1> DEFINE r == holder[Want(s)]
<1>8. r \in V /\ Rank[Want(s)] < Rank[Want(r)]
  BY <1>3, <1>7
<1>9. \A q \in V : Rank[Want(q)] \in Nat
  BY WalletAssumption
<1> HIDE DEF r
<1>10. Up(r) \subseteq Up(s) /\ r \in Up(s) /\ r \notin Up(r)
  <2>1. s \in V /\ r \in V /\ Rank[Want(s)] \in Nat /\ Rank[Want(r)] \in Nat
    BY <1>7, <1>8, <1>9
  <2> HIDE DEF V
  <2> QED BY <2>1, <1>8, <1>9
<1>11. Up(r) \in T
  BY <1>8
<1> QED BY <1>6, <1>7, <1>10, <1>11

\* Every coin is accounted for: no balance below zero, with the uncommitted
\* charges of a session or without, the ledger explains
\* each of them, and what is locked belongs to open withdrawals
\* (services/wallet.py).
THEOREM CoinsKept == Spec => []CoinsAccountedFor
<1>1. WInv => CoinsAccountedFor
  <2> SUFFICES ASSUME WInv PROVE TypeOK
    BY DEF WInv, CoinsAccountedFor, NeverOverdrawn, Balance, SessionInv, Covered
  <2>1. \A s \in Sessions :
        /\ sess[s].op \in {"idle"} \cup MoveOps \cup RowOps
        /\ sess[s].todo \in Seq(Transfers)
        /\ sess[s].done \subseteq Transfers /\ sess[s].kept \subseteq Owners
    BY DEF WInv, SessType, SessionRecords
  <2>2. \A s \in Sessions : sess[s].op \in RowOps => sess[s].item \in Rows
    BY DEF WInv, SessionInv, RowKnown, RowOps, TopupOps, WithdrawalOps, Rows
  <2>3. \A s \in Sessions : \A i \in 1..Len(sess[s].todo) : sess[s].todo[i] \in Transfers
    BY <2>1
  <2> QED BY <2>1, <2>2, <2>3 DEF WInv, MoneyType, SessType, TypeOK
<1> QED BY <1>1, WalletInvariant, PTL

\* An idempotency key moves money once, however many sessions carry it
\* (create_transfer and its unique key).
THEOREM MovedOnce == Spec => []TransferredOnce
<1>1. WInv => TransferredOnce
  BY DEF WInv
<1> QED BY <1>1, WalletInvariant, PTL

\* The locks are taken in an order that rules out circles of waiting sessions,
\* unless a billing batch is among them (_lock_wallet, sorted owner ids).
THEOREM OnlyBatchesDeadlock == Spec => []DeadlockNeedsBatch
<1>1. WInv => DeadlockNeedsBatch
  BY NoCircle
<1> QED BY <1>1, WalletInvariant, PTL
=============================================================================
