-------------------------- MODULE TurnQueueProofs --------------------------
(***************************************************************************)
(* Proofs about the conversation queue of the dispatcher, in both modes,   *)
(* for any messages and caps: one turn at a time, acks only after an       *)
(* outcome, replies in the order of the queue, and the newest message is   *)
(* never the one that drops out.                                           *)
(***************************************************************************)
EXTENDS TurnQueue, WellFoundedInduction, TLAPS

-----------------------------------------------------------------------------
(* Naturals and sequences *)

\* Induction over naturals: a set of naturals has a least member.
LEMMA Least ==
  ASSUME NEW K \in SUBSET Nat, K # {}
  PROVE  \E k \in K : \A j \in K : ~(j < k)
<1>1. IsWellFoundedOn(OpToRel(<, Nat), Nat)
  BY Zenon, NatLessThanWellFounded
<1>2. \E k \in K : \A j \in K : ~(<<j, k>> \in OpToRel(<, Nat))
  BY Zenon, <1>1, WFMin
<1>3. \A j, k \in Nat : j < k => <<j, k>> \in OpToRel(<, Nat)
  BY DEF OpToRel
<1> QED BY <1>2, <1>3

\* FlattenSeq appends the sequences one by one; FlatFun is the recursive
\* function it unfolds to.
FlatStep(g, seqs) ==
  [i \in 1..Len(seqs) |-> IF i = 1 THEN seqs[i] ELSE g[i-1] \o seqs[i]]
FlatFun(seqs) == CHOOSE g : g = FlatStep(g, seqs)

\* What FlattenSeq returns is the last value of that function.
LEMMA FlattenIsFun ==
  ASSUME NEW seqs, Len(seqs) # 0
  PROVE  FlattenSeq(seqs) = FlatFun(seqs)[Len(seqs)]
BY Zenon DEF FlattenSeq, FlatStep, FlatFun

\* The function exists.
LEMMA FlatFunExists ==
  ASSUME NEW X, NEW seqs \in Seq(Seq(X))
  PROVE  FlatFun(seqs) = FlatStep(FlatFun(seqs), seqs)
<1> DEFINE n == Len(seqs)
           Good(g, k) == /\ DOMAIN g = 1..k
                         /\ g = [i \in 1..k |-> IF i = 1 THEN seqs[i] ELSE g[i-1] \o seqs[i]]
           K == {k \in 0..n : ~ \E g : Good(g, k)}
<1>0. n \in Nat
  OBVIOUS
<1>1. K = {}
  <2> SUFFICES ASSUME K # {} PROVE FALSE
    OBVIOUS
  <2>1. K \in SUBSET Nat
    <3> HIDE DEF Good, n
    <3> QED BY <1>0
  <2>2. PICK k \in K : \A j \in K : ~(j < k)
    <3> HIDE DEF K
    <3> QED BY <2>1, Least
  <2>3. k # 0
    <3>1. Good([i \in 1..0 |-> seqs[i]], 0)
      OBVIOUS
    <3> HIDE DEF Good
    <3> QED BY <3>1
  <2>4. k - 1 \in 0..n /\ k-1 < k /\ k \in 1..n
    BY <2>3, <1>0
  <2>5. PICK h : Good(h, k-1)
    BY <2>2, <2>4
  <2> DEFINE g == [i \in 1..k |-> IF i = 1 THEN seqs[i] ELSE h[i-1] \o seqs[i]]
  <2>6. \A i \in 1..k-1 : g[i] = h[i]
    <3>1. \A i \in 1..k-1 : h[i] = IF i = 1 THEN seqs[i] ELSE h[i-1] \o seqs[i]
      BY <2>5
    <3> QED BY <3>1, <2>4
  <2>7. \A i \in 1..k : i # 1 => h[i-1] = g[i-1]
    <3> SUFFICES ASSUME NEW i \in 1..k, i # 1 PROVE h[i-1] = g[i-1]
      OBVIOUS
    <3>1. i - 1 \in 1..k-1
      BY <2>4
    <3> HIDE DEF g
    <3> QED BY <3>1, <2>6
  <2>8. g = [i \in 1..k |-> IF i = 1 THEN seqs[i] ELSE g[i-1] \o seqs[i]]
    <3> DEFINE a(i) == IF i = 1 THEN seqs[i] ELSE h[i-1] \o seqs[i]
               b(i) == IF i = 1 THEN seqs[i] ELSE g[i-1] \o seqs[i]
    <3>1. \A i \in 1..k : a(i) = b(i)
      <4> HIDE DEF g
      <4> QED BY <2>7
    <3>2. g = [i \in 1..k |-> a(i)]
      OBVIOUS
    <3> HIDE DEF a, b, g
    <3>3. g = [i \in 1..k |-> b(i)]
      BY <3>1, <3>2
    <3> QED BY <3>3 DEF b
  <2>9. Good(g, k)
    <3>1. DOMAIN g = 1..k
      OBVIOUS
    <3> HIDE DEF g
    <3> QED BY <2>8, <3>1
  <2> HIDE DEF Good
  <2> QED BY <2>9, <2>2
<1>2. \E g : Good(g, n)
  <2>1. n \in 0..n
    BY <1>0
  <2> HIDE DEF Good, n
  <2> QED BY <2>1, <1>1
<1>3. \E g : g = FlatStep(g, seqs)
  BY <1>2 DEF FlatStep
<1> QED BY <1>3 DEF FlatFun

\* FlattenSeq of a list of lists: its members are theirs, and its last item is
\* the last item of the last one.
LEMMA FlatContents ==
  ASSUME NEW X, NEW seqs \in Seq(Seq(X)), Len(seqs) # 0
  PROVE  /\ FlattenSeq(seqs) \in Seq(X)
         /\ \A i \in 1..Len(seqs) : ToSet(seqs[i]) \subseteq ToSet(FlattenSeq(seqs))
         /\ \A x \in ToSet(FlattenSeq(seqs)) : \E i \in 1..Len(seqs) : x \in ToSet(seqs[i])
         /\ Len(seqs[Len(seqs)]) # 0 =>
             /\ Len(FlattenSeq(seqs)) # 0
             /\ FlattenSeq(seqs)[Len(FlattenSeq(seqs))] = seqs[Len(seqs)][Len(seqs[Len(seqs)])]
<1> DEFINE n == Len(seqs)
           f == FlatFun(seqs)
<1>0. n \in Nat /\ n # 0
  OBVIOUS
<1>1. f = FlatStep(f, seqs)
  BY FlatFunExists
<1> HIDE DEF f
<1>2. \A i \in 1..n : f[i] = IF i = 1 THEN seqs[i] ELSE f[i-1] \o seqs[i]
  <2> SUFFICES ASSUME NEW i \in 1..n
               PROVE  FlatStep(f, seqs)[i] = IF i = 1 THEN seqs[i] ELSE f[i-1] \o seqs[i]
    BY <1>1
  <2> QED BY DEF FlatStep
<1>3. \A i \in 1..n : seqs[i] \in Seq(X)
  OBVIOUS
<1> DEFINE Right(i) == /\ f[i] \in Seq(X)
                       /\ \A j \in 1..i : ToSet(seqs[j]) \subseteq ToSet(f[i])
                       /\ \A x \in ToSet(f[i]) : \E j \in 1..i : x \in ToSet(seqs[j])
                       /\ Len(seqs[i]) # 0 => /\ Len(f[i]) # 0
                                              /\ f[i][Len(f[i])] = seqs[i][Len(seqs[i])]
           K == {i \in 1..n : ~Right(i)}
<1>4. K = {}
  <2> SUFFICES ASSUME K # {} PROVE FALSE
    OBVIOUS
  <2>1. K \in SUBSET Nat
    BY <1>0
  <2>2. PICK k \in K : \A j \in K : ~(j < k)
    <3> HIDE DEF K
    <3> QED BY <2>1, Least
  <2>3. CASE k = 1
    <3>1. f[1] = seqs[1] /\ seqs[1] \in Seq(X)
      BY <1>0, <1>2, <1>3
    <3>2. Right(1)
      BY <3>1
    <3> HIDE DEF Right
    <3> QED BY <2>2, <2>3, <3>2
  <2>4. CASE k # 1
    <3>1. k - 1 \in 1..n /\ k \in 1..n /\ k-1 < k
      BY <2>4, <1>0
    <3>2. Right(k-1)
      <4> HIDE DEF Right
      <4> QED BY <3>1, <2>2
    <3>3. f[k] = f[k-1] \o seqs[k] /\ seqs[k] \in Seq(X)
      BY <2>4, <3>1, <1>2, <1>3
    <3>4. f[k-1] \in Seq(X)
      BY <3>2
    <3>5. f[k] \in Seq(X)
      BY <3>3, <3>4
    <3> DEFINE u == f[k-1]
               v == seqs[k]
               w == f[k]
    <3>6. /\ w = u \o v /\ u \in Seq(X) /\ v \in Seq(X)
      BY <3>3, <3>4
    <3>7. /\ ToSet(w) = ToSet(u) \cup ToSet(v)
          /\ Len(v) # 0 => Len(w) # 0 /\ w[Len(w)] = v[Len(v)]
      <4> HIDE DEF u, v, w
      <4>1. /\ Len(w) = Len(u) + Len(v) /\ Len(u) \in Nat /\ Len(v) \in Nat
            /\ DOMAIN w = 1..Len(w) /\ DOMAIN u = 1..Len(u) /\ DOMAIN v = 1..Len(v)
            /\ \A i \in 1..Len(u) : w[i] = u[i]
            /\ \A i \in 1..Len(v) : w[Len(u) + i] = v[i]
        BY <3>6
      <4>2. ToSet(w) \subseteq ToSet(u) \cup ToSet(v)
        <5> SUFFICES ASSUME NEW i \in 1..Len(w) PROVE w[i] \in ToSet(u) \cup ToSet(v)
          BY <4>1 DEF ToSet
        <5>1. CASE i <= Len(u)
          <6>1. i \in 1..Len(u)
            BY <4>1, <5>1
          <6>2. w[i] = u[i] /\ i \in DOMAIN u
            BY <4>1, <6>1
          <6> QED BY <6>2 DEF ToSet
        <5>2. CASE ~(i <= Len(u))
          <6>1. i - Len(u) \in 1..Len(v) /\ Len(u) + (i - Len(u)) = i
            BY <4>1, <5>2
          <6>2. w[i] = v[i - Len(u)]
            BY <4>1, <6>1
          <6> QED BY <4>1, <6>1, <6>2 DEF ToSet
        <5> QED BY <5>1, <5>2
      <4>3. ToSet(u) \subseteq ToSet(w)
        BY <4>1 DEF ToSet
      <4>4. ToSet(v) \subseteq ToSet(w)
        <5> SUFFICES ASSUME NEW i \in 1..Len(v) PROVE v[i] \in ToSet(w)
          BY <4>1 DEF ToSet
        <5>1. Len(u) + i \in DOMAIN w /\ w[Len(u) + i] = v[i]
          BY <4>1
        <5> QED BY <5>1 DEF ToSet
      <4>5. Len(v) # 0 => Len(w) # 0 /\ w[Len(w)] = v[Len(v)]
        BY <4>1
      <4> QED BY <4>2, <4>3, <4>4, <4>5
    <3>8. \A j \in 1..k : ToSet(seqs[j]) \subseteq ToSet(f[k])
      <4> SUFFICES ASSUME NEW j \in 1..k PROVE ToSet(seqs[j]) \subseteq ToSet(w)
        OBVIOUS
      <4>1. j = k \/ j \in 1..k-1
        BY <3>1
      <4>2. j \in 1..k-1 => ToSet(seqs[j]) \subseteq ToSet(u)
        BY <3>2
      <4>3. j = k => seqs[j] = v
        OBVIOUS
      <4> HIDE DEF u, v, w
      <4> QED BY <4>1, <4>2, <4>3, <3>7
    <3>9. \A x \in ToSet(f[k]) : \E j \in 1..k : x \in ToSet(seqs[j])
      <4>1. \A x \in ToSet(u) : \E j \in 1..k-1 : x \in ToSet(seqs[j])
        BY <3>2
      <4>2. \A j \in 1..k-1 : j \in 1..k
        BY <3>1
      <4>3. k \in 1..k
        BY <3>1
      <4>4. ToSet(f[k]) = ToSet(u) \cup ToSet(seqs[k])
        BY <3>7
      <4> HIDE DEF u, w
      <4> QED BY <4>1, <4>2, <4>3, <4>4
    <3>10. Right(k)
      BY <3>5, <3>7, <3>8, <3>9
    <3> HIDE DEF Right
    <3> QED BY <2>2, <3>10
  <2> QED BY <2>3, <2>4
<1>5. Right(n)
  <2> HIDE DEF Right
  <2> QED BY <1>0, <1>4
<1>6. FlattenSeq(seqs) = f[n]
  BY FlattenIsFun DEF f
<1> QED BY <1>5, <1>6

-----------------------------------------------------------------------------
(* The inductive invariant *)

Waiting == {"idle", "deferring", "gate"}

\* The two modes use different parts of QueueState.
ModeShape ==
  /\ mode = "cancel" =>
       /\ worker = NoMsg /\ buffer = <<>> /\ drained = <<>>
       /\ \A m \in Msgs : pc[m] \notin {"trim", "completion"}
  /\ mode = "serial" => \A m \in Msgs : pc[m] \notin {"awaitPrev", "running", "settle"}

\* A call carries its message, and beside it only attachments.
Carried ==
  /\ \A m \in Msgs \ Multimodal : pc[m] \notin {"idle", "deferring"} => m \in ToSet(batch[m])
  /\ \A m \in Multimodal : pc[m] \in {"idle", "deferring", "done"}
  /\ \A m \in Msgs : ToSet(batch[m]) \subseteq Multimodal \cup {m}
  /\ \A m \in Msgs : pc[m] = "deferring" => m \in Multimodal
  /\ ToSet(deferred) \subseteq Multimodal

\* What is in the queue has entered it, once, and is not at the gate any more.
Entered ==
  /\ \A i, j \in DOMAIN entered : entered[i] = entered[j] => i = j
  /\ \A x \in ToSet(entered) : x \notin Multimodal /\ pc[x] \notin Waiting
  /\ ToSet(buffer) \subseteq ToSet(entered)
  /\ ToSet(drained) \subseteq ToSet(entered)
  /\ ToSet(sent) \subseteq ToSet(entered)
  /\ \A m \in Msgs : pc[m] = "trim" => waitFor[m] \in ToSet(entered)
  /\ \A m \in Msgs : turn[m].phase # "none" => m \in ToSet(entered)

\* The slot: the turn that executes is the current one, and in serial mode the
\* one the worker waits for.
Slot ==
  /\ current # NoMsg => turn[current].phase \notin {"none", "done"}
  /\ \A m \in Msgs : Executing(m) =>
       /\ current = m
       /\ mode = "cancel" => pc[m] = "running"
       /\ mode = "serial" => drained # <<>> /\ m = drained[Len(drained)]
  /\ drained # <<>> => worker # NoMsg
  /\ \A m \in Msgs : turn[m].phase # "none" => pc[m] # "awaitPrev"

\* Generations: only the last message that entered has the current one, and if
\* it waits, it waits for the turn in the slot.
Generations ==
  mode = "cancel" =>
    /\ \A m \in Msgs : myGen[m] <= cancelGen
    /\ \A m \in Msgs : pc[m] = "awaitPrev" =>
         /\ entered # <<>> /\ waitFor[m] \in Msgs
         /\ myGen[m] = cancelGen => m = entered[Len(entered)] /\ current \in {waitFor[m], NoMsg}
    /\ entered # <<>> =>
         LET last == entered[Len(entered)] IN
         /\ myGen[last] = cancelGen
         /\ pc[last] # "settle"
         /\ settled[last] # "superseded"
    /\ \A m \in Msgs : pc[m] = "gate" => settled[m] # "superseded"

\* Outcomes: who is about to be acked has one, and who is drained has one or
\* is an input of the running turn.
Outcome ==
  /\ \A m \in Msgs : pc[m] = "finally" => settled[m] # "none"
  /\ \A m \in Msgs : completion[m] = "resolved" =>
       settled[m] # "none" /\ pc[m] \notin {"idle", "deferring"}
  /\ \A x \in ToSet(drained) :
       \/ settled[x] # "none"
       \/ LET t == turn[drained[Len(drained)]]
          IN  t.phase # "done" /\ x \in ToSet(t.inputs)
  /\ mode = "cancel" =>
       \A m \in Msgs : turn[m].phase # "none" => m \in ToSet(turn[m].inputs)

\* x entered the queue before y.
Before(x, y) ==
  \E i, j \in DOMAIN entered : i < j /\ entered[i] = x /\ entered[j] = y

\* The turn has not sent its reply.
Unsent(m) == turn[m].phase \in {"runtime", "persist", "replying"}

\* Order: what was sent entered before what will be sent.
Order ==
  /\ \A i, j \in DOMAIN sent : i < j => Before(sent[i], sent[j])
  /\ \A x \in ToSet(sent) : pc[x] # "awaitPrev"
  /\ \A m \in Msgs : Unsent(m) =>
       /\ \A x \in ToSet(sent) : Before(x, m)
       /\ \A b \in ToSet(buffer) : Before(m, b)
  /\ \A x \in ToSet(sent), b \in ToSet(buffer) : Before(x, b)

QInv ==
  /\ TypeOK /\ ModeShape /\ Carried /\ Entered /\ Slot /\ Generations
  /\ Outcome /\ AckedTextIsSettled /\ Order

-----------------------------------------------------------------------------
(* Lists of messages *)

\* The members of the lists that the queue builds.
LEMMA ListFacts ==
  ASSUME NEW s \in Seq(Msgs)
  PROVE  /\ ToSet(s) \subseteq Msgs
         /\ s # <<>> => /\ Len(s) # 0 /\ s[Len(s)] \in ToSet(s) /\ s[Len(s)] \in Msgs
                        /\ Head(s) \in ToSet(s) /\ Head(s) \in Msgs
                        /\ Tail(s) \in Seq(Msgs) /\ Len(Tail(s)) = Len(s) - 1
                        /\ ToSet(Tail(s)) \subseteq ToSet(s)
<1>1. DOMAIN s = 1..Len(s) /\ Len(s) \in Nat /\ \A i \in 1..Len(s) : s[i] \in Msgs
  OBVIOUS
<1>2. ToSet(s) \subseteq Msgs
  BY <1>1 DEF ToSet
<1>3. ASSUME s # <<>>
      PROVE /\ Len(s) # 0 /\ s[Len(s)] \in ToSet(s) /\ s[Len(s)] \in Msgs
            /\ Head(s) \in ToSet(s) /\ Head(s) \in Msgs
  <2>1. Len(s) # 0 /\ Len(s) \in 1..Len(s) /\ 1 \in 1..Len(s) /\ Head(s) = s[1]
    BY <1>1, <1>3
  <2> QED BY <1>1, <2>1 DEF ToSet
<1>4. ASSUME s # <<>>
      PROVE  /\ Tail(s) \in Seq(Msgs) /\ Len(Tail(s)) = Len(s) - 1
             /\ ToSet(Tail(s)) \subseteq ToSet(s)
  <2>1. /\ Tail(s) \in Seq(Msgs) /\ Len(Tail(s)) = Len(s) - 1
        /\ \A i \in 1..Len(s)-1 : Tail(s)[i] = s[i+1]
    BY <1>4
  <2>2. DOMAIN Tail(s) = 1..Len(s)-1
    BY <2>1
  <2>3. \A i \in 1..Len(s)-1 : i+1 \in 1..Len(s)
    BY <1>1
  <2> QED BY <1>1, <2>1, <2>2, <2>3 DEF ToSet
<1> QED BY <1>2, <1>3, <1>4

\* A function on 1..n is a sequence.
LEMMA FcnIsSeq ==
  ASSUME NEW S, NEW n \in Nat, NEW f \in [1..n -> S]
  PROVE  f \in Seq(S) /\ Len(f) = n
OBVIOUS

\* Append adds its item, at the end.
LEMMA AppendFacts ==
  ASSUME NEW s \in Seq(Msgs), NEW m \in Msgs
  PROVE  /\ Append(s, m) \in Seq(Msgs) /\ Append(s, m) # <<>>
         /\ Len(Append(s, m)) = Len(s) + 1 /\ Len(s) \in Nat
         /\ Append(s, m)[Len(s) + 1] = m
         /\ \A i \in 1..Len(s) : Append(s, m)[i] = s[i]
         /\ ToSet(Append(s, m)) = ToSet(s) \cup {m}
<1> DEFINE a == Append(s, m)
<1>1. /\ a \in Seq(Msgs) /\ a # <<>> /\ Len(a) = Len(s) + 1 /\ Len(s) \in Nat
      /\ a[Len(s) + 1] = m /\ \A i \in 1..Len(s) : a[i] = s[i]
  OBVIOUS
<1>2. DOMAIN a = 1..Len(s)+1 /\ DOMAIN s = 1..Len(s)
  BY <1>1
<1> HIDE DEF a
<1>3. ToSet(a) = ToSet(s) \cup {m}
  <2>1. \A i \in 1..Len(s)+1 : i \in 1..Len(s) \/ i = Len(s) + 1
    BY <1>1
  <2>2. Len(s) + 1 \in 1..Len(s)+1 /\ \A i \in 1..Len(s) : i \in 1..Len(s)+1
    BY <1>1
  <2>3. ToSet(a) \subseteq ToSet(s) \cup {m}
    BY <1>1, <1>2, <2>1 DEF ToSet
  <2>4. ToSet(s) \subseteq ToSet(a) /\ m \in ToSet(a)
    BY <1>1, <1>2, <2>2 DEF ToSet
  <2> QED BY <2>3, <2>4
<1> QED BY <1>1, <1>3 DEF a

\* The empty list has no members.
LEMMA EmptyFacts == ToSet(<<>>) = {} /\ <<>> \in Seq(Msgs) /\ Len(<<>>) = 0
BY DEF ToSet

\* mergeSerialBuffer: every item of the entries is in the prompt or trimmed,
\* nothing else is, and the last item is in the prompt.
LEMMA MergeFacts ==
  ASSUME NEW entries \in Seq(Seq(Msgs)), Len(entries) # 0
  PROVE  /\ Merge(entries) \in Seq(Msgs)
         /\ \A i \in 1..Len(entries) : ToSet(entries[i]) \subseteq ToSet(Merge(entries)) \cup Trimmed(entries)
         /\ \A x \in ToSet(Merge(entries)) \cup Trimmed(entries) :
              \E i \in 1..Len(entries) : x \in ToSet(entries[i])
         /\ Len(entries[Len(entries)]) # 0 =>
              entries[Len(entries)][Len(entries[Len(entries)])] \in ToSet(Merge(entries))
<1> DEFINE items == FlattenSeq(entries)
<1>1. /\ items \in Seq(Msgs)
      /\ \A i \in 1..Len(entries) : ToSet(entries[i]) \subseteq ToSet(items)
      /\ \A x \in ToSet(items) : \E i \in 1..Len(entries) : x \in ToSet(entries[i])
      /\ Len(entries[Len(entries)]) # 0 =>
             /\ Len(items) # 0
             /\ items[Len(items)] = entries[Len(entries)][Len(entries[Len(entries)])]
  BY FlatContents
<1>2. Merge(entries) = IF Len(entries) = 1 \/ Len(items) <= CharCap THEN items
                       ELSE SubSeq(items, Len(items) - CharCap + 1, Len(items))
  BY DEF Merge
<1>3. Trimmed(entries) = ToSet(items) \ ToSet(Merge(entries))
  BY DEF Trimmed
<1> HIDE DEF items
<1>4. /\ Merge(entries) \in Seq(Msgs)
      /\ ToSet(Merge(entries)) \subseteq ToSet(items)
      /\ Len(items) # 0 => items[Len(items)] \in ToSet(Merge(entries))
  <2>0. CharCap \in Nat \ {0}
    BY QueueAssumption
  <2>1. CASE Len(entries) = 1 \/ Len(items) <= CharCap
    <3>1. Merge(entries) = items
      BY <2>1, <1>2
    <3>2. Len(items) # 0 => items # <<>>
      OBVIOUS
    <3> QED BY <3>1, <3>2, <1>1, ListFacts
  <2>2. CASE ~(Len(entries) = 1 \/ Len(items) <= CharCap)
    <3> DEFINE n == Len(items)
               k == n - CharCap + 1
               r == SubSeq(items, k, n)
    <3>1. n \in Nat /\ k \in 1..n
      BY <1>1, <2>0, <2>2
    <3>2. /\ r \in Seq(Msgs) /\ Len(r) = CharCap
          /\ \A i \in 1..CharCap : r[i] = items[k + i - 1]
      BY <1>1, <2>0, <3>1
    <3>3. DOMAIN r = 1..CharCap /\ DOMAIN items = 1..n
      BY <1>1, <3>2
    <3>4. Merge(entries) = r
      BY <1>2, <2>2
    <3>5. \A i \in 1..CharCap : k + i - 1 \in 1..n
      BY <2>0, <3>1
    <3>6. CharCap \in 1..CharCap /\ k + CharCap - 1 = n
      BY <2>0, <3>1
    <3> HIDE DEF n, k, r
    <3>7. ToSet(r) \subseteq ToSet(items)
      BY <3>2, <3>3, <3>5 DEF ToSet
    <3>8. items[n] \in ToSet(r)
      BY <3>2, <3>3, <3>6 DEF ToSet
    <3> QED BY <3>2, <3>4, <3>7, <3>8 DEF n
  <2> QED BY <2>1, <2>2
<1> QED BY <1>1, <1>3, <1>4

-----------------------------------------------------------------------------
(* The invariant holds at the start *)

TurnRecords == [phase : Phases, inputs : Seq(Msgs), superseded : BOOLEAN, killed : BOOLEAN,
                result : {"none", "text", "error", "threw"}]

\* A slot that was not created, and one that was just created.
LEMMA NewTurnTyped ==
  /\ NoTurn \in TurnRecords /\ NoTurn.phase = "none"
  /\ \A ins \in Seq(Msgs) : /\ NewTurn(ins) \in TurnRecords
                            /\ NewTurn(ins).phase = "runtime" /\ NewTurn(ins).inputs = ins
<1>1. <<>> \in Seq(Msgs)
  OBVIOUS
<1> QED BY <1>1 DEF NoTurn, NewTurn, TurnRecords, Phases

\* A dispatcher that has just started; only acks and outcomes may be older.
Started ==
  /\ mode \in Modes
  /\ pc = [m \in Msgs |-> "idle"]
  /\ batch = [m \in Msgs |-> <<>>]
  /\ acked \in [Msgs -> BOOLEAN]
  /\ current = NoMsg /\ cancelGen = 0 /\ worker = NoMsg
  /\ myGen = [m \in Msgs |-> 0]
  /\ waitFor = [m \in Msgs |-> NoMsg]
  /\ buffer = <<>> /\ deferred = <<>> /\ drained = <<>>
  /\ completion = [m \in Msgs |-> "pending"]
  /\ turn = [m \in Msgs |-> NoTurn]
  /\ entered = <<>> /\ sent = <<>> /\ arrivals = <<>>
  /\ settled \in [Msgs -> Outcomes]
  /\ records = [m \in Msgs |-> 0]
  /\ crashes \in 0..MaxCrashes
  /\ AckedTextIsSettled

\* The invariant holds of it, after Init and after Crash.
LEMMA Fresh == Started => QInv
<1> SUFFICES ASSUME Started PROVE QInv
  OBVIOUS
<1> USE DEF Started
<1>0. Multimodal \subseteq Msgs /\ BufferCap \in Nat
  BY QueueAssumption
<1>1. turn \in [Msgs -> TurnRecords] /\ \A m \in Msgs : turn[m].phase = "none"
  <2> HIDE DEF TurnRecords, NoTurn
  <2> QED BY NewTurnTyped
<1>2. TypeOK
  <2>1. turn \in [Msgs -> [phase : Phases, inputs : Seq(Msgs), superseded : BOOLEAN,
                           killed : BOOLEAN, result : {"none", "text", "error", "threw"}]]
    BY <1>1 DEF TurnRecords
  <2>2. pc \in [Msgs -> Stages] /\ batch \in [Msgs -> Seq(Msgs)]
    BY EmptyFacts DEF Stages
  <2> QED BY <1>0, <2>1, <2>2, EmptyFacts DEF TypeOK
<1>3. ModeShape
  BY DEF ModeShape
<1>4. Carried
  BY <1>0, EmptyFacts DEF Carried
<1>5. Entered
  BY <1>1, EmptyFacts DEF Entered
<1>6. Slot
  BY <1>1 DEF Slot, Executing
<1>7. Generations
  BY DEF Generations
<1>8. Outcome
  BY <1>1, EmptyFacts DEF Outcome
<1>9. Order
  BY <1>1, EmptyFacts DEF Order, Unsent
<1> QED BY <1>2, <1>3, <1>4, <1>5, <1>6, <1>7, <1>8, <1>9 DEF QInv

\* Init establishes the invariant.
LEMMA QInit == Init => QInv
<1> SUFFICES ASSUME Init PROVE QInv
  OBVIOUS
<1>1. AckedTextIsSettled /\ acked \in [Msgs -> BOOLEAN] /\ settled \in [Msgs -> Outcomes]
      /\ crashes \in 0..MaxCrashes
  BY QueueAssumption DEF Init, AckedTextIsSettled, Outcomes
<1> QED BY <1>1, Fresh DEF Init, Started

-----------------------------------------------------------------------------
(* Steps of a running turn *)

\* A step inside a turn: the slot stays taken and the inputs the same.
LEMMA TurnInside ==
  ASSUME QInv, NEW m \in Msgs, Executing(m), NEW t \in TurnRecords,
         turn' = [turn EXCEPT ![m] = t], t.inputs = turn[m].inputs,
         t.phase \notin {"none", "done", "leaked"},
         t.phase \in {"runtime", "persist", "replying"} => Unsent(m),
         records' \in [Msgs -> Nat],
         UNCHANGED <<mode, handleVars, queueVars, deferred, entered, sent, settled,
                     arrivals, crashes>>
  PROVE  QInv'
<1>1. UNCHANGED <<mode, pc, batch, acked, current, cancelGen, myGen, waitFor, buffer,
                  completion, worker, drained, deferred, entered, sent, settled,
                  arrivals, crashes>>
  BY DEF handleVars, queueVars
<1>2. turn \in [Msgs -> TurnRecords]
  BY DEF QInv, TypeOK, TurnRecords
<1>3. /\ turn' \in [Msgs -> TurnRecords] /\ turn'[m] = t
      /\ \A x \in Msgs \ {m} : turn'[x] = turn[x]
  <2> HIDE DEF TurnRecords
  <2> QED BY <1>2
<1>4. TypeOK'
  BY <1>1, <1>3 DEF QInv, TypeOK, TurnRecords
<1>5. ModeShape' /\ Carried' /\ Generations' /\ AckedTextIsSettled'
  BY <1>1 DEF QInv, ModeShape, Carried, Generations, AckedTextIsSettled
<1>6. turn[m].phase \notin {"none", "done", "leaked"}
  BY DEF Executing
<1>7. Entered'
  BY <1>1, <1>3, <1>6 DEF QInv, Entered
<1>8. Slot'
  BY <1>1, <1>3, <1>6 DEF QInv, Slot, Executing, TypeOK
<1>9. Outcome'
  <2>1. drained # <<>> => drained[Len(drained)] \in Msgs
    BY ListFacts DEF QInv, TypeOK
  <2>2. drained = <<>> => ToSet(drained) = {}
    BY EmptyFacts
  <2> QED BY <1>1, <1>3, <1>6, <2>1, <2>2 DEF QInv, Outcome
<1>10. Order'
  <2>1. \A x, y : Before(x, y)' <=> Before(x, y)
    BY <1>1 DEF Before
  <2>2. \A x \in Msgs : Unsent(x)' => Unsent(x)
    BY <1>3 DEF Unsent
  <2>3. Order
    BY DEF QInv
  <2> HIDE DEF Unsent, Before
  <2> QED BY <1>1, <2>1, <2>2, <2>3 DEF Order
<1> QED BY <1>4, <1>5, <1>7, <1>8, <1>9, <1>10 DEF QInv

\* A reply goes on the wire: everything sent before entered before it.
LEMMA SpeakStep ==
  ASSUME QInv, NEW m \in Msgs, Unsent(m), NEW t \in TurnRecords,
         turn' = [turn EXCEPT ![m] = t], t.inputs = turn[m].inputs,
         t.phase \in {"sent", "finally"}, sent' = Append(sent, m),
         records' \in [Msgs -> Nat],
         UNCHANGED <<mode, handleVars, queueVars, deferred, entered, settled,
                     arrivals, crashes>>
  PROVE  QInv'
<1>0. /\ turn \in [Msgs -> TurnRecords] /\ turn[m] \in TurnRecords /\ sent \in Seq(Msgs)
  BY DEF QInv, TypeOK, TurnRecords
<1>1. /\ turn[m].phase \in {"runtime", "persist", "replying"} /\ sent' = Append(sent, m)
      /\ UNCHANGED <<mode, pc, batch, acked, current, cancelGen, myGen, waitFor, buffer,
                     completion, worker, drained, deferred, entered, settled,
                     arrivals, crashes>>
  BY DEF Unsent, handleVars, queueVars
<1>2. t.inputs = turn[m].inputs /\ t.phase \in {"sent", "finally"}
  OBVIOUS
<1>3. /\ turn' \in [Msgs -> TurnRecords] /\ turn'[m] = t
      /\ \A x \in Msgs \ {m} : turn'[x] = turn[x]
  <2> HIDE DEF TurnRecords
  <2> QED BY <1>0
<1>4. /\ sent' \in Seq(Msgs) /\ ToSet(sent') = ToSet(sent) \cup {m}
      /\ Len(sent') = Len(sent) + 1 /\ Len(sent) \in Nat /\ sent'[Len(sent) + 1] = m
      /\ \A i \in 1..Len(sent) : sent'[i] = sent[i]
  BY <1>0, <1>1, AppendFacts
<1>5. TypeOK'
  BY <1>1, <1>3, <1>4 DEF QInv, TypeOK, TurnRecords
<1>6. ModeShape' /\ Carried' /\ Generations' /\ AckedTextIsSettled'
  BY <1>1 DEF QInv, ModeShape, Carried, Generations, AckedTextIsSettled
<1>7. Entered'
  <2>1. m \in ToSet(entered)
    BY <1>1 DEF QInv, Entered
  <2> QED BY <1>1, <1>2, <1>3, <1>4, <2>1 DEF QInv, Entered
<1>8. Slot'
  BY <1>1, <1>2, <1>3 DEF QInv, Slot, Executing, TypeOK
<1>9. Outcome'
  <2>1. drained # <<>> => drained[Len(drained)] \in Msgs
    BY ListFacts DEF QInv, TypeOK
  <2>2. drained = <<>> => ToSet(drained) = {}
    BY EmptyFacts
  <2> QED BY <1>1, <1>2, <1>3, <2>1, <2>2 DEF QInv, Outcome
<1>10. Order'
  <2>1. \A x, y : Before(x, y)' <=> Before(x, y)
    BY <1>1 DEF Before
  <2>2. Unsent(m) /\ \A x \in Msgs : Unsent(x)' => Unsent(x) /\ x # m
    BY <1>1, <1>2, <1>3 DEF Unsent
  <2>3. pc[m] # "awaitPrev"
    BY <1>1 DEF QInv, Slot
  <2>4. Order
    BY DEF QInv
  <2>5. \A x \in ToSet(sent) : Before(x, m)
    BY <2>2, <2>4 DEF Order
  <2>6. \A x \in Msgs : ~Unsent(x)'
    BY <2>2, <1>1 DEF QInv, Slot, Executing, Unsent
  <2> HIDE DEF Unsent, Before
  <2>7. \A i, j \in DOMAIN sent' : i < j => Before(sent'[i], sent'[j])
    <3> SUFFICES ASSUME NEW i \in 1..Len(sent)+1, NEW j \in 1..Len(sent)+1, i < j
                 PROVE  Before(sent'[i], sent'[j])
      BY <1>4
    <3>1. i \in 1..Len(sent) /\ sent'[i] = sent[i] /\ DOMAIN sent = 1..Len(sent)
      BY <1>0, <1>4
    <3>2. CASE j = Len(sent) + 1
      BY <1>4, <2>5, <3>1, <3>2 DEF ToSet
    <3>3. CASE j # Len(sent) + 1
      <4>1. j \in 1..Len(sent) /\ sent'[j] = sent[j]
        <5>1. Len(sent) \in Nat /\ j \in 1..(Len(sent) + 1) /\ j # Len(sent) + 1
          BY <1>4, <3>3
        <5>2. j \in 1..Len(sent)
          BY <5>1
        <5> QED BY <1>4, <5>2
      <4> QED BY <2>1, <2>4, <3>1, <4>1 DEF Order
    <3> QED BY <3>2, <3>3
  <2>8. \A x \in ToSet(sent') : pc'[x] # "awaitPrev"
    BY <1>1, <1>4, <2>3, <2>4 DEF Order
  <2>9. \A x \in ToSet(sent'), b \in ToSet(buffer') : Before(x, b)
    BY <1>1, <1>4, <2>2, <2>4 DEF Order
  <2> QED BY <1>1, <2>1, <2>6, <2>7, <2>8, <2>9 DEF Order
<1> QED BY <1>5, <1>6, <1>7, <1>8, <1>9, <1>10 DEF QInv

\* TurnTimeout, the end of the runtime, the last check of the abort signal, a
\* reply that is sent or not, and the record of one that was.
LEMMA InsideSteps ==
  ASSUME QInv, UNCHANGED mode, NEW m \in Msgs,
         \/ TurnTimeout(m)
         \/ \E r \in {"none", "text", "error", "threw"} : RuntimeEnds(m, r)
         \/ LastCheck(m) \/ ReplyIntentFails(m) \/ sendReply(m) \/ emitOutbound(m)
  PROVE  QInv'
<1>0. /\ turn \in [Msgs -> TurnRecords] /\ turn[m] \in TurnRecords
      /\ records \in [Msgs -> Nat]
  BY DEF QInv, TypeOK, TurnRecords
<1>1. CASE TurnTimeout(m)
  <2> DEFINE t == [turn[m] EXCEPT !.killed = TRUE]
  <2>1. t \in TurnRecords /\ t.inputs = turn[m].inputs /\ t.phase = turn[m].phase
    BY <1>0 DEF TurnRecords
  <2>2. /\ turn' = [turn EXCEPT ![m] = t] /\ turn[m].phase = "runtime"
        /\ records' = records
        /\ UNCHANGED <<handleVars, queueVars, deferred, entered, sent, settled, arrivals, crashes>>
    BY <1>0, <1>1 DEF TurnTimeout, TurnFrame, SpeakFrame
  <2> HIDE DEF t
  <2> QED BY <1>0, <2>1, <2>2, TurnInside DEF Executing, Unsent
<1>2. ASSUME NEW r \in {"none", "text", "error", "threw"}, RuntimeEnds(m, r)
      PROVE  QInv'
  <2>1. PICK p \in {"finally", "persist"} :
          turn' = [turn EXCEPT ![m].phase = p, ![m].result = r]
    BY <1>2 DEF RuntimeEnds
  <2> DEFINE t == [turn[m] EXCEPT !.phase = p, !.result = r]
  <2>2. t \in TurnRecords /\ t.inputs = turn[m].inputs /\ t.phase = p
    BY <1>0 DEF TurnRecords, Phases
  <2>3. turn' = [turn EXCEPT ![m] = t]
    BY <1>0, <2>1
  <2>4. records' \in [Msgs -> Nat]
    BY <1>0, <1>2 DEF RuntimeEnds, Record
  <2>5. /\ turn[m].phase = "runtime"
        /\ UNCHANGED <<handleVars, queueVars, deferred, entered, settled, arrivals, crashes>>
        /\ sent' = sent \/ (p = "finally" /\ sent' = Append(sent, m))
    <3>1. turn'[m].phase = p
      BY <2>2, <2>3, <1>0
    <3>2. /\ turn[m].phase = "runtime"
          /\ UNCHANGED <<handleVars, queueVars, deferred, entered, settled, arrivals, crashes>>
      BY <1>2 DEF RuntimeEnds, SpeakFrame
    <3>3. \/ sent' = sent
          \/ /\ turn' = [turn EXCEPT ![m].phase = "finally", ![m].result = r]
             /\ sent' = Append(sent, m)
      BY <1>2 DEF RuntimeEnds, ErrorReply
    <3>4. turn' = [turn EXCEPT ![m].phase = "finally", ![m].result = r] => p = "finally"
      BY <1>0, <3>1 DEF TurnRecords
    <3> QED BY <3>2, <3>3, <3>4
  <2> HIDE DEF t
  <2>6. CASE sent' = sent
    BY <2>2, <2>3, <2>4, <2>5, <2>6, TurnInside DEF Executing, Unsent
  <2>7. CASE p = "finally" /\ sent' = Append(sent, m)
    BY <2>2, <2>3, <2>4, <2>5, <2>7, SpeakStep DEF Unsent
  <2> QED BY <2>5, <2>6, <2>7
<1>3. ASSUME LastCheck(m) \/ ReplyIntentFails(m) \/ emitOutbound(m)
      PROVE  QInv'
  <2>1. PICK p \in {"finally", "replying"} :
          /\ turn' = [turn EXCEPT ![m].phase = p]
          /\ p = "replying" => turn[m].phase = "persist"
    BY <1>3 DEF LastCheck, ReplyIntentFails, emitOutbound, Phase
  <2> DEFINE t == [turn[m] EXCEPT !.phase = p]
  <2>2. t \in TurnRecords /\ t.inputs = turn[m].inputs /\ t.phase = p
    BY <1>0 DEF TurnRecords, Phases
  <2>3. turn' = [turn EXCEPT ![m] = t]
    BY <1>0, <2>1
  <2>4. records' \in [Msgs -> Nat]
    BY <1>0, <1>3 DEF LastCheck, ReplyIntentFails, emitOutbound, Record
  <2>5. /\ turn[m].phase \in {"persist", "replying", "sent"}
        /\ UNCHANGED <<handleVars, queueVars, deferred, entered, settled, arrivals, crashes>>
        /\ \/ sent' = sent
           \/ p = "finally" /\ turn[m].phase = "persist" /\ sent' = Append(sent, m)
    <3>1. turn'[m].phase = p
      BY <2>2, <2>3, <1>0
    <3>2. /\ turn[m].phase \in {"persist", "replying", "sent"}
          /\ UNCHANGED <<handleVars, queueVars, deferred, entered, settled, arrivals, crashes>>
      BY <1>3 DEF LastCheck, ReplyIntentFails, emitOutbound, TurnFrame, SpeakFrame
    <3>3. \/ sent' = sent
          \/ /\ turn' = [turn EXCEPT ![m].phase = "finally"] /\ turn[m].phase = "persist"
             /\ sent' = Append(sent, m)
      BY <1>3 DEF LastCheck, ReplyIntentFails, emitOutbound, TurnFrame, ErrorReply, Phase
    <3>4. turn' = [turn EXCEPT ![m].phase = "finally"] => p = "finally"
      BY <1>0, <3>1 DEF TurnRecords
    <3> QED BY <3>2, <3>3, <3>4
  <2> HIDE DEF t
  <2>6. CASE sent' = sent
    BY <2>1, <2>2, <2>3, <2>4, <2>5, <2>6, TurnInside DEF Executing, Unsent
  <2>7. CASE p = "finally" /\ turn[m].phase = "persist" /\ sent' = Append(sent, m)
    BY <2>2, <2>3, <2>4, <2>5, <2>7, SpeakStep DEF Unsent
  <2> QED BY <2>5, <2>6, <2>7
<1>4. CASE sendReply(m)
  <2> DEFINE t == [turn[m] EXCEPT !.phase = "sent"]
  <2>1. t \in TurnRecords /\ t.inputs = turn[m].inputs /\ t.phase = "sent"
    BY <1>0 DEF TurnRecords, Phases
  <2>2. /\ turn' = [turn EXCEPT ![m] = t] /\ turn[m].phase = "replying"
        /\ sent' = Append(sent, m) /\ records' = records
        /\ UNCHANGED <<handleVars, queueVars, deferred, entered, settled, arrivals, crashes>>
    BY <1>0, <1>4 DEF sendReply, Phase, SpeakFrame
  <2> HIDE DEF t
  <2> QED BY <1>0, <2>1, <2>2, SpeakStep DEF Unsent
<1> QED BY <1>1, <1>2, <1>3, <1>4

\* What a step that changes one slot leaves of the order.
LEMMA OrderKept ==
  ASSUME Order, entered' = entered, sent' = sent, ToSet(buffer') \subseteq ToSet(buffer),
         \A x \in Msgs : Unsent(x)' => Unsent(x),
         \A x \in ToSet(sent) : pc'[x] # "awaitPrev"
  PROVE  Order'
<1>1. \A x, y : Before(x, y)' <=> Before(x, y)
  BY DEF Before
<1> HIDE DEF Unsent, Before
<1> QED BY <1>1 DEF Order

\* The slot is released.
LEMMA ReleaseStep ==
  ASSUME QInv, UNCHANGED mode, NEW m \in Msgs, ReleaseSlot(m)
  PROVE  QInv'
<1>0. /\ turn \in [Msgs -> TurnRecords] /\ turn[m] \in TurnRecords
      /\ mode \in {"cancel", "serial"} /\ settled \in [Msgs -> Outcomes]
      /\ pc \in [Msgs -> Stages]
  BY QueueAssumption DEF QInv, TypeOK, TurnRecords
<1>1. /\ turn[m].phase = "finally"
      /\ turn' = [turn EXCEPT ![m].phase = "done"]
      /\ current' = IF current = m THEN NoMsg ELSE current
      /\ settled' = [x \in Msgs |-> IF x \in ToSet(turn[m].inputs) THEN "ran" ELSE settled[x]]
      /\ pc' = IF mode = "cancel" THEN [pc EXCEPT ![m] = "finally"] ELSE pc
      /\ UNCHANGED <<mode, batch, acked, cancelGen, myGen, waitFor, buffer, completion,
                     worker, drained, deferred, entered, sent, records, arrivals, crashes>>
  BY DEF ReleaseSlot, Phase
<1> DEFINE t == [turn[m] EXCEPT !.phase = "done"]
<1>2. t \in TurnRecords /\ t.inputs = turn[m].inputs /\ t.phase = "done"
  BY <1>0 DEF TurnRecords, Phases
<1>3. /\ turn' \in [Msgs -> TurnRecords] /\ turn'[m] = t
      /\ \A x \in Msgs \ {m} : turn'[x] = turn[x]
  <2>1. turn' = [turn EXCEPT ![m] = t]
    BY <1>0, <1>1
  <2> HIDE DEF t, TurnRecords
  <2> QED BY <1>0, <1>2, <2>1
<1> HIDE DEF t
<1>4. /\ current = m /\ current' = NoMsg /\ Executing(m)
      /\ mode = "cancel" => pc[m] = "running"
  BY <1>1 DEF QInv, Slot, Executing
<1>5. /\ settled' \in [Msgs -> Outcomes]
      /\ \A x \in Msgs : settled'[x] = "ran" \/ settled'[x] = settled[x]
      /\ \A x \in ToSet(turn[m].inputs) \cap Msgs : settled'[x] = "ran"
  BY <1>0, <1>1 DEF Outcomes
<1>6. /\ pc' \in [Msgs -> Stages] /\ \A x \in Msgs \ {m} : pc'[x] = pc[x]
      /\ mode = "cancel" => pc'[m] = "finally"
      /\ mode # "cancel" => pc' = pc
  BY <1>0, <1>1 DEF Stages
<1>7. TypeOK'
  BY <1>1, <1>3, <1>4, <1>5, <1>6 DEF QInv, TypeOK, TurnRecords
<1>8. ModeShape'
  BY <1>0, <1>1, <1>6 DEF QInv, ModeShape
<1>9. Carried'
  <2>1. mode = "cancel" => m \notin Multimodal /\ pc[m] = "running"
    BY <1>4 DEF QInv, Carried
  <2>2. Multimodal \subseteq Msgs
    BY QueueAssumption
  <2> QED BY <1>1, <1>6, <2>1, <2>2 DEF QInv, Carried
<1>10. Entered'
  <2>1. ToSet(entered) \subseteq Msgs /\ m \in ToSet(entered)
    BY <1>1, ListFacts DEF QInv, TypeOK, Entered
  <2>2. \A x \in Msgs : pc[x] \notin Waiting => pc'[x] \notin Waiting
    BY <1>6 DEF Waiting
  <2>3. \A x \in Msgs : pc'[x] = "trim" => pc[x] = "trim"
    BY <1>6
  <2> QED BY <1>1, <1>3, <2>1, <2>2, <2>3 DEF QInv, Entered
<1>11. Slot'
  BY <1>1, <1>2, <1>3, <1>4, <1>6 DEF QInv, Slot, Executing, TypeOK
<1>12. Generations'
  <2>1. entered # <<>> => entered[Len(entered)] \in Msgs
    BY ListFacts DEF QInv, TypeOK
  <2> QED BY <1>1, <1>4, <1>5, <1>6, <2>1 DEF QInv, Generations
<1>13. Outcome'
  <2>1. drained # <<>> => drained[Len(drained)] \in Msgs
    BY ListFacts DEF QInv, TypeOK
  <2>2. drained = <<>> => ToSet(drained) = {}
    BY EmptyFacts
  <2>3. ToSet(drained) \subseteq Msgs
    BY ListFacts DEF QInv, TypeOK
  <2>4. \A x \in Msgs : settled[x] # "none" => settled'[x] # "none"
    BY <1>5
  <2>5. mode = "cancel" => settled'[m] # "none"
    BY <1>1, <1>5 DEF QInv, Outcome
  <2>6. \A x \in Msgs : pc'[x] = "finally" => settled'[x] # "none"
    BY <1>0, <1>6, <2>4, <2>5 DEF QInv, Outcome
  <2>7. \A x \in Msgs : completion'[x] = "resolved" =>
          settled'[x] # "none" /\ pc'[x] \notin {"idle", "deferring"}
    BY <1>1, <1>6, <2>4 DEF QInv, Outcome
  <2>8. \A x \in ToSet(drained) :
          \/ settled'[x] # "none"
          \/ LET tt == turn'[drained[Len(drained)]]
             IN  tt.phase # "done" /\ x \in ToSet(tt.inputs)
    BY <1>3, <1>5, <2>1, <2>2, <2>3, <2>4 DEF QInv, Outcome
  <2>9. mode = "cancel" =>
          \A x \in Msgs : turn'[x].phase # "none" => x \in ToSet(turn'[x].inputs)
    BY <1>1, <1>2, <1>3 DEF QInv, Outcome
  <2> QED BY <1>1, <2>6, <2>7, <2>8, <2>9 DEF Outcome
<1>14. AckedTextIsSettled'
  BY <1>1, <1>5 DEF QInv, AckedTextIsSettled
<1>15. Order'
  <2>1. \A x \in Msgs : Unsent(x)' => Unsent(x)
    BY <1>2, <1>3 DEF Unsent
  <2>2. ToSet(sent) \subseteq Msgs
    BY ListFacts DEF QInv, TypeOK
  <2>3. \A x \in ToSet(sent) : pc'[x] # "awaitPrev"
    BY <1>6, <2>2 DEF QInv, Order
  <2> QED BY <1>1, <2>1, <2>3, OrderKept DEF QInv
<1> QED BY <1>7, <1>8, <1>9, <1>10, <1>11, <1>12, <1>13, <1>14, <1>15 DEF QInv

\* The runtime cannot be created: the slot leaks, and in serial mode everybody
\* in the queue is rejected.
LEMMA FactoryStep ==
  ASSUME QInv, UNCHANGED mode, NEW m \in Msgs, FactoryThrows(m)
  PROVE  QInv'
<1>0. /\ turn \in [Msgs -> TurnRecords] /\ turn[m] \in TurnRecords
      /\ mode \in {"cancel", "serial"} /\ pc \in [Msgs -> Stages]
      /\ completion \in [Msgs -> {"pending", "resolved", "rejected"}]
  BY QueueAssumption DEF QInv, TypeOK, TurnRecords
<1>1. /\ turn[m].phase = "runtime"
      /\ turn' = [turn EXCEPT ![m].phase = "leaked"]
      /\ mode = "cancel" => /\ pc' = [pc EXCEPT ![m] = "rejected"]
                            /\ UNCHANGED <<buffer, completion, worker, drained>>
      /\ mode # "cancel" =>
           /\ completion' = [x \in Msgs |-> IF x \in ToSet(drained) \cup ToSet(buffer)
                                            THEN "rejected" ELSE completion[x]]
           /\ buffer' = <<>> /\ worker' = NoMsg /\ drained' = <<>> /\ pc' = pc
      /\ UNCHANGED <<mode, batch, acked, current, cancelGen, myGen, waitFor, deferred,
                     entered, sent, settled, records, arrivals, crashes>>
  BY DEF FactoryThrows, Phase, histVars
<1> DEFINE t == [turn[m] EXCEPT !.phase = "leaked"]
<1>2. t \in TurnRecords /\ t.inputs = turn[m].inputs /\ t.phase = "leaked"
  BY <1>0 DEF TurnRecords, Phases
<1>3. /\ turn' \in [Msgs -> TurnRecords] /\ turn'[m] = t
      /\ \A x \in Msgs \ {m} : turn'[x] = turn[x]
  <2>1. turn' = [turn EXCEPT ![m] = t]
    BY <1>0, <1>1
  <2> HIDE DEF t, TurnRecords
  <2> QED BY <1>0, <1>2, <2>1
<1> HIDE DEF t
<1>4. /\ current = m /\ Executing(m)
      /\ mode = "cancel" => pc[m] = "running"
  BY <1>1 DEF QInv, Slot, Executing
<1>5. \A x \in Msgs : ~Executing(x)'
  BY <1>1, <1>2, <1>3, <1>4 DEF QInv, Slot, Executing
<1>6. /\ pc' \in [Msgs -> Stages] /\ \A x \in Msgs \ {m} : pc'[x] = pc[x]
      /\ mode = "cancel" => pc'[m] = "rejected"
      /\ mode # "cancel" => pc' = pc
  BY <1>0, <1>1 DEF Stages
<1>7. /\ completion' \in [Msgs -> {"pending", "resolved", "rejected"}]
      /\ \A x \in Msgs : completion'[x] = "resolved" => completion[x] = "resolved"
  BY <1>0, <1>1
<1>8. TypeOK'
  <2>1. /\ buffer' \in Seq(Msgs) /\ Len(buffer') <= BufferCap
        /\ worker' \in Msgs \cup {NoMsg} /\ drained' \in Seq(Msgs)
    <3>1. CASE mode = "cancel"
      BY <1>1, <3>1 DEF QInv, TypeOK
    <3>2. CASE mode # "cancel"
      <4>1. BufferCap \in Nat
        BY QueueAssumption
      <4> QED BY <1>1, <3>2, <4>1, EmptyFacts
    <3> QED BY <3>1, <3>2
  <2> QED BY <1>1, <1>3, <1>6, <1>7, <2>1 DEF QInv, TypeOK, TurnRecords
<1>9. ModeShape'
  BY <1>0, <1>1, <1>6 DEF QInv, ModeShape
<1>10. Carried'
  <2>1. mode = "cancel" => m \notin Multimodal /\ pc[m] = "running"
    BY <1>4 DEF QInv, Carried
  <2>2. Multimodal \subseteq Msgs
    BY QueueAssumption
  <2> QED BY <1>1, <1>6, <2>1, <2>2 DEF QInv, Carried
<1>11. Entered'
  <2>1. ToSet(entered) \subseteq Msgs /\ m \in ToSet(entered)
    BY <1>1, ListFacts DEF QInv, TypeOK, Entered
  <2>2. \A x \in Msgs : pc[x] \notin Waiting => pc'[x] \notin Waiting
    BY <1>6 DEF Waiting
  <2>3. \A x \in Msgs : pc'[x] = "trim" => pc[x] = "trim"
    BY <1>6
  <2>4. ToSet(buffer') \subseteq ToSet(buffer) /\ ToSet(drained') \subseteq ToSet(drained)
    BY <1>1, EmptyFacts
  <2> QED BY <1>1, <1>3, <2>1, <2>2, <2>3, <2>4 DEF QInv, Entered
<1>12. Slot'
  <2>1. current' = m /\ turn'[m].phase = "leaked" /\ m # NoMsg
    BY <1>1, <1>2, <1>3, <1>4, QueueAssumption
  <2>2. drained' # <<>> => worker' # NoMsg
    BY <1>1 DEF QInv, Slot
  <2>3. \A x \in Msgs : turn'[x].phase # "none" => pc'[x] # "awaitPrev"
    BY <1>1, <1>3, <1>6 DEF QInv, Slot
  <2> HIDE DEF Executing
  <2> QED BY <1>5, <2>1, <2>2, <2>3 DEF Slot
<1>13. Generations'
  <2>1. entered # <<>> => entered[Len(entered)] \in Msgs
    BY ListFacts DEF QInv, TypeOK
  <2> QED BY <1>1, <1>6, <2>1 DEF QInv, Generations
<1>14. Outcome'
  <2>1. mode = "cancel" => drained' = <<>>
    BY <1>1 DEF QInv, ModeShape
  <2>2. ToSet(drained') = {}
    BY <1>0, <1>1, <2>1, EmptyFacts
  <2>3. \A x \in Msgs : pc'[x] = "finally" => pc[x] = "finally"
    BY <1>0, <1>6
  <2>4. \A x \in Msgs : pc[x] \notin {"idle", "deferring"} => pc'[x] \notin {"idle", "deferring"}
    BY <1>0, <1>6
  <2> QED BY <1>1, <1>2, <1>3, <1>7, <2>2, <2>3, <2>4 DEF QInv, Outcome
<1>15. AckedTextIsSettled'
  BY <1>1 DEF QInv, AckedTextIsSettled
<1>16. Order'
  <2>1. \A x \in Msgs : Unsent(x)' => Unsent(x)
    BY <1>2, <1>3 DEF Unsent
  <2>2. ToSet(sent) \subseteq Msgs
    BY ListFacts DEF QInv, TypeOK
  <2>3. \A x \in ToSet(sent) : pc'[x] # "awaitPrev"
    BY <1>6, <2>2 DEF QInv, Order
  <2>4. ToSet(buffer') \subseteq ToSet(buffer)
    BY <1>1, EmptyFacts
  <2> QED BY <1>1, <2>1, <2>3, <2>4, OrderKept DEF QInv
<1> QED BY <1>8, <1>9, <1>10, <1>11, <1>12, <1>13, <1>14, <1>15, <1>16 DEF QInv

-----------------------------------------------------------------------------
(* Steps of handle() outside the queue *)

\* A call moves on to stage p with the messages in b; the queue, the slots and
\* what was sent stay.
Moves(m, p, b) ==
  /\ p \in Stages /\ pc' = [pc EXCEPT ![m] = p] /\ pc[m] # "running"
  /\ p \notin {"awaitPrev", "running", "trim", "completion", "idle"}
  /\ p \in {"deferring", "gate"} => pc[m] = "idle"
  /\ p = "settle" => mode = "cancel" /\ myGen[m] # cancelGen
  /\ p = "gate" => settled'[m] # "superseded"
  /\ p = "deferring" => m \in Multimodal
  /\ p = "finally" => settled'[m] # "none"
  /\ m \in Multimodal => p \in {"deferring", "done"}
  /\ b \in Seq(Msgs) /\ batch' = [batch EXCEPT ![m] = b]
  /\ ToSet(b) \subseteq Multimodal \cup {m}
  /\ m \notin Multimodal => m \in ToSet(b)
  /\ deferred' \in Seq(Msgs) /\ Len(deferred') <= BufferCap
  /\ ToSet(deferred') \subseteq Multimodal
  /\ acked' \in [Msgs -> BOOLEAN]
  /\ \A x \in Msgs \ Multimodal :
       acked'[x] => (acked[x] /\ (x = m => pc[m] # "idle")) \/ settled'[x] # "none"
  /\ settled' \in [Msgs -> Outcomes]
  /\ \A x \in Msgs : settled'[x] = "none" => settled[x] = "none" \/ (x = m /\ pc[m] = "idle")
  /\ \A x \in Msgs : settled'[x] = "superseded" =>
       settled[x] = "superseded" \/ x \in Multimodal \/ (x = m /\ pc[m] = "settle")
  /\ records' \in [Msgs -> Nat] /\ arrivals' \in Seq(Msgs)
  /\ UNCHANGED <<queueVars, turn, entered, sent, crashes>>

\* Such a step preserves the invariant.
LEMMA HandleMove ==
  ASSUME QInv, UNCHANGED mode, NEW m \in Msgs, NEW p, NEW b, Moves(m, p, b)
  PROVE  QInv'
<1> USE DEF Moves
<1>0. UNCHANGED <<mode, current, cancelGen, myGen, waitFor, buffer, completion, worker,
                  drained, turn, entered, sent, crashes>>
  BY DEF queueVars
<1>1. /\ pc' \in [Msgs -> Stages] /\ pc'[m] = p
      /\ \A x \in Msgs \ {m} : pc'[x] = pc[x]
  BY DEF QInv, TypeOK
<1>2. /\ batch' \in [Msgs -> Seq(Msgs)] /\ batch'[m] = b
      /\ \A x \in Msgs \ {m} : batch'[x] = batch[x]
  BY DEF QInv, TypeOK
<1>3. Multimodal \subseteq Msgs
  BY QueueAssumption
<1>4. TypeOK'
  BY <1>0, <1>1, <1>2 DEF QInv, TypeOK
<1>5. ModeShape'
  BY <1>0, <1>1 DEF QInv, ModeShape
<1>6. Carried'
  BY <1>1, <1>2, <1>3 DEF QInv, Carried
<1>7. Entered'
  <2>1. ToSet(entered) \subseteq Msgs
    BY ListFacts DEF QInv, TypeOK
  <2>2. \A x \in Msgs : pc[x] \notin Waiting => pc'[x] \notin Waiting
    BY <1>1 DEF Waiting
  <2> QED BY <1>0, <1>1, <2>1, <2>2 DEF QInv, Entered
<1>8. Slot'
  BY <1>0, <1>1 DEF QInv, Slot, Executing
<1>9. Generations'
  <2> SUFFICES ASSUME mode = "cancel" PROVE Generations'
    BY <1>0 DEF Generations
  <2>1. Generations
    BY DEF QInv
  <2>2. ASSUME entered # <<>>
        PROVE  LET last == entered[Len(entered)] IN
               /\ myGen[last] = cancelGen
               /\ pc'[last] # "settle"
               /\ settled'[last] # "superseded"
    <3> DEFINE last == entered[Len(entered)]
    <3>1. last \in Msgs /\ last \notin Multimodal
      BY <2>2, ListFacts DEF QInv, TypeOK, Entered
    <3>2. myGen[last] = cancelGen /\ pc[last] # "settle" /\ settled[last] # "superseded"
      BY <2>1, <2>2 DEF Generations
    <3> HIDE DEF last
    <3>3. pc'[last] # "settle"
      BY <1>1, <3>1, <3>2
    <3>4. settled'[last] # "superseded"
      BY <3>1, <3>2
    <3> QED BY <3>2, <3>3, <3>4 DEF last
  <2>3. \A x \in Msgs : pc'[x] = "gate" => settled'[x] # "superseded"
    <3> SUFFICES ASSUME NEW x \in Msgs, pc'[x] = "gate", x # m PROVE settled'[x] # "superseded"
      BY <1>1
    <3>1. pc[x] = "gate" /\ x \notin Multimodal /\ settled[x] # "superseded"
      BY <1>1, <2>1, <1>3 DEF Generations, QInv, Carried
    <3> QED BY <3>1
  <2>4. \A x \in Msgs : pc'[x] = "awaitPrev" => pc[x] = "awaitPrev"
    BY <1>1
  <2> QED BY <1>0, <2>1, <2>2, <2>3, <2>4 DEF Generations
<1>10. Outcome'
  <2>0. ToSet(drained) \subseteq Msgs /\ ToSet(drained) \subseteq ToSet(entered)
    BY ListFacts DEF QInv, TypeOK, Entered
  <2>1. Outcome
    BY DEF QInv
  <2>2. \A x \in Msgs : pc'[x] = "finally" => settled'[x] # "none"
    BY <1>1, <2>1 DEF Outcome
  <2>3. \A x \in Msgs : completion'[x] = "resolved" =>
          settled'[x] # "none" /\ pc'[x] \notin {"idle", "deferring"}
    BY <1>0, <1>1, <2>1 DEF Outcome
  <2>4. pc[m] = "idle" => m \notin ToSet(drained)
    BY <2>0 DEF QInv, Entered, Waiting
  <2>5. \A x \in ToSet(drained) : settled[x] # "none" => settled'[x] # "none"
    BY <2>0, <2>4
  <2> QED BY <1>0, <2>1, <2>2, <2>3, <2>5 DEF Outcome
<1>11. AckedTextIsSettled'
  BY DEF QInv, AckedTextIsSettled
<1>12. Order'
  <2>1. ToSet(sent) \subseteq Msgs
    BY ListFacts DEF QInv, TypeOK
  <2>2. \A x \in ToSet(sent) : pc'[x] # "awaitPrev"
    BY <1>1, <2>1 DEF QInv, Order
  <2>3. \A x \in Msgs : Unsent(x)' => Unsent(x)
    BY <1>0 DEF Unsent
  <2> QED BY <1>0, <2>2, <2>3, OrderKept DEF QInv
<1> QED BY <1>4, <1>5, <1>6, <1>7, <1>8, <1>9, <1>10, <1>11, <1>12 DEF QInv

\* The ack of an attachment.
LEMMA DeferAckStep ==
  ASSUME QInv, UNCHANGED mode, NEW m \in Msgs, DeferAck(m)
  PROVE  QInv'
<1>1. /\ pc[m] = "idle" /\ m \in Multimodal
      /\ acked' = [acked EXCEPT ![m] = TRUE] /\ pc' = [pc EXCEPT ![m] = "deferring"]
      /\ arrivals' = Append(arrivals, m)
      /\ UNCHANGED <<queueVars, turn, entered, sent, crashes>>
      /\ UNCHANGED <<batch, deferred, settled, records>>
  BY DEF DeferAck
<1>2. /\ batch \in [Msgs -> Seq(Msgs)] /\ acked \in [Msgs -> BOOLEAN]
      /\ deferred \in Seq(Msgs) /\ Len(deferred) <= BufferCap /\ settled \in [Msgs -> Outcomes]
      /\ records \in [Msgs -> Nat] /\ arrivals \in Seq(Msgs)
  BY DEF QInv, TypeOK
<1>3. ToSet(batch[m]) \subseteq Multimodal \cup {m} /\ ToSet(deferred) \subseteq Multimodal
  BY DEF QInv, Carried
<1>4. batch' = [batch EXCEPT ![m] = batch[m]] /\ batch[m] \in Seq(Msgs)
  BY <1>1, <1>2
<1>5. arrivals' \in Seq(Msgs)
  BY <1>1, <1>2
<1>6. acked' \in [Msgs -> BOOLEAN] /\ \A x \in Msgs \ Multimodal : acked'[x] => acked[x] /\ x # m
  BY <1>1, <1>2
<1>7. Moves(m, "deferring", batch[m])
  BY <1>1, <1>2, <1>3, <1>4, <1>5, <1>6 DEF Moves, Stages
<1> QED BY <1>7, HandleMove

\* The attachment is kept for the next text message.
LEMMA DeferStep ==
  ASSUME QInv, UNCHANGED mode, NEW m \in Msgs, deferMultimodal(m)
  PROVE  QInv'
<1> DEFINE list == Append(deferred, m)
           over == Len(list) > BufferCap
<1>1. /\ pc[m] = "deferring" /\ pc' = [pc EXCEPT ![m] = "done"]
      /\ deferred' = IF over THEN Tail(list) ELSE list
      /\ settled' = IF over THEN [settled EXCEPT ![Head(list)] = "overflow"] ELSE settled
      /\ records' = IF over THEN [records EXCEPT ![Head(list)] = @ + 1] ELSE records
      /\ UNCHANGED <<queueVars, turn, entered, sent, crashes>>
      /\ UNCHANGED <<batch, acked, arrivals>>
  BY DEF deferMultimodal
<1>2. /\ batch \in [Msgs -> Seq(Msgs)] /\ acked \in [Msgs -> BOOLEAN]
      /\ deferred \in Seq(Msgs) /\ Len(deferred) <= BufferCap /\ settled \in [Msgs -> Outcomes]
      /\ records \in [Msgs -> Nat] /\ arrivals \in Seq(Msgs) /\ BufferCap \in Nat
  BY QueueAssumption DEF QInv, TypeOK
<1>3. /\ ToSet(batch[m]) \subseteq Multimodal \cup {m} /\ ToSet(deferred) \subseteq Multimodal
      /\ m \in Multimodal
  BY <1>1 DEF QInv, Carried
<1>4. batch' = [batch EXCEPT ![m] = batch[m]] /\ batch[m] \in Seq(Msgs)
  BY <1>1, <1>2
<1>5. /\ list \in Seq(Msgs) /\ list # <<>> /\ Len(list) = Len(deferred) + 1
      /\ ToSet(list) = ToSet(deferred) \cup {m}
  BY <1>2, AppendFacts
<1>6. /\ Head(list) \in Msgs /\ Tail(list) \in Seq(Msgs) /\ Len(Tail(list)) = Len(list) - 1
      /\ ToSet(Tail(list)) \subseteq ToSet(list)
  BY <1>5, ListFacts
<1> HIDE DEF list
<1>7. deferred' \in Seq(Msgs) /\ ToSet(deferred') \subseteq Multimodal
  BY <1>1, <1>3, <1>5, <1>6
<1>8. Len(deferred') <= BufferCap
  BY <1>1, <1>2, <1>5, <1>6
<1>9. records' \in [Msgs -> Nat] /\ settled' \in [Msgs -> Outcomes]
  BY <1>1, <1>2, <1>6 DEF Outcomes
<1>10. \A x \in Msgs : settled'[x] = settled[x] \/ settled'[x] = "overflow"
  BY <1>1, <1>2
<1>11. Moves(m, "done", batch[m])
  BY <1>1, <1>2, <1>3, <1>4, <1>7, <1>8, <1>9, <1>10 DEF Moves, Stages
<1> QED BY <1>11, HandleMove

\* A text message arrives and takes the attachments.
LEMMA ArriveStep ==
  ASSUME QInv, UNCHANGED mode, NEW m \in Msgs, Arrive(m)
  PROVE  QInv'
<1> DEFINE single == [i \in DOMAIN deferred |-> <<deferred[i]>>]
           entries == Append(single, <<m>>)
<1>1. /\ pc[m] = "idle" /\ m \notin Multimodal /\ ~acked[m]
      /\ batch' = [batch EXCEPT ![m] = Merge(entries)]
      /\ settled' = [x \in Msgs |-> IF x \in Trimmed(entries) THEN "trimmed"
                                    ELSE IF x = m THEN "none"
                                    ELSE settled[x]]
      /\ records' = [x \in Msgs |-> IF x \in ToSet(deferred)
                                    THEN records[x] + 1 ELSE records[x]]
      /\ deferred' = <<>> /\ pc' = [pc EXCEPT ![m] = "gate"]
      /\ arrivals' = Append(arrivals, m) /\ acked' = acked
      /\ UNCHANGED <<queueVars, turn, entered, sent, crashes>>
  BY DEF Arrive
<1>2. /\ acked \in [Msgs -> BOOLEAN]
      /\ deferred \in Seq(Msgs) /\ settled \in [Msgs -> Outcomes]
      /\ records \in [Msgs -> Nat] /\ arrivals \in Seq(Msgs) /\ BufferCap \in Nat
      /\ ToSet(deferred) \subseteq Multimodal
  BY QueueAssumption DEF QInv, TypeOK, Carried
<1>3. /\ single \in Seq(Seq(Msgs)) /\ Len(single) = Len(deferred)
      /\ \A i \in 1..Len(deferred) : single[i] = <<deferred[i]>>
  <2>1. DOMAIN deferred = 1..Len(deferred) /\ Len(deferred) \in Nat
        /\ \A i \in 1..Len(deferred) : <<deferred[i]>> \in Seq(Msgs)
    BY <1>2
  <2>2. single \in [1..Len(deferred) -> Seq(Msgs)]
    BY <2>1
  <2> QED BY <2>1, <2>2, FcnIsSeq
<1> HIDE DEF single
<1>4. /\ entries \in Seq(Seq(Msgs)) /\ Len(entries) = Len(deferred) + 1 /\ Len(deferred) \in Nat
      /\ \A i \in 1..Len(deferred) : entries[i] = single[i]
      /\ entries[Len(deferred) + 1] = <<m>>
  <2>1. <<m>> \in Seq(Msgs) /\ Len(deferred) \in Nat
    BY <1>2
  <2> DEFINE S == Seq(Msgs)
             e == <<m>>
  <2>2. single \in Seq(S) /\ e \in S
    BY <1>3, <2>1
  <2> HIDE DEF S, e
  <2>3. /\ Append(single, e) \in Seq(S) /\ Len(Append(single, e)) = Len(single) + 1
        /\ \A i \in 1..Len(single) : Append(single, e)[i] = single[i]
        /\ Append(single, e)[Len(single) + 1] = e
    BY <2>2
  <2> QED BY <1>3, <2>1, <2>3 DEF S, e
<1> HIDE DEF entries
<1>5. /\ Merge(entries) \in Seq(Msgs) /\ m \in ToSet(Merge(entries))
      /\ \A x \in ToSet(Merge(entries)) \cup Trimmed(entries) :
           \E i \in 1..Len(entries) : x \in ToSet(entries[i])
  <2>1. Len(entries[Len(entries)]) # 0 /\ entries[Len(entries)][Len(entries[Len(entries)])] = m
    BY <1>4
  <2>2. Len(entries) # 0
    BY <1>4
  <2> QED BY <1>4, <2>1, <2>2, MergeFacts
<1>6. \A i \in 1..Len(entries) : ToSet(entries[i]) \subseteq Multimodal \cup {m}
  <2> SUFFICES ASSUME NEW i \in 1..Len(entries) PROVE ToSet(entries[i]) \subseteq Multimodal \cup {m}
    OBVIOUS
  <2>1. \A y : ToSet(<<y>>) = {y}
    BY DEF ToSet
  <2>2. CASE i = Len(deferred) + 1
    BY <1>4, <2>1, <2>2
  <2>3. CASE i # Len(deferred) + 1
    <3>1. i \in 1..Len(deferred) /\ i \in DOMAIN deferred
      BY <1>2, <1>4, <2>3
    <3>2. entries[i] = <<deferred[i]>> /\ deferred[i] \in ToSet(deferred)
      BY <1>3, <1>4, <3>1 DEF ToSet
    <3> QED BY <1>2, <2>1, <3>2
  <2> QED BY <2>2, <2>3
<1>7. ToSet(Merge(entries)) \subseteq Multimodal \cup {m}
  BY <1>5, <1>6
<1>8. /\ settled' \in [Msgs -> Outcomes] /\ records' \in [Msgs -> Nat] /\ arrivals' \in Seq(Msgs)
      /\ \A x \in Msgs : settled'[x] \in {"trimmed", settled[x]} \/ x = m
      /\ settled'[m] \in {"trimmed", "none"}
  BY <1>1, <1>2 DEF Outcomes
<1>9. deferred' \in Seq(Msgs) /\ Len(deferred') <= BufferCap /\ ToSet(deferred') \subseteq Multimodal
  BY <1>1, <1>2, EmptyFacts
<1>10. \A x \in Msgs \ Multimodal : acked'[x] => acked[x] /\ x # m
  BY <1>1
<1>11. Moves(m, "gate", Merge(entries))
  BY <1>1, <1>2, <1>5, <1>7, <1>8, <1>9, <1>10 DEF Moves, Stages
<1> QED BY <1>11, HandleMove

\* The later steps of handle() for a text message keep what it carries, and
\* the attachments that wait.
Advances(m, p) ==
  /\ pc[m] \in {"gate", "awaitPrev", "settle", "completion", "finally"}
  /\ p \in {"done", "rejected", "settle", "finally"}
  /\ pc' = [pc EXCEPT ![m] = p]
  /\ p = "settle" => mode = "cancel" /\ myGen[m] # cancelGen
  /\ p = "finally" => settled'[m] # "none"
  /\ p = "done" => settled'[m] # "none"
  /\ acked' = [acked EXCEPT ![m] = @ \/ p = "done"]
  /\ settled' \in [Msgs -> Outcomes]
  /\ \A x \in Msgs : settled'[x] = "none" => settled[x] = "none"
  /\ \A x \in Msgs : settled'[x] = "superseded" =>
       settled[x] = "superseded" \/ x \in Multimodal \/ (x = m /\ pc[m] = "settle")
  /\ records' \in [Msgs -> Nat]
  /\ UNCHANGED <<batch, deferred, arrivals>>
  /\ UNCHANGED <<queueVars, turn, entered, sent, crashes>>

\* Such a step preserves the invariant.
LEMMA TextMove ==
  ASSUME QInv, UNCHANGED mode, NEW m \in Msgs, NEW p, Advances(m, p)
  PROVE  QInv'
<1>1. /\ batch \in [Msgs -> Seq(Msgs)] /\ acked \in [Msgs -> BOOLEAN]
      /\ deferred \in Seq(Msgs) /\ Len(deferred) <= BufferCap /\ arrivals \in Seq(Msgs)
  BY DEF QInv, TypeOK
<1>2. /\ ToSet(batch[m]) \subseteq Multimodal \cup {m} /\ ToSet(deferred) \subseteq Multimodal
      /\ m \notin Multimodal /\ m \in ToSet(batch[m])
  BY DEF QInv, Carried, Advances
<1>3. batch' = [batch EXCEPT ![m] = batch[m]] /\ batch[m] \in Seq(Msgs)
  BY <1>1 DEF Advances
<1>4. /\ acked' \in [Msgs -> BOOLEAN]
      /\ \A x \in Msgs : acked'[x] => acked[x] \/ (x = m /\ p = "done")
  BY <1>1 DEF Advances
<1>5. Moves(m, p, batch[m])
  BY <1>1, <1>2, <1>3, <1>4 DEF Moves, Advances, Stages
<1> QED BY <1>5, HandleMove

\* Facts about a text message on its way: it is in its own batch.
LEMMA OnTheWay ==
  ASSUME QInv, NEW m \in Msgs,
         pc[m] \in {"gate", "awaitPrev", "settle", "completion", "finally"}
  PROVE  /\ m \in ToSet(batch[m]) /\ m \notin Multimodal
         /\ ToSet(batch[m]) \subseteq Multimodal \cup {m}
         /\ acked \in [Msgs -> BOOLEAN] /\ records \in [Msgs -> Nat]
         /\ settled \in [Msgs -> Outcomes]
BY DEF QInv, TypeOK, Carried

\* The call ends without a turn, or fails.
LEMMA GateSteps ==
  ASSUME QInv, UNCHANGED mode, NEW m \in Msgs, SkipTurn(m) \/ ReportFails(m)
  PROVE  QInv'
<1>1. CASE SkipTurn(m)
  <2>1. /\ pc[m] = "gate" /\ pc' = [pc EXCEPT ![m] = "done"]
        /\ acked' = [acked EXCEPT ![m] = TRUE]
        /\ settled' = [x \in Msgs |-> IF x \in ToSet(batch[m]) THEN "skipped" ELSE settled[x]]
        /\ \E n \in {1, 2} : records' = [records EXCEPT ![m] = @ + n]
        /\ UNCHANGED <<batch, deferred, arrivals>>
        /\ UNCHANGED <<queueVars, turn, entered, sent, crashes>>
    BY <1>1 DEF SkipTurn
  <2>2. /\ m \in ToSet(batch[m]) /\ acked \in [Msgs -> BOOLEAN] /\ records \in [Msgs -> Nat]
        /\ settled \in [Msgs -> Outcomes]
    BY <2>1, OnTheWay
  <2>3. settled' \in [Msgs -> Outcomes] /\ records' \in [Msgs -> Nat]
    BY <2>1, <2>2 DEF Outcomes
  <2>4. acked' = [acked EXCEPT ![m] = @ \/ "done" = "done"]
    BY <2>1, <2>2
  <2>5. Advances(m, "done")
    BY <2>1, <2>2, <2>3, <2>4 DEF Advances
  <2> QED BY <2>5, TextMove
<1>2. CASE ReportFails(m)
  <2>1. /\ pc[m] = "gate" /\ pc' = [pc EXCEPT ![m] = "rejected"]
        /\ \E n \in {0, 1} : records' = [records EXCEPT ![m] = @ + n]
        /\ UNCHANGED <<batch, deferred, arrivals>> /\ UNCHANGED <<acked, settled>>
        /\ UNCHANGED <<queueVars, turn, entered, sent, crashes>>
    BY <1>2 DEF ReportFails
  <2>2. /\ acked \in [Msgs -> BOOLEAN] /\ records \in [Msgs -> Nat]
        /\ settled \in [Msgs -> Outcomes]
    BY <2>1, OnTheWay
  <2>3. records' \in [Msgs -> Nat]
    BY <2>1, <2>2
  <2>4. acked' = [acked EXCEPT ![m] = @ \/ "rejected" = "done"]
    BY <2>1, <2>2
  <2>5. Advances(m, "rejected")
    BY <2>1, <2>2, <2>3, <2>4 DEF Advances
  <2> QED BY <2>5, TextMove
<1> QED BY <1>1, <1>2

\* A superseded message drops out and gets its outcome.
LEMMA DropSteps ==
  ASSUME QInv, UNCHANGED mode, NEW m \in Msgs, DropOut(m) \/ SettleSuperseded(m)
  PROVE  QInv'
<1>0. mode \in {"cancel", "serial"}
  BY QueueAssumption DEF QInv, TypeOK
<1>1. CASE DropOut(m)
  <2>1. /\ pc[m] = "awaitPrev" /\ myGen[m] # cancelGen /\ pc' = [pc EXCEPT ![m] = "settle"]
        /\ records' = [records EXCEPT ![m] = @ + 1]
        /\ UNCHANGED <<batch, deferred, arrivals>> /\ UNCHANGED <<acked, settled>>
        /\ UNCHANGED <<queueVars, turn, entered, sent, crashes>>
    BY <1>1 DEF DropOut, PrevDone, Record
  <2>2. /\ acked \in [Msgs -> BOOLEAN] /\ records \in [Msgs -> Nat]
        /\ settled \in [Msgs -> Outcomes]
    BY <2>1, OnTheWay
  <2>3. records' \in [Msgs -> Nat]
    BY <2>1, <2>2
  <2>4. acked' = [acked EXCEPT ![m] = @ \/ "settle" = "done"]
    BY <2>1, <2>2
  <2>5. mode = "cancel"
    BY <1>0, <2>1 DEF QInv, ModeShape
  <2>6. Advances(m, "settle")
    BY <2>1, <2>2, <2>3, <2>4, <2>5 DEF Advances
  <2> QED BY <2>6, TextMove
<1>2. CASE SettleSuperseded(m)
  <2>1. /\ pc[m] = "settle" /\ pc' = [pc EXCEPT ![m] = "finally"]
        /\ settled' = [x \in Msgs |-> IF x \in ToSet(batch[m]) THEN "superseded" ELSE settled[x]]
        /\ UNCHANGED <<batch, deferred, arrivals>> /\ UNCHANGED <<acked, records>>
        /\ UNCHANGED <<queueVars, turn, entered, sent, crashes>>
    BY <1>2 DEF SettleSuperseded
  <2>2. /\ m \in ToSet(batch[m]) /\ ToSet(batch[m]) \subseteq Multimodal \cup {m}
        /\ acked \in [Msgs -> BOOLEAN] /\ records \in [Msgs -> Nat]
        /\ settled \in [Msgs -> Outcomes]
    BY <2>1, OnTheWay
  <2>3. settled' \in [Msgs -> Outcomes]
    BY <2>1, <2>2 DEF Outcomes
  <2>4. acked' = [acked EXCEPT ![m] = @ \/ "finally" = "done"]
    BY <2>1, <2>2
  <2>5. Advances(m, "finally")
    BY <2>1, <2>2, <2>3, <2>4 DEF Advances
  <2> QED BY <2>5, TextMove
<1> QED BY <1>1, <1>2

\* The completion is settled, and the message is acked.
LEMMA EndSteps ==
  ASSUME QInv, UNCHANGED mode, NEW m \in Msgs,
         CompletionResolved(m) \/ CompletionRejected(m) \/ safeAck(m)
  PROVE  QInv'
<1>0. \A p : (p \in {"finally", "rejected"}) => (p = "done") = FALSE
  OBVIOUS
<1>1. ASSUME NEW p \in {"finally", "rejected"}, pc[m] = "completion",
             p = "finally" => completion[m] = "resolved",
             pc' = [pc EXCEPT ![m] = p],
             UNCHANGED <<batch, acked, queueVars, deferred, turn, histVars>>
      PROVE  QInv'
  <2>1. /\ UNCHANGED <<batch, deferred, arrivals>> /\ UNCHANGED <<acked, records, settled>>
        /\ UNCHANGED <<queueVars, turn, entered, sent, crashes>>
    BY <1>1 DEF histVars
  <2>2. /\ acked \in [Msgs -> BOOLEAN] /\ records \in [Msgs -> Nat]
        /\ settled \in [Msgs -> Outcomes]
    BY <1>1, OnTheWay
  <2>3. acked' = [acked EXCEPT ![m] = @ \/ p = "done"]
    BY <1>0, <2>1, <2>2
  <2>4. p = "finally" => settled[m] # "none"
    BY <1>1 DEF QInv, Outcome
  <2>5. Advances(m, p)
    BY <1>1, <2>1, <2>2, <2>3, <2>4 DEF Advances
  <2> QED BY <2>5, TextMove
<1>2. CASE safeAck(m)
  <2>1. /\ pc[m] = "finally" /\ pc' = [pc EXCEPT ![m] = "done"]
        /\ acked' = [acked EXCEPT ![m] = TRUE]
        /\ UNCHANGED <<batch, deferred, arrivals>> /\ UNCHANGED <<records, settled>>
        /\ UNCHANGED <<queueVars, turn, entered, sent, crashes>>
    BY <1>2 DEF safeAck, histVars
  <2>2. /\ acked \in [Msgs -> BOOLEAN] /\ records \in [Msgs -> Nat]
        /\ settled \in [Msgs -> Outcomes]
    BY <2>1, OnTheWay
  <2>3. acked' = [acked EXCEPT ![m] = @ \/ "done" = "done"]
    BY <2>1, <2>2
  <2>4. settled[m] # "none"
    BY <2>1 DEF QInv, Outcome
  <2>5. Advances(m, "done")
    BY <2>1, <2>2, <2>3, <2>4 DEF Advances
  <2> QED BY <2>5, TextMove
<1> QED BY <1>1, <1>2 DEF CompletionResolved, CompletionRejected

-----------------------------------------------------------------------------
(* runCancelPrevious *)

\* A message at the gate joins the end of the queue: the order of the others
\* stays and all of them are before it.
LEMMA EnterFacts ==
  ASSUME QInv, NEW m \in Msgs, pc[m] = "gate", entered' = Append(entered, m)
  PROVE  /\ entered' \in Seq(Msgs) /\ entered' # <<>> /\ entered'[Len(entered')] = m
         /\ ToSet(entered') = ToSet(entered) \cup {m}
         /\ m \notin ToSet(entered) /\ m \notin Multimodal /\ m \in ToSet(batch[m])
         /\ batch[m] \in Seq(Msgs) /\ turn[m].phase = "none"
         /\ \A i, j \in DOMAIN entered' : entered'[i] = entered'[j] => i = j
         /\ \A x, y : Before(x, y) => Before(x, y)'
         /\ \A x \in ToSet(entered) : Before(x, m)'
<1> DEFINE n == Len(entered)
<1>1. /\ entered \in Seq(Msgs) /\ n \in Nat /\ DOMAIN entered = 1..n
      /\ batch[m] \in Seq(Msgs)
  BY DEF QInv, TypeOK
<1>2. /\ entered' \in Seq(Msgs) /\ entered' # <<>> /\ Len(entered') = n + 1
      /\ entered'[n + 1] = m /\ \A i \in 1..n : entered'[i] = entered[i]
      /\ ToSet(entered') = ToSet(entered) \cup {m}
  BY <1>1, AppendFacts
<1>3. DOMAIN entered' = 1..n+1 /\ n + 1 \in 1..n+1 /\ \A i \in 1..n : i \in 1..n+1 /\ i < n + 1
  BY <1>1, <1>2
<1>4. /\ m \notin ToSet(entered) /\ m \notin Multimodal /\ m \in ToSet(batch[m])
      /\ turn[m].phase = "none"
  BY OnTheWay DEF QInv, Entered, Waiting
<1> HIDE DEF n
<1>5. \A i, j \in DOMAIN entered' : entered'[i] = entered'[j] => i = j
  <2>1. \A i \in 1..n+1 : i \in 1..n \/ i = n + 1
    BY <1>1
  <2>2. \A i \in 1..n : entered[i] # m
    BY <1>1, <1>4 DEF ToSet
  <2>3. \A i, j \in 1..n : entered[i] = entered[j] => i = j
    BY <1>1 DEF QInv, Entered
  <2> QED BY <1>2, <1>3, <2>1, <2>2, <2>3
<1>6. \A x, y : Before(x, y) => Before(x, y)'
  BY <1>1, <1>2, <1>3 DEF Before
<1>7. \A x \in ToSet(entered) : Before(x, m)'
  <2> SUFFICES ASSUME NEW i \in 1..n PROVE Before(entered[i], m)'
    BY <1>1 DEF ToSet
  <2>1. i \in DOMAIN entered' /\ n + 1 \in DOMAIN entered' /\ i < n + 1
        /\ entered'[i] = entered[i] /\ entered'[n + 1] = m
    BY <1>2, <1>3
  <2> QED BY <2>1 DEF Before
<1> QED BY <1>1, <1>2, <1>4, <1>5, <1>6, <1>7

\* A message takes the empty slot in cancel mode, as the last that entered.
Begins(m) ==
  /\ mode = "cancel" /\ current = NoMsg /\ BeginTurn(m, batch[m])
  /\ turn[m].phase = "none" /\ m \notin Multimodal /\ m \in ToSet(batch[m])
  /\ entered' \in Seq(Msgs) /\ entered' # <<>> /\ entered'[Len(entered')] = m
  /\ ToSet(entered') = ToSet(entered) \cup {m}
  /\ \A i, j \in DOMAIN entered' : entered'[i] = entered'[j] => i = j
  /\ cancelGen' \in Nat /\ myGen' \in [Msgs -> Nat] /\ myGen'[m] = cancelGen'
  /\ \A x \in Msgs : myGen'[x] <= cancelGen'
  /\ \A x \in Msgs \ {m} : pc[x] = "awaitPrev" => myGen'[x] # cancelGen'
  /\ settled[m] # "superseded"
  /\ \A i, j \in DOMAIN sent : i < j => Before(sent[i], sent[j])'
  /\ \A x \in ToSet(sent) : Before(x, m)'
  /\ UNCHANGED <<mode, batch, acked, waitFor, buffer, completion, worker, drained,
                 deferred, sent, settled, records, arrivals, crashes>>

\* Such a step preserves the invariant.
LEMMA BeginsStep ==
  ASSUME QInv, NEW m \in Msgs, Begins(m)
  PROVE  QInv'
<1> USE DEF Begins
<1>0. /\ turn \in [Msgs -> TurnRecords] /\ batch[m] \in Seq(Msgs) /\ pc \in [Msgs -> Stages]
  BY DEF QInv, TypeOK, TurnRecords
<1>1. /\ current' = m /\ turn' = [turn EXCEPT ![m] = NewTurn(batch[m])]
      /\ pc' = [pc EXCEPT ![m] = "running"] /\ m # NoMsg
  BY QueueAssumption DEF BeginTurn
<1>2. /\ NewTurn(batch[m]) \in TurnRecords /\ NewTurn(batch[m]).phase = "runtime"
      /\ NewTurn(batch[m]).inputs = batch[m]
  BY <1>0, NewTurnTyped
<1>3. /\ turn' \in [Msgs -> TurnRecords] /\ turn'[m].phase = "runtime"
      /\ turn'[m].inputs = batch[m] /\ \A x \in Msgs \ {m} : turn'[x] = turn[x]
  <2> HIDE DEF TurnRecords, NewTurn
  <2> QED BY <1>0, <1>1, <1>2
<1>4. /\ pc' \in [Msgs -> Stages] /\ pc'[m] = "running"
      /\ \A x \in Msgs \ {m} : pc'[x] = pc[x]
  BY <1>0, <1>1 DEF Stages
<1>5. \A x \in Msgs : ~Executing(x)
  BY QueueAssumption DEF QInv, Slot
<1>6. Multimodal \subseteq Msgs /\ ToSet(entered') \subseteq Msgs
  BY QueueAssumption, ListFacts
<1>7. TypeOK'
  BY <1>1, <1>3, <1>4 DEF QInv, TypeOK, TurnRecords
<1>8. ModeShape'
  BY <1>4 DEF QInv, ModeShape
<1>9. Carried'
  BY <1>4, <1>6 DEF QInv, Carried
<1>10. Entered'
  <2>1. \A x \in Msgs : pc[x] \notin Waiting => pc'[x] \notin Waiting
    BY <1>4 DEF Waiting
  <2>2. pc'[m] \notin Waiting
    BY <1>4 DEF Waiting
  <2> QED BY <1>3, <1>4, <1>6, <2>1, <2>2 DEF QInv, Entered
<1>11. Slot'
  BY <1>1, <1>3, <1>4, <1>5 DEF QInv, Slot, Executing
<1>12. Generations'
  <2>1. Generations
    BY DEF QInv
  <2>2. \A x \in Msgs : pc'[x] = "awaitPrev" =>
          /\ waitFor'[x] \in Msgs
          /\ myGen'[x] # cancelGen'
    BY <1>4, <2>1 DEF Generations
  <2>3. \A x \in Msgs : pc'[x] = "gate" => settled'[x] # "superseded"
    BY <1>4, <2>1 DEF Generations
  <2>4. LET last == entered'[Len(entered')] IN
         /\ myGen'[last] = cancelGen'
         /\ pc'[last] # "settle"
         /\ settled'[last] # "superseded"
    BY <1>4
  <2> QED BY <2>2, <2>3, <2>4 DEF Generations
<1>13. Outcome'
  <2>1. drained' = <<>> /\ ToSet(drained') = {}
    BY EmptyFacts DEF QInv, ModeShape
  <2>2. \A x \in Msgs : pc'[x] = "finally" => settled'[x] # "none"
    BY <1>4 DEF QInv, Outcome
  <2>3. \A x \in Msgs : completion'[x] = "resolved" =>
          settled'[x] # "none" /\ pc'[x] \notin {"idle", "deferring"}
    BY <1>4 DEF QInv, Outcome
  <2>4. \A x \in Msgs : turn'[x].phase # "none" => x \in ToSet(turn'[x].inputs)
    BY <1>3 DEF QInv, Outcome
  <2> QED BY <2>1, <2>2, <2>3, <2>4 DEF Outcome
<1>14. AckedTextIsSettled'
  BY DEF QInv, AckedTextIsSettled
<1>15. Order'
  <2>1. ToSet(buffer') = {}
    BY EmptyFacts DEF QInv, ModeShape
  <2>2. \A x \in Msgs : Unsent(x)' => x = m
    BY <1>3, <1>5 DEF Unsent, Executing
  <2>3. ToSet(sent) \subseteq Msgs
    BY ListFacts DEF QInv, TypeOK
  <2>4. \A x \in ToSet(sent') : pc'[x] # "awaitPrev"
    BY <1>4, <2>3 DEF QInv, Order
  <2> HIDE DEF Unsent, Before
  <2> QED BY <2>1, <2>2, <2>4 DEF Order
<1> QED BY <1>7, <1>8, <1>9, <1>10, <1>11, <1>12, <1>13, <1>14, <1>15 DEF QInv

\* The previous turn is over: the newest message takes the slot.
LEMMA TakeOverStep ==
  ASSUME QInv, UNCHANGED mode, NEW m \in Msgs, TakeOver(m)
  PROVE  QInv'
<1>1. /\ pc[m] = "awaitPrev" /\ turn[waitFor[m]].phase = "done" /\ myGen[m] = cancelGen
      /\ BeginTurn(m, batch[m])
      /\ UNCHANGED <<mode, batch, acked, cancelGen, myGen, waitFor, buffer, completion,
                     worker, drained, deferred, entered, sent, settled, records,
                     arrivals, crashes>>
  BY DEF TakeOver, PrevDone, histVars
<1>2. mode = "cancel"
  BY <1>1, QueueAssumption DEF QInv, TypeOK, ModeShape
<1>3. /\ entered # <<>> /\ waitFor[m] \in Msgs /\ m = entered[Len(entered)]
      /\ current \in {waitFor[m], NoMsg}
  BY <1>1, <1>2 DEF QInv, Generations
<1>4. current = NoMsg
  BY <1>1, <1>3, QueueAssumption DEF QInv, Slot
<1>5. turn[m].phase = "none"
  BY <1>1 DEF QInv, Slot
<1>6. m \notin Multimodal /\ m \in ToSet(batch[m])
  BY <1>1, OnTheWay
<1>7. /\ entered \in Seq(Msgs) /\ m \in ToSet(entered)
      /\ cancelGen \in Nat /\ myGen \in [Msgs -> Nat]
  BY <1>3, ListFacts DEF QInv, TypeOK
<1>8. /\ settled[m] # "superseded" /\ \A x \in Msgs : myGen[x] <= cancelGen
      /\ \A x \in Msgs \ {m} : pc[x] = "awaitPrev" => myGen[x] # cancelGen
  BY <1>2, <1>3 DEF QInv, Generations
<1>9. \A x, y : Before(x, y)' <=> Before(x, y)
  BY <1>1 DEF Before
<1>10. \A x \in ToSet(sent) : Before(x, m)
  <2> SUFFICES ASSUME NEW x \in ToSet(sent) PROVE Before(x, m)
    OBVIOUS
  <2>1. x \in ToSet(entered) /\ x # m
    BY <1>1 DEF QInv, Entered, Order
  <2>2. DOMAIN entered = 1..Len(entered) /\ Len(entered) \in Nat
    BY <1>7
  <2>3. PICK i \in 1..Len(entered) : entered[i] = x
    BY <2>1, <2>2 DEF ToSet
  <2>4. i < Len(entered) /\ Len(entered) \in 1..Len(entered)
    BY <1>3, <2>1, <2>2, <2>3
  <2> QED BY <1>3, <2>2, <2>3, <2>4 DEF Before
<1>11. \A i, j \in DOMAIN entered : entered[i] = entered[j] => i = j
  BY DEF QInv, Entered
<1>12. \A i, j \in DOMAIN sent : i < j => Before(sent[i], sent[j])
  BY DEF QInv, Order
<1>13. Begins(m)
  <2> HIDE DEF Before, BeginTurn
  <2>1. ToSet(entered) = ToSet(entered) \cup {m}
    BY <1>7
  <2> QED BY <1>1, <1>2, <1>3, <1>4, <1>5, <1>6, <1>7, <1>8, <1>9, <1>10, <1>11, <1>12, <2>1 DEF Begins
<1> QED BY <1>13, BeginsStep

\* A message enters in cancel mode: it takes the slot, or aborts the turn in it.
LEMMA EnterCancelStep ==
  ASSUME QInv, UNCHANGED mode, NEW m \in Msgs, EnterCancel(m)
  PROVE  QInv'
<1>1. /\ mode = "cancel" /\ pc[m] = "gate" /\ cancelGen' = cancelGen + 1
      /\ myGen' = [myGen EXCEPT ![m] = cancelGen + 1]
      /\ entered' = Append(entered, m)
      /\ current = NoMsg => BeginTurn(m, batch[m]) /\ UNCHANGED <<waitFor, records>>
      /\ current # NoMsg =>
           /\ turn' = [turn EXCEPT ![current].superseded = TRUE]
           /\ Record(current) /\ waitFor' = [waitFor EXCEPT ![m] = current]
           /\ pc' = [pc EXCEPT ![m] = "awaitPrev"] /\ current' = current
      /\ UNCHANGED <<mode, batch, acked, buffer, completion, worker, drained, deferred,
                     sent, settled, arrivals, crashes>>
  BY DEF EnterCancel
<1>2. /\ entered' \in Seq(Msgs) /\ entered' # <<>> /\ entered'[Len(entered')] = m
      /\ ToSet(entered') = ToSet(entered) \cup {m}
      /\ m \notin ToSet(entered) /\ m \notin Multimodal /\ m \in ToSet(batch[m])
      /\ batch[m] \in Seq(Msgs) /\ turn[m].phase = "none"
      /\ \A i, j \in DOMAIN entered' : entered'[i] = entered'[j] => i = j
      /\ \A x, y : Before(x, y) => Before(x, y)'
      /\ \A x \in ToSet(entered) : Before(x, m)'
  BY <1>1, EnterFacts
<1>3. /\ cancelGen \in Nat /\ myGen \in [Msgs -> Nat] /\ \A x \in Msgs : myGen[x] <= cancelGen
      /\ settled[m] # "superseded"
  BY <1>1 DEF QInv, TypeOK, Generations
<1>4. /\ cancelGen' \in Nat /\ myGen' \in [Msgs -> Nat] /\ myGen'[m] = cancelGen'
      /\ \A x \in Msgs : myGen'[x] <= cancelGen'
      /\ \A x \in Msgs \ {m} : myGen'[x] # cancelGen'
  BY <1>1, <1>3
<1>5. ToSet(sent) \subseteq ToSet(entered) /\ ToSet(sent) \subseteq Msgs
  BY ListFacts DEF QInv, Entered, TypeOK
<1>6. \A i, j \in DOMAIN sent : i < j => Before(sent[i], sent[j])'
  BY <1>1, <1>2 DEF QInv, Order
<1>7. CASE current = NoMsg
  <2>1. Begins(m)
    <3> HIDE DEF Before, BeginTurn
    <3> QED BY <1>1, <1>2, <1>3, <1>4, <1>5, <1>6, <1>7 DEF Begins
  <2> QED BY <2>1, BeginsStep
<1>8. CASE current # NoMsg
  <2>0. /\ turn \in [Msgs -> TurnRecords] /\ current \in Msgs /\ records \in [Msgs -> Nat]
        /\ turn[current].phase \notin {"none", "done"} /\ pc \in [Msgs -> Stages]
        /\ waitFor \in [Msgs -> Msgs \cup {NoMsg}]
    BY <1>8 DEF QInv, TypeOK, TurnRecords, Slot
  <2> DEFINE t == [turn[current] EXCEPT !.superseded = TRUE]
  <2>1. t \in TurnRecords /\ t.inputs = turn[current].inputs /\ t.phase = turn[current].phase
    BY <2>0 DEF TurnRecords
  <2>2. /\ turn' \in [Msgs -> TurnRecords]
        /\ \A x \in Msgs : turn'[x].phase = turn[x].phase /\ turn'[x].inputs = turn[x].inputs
    <3>1. turn' = [turn EXCEPT ![current] = t]
      BY <1>1, <1>8, <2>0
    <3> HIDE DEF t, TurnRecords
    <3> QED BY <2>0, <2>1, <3>1
  <2> HIDE DEF t
  <2>3. /\ pc' \in [Msgs -> Stages] /\ pc'[m] = "awaitPrev"
        /\ \A x \in Msgs \ {m} : pc'[x] = pc[x]
    BY <1>1, <1>8, <2>0 DEF Stages
  <2>4. /\ waitFor' \in [Msgs -> Msgs \cup {NoMsg}] /\ waitFor'[m] = current
        /\ \A x \in Msgs \ {m} : waitFor'[x] = waitFor[x]
        /\ records' \in [Msgs -> Nat] /\ current' = current
    <3>1. waitFor' = [waitFor EXCEPT ![m] = current] /\ current' = current
      BY <1>1, <1>8
    <3>2. records' = [records EXCEPT ![current] = @ + 1]
      BY <1>1, <1>8 DEF Record
    <3>3. records' \in [Msgs -> Nat]
      BY <2>0, <3>2
    <3> QED BY <2>0, <3>1, <3>3
  <2>5. Multimodal \subseteq Msgs /\ ToSet(entered') \subseteq Msgs
    BY <1>2, QueueAssumption, ListFacts
  <2>6. TypeOK'
    BY <1>1, <1>2, <1>4, <2>2, <2>3, <2>4 DEF QInv, TypeOK, TurnRecords
  <2>7. ModeShape'
    BY <1>1, <2>3 DEF QInv, ModeShape
  <2>8. Carried'
    BY <1>1, <1>2, <2>3, <2>5 DEF QInv, Carried
  <2>9. Entered'
    <3>1. \A x \in Msgs : pc[x] \notin Waiting => pc'[x] \notin Waiting
      BY <2>3 DEF Waiting
    <3>2. pc'[m] \notin Waiting
      BY <2>3 DEF Waiting
    <3>3. \A x \in Msgs : pc'[x] # "trim"
      BY <1>1, <2>3 DEF QInv, ModeShape
    <3> QED BY <1>1, <1>2, <2>2, <2>5, <3>1, <3>2, <3>3 DEF QInv, Entered
  <2>10. Slot'
    <3>1. \A x \in Msgs : Executing(x)' <=> Executing(x)
      BY <2>2 DEF Executing
    <3>2. ~Executing(m)
      BY <1>2 DEF Executing
    <3>3. \A x \in Msgs : turn'[x].phase # "none" => pc'[x] # "awaitPrev"
      BY <1>2, <2>2, <2>3 DEF QInv, Slot
    <3>4. drained' # <<>> => worker' # NoMsg
      BY <1>1 DEF QInv, Slot
    <3>5. current' # NoMsg => turn'[current'].phase \notin {"none", "done"}
      BY <2>0, <2>2, <2>4
    <3> HIDE DEF Executing
    <3>6. \A x \in Msgs : Executing(x)' => current' = x /\ pc'[x] = "running"
      BY <1>1, <2>3, <2>4, <3>1, <3>2 DEF QInv, Slot
    <3> QED BY <1>1, <3>3, <3>4, <3>5, <3>6 DEF Slot
  <2>11. Generations'
    <3>1. Generations
      BY DEF QInv
    <3>2. \A x \in Msgs : pc'[x] = "awaitPrev" =>
            /\ waitFor'[x] \in Msgs
            /\ myGen'[x] = cancelGen' => x = m /\ current' = waitFor'[x]
      BY <1>1, <1>4, <2>0, <2>3, <2>4, <3>1 DEF Generations
    <3>3. \A x \in Msgs : pc'[x] = "gate" => settled'[x] # "superseded"
      BY <1>1, <2>3, <3>1 DEF Generations
    <3>4. LET last == entered'[Len(entered')] IN
           /\ myGen'[last] = cancelGen'
           /\ pc'[last] # "settle"
           /\ settled'[last] # "superseded"
      BY <1>1, <1>2, <1>3, <1>4, <2>3
    <3> QED BY <1>2, <1>4, <3>2, <3>3, <3>4 DEF Generations
  <2>12. Outcome'
    <3>1. drained' = <<>> /\ ToSet(drained') = {}
      BY <1>1, EmptyFacts DEF QInv, ModeShape
    <3>2. \A x \in Msgs : pc'[x] = "finally" => settled'[x] # "none"
      BY <1>1, <2>3 DEF QInv, Outcome
    <3>3. \A x \in Msgs : completion'[x] = "resolved" =>
            settled'[x] # "none" /\ pc'[x] \notin {"idle", "deferring"}
      BY <1>1, <2>3 DEF QInv, Outcome
    <3>4. \A x \in Msgs : turn'[x].phase # "none" => x \in ToSet(turn'[x].inputs)
      BY <1>1, <2>2 DEF QInv, Outcome
    <3> QED BY <3>1, <3>2, <3>3, <3>4 DEF Outcome
  <2>13. AckedTextIsSettled'
    BY <1>1 DEF QInv, AckedTextIsSettled
  <2>14. Order'
    <3>1. ToSet(buffer') = {}
      BY <1>1, EmptyFacts DEF QInv, ModeShape
    <3>2. \A x \in Msgs : Unsent(x)' => Unsent(x)
      BY <2>2 DEF Unsent
    <3>3. \A x \in ToSet(sent) : pc'[x] # "awaitPrev"
      BY <1>2, <1>5, <2>3 DEF QInv, Order
    <3>4. \A x \in Msgs : Unsent(x) => \A y \in ToSet(sent) : Before(y, x)'
      BY <1>2 DEF QInv, Order
    <3> HIDE DEF Unsent, Before
    <3> QED BY <1>1, <1>6, <3>1, <3>2, <3>3, <3>4 DEF Order
  <2> QED BY <2>6, <2>7, <2>8, <2>9, <2>10, <2>11, <2>12, <2>13, <2>14 DEF QInv
<1> QED BY <1>7, <1>8

-----------------------------------------------------------------------------
(* runSerial *)

\* The entries of a drained buffer: all their messages go into the prompt of
\* the turn or are trimmed.
LEMMA DrainFacts ==
  ASSUME QInv, NEW buf \in Seq(Msgs), buf # <<>>,
         \A x \in ToSet(buf) : x \in ToSet(batch[x])
  PROVE  LET entries == [i \in DOMAIN buf |-> batch[buf[i]]] IN
         /\ Merge(entries) \in Seq(Msgs)
         /\ ToSet(buf) \subseteq ToSet(Merge(entries)) \cup Trimmed(entries)
<1> DEFINE entries == [i \in DOMAIN buf |-> batch[buf[i]]]
<1>1. /\ DOMAIN buf = 1..Len(buf) /\ Len(buf) \in Nat /\ Len(buf) # 0
      /\ \A i \in 1..Len(buf) : buf[i] \in Msgs
  OBVIOUS
<1>2. \A i \in 1..Len(buf) : batch[buf[i]] \in Seq(Msgs)
  BY <1>1 DEF QInv, TypeOK
<1>3. entries \in [1..Len(buf) -> Seq(Msgs)] /\ \A i \in 1..Len(buf) : entries[i] = batch[buf[i]]
  BY <1>1, <1>2
<1> HIDE DEF entries
<1>4. entries \in Seq(Seq(Msgs)) /\ Len(entries) = Len(buf)
  <2> DEFINE S == Seq(Msgs)
  <2>1. entries \in [1..Len(buf) -> S]
    BY <1>3
  <2> HIDE DEF S
  <2>2. entries \in Seq(S) /\ Len(entries) = Len(buf)
    BY <1>1, <2>1, FcnIsSeq
  <2> QED BY <2>2 DEF S
<1>5. /\ Merge(entries) \in Seq(Msgs)
      /\ \A i \in 1..Len(entries) : ToSet(entries[i]) \subseteq ToSet(Merge(entries)) \cup Trimmed(entries)
  <2>1. Len(entries) # 0
    BY <1>1, <1>4
  <2> QED BY <1>4, <2>1, MergeFacts
<1>6. \A i \in 1..Len(buf) : buf[i] \in ToSet(entries[i])
  <2>1. \A i \in 1..Len(buf) : buf[i] \in ToSet(buf)
    BY <1>1 DEF ToSet
  <2> QED BY <1>3, <2>1
<1>7. \A x \in ToSet(buf) : \E i \in 1..Len(buf) : x = buf[i]
  BY <1>1 DEF ToSet
<1>8. ToSet(buf) \subseteq ToSet(Merge(entries)) \cup Trimmed(entries)
  BY <1>4, <1>5, <1>6, <1>7
<1> QED BY <1>5, <1>8 DEF entries

\* The worker, old or new, drains buf into a turn while none executes.
Drains(buf, outcome) ==
  /\ mode = "serial" /\ DrainInto(buf, outcome)
  /\ buf \in Seq(Msgs) /\ buf # <<>> /\ \A x \in Msgs : ~Executing(x)
  /\ outcome \in [Msgs -> Outcomes] /\ \A x \in Msgs : outcome[x] = "none" => settled[x] = "none"
  /\ pc' \in [Msgs -> Stages]
  /\ \A x \in Msgs : pc'[x] = pc[x] \/ (pc[x] \in {"gate", "trim"} /\ pc'[x] = "completion")
  /\ completion' \in [Msgs -> {"pending", "resolved", "rejected"}]
  /\ \A x \in Msgs : completion'[x] = "resolved" =>
       completion[x] = "resolved" \/ (outcome[x] # "none" /\ pc[x] \notin {"idle", "deferring"})
  /\ worker' \in Msgs
  /\ entered' \in Seq(Msgs) /\ ToSet(entered) \subseteq ToSet(entered')
  /\ \A i, j \in DOMAIN entered' : entered'[i] = entered'[j] => i = j
  /\ \A x \in ToSet(entered') : x \notin Multimodal /\ pc'[x] \notin Waiting
  /\ ToSet(buf) \subseteq ToSet(entered')
  /\ \A i, j \in DOMAIN sent : i < j => Before(sent[i], sent[j])'
  /\ \A x \in ToSet(sent), w \in {buf[Len(buf)]} : Before(x, w)'
  /\ UNCHANGED <<mode, batch, acked, cancelGen, myGen, waitFor, deferred, sent, arrivals, crashes>>

\* Such a step preserves the invariant.
LEMMA DrainsStep ==
  ASSUME QInv, NEW buf, NEW outcome, Drains(buf, outcome)
  PROVE  QInv'
<1> DEFINE entries == [i \in DOMAIN buf |-> batch[buf[i]]]
           w == buf[Len(buf)]
<1> USE DEF Drains
<1>0. /\ turn \in [Msgs -> TurnRecords] /\ records \in [Msgs -> Nat]
      /\ Multimodal \subseteq Msgs /\ NoMsg \notin Msgs /\ BufferCap \in Nat
  BY QueueAssumption DEF QInv, TypeOK, TurnRecords
<1>1. w \in Msgs /\ w \in ToSet(buf) /\ ToSet(buf) \subseteq Msgs /\ ToSet(entered') \subseteq Msgs
  BY ListFacts
<1>2. /\ current' = w /\ turn' = [turn EXCEPT ![w] = NewTurn(Merge(entries))]
      /\ settled' = [x \in Msgs |-> IF x \in Trimmed(entries) THEN "trimmed" ELSE outcome[x]]
      /\ records' = [x \in Msgs |-> IF x \in ToSet(buf) \ {w} THEN records[x] + 1 ELSE records[x]]
      /\ drained' = buf /\ buffer' = <<>>
  BY DEF DrainInto
<1>3. \A x \in ToSet(buf) : x \in ToSet(batch[x])
  <2> SUFFICES ASSUME NEW x \in ToSet(buf) PROVE x \in ToSet(batch[x])
    OBVIOUS
  <2>1. x \in Msgs \ Multimodal /\ pc'[x] \notin Waiting
    BY <1>1
  <2>2. pc[x] \notin {"idle", "deferring"}
    BY <2>1 DEF Waiting
  <2> QED BY <2>1, <2>2 DEF QInv, Carried
<1>4. /\ Merge(entries) \in Seq(Msgs)
      /\ ToSet(buf) \subseteq ToSet(Merge(entries)) \cup Trimmed(entries)
  BY <1>3, DrainFacts
<1> HIDE DEF entries, w
<1>5. /\ turn' \in [Msgs -> TurnRecords] /\ turn'[w].phase = "runtime"
      /\ turn'[w].inputs = Merge(entries) /\ \A x \in Msgs \ {w} : turn'[x] = turn[x]
  <2>1. /\ NewTurn(Merge(entries)) \in TurnRecords /\ NewTurn(Merge(entries)).phase = "runtime"
        /\ NewTurn(Merge(entries)).inputs = Merge(entries)
    BY <1>4, NewTurnTyped
  <2> HIDE DEF TurnRecords, NewTurn
  <2> QED BY <1>0, <1>1, <1>2, <2>1
<1>6. /\ settled' \in [Msgs -> Outcomes] /\ records' \in [Msgs -> Nat]
      /\ \A x \in Msgs : settled'[x] = "none" => outcome[x] = "none" /\ settled[x] = "none"
      /\ \A x \in Msgs : x \in Trimmed(entries) => settled'[x] # "none"
  BY <1>0, <1>2 DEF Outcomes
<1>7. \A x \in Msgs : /\ pc[x] \notin Waiting => pc'[x] \notin Waiting
                      /\ pc'[x] = "finally" => pc[x] = "finally"
                      /\ pc'[x] = "trim" => pc[x] = "trim"
                      /\ pc'[x] \notin {"awaitPrev", "running", "settle"}
                      /\ pc[x] \notin {"idle", "deferring"} => pc'[x] \notin {"idle", "deferring"}
                      /\ pc'[x] \notin {"idle", "deferring"} => pc[x] \notin {"idle", "deferring"}
                      /\ pc'[x] = "deferring" => pc[x] = "deferring"
                      /\ x \in Multimodal => pc'[x] \in {"idle", "deferring", "done"}
  BY DEF QInv, ModeShape, Carried, Waiting
<1>8. TypeOK'
  <2>1. buffer' \in Seq(Msgs) /\ Len(buffer') <= BufferCap
    BY <1>0, <1>2, EmptyFacts
  <2>2. drained' \in Seq(Msgs) /\ current' \in Msgs
    BY <1>1, <1>2
  <2> QED BY <1>5, <1>6, <2>1, <2>2 DEF QInv, TypeOK, TurnRecords
<1>9. ModeShape'
  BY <1>7 DEF ModeShape
<1>10. Carried'
  BY <1>0, <1>7 DEF QInv, Carried
<1>11. Entered'
  <2>1. ToSet(buffer') = {}
    BY <1>2, EmptyFacts
  <2>2. \A x \in Msgs : turn'[x].phase # "none" => x \in ToSet(entered')
    BY <1>1, <1>5 DEF QInv, Entered
  <2>3. \A x \in Msgs : pc'[x] = "trim" => waitFor'[x] \in ToSet(entered')
    BY <1>7 DEF QInv, Entered
  <2>4. ToSet(drained') \subseteq ToSet(entered') /\ ToSet(sent') \subseteq ToSet(entered')
    BY <1>2 DEF QInv, Entered
  <2> QED BY <2>1, <2>2, <2>3, <2>4 DEF Entered
<1>12. \A x \in Msgs : Executing(x)' => x = w
  BY <1>5 DEF Executing
<1>13. Slot'
  <2>1. drained' # <<>> /\ drained'[Len(drained')] = w /\ worker' # NoMsg
    BY <1>0, <1>2 DEF w
  <2> HIDE DEF Executing
  <2> QED BY <1>2, <1>5, <1>7, <1>12, <2>1 DEF Slot
<1>14. Generations'
  BY DEF Generations
<1>15. Outcome'
  <2>1. \A x \in Msgs : pc'[x] = "finally" => settled'[x] # "none"
    BY <1>6, <1>7 DEF QInv, Outcome
  <2>2. \A x \in Msgs : completion'[x] = "resolved" =>
          settled'[x] # "none" /\ pc'[x] \notin {"idle", "deferring"}
    BY <1>6, <1>7 DEF QInv, Outcome
  <2>3. drained'[Len(drained')] = w
    BY <1>2 DEF w
  <2>4. \A x \in ToSet(drained') :
          settled'[x] # "none" \/ (turn'[w].phase # "done" /\ x \in ToSet(turn'[w].inputs))
    BY <1>1, <1>2, <1>4, <1>5, <1>6
  <2> QED BY <2>1, <2>2, <2>3, <2>4 DEF Outcome
<1>16. AckedTextIsSettled'
  BY <1>6 DEF QInv, AckedTextIsSettled
<1>17. Order'
  <2>1. ToSet(buffer') = {}
    BY <1>2, EmptyFacts
  <2>2. \A x \in Msgs : Unsent(x)' => x = w
    BY <1>12 DEF Unsent, Executing
  <2>3. ToSet(sent) \subseteq Msgs
    BY ListFacts DEF QInv, TypeOK
  <2>4. \A x \in ToSet(sent') : pc'[x] # "awaitPrev"
    BY <1>7, <2>3
  <2>5. \A x \in ToSet(sent) : Before(x, w)'
    BY DEF w
  <2> HIDE DEF Unsent, Before
  <2> QED BY <2>1, <2>2, <2>4, <2>5 DEF Order
<1> QED BY <1>8, <1>9, <1>10, <1>11, <1>13, <1>14, <1>15, <1>16, <1>17 DEF QInv

\* A message joins the buffer; it may push the oldest one out.
Queues(m, p) ==
  /\ mode = "serial" /\ pc[m] = "gate" /\ p \in {"trim", "completion"}
  /\ entered' = Append(entered, m) /\ pc' = [pc EXCEPT ![m] = p]
  /\ buffer' \in Seq(Msgs) /\ Len(buffer') <= BufferCap
  /\ ToSet(buffer') \subseteq ToSet(buffer) \cup {m}
  /\ records' \in [Msgs -> Nat]
  /\ waitFor' \in [Msgs -> Msgs \cup {NoMsg}]
  /\ \A x \in Msgs \ {m} : waitFor'[x] = waitFor[x]
  /\ p = "trim" => waitFor'[m] \in ToSet(buffer) \cup {m}
  /\ UNCHANGED <<mode, batch, acked, current, cancelGen, myGen, completion, worker, drained,
                 deferred, turn, sent, settled, arrivals, crashes>>

\* Such a step preserves the invariant.
LEMMA QueuesStep ==
  ASSUME QInv, NEW m \in Msgs, NEW p, Queues(m, p)
  PROVE  QInv'
<1> USE DEF Queues
<1>1. /\ entered' \in Seq(Msgs) /\ ToSet(entered') = ToSet(entered) \cup {m}
      /\ m \notin ToSet(entered) /\ m \notin Multimodal /\ m \in ToSet(batch[m])
      /\ turn[m].phase = "none"
      /\ \A i, j \in DOMAIN entered' : entered'[i] = entered'[j] => i = j
      /\ \A x, y : Before(x, y) => Before(x, y)'
      /\ \A x \in ToSet(entered) : Before(x, m)'
  BY EnterFacts
<1>2. /\ pc' \in [Msgs -> Stages] /\ pc'[m] = p /\ \A x \in Msgs \ {m} : pc'[x] = pc[x]
  BY DEF QInv, TypeOK, Stages
<1>3. Multimodal \subseteq Msgs /\ ToSet(entered') \subseteq Msgs
  BY <1>1, QueueAssumption, ListFacts
<1>4. TypeOK'
  BY <1>1, <1>2 DEF QInv, TypeOK
<1>5. ModeShape'
  BY <1>2 DEF QInv, ModeShape
<1>6. Carried'
  BY <1>1, <1>2, <1>3 DEF QInv, Carried
<1>7. Entered'
  <2>1. \A x \in Msgs : pc[x] \notin Waiting => pc'[x] \notin Waiting
    BY <1>2 DEF Waiting
  <2>2. pc'[m] \notin Waiting
    BY <1>2 DEF Waiting
  <2>3. \A x \in ToSet(entered') : x \notin Multimodal /\ pc'[x] \notin Waiting
    BY <1>1, <1>3, <2>1, <2>2 DEF QInv, Entered
  <2>4. \A x \in Msgs : pc'[x] = "trim" => waitFor'[x] \in ToSet(entered')
    BY <1>1, <1>2 DEF QInv, Entered
  <2> QED BY <1>1, <2>3, <2>4 DEF QInv, Entered
<1>8. Slot'
  BY <1>2 DEF QInv, Slot, Executing
<1>9. Generations'
  BY DEF Generations
<1>10. Outcome'
  <2>1. \A x \in Msgs : pc'[x] = "finally" => pc[x] = "finally"
    BY <1>2
  <2>2. \A x \in Msgs : pc[x] \notin {"idle", "deferring"} => pc'[x] \notin {"idle", "deferring"}
    BY <1>2
  <2> QED BY <2>1, <2>2 DEF QInv, Outcome
<1>11. AckedTextIsSettled'
  BY DEF QInv, AckedTextIsSettled
<1>12. Order'
  <2>0. ToSet(sent) \subseteq ToSet(entered) /\ ToSet(sent) \subseteq Msgs
    BY ListFacts DEF QInv, TypeOK, Entered
  <2>1. \A x \in Msgs : (Unsent(x)' <=> Unsent(x)) /\ (Unsent(x) => x \in ToSet(entered))
    BY DEF Unsent, QInv, Entered
  <2>2. \A x \in ToSet(sent') : pc'[x] # "awaitPrev"
    BY <1>2, <2>0 DEF QInv, Order
  <2>3. Order
    BY DEF QInv
  <2> HIDE DEF Unsent, Before
  <2>4. \A i, j \in DOMAIN sent' : i < j => Before(sent[i], sent[j])'
    BY <1>1, <2>3 DEF Order
  <2>5. \A x \in ToSet(sent'), b \in ToSet(buffer') : Before(x, b)'
    BY <1>1, <2>0, <2>3 DEF Order
  <2>6. \A x \in Msgs : Unsent(x)' =>
          /\ \A y \in ToSet(sent') : Before(y, x)'
          /\ \A b \in ToSet(buffer') : Before(x, b)'
    BY <1>1, <2>1, <2>3 DEF Order
  <2> QED BY <2>2, <2>4, <2>5, <2>6 DEF Order
<1> QED BY <1>4, <1>5, <1>6, <1>7, <1>8, <1>9, <1>10, <1>11, <1>12 DEF QInv

\* A message enters in serial mode.
LEMMA EnterSerialStep ==
  ASSUME QInv, UNCHANGED mode, NEW m \in Msgs, EnterSerial(m)
  PROVE  QInv'
<1> DEFINE buf == Append(buffer, m)
<1>1. /\ mode = "serial" /\ pc[m] = "gate" /\ entered' = Append(entered, m)
      /\ \/ /\ Len(buf) > BufferCap
            /\ buffer' = Tail(buf) /\ Record(Head(buf))
            /\ waitFor' = [waitFor EXCEPT ![m] = Head(buf)]
            /\ pc' = [pc EXCEPT ![m] = "trim"]
            /\ UNCHANGED <<current, turn, settled, drained, worker>>
         \/ /\ Len(buf) <= BufferCap /\ worker # NoMsg
            /\ buffer' = buf
            /\ pc' = [pc EXCEPT ![m] = "completion"]
            /\ UNCHANGED <<current, turn, settled, records, drained, worker, waitFor>>
         \/ /\ Len(buf) <= BufferCap /\ worker = NoMsg
            /\ worker' = m /\ pc' = [pc EXCEPT ![m] = "completion"]
            /\ DrainInto(buf, settled)
            /\ UNCHANGED waitFor
      /\ UNCHANGED <<mode, batch, acked, cancelGen, myGen, completion, deferred, sent,
                     arrivals, crashes>>
  BY DEF EnterSerial
<1>2. /\ buffer \in Seq(Msgs) /\ Len(buffer) <= BufferCap /\ BufferCap \in Nat
      /\ records \in [Msgs -> Nat] /\ waitFor \in [Msgs -> Msgs \cup {NoMsg}]
      /\ settled \in [Msgs -> Outcomes] /\ pc \in [Msgs -> Stages]
  BY QueueAssumption DEF QInv, TypeOK
<1>3. /\ buf \in Seq(Msgs) /\ buf # <<>> /\ Len(buf) = Len(buffer) + 1 /\ Len(buffer) \in Nat
      /\ ToSet(buf) = ToSet(buffer) \cup {m} /\ buf[Len(buf)] = m
  BY <1>2, AppendFacts
<1>4. /\ Head(buf) \in ToSet(buf) /\ Head(buf) \in Msgs
      /\ Tail(buf) \in Seq(Msgs) /\ Len(Tail(buf)) = Len(buf) - 1
      /\ ToSet(Tail(buf)) \subseteq ToSet(buf)
  BY <1>3, ListFacts
<1> HIDE DEF buf
<1>5. ASSUME Len(buf) > BufferCap, buffer' = Tail(buf), Record(Head(buf)),
             waitFor' = [waitFor EXCEPT ![m] = Head(buf)], pc' = [pc EXCEPT ![m] = "trim"],
             UNCHANGED <<current, turn, settled, drained, worker>>
      PROVE  QInv'
  <2>1. buffer' \in Seq(Msgs) /\ Len(buffer') <= BufferCap
        /\ ToSet(buffer') \subseteq ToSet(buffer) \cup {m}
    BY <1>2, <1>3, <1>4, <1>5
  <2>2. records' = [records EXCEPT ![Head(buf)] = @ + 1]
    BY <1>5 DEF Record
  <2>3. records' \in [Msgs -> Nat]
    BY <1>2, <1>4, <2>2
  <2>4. /\ waitFor' \in [Msgs -> Msgs \cup {NoMsg}] /\ waitFor'[m] \in ToSet(buffer) \cup {m}
        /\ \A x \in Msgs \ {m} : waitFor'[x] = waitFor[x]
    BY <1>2, <1>3, <1>4, <1>5
  <2>5. Queues(m, "trim")
    BY <1>1, <1>5, <2>1, <2>3, <2>4 DEF Queues
  <2> QED BY <2>5, QueuesStep
<1>6. ASSUME Len(buf) <= BufferCap, buffer' = buf, pc' = [pc EXCEPT ![m] = "completion"],
             UNCHANGED <<current, turn, settled, records, drained, worker, waitFor>>
      PROVE  QInv'
  <2>1. Queues(m, "completion")
    BY <1>1, <1>2, <1>3, <1>6 DEF Queues
  <2> QED BY <2>1, QueuesStep
<1>7. ASSUME worker = NoMsg, worker' = m, pc' = [pc EXCEPT ![m] = "completion"],
             DrainInto(buf, settled), UNCHANGED waitFor
      PROVE  QInv'
  <2>1. /\ entered' \in Seq(Msgs) /\ ToSet(entered') = ToSet(entered) \cup {m}
        /\ m \notin Multimodal
        /\ \A i, j \in DOMAIN entered' : entered'[i] = entered'[j] => i = j
        /\ \A x, y : Before(x, y) => Before(x, y)'
        /\ \A x \in ToSet(entered) : Before(x, m)'
    BY <1>1, EnterFacts
  <2>2. \A x \in Msgs : ~Executing(x)
    BY <1>1, <1>7 DEF QInv, Slot
  <2>3. /\ pc' \in [Msgs -> Stages] /\ pc'[m] = "completion"
        /\ \A x \in Msgs \ {m} : pc'[x] = pc[x]
    BY <1>2, <1>7 DEF Stages
  <2>4. \A x \in ToSet(entered') : x \notin Multimodal /\ pc'[x] \notin Waiting
    <3>1. ToSet(entered') \subseteq Msgs
      BY <2>1, ListFacts
    <3>2. pc'[m] \notin Waiting
      BY <2>3 DEF Waiting
    <3> QED BY <2>1, <2>3, <3>1, <3>2 DEF QInv, Entered
  <2>5. ToSet(buf) \subseteq ToSet(entered') /\ ToSet(sent) \subseteq ToSet(entered)
    BY <1>3, <2>1 DEF QInv, Entered
  <2>6. \A i, j \in DOMAIN sent : i < j => Before(sent[i], sent[j])'
    BY <1>1, <2>1 DEF QInv, Order
  <2>7. \A x \in ToSet(sent), v \in {buf[Len(buf)]} : Before(x, v)'
    BY <1>3, <2>1, <2>5
  <2>8. completion' = completion /\ completion \in [Msgs -> {"pending", "resolved", "rejected"}]
    BY <1>1 DEF QInv, TypeOK
  <2>9. \A x \in Msgs : pc'[x] = pc[x] \/ (pc[x] \in {"gate", "trim"} /\ pc'[x] = "completion")
    BY <1>1, <2>3
  <2>10. Drains(buf, settled)
    <3> HIDE DEF Before, Executing, DrainInto
    <3> QED BY <1>1, <1>2, <1>3, <1>7, <2>1, <2>2, <2>3, <2>4, <2>5, <2>6, <2>7, <2>8, <2>9 DEF Drains
  <2> QED BY <2>10, DrainsStep
<1> QED BY <1>1, <1>5, <1>6, <1>7

\* What was entered stays as it is, and what is drained next waits in the
\* buffer, after everything that was sent.
LEMMA BufferFacts ==
  ASSUME QInv, UNCHANGED <<entered, sent>>
  PROVE  /\ entered' \in Seq(Msgs) /\ ToSet(entered') = ToSet(entered) /\ ToSet(entered) \subseteq Msgs
         /\ \A i, j \in DOMAIN entered' : entered'[i] = entered'[j] => i = j
         /\ ToSet(buffer) \subseteq ToSet(entered') /\ buffer \in Seq(Msgs)
         /\ \A i, j \in DOMAIN sent : i < j => Before(sent[i], sent[j])'
         /\ buffer # <<>> => \A x \in ToSet(sent), v \in {buffer[Len(buffer)]} : Before(x, v)'
<1>1. entered \in Seq(Msgs) /\ buffer \in Seq(Msgs) /\ ToSet(entered) \subseteq Msgs
  BY ListFacts DEF QInv, TypeOK
<1>2. \A x, y : Before(x, y)' <=> Before(x, y)
  BY DEF Before
<1>3. buffer # <<>> => buffer[Len(buffer)] \in ToSet(buffer)
  BY <1>1, ListFacts
<1>4. /\ \A i, j \in DOMAIN sent : i < j => Before(sent[i], sent[j])
      /\ \A x \in ToSet(sent), b \in ToSet(buffer) : Before(x, b)
  BY DEF QInv, Order
<1>5. \A i, j \in DOMAIN entered : entered[i] = entered[j] => i = j
  BY DEF QInv, Entered
<1>6. ToSet(buffer) \subseteq ToSet(entered)
  BY DEF QInv, Entered
<1>7. \A i, j \in DOMAIN sent : i < j => Before(sent[i], sent[j])'
  BY <1>2, <1>4
<1> HIDE DEF Before
<1> QED BY <1>1, <1>2, <1>3, <1>4, <1>5, <1>6, <1>7

\* The message that was pushed out has its outcome, and a worker is started if
\* there is none.
LEMMA SettleDroppedStep ==
  ASSUME QInv, UNCHANGED mode, NEW m \in Msgs, SettleDropped(m)
  PROVE  QInv'
<1> DEFINE d == waitFor[m]
           outcome == [x \in Msgs |-> IF x \in ToSet(batch[d]) THEN "overflow" ELSE settled[x]]
<1>1. /\ pc[m] = "trim" /\ completion' = [completion EXCEPT ![d] = "resolved"]
      /\ pc' = [pc EXCEPT ![m] = "completion"]
      /\ \/ worker = NoMsg /\ buffer # <<>> /\ worker' = m /\ DrainInto(buffer, outcome)
         \/ settled' = outcome /\ UNCHANGED <<buffer, worker, drained, current, turn, records>>
      /\ UNCHANGED <<mode, batch, acked, cancelGen, myGen, waitFor, deferred, entered,
                     sent, arrivals, crashes>>
  BY DEF SettleDropped, AfterDrop
<1>2. mode = "serial"
  BY <1>1, QueueAssumption DEF QInv, TypeOK, ModeShape
<1>3. d \in ToSet(entered) /\ d \in Msgs
  BY <1>1, ListFacts DEF QInv, Entered, TypeOK
<1>4. d \in ToSet(batch[d]) /\ pc[d] \notin {"idle", "deferring"}
  BY <1>3 DEF QInv, Entered, Carried, Waiting
<1>5. /\ outcome \in [Msgs -> Outcomes] /\ outcome[d] # "none"
      /\ \A x \in Msgs : outcome[x] = "none" => settled[x] = "none"
  BY <1>3, <1>4 DEF QInv, TypeOK, Outcomes
<1> HIDE DEF outcome
<1>6. /\ pc' \in [Msgs -> Stages] /\ pc'[m] = "completion"
      /\ \A x \in Msgs \ {m} : pc'[x] = pc[x]
  BY <1>1 DEF QInv, TypeOK, Stages
<1>7. /\ completion' \in [Msgs -> {"pending", "resolved", "rejected"}]
      /\ \A x \in Msgs : completion'[x] = "resolved" => completion[x] = "resolved" \/ x = d
  BY <1>1, <1>3 DEF QInv, TypeOK
<1> HIDE DEF d
<1>8. m \notin Multimodal
  BY <1>1 DEF QInv, Carried
<1>9. \A x \in Msgs : pc[x] \notin Waiting => pc'[x] \notin Waiting
  BY <1>6 DEF Waiting
<1>10. /\ entered' \in Seq(Msgs) /\ ToSet(entered') = ToSet(entered) /\ ToSet(entered) \subseteq Msgs
       /\ \A i, j \in DOMAIN entered' : entered'[i] = entered'[j] => i = j
       /\ ToSet(buffer) \subseteq ToSet(entered') /\ buffer \in Seq(Msgs)
       /\ \A i, j \in DOMAIN sent : i < j => Before(sent[i], sent[j])'
       /\ buffer # <<>> => \A x \in ToSet(sent), v \in {buffer[Len(buffer)]} : Before(x, v)'
  BY <1>1, BufferFacts
<1>11. \A x \in ToSet(entered) : x \notin Multimodal /\ pc'[x] \notin Waiting
  BY <1>9, <1>10 DEF QInv, Entered
<1>12. ASSUME worker = NoMsg, buffer # <<>>, worker' = m, DrainInto(buffer, outcome)
       PROVE  QInv'
  <2>1. \A x \in Msgs : ~Executing(x)
    BY <1>2, <1>12 DEF QInv, Slot
  <2>2. \A x \in Msgs : pc'[x] = pc[x] \/ (pc[x] \in {"gate", "trim"} /\ pc'[x] = "completion")
    BY <1>1, <1>6
  <2>3. \A x \in Msgs : completion'[x] = "resolved" =>
          completion[x] = "resolved" \/ (outcome[x] # "none" /\ pc[x] \notin {"idle", "deferring"})
    BY <1>4, <1>5, <1>7
  <2>4. Drains(buffer, outcome)
    <3> HIDE DEF Before, Executing, DrainInto
    <3> QED BY <1>1, <1>2, <1>5, <1>6, <1>7, <1>10, <1>11, <1>12, <2>1, <2>2, <2>3 DEF Drains
  <2> QED BY <2>4, DrainsStep
<1>13. ASSUME settled' = outcome, UNCHANGED <<buffer, worker, drained, current, turn, records>>
       PROVE  QInv'
  <2>0. Multimodal \subseteq Msgs
    BY QueueAssumption
  <2>1. TypeOK'
    BY <1>1, <1>5, <1>6, <1>7, <1>13 DEF QInv, TypeOK
  <2>2. ModeShape'
    BY <1>1, <1>2, <1>6 DEF QInv, ModeShape
  <2>3. Carried'
    BY <1>1, <1>6, <1>8, <2>0 DEF QInv, Carried
  <2>4. Entered'
    BY <1>1, <1>6, <1>10, <1>11, <1>13 DEF QInv, Entered
  <2>5. Slot'
    BY <1>1, <1>2, <1>6, <1>13 DEF QInv, Slot, Executing
  <2>6. Generations'
    BY <1>1, <1>2 DEF Generations
  <2>7. Outcome'
    <3>1. \A x \in Msgs : pc'[x] = "finally" => settled'[x] # "none"
      BY <1>5, <1>6, <1>13 DEF QInv, Outcome
    <3>2. \A x \in Msgs : pc[x] \notin {"idle", "deferring"} => pc'[x] \notin {"idle", "deferring"}
      BY <1>6
    <3>3. \A x \in Msgs : completion'[x] = "resolved" =>
            settled'[x] # "none" /\ pc'[x] \notin {"idle", "deferring"}
      BY <1>4, <1>5, <1>7, <1>13, <3>2 DEF QInv, Outcome
    <3>4. ToSet(drained) \subseteq Msgs
      BY ListFacts DEF QInv, TypeOK
    <3> QED BY <1>1, <1>2, <1>5, <1>13, <3>1, <3>3, <3>4 DEF QInv, Outcome
  <2>8. AckedTextIsSettled'
    BY <1>1, <1>5, <1>13 DEF QInv, AckedTextIsSettled
  <2>9. Order'
    <3>1. \A x \in ToSet(sent) : pc'[x] # "awaitPrev"
      <4>1. ToSet(sent) \subseteq Msgs
        BY ListFacts DEF QInv, TypeOK
      <4> QED BY <1>6, <4>1 DEF QInv, Order
    <3>2. \A x \in Msgs : Unsent(x)' => Unsent(x)
      BY <1>13 DEF Unsent
    <3> QED BY <1>1, <1>13, <3>1, <3>2, OrderKept DEF QInv
  <2> QED BY <2>1, <2>2, <2>3, <2>4, <2>5, <2>6, <2>7, <2>8, <2>9 DEF QInv
<1> QED BY <1>1, <1>12, <1>13

\* The worker's turn is over: it stops or takes the next batch.
LEMMA WorkerStep ==
  ASSUME QInv, UNCHANGED mode, NEW m \in Msgs, WorkerLoop(m)
  PROVE  QInv'
<1> DEFINE w == drained[Len(drained)]
<1>1. /\ mode = "serial" /\ worker = m /\ drained # <<>> /\ turn[w].phase = "done"
      /\ completion' = [x \in Msgs |-> IF x \in ToSet(drained) THEN "resolved" ELSE completion[x]]
      /\ \/ WorkerStops
         \/ buffer # <<>> /\ DrainInto(buffer, settled) /\ UNCHANGED worker
      /\ UNCHANGED <<mode, pc, batch, acked, cancelGen, myGen, waitFor, deferred,
                     entered, sent, arrivals, crashes>>
  BY DEF WorkerLoop, WorkerTurnOver
<1>2. \A x \in Msgs : ~Executing(x)
  BY <1>1 DEF QInv, Slot, Executing
<1>3. \A x \in ToSet(drained) : settled[x] # "none" /\ pc[x] \notin {"idle", "deferring"}
  BY <1>1 DEF QInv, Outcome, Entered, Waiting
<1> HIDE DEF w
<1>4. /\ completion' \in [Msgs -> {"pending", "resolved", "rejected"}]
      /\ \A x \in Msgs : completion'[x] = "resolved" =>
           completion[x] = "resolved" \/ (settled[x] # "none" /\ pc[x] \notin {"idle", "deferring"})
  BY <1>1, <1>3 DEF QInv, TypeOK
<1>5. ASSUME buffer # <<>>, DrainInto(buffer, settled), UNCHANGED worker
      PROVE  QInv'
  <2>1. /\ entered' \in Seq(Msgs) /\ ToSet(entered') = ToSet(entered) /\ ToSet(entered) \subseteq Msgs
        /\ \A i, j \in DOMAIN entered' : entered'[i] = entered'[j] => i = j
        /\ ToSet(buffer) \subseteq ToSet(entered') /\ buffer \in Seq(Msgs)
        /\ \A i, j \in DOMAIN sent : i < j => Before(sent[i], sent[j])'
        /\ buffer # <<>> => \A x \in ToSet(sent), v \in {buffer[Len(buffer)]} : Before(x, v)'
    BY <1>1, BufferFacts
  <2>2. \A x \in ToSet(entered) : x \notin Multimodal /\ pc'[x] \notin Waiting
    BY <1>1 DEF QInv, Entered
  <2>3. pc \in [Msgs -> Stages] /\ settled \in [Msgs -> Outcomes]
    BY DEF QInv, TypeOK
  <2>4. Drains(buffer, settled)
    <3> HIDE DEF Before, Executing, DrainInto
    <3> QED BY <1>1, <1>2, <1>4, <1>5, <2>1, <2>2, <2>3 DEF Drains
  <2> QED BY <2>4, DrainsStep
<1>6. ASSUME WorkerStops PROVE QInv'
  <2>1. /\ worker' = NoMsg /\ drained' = <<>>
        /\ UNCHANGED <<buffer, current, turn, settled, records>>
    BY <1>6 DEF WorkerStops
  <2>2. ToSet(drained') = {} /\ drained' \in Seq(Msgs)
    BY <2>1, EmptyFacts
  <2>3. TypeOK'
    BY <1>1, <1>4, <2>1, <2>2 DEF QInv, TypeOK
  <2>4. ModeShape' /\ Carried' /\ AckedTextIsSettled' /\ Generations'
    BY <1>1, <2>1 DEF QInv, ModeShape, Carried, AckedTextIsSettled, Generations
  <2>5. Entered'
    BY <1>1, <2>1, <2>2 DEF QInv, Entered
  <2>6. Slot'
    <3>1. \A x \in Msgs : ~Executing(x)'
      BY <1>2, <2>1 DEF Executing
    <3> HIDE DEF Executing
    <3> QED BY <1>1, <2>1, <3>1 DEF QInv, Slot
  <2>7. Outcome'
    BY <1>1, <1>4, <2>1, <2>2 DEF QInv, Outcome
  <2>8. Order'
    <3>1. \A x \in ToSet(sent) : pc'[x] # "awaitPrev"
      BY <1>1 DEF QInv, Order
    <3>2. \A x \in Msgs : Unsent(x)' => Unsent(x)
      BY <2>1 DEF Unsent
    <3> QED BY <1>1, <2>1, <3>1, <3>2, OrderKept DEF QInv
  <2> QED BY <2>3, <2>4, <2>5, <2>6, <2>7, <2>8 DEF QInv
<1> QED BY <1>1, <1>5, <1>6

-----------------------------------------------------------------------------
(* The theorems *)

\* A restart of the daemon keeps acks and outcomes.
LEMMA CrashStep ==
  ASSUME QInv, UNCHANGED mode, Crash
  PROVE  QInv'
<1>1. crashes' \in 0..MaxCrashes
  BY QueueAssumption DEF Crash, QInv, TypeOK
<1>2. /\ mode' \in Modes /\ acked' \in [Msgs -> BOOLEAN] /\ settled' \in [Msgs -> Outcomes]
      /\ AckedTextIsSettled'
  BY DEF Crash, QInv, TypeOK, AckedTextIsSettled
<1>3. Started'
  BY <1>1, <1>2 DEF Crash, Started
<1>4. Started' => QInv'
  BY Fresh, PTL
<1> QED BY <1>3, <1>4

\* Every step preserves the invariant.
LEMMA QNext == QInv /\ [Next /\ UNCHANGED mode]_<<vars, mode>> => QInv'
<1> SUFFICES ASSUME QInv, [Next /\ UNCHANGED mode]_<<vars, mode>> PROVE QInv'
  OBVIOUS
<1>1. ASSUME UNCHANGED mode, NEW m \in Msgs, DeferAck(m) \/ Arrive(m)
      PROVE  QInv'
  BY <1>1, DeferAckStep, ArriveStep
<1>2. ASSUME UNCHANGED mode, NEW m \in Msgs, HandleStep(m)
      PROVE  QInv'
  BY <1>2, DeferStep, GateSteps, EnterCancelStep, TakeOverStep, DropSteps, EnterSerialStep,
     SettleDroppedStep, WorkerStep, EndSteps DEF HandleStep
<1>3. ASSUME UNCHANGED mode, NEW m \in Msgs, TurnStep(m) \/ TurnTimeout(m) \/ FactoryThrows(m)
      PROVE  QInv'
  BY <1>3, InsideSteps, ReleaseStep, FactoryStep DEF TurnStep
<1>4. CASE UNCHANGED <<vars, mode>>
  <2>1. UNCHANGED <<mode, pc, batch, acked, current, cancelGen, myGen, waitFor, buffer,
                    completion, worker, drained, deferred, turn, entered, sent, settled,
                    records, arrivals, crashes>>
    BY <1>4 DEF vars, handleVars, queueVars, histVars
  <2>2. TypeOK' /\ ModeShape' /\ Carried' /\ Entered'
    BY <2>1 DEF QInv, TypeOK, ModeShape, Carried, Entered
  <2>3. Slot' /\ Generations' /\ Outcome' /\ AckedTextIsSettled'
    BY <2>1 DEF QInv, Slot, Executing, Generations, Outcome, AckedTextIsSettled
  <2>4. Order'
    BY <2>1 DEF QInv, Order, Unsent, Before
  <2> QED BY <2>2, <2>3, <2>4 DEF QInv
<1> QED BY <1>1, <1>2, <1>3, <1>4, CrashStep DEF Next

\* The invariant holds in every reachable state.
LEMMA QInvHolds == Spec => []QInv
BY QInit, QNext, PTL DEF Spec

\* The type invariant: the queue never holds more than the cap, and every
\* stage, slot and outcome is one of those the dispatcher knows.
THEOREM QueueTypeCorrect == Spec => []TypeOK
<1>1. QInv => TypeOK
  BY DEF QInv
<1> QED BY <1>1, QInvHolds, PTL

\* At most one turn of a conversation executes, and it is the one in the slot,
\* whatever arrives while an aborted turn is torn down or the worker loops.
THEOREM OneTurn == Spec => []OneTurnAtATime
<1>1. QInv => OneTurnAtATime
  <2> HIDE DEF Executing
  <2> QED BY DEF QInv, Slot, OneTurnAtATime
<1> QED BY <1>1, QInvHolds, PTL

\* A text message is acked at the hub only when it has an outcome, in both
\* modes, for any caps, and across restarts.
THEOREM AckAfterOutcome == Spec => []AckedTextIsSettled
<1>1. QInv => AckedTextIsSettled
  BY DEF QInv
<1> QED BY <1>1, QInvHolds, PTL

\* In cancel mode the message that entered last is never the one that drops out.
THEOREM NewestStays == Spec => []NewestSurvives
<1>1. QInv => NewestSurvives
  BY DEF QInv, Generations, NewestSurvives
<1> QED BY <1>1, QInvHolds, PTL

\* Replies reach the wire in the order in which their messages entered.
THEOREM RepliesOrdered == Spec => []RepliesInOrder
<1>1. QInv => RepliesInOrder
  <2> SUFFICES ASSUME QInv, NEW i \in DOMAIN sent, NEW j \in DOMAIN sent, i < j
               PROVE  Position(entered, sent[i]) < Position(entered, sent[j])
    BY DEF RepliesInOrder
  <2>1. \A k, l \in DOMAIN entered : entered[k] = entered[l] => k = l
    BY DEF QInv, Entered
  <2>2. \A k \in DOMAIN entered : Position(entered, entered[k]) = k
    BY <2>1 DEF Position
  <2>3. Before(sent[i], sent[j])
    BY DEF QInv, Order
  <2> HIDE DEF Position
  <2> QED BY <2>2, <2>3 DEF Before
<1> QED BY <1>1, QInvHolds, PTL
=============================================================================
