--------------------------- MODULE OwnerChatProofs ---------------------------
(***************************************************************************)
(* The owner chat keeps OwnerChatHolds, for every set of bots and sends    *)
(* and every budget of faults.                                             *)
(*                                                                         *)
(* The inductive invariant types the state by sets that say what an item   *)
(* means: the rows that may be shown (Fit), what a socket may carry either *)
(* way (GoodSocks), the requests that may be out.  What the hub has stored *)
(* about a message only grows (Grows), so an item that was good stays good *)
(* (the Keep lemmas); an action then has to show only that the items it    *)
(* adds are good.                                                          *)
(***************************************************************************)
EXTENDS OwnerChat, WellFoundedInduction, TLAPS

-----------------------------------------------------------------------------
(* The inductive invariant *)

Cids == Sends \cup {NoSend} \cup (1..MaxHub)
Texts == {TextOf[c] : c \in Sends} \cup {"reply"}

MsgSet == [bot : Bots, from : {"user", "agent"}, cid : Cids, trace : 0..MaxHub,
           run : {"none", "running", "completed", "failed"}, text : Texts,
           blocks : SUBSET Nat, sent : Nat, turn : {"running", "replying", "replied", "ended"},
           state : {"queued", "done", "failed"}]

RowSet == [cid : Cids, hub : Int, from : {"user", "agent"},
           status : {"optimistic", "confirmed", "streaming", "delivered", "failed"},
           lost : BOOLEAN, trace : 0..MaxHub, blocks : SUBSET Nat, at : 0..MaxHub]

FrameSet == [type : {"echo", "message", "block", "error", "reject"},
             hub : 0..MaxHub, cid : Cids, seq : Nat]

\* A message of the hub that the owner wrote, or an agent.
FromUser(i) == i \in Ids /\ hist[i].from = "user"
FromAgent(i) == i \in Ids /\ hist[i].from = "agent"

\* A client id under which the owner writes: a new one, or that of a message
\* which is sent again; and the bot it was meant for.
User(c) == c \in Sends \/ FromUser(c)
Owner(c) == IF c \in Sends THEN aim[c] ELSE hist[c].bot
Meant(c, b) == c \in crossed \/ Owner(c) = b

\* What is stored: what the owner wrote has the text and, unless it crossed
\* over, the bot of its client id; a reply follows a message whose turn is
\* over; a run in progress is registered unless its connections ended, or its
\* reply is being sent.
MsgOK(i) ==
    /\ hist[i].from = "user" =>
         /\ User(hist[i].cid) /\ hist[i].trace = 0
         /\ hist[i].text = SaidBy(hist[i].cid) /\ Meant(hist[i].cid, hist[i].bot)
    /\ hist[i].from = "agent" =>
         /\ FromUser(hist[i].trace) /\ hist[hist[i].trace].turn # "running"
         /\ hist[i].state # "failed" /\ hist[i].run = "none"
    /\ hist[i].run = "running" => i \in subs \cup cut \/ hist[i].turn = "replying"

OneReply == \A i, j \in Ids : hist[i].from = "agent" /\ hist[j].from = "agent"
                              /\ hist[i].trace = hist[j].trace => i = j

\* A row of the store.
RowOK(r) ==
    /\ room \in Bots
    /\ r.hub > 0 => /\ r.hub \in Ids /\ r.from = hist[r.hub].from /\ r.trace = hist[r.hub].trace
                    /\ \/ hist[r.hub].bot = room
                       \/ r.cid \in crossed /\ hist[r.hub].run = "none"
    /\ r.from = "user" => /\ User(r.cid) /\ r.trace = 0 /\ Meant(r.cid, room) /\ r.hub >= 0
                          /\ r.hub = 0 => r.cid \in Sends
    /\ r.from = "agent" => /\ r.cid = NoSend \/ FromAgent(r.cid)
                           /\ FromUser(r.trace)
                           /\ r.hub <= 0 => hist[r.trace].bot = room
    /\ r.status \in {"optimistic", "failed", "confirmed"} => r.from = "user"
    /\ r.status = "confirmed" => FromUser(r.hub) /\ hist[r.hub].text = SaidBy(r.cid)
    /\ r.from = "user" /\ r.status = "delivered" => r.hub > 0
    /\ r.status = "streaming" => r.from = "agent" /\ r.hub = 0

\* The rows that may be shown if those being sent have their client id in O.
Fit(O) == {r \in RowSet : RowOK(r) /\ (r.status = "optimistic" => r.cid \in O)}

\* The client ids of which the outcome is on its way, or was overtaken.
Told == {c \in Cids : Awaited(c) \/ c \in overtaken}

\* The runs in W have one row in rs.
Solo(rs, W) ==
    \A k, l \in DOMAIN rs :
        /\ rs[k].from = "agent" /\ rs[l].from = "agent" /\ rs[k].trace = rs[l].trace
        /\ rs[k].trace \in W
        => k = l
Whole == {t \in Ids : hist[t].state # "failed"}

\* What a connection of bot b carries.
Upward(b) == {c \in Cids : User(c) /\ Meant(c, b)}
FrameOK(m, b) ==
    /\ m.type = "echo" => FromUser(m.hub) /\ m.cid = hist[m.hub].cid /\ hist[m.hub].bot = b
    /\ m.type = "message" => FromAgent(m.hub) /\ m.cid = NoSend /\ hist[m.hub].bot = b
    /\ m.type \in {"block", "error"} => FromUser(m.hub) /\ m.cid = NoSend /\ hist[m.hub].bot = b
    /\ m.type = "error" => hist[m.hub].state = "failed"
Downward(b) == {m \in FrameSet : FrameOK(m, b)}

SockSet == [bot : Bots, state : {"up", "stale", "dead", "gone"}, up : Seq(Cids),
            echo : 0..MaxHub, down : Seq(FrameSet)]
SockOK(s) ==
    /\ s.up \in Seq(Upward(s.bot)) /\ s.down \in Seq(Downward(s.bot))
    /\ s.echo # 0 => FromUser(s.echo) /\ hist[s.echo].bot = s.bot
GoodSocks == {s \in SockSet : SockOK(s)}

\* What is on its way to the hub by another road.
PostSet == [cid : Cids, bot : Bots, try : Nat, hub : 0..MaxHub]
PostOK(p) ==
    /\ User(p.cid) /\ Meant(p.cid, p.bot)
    /\ p.hub # 0 => /\ FromUser(p.hub) /\ hist[p.hub].cid = p.cid
                    /\ hist[p.hub].bot = p.bot /\ hist[p.hub].run = "none"
GoodPosts == {p \in PostSet : PostOK(p)}

UploadSet == [cid : Cids, bot : Bots, connected : BOOLEAN, try : Nat]
GoodUploads == {u \in UploadSet : User(u.cid) /\ Meant(u.cid, u.bot)}

\* A request of this visit is for this room, and the blocks that a request
\* brings are of a run of this room.
FetchSet == [kind : {"load", "reconcile", "merge", "restore"}, bot : Bots, visit : Nat,
             after : Int, trace : 0..MaxHub, upto : Int, data : SUBSET Nat]
FetchOK(f) ==
    /\ f.visit <= visit /\ (f.visit = visit => f.bot = room)
    /\ f.upto >= -1 /\ f.upto <= Len(hist)
    /\ f.kind # "restore" => f.trace = 0 /\ \A i \in f.data : FromUser(i)
    /\ f.kind = "restore" =>
         /\ FromUser(f.trace)
         /\ f.visit = visit => \/ hist[f.trace].bot = room
                               \/ hist[f.trace].run = "none" /\ f.data = {}
GoodFetches == {f \in FetchSet : FetchOK(f)}

GoodBlocks == {x \in (1..MaxHub) \X Nat : FromUser(x[1])}

LeftSet == [switches : Nat, faults : Nat, retries : Nat, merges : Nat,
            blocks : Nat, sends : SUBSET Sends, files : SUBSET Sends]

PlaceInv == selected \in Bots /\ room \in {NoBot, selected} /\ visit \in Nat /\ socket \in Nat
            /\ aim \in [Sends -> Bots \cup {NoBot}] /\ left \in LeftSet
HubInv == /\ hist \in Seq(MsgSet) /\ Len(hist) <= MaxHub
          /\ subs \subseteq Ids /\ dropped \subseteq Ids \X Nat /\ cut \subseteq Ids
          /\ \A i \in Ids : MsgOK(i)
          /\ OneReply /\ DropsExplained
RowsInv == rows \in Seq(Fit(Told)) /\ Solo(rows, Whole)
LinkInv == socket # 0 => /\ socket \in DOMAIN socks /\ socks[socket].state = "up"
                         /\ socks[socket].bot = room /\ room # NoBot
WayInv == /\ socks \in Seq(GoodSocks) /\ posts \subseteq GoodPosts
          /\ uploads \subseteq GoodUploads /\ fetches \subseteq GoodFetches
          /\ fwd \subseteq GoodBlocks

ChatInv == PlaceInv /\ HubInv /\ RowsInv /\ LinkInv /\ WayInv

-----------------------------------------------------------------------------
(* Least and greatest elements, and recursive functions *)

\* A set of numbers has a least one.
LEMMA Least ==
  ASSUME NEW K \in SUBSET Nat, K # {}
  PROVE  \E k \in K : \A j \in K : ~(j < k)
<1>1. IsWellFoundedOn(OpToRel(<, Nat), Nat)
  BY Zenon, NatLessThanWellFounded
<1>2. \E k \in K : \A j \in K : ~(<<j, k>> \in OpToRel(<, Nat))
  BY Zenon, <1>1, WFMin
<1>3. \A j, k \in Nat : j < k => <<j, k>> \in OpToRel(<, Nat)
  BY DEF OpToRel
<1> QED BY <1>2, <1>3

\* Min and Max of FiniteSetsExt choose from the set.
LEMMA MinIn ==
  ASSUME NEW K \in SUBSET Nat, K # {}
  PROVE  Min(K) \in K
<1>1. \E x \in K : \A y \in K : x =< y
  BY Least
<1> QED BY Zenon, <1>1 DEF Min

LEMMA MaxIn ==
  ASSUME NEW n \in Nat, NEW K \in SUBSET (1..n), K # {}
  PROVE  Max(K) \in K
<1> DEFINE J == {n - k : k \in K}
<1>1. J \in SUBSET Nat /\ J # {}
  OBVIOUS
<1>2. PICK j \in J : \A i \in J : ~(i < j)
  <2> HIDE DEF J
  <2> QED BY <1>1, Least
<1>3. \E x \in K : \A y \in K : x >= y
  <2>1. PICK x \in K : j = n - x
    OBVIOUS
  <2>2. \A y \in K : n - y \in J
    OBVIOUS
  <2>3. \A y \in K : ~(n - y < n - x)
    BY <1>2, <2>1, <2>2
  <2> QED BY <2>3
<1> QED BY Zenon, <1>3 DEF Max

\* Induction up to N, over a set.
LEMMA Upto ==
  ASSUME NEW N \in Nat, NEW G, 0 \in G, \A n \in 1..N : n - 1 \in G => n \in G
  PROVE  \A n \in 0..N : n \in G
<1> DEFINE K == {n \in 0..N : n \notin G}
<1> SUFFICES ASSUME K # {} PROVE FALSE
  OBVIOUS
<1>1. PICK k \in K : \A j \in K : ~(j < k)
  <2>1. K \in SUBSET Nat
    OBVIOUS
  <2> HIDE DEF K
  <2> QED BY <2>1, Least
<1>2. k \in 1..N
  OBVIOUS
<1>3. k - 1 \in G
  BY <1>1, <1>2
<1> QED BY <1>2, <1>3

\* A function that is defined by recursion up to N exists.
Steps(N, S) == [(1..N) \X S -> S]
Built(g, N, S, base, step) ==
  g \in [0..N -> S] /\ g[0] = base /\ \A n \in 1..N : g[n] = step[<<n, g[n-1]>>]

\* A recursive function over 0..N whose steps stay in S exists.
LEMMA Recursion ==
  ASSUME NEW N \in Nat, NEW S, NEW base \in S, NEW step \in Steps(N, S)
  PROVE  \E g : Built(g, N, S, base, step)
<1> USE DEF Steps
<1> DEFINE Good(g, k) == \A n \in 0..k : g[n] = IF n = 0 THEN base ELSE step[<<n, g[n-1]>>]
           G == {k \in 0..N : \E g \in [0..k -> S] : Good(g, k)}
<1>1. 0 \in G
  <2>1. [n \in 0..0 |-> base] \in [0..0 -> S]
    OBVIOUS
  <2>2. Good([n \in 0..0 |-> base], 0)
    OBVIOUS
  <2> HIDE DEF Good
  <2> QED BY <2>1, <2>2
<1>2. ASSUME NEW k \in 1..N, k - 1 \in G
      PROVE  k \in G
  <2>1. PICK g \in [0..(k-1) -> S] : Good(g, k-1)
    BY <1>2
  <2> DEFINE h == [n \in 0..k |-> IF n = k THEN step[<<k, g[k-1]>>] ELSE g[n]]
  <2>2. step[<<k, g[k-1]>>] \in S
    OBVIOUS
  <2>3. h \in [0..k -> S]
    BY <2>2
  <2>4. Good(h, k)
    <3> SUFFICES ASSUME NEW n \in 0..k
                 PROVE  h[n] = IF n = 0 THEN base ELSE step[<<n, h[n-1]>>]
      OBVIOUS
    <3>1. CASE n = k
      <4>1. h[k] = step[<<k, g[k-1]>>] /\ h[k-1] = g[k-1] /\ k # 0
        OBVIOUS
      <4> HIDE DEF h
      <4> QED BY <3>1, <4>1
    <3>2. CASE n # k
      <4>1. h[n] = g[n] /\ n \in 0..(k-1) /\ (n # 0 => h[n-1] = g[n-1])
        BY <3>2
      <4> QED BY <4>1, <2>1
    <3> QED BY <3>1, <3>2
  <2> HIDE DEF Good, h
  <2> QED BY <2>3, <2>4
<1>3. N \in G
  <2> HIDE DEF G
  <2> QED BY <1>1, <1>2, Upto
<1>4. PICK g \in [0..N -> S] : Good(g, N)
  BY <1>3
<1>5. ASSUME NEW n \in 1..N PROVE g[n] = step[<<n, g[n-1]>>]
  <2>1. n \in 0..N /\ n # 0
    OBVIOUS
  <2> QED BY <1>4, <2>1
<1>6. g[0] = base
  <2>1. 0 \in 0..N
    OBVIOUS
  <2> QED BY <1>4, <2>1
<1>7. Built(g, N, S, base, step)
  <2> HIDE DEF G, Good
  <2> QED BY Zenon, <1>5, <1>6 DEF Built
<1> QED BY <1>7

-----------------------------------------------------------------------------
(* Lists of rows *)

\* The recursive function of Picked.
PickFun(s, K) ==
  CHOOSE p : p = [n \in 0..Len(s) |->
                    IF n = 0 THEN <<>> ELSE IF n \in K THEN Append(p[n-1], s[n]) ELSE p[n-1]]

\* Picked is computed by its recursive function.
LEMMA PickedIsFun ==
  ASSUME NEW X, NEW s \in Seq(X), NEW K
  PROVE  /\ Picked(s, K) = PickFun(s, K)[Len(s)]
         /\ PickFun(s, K) \in [0..Len(s) -> Seq(X)]
         /\ \A n \in 0..Len(s) : PickFun(s, K)[n] =
              IF n = 0 THEN <<>>
              ELSE IF n \in K THEN Append(PickFun(s, K)[n-1], s[n]) ELSE PickFun(s, K)[n-1]
<1> DEFINE N == Len(s)
           S == Seq(X)
           step == [x \in (1..N) \X S |-> IF x[1] \in K THEN Append(x[2], s[x[1]]) ELSE x[2]]
<1>1. N \in Nat /\ <<>> \in S
  OBVIOUS
<1>2. step \in Steps(N, S)
  <2>1. ASSUME NEW x \in (1..N) \X S
        PROVE  (IF x[1] \in K THEN Append(x[2], s[x[1]]) ELSE x[2]) \in S
    <3>1. x[1] \in 1..N /\ x[2] \in Seq(X) /\ s[x[1]] \in X
      OBVIOUS
    <3> QED BY <3>1
  <2> QED BY <2>1 DEF Steps
<1>3. PICK g : Built(g, N, S, <<>>, step)
  <2> HIDE DEF N, S, step
  <2> QED BY Zenon, <1>1, <1>2, Recursion
<1>3a. g \in [0..N -> S] /\ g[0] = <<>> /\ \A n \in 1..N : g[n] = step[<<n, g[n-1]>>]
  <2> HIDE DEF N, S, step
  <2> QED BY <1>3 DEF Built
<1>4. g = [n \in 0..N |-> IF n = 0 THEN <<>> ELSE IF n \in K THEN Append(g[n-1], s[n]) ELSE g[n-1]]
  <2>1. ASSUME NEW n \in 1..N
        PROVE  g[n] = IF n \in K THEN Append(g[n-1], s[n]) ELSE g[n-1]
    <3>1. <<n, g[n-1]>> \in (1..N) \X S
      <4> HIDE DEF S, N, step
      <4> QED BY <1>1, <1>3a
    <3>2. step[<<n, g[n-1]>>] = IF n \in K THEN Append(g[n-1], s[n]) ELSE g[n-1]
      BY <3>1
    <3> HIDE DEF step, N
    <3> QED BY <3>2, <1>3a
  <2> HIDE DEF step, N, S
  <2>2. \A n \in 0..N : n # 0 => n \in 1..N
    BY <1>1
  <2> QED BY <2>1, <2>2, <1>3a
<1>5. PickFun(s, K) = [n \in 0..N |-> IF n = 0 THEN <<>>
           ELSE IF n \in K THEN Append(PickFun(s, K)[n-1], s[n]) ELSE PickFun(s, K)[n-1]]
  <2> HIDE DEF S, step
  <2> QED BY Zenon, <1>4 DEF PickFun
<1>6. PickFun(s, K) \in [0..N -> S]
  <2> DEFINE h == PickFun(s, K)
             G == {n \in 0..N : h[n] \in S}
  <2>1. 0 \in G
    BY <1>5
  <2>2. ASSUME NEW n \in 1..N, n - 1 \in G PROVE n \in G
    <3>1. n \in 0..N /\ n # 0
      OBVIOUS
    <3>2. h[n] = IF n \in K THEN Append(h[n-1], s[n]) ELSE h[n-1]
      <4> HIDE DEF h, N
      <4> QED BY <1>5, <3>1 DEF h
    <3>3. h[n-1] \in Seq(X) /\ s[n] \in X
      BY <2>2
    <3> HIDE DEF h
    <3>4. h[n] \in S
      BY <3>2, <3>3
    <3> QED BY <3>4, <3>1
  <2>3. \A n \in 0..N : n \in G
    <3> HIDE DEF G
    <3> QED BY <1>1, <2>1, <2>2, Upto
  <2> HIDE DEF S
  <2> QED BY <2>3, <1>5
<1>7. Picked(s, K) = PickFun(s, K)[Len(s)]
  BY Zenon DEF Picked, PickFun
<1> HIDE DEF N, S
<1>8. \A n \in 0..N : PickFun(s, K)[n] = IF n = 0 THEN <<>>
           ELSE IF n \in K THEN Append(PickFun(s, K)[n-1], s[n]) ELSE PickFun(s, K)[n-1]
  BY <1>5
<1> QED BY <1>6, <1>7, <1>8 DEF N, S

\* What is picked comes from the positions in K, in their order, so that
\* what sets them apart still does.
LEMMA PickedFrom ==
  ASSUME NEW X, NEW s \in Seq(X), NEW K
  PROVE  /\ Picked(s, K) \in Seq(X)
         /\ \A x \in DOMAIN Picked(s, K) : \E k \in DOMAIN s \cap K : Picked(s, K)[x] = s[k]
<1> DEFINE p == PickFun(s, K)
           N == Len(s)
           G == {n \in 0..N : \A x \in DOMAIN p[n] : \E k \in (1..n) \cap K : p[n][x] = s[k]}
<1>0. N \in Nat /\ DOMAIN s = 1..N
  OBVIOUS
<1> HIDE DEF p, N
<1>1. /\ Picked(s, K) = p[N] /\ p \in [0..N -> Seq(X)]
      /\ \A n \in 0..N : p[n] = IF n = 0 THEN <<>>
              ELSE IF n \in K THEN Append(p[n-1], s[n]) ELSE p[n-1]
  BY PickedIsFun DEF p, N
<1>2. 0 \in G
  BY <1>0, <1>1
<1>3. ASSUME NEW n \in 1..N, n - 1 \in G PROVE n \in G
  <2>1. p[n-1] \in Seq(X) /\ s[n] \in X /\ n - 1 \in Nat
    BY <1>0, <1>1
  <2>2. \A x \in DOMAIN p[n-1] : \E k \in (1..n) \cap K : p[n-1][x] = s[k]
    BY <1>3, <1>0
  <2>3. CASE n \in K
    <3>1. p[n] = Append(p[n-1], s[n])
      BY <1>1, <2>3, <1>0
    <3> DEFINE m == Len(p[n-1])
    <3>2. m \in Nat /\ DOMAIN p[n] = 1..(m+1) /\ p[n][m+1] = s[n]
          /\ DOMAIN p[n-1] = 1..m /\ \A x \in 1..m : p[n][x] = p[n-1][x]
      BY <3>1, <2>1
    <3> HIDE DEF m
    <3>3. ASSUME NEW x \in DOMAIN p[n] PROVE \E k \in (1..n) \cap K : p[n][x] = s[k]
      <4>1. CASE x = m + 1
        BY <4>1, <3>2, <2>3, <1>0
      <4>2. CASE x # m + 1
        BY <4>2, <3>2, <2>2, <1>0
      <4> QED BY <4>1, <4>2
    <3> QED BY <3>3, <1>0
  <2>4. CASE n \notin K
    <3>1. p[n] = p[n-1]
      BY <1>1, <2>4, <1>0
    <3> QED BY <3>1, <2>2, <1>0
  <2> QED BY <2>3, <2>4
<1>4. \A n \in 0..N : n \in G
  <2> HIDE DEF G
  <2> QED BY <1>0, <1>2, <1>3, Upto
<1>5. \A x \in DOMAIN p[N] : \E k \in (1..N) \cap K : p[N][x] = s[k]
  BY <1>4, <1>0
<1>6. p[N] \in Seq(X)
  BY <1>0, <1>1
<1> QED BY Zenon, <1>0, <1>1, <1>5, <1>6

\* Rows of different runs stay rows of different runs when some are left out.
LEMMA PickedSolo ==
  ASSUME NEW X, NEW s \in Seq(X), NEW K, NEW W,
         \A k, l \in DOMAIN s \cap K :
            s[k].from = "agent" /\ s[l].from = "agent" /\ s[k].trace = s[l].trace
            /\ s[k].trace \in W => k = l
  PROVE  Solo(Picked(s, K), W)
<1> DEFINE p == PickFun(s, K)
           N == Len(s)
           G == {n \in 0..N : /\ Solo(p[n], W)
                              /\ \A x \in DOMAIN p[n] : \E k \in (1..n) \cap K : p[n][x] = s[k]}
<1>0. N \in Nat /\ DOMAIN s = 1..N
  OBVIOUS
<1> HIDE DEF p, N
<1>1. /\ Picked(s, K) = p[N] /\ p \in [0..N -> Seq(X)]
      /\ \A n \in 0..N : p[n] = IF n = 0 THEN <<>>
              ELSE IF n \in K THEN Append(p[n-1], s[n]) ELSE p[n-1]
  BY PickedIsFun DEF p, N
<1>2. 0 \in G
  BY <1>0, <1>1 DEF Solo
<1>3. ASSUME NEW n \in 1..N, n - 1 \in G PROVE n \in G
  <2>1. p[n-1] \in Seq(X) /\ s[n] \in X /\ n - 1 \in Nat
    BY <1>0, <1>1
  <2>2. \A x \in DOMAIN p[n-1] : \E k \in (1..(n-1)) \cap K : p[n-1][x] = s[k]
    BY <1>3
  <2>2a. Solo(p[n-1], W)
    BY <1>3
  <2>3. CASE n \in K
    <3>1. p[n] = Append(p[n-1], s[n])
      BY <1>1, <2>3, <1>0
    <3> DEFINE m == Len(p[n-1])
    <3>2. m \in Nat /\ DOMAIN p[n] = 1..(m+1) /\ p[n][m+1] = s[n]
          /\ DOMAIN p[n-1] = 1..m /\ \A x \in 1..m : p[n][x] = p[n-1][x]
      BY <3>1, <2>1
    <3> HIDE DEF m
    <3>3. \A x \in DOMAIN p[n] : \E k \in (1..n) \cap K : p[n][x] = s[k]
      <4> SUFFICES ASSUME NEW x \in DOMAIN p[n] PROVE \E k \in (1..n) \cap K : p[n][x] = s[k]
        OBVIOUS
      <4>1. CASE x = m + 1
        BY <4>1, <3>2, <2>3, <1>0
      <4>2. CASE x # m + 1
        BY <4>2, <3>2, <2>2, <1>0
      <4> QED BY <4>1, <4>2
    <3>4. ASSUME NEW x \in 1..m, p[n][x].from = "agent", p[n][m+1].from = "agent",
                 p[n][x].trace = p[n][m+1].trace, p[n][x].trace \in W
          PROVE  FALSE
      <4>1. PICK k \in (1..(n-1)) \cap K : p[n-1][x] = s[k]
        BY <3>2, <2>2
      <4>2. k \in DOMAIN s \cap K /\ n \in DOMAIN s \cap K /\ k # n
        BY <1>0, <2>3
      <4> QED BY <4>1, <4>2, <3>2, <3>4
    <3>5. Solo(p[n], W)
      <4> SUFFICES ASSUME NEW k \in DOMAIN p[n], NEW l \in DOMAIN p[n],
                          p[n][k].from = "agent", p[n][l].from = "agent",
                          p[n][k].trace = p[n][l].trace, p[n][k].trace \in W
                   PROVE  k = l
        BY DEF Solo
      <4>1. CASE k \in 1..m /\ l \in 1..m
        BY <4>1, <3>2, <2>2a DEF Solo
      <4>2. CASE k \in 1..m /\ l = m + 1
        BY <4>2, <3>4
      <4>3. CASE k = m + 1 /\ l \in 1..m
        BY <4>3, <3>4
      <4> QED BY <4>1, <4>2, <4>3, <3>2
    <3> QED BY <3>3, <3>5, <1>0
  <2>4. CASE n \notin K
    <3>1. p[n] = p[n-1]
      BY <1>1, <2>4, <1>0
    <3> QED BY <3>1, <2>2, <2>2a, <1>0
  <2> QED BY <2>3, <2>4
<1>4. \A n \in 0..N : n \in G
  <2> HIDE DEF G
  <2> QED BY <1>0, <1>2, <1>3, Upto
<1>5. Solo(p[N], W)
  BY <1>4, <1>0
<1> QED BY Zenon, <1>1, <1>5

\* Two lists one after the other; a list and one row more.
LEMMA SoloConcat ==
  ASSUME NEW X, NEW a \in Seq(X), NEW b \in Seq(X), NEW W, Solo(a, W), Solo(b, W),
         \A k \in DOMAIN a, l \in DOMAIN b :
            ~(a[k].from = "agent" /\ b[l].from = "agent" /\ a[k].trace = b[l].trace
              /\ a[k].trace \in W)
  PROVE  Solo(a \o b, W)
<1> DEFINE m == Len(a)
           n == Len(b)
           c == a \o b
<1>1. /\ m \in Nat /\ n \in Nat /\ DOMAIN a = 1..m /\ DOMAIN b = 1..n /\ DOMAIN c = 1..(m+n)
      /\ \A x \in 1..m : c[x] = a[x]
      /\ \A x \in 1..n : c[m+x] = b[x]
  OBVIOUS
<1> HIDE DEF m, n, c
<1>2. \A x \in DOMAIN c : x \in 1..m \/ \E y \in 1..n : x = m + y
  <2> SUFFICES ASSUME NEW x \in DOMAIN c, x \notin 1..m PROVE \E y \in 1..n : x = m + y
    OBVIOUS
  <2>1. x - m \in 1..n /\ x = m + (x - m)
    BY <1>1
  <2> QED BY <2>1
<1> SUFFICES ASSUME NEW k \in DOMAIN c, NEW l \in DOMAIN c,
                    c[k].from = "agent", c[l].from = "agent",
                    c[k].trace = c[l].trace, c[k].trace \in W
             PROVE  k = l
  BY DEF Solo, c
<1>3. CASE k \in 1..m /\ l \in 1..m
  BY <1>1, <1>3 DEF Solo
<1>4. ASSUME NEW x \in 1..m, NEW y \in 1..n,
             c[x].from = "agent", c[m+y].from = "agent",
             c[x].trace = c[m+y].trace, c[x].trace \in W
      PROVE  FALSE
  BY <1>1, <1>4
<1>5. CASE k \in 1..m /\ \E y \in 1..n : l = m + y
  BY <1>4, <1>5
<1>6. CASE l \in 1..m /\ \E y \in 1..n : k = m + y
  BY <1>4, <1>6
<1>7. ASSUME NEW x \in 1..n, k = m + x, NEW y \in 1..n, l = m + y PROVE k = l
  <2>1. c[k] = b[x] /\ c[l] = b[y]
    BY <1>1, <1>7
  <2>2. x = y
    BY <2>1, <1>1 DEF Solo
  <2> QED BY <2>2, <1>7
<1> QED BY <1>2, <1>3, <1>5, <1>6, <1>7

LEMMA SoloAppend ==
  ASSUME NEW X, NEW a \in Seq(X), NEW r \in X, NEW W, Solo(a, W),
         \A k \in DOMAIN a :
            ~(a[k].from = "agent" /\ r.from = "agent" /\ a[k].trace = r.trace /\ r.trace \in W)
  PROVE  Solo(Append(a, r), W)
<1> DEFINE m == Len(a)
           c == Append(a, r)
<1>1. /\ m \in Nat /\ DOMAIN a = 1..m /\ DOMAIN c = 1..(m+1)
      /\ \A x \in 1..m : c[x] = a[x]
      /\ c[m+1] = r
  OBVIOUS
<1> HIDE DEF m, c
<1> SUFFICES ASSUME NEW k \in DOMAIN c, NEW l \in DOMAIN c,
                    c[k].from = "agent", c[l].from = "agent",
                    c[k].trace = c[l].trace, c[k].trace \in W
             PROVE  k = l
  BY DEF Solo, c
<1>2. CASE k \in 1..m /\ l \in 1..m
  BY <1>1, <1>2 DEF Solo
<1>3. CASE k \in 1..m /\ l = m + 1
  BY <1>1, <1>3
<1>4. CASE k = m + 1 /\ l \in 1..m
  BY <1>1, <1>4
<1> QED BY <1>1, <1>2, <1>3, <1>4

\* A list with the same speakers and runs at the same places.
LEMMA SoloSame ==
  ASSUME NEW rs, NEW qs, NEW W, Solo(rs, W), DOMAIN qs = DOMAIN rs,
         \A k \in DOMAIN rs : qs[k].from = rs[k].from /\ qs[k].trace = rs[k].trace
  PROVE  Solo(qs, W)
BY DEF Solo

\* The rows of rs that were created at a time.
AtTime(rs, n) == {k \in DOMAIN rs : rs[k].at = n - 1}
TimeFun(rs) ==
  CHOOSE p : p = [n \in 0..(MaxHub + 1) |->
                    IF n = 0 THEN <<>>
                    ELSE p[n-1] \o Picked(rs, {k \in DOMAIN rs : rs[k].at = n - 1})]

\* ByTime is computed by its recursive function.
LEMMA ByTimeIsFun ==
  ASSUME NEW X, NEW rs \in Seq(X)
  PROVE  /\ ByTime(rs) = TimeFun(rs)[MaxHub + 1]
         /\ TimeFun(rs)[0] = <<>>
         /\ \A n \in 1..(MaxHub + 1) :
              TimeFun(rs)[n] = TimeFun(rs)[n-1] \o Picked(rs, AtTime(rs, n))
<1> DEFINE N == MaxHub + 1
           S == Seq(X)
           step == [x \in (1..N) \X S |-> x[2] \o Picked(rs, AtTime(rs, x[1]))]
<1>1. N \in Nat /\ <<>> \in S
  BY OwnerChatAssumption
<1>2. step \in Steps(N, S)
  <2>1. ASSUME NEW x \in (1..N) \X S
        PROVE  x[2] \o Picked(rs, AtTime(rs, x[1])) \in S
    <3>1. x[2] \in Seq(X) /\ Picked(rs, AtTime(rs, x[1])) \in Seq(X)
      BY PickedFrom
    <3> QED BY <3>1
  <2> QED BY <2>1 DEF Steps
<1>3. PICK g : Built(g, N, S, <<>>, step)
  <2> HIDE DEF N, S, step
  <2> QED BY Zenon, <1>1, <1>2, Recursion
<1>3a. g \in [0..N -> S] /\ g[0] = <<>> /\ \A n \in 1..N : g[n] = step[<<n, g[n-1]>>]
  <2> HIDE DEF N, S, step
  <2> QED BY <1>3 DEF Built
<1>4. ASSUME NEW n \in 1..N
      PROVE  g[n] = g[n-1] \o Picked(rs, {k \in DOMAIN rs : rs[k].at = n - 1})
  <2>1. <<n, g[n-1]>> \in (1..N) \X S
    <3> HIDE DEF S, N, step
    <3> QED BY <1>1, <1>3a
  <2>2. step[<<n, g[n-1]>>] = g[n-1] \o Picked(rs, AtTime(rs, n))
    BY <2>1
  <2> HIDE DEF step, N
  <2> QED BY <2>2, <1>3a DEF AtTime
<1>5. g = [n \in 0..N |-> IF n = 0 THEN <<>>
             ELSE g[n-1] \o Picked(rs, {k \in DOMAIN rs : rs[k].at = n - 1})]
  <2> HIDE DEF step, N, S
  <2>1. \A n \in 0..N : n # 0 => n \in 1..N
    BY <1>1
  <2> QED BY <2>1, <1>4, <1>3a
<1>6. TimeFun(rs) = [n \in 0..N |-> IF n = 0 THEN <<>>
        ELSE TimeFun(rs)[n-1] \o Picked(rs, {k \in DOMAIN rs : rs[k].at = n - 1})]
  <2> HIDE DEF S, step
  <2> QED BY Zenon, <1>5 DEF TimeFun
<1>7. ByTime(rs) = TimeFun(rs)[N]
  BY Zenon DEF ByTime, TimeFun
<1> HIDE DEF N, S
<1>8. ASSUME NEW n \in 1..N
      PROVE  TimeFun(rs)[n] = TimeFun(rs)[n-1] \o Picked(rs, AtTime(rs, n))
  <2>1. n \in 0..N /\ n # 0
    BY <1>1
  <2> QED BY <1>6, <2>1 DEF AtTime
<1>9. TimeFun(rs)[0] = <<>>
  <2>1. 0 \in 0..N
    BY <1>1
  <2> QED BY <1>6, <2>1
<1> QED BY <1>7, <1>8, <1>9 DEF N

\* Sorting keeps the rows, and the runs apart.
LEMMA ByTimeRows ==
  ASSUME NEW X, NEW rs \in Seq(X), NEW W, Solo(rs, W)
  PROVE  ByTime(rs) \in Seq(X) /\ Solo(ByTime(rs), W)
<1> DEFINE p == TimeFun(rs)
           N == MaxHub + 1
           Past(n) == {k \in DOMAIN rs : rs[k].at \in 0..(n-1)}
           G == {n \in 0..N : /\ p[n] \in Seq(X) /\ Solo(p[n], W)
                              /\ \A x \in DOMAIN p[n] : \E k \in Past(n) : p[n][x] = rs[k]}
<1>0. N \in Nat
  BY OwnerChatAssumption
<1> HIDE DEF p, N
<1>1. /\ ByTime(rs) = p[N] /\ p[0] = <<>>
      /\ \A n \in 1..N : p[n] = p[n-1] \o Picked(rs, AtTime(rs, n))
  BY ByTimeIsFun DEF p, N
<1>2. 0 \in G
  <2>1. p[0] \in Seq(X) /\ DOMAIN p[0] = {} /\ 0 \in 0..N
    BY <1>0, <1>1
  <2> HIDE DEF Past
  <2>2. Solo(p[0], W)
    BY <2>1 DEF Solo
  <2> QED BY <2>1, <2>2
<1>3. ASSUME NEW n \in 1..N, n - 1 \in G PROVE n \in G
  <2> DEFINE a == p[n-1]
             b == Picked(rs, AtTime(rs, n))
  <2>1. /\ a \in Seq(X) /\ Solo(a, W)
        /\ \A x \in DOMAIN a : \E k \in Past(n-1) : a[x] = rs[k]
    BY <1>3
  <2>2. b \in Seq(X) /\ \A x \in DOMAIN b : \E k \in AtTime(rs, n) : b[x] = rs[k]
    BY PickedFrom
  <2>3. Solo(b, W)
    <3>1. \A k, l \in DOMAIN rs \cap AtTime(rs, n) :
            rs[k].from = "agent" /\ rs[l].from = "agent" /\ rs[k].trace = rs[l].trace
            /\ rs[k].trace \in W => k = l
      BY DEF Solo
    <3> QED BY <3>1, PickedSolo
  <2>4. p[n] = a \o b
    BY <1>1
  <2>5. Past(n-1) \cap AtTime(rs, n) = {} /\ Past(n-1) \subseteq Past(n)
        /\ AtTime(rs, n) \subseteq Past(n) /\ Past(n) \subseteq DOMAIN rs
    BY <1>0 DEF AtTime
  <2> HIDE DEF a, b, Past
  <2>6. ASSUME NEW k \in DOMAIN a, NEW l \in DOMAIN b,
               a[k].from = "agent", b[l].from = "agent", a[k].trace = b[l].trace,
               a[k].trace \in W
        PROVE  FALSE
    <3>1. PICK i \in Past(n-1) : a[k] = rs[i]
      BY <2>1
    <3>2. PICK j \in AtTime(rs, n) : b[l] = rs[j]
      BY <2>2
    <3> QED BY <3>1, <3>2, <2>5, <2>6 DEF Solo
  <2>7. Solo(p[n], W)
    BY <2>1, <2>2, <2>3, <2>4, <2>6, SoloConcat
  <2>8. p[n] \in Seq(X)
    BY <2>1, <2>2, <2>4
  <2>9. ASSUME NEW x \in DOMAIN p[n] PROVE \E k \in Past(n) : p[n][x] = rs[k]
    <3>1. (x \in DOMAIN a /\ p[n][x] = a[x]) \/ \E y \in DOMAIN b : p[n][x] = b[y]
      <4>1. CASE x \in DOMAIN a
        BY <4>1, <2>1, <2>2, <2>4
      <4>2. CASE x \notin DOMAIN a
        <5>1. x - Len(a) \in DOMAIN b /\ p[n][x] = b[x - Len(a)]
          BY <4>2, <2>1, <2>2, <2>4
        <5> QED BY <5>1
      <4> QED BY <4>1, <4>2
    <3> QED BY <3>1, <2>1, <2>2, <2>5
  <2> QED BY <2>7, <2>8, <2>9, <1>0
<1>4. \A n \in 0..N : n \in G
  <2> HIDE DEF G
  <2> QED BY <1>0, <1>2, <1>3, Upto
<1>5. p[N] \in Seq(X) /\ Solo(p[N], W)
  BY <1>4, <1>0
<1> QED BY Zenon, <1>1, <1>5

-----------------------------------------------------------------------------
(* Rows *)

\* Client ids of the pane, ids of the hub and NoSend are different.
LEMMA NamesApart ==
  /\ NoSend \in Cids /\ NoSend \notin Sends /\ MaxHub \in Nat
  /\ \A i \in 0..MaxHub : i \notin Sends /\ i # NoSend
BY OwnerChatAssumption DEF Cids

\* What HubInv says of each message.
LEMMA HubFacts ==
  ASSUME HubInv
  PROVE  /\ Len(hist) \in Nat /\ DOMAIN hist = Ids /\ MaxHub \in Nat
         /\ \A i \in Ids : /\ i \in 1..MaxHub /\ hist[i] \in MsgSet /\ MsgOK(i)
                           /\ i \in Cids /\ i \notin Sends /\ i # NoSend
BY OwnerChatAssumption DEF HubInv, Ids, Cids

\* A message of this room as history tells of it.
LEMMA FromApiFit ==
  ASSUME HubInv, room \in Bots, NEW i \in Ids, hist[i].bot = room,
         NEW D, \A j \in D : FromUser(j), NEW O
  PROVE  /\ FromApi(i, D) \in Fit(O)
         /\ FromApi(i, D).from = hist[i].from /\ FromApi(i, D).trace = hist[i].trace
         /\ FromApi(i, D).hub = i
<1> DEFINE r == FromApi(i, D)
<1>1. /\ Len(hist) \in Nat /\ Len(hist) <= MaxHub /\ MaxHub \in Nat
      /\ i \in 1..MaxHub /\ hist[i] \in MsgSet /\ MsgOK(i)
      /\ i \in Cids /\ i \notin Sends /\ i # NoSend
  BY HubFacts DEF HubInv
<1> DEFINE st == IF i \in D THEN "failed" ELSE "delivered"
<1>2. r = [cid |-> i, hub |-> i, from |-> hist[i].from, status |-> st, lost |-> FALSE,
           trace |-> hist[i].trace, blocks |-> {}, at |-> i]
  <2>1. r = [Row(hist[i].from, st, i, hist[i].trace) EXCEPT !.at = i, !.cid = i]
    BY Zenon DEF FromApi
  <2> HIDE DEF st, r
  <2> QED BY <2>1 DEF Row
<1>3. r \in RowSet
  BY <1>1, <1>2 DEF RowSet, MsgSet
<1>4. /\ r.cid = i /\ r.hub = i /\ r.from = hist[i].from /\ r.trace = hist[i].trace
      /\ r.status \in {"failed", "delivered"} /\ (r.status = "failed" => i \in D)
  BY <1>2
<1> HIDE DEF r
<1>5. RowOK(r)
  <2>1. hist[i].from = "user" => User(i) /\ hist[i].trace = 0 /\ Meant(i, room)
    BY <1>1 DEF User, FromUser, Meant, Owner, MsgOK
  <2>2. hist[i].from = "agent" => FromAgent(i) /\ FromUser(hist[i].trace)
    BY <1>1 DEF FromAgent, MsgOK
  <2>3. i \in D => hist[i].from = "user"
    BY DEF FromUser
  <2> QED BY <1>1, <1>4, <2>1, <2>2, <2>3 DEF RowOK
<1> QED BY <1>3, <1>4, <1>5 DEF Fit, r

\* The final of a run, in the place of the run's row.
LEMMA MergedFit ==
  ASSUME HubInv, room \in Bots, NEW i \in Ids, hist[i].bot = room, NEW O,
         NEW r \in RowSet
  PROVE  /\ Merged(r, i) \in Fit(O)
         /\ Merged(r, i).from = hist[i].from /\ Merged(r, i).trace = hist[i].trace
         /\ Merged(r, i).hub = i
<1> DEFINE q == FromApi(i, {})
           m == Merged(r, i)
<1>1. q \in Fit(O) /\ q.from = hist[i].from /\ q.trace = hist[i].trace /\ q.hub = i
  BY FromApiFit
<1>2. m = [q EXCEPT !.blocks = r.blocks]
  BY DEF Merged
<1> HIDE DEF q, m
<1>3. q \in RowSet /\ RowOK(q) /\ (q.status = "optimistic" => q.cid \in O)
  BY <1>1 DEF Fit
<1>4. m \in RowSet /\ m.cid = q.cid /\ m.hub = q.hub /\ m.from = q.from /\ m.trace = q.trace
      /\ m.status = q.status
  BY <1>2, <1>3 DEF RowSet
<1>5. RowOK(m)
  BY <1>3, <1>4 DEF RowOK
<1> QED BY <1>1, <1>3, <1>4, <1>5 DEF Fit, m

\* A send that is confirmed by a message of its text.
LEMMA ConfirmedFit ==
  ASSUME HubInv, NEW O, NEW Q, NEW r \in Fit(O), r.from = "user", NEW i, FromUser(i),
         hist[i].bot = room \/ (r.cid \in crossed /\ hist[i].run = "none"),
         hist[i].text = SaidBy(r.cid), NEW at \in 0..MaxHub
  PROVE  /\ Confirmed(r, i, at) \in Fit(Q)
         /\ Confirmed(r, i, at).from = r.from /\ Confirmed(r, i, at).trace = r.trace
<1> DEFINE m == Confirmed(r, i, at)
<1>1. i \in Ids /\ i \in 1..MaxHub /\ hist[i].from = "user" /\ MsgOK(i)
  BY HubFacts DEF FromUser
<1>2. r \in RowSet /\ RowOK(r)
  BY DEF Fit
<1>3. m = [r EXCEPT !.hub = i, !.status = "confirmed", !.lost = FALSE, !.at = at]
  BY DEF Confirmed
<1> HIDE DEF m
<1>3a. i \in Int /\ FALSE \in BOOLEAN
  BY <1>1
<1>4. m \in RowSet /\ m.cid = r.cid /\ m.hub = i /\ m.from = r.from /\ m.trace = r.trace
      /\ m.status = "confirmed"
  <2>1. m.cid = r.cid /\ m.hub = i /\ m.from = r.from /\ m.trace = r.trace
        /\ m.status = "confirmed"
    BY <1>2, <1>3 DEF RowSet
  <2>2. m \in RowSet
    BY <1>3a, <1>2, <1>3 DEF RowSet
  <2> QED BY <2>1, <2>2
<1>5. hist[i].trace = 0 /\ r.trace = 0 /\ User(r.cid) /\ Meant(r.cid, room) /\ room \in Bots
  BY <1>1, <1>2 DEF MsgOK, RowOK
<1>6. RowOK(m)
  BY <1>1, <1>4, <1>5 DEF RowOK
<1> QED BY <1>4, <1>6 DEF Fit, m

\* RunRow and LastRunRow find a row of the run, if there is one.
LEMMA RunRowIn ==
  ASSUME NEW X, NEW rs \in Seq(X), NEW t
  PROVE  /\ RunRow(rs, t) # 0 => /\ RunRow(rs, t) \in DOMAIN rs /\ t # 0
                                 /\ rs[RunRow(rs, t)].from = "agent"
                                 /\ rs[RunRow(rs, t)].trace = t
         /\ LastRunRow(rs, t) # 0 => /\ LastRunRow(rs, t) \in DOMAIN rs /\ t # 0
                                     /\ rs[LastRunRow(rs, t)].from = "agent"
                                     /\ rs[LastRunRow(rs, t)].trace = t
         /\ RunRow(rs, t) = 0 /\ t # 0 =>
              \A k \in DOMAIN rs : ~(rs[k].from = "agent" /\ rs[k].trace = t)
<1>1. RunRows(rs, t) \in SUBSET (1..Len(rs)) /\ RunRows(rs, t) \in SUBSET Nat
      /\ Len(rs) \in Nat /\ DOMAIN rs = 1..Len(rs)
  BY DEF RunRows
<1>2. RunRows(rs, t) # {} => Min(RunRows(rs, t)) \in RunRows(rs, t)
                             /\ Max(RunRows(rs, t)) \in RunRows(rs, t)
  BY <1>1, MinIn, MaxIn
<1>3. \A k \in RunRows(rs, t) : k \in DOMAIN rs /\ rs[k].from = "agent" /\ rs[k].trace = t /\ k # 0
  BY <1>1 DEF RunRows
<1>4. RunRows(rs, t) = {} => \A k \in DOMAIN rs : ~(rs[k].from = "agent" /\ rs[k].trace = t)
  BY DEF RunRows
<1> QED BY <1>2, <1>3, <1>4 DEF RunRow, LastRunRow

\* The lists that may be shown, when those being sent are in O.
Lists(O) == {rs \in Seq(Fit(O)) : Solo(rs, Whole)}

\* The final of a run takes the place of the run's row.
LEMMA MergedAt ==
  ASSUME HubInv, room \in Bots, NEW O, NEW rs \in Lists(O), NEW i \in Ids, hist[i].bot = room,
         RunRow(rs, hist[i].trace) # 0
  PROVE  [rs EXCEPT ![RunRow(rs, hist[i].trace)] = Merged(rs[RunRow(rs, hist[i].trace)], i)]
            \in Lists(O)
<1> DEFINE k == RunRow(rs, hist[i].trace)
           m == Merged(rs[k], i)
           qs == [rs EXCEPT ![k] = m]
<1>1. rs \in Seq(Fit(O)) /\ Solo(rs, Whole)
  BY DEF Lists
<1>2. k \in DOMAIN rs /\ hist[i].trace # 0 /\ rs[k].from = "agent" /\ rs[k].trace = hist[i].trace
  BY <1>1, RunRowIn
<1> HIDE DEF k
<1>3. rs[k] \in RowSet
  BY <1>1, <1>2 DEF Fit
<1>4. m \in Fit(O) /\ m.from = hist[i].from /\ m.trace = hist[i].trace
  BY <1>3, MergedFit
<1>5. hist[i].from = "agent"
  BY <1>2, HubFacts DEF MsgOK, MsgSet
<1> HIDE DEF m
<1>6. qs \in Seq(Fit(O)) /\ DOMAIN qs = DOMAIN rs
      /\ \A l \in DOMAIN rs : qs[l] = IF l = k THEN m ELSE rs[l]
  BY <1>1, <1>2, <1>4
<1> HIDE DEF qs
<1>7. \A l \in DOMAIN rs : qs[l].from = rs[l].from /\ qs[l].trace = rs[l].trace
  BY <1>2, <1>4, <1>5, <1>6
<1>8. Solo(qs, Whole)
  BY <1>1, <1>6, <1>7, SoloSame
<1> QED BY <1>6, <1>8 DEF Lists, qs, m, k

\* A row more, unless the run has one.
LEMMA AppendedFit ==
  ASSUME NEW O, NEW rs \in Lists(O), NEW r \in Fit(O),
         \A k \in DOMAIN rs :
            ~(rs[k].from = "agent" /\ r.from = "agent" /\ rs[k].trace = r.trace /\ r.trace \in Whole)
  PROVE  Append(rs, r) \in Lists(O)
<1>1. rs \in Seq(Fit(O)) /\ Solo(rs, Whole)
  BY DEF Lists
<1>2. Solo(Append(rs, r), Whole)
  BY <1>1, SoloAppend
<1> QED BY <1>1, <1>2 DEF Lists

\* A message of the hub, in its own row or in that of its run.
LEMMA AddFromApiFit ==
  ASSUME HubInv, room \in Bots, NEW O, NEW rs \in Lists(O), NEW i \in Ids, hist[i].bot = room,
         NEW D, \A j \in D : FromUser(j)
  PROVE  AddFromApi(rs, i, D) \in Lists(O)
<1> DEFINE k == RunRow(rs, hist[i].trace)
<1>1. rs \in Seq(Fit(O)) /\ Solo(rs, Whole)
  BY DEF Lists
<1>2. CASE i \in Shown(rs)
  BY <1>2 DEF AddFromApi
<1>3. CASE i \notin Shown(rs) /\ k # 0
  <2>1. [rs EXCEPT ![k] = Merged(rs[k], i)] \in Lists(O)
    BY <1>3, MergedAt
  <2> QED BY <1>3, <2>1 DEF AddFromApi
<1>4. CASE i \notin Shown(rs) /\ k = 0
  <2> DEFINE r == FromApi(i, D)
  <2>1. r \in Fit(O) /\ r.from = hist[i].from /\ r.trace = hist[i].trace
    BY FromApiFit
  <2>2. hist[i].from = "agent" => hist[i].trace # 0
    BY HubFacts DEF MsgOK, FromUser, Ids
  <2>3. hist[i].trace # 0 =>
          \A l \in DOMAIN rs : ~(rs[l].from = "agent" /\ rs[l].trace = hist[i].trace)
    BY <1>1, <1>4, RunRowIn
  <2> HIDE DEF r
  <2>4. Append(rs, r) \in Lists(O)
    BY <2>1, <2>2, <2>3, AppendedFit
  <2> QED BY <1>4, <2>4 DEF AddFromApi, r
<1> QED BY <1>2, <1>3, <1>4

-----------------------------------------------------------------------------
(* Pages of history *)

\* A page of this room that was answered.
Served(f) == /\ room \in Bots /\ f.bot = room /\ f.upto \in 0..Len(hist)
             /\ \A j \in f.data : FromUser(j)

\* A page that was served has messages of this room.
LEMMA PageIds ==
  ASSUME HubInv, NEW f, Served(f)
  PROVE  \A i \in Page(f) : i \in Ids /\ i \in 1..f.upto /\ hist[i].bot = room
BY HubFacts DEF Page, Served, Ids

PageFun(f, rs, oldestFirst) ==
  CHOOSE p : p = [n \in 0..f.upto |->
    LET i == IF oldestFirst THEN n ELSE f.upto + 1 - n
    IN IF n = 0 THEN rs
       ELSE IF i \in Page(f) THEN AddFromApi(p[n-1], i, f.data) ELSE p[n-1]]
PageAt(f, oldestFirst, n) == IF oldestFirst THEN n ELSE f.upto + 1 - n

\* The messages of a page, one after the other.
LEMMA AddPageFit ==
  ASSUME HubInv, NEW O, NEW rs \in Lists(O), NEW f, Served(f), NEW oldestFirst
  PROVE  AddPage(f, rs, oldestFirst) \in Lists(O)
<1> DEFINE N == f.upto
           S == Lists(O)
           i(n) == PageAt(f, oldestFirst, n)
           step == [x \in (1..N) \X S |->
                      IF i(x[1]) \in Page(f) THEN AddFromApi(x[2], i(x[1]), f.data) ELSE x[2]]
<1>1. N \in Nat /\ rs \in S
  BY HubFacts DEF Served
<1>2. \A qs \in S, j \in Page(f) : AddFromApi(qs, j, f.data) \in S
  BY PageIds, AddFromApiFit DEF Served
<1> HIDE DEF S, i
<1>3. step \in Steps(N, S)
  <2>1. ASSUME NEW x \in (1..N) \X S
        PROVE  (IF i(x[1]) \in Page(f) THEN AddFromApi(x[2], i(x[1]), f.data) ELSE x[2]) \in S
    <3>1. x[2] \in S
      OBVIOUS
    <3> QED BY <3>1, <1>2
  <2> QED BY <2>1 DEF Steps
<1>4. PICK g : Built(g, N, S, rs, step)
  <2> HIDE DEF N, step
  <2> QED BY Zenon, <1>1, <1>3, Recursion
<1>5. g \in [0..N -> S] /\ g[0] = rs /\ \A n \in 1..N : g[n] = step[<<n, g[n-1]>>]
  <2> HIDE DEF N, step
  <2> QED BY <1>4 DEF Built
<1>6. ASSUME NEW n \in 1..N
      PROVE  g[n] = IF i(n) \in Page(f) THEN AddFromApi(g[n-1], i(n), f.data) ELSE g[n-1]
  <2>1. <<n, g[n-1]>> \in (1..N) \X S
    <3> HIDE DEF N, step
    <3> QED BY <1>1, <1>5
  <2>2. step[<<n, g[n-1]>>] =
          IF i(n) \in Page(f) THEN AddFromApi(g[n-1], i(n), f.data) ELSE g[n-1]
    BY <2>1
  <2> HIDE DEF step, N
  <2> QED BY <2>2, <1>5
<1> DEFINE Is(p) == p = [n \in 0..N |-> IF n = 0 THEN rs
                ELSE IF i(n) \in Page(f) THEN AddFromApi(p[n-1], i(n), f.data) ELSE p[n-1]]
<1>7. Is(g)
  <2> HIDE DEF step, N
  <2>1. \A n \in 0..N : n # 0 => n \in 1..N
    BY <1>1
  <2> QED BY <2>1, <1>6, <1>5
<1> DEFINE h == PageFun(f, rs, oldestFirst)
<1>8. h = CHOOSE p : Is(p)
  BY Zenon DEF PageFun, i, PageAt
<1>9. Is(h)
  <2> HIDE DEF Is, h
  <2> QED BY Zenon, <1>7, <1>8
<1>10. AddPage(f, rs, oldestFirst) = h[N]
  BY Zenon DEF AddPage, PageFun
<1> HIDE DEF h, N, step
<1> DEFINE G == {n \in 0..N : h[n] \in S}
<1>11. 0 \in G
  <2>1. 0 \in 0..N
    BY <1>1
  <2>2. h[0] = rs
    BY <2>1, <1>9
  <2> QED BY <2>1, <2>2, <1>1
<1>12. ASSUME NEW n \in 1..N, n - 1 \in G PROVE n \in G
  <2>1. n \in 0..N /\ n # 0
    BY <1>1
  <2>2. h[n] = IF i(n) \in Page(f) THEN AddFromApi(h[n-1], i(n), f.data) ELSE h[n-1]
    BY <2>1, <1>9
  <2> QED BY <2>1, <2>2, <1>12, <1>2
<1>13. \A n \in 0..N : n \in G
  <2> HIDE DEF G
  <2> QED BY <1>1, <1>11, <1>12, Upto
<1>14. h[N] \in S
  BY <1>13, <1>1
<1> QED BY Zenon, <1>10, <1>14 DEF S

\* A list of the same speakers and runs, row by row.
LEMMA MappedFit ==
  ASSUME NEW O, NEW Q, NEW rs \in Lists(O), NEW qs, qs = [k \in DOMAIN rs |-> qs[k]],
         \A k \in DOMAIN rs : /\ qs[k] \in Fit(Q)
                              /\ qs[k].from = rs[k].from /\ qs[k].trace = rs[k].trace
  PROVE  qs \in Lists(Q)
<1>1. rs \in Seq(Fit(O)) /\ Solo(rs, Whole)
  BY DEF Lists
<1>2. DOMAIN qs = DOMAIN rs
  OBVIOUS
<1>3. qs \in Seq(Fit(Q))
  <2>1. Len(rs) \in Nat /\ DOMAIN rs = 1..Len(rs)
    BY <1>1
  <2>2. qs \in [1..Len(rs) -> Fit(Q)]
    BY <2>1
  <2> QED BY <2>1, <2>2
<1>4. Solo(qs, Whole)
  BY <1>1, <1>2, SoloSame
<1> QED BY <1>3, <1>4 DEF Lists

\* A send that was lost, confirmed by a message of its text.
LEMMA MatchesFit ==
  ASSUME HubInv, NEW f, Served(f), NEW O, NEW r \in Fit(O), WasLost(r), NEW i \in Matches(f, r)
  PROVE  /\ Confirmed(r, i, i) \in Fit(O)
         /\ Confirmed(r, i, i).from = r.from /\ Confirmed(r, i, i).trace = r.trace
<1>1. FromUser(i) /\ hist[i].bot = room /\ hist[i].text = SaidBy(r.cid) /\ i \in 0..MaxHub
  BY PageIds, HubFacts DEF Matches, FromUser
<1>2. r.from = "user"
  BY DEF WasLost
<1> QED BY <1>1, <1>2, ConfirmedFit

\* reconcileAfterReconnect keeps the list good.
LEMMA ReconciledFit ==
  ASSUME HubInv, NEW O, rows \in Lists(O), NEW f, Served(f)
  PROVE  Reconciled(f) \in Lists(O)
<1> DEFINE new(r) == IF WasLost(r) /\ Matches(f, r) # {}
                     THEN Confirmed(r, Max(Matches(f, r)), Max(Matches(f, r))) ELSE r
           done == [k \in DOMAIN rows |-> new(rows[k])]
<1>1. ASSUME NEW r \in Fit(O)
      PROVE  new(r) \in Fit(O) /\ new(r).from = r.from /\ new(r).trace = r.trace
  <2>1. CASE WasLost(r) /\ Matches(f, r) # {}
    <3> DEFINE i == Max(Matches(f, r))
    <3>1. Matches(f, r) \in SUBSET (1..f.upto) /\ f.upto \in Nat
      BY HubFacts, PageIds DEF Matches, Served
    <3>2. i \in Matches(f, r)
      BY <2>1, <3>1, MaxIn
    <3> HIDE DEF i
    <3>3. new(r) = Confirmed(r, i, i)
      BY <2>1 DEF i
    <3> QED BY <2>1, <3>2, <3>3, MatchesFit
  <2>2. CASE ~(WasLost(r) /\ Matches(f, r) # {})
    BY <2>2
  <2> QED BY <2>1, <2>2
<1> HIDE DEF new
<1>2. done \in Lists(O)
  <2>1. done = [k \in DOMAIN rows |-> done[k]]
    OBVIOUS
  <2>2. \A k \in DOMAIN rows : rows[k] \in Fit(O)
    BY DEF Lists
  <2>3. \A k \in DOMAIN rows :
          done[k] \in Fit(O) /\ done[k].from = rows[k].from /\ done[k].trace = rows[k].trace
    BY <1>1, <2>2
  <2> HIDE DEF done
  <2> QED BY <2>1, <2>3, MappedFit
<1>3. Reconciled(f) = AddPage(f, done, FALSE)
  BY Zenon DEF Reconciled, MapRows, new
<1> HIDE DEF done
<1> QED BY <1>2, <1>3, AddPageFit

\* The message that may confirm row n, when the rows before it took theirs.
FreeFor(f, n, took) ==
  IF WasLost(rows[n]) THEN Matches(f, rows[n]) \ {took[k] : k \in 1..(n-1)} ELSE {}
Taken(f, n, took) == IF FreeFor(f, n, took) = {} THEN 0 ELSE Min(FreeFor(f, n, took))
TakeFun(f) ==
  CHOOSE p : p = [n \in 0..Len(rows) |->
    IF n = 0 THEN <<>>
    ELSE Append(p[n-1], IF FreeFor(f, n, p[n-1]) = {} THEN 0 ELSE Min(FreeFor(f, n, p[n-1])))]

\* A row takes a message that matches it.
LEMMA TakenFrom ==
  ASSUME HubInv, NEW f, Served(f), NEW n, NEW took
  PROVE  /\ Taken(f, n, took) \in Nat
         /\ Taken(f, n, took) # 0 => WasLost(rows[n]) /\ Taken(f, n, took) \in Matches(f, rows[n])
<1>1. Matches(f, rows[n]) \in SUBSET Nat
  BY PageIds, HubFacts DEF Matches, Served
<1>2. FreeFor(f, n, took) \in SUBSET Nat
      /\ \A i \in FreeFor(f, n, took) : WasLost(rows[n]) /\ i \in Matches(f, rows[n])
  BY <1>1 DEF FreeFor
<1>3. FreeFor(f, n, took) # {} => Min(FreeFor(f, n, took)) \in FreeFor(f, n, took)
  BY <1>2, MinIn
<1> QED BY <1>2, <1>3 DEF Taken

\* So do all rows, one after the other.
LEMMA TakeFunRows ==
  ASSUME HubInv, NEW O, rows \in Lists(O), NEW f, Served(f)
  PROVE  \A k \in DOMAIN rows :
           TakeFun(f)[Len(rows)][k] # 0 =>
             WasLost(rows[k]) /\ TakeFun(f)[Len(rows)][k] \in Matches(f, rows[k])
<1> DEFINE N == Len(rows)
           S == Seq(Nat)
           step == [x \in (1..N) \X S |-> Append(x[2], Taken(f, x[1], x[2]))]
<1>0. rows \in Seq(Fit(O))
  BY DEF Lists
<1>1. N \in Nat /\ <<>> \in S /\ DOMAIN rows = 1..N
  BY <1>0
<1>2. step \in Steps(N, S)
  <2>1. ASSUME NEW x \in (1..N) \X S PROVE Append(x[2], Taken(f, x[1], x[2])) \in S
    <3>1. x[2] \in Seq(Nat) /\ Taken(f, x[1], x[2]) \in Nat
      BY TakenFrom
    <3> QED BY <3>1
  <2> QED BY <2>1 DEF Steps
<1>3. PICK g : Built(g, N, S, <<>>, step)
  <2> HIDE DEF N, S, step
  <2> QED BY Zenon, <1>1, <1>2, Recursion
<1>4. g \in [0..N -> S] /\ g[0] = <<>> /\ \A n \in 1..N : g[n] = step[<<n, g[n-1]>>]
  <2> HIDE DEF N, S, step
  <2> QED BY <1>3 DEF Built
<1>5. ASSUME NEW n \in 1..N PROVE g[n] = Append(g[n-1], Taken(f, n, g[n-1]))
  <2>1. <<n, g[n-1]>> \in (1..N) \X S
    <3> HIDE DEF N, S, step
    <3> QED BY <1>1, <1>4
  <2>2. step[<<n, g[n-1]>>] = Append(g[n-1], Taken(f, n, g[n-1]))
    BY <2>1
  <2> HIDE DEF step, N, S
  <2> QED BY <2>2, <1>4
<1> DEFINE Is(p) == p = [n \in 0..N |-> IF n = 0 THEN <<>>
                                        ELSE Append(p[n-1], Taken(f, n, p[n-1]))]
           h == TakeFun(f)
<1>6. Is(g)
  <2> HIDE DEF step, N, S
  <2>1. \A n \in 0..N : n # 0 => n \in 1..N
    BY <1>1
  <2> QED BY <2>1, <1>5, <1>4
<1>7. h = CHOOSE p : Is(p)
  BY Zenon DEF TakeFun, Taken
<1>8. Is(h)
  <2> HIDE DEF Is, h
  <2> QED BY Zenon, <1>6, <1>7
<1> HIDE DEF h, N, S, step
<1> DEFINE Fine(t, n) == /\ t \in Seq(Nat) /\ Len(t) = n
                         /\ \A k \in 1..n :
                              t[k] # 0 => WasLost(rows[k]) /\ t[k] \in Matches(f, rows[k])
           G == {n \in 0..N : Fine(h[n], n)}
<1>9. 0 \in G
  <2>1. 0 \in 0..N
    BY <1>1
  <2>2. h[0] = <<>>
    BY <2>1, <1>8
  <2>3. Fine(<<>>, 0)
    OBVIOUS
  <2> HIDE DEF Fine
  <2> QED BY <2>1, <2>2, <2>3
<1>10. ASSUME NEW n \in 1..N, n - 1 \in G PROVE n \in G
  <2>1. n \in 0..N /\ n # 0 /\ n \in Nat
    BY <1>1
  <2> DEFINE t == h[n-1]
             v == Taken(f, n, t)
  <2>2. h[n] = Append(t, v)
    BY <2>1, <1>8
  <2>3. Fine(t, n-1)
    BY <1>10
  <2>4. v \in Nat /\ (v # 0 => WasLost(rows[n]) /\ v \in Matches(f, rows[n]))
    BY TakenFrom
  <2> HIDE DEF t, v
  <2>5. /\ Append(t, v) \in Seq(Nat) /\ Len(Append(t, v)) = n
        /\ \A k \in 1..n : Append(t, v)[k] = IF k = n THEN v ELSE t[k]
    BY <2>1, <2>3, <2>4
  <2>6. Fine(Append(t, v), n)
    <3> SUFFICES ASSUME NEW k \in 1..n, Append(t, v)[k] # 0
                 PROVE  WasLost(rows[k]) /\ Append(t, v)[k] \in Matches(f, rows[k])
      BY <2>5
    <3>1. CASE k = n
      BY <3>1, <2>4, <2>5
    <3>2. CASE k # n
      <4>1. k \in 1..(n-1) /\ Append(t, v)[k] = t[k]
        BY <3>2, <2>1, <2>5
      <4> QED BY <4>1, <2>3
    <3> QED BY <3>1, <3>2
  <2> HIDE DEF Fine
  <2> QED BY <2>1, <2>2, <2>6
<1>11. \A n \in 0..N : n \in G
  <2> HIDE DEF G
  <2> QED BY <1>1, <1>9, <1>10, Upto
<1>12. Fine(h[N], N)
  BY <1>11, <1>1
<1> QED BY <1>1, <1>12 DEF h, N

\* mergeApiMessages keeps the list good.
LEMMA MergeApiFit ==
  ASSUME HubInv, NEW O, rows \in Lists(O), NEW f, Served(f)
  PROVE  MergeApi(f) \in Lists(O)
<1> DEFINE took == TakeFun(f)[Len(rows)]
           done == [k \in DOMAIN rows |->
                      IF took[k] = 0 THEN rows[k] ELSE Confirmed(rows[k], took[k], took[k])]
<1>1. MergeApi(f) = AddPage(f, done, TRUE)
  BY Zenon DEF MergeApi, TakeFun, FreeFor
<1>2. \A k \in DOMAIN rows :
         took[k] # 0 => WasLost(rows[k]) /\ took[k] \in Matches(f, rows[k])
  BY TakeFunRows
<1> HIDE DEF took
<1>3. done \in Lists(O)
  <2>1. done = [k \in DOMAIN rows |-> done[k]]
    OBVIOUS
  <2>2. \A k \in DOMAIN rows : rows[k] \in Fit(O)
    BY DEF Lists
  <2>3. ASSUME NEW k \in DOMAIN rows
        PROVE  done[k] \in Fit(O) /\ done[k].from = rows[k].from /\ done[k].trace = rows[k].trace
    <3>1. CASE took[k] = 0
      BY <3>1, <2>2
    <3>2. CASE took[k] # 0
      <4>1. done[k] = Confirmed(rows[k], took[k], took[k])
        BY <3>2
      <4> HIDE DEF done
      <4> QED BY <3>2, <4>1, <1>2, <2>2, MatchesFit
    <3> QED BY <3>1, <3>2
  <2> HIDE DEF done
  <2> QED BY <2>1, <2>3, MappedFit
<1> HIDE DEF done
<1> QED BY <1>1, <1>3, AddPageFit

\* What loadInitial makes of message i of a page.
PickFor(f, i) ==
  LET run == LastRunRow(rows, hist[i].trace)
      same == {k \in DOMAIN rows : rows[k].hub = i}
  IN IF run # 0 /\ rows[run].blocks # {} THEN Merged(rows[run], i)
     ELSE IF same = {} THEN FromApi(i, f.data)
     ELSE LET r == rows[Max(same)]
          IN IF r.blocks # {} THEN Merged(r, i) ELSE r

\* What applyHistory shows of a message.
LEMMA PickForFit ==
  ASSUME HubInv, NEW O, rows \in Lists(O), NEW f, Served(f), NEW i \in Page(f)
  PROVE  /\ PickFor(f, i) \in Fit(O)
         /\ PickFor(f, i).from = hist[i].from /\ PickFor(f, i).trace = hist[i].trace
<1> DEFINE run == LastRunRow(rows, hist[i].trace)
           same == {k \in DOMAIN rows : rows[k].hub = i}
           r == rows[Max(same)]
<1>0. rows \in Seq(Fit(O)) /\ \A k \in DOMAIN rows : rows[k] \in Fit(O) /\ rows[k] \in RowSet
  BY DEF Lists, Fit
<1>1. i \in Ids /\ hist[i].bot = room /\ room \in Bots /\ i \in Nat /\ i > 0
      /\ \A j \in f.data : FromUser(j)
  BY PageIds, HubFacts DEF Served
<1>2. CASE run # 0 /\ rows[run].blocks # {}
  <2>1. run \in DOMAIN rows
    BY <1>0, <1>2, RunRowIn
  <2>2. PickFor(f, i) = Merged(rows[run], i)
    BY <1>2 DEF PickFor
  <2> HIDE DEF run
  <2> QED BY <1>0, <1>1, <2>1, <2>2, MergedFit
<1>3. CASE ~(run # 0 /\ rows[run].blocks # {}) /\ same = {}
  <2>1. PickFor(f, i) = FromApi(i, f.data)
    BY <1>3 DEF PickFor
  <2> QED BY <1>1, <2>1, FromApiFit
<1>4. CASE ~(run # 0 /\ rows[run].blocks # {}) /\ same # {}
  <2>1. PickFor(f, i) = IF r.blocks # {} THEN Merged(r, i) ELSE r
    BY <1>4 DEF PickFor
  <2>2. Max(same) \in same
    <3>1. Len(rows) \in Nat /\ DOMAIN rows = 1..Len(rows)
      BY <1>0
    <3>2. same \in SUBSET (1..Len(rows))
      BY <3>1
    <3> HIDE DEF same
    <3> QED BY <3>1, <3>2, <1>4, MaxIn
  <2>3. r \in Fit(O) /\ r \in RowSet /\ r.hub = i
    BY <2>2, <1>0
  <2> HIDE DEF r, same, run
  <2>4. r.from = hist[i].from /\ r.trace = hist[i].trace
    BY <1>1, <2>3 DEF Fit, RowOK
  <2>5. Merged(r, i) \in Fit(O) /\ Merged(r, i).from = hist[i].from
        /\ Merged(r, i).trace = hist[i].trace
    BY <1>1, <2>3, MergedFit
  <2> QED BY <2>1, <2>3, <2>4, <2>5
<1> QED BY <1>2, <1>3, <1>4

\* applyHistory keeps the list good: a kept row is of no run of the page.
LEMMA ApplyHistoryFit ==
  ASSUME HubInv, NEW O, rows \in Lists(O), NEW f, Served(f)
  PROVE  ApplyHistory(f) \in Lists(O)
<1> DEFINE P == Page(f)
           s == [i \in 1..f.upto |-> PickFor(f, i)]
           api == Picked(s, P)
           traces == {hist[i].trace : i \in P} \ {0}
           kept == {k \in DOMAIN rows :
                    /\ rows[k].hub \notin P /\ rows[k].trace \notin traces
                    /\ rows[k].status \in {"optimistic", "failed", "streaming"} \/ rows[k].hub # 0}
           old == Picked(rows, kept)
           X == {PickFor(f, i) : i \in 1..f.upto}
<1>1. ApplyHistory(f) = ByTime(api \o old)
  BY Zenon DEF ApplyHistory, PickFor
<1>2. rows \in Seq(Fit(O)) /\ Solo(rows, Whole)
  BY DEF Lists
<1>3. f.upto \in Nat
  BY HubFacts DEF Served
<1>4. s \in Seq(X) /\ DOMAIN s = 1..f.upto
  <2>1. \A i \in 1..f.upto : PickFor(f, i) \in X
    OBVIOUS
  <2> HIDE DEF X
  <2>2. s \in [1..f.upto -> X]
    BY <2>1
  <2> HIDE DEF s
  <2> QED BY <1>3, <2>2
<1>5. \A i \in P : /\ i \in 1..f.upto /\ i \in Ids /\ s[i] \in Fit(O)
                   /\ s[i].from = hist[i].from /\ s[i].trace = hist[i].trace
  BY PageIds, PickForFit
<1> HIDE DEF s, P, X
<1>6. api \in Seq(X) /\ \A x \in DOMAIN api : \E k \in DOMAIN s \cap P : api[x] = s[k]
  <2>1. s \in Seq(X)
    BY <1>4
  <2> HIDE DEF traces, kept, old
  <2>2. Picked(s, P) \in Seq(X)
    BY <2>1, PickedFrom
  <2>3. \A x \in DOMAIN Picked(s, P) : \E k \in DOMAIN s \cap P : Picked(s, P)[x] = s[k]
    BY <2>1, PickedFrom
  <2> QED BY <2>2, <2>3
<1>7. api \in Seq(Fit(O))
  <2> HIDE DEF api
  <2>1. \A x \in DOMAIN api : api[x] \in Fit(O)
    BY <1>5, <1>6
  <2> QED BY <1>6, <2>1
<1>8. Solo(api, Whole)
  <2>1. \A k, l \in DOMAIN s \cap P :
            s[k].from = "agent" /\ s[l].from = "agent" /\ s[k].trace = s[l].trace
            /\ s[k].trace \in Whole => k = l
    BY <1>5 DEF HubInv, OneReply
  <2> QED BY <1>4, <2>1, PickedSolo
<1>9. old \in Seq(Fit(O)) /\ \A x \in DOMAIN old : \E k \in DOMAIN rows \cap kept : old[x] = rows[k]
  <2> HIDE DEF kept
  <2> QED BY <1>2, PickedFrom
<1>10. Solo(old, Whole)
  <2> HIDE DEF kept
  <2>1. \A k, l \in DOMAIN rows \cap kept :
            rows[k].from = "agent" /\ rows[l].from = "agent" /\ rows[k].trace = rows[l].trace
            /\ rows[k].trace \in Whole => k = l
    BY <1>2 DEF Solo
  <2> QED BY <1>2, <2>1, PickedSolo
<1>11. \A k \in kept : rows[k].trace \notin traces
  OBVIOUS
<1> HIDE DEF kept, api, old
<1>12. ASSUME NEW k \in DOMAIN api, NEW l \in DOMAIN old,
              api[k].from = "agent", old[l].from = "agent", api[k].trace = old[l].trace
       PROVE  FALSE
  <2>1. PICK i \in DOMAIN s \cap P : api[k] = s[i]
    BY <1>6
  <2>2. PICK j \in DOMAIN rows \cap kept : old[l] = rows[j]
    BY <1>9
  <2>3. hist[i].from = "agent" /\ i \in Ids /\ api[k].trace = hist[i].trace
    BY <2>1, <1>5, <1>12
  <2>4. hist[i].trace # 0
    BY <2>3, HubFacts DEF MsgOK, FromUser, Ids
  <2>5. hist[i].trace \in traces
    BY <2>1, <2>4
  <2> HIDE DEF traces
  <2> QED BY <2>2, <2>3, <2>5, <1>11, <1>12
<1>13. Solo(api \o old, Whole) /\ api \o old \in Seq(Fit(O))
  BY <1>7, <1>8, <1>9, <1>10, <1>12, SoloConcat
<1>14. ByTime(api \o old) \in Seq(Fit(O)) /\ Solo(ByTime(api \o old), Whole)
  <2> DEFINE c == api \o old
  <2>1. c \in Seq(Fit(O)) /\ Solo(c, Whole)
    BY <1>13
  <2> HIDE DEF c
  <2> QED BY <2>1, ByTimeRows DEF c
<1> QED BY Zenon, <1>1, <1>14 DEF Lists

-----------------------------------------------------------------------------
(* What the socket and the pane make of the list *)

\* Only the rows being sent depend on what is told.
LEMMA ListsWiden ==
  ASSUME NEW O, NEW Q, NEW rs \in Lists(O), \A k \in DOMAIN rs :
            rs[k].status = "optimistic" => rs[k].cid \in Q
  PROVE  rs \in Lists(Q)
<1>1. rs \in Seq(Fit(O)) /\ Solo(rs, Whole)
  BY DEF Lists
<1>2. \A k \in DOMAIN rs : rs[k] \in Fit(Q)
  BY <1>1 DEF Fit
<1>3. rs \in Seq(Fit(Q))
  BY <1>1, <1>2
<1> QED BY <1>1, <1>3 DEF Lists

\* What Lists says of each row.
LEMMA ListRow ==
  ASSUME NEW O, NEW rs \in Lists(O), NEW k \in DOMAIN rs
  PROVE  /\ rs[k] \in Fit(O) /\ rs[k] \in RowSet /\ RowOK(rs[k])
         /\ rs[k].status = "optimistic" => rs[k].cid \in O
BY DEF Lists, Fit

\* A change of the status, where it keeps the row good.
LEMMA StatusFit ==
  ASSUME NEW O, NEW Q, NEW r \in Fit(O), NEW st, NEW l \in BOOLEAN,
         st = "failed" /\ r.from = "user"
  PROVE  /\ [r EXCEPT !.status = st, !.lost = l] \in Fit(Q)
         /\ [r EXCEPT !.status = st, !.lost = l].from = r.from
         /\ [r EXCEPT !.status = st, !.lost = l].trace = r.trace
<1> DEFINE m == [r EXCEPT !.status = st, !.lost = l]
<1>1. r \in RowSet /\ RowOK(r)
  BY DEF Fit
<1>2. m.cid = r.cid /\ m.hub = r.hub /\ m.from = r.from /\ m.trace = r.trace /\ m.status = st
  BY <1>1 DEF RowSet
<1>3. m \in RowSet
  BY <1>1 DEF RowSet
<1> HIDE DEF m
<1>4. RowOK(m)
  BY <1>1, <1>2 DEF RowOK
<1> QED BY <1>2, <1>3, <1>4 DEF Fit, m

\* A send that failed is not waited for any more.
LEMMA FailedFit ==
  ASSUME NEW O, NEW Q, NEW r \in Fit(O), r.status # "optimistic" => r \in Fit(Q)
  PROVE  /\ Failed(r) \in Fit(Q) /\ Failed(r).status # "optimistic"
         /\ Failed(r).from = r.from /\ Failed(r).trace = r.trace
<1>1. CASE r.status # "optimistic"
  BY <1>1 DEF Failed
<1>2. CASE r.status = "optimistic"
  <2> DEFINE m == [r EXCEPT !.status = "failed"]
  <2>1. r \in RowSet /\ RowOK(r) /\ r.from = "user"
    BY <1>2 DEF Fit, RowOK
  <2>2. m.cid = r.cid /\ m.hub = r.hub /\ m.from = r.from /\ m.trace = r.trace
        /\ m.status = "failed" /\ m \in RowSet
    BY <2>1 DEF RowSet
  <2>3. Failed(r) = m
    BY <1>2 DEF Failed
  <2> HIDE DEF m
  <2>4. RowOK(m)
    BY <2>1, <2>2 DEF RowOK
  <2> QED BY <2>2, <2>3, <2>4 DEF Fit
<1> QED BY <1>1, <1>2

\* The rows of a send as failOptimistic leaves them.
FailedIn(rs, c) == [k \in DOMAIN rs |-> IF rs[k].cid = c THEN Failed(rs[k]) ELSE rs[k]]

\* failOptimistic keeps the list good.
LEMMA FailedInFit ==
  ASSUME NEW O, NEW rs \in Lists(O), NEW c
  PROVE  FailedIn(rs, c) \in Lists(O \ {c})
<1> DEFINE qs == FailedIn(rs, c)
           Q == O \ {c}
<1>1. qs = [k \in DOMAIN rs |-> qs[k]]
  BY DEF FailedIn
<1>2. ASSUME NEW k \in DOMAIN rs
      PROVE  qs[k] \in Fit(Q) /\ qs[k].from = rs[k].from /\ qs[k].trace = rs[k].trace
  <2>1. rs[k] \in Fit(O) /\ (rs[k].status = "optimistic" => rs[k].cid \in O)
    BY ListRow
  <2>2. rs[k].status # "optimistic" \/ rs[k].cid # c => rs[k] \in Fit(Q)
    BY <2>1 DEF Fit
  <2>3. Failed(rs[k]) \in Fit(Q) /\ Failed(rs[k]).from = rs[k].from
        /\ Failed(rs[k]).trace = rs[k].trace
    BY <2>1, <2>2, FailedFit
  <2>4. qs[k] = IF rs[k].cid = c THEN Failed(rs[k]) ELSE rs[k]
    BY DEF FailedIn
  <2> HIDE DEF qs, Q
  <2> QED BY <2>2, <2>3, <2>4
<1> HIDE DEF qs, Q
<1>3. qs \in Lists(Q)
  BY <1>1, <1>2, MappedFit
<1> QED BY <1>3 DEF qs, Q

LEMMA failOptimisticIs ==
  ASSUME NEW c PROVE failOptimistic(c) = FailedIn(rows, c)
BY Zenon DEF failOptimistic, FailedIn, OfSend, MapRows

\* The rows of a send are confirmed.
ConfirmedIn(c, i, at) == [k \in DOMAIN rows |->
                            IF rows[k].cid = c THEN Confirmed(rows[k], i, at) ELSE rows[k]]

\* A send that is confirmed is not waited for any more.
LEMMA ConfirmedInFit ==
  ASSUME HubInv, NEW O, rows \in Lists(O), NEW c, User(c), NEW i, FromUser(i),
         NEW at \in 0..MaxHub, hist[i].text = SaidBy(c),
         hist[i].bot = room \/ (c \in crossed /\ hist[i].run = "none")
  PROVE  ConfirmedIn(c, i, at) \in Lists(O \ {c})
<1> DEFINE qs == ConfirmedIn(c, i, at)
           Q == O \ {c}
<1>1. qs = [k \in DOMAIN rows |-> qs[k]]
  BY DEF ConfirmedIn
<1>2. ASSUME NEW k \in DOMAIN rows
      PROVE  qs[k] \in Fit(Q) /\ qs[k].from = rows[k].from /\ qs[k].trace = rows[k].trace
  <2>1. /\ rows[k] \in Fit(O) /\ rows[k] \in RowSet /\ RowOK(rows[k])
        /\ rows[k].status = "optimistic" => rows[k].cid \in O
    BY ListRow
  <2>2. CASE rows[k].cid # c
    <3>1. rows[k] \in Fit(Q)
      BY <2>1, <2>2 DEF Fit
    <3> QED BY <2>2, <3>1 DEF ConfirmedIn
  <2>3. CASE rows[k].cid = c
    <3>1. rows[k].from = "user"
      <4>1. c # NoSend /\ ~FromAgent(c)
        BY HubFacts, OwnerChatAssumption DEF User, FromUser, FromAgent
      <4> QED BY <2>1, <2>3, <4>1 DEF RowOK, RowSet
    <3> DEFINE r == rows[k]
    <3>2. Confirmed(r, i, at) \in Fit(Q) /\ Confirmed(r, i, at).from = r.from
          /\ Confirmed(r, i, at).trace = r.trace
      <4>1. r \in Fit(O) /\ r.from = "user" /\ r.cid = c
        BY <2>1, <2>3, <3>1
      <4> HIDE DEF r, Q
      <4> QED BY <4>1, ConfirmedFit
    <3> QED BY <2>3, <3>2 DEF ConfirmedIn
  <2> QED BY <2>2, <2>3
<1> HIDE DEF qs, Q
<1>3. qs \in Lists(Q)
  BY <1>1, <1>2, MappedFit
<1> QED BY <1>3 DEF qs, Q

LEMMA confirmIs ==
  ASSUME NEW c, NEW i
  PROVE  /\ confirmOptimistic(c, i) = ConfirmedIn(c, i, Len(hist))
         /\ OfSend(c, LAMBDA r : Confirmed(r, i, i)) = ConfirmedIn(c, i, i)
BY Zenon DEF confirmOptimistic, ConfirmedIn, OfSend, MapRows

\* upsertMessage of an echo keeps the list good, and the send is not waited for
\* any more, unless the message was shown already.
LEMMA EchoedFit ==
  ASSUME HubInv, NEW O, rows \in Lists(O), room \in Bots, NEW i, FromUser(i),
         hist[i].bot = room, NEW c, c = hist[i].cid, i \notin Shown(rows)
  PROVE  Echoed(i, c) \in Lists(O \ {c})
<1> DEFINE open == {k \in DOMAIN rows : rows[k].status = "optimistic"}
           mine == {k \in open : rows[k].cid = c}
           same == {k \in open : SaidBy(rows[k].cid) = hist[i].text}
           d == IF mine # {} THEN c ELSE rows[Min(same)].cid
<1>0. rows \in Seq(Fit(O)) /\ Solo(rows, Whole)
  BY DEF Lists
<1>1. i \in Ids /\ i \in 1..MaxHub /\ MsgOK(i) /\ hist[i].from = "user" /\ hist[i] \in MsgSet
      /\ i \in 0..MaxHub
  BY HubFacts DEF FromUser
<1>2. User(c) /\ hist[i].text = SaidBy(c) /\ Meant(c, room) /\ hist[i].trace = 0 /\ c \in Cids
  BY <1>1 DEF MsgOK, MsgSet
<1>3. mine = {} => rows \in Lists(O \ {c})
  <2> SUFFICES ASSUME mine = {} PROVE rows \in Lists(O \ {c})
    OBVIOUS
  <2>1. \A k \in DOMAIN rows : rows[k].status = "optimistic" => rows[k].cid \in O \ {c}
    BY ListRow
  <2> QED BY <2>1, ListsWiden
<1>4. CASE mine \cup same = {}
  <2> DEFINE q == FromApi(i, {})
             r == [q EXCEPT !.cid = c, !.status = "confirmed"]
  <2>1. Echoed(i, c) = Append(rows, r)
    BY <1>4 DEF Echoed
  <2>2. q \in Fit(O) /\ q.from = "user" /\ q.trace = 0 /\ q.hub = i
    BY <1>1, <1>2, FromApiFit
  <2> HIDE DEF q
  <2>3. q \in RowSet /\ RowOK(q)
    BY <2>2 DEF Fit
  <2>4. r \in RowSet /\ r.cid = c /\ r.hub = i /\ r.from = "user" /\ r.trace = 0
        /\ r.status = "confirmed"
    BY <1>2, <2>2, <2>3 DEF RowSet
  <2> HIDE DEF r
  <2>5. RowOK(r)
    BY <1>1, <1>2, <2>4 DEF RowOK
  <2>6. r \in Fit(O \ {c})
    BY <2>4, <2>5 DEF Fit
  <2>7. rows \in Lists(O \ {c})
    BY <1>3, <1>4
  <2> DEFINE Q == O \ {c}
  <2> HIDE DEF Q
  <2>8. Append(rows, r) \in Lists(Q)
    BY <2>4, <2>6, <2>7, AppendedFit DEF Q
  <2> QED BY <2>1, <2>8 DEF Q
<1>5. CASE mine \cup same # {}
  <2>1. Echoed(i, c) = OfSend(d, LAMBDA r : Confirmed(r, i, i))
    BY <1>5 DEF Echoed
  <2>2. User(d) /\ SaidBy(d) = hist[i].text
    <3>1. CASE mine # {}
      BY <3>1, <1>2
    <3>2. CASE mine = {}
      <4>1. same # {} /\ same \in SUBSET Nat
        BY <3>2, <1>5, <1>0
      <4>2. Min(same) \in same
        <5> HIDE DEF same
        <5> QED BY <4>1, MinIn
      <4> DEFINE k == Min(same)
      <4> HIDE DEF k
      <4>3. k \in DOMAIN rows /\ rows[k].status = "optimistic" /\ SaidBy(rows[k].cid) = hist[i].text
        BY <4>2 DEF k
      <4>4. d = rows[k].cid
        BY <3>2 DEF k
      <4>5. User(rows[k].cid)
        BY <4>3, ListRow DEF RowOK
      <4> QED BY <4>3, <4>4, <4>5
    <3> QED BY <3>1, <3>2
  <2>3. rows \in Lists(O \ {c}) \/ d = c
    BY <1>3
  <2> HIDE DEF d, mine, same, open
  <2>4. Echoed(i, c) = ConfirmedIn(d, i, i)
    BY <2>1, confirmIs
  <2>5. CASE d = c
    <3>1. ConfirmedIn(c, i, i) \in Lists(O \ {c})
      BY <1>1, <1>2, ConfirmedInFit
    <3> QED BY <2>4, <2>5, <3>1
  <2>6. CASE rows \in Lists(O \ {c})
    <3> DEFINE qs == ConfirmedIn(d, i, i)
               Q == O \ {c}
    <3> HIDE DEF Q
    <3>1. qs \in Lists(Q \ {d})
      BY <1>1, <2>2, <2>6, ConfirmedInFit DEF Q
    <3> HIDE DEF qs
    <3>2. \A k \in DOMAIN qs : qs[k].status = "optimistic" => qs[k].cid \in Q
      BY <3>1, ListRow
    <3>3. qs \in Lists(Q)
      BY <3>1, <3>2, ListsWiden
    <3> QED BY <2>4, <3>3 DEF qs, Q
  <2> QED BY <2>3, <2>5, <2>6
<1> QED BY <1>4, <1>5

\* finalizeStream keeps the list good.
LEMMA FinalizedFit ==
  ASSUME HubInv, NEW O, rows \in Lists(O), room \in Bots, NEW i, FromAgent(i), hist[i].bot = room
  PROVE  Finalized(i) \in Lists(O)
<1> DEFINE k == RunRow(rows, hist[i].trace)
<1>1. i \in Ids
  BY DEF FromAgent
<1>2. CASE k # 0
  <2> DEFINE m == Merged(rows[k], i)
             n == [m EXCEPT !.cid = rows[k].cid]
             ms == [rows EXCEPT ![k] = m]
             qs == [rows EXCEPT ![k] = n]
  <2>1. ms \in Lists(O) /\ rows \in Seq(Fit(O))
    BY <1>1, <1>2, MergedAt DEF Lists
  <2>2. k \in DOMAIN rows /\ rows[k].from = "agent"
    BY <1>2, <2>1, RunRowIn
  <2> HIDE DEF k
  <2>3. DOMAIN ms = DOMAIN rows /\ DOMAIN qs = DOMAIN rows /\ ms[k] = m /\ qs[k] = n
        /\ \A l \in DOMAIN rows : l # k => ms[l] = rows[l] /\ qs[l] = rows[l]
    BY <2>1, <2>2
  <2>4. m \in Fit(O) /\ m \in RowSet /\ RowOK(m) /\ m.status # "optimistic" /\ m.from = "agent"
        /\ m.status = "delivered" /\ m.hub = i
    <3>1. ms[k] \in Fit(O)
      BY <2>1, <2>2, <2>3, ListRow
    <3>2. m.status = "delivered" /\ m.from = hist[i].from /\ m.hub = i
      BY DEF Merged, FromApi, Row
    <3> QED BY <2>3, <3>1, <3>2 DEF Fit, FromAgent
  <2>5. rows[k].cid \in Cids /\ (rows[k].cid = NoSend \/ FromAgent(rows[k].cid))
    BY <2>2, ListRow DEF RowOK, RowSet
  <2> HIDE DEF m
  <2>6. /\ n \in RowSet /\ n.cid = rows[k].cid /\ n.hub = m.hub /\ n.from = m.from
        /\ n.status = m.status /\ n.trace = m.trace
    BY <2>4, <2>5 DEF RowSet
  <2> HIDE DEF n
  <2>7. RowOK(n)
    BY <1>1, <2>4, <2>5, <2>6 DEF RowOK
  <2>8. n \in Fit(O)
    BY <2>4, <2>6, <2>7 DEF Fit
  <2> HIDE DEF qs, ms
  <2>9. \A l \in DOMAIN ms : qs[l] \in Fit(O) /\ qs[l].from = ms[l].from /\ qs[l].trace = ms[l].trace
    BY <2>1, <2>3, <2>6, <2>8, ListRow
  <2>10. qs = [l \in DOMAIN ms |-> qs[l]]
    BY <2>3 DEF qs
  <2>11. qs \in Lists(O)
    BY <2>1, <2>9, <2>10, MappedFit
  <2> QED BY <1>2, <2>11 DEF Finalized, qs, n, m, k
<1>3. CASE k = 0
  <2>1. AddFromApi(rows, i, {}) \in Lists(O)
    BY <1>1, AddFromApiFit
  <2> QED BY <1>3, <2>1 DEF Finalized
<1> QED BY <1>2, <1>3

\* appendStreamBlock and restoreStreamBlocks keep the list good.
LEMMA WithBlocksFit ==
  ASSUME HubInv, NEW O, rows \in Lists(O), room \in Bots, NEW t, FromUser(t), hist[t].bot = room,
         NEW Q \in SUBSET Nat
  PROVE  WithBlocks(t, Q) \in Lists(O)
<1> DEFINE k == RunRow(rows, t)
<1>0. rows \in Seq(Fit(O)) /\ Solo(rows, Whole)
  BY DEF Lists
<1>1. t \in Ids /\ t \in 1..MaxHub /\ t # 0
  BY HubFacts DEF FromUser
<1>2. CASE k # 0
  <2> DEFINE qs == [rows EXCEPT ![k].blocks = @ \cup Q]
             m == [rows[k] EXCEPT !.blocks = @ \cup Q]
  <2>1. k \in DOMAIN rows
    BY <1>0, <1>2, RunRowIn
  <2> HIDE DEF k
  <2>2. rows[k] \in Fit(O) /\ rows[k] \in RowSet /\ RowOK(rows[k])
        /\ (rows[k].status = "optimistic" => rows[k].cid \in O)
    BY <2>1, ListRow
  <2>3. m \in RowSet /\ m.cid = rows[k].cid /\ m.hub = rows[k].hub /\ m.from = rows[k].from
        /\ m.trace = rows[k].trace /\ m.status = rows[k].status
    BY <2>2 DEF RowSet
  <2>4. qs = [l \in DOMAIN rows |-> IF l = k THEN m ELSE rows[l]]
    BY <2>1, <1>0
  <2> HIDE DEF m
  <2>5. RowOK(m)
    BY <2>2, <2>3 DEF RowOK
  <2>6. m \in Fit(O)
    BY <2>2, <2>3, <2>5 DEF Fit
  <2> HIDE DEF qs
  <2>7. \A l \in DOMAIN rows : qs[l] = IF l = k THEN m ELSE rows[l]
    BY <2>4
  <2>8. \A l \in DOMAIN rows : rows[l] \in Fit(O)
    BY ListRow
  <2>9. \A l \in DOMAIN rows :
          qs[l] \in Fit(O) /\ qs[l].from = rows[l].from /\ qs[l].trace = rows[l].trace
    BY <2>3, <2>6, <2>7, <2>8
  <2>10. qs = [l \in DOMAIN rows |-> qs[l]]
    BY <2>4
  <2>11. qs \in Lists(O)
    BY <2>9, <2>10, MappedFit
  <2> QED BY <1>2, <2>11 DEF WithBlocks, qs, k
<1>3. CASE k = 0
  <2> DEFINE r == [Row("agent", "streaming", 0, t) EXCEPT !.blocks = Q]
  <2>1. Len(hist) \in 0..MaxHub /\ NoSend \in Cids
    BY HubFacts, NamesApart DEF HubInv
  <2>2. r \in RowSet /\ r.cid = NoSend /\ r.hub = 0 /\ r.from = "agent" /\ r.trace = t
        /\ r.status = "streaming"
    <3>1. r = [cid |-> NoSend, hub |-> 0, from |-> "agent", status |-> "streaming",
               lost |-> FALSE, trace |-> t, blocks |-> Q, at |-> Len(hist)]
      <4>1. Row("agent", "streaming", 0, t) =
              [cid |-> NoSend, hub |-> 0, from |-> "agent", status |-> "streaming",
               lost |-> FALSE, trace |-> t, blocks |-> {}, at |-> Len(hist)]
        BY Zenon DEF Row
      <4>2. r = [[cid |-> NoSend, hub |-> 0, from |-> "agent", status |-> "streaming",
                  lost |-> FALSE, trace |-> t, blocks |-> {}, at |-> Len(hist)] EXCEPT !.blocks = Q]
        BY Zenon, <4>1
      <4> HIDE DEF r, k
      <4> QED BY <4>2
    <3> HIDE DEF r
    <3> QED BY <1>1, <2>1, <3>1 DEF RowSet
  <2> HIDE DEF r
  <2>3. RowOK(r)
    BY <2>2 DEF RowOK
  <2>4. r \in Fit(O)
    BY <2>2, <2>3 DEF Fit
  <2>5. \A l \in DOMAIN rows : ~(rows[l].from = "agent" /\ rows[l].trace = t)
    BY <1>0, <1>1, <1>3, RunRowIn
  <2>6. Append(rows, r) \in Lists(O)
    BY <2>2, <2>4, <2>5, AppendedFit
  <2> QED BY <1>3, <2>6 DEF WithBlocks, r
<1> QED BY <1>2, <1>3

\* failRun keeps the list good: the run has failed, and may have two bubbles.
LEMMA RunFailedFit ==
  ASSUME HubInv, NEW O, rows \in Lists(O), room \in Bots, NEW t, FromUser(t), hist[t].bot = room,
         hist[t].state = "failed"
  PROVE  RunFailed(t) \in Lists(O)
<1> DEFINE new(r) == IF r.from = "user" /\ r.hub = t
                     THEN [r EXCEPT !.status = "failed", !.lost = FALSE] ELSE r
           marked == [k \in DOMAIN rows |-> new(rows[k])]
           K == {k \in DOMAIN rows : ~(marked[k].status = "streaming" /\ marked[k].trace = t)}
           closed == Picked(marked, K)
           e == Row("agent", "delivered", -t, t)
<1>1. t \in Ids /\ t \in 1..MaxHub
  BY HubFacts DEF FromUser
<1>2. marked \in Lists(O)
  <2>1. marked = [k \in DOMAIN rows |-> marked[k]]
    OBVIOUS
  <2>2. ASSUME NEW k \in DOMAIN rows
        PROVE  /\ marked[k] \in Fit(O)
               /\ marked[k].from = rows[k].from /\ marked[k].trace = rows[k].trace
    <3> DEFINE r == rows[k]
    <3>1. r \in Fit(O) /\ marked[k] = new(r)
      BY ListRow
    <3> HIDE DEF r, marked
    <3>2. CASE r.from = "user" /\ r.hub = t
      <4> DEFINE m == [r EXCEPT !.status = "failed", !.lost = FALSE]
      <4>1. m \in Fit(O) /\ m.from = r.from /\ m.trace = r.trace
        BY <3>1, <3>2, StatusFit
      <4>2. new(r) = m
        BY <3>2
      <4> HIDE DEF m, new
      <4> QED BY <3>1, <4>1, <4>2 DEF r
    <3>3. CASE ~(r.from = "user" /\ r.hub = t)
      BY <3>1, <3>3 DEF r
    <3> QED BY <3>2, <3>3
  <2> HIDE DEF marked
  <2> QED BY <2>1, <2>2, MappedFit
<1>3. RunFailed(t) = IF -t \in Shown(rows) THEN closed ELSE Append(closed, e)
  BY Zenon DEF RunFailed, MapRows
<1> HIDE DEF marked, K
<1>4. marked \in Seq(Fit(O)) /\ Solo(marked, Whole)
  BY <1>2 DEF Lists
<1>5. closed \in Seq(Fit(O))
  BY <1>4, PickedFrom
<1>6. Solo(closed, Whole)
  <2>1. \A k, l \in DOMAIN marked \cap K :
            marked[k].from = "agent" /\ marked[l].from = "agent"
            /\ marked[k].trace = marked[l].trace /\ marked[k].trace \in Whole => k = l
    BY <1>4 DEF Solo
  <2> QED BY <1>4, <2>1, PickedSolo
<1> HIDE DEF closed
<1>7. closed \in Lists(O)
  BY <1>5, <1>6 DEF Lists
<1>8. Len(hist) \in 0..MaxHub /\ NoSend \in Cids
  BY HubFacts, NamesApart DEF HubInv
<1>9. e \in RowSet /\ e.cid = NoSend /\ e.hub = -t /\ e.from = "agent" /\ e.trace = t
      /\ e.status = "delivered"
  BY <1>1, <1>8 DEF Row, RowSet
<1> HIDE DEF e
<1>10. RowOK(e)
  BY <1>1, <1>9 DEF RowOK
<1>11. e \in Fit(O) /\ e.trace \notin Whole
  BY <1>9, <1>10 DEF Fit, Whole
<1>12. Append(closed, e) \in Lists(O)
  BY <1>7, <1>11, AppendedFit
<1> QED BY <1>3, <1>7, <1>12

\* onDisconnect keeps the list good, and no row is being sent.
LEMMA DisconnectedFit ==
  ASSUME NEW O, rows \in Lists(O)
  PROVE  Disconnected \in Lists({})
<1> DEFINE new(r) == IF r.status = "optimistic" THEN [r EXCEPT !.status = "failed", !.lost = TRUE]
                     ELSE IF r.status = "streaming" THEN [r EXCEPT !.status = "delivered"]
                     ELSE r
           qs == [k \in DOMAIN rows |-> new(rows[k])]
<1>1. Disconnected = qs
  BY Zenon DEF Disconnected, MapRows
<1>2. qs = [k \in DOMAIN rows |-> qs[k]]
  OBVIOUS
<1>3. ASSUME NEW k \in DOMAIN rows
      PROVE  qs[k] \in Fit({}) /\ qs[k].from = rows[k].from /\ qs[k].trace = rows[k].trace
  <2> DEFINE r == rows[k]
  <2>1. r \in Fit(O) /\ r \in RowSet /\ RowOK(r) /\ qs[k] = new(r)
    BY ListRow
  <2> HIDE DEF r, qs
  <2>2. CASE r.status = "optimistic"
    <3> DEFINE m == [r EXCEPT !.status = "failed", !.lost = TRUE]
    <3>1. r.from = "user"
      BY <2>1, <2>2 DEF RowOK
    <3>2. m \in Fit({}) /\ m.from = r.from /\ m.trace = r.trace
      BY <2>1, <3>1, StatusFit
    <3>3. new(r) = m
      BY <2>2
    <3> HIDE DEF m, new
    <3> QED BY <2>1, <3>2, <3>3 DEF r
  <2>3. CASE r.status = "streaming"
    <3> DEFINE m == [r EXCEPT !.status = "delivered"]
    <3>1. r.from = "agent"
      BY <2>1, <2>3 DEF RowOK
    <3>2. m.cid = r.cid /\ m.hub = r.hub /\ m.from = r.from /\ m.trace = r.trace
          /\ m.status = "delivered" /\ m \in RowSet
      BY <2>1 DEF RowSet
    <3>3. new(r) = m
      BY <2>3
    <3> HIDE DEF m, new
    <3>4. RowOK(m)
      BY <2>1, <3>1, <3>2 DEF RowOK
    <3> QED BY <2>1, <3>2, <3>3, <3>4 DEF Fit, r
  <2>4. CASE r.status # "optimistic" /\ r.status # "streaming"
    <3>1. new(r) = r /\ r \in Fit({})
      BY <2>1, <2>4 DEF Fit
    <3> HIDE DEF new
    <3> QED BY <2>1, <3>1 DEF r
  <2> QED BY <2>2, <2>3, <2>4
<1> HIDE DEF qs
<1>4. qs \in Lists({})
  BY <1>2, <1>3, MappedFit
<1> QED BY <1>1, <1>4

\* A send that is tried again.
LEMMA RetriedFit ==
  ASSUME NEW O, rows \in Lists(O), NEW k \in DOMAIN rows, rows[k].status = "failed"
  PROVE  [rows EXCEPT ![k].status = "optimistic", ![k].lost = FALSE]
            \in Lists(O \cup {rows[k].cid})
<1> DEFINE qs == [rows EXCEPT ![k].status = "optimistic", ![k].lost = FALSE]
           m == [rows[k] EXCEPT !.status = "optimistic", !.lost = FALSE]
           Q == O \cup {rows[k].cid}
<1>0. rows \in Seq(Fit(O))
  BY DEF Lists
<1>1. qs = [l \in DOMAIN rows |-> IF l = k THEN m ELSE rows[l]]
  BY <1>0
<1>2. m \in Fit(Q) /\ m.from = rows[k].from /\ m.trace = rows[k].trace
  <2> DEFINE r == rows[k]
  <2>1. r \in Fit(O) /\ r.from = "user" /\ r.cid \in Q
    BY ListRow DEF RowOK
  <2> HIDE DEF r, Q
  <2>2. [r EXCEPT !.status = "optimistic", !.lost = FALSE] \in Fit(Q)
        /\ [r EXCEPT !.status = "optimistic", !.lost = FALSE].from = r.from
        /\ [r EXCEPT !.status = "optimistic", !.lost = FALSE].trace = r.trace
    <3>1. r \in RowSet /\ RowOK(r)
      BY <2>1 DEF Fit
    <3> DEFINE q == [r EXCEPT !.status = "optimistic", !.lost = FALSE]
    <3>2. q.cid = r.cid /\ q.hub = r.hub /\ q.from = r.from /\ q.trace = r.trace
          /\ q.status = "optimistic"
      BY <3>1 DEF RowSet
    <3>3. q \in RowSet
      BY <3>1 DEF RowSet
    <3> HIDE DEF q
    <3>4. RowOK(q)
      BY <2>1, <3>1, <3>2 DEF RowOK
    <3> QED BY <2>1, <3>2, <3>3, <3>4 DEF Fit, q
  <2> QED BY <2>2 DEF r
<1>3. \A l \in DOMAIN rows : rows[l] \in Fit(Q)
  BY ListRow DEF Fit
<1> HIDE DEF m, Q, qs
<1>4. \A l \in DOMAIN rows :
        qs[l] \in Fit(Q) /\ qs[l].from = rows[l].from /\ qs[l].trace = rows[l].trace
  BY <1>1, <1>2, <1>3
<1>5. qs = [l \in DOMAIN rows |-> qs[l]]
  BY <1>1
<1>6. qs \in Lists(Q)
  BY <1>4, <1>5, MappedFit
<1> QED BY <1>6 DEF qs, Q

-----------------------------------------------------------------------------
(* What is known of a message and of a send only grows *)

Grows ==
    /\ Len(hist) \in Nat /\ Len(hist') \in Nat /\ Len(hist) <= Len(hist')
    /\ \A i \in Ids :
         /\ hist'[i].bot = hist[i].bot /\ hist'[i].from = hist[i].from
         /\ hist'[i].cid = hist[i].cid /\ hist'[i].trace = hist[i].trace
         /\ hist'[i].text = hist[i].text
         /\ hist[i].run = "none" => hist'[i].run = "none"
         /\ hist[i].state = "failed" => hist'[i].state = "failed"
         /\ hist[i].turn # "running" => hist'[i].turn # "running"
    /\ crossed \subseteq crossed'
    /\ \A c \in Sends : aim[c] # NoBot => aim'[c] = aim[c]

\* Nothing stored is what grows least.
LEMMA StillGrows ==
  ASSUME HubInv, hist' = hist, crossed \subseteq crossed', 
         \A c \in Sends : aim[c] # NoBot => aim'[c] = aim[c]
  PROVE  Grows
BY HubFacts DEF Grows

\* What was said of an id, a client id or a row stays true.
LEMMA KeepIds ==
  ASSUME Grows
  PROVE  \A i \in Ids : i \in Ids'
BY DEF Grows, Ids

LEMMA KeepFrom ==
  ASSUME Grows
  PROVE  \A i : /\ FromUser(i) => FromUser(i)'
                /\ FromAgent(i) => FromAgent(i)'
BY KeepIds DEF Grows, FromUser, FromAgent

LEMMA KeepUser ==
  ASSUME Grows
  PROVE  \A c : User(c) => User(c)' /\ SaidBy(c)' = SaidBy(c)
<1>1. \A c : User(c) => User(c)'
  BY KeepFrom DEF User
<1>2. \A c : FromUser(c) => hist'[c].text = hist[c].text
  BY DEF Grows, FromUser
<1>3. \A c : User(c) => SaidBy(c)' = SaidBy(c)
  BY <1>2 DEF User, SaidBy
<1> QED BY <1>1, <1>3

LEMMA KeepMeant ==
  ASSUME Grows
  PROVE  \A c, b : User(c) /\ Meant(c, b) /\ b \in Bots => Meant(c, b)'
<1>1. ASSUME NEW c, NEW b \in Bots, User(c), Meant(c, b) PROVE Meant(c, b)'
  <2>1. CASE c \in crossed
    BY <2>1 DEF Meant, Grows
  <2>2. CASE c \notin crossed /\ c \in Sends
    <3>1. aim[c] = b /\ b # NoBot
      BY <1>1, <2>2, OwnerChatAssumption DEF Meant, Owner
    <3> QED BY <2>2, <3>1 DEF Meant, Owner, Grows
  <2>3. CASE c \notin crossed /\ c \notin Sends
    <3>1. c \in Ids /\ hist[c].bot = b
      BY <1>1, <2>3 DEF Meant, Owner, User, FromUser
    <3> QED BY <2>3, <3>1 DEF Meant, Owner, Grows
  <2> QED BY <2>1, <2>2, <2>3
<1> QED BY <1>1

LEMMA KeepRow ==
  ASSUME Grows, room' = room, NEW r \in RowSet, RowOK(r)
  PROVE  RowOK(r)'
<1>1. room' \in Bots
  BY DEF RowOK
<1>2. r.hub > 0 => /\ r.hub \in Ids' /\ r.from = hist'[r.hub].from /\ r.trace = hist'[r.hub].trace
                   /\ \/ hist'[r.hub].bot = room'
                      \/ r.cid \in crossed' /\ hist'[r.hub].run = "none"
  BY KeepIds DEF RowOK, Grows
<1>3. r.from = "user" => /\ User(r.cid)' /\ r.trace = 0 /\ Meant(r.cid, room)' /\ r.hub >= 0
                         /\ r.hub = 0 => r.cid \in Sends
  <2> SUFFICES ASSUME r.from = "user" PROVE User(r.cid)' /\ Meant(r.cid, room)'
    BY DEF RowOK
  <2>1. User(r.cid) /\ Meant(r.cid, room) /\ room \in Bots
    BY DEF RowOK
  <2>2. Meant(r.cid, room)'
    <3> DEFINE b == room
    <3>1. \A c, x : User(c) /\ Meant(c, x) /\ x \in Bots => Meant(c, x)'
      BY KeepMeant
    <3>2. \A x : x = room => Meant(r.cid, x)'
      BY <2>1, <3>1
    <3>3. \A x : x = room' /\ Meant(r.cid, x)' => Meant(r.cid, room)'
      BY DEF Meant
    <3> QED BY <3>2, <3>3
  <2> QED BY <2>1, <2>2, KeepUser
<1>4. r.from = "agent" => /\ r.cid = NoSend \/ FromAgent(r.cid)'
                          /\ FromUser(r.trace)'
                          /\ r.hub <= 0 => hist'[r.trace].bot = room'
  BY KeepFrom DEF RowOK, Grows, FromUser
<1>5. r.status = "confirmed" => FromUser(r.hub)' /\ hist'[r.hub].text = SaidBy(r.cid)'
  <2> SUFFICES ASSUME r.status = "confirmed"
               PROVE  FromUser(r.hub)' /\ hist'[r.hub].text = SaidBy(r.cid)'
    OBVIOUS
  <2>1. FromUser(r.hub) /\ hist[r.hub].text = SaidBy(r.cid) /\ User(r.cid)
    BY DEF RowOK
  <2>2. hist'[r.hub].text = hist[r.hub].text
    BY <2>1 DEF Grows, FromUser
  <2> QED BY <2>1, <2>2, KeepFrom, KeepUser
<1>6. /\ r.status \in {"optimistic", "failed", "confirmed"} => r.from = "user"
      /\ r.from = "user" /\ r.status = "delivered" => r.hub > 0
      /\ r.status = "streaming" => r.from = "agent" /\ r.hub = 0
  BY DEF RowOK
<1> QED BY <1>1, <1>2, <1>3, <1>4, <1>5, <1>6 DEF RowOK

\* A list that may be shown now may be shown after the step.
LEMMA KeepList ==
  ASSUME Grows, room' = room, NEW O, rows' \in Lists(O),
         \A c \in O : User(c) => c \in Told'
  PROVE  RowsInv'
<1>1. rows' \in Seq(Fit(O)) /\ Solo(rows', Whole)
  BY DEF Lists
<1>2. ASSUME NEW r \in Fit(O)
      PROVE  r \in RowSet /\ RowOK(r)' /\ (r.status = "optimistic" => r.cid \in Told')
  <2>1. r \in RowSet /\ RowOK(r) /\ (r.status = "optimistic" => r.cid \in O)
    BY DEF Fit
  <2>2. RowOK(r)'
    BY <2>1, KeepRow
  <2>3. r.status = "optimistic" => r.cid \in Told'
    BY <2>1 DEF RowOK
  <2> QED BY <2>1, <2>2, <2>3
<1> DEFINE F == Fit(Told)'
<1>3. \A r \in Fit(O) : r \in F
  BY <1>2 DEF Fit
<1> HIDE DEF F
<1>4. rows' \in Seq(F)
  <2>1. \A k \in DOMAIN rows' : rows'[k] \in F
    BY <1>1, <1>3
  <2> QED BY <1>1, <2>1
<1>5. \A k \in DOMAIN rows' : rows'[k].from = "agent" /\ rows'[k].trace \in Whole' =>
                              rows'[k].trace \in Whole
  <2> SUFFICES ASSUME NEW k \in DOMAIN rows', rows'[k].from = "agent", rows'[k].trace \in Whole'
               PROVE  rows'[k].trace \in Whole
    OBVIOUS
  <2>1. RowOK(rows'[k])
    BY <1>1 DEF Fit
  <2>2. rows'[k].trace \in Ids
    BY <2>1 DEF RowOK, FromUser
  <2> QED BY <2>2 DEF Whole, Grows
<1>6. Solo(rows', Whole')
  BY <1>1, <1>5 DEF Solo
<1>7. Solo(rows, Whole)'
  BY <1>6 DEF Solo
<1> QED BY <1>4, <1>7 DEF RowsInv, F

LEMMA RowsAreLists ==
  ASSUME RowsInv PROVE rows \in Lists(Told)
BY DEF RowsInv, Lists

\* What is on its way stays good.
LEMMA KeepUpward ==
  ASSUME Grows, NEW b \in Bots
  PROVE  \A c \in Upward(b) : c \in Upward(b)'
BY KeepUser, KeepMeant DEF Upward

\* So do the frames.
LEMMA KeepDownward ==
  ASSUME Grows, NEW b \in Bots
  PROVE  \A m \in Downward(b) : m \in Downward(b)'
<1>1. ASSUME NEW m \in FrameSet, FrameOK(m, b) PROVE FrameOK(m, b)'
  <2>1. FromUser(m.hub) \/ FromAgent(m.hub) =>
          /\ hist'[m.hub].cid = hist[m.hub].cid /\ hist'[m.hub].bot = hist[m.hub].bot
          /\ hist[m.hub].state = "failed" => hist'[m.hub].state = "failed"
    BY DEF FromUser, FromAgent, Grows
  <2> QED BY <1>1, <2>1, KeepFrom DEF FrameOK
<1> QED BY <1>1 DEF Downward

\* And what is made of them: connections, POSTs, uploads, requests, blocks.
LEMMA KeepSocks ==
  ASSUME Grows
  PROVE  \A s \in GoodSocks : s \in GoodSocks'
<1> SUFFICES ASSUME NEW s \in GoodSocks PROVE s \in GoodSocks'
  OBVIOUS
<1>1. s \in SockSet /\ SockOK(s) /\ s.bot \in Bots
  BY DEF GoodSocks, SockSet
<1> DEFINE b == s.bot
           U == Upward(b)'
           D == Downward(b)'
<1>2. \A c \in Upward(b) : c \in U
  BY <1>1, KeepUpward
<1>3. \A m \in Downward(b) : m \in D
  BY <1>1, KeepDownward
<1>4. s.up \in Seq(Upward(b)) /\ s.down \in Seq(Downward(b))
  BY <1>1 DEF SockOK
<1> HIDE DEF U, D, b
<1>5. s.up \in Seq(U)
  <2>1. \A n \in DOMAIN s.up : s.up[n] \in U
    BY <1>2, <1>4
  <2> QED BY <1>4, <2>1
<1>6. s.down \in Seq(D)
  <2>1. \A n \in DOMAIN s.down : s.down[n] \in D
    BY <1>3, <1>4
  <2> QED BY <1>4, <2>1
<1>7. s.echo # 0 => FromUser(s.echo)' /\ hist'[s.echo].bot = s.bot
  BY <1>1, KeepFrom DEF SockOK, FromUser, Grows
<1>8. SockOK(s)'
  BY <1>5, <1>6, <1>7 DEF SockOK, U, D, b
<1> QED BY <1>1, <1>8 DEF GoodSocks

LEMMA KeepPosts ==
  ASSUME Grows
  PROVE  \A p \in GoodPosts : p \in GoodPosts'
<1> SUFFICES ASSUME NEW p \in GoodPosts PROVE p \in GoodPosts'
  OBVIOUS
<1>1. p \in PostSet /\ PostOK(p) /\ p.bot \in Bots
  BY DEF GoodPosts, PostSet
<1>2. User(p.cid)' /\ Meant(p.cid, p.bot)'
  BY <1>1, KeepUser, KeepMeant DEF PostOK
<1>3. p.hub # 0 => /\ FromUser(p.hub)' /\ hist'[p.hub].cid = p.cid
                   /\ hist'[p.hub].bot = p.bot /\ hist'[p.hub].run = "none"
  BY <1>1, KeepFrom DEF PostOK, FromUser, Grows
<1>4. PostOK(p)'
  BY <1>2, <1>3 DEF PostOK
<1> QED BY <1>1, <1>4 DEF GoodPosts

LEMMA KeepUploads ==
  ASSUME Grows
  PROVE  \A u \in GoodUploads : u \in GoodUploads'
<1> SUFFICES ASSUME NEW u \in GoodUploads PROVE u \in GoodUploads'
  OBVIOUS
<1>1. u \in UploadSet /\ User(u.cid) /\ Meant(u.cid, u.bot) /\ u.bot \in Bots
  BY DEF GoodUploads, UploadSet
<1>2. User(u.cid)' /\ Meant(u.cid, u.bot)'
  BY <1>1, KeepUser, KeepMeant
<1> QED BY <1>1, <1>2 DEF GoodUploads

LEMMA KeepFetches ==
  ASSUME Grows, visit \in Nat, visit' \in Nat, visit' > visit \/ (visit' = visit /\ room' = room)
  PROVE  \A f \in GoodFetches : f \in GoodFetches'
<1> SUFFICES ASSUME NEW f \in GoodFetches PROVE f \in GoodFetches'
  OBVIOUS
<1>1. f \in FetchSet /\ FetchOK(f) /\ f.visit \in Nat /\ f.upto \in Int
  BY DEF GoodFetches, FetchSet
<1>2. f.visit <= visit' /\ (f.visit = visit' => f.bot = room')
  BY <1>1 DEF FetchOK
<1>3. f.upto >= -1 /\ f.upto <= Len(hist')
  BY <1>1 DEF FetchOK, Grows
<1>4. f.kind # "restore" => f.trace = 0 /\ \A i \in f.data : FromUser(i)'
  BY <1>1, KeepFrom DEF FetchOK
<1>5. f.kind = "restore" => /\ FromUser(f.trace)'
                            /\ f.visit = visit' => \/ hist'[f.trace].bot = room'
                                                   \/ hist'[f.trace].run = "none" /\ f.data = {}
  <2> SUFFICES ASSUME f.kind = "restore"
               PROVE  /\ FromUser(f.trace)'
                      /\ f.visit = visit' => \/ hist'[f.trace].bot = room'
                                             \/ hist'[f.trace].run = "none" /\ f.data = {}
    OBVIOUS
  <2>1. FromUser(f.trace) /\ f.trace \in Ids
        /\ (f.visit = visit => \/ hist[f.trace].bot = room
                               \/ hist[f.trace].run = "none" /\ f.data = {})
    BY <1>1 DEF FetchOK, FromUser
  <2>2. hist'[f.trace].bot = hist[f.trace].bot
        /\ (hist[f.trace].run = "none" => hist'[f.trace].run = "none")
    BY <2>1 DEF Grows
  <2>3. f.visit = visit' => f.visit = visit /\ room' = room
    BY <1>1 DEF FetchOK
  <2> QED BY <2>1, <2>2, <2>3, KeepFrom
<1>6. FetchOK(f)'
  BY <1>2, <1>3, <1>4, <1>5 DEF FetchOK
<1> QED BY <1>1, <1>6 DEF GoodFetches

LEMMA KeepBlocks ==
  ASSUME Grows
  PROVE  \A x \in GoodBlocks : x \in GoodBlocks'
<1>1. \A x \in (1..MaxHub) \X Nat : FromUser(x[1]) => FromUser(x[1])'
  BY KeepFrom
<1> QED BY <1>1 DEF GoodBlocks

\* What the hub has, when it stored nothing.
LEMMA KeepHub ==
  ASSUME HubInv, Grows, hist' = hist, subs' \subseteq subs, cut \subseteq cut', cut' \subseteq Ids,
         dropped' = dropped, subs \cup cut \subseteq subs' \cup cut'
  PROVE  HubInv'
<1>0. Ids' = Ids
  BY DEF Ids
<1>1. ASSUME NEW i \in Ids' PROVE MsgOK(i)'
  <2>1. i \in Ids /\ MsgOK(i) /\ hist[i] \in MsgSet /\ hist[i].bot \in Bots
    BY <1>0, HubFacts DEF MsgSet
  <2>2. hist[i].from = "user" =>
         /\ User(hist[i].cid)' /\ hist'[i].trace = 0
         /\ hist'[i].text = SaidBy(hist[i].cid)' /\ Meant(hist[i].cid, hist[i].bot)'
    <3> SUFFICES ASSUME hist[i].from = "user"
                 PROVE  /\ User(hist[i].cid)' /\ hist'[i].trace = 0
                        /\ hist'[i].text = SaidBy(hist[i].cid)' /\ Meant(hist[i].cid, hist[i].bot)'
      OBVIOUS
    <3> DEFINE c == hist[i].cid
               b == hist[i].bot
    <3>1. User(c) /\ hist[i].trace = 0 /\ hist[i].text = SaidBy(c) /\ Meant(c, b)
      BY <2>1 DEF MsgOK
    <3>2. \A x : x = c => User(x)' /\ SaidBy(x)' = SaidBy(x) /\ \A y : y = b => Meant(x, y)'
      BY <2>1, <3>1, KeepUser, KeepMeant
    <3>3. \A x, y : x = c' /\ y = b' /\ User(x)' /\ SaidBy(x)' = hist[i].text /\ Meant(x, y)' =>
                      User(c)' /\ SaidBy(c)' = hist[i].text /\ Meant(c, b)'
      BY DEF User, FromUser, SaidBy, Meant, Owner
    <3>4. c' = c /\ b' = b
      OBVIOUS
    <3>5. SaidBy(c) = hist[i].text
      BY <3>1
    <3> HIDE DEF c, b
    <3>6. User(c)' /\ SaidBy(c)' = hist[i].text /\ Meant(c, b)'
      BY <3>2, <3>3, <3>4, <3>5
    <3> QED BY <3>1, <3>6 DEF c, b
  <2>3. hist[i].from = "agent" =>
         /\ FromUser(hist[i].trace)' /\ hist'[hist'[i].trace].turn # "running"
         /\ hist'[i].state # "failed" /\ hist'[i].run = "none"
    BY <2>1, <1>0 DEF MsgOK, FromUser
  <2>4. hist'[i].run = "running" => i \in subs' \cup cut' \/ hist'[i].turn = "replying"
    BY <2>1 DEF MsgOK
  <2> QED BY <2>2, <2>3, <2>4 DEF MsgOK
<1>2. OneReply' /\ DropsExplained'
  BY <1>0 DEF HubInv, OneReply, DropsExplained
<1>3. hist' \in Seq(MsgSet) /\ Len(hist') <= MaxHub
      /\ subs' \subseteq Ids' /\ dropped' \subseteq Ids' \X Nat /\ cut' \subseteq Ids'
  BY <1>0 DEF HubInv
<1> QED BY <1>1, <1>2, <1>3 DEF HubInv

-----------------------------------------------------------------------------
(* What is on its way, one step later *)

\* All that is on its way stays good.
LEMMA KeepWay ==
  ASSUME WayInv, Grows, visit \in Nat, visit' \in Nat,
         visit' > visit \/ (visit' = visit /\ room' = room)
  PROVE  /\ socks \in Seq(GoodSocks') /\ posts \subseteq GoodPosts'
         /\ uploads \subseteq GoodUploads' /\ fetches \subseteq GoodFetches'
         /\ fwd \subseteq GoodBlocks'
<1>1. socks \in Seq(GoodSocks')
  <2> DEFINE G == GoodSocks'
  <2>1. socks \in Seq(GoodSocks) /\ \A s \in GoodSocks : s \in G
    BY KeepSocks DEF WayInv
  <2> HIDE DEF G
  <2>2. \A n \in DOMAIN socks : socks[n] \in G
    BY <2>1
  <2>3. socks \in Seq(G)
    BY <2>1, <2>2
  <2> QED BY <2>3 DEF G
<1> QED BY <1>1, KeepPosts, KeepUploads, KeepFetches, KeepBlocks DEF WayInv

\* A connection is good after the step if its parts are.
LEMMA SockNext ==
  ASSUME NEW s \in SockSet, s.up \in Seq(Upward(s.bot)'), s.down \in Seq(Downward(s.bot)'),
         s.echo # 0 => FromUser(s.echo)' /\ hist'[s.echo].bot = s.bot
  PROVE  s \in GoodSocks'
BY DEF GoodSocks, SockOK

LEMMA SockParts ==
  ASSUME NEW s \in GoodSocks'
  PROVE  /\ s \in SockSet /\ s.bot \in Bots
         /\ s.up \in Seq(Upward(s.bot)') /\ s.down \in Seq(Downward(s.bot)')
         /\ s.echo # 0 => FromUser(s.echo)' /\ hist'[s.echo].bot = s.bot
BY DEF GoodSocks, SockOK, SockSet

LEMMA SubTypes ==
  \A b : /\ \A c \in Upward(b)' : c \in Cids
         /\ \A m \in Downward(b)' : m \in FrameSet
BY DEF Upward, Downward

\* What may happen to a connection leaves it good.
LEMMA SockUp ==
  ASSUME NEW s \in GoodSocks', NEW c \in Upward(s.bot)'
  PROVE  [s EXCEPT !.up = Append(s.up, c)] \in GoodSocks'
<1> DEFINE t == [s EXCEPT !.up = Append(s.up, c)]
           U == Upward(s.bot)'
<1>1. /\ s \in SockSet /\ s.up \in Seq(U) /\ s.down \in Seq(Downward(s.bot)')
      /\ s.echo # 0 => FromUser(s.echo)' /\ hist'[s.echo].bot = s.bot
  BY SockParts
<1>2. c \in U /\ c \in Cids /\ s.up \in Seq(Cids)
  BY <1>1, SubTypes DEF SockSet
<1> HIDE DEF U
<1>3. Append(s.up, c) \in Seq(U) /\ Append(s.up, c) \in Seq(Cids)
  BY <1>1, <1>2
<1>4. t \in SockSet /\ t.bot = s.bot /\ t.up = Append(s.up, c) /\ t.down = s.down
      /\ t.echo = s.echo
  BY <1>1, <1>3 DEF SockSet
<1> HIDE DEF t
<1>5. t \in GoodSocks'
  BY <1>1, <1>3, <1>4, SockNext DEF U
<1> QED BY <1>5 DEF t

LEMMA SockPush ==
  ASSUME NEW s \in GoodSocks', NEW ms \in Seq(Downward(s.bot)')
  PROVE  [s EXCEPT !.down = s.down \o ms] \in GoodSocks'
<1> DEFINE t == [s EXCEPT !.down = s.down \o ms]
           D == Downward(s.bot)'
<1>1. /\ s \in SockSet /\ s.up \in Seq(Upward(s.bot)') /\ s.down \in Seq(D) /\ ms \in Seq(D)
      /\ s.echo # 0 => FromUser(s.echo)' /\ hist'[s.echo].bot = s.bot
  BY SockParts
<1>2. \A m \in D : m \in FrameSet
  BY SubTypes
<1> HIDE DEF D
<1>3. s.down \o ms \in Seq(D)
  BY <1>1
<1>4. s.down \o ms \in Seq(FrameSet)
  <2> DEFINE q == s.down \o ms
  <2>1. q \in Seq(D)
    BY <1>3
  <2> HIDE DEF q
  <2>2. q \in Seq(FrameSet)
    BY <2>1, <1>2
  <2> QED BY <2>2 DEF q
<1>5. t \in SockSet /\ t.bot = s.bot /\ t.up = s.up /\ t.down = s.down \o ms
      /\ t.echo = s.echo
  BY <1>1, <1>4 DEF SockSet
<1> HIDE DEF t
<1>6. t \in GoodSocks'
  BY <1>1, <1>3, <1>5, SockNext DEF D
<1> QED BY <1>6 DEF t

LEMMA SockState ==
  ASSUME NEW s \in GoodSocks', NEW st \in {"up", "stale", "dead", "gone"}
  PROVE  [s EXCEPT !.state = st] \in GoodSocks'
<1> DEFINE t == [s EXCEPT !.state = st]
<1>1. s \in SockSet
  BY SockParts
<1>2. t \in SockSet /\ t.bot = s.bot /\ t.up = s.up /\ t.down = s.down /\ t.echo = s.echo
  BY <1>1 DEF SockSet
<1> HIDE DEF t
<1>3. t \in GoodSocks'
  BY <1>2, SockParts, SockNext
<1> QED BY <1>3 DEF t

LEMMA SockCut ==
  ASSUME NEW s \in GoodSocks'
  PROVE  [s EXCEPT !.state = "stale", !.down = <<>>] \in GoodSocks'
<1> DEFINE t == [s EXCEPT !.state = "stale", !.down = <<>>]
<1>1. s \in SockSet
  BY SockParts
<1>2. t \in SockSet /\ t.bot = s.bot /\ t.up = s.up /\ t.down = <<>> /\ t.echo = s.echo
  <2>1. <<>> \in Seq(FrameSet)
    OBVIOUS
  <2> QED BY <1>1, <2>1 DEF SockSet
<1> HIDE DEF t
<1>3. t.down \in Seq(Downward(s.bot)')
  <2> DEFINE D == Downward(s.bot)'
  <2> HIDE DEF D
  <2>1. t.down \in Seq(D)
    BY <1>2
  <2> QED BY <2>1 DEF D
<1>4. t \in GoodSocks'
  BY <1>2, <1>3, SockParts, SockNext
<1> QED BY <1>4 DEF t

LEMMA SockGone ==
  ASSUME NEW s \in GoodSocks'
  PROVE  [s EXCEPT !.state = "gone", !.up = <<>>, !.echo = 0] \in GoodSocks'
<1> DEFINE t == [s EXCEPT !.state = "gone", !.up = <<>>, !.echo = 0]
<1>1. s \in SockSet
  BY SockParts
<1>2. t \in SockSet /\ t.bot = s.bot /\ t.up = <<>> /\ t.down = s.down /\ t.echo = 0
  <2>1. <<>> \in Seq(Cids) /\ 0 \in 0..MaxHub
    BY OwnerChatAssumption
  <2> QED BY <1>1, <2>1 DEF SockSet
<1> HIDE DEF t
<1>3. t.up \in Seq(Upward(s.bot)')
  <2> DEFINE U == Upward(s.bot)'
  <2> HIDE DEF U
  <2>1. t.up \in Seq(U)
    BY <1>2
  <2> QED BY <2>1 DEF U
<1>4. t \in GoodSocks'
  BY <1>2, <1>3, SockParts, SockNext
<1> QED BY <1>4 DEF t

LEMMA SockRead ==
  ASSUME NEW s \in GoodSocks', s.up # <<>>
  PROVE  [s EXCEPT !.up = Tail(s.up)] \in GoodSocks' /\ Head(s.up) \in Upward(s.bot)'
<1> DEFINE t == [s EXCEPT !.up = Tail(s.up)]
           U == Upward(s.bot)'
<1>1. /\ s \in SockSet /\ s.up \in Seq(U) /\ s.down \in Seq(Downward(s.bot)')
      /\ s.echo # 0 => FromUser(s.echo)' /\ hist'[s.echo].bot = s.bot
  BY SockParts
<1>2. s.up \in Seq(Cids)
  BY <1>1 DEF SockSet
<1> HIDE DEF U
<1>3. Tail(s.up) \in Seq(U) /\ Tail(s.up) \in Seq(Cids) /\ Head(s.up) \in U
  BY <1>1, <1>2
<1>4. t \in SockSet /\ t.bot = s.bot /\ t.up = Tail(s.up) /\ t.down = s.down
      /\ t.echo = s.echo
  BY <1>1, <1>3 DEF SockSet
<1> HIDE DEF t
<1>5. t \in GoodSocks'
  BY <1>1, <1>3, <1>4, SockNext DEF U
<1> QED BY <1>3, <1>5 DEF t, U

LEMMA SockSeen ==
  ASSUME NEW s \in GoodSocks', s.down # <<>>
  PROVE  [s EXCEPT !.down = Tail(s.down)] \in GoodSocks'
<1> DEFINE t == [s EXCEPT !.down = Tail(s.down)]
           D == Downward(s.bot)'
<1>1. /\ s \in SockSet /\ s.up \in Seq(Upward(s.bot)') /\ s.down \in Seq(D)
      /\ s.echo # 0 => FromUser(s.echo)' /\ hist'[s.echo].bot = s.bot
  BY SockParts
<1>2. s.down \in Seq(FrameSet)
  BY <1>1 DEF SockSet
<1> HIDE DEF D
<1>3. Tail(s.down) \in Seq(D) /\ Tail(s.down) \in Seq(FrameSet)
  BY <1>1, <1>2
<1>4. t \in SockSet /\ t.bot = s.bot /\ t.up = s.up /\ t.down = Tail(s.down)
      /\ t.echo = s.echo
  BY <1>1, <1>3 DEF SockSet
<1> HIDE DEF t
<1>5. t \in GoodSocks'
  BY <1>1, <1>3, <1>4, SockNext DEF D
<1> QED BY <1>5 DEF t

LEMMA SockEcho ==
  ASSUME NEW s \in GoodSocks', NEW i \in 0..MaxHub,
         i # 0 => FromUser(i)' /\ hist'[i].bot = s.bot
  PROVE  [s EXCEPT !.echo = i] \in GoodSocks'
<1> DEFINE t == [s EXCEPT !.echo = i]
<1>1. s \in SockSet
  BY SockParts
<1>2. t \in SockSet /\ t.bot = s.bot /\ t.up = s.up /\ t.down = s.down /\ t.echo = i
  BY <1>1 DEF SockSet
<1> HIDE DEF t
<1>3. t \in GoodSocks'
  BY <1>2, SockParts, SockNext
<1> QED BY <1>3 DEF t

\* One connection changes.
LEMMA SocksPut ==
  ASSUME NEW X, NEW ss \in Seq(X), NEW s \in DOMAIN ss, NEW v \in X
  PROVE  /\ [n \in DOMAIN ss |-> IF n = s THEN v ELSE ss[n]] \in Seq(X)
<1> DEFINE ts == [n \in DOMAIN ss |-> IF n = s THEN v ELSE ss[n]]
<1>1. Len(ss) \in Nat /\ DOMAIN ss = 1..Len(ss)
  OBVIOUS
<1>2. ts \in [1..Len(ss) -> X]
  BY <1>1
<1> HIDE DEF ts
<1>3. ts \in Seq(X)
  BY <1>1, <1>2
<1> QED BY <1>3 DEF ts

-----------------------------------------------------------------------------
(* What tells the outcome of a send *)

SentFor(c) == \E u \in uploads \cup posts : u.cid = c
Carried(s, c) == (\E n \in DOMAIN s.up : s.up[n] = c) \/ \E n \in DOMAIN s.down : s.down[n].cid = c
EchoFor(s, c) == s.echo # 0 /\ hist[s.echo].cid = c
KeptAs(c) == (socket # 0 /\ EchoFor(socks[socket], c)) \/ c \in overtaken

\* Of a connection s that becomes v: the echo that is due stays due, or is sent.
EchoKept(s, v) == v.echo = s.echo \/ \A c : EchoFor(s, c) => Carried(v, c)

\* An outcome is told by an upload or a POST or by the socket, is due to be
\* echoed, or was overtaken.
LEMMA ToldBy ==
  ASSUME NEW c \in Told
  PROVE  c \in Cids /\ (SentFor(c) \/ (socket # 0 /\ Carried(socks[socket], c)) \/ KeptAs(c))
BY DEF Told, Awaited, Connected, SentFor, Carried, KeptAs, EchoFor

LEMMA TellNext ==
  ASSUME NEW c \in Cids,
         SentFor(c)' \/ (socket' # 0 /\ Carried(socks'[socket'], c)) \/ KeptAs(c)'
  PROVE  c \in Told'
BY DEF Told, Awaited, Connected, SentFor, Carried, KeptAs, EchoFor

\* The outcome of a send is still on its way, unless it is in X.
LEMMA KeepTold ==
  ASSUME HubInv, WayInv, LinkInv, Grows, NEW X,
         \A c : c \notin X /\ SentFor(c) => SentFor(c)',
         \A c \in overtaken : c \in X \/ c \in overtaken',
         socket # 0 => /\ socket' = socket
                       /\ \A c : c \notin X /\ Carried(socks[socket], c) =>
                            Carried(socks'[socket], c) \/ KeptAs(c)'
                       /\ EchoKept(socks[socket], socks'[socket])
  PROVE  \A c \in Told : c \notin X => c \in Told'
<1> SUFFICES ASSUME NEW c \in Told, c \notin X PROVE c \in Told'
  OBVIOUS
<1>1. c \in Cids /\ (SentFor(c) \/ (socket # 0 /\ Carried(socks[socket], c)) \/ KeptAs(c))
  BY ToldBy
<1>2. CASE SentFor(c) \/ (socket # 0 /\ Carried(socks[socket], c))
  BY <1>1, <1>2, TellNext
<1>3. CASE c \in overtaken
  <2>1. KeptAs(c)'
    BY <1>3 DEF KeptAs
  <2> QED BY <1>1, <2>1, TellNext
<1>4. CASE socket # 0 /\ EchoFor(socks[socket], c)
  <2> DEFINE s == socks[socket]
             v == socks'[socket]
  <2>1. s \in GoodSocks /\ socket' = socket /\ EchoKept(s, v)
    BY <1>4 DEF WayInv, LinkInv
  <2>2. s.echo # 0 /\ s.echo \in Ids /\ hist[s.echo].cid = c
    BY <1>4, <2>1 DEF GoodSocks, SockOK, FromUser, EchoFor
  <2>3. hist'[s.echo].cid = c
    BY <2>2 DEF Grows
  <2>4. CASE v.echo = s.echo
    <3>1. EchoFor(socks[socket], c)'
      BY <2>1, <2>2, <2>3, <2>4 DEF EchoFor
    <3>2. KeptAs(c)'
      BY <1>4, <2>1, <3>1 DEF KeptAs
    <3> QED BY <1>1, <3>2, TellNext
  <2>5. CASE Carried(v, c)
    BY <1>1, <1>4, <2>1, <2>5, TellNext
  <2> QED BY <1>4, <2>1, <2>4, <2>5 DEF EchoKept
<1> QED BY <1>1, <1>2, <1>3, <1>4 DEF KeptAs

-----------------------------------------------------------------------------
(* The pane *)

\* The budget stays a budget.
LEMMA SpendLeft ==
  ASSUME left \in LeftSet,
         Spend("switches") \/ Spend("faults") \/ Spend("retries") \/ Spend("merges")
  PROVE  left' \in LeftSet
<1>1. CASE Spend("switches")
  BY <1>1 DEF Spend, LeftSet
<1>2. CASE Spend("faults")
  BY <1>2 DEF Spend, LeftSet
<1>3. CASE Spend("retries")
  BY <1>3 DEF Spend, LeftSet
<1>4. CASE Spend("merges")
  BY <1>4 DEF Spend, LeftSet
<1> QED BY <1>1, <1>2, <1>3, <1>4

\* Steps that leave what is stored and what was said alone.
LEMMA QuietGrows ==
  ASSUME HubInv, UNCHANGED <<hist, crossed, aim>>
  PROVE  Grows
BY StillGrows

LEMMA QuietHub ==
  ASSUME HubInv, Grows, UNCHANGED runs
  PROVE  HubInv'
BY KeepHub DEF runs, HubInv

\* The socket is closed.
LEMMA UnpluggedSocks ==
  ASSUME LinkInv, socks \in Seq(GoodSocks')
  PROVE  Unplugged(socket) \in Seq(GoodSocks')
<1>1. CASE socket = 0
  BY <1>1 DEF Unplugged
<1>2. CASE socket # 0
  <2> DEFINE G == GoodSocks'
             v == [socks[socket] EXCEPT !.state = "stale", !.down = <<>>]
  <2>1. socket \in DOMAIN socks /\ socks[socket] \in GoodSocks'
    BY <1>2 DEF LinkInv
  <2>2. v \in G
    BY <2>1, SockCut
  <2>3. Unplugged(socket) = [n \in DOMAIN socks |-> IF n = socket THEN v ELSE socks[n]]
    BY <1>2, <2>1 DEF Unplugged
  <2> HIDE DEF v, G
  <2>4. [n \in DOMAIN socks |-> IF n = socket THEN v ELSE socks[n]] \in Seq(G)
    BY <2>1, <2>2, SocksPut DEF G
  <2> QED BY <2>3, <2>4 DEF G
<1> QED BY <1>1, <1>2

\* The bot is changed: nothing of the old room is left in the list.
LEMMA SelectStep ==
  ASSUME ChatInv, NEW b \in Bots, Select(b)
  PROVE  ChatInv'
<1>0. PlaceInv /\ HubInv /\ RowsInv /\ LinkInv /\ WayInv
  BY DEF ChatInv
<1>1. /\ selected' = b /\ room' = NoBot /\ visit' = visit + 1 /\ rows' = <<>> /\ socket' = 0
      /\ socks' = Unplugged(socket) /\ fetches' = fetches /\ left' \in LeftSet
      /\ UNCHANGED <<uploads, aim, posts, crossed, overtaken>>
      /\ UNCHANGED <<hist, subs, fwd, dropped, cut>>
      /\ visit \in Nat /\ visit' \in Nat /\ visit' > visit
  <2>1. left' \in LeftSet
    BY <1>0, SpendLeft DEF Select, PlaceInv
  <2> QED BY <1>0, <2>1 DEF Select, PlaceInv, outgoing, runs
<1>2. Grows
  BY <1>0, <1>1, QuietGrows
<1>3. HubInv'
  BY <1>0, <1>1, <1>2, QuietHub DEF runs
<1>4. RowsInv'
  BY <1>1 DEF RowsInv, Solo
<1>5. /\ socks \in Seq(GoodSocks') /\ posts \subseteq GoodPosts'
      /\ uploads \subseteq GoodUploads' /\ fetches \subseteq GoodFetches'
      /\ fwd \subseteq GoodBlocks'
  BY <1>0, <1>1, <1>2, KeepWay
<1>6. WayInv'
  BY <1>0, <1>1, <1>5, UnpluggedSocks DEF WayInv
<1>7. PlaceInv' /\ LinkInv'
  BY <1>0, <1>1 DEF PlaceInv, LinkInv
<1> QED BY <1>3, <1>4, <1>6, <1>7 DEF ChatInv

\* A request that the store makes for its room.
LEMMA FetchGood ==
  ASSUME NEW kind \in {"load", "reconcile", "merge"}, NEW after \in Int, MaxHub \in Nat,
         room' \in Bots, visit' \in Nat, Len(hist') \in Nat
  PROVE  Fetch(kind, room', visit', after, 0) \in GoodFetches'
<1> DEFINE f == Fetch(kind, room', visit', after, 0)
<1>1. f \in FetchSet /\ f.kind = kind /\ f.bot = room' /\ f.visit = visit' /\ f.trace = 0
      /\ f.upto = -1 /\ f.data = {}
  BY DEF Fetch, FetchSet
<1> HIDE DEF f
<1>2. f \in GoodFetches'
  BY <1>1 DEF GoodFetches, FetchOK
<1> QED BY <1>2 DEF f

\* The room is opened: requests of an earlier visit no longer count.
LEMMA OpenStep ==
  ASSUME ChatInv, Open
  PROVE  ChatInv'
<1>0. PlaceInv /\ HubInv /\ RowsInv /\ LinkInv /\ WayInv
  BY DEF ChatInv
<1>1. /\ room = NoBot /\ room' = selected /\ visit' = visit + 1
      /\ fetches' = fetches \cup {Fetch("load", room', visit', 0, 0)}
      /\ UNCHANGED <<selected, rows, socket, socks, left>>
      /\ UNCHANGED <<uploads, aim, posts, crossed, overtaken>>
      /\ UNCHANGED <<hist, subs, fwd, dropped, cut>>
      /\ visit \in Nat /\ visit' \in Nat /\ visit' > visit
  BY <1>0 DEF Open, PlaceInv, outgoing, runs
<1>2. Grows
  BY <1>0, <1>1, QuietGrows
<1>3. HubInv'
  BY <1>0, <1>1, <1>2, QuietHub DEF runs
<1>4. rows = <<>>
  <2>1. rows \in Seq(Fit(Told)) /\ \A k \in DOMAIN rows : RowOK(rows[k])
    BY <1>0 DEF RowsInv, Fit
  <2>2. \A k \in DOMAIN rows : FALSE
    BY <2>1, <1>1, OwnerChatAssumption DEF RowOK
  <2> QED BY <2>1, <2>2
<1>5. RowsInv'
  BY <1>1, <1>4 DEF RowsInv, Solo
<1>6. /\ socks \in Seq(GoodSocks') /\ posts \subseteq GoodPosts'
      /\ uploads \subseteq GoodUploads' /\ fetches \subseteq GoodFetches'
      /\ fwd \subseteq GoodBlocks'
  BY <1>0, <1>1, <1>2, KeepWay
<1>7. Fetch("load", room', visit', 0, 0) \in GoodFetches'
  <2>1. room' \in Bots /\ Len(hist') \in Nat /\ MaxHub \in Nat
    BY <1>0, <1>1, HubFacts DEF PlaceInv
  <2> QED BY <1>1, <2>1, FetchGood
<1>8. WayInv'
  BY <1>1, <1>6, <1>7 DEF WayInv
<1>9. PlaceInv' /\ LinkInv'
  BY <1>0, <1>1 DEF PlaceInv, LinkInv
<1> QED BY <1>3, <1>5, <1>8, <1>9 DEF ChatInv

\* The cursor of a request is a number.
LEMMA NewestInt ==
  ASSUME RowsInv
  PROVE  /\ Newest(LAMBDA r : r.status # "failed") \in Int
         /\ Newest(LAMBDA r : TRUE) \in Int
<1>0. rows \in Seq(Fit(Told)) /\ Len(rows) \in Nat /\ DOMAIN rows = 1..Len(rows)
  BY DEF RowsInv
<1>1. \A k \in DOMAIN rows : rows[k].hub \in Int
  BY <1>0 DEF Fit, RowSet
<1>2. \A I \in SUBSET (DOMAIN rows) : I # {} => rows[Max(I)].hub \in Int
  BY <1>0, <1>1, MaxIn
<1> DEFINE I == {k \in DOMAIN rows : rows[k].hub # 0 /\ rows[k].status # "failed"}
           J == {k \in DOMAIN rows : rows[k].hub # 0 /\ TRUE}
<1>3. Newest(LAMBDA r : r.status # "failed") = (IF I = {} THEN 0 ELSE rows[Max(I)].hub)
      /\ Newest(LAMBDA r : TRUE) = (IF J = {} THEN 0 ELSE rows[Max(J)].hub)
  BY Zenon DEF Newest
<1>4. I \in SUBSET (DOMAIN rows) /\ J \in SUBSET (DOMAIN rows)
  OBVIOUS
<1> HIDE DEF I, J
<1> QED BY <1>2, <1>3, <1>4

\* A new connection has nothing to tell yet, and there was none before.
LEMMA ConnectStep ==
  ASSUME ChatInv, Connect
  PROVE  ChatInv'
<1>0. PlaceInv /\ HubInv /\ RowsInv /\ LinkInv /\ WayInv
  BY DEF ChatInv
<1> DEFINE v == [bot |-> room, state |-> "up", up |-> <<>>, echo |-> 0, down |-> <<>>]
           f == Fetch("reconcile", room, visit, Newest(LAMBDA r : r.status # "failed"), 0)
<1>1. /\ room # NoBot /\ socket = 0 /\ socks' = Append(socks, v) /\ socket' = Len(socks')
      /\ fetches' \subseteq fetches \cup {f}
      /\ UNCHANGED <<selected, room, visit, rows, left>>
      /\ UNCHANGED <<uploads, aim, posts, crossed, overtaken>>
      /\ UNCHANGED <<hist, subs, fwd, dropped, cut>>
      /\ visit \in Nat /\ visit' \in Nat /\ room \in Bots
  BY <1>0 DEF Connect, Connected, PlaceInv, outgoing, runs, place
<1>2. Grows
  BY <1>0, <1>1, QuietGrows
<1>3. HubInv'
  BY <1>0, <1>1, <1>2, QuietHub DEF runs
<1>4. RowsInv'
  <2>1. rows' \in Lists(Told)
    BY <1>0, <1>1, RowsAreLists
  <2>2. \A c \in Told : c \in Told'
    <3>1. \A c : SentFor(c) => SentFor(c)'
      BY <1>1 DEF SentFor
    <3> QED BY <1>0, <1>1, <1>2, <3>1, KeepTold DEF EchoKept
  <2> QED BY <1>1, <1>2, <2>1, <2>2, KeepList
<1>5. /\ socks \in Seq(GoodSocks') /\ posts \subseteq GoodPosts'
      /\ uploads \subseteq GoodUploads' /\ fetches \subseteq GoodFetches'
      /\ fwd \subseteq GoodBlocks'
  BY <1>0, <1>1, <1>2, KeepWay
<1>6. v \in GoodSocks'
  <2>1. v \in SockSet /\ v.bot = room /\ v.up = <<>> /\ v.down = <<>> /\ v.echo = 0
    <3>1. <<>> \in Seq(Cids) /\ <<>> \in Seq(FrameSet) /\ 0 \in 0..MaxHub
      BY OwnerChatAssumption
    <3> QED BY <1>1, <3>1 DEF SockSet
  <2> HIDE DEF v
  <2>2. \A X : v.up \in Seq(X) /\ v.down \in Seq(X)
    BY <2>1
  <2>3. \A U, D : v.up \in Seq(U) /\ v.down \in Seq(D)
    BY <2>2
  <2>4. \A b : v.up \in Seq(Upward(b)') /\ v.down \in Seq(Downward(b)')
    BY <2>3
  <2>5. \A x : x = v => x \in GoodSocks'
    BY <2>1, <2>4, SockNext
  <2> QED BY <2>5
<1>7. f \in GoodFetches'
  <2>1. room' \in Bots /\ Len(hist') \in Nat /\ MaxHub \in Nat
    BY <1>0, <1>1, HubFacts
  <2> DEFINE a == Newest(LAMBDA r : r.status # "failed")
  <2>2. a \in Int
    BY <1>0, NewestInt
  <2> HIDE DEF a
  <2>3. Fetch("reconcile", room', visit', a, 0) \in GoodFetches'
    BY <1>1, <2>1, <2>2, FetchGood
  <2> QED BY <1>1, <2>3 DEF a
<1> HIDE DEF v, f
<1>8. socks' \in Seq(GoodSocks') /\ socket' \in DOMAIN socks' /\ socks'[socket'] = v
  <2> DEFINE G == GoodSocks'
  <2>1. socks \in Seq(G) /\ v \in G
    BY <1>5, <1>6
  <2> HIDE DEF G
  <2>2. socks' \in Seq(G) /\ socket' \in DOMAIN socks' /\ socks'[socket'] = v
    BY <1>1, <2>1
  <2> QED BY <2>2 DEF G
<1>9. WayInv'
  BY <1>1, <1>5, <1>7, <1>8 DEF WayInv
<1>10. PlaceInv' /\ LinkInv'
  <2>1. socket' \in Nat
    BY <1>8
  <2>2. v.state = "up" /\ v.bot = room
    BY DEF v
  <2> QED BY <1>0, <1>1, <1>8, <2>1, <2>2 DEF PlaceInv, LinkInv
<1> QED BY <1>3, <1>4, <1>9, <1>10 DEF ChatInv

\* The connection is lost with what it carried, and so no row is being sent.
LEMMA DropStep ==
  ASSUME ChatInv, Drop
  PROVE  ChatInv'
<1>0. PlaceInv /\ HubInv /\ RowsInv /\ LinkInv /\ WayInv
  BY DEF ChatInv
<1>1. /\ rows' = Disconnected /\ socket' = 0
      /\ socks' = Unplugged(socket) /\ fetches' = fetches /\ left' \in LeftSet
      /\ UNCHANGED <<selected, room, visit>>
      /\ UNCHANGED <<uploads, aim, posts, crossed, overtaken>>
      /\ UNCHANGED <<hist, subs, fwd, dropped, cut>>
      /\ visit \in Nat /\ visit' \in Nat
  <2>1. left' \in LeftSet
    BY <1>0, SpendLeft DEF Drop, PlaceInv
  <2> QED BY <1>0, <2>1 DEF Drop, PlaceInv, outgoing, runs, place
<1>2. Grows
  BY <1>0, <1>1, QuietGrows
<1>3. HubInv'
  BY <1>0, <1>1, <1>2, QuietHub DEF runs
<1>4. RowsInv'
  <2>1. rows' \in Lists({})
    BY <1>0, <1>1, RowsAreLists, DisconnectedFit
  <2> QED BY <1>1, <1>2, <2>1, KeepList
<1>5. /\ socks \in Seq(GoodSocks') /\ posts \subseteq GoodPosts'
      /\ uploads \subseteq GoodUploads' /\ fetches \subseteq GoodFetches'
      /\ fwd \subseteq GoodBlocks'
  BY <1>0, <1>1, <1>2, KeepWay
<1>6. WayInv'
  BY <1>0, <1>1, <1>5, UnpluggedSocks DEF WayInv
<1>7. PlaceInv' /\ LinkInv'
  BY <1>0, <1>1 DEF PlaceInv, LinkInv
<1> QED BY <1>3, <1>4, <1>6, <1>7 DEF ChatInv

-----------------------------------------------------------------------------
(* Requests of the pane *)

\* A step that changes only the list and the requests.
LEMMA QuietStep ==
  ASSUME ChatInv, UNCHANGED <<selected, room, visit, socket, socks>>,
         UNCHANGED <<uploads, aim, posts, crossed, overtaken>>,
         UNCHANGED <<hist, subs, fwd, dropped, cut>>, left' \in LeftSet,
         rows' \in Lists(Told), fetches' \subseteq GoodFetches'
  PROVE  ChatInv'
<1>0. PlaceInv /\ HubInv /\ RowsInv /\ LinkInv /\ WayInv
  BY DEF ChatInv
<1>1. visit \in Nat /\ visit' \in Nat /\ visit' = visit /\ room' = room
  BY <1>0 DEF PlaceInv
<1>2. Grows
  BY <1>0, QuietGrows
<1>3. HubInv'
  BY <1>0, <1>2, QuietHub DEF runs
<1>4. RowsInv'
  <2>1. \A c \in Told : c \in Told'
    <3>1. \A c : SentFor(c) => SentFor(c)'
      BY DEF SentFor
    <3> QED BY <1>0, <1>2, <3>1, KeepTold DEF EchoKept
  <2> QED BY <1>1, <1>2, <2>1, KeepList
<1>5. /\ socks \in Seq(GoodSocks') /\ posts \subseteq GoodPosts'
      /\ uploads \subseteq GoodUploads' /\ fwd \subseteq GoodBlocks'
  BY <1>0, <1>1, <1>2, KeepWay
<1>6. WayInv'
  BY <1>5 DEF WayInv
<1>7. PlaceInv' /\ LinkInv'
  BY <1>0 DEF PlaceInv, LinkInv
<1> QED BY <1>3, <1>4, <1>6, <1>7 DEF ChatInv

\* The requests that are out stay good in such a step.
LEMMA QuietFetches ==
  ASSUME ChatInv, UNCHANGED <<room, visit, hist, crossed, aim>>
  PROVE  fetches \subseteq GoodFetches'
<1>0. HubInv /\ WayInv /\ visit \in Nat
  BY DEF ChatInv, PlaceInv
<1>1. Grows
  BY <1>0, QuietGrows
<1> QED BY <1>0, <1>1, KeepWay

\* A request more, of this visit.
LEMMA RealtimeEventStep ==
  ASSUME ChatInv, RealtimeEvent
  PROVE  ChatInv'
<1>0. PlaceInv /\ HubInv /\ RowsInv
  BY DEF ChatInv
<1> DEFINE a == Newest(LAMBDA r : TRUE)
<1>1. /\ room # NoBot /\ room \in Bots /\ visit \in Nat
      /\ fetches' = fetches \cup {Fetch("merge", room, visit, a, 0)}
      /\ UNCHANGED <<selected, room, visit, rows, socket, socks>>
      /\ UNCHANGED <<uploads, aim, posts, crossed, overtaken>>
      /\ UNCHANGED <<hist, subs, fwd, dropped, cut>>
  BY <1>0 DEF RealtimeEvent, PlaceInv, outgoing, runs, place
<1>2. left' \in LeftSet
  BY <1>0, SpendLeft DEF RealtimeEvent, PlaceInv
<1>3. a \in Int
  BY <1>0, NewestInt
<1> HIDE DEF a
<1>4. Fetch("merge", room', visit', a, 0) \in GoodFetches'
  <2>1. room' \in Bots /\ Len(hist') \in Nat /\ MaxHub \in Nat /\ visit' \in Nat
    BY <1>0, <1>1, HubFacts
  <2> QED BY <1>3, <2>1, FetchGood
<1>5. fetches' \subseteq GoodFetches'
  BY <1>1, <1>4, QuietFetches
<1>6. rows' \in Lists(Told)
  BY <1>0, <1>1, RowsAreLists
<1> QED BY <1>1, <1>2, <1>5, <1>6, QuietStep

\* The hub answers: failed are messages of the owner.
LEMMA ServeStep ==
  ASSUME ChatInv, NEW f \in fetches, Serve(f)
  PROVE  ChatInv'
<1>0. PlaceInv /\ HubInv /\ RowsInv /\ WayInv
  BY DEF ChatInv
<1> DEFINE failed == {i \in Ids : hist[i].state = "failed"}
           blocks == IF hist[f.trace].run = "running" THEN hist[f.trace].blocks ELSE {}
           d == IF f.trace = 0 THEN failed ELSE blocks
           g == [f EXCEPT !.upto = Len(hist), !.data = d]
<1>1. /\ fetches' = (fetches \ {f}) \cup {g}
      /\ UNCHANGED <<selected, room, visit, rows, socket, socks, left>>
      /\ UNCHANGED <<uploads, aim, posts, crossed, overtaken>>
      /\ UNCHANGED <<hist, subs, fwd, dropped, cut>>
  BY DEF Serve, outgoing, runs, place
<1>2. f \in FetchSet /\ FetchOK(f)
  BY <1>0 DEF WayInv, GoodFetches
<1>3. d \in SUBSET Nat
  <2>1. CASE f.trace = 0
    BY <2>1, <1>0, HubFacts
  <2>2. CASE f.trace # 0
    <3>1. f.trace \in Ids
      <4>1. f.kind = "restore"
        BY <2>2, <1>2 DEF FetchOK
      <4> QED BY <4>1, <1>2 DEF FetchOK, FromUser
    <3>2. hist[f.trace].blocks \in SUBSET Nat
      BY <3>1, <1>0, HubFacts DEF MsgSet
    <3> QED BY <2>2, <3>2
  <2> QED BY <2>1, <2>2
<1>4. f.trace = 0 => \A i \in d : FromUser(i)
  BY <1>0, HubFacts DEF MsgOK, FromUser, MsgSet
<1>5. f.trace # 0 => (hist[f.trace].run = "none" => d = {})
  OBVIOUS
<1>6. Len(hist) \in Nat
  BY <1>0, HubFacts
<1> HIDE DEF d
<1>7. g \in FetchSet /\ g.kind = f.kind /\ g.bot = f.bot /\ g.visit = f.visit /\ g.trace = f.trace
      /\ g.upto = Len(hist) /\ g.data = d
  <2> DEFINE n == Len(hist)
  <2>1. n \in Int /\ d \in SUBSET Nat
    BY <1>3, <1>6
  <2> HIDE DEF n
  <2>2. g = [f EXCEPT !.upto = n, !.data = d]
    BY DEF n
  <2> HIDE DEF g
  <2>3. g.kind = f.kind /\ g.bot = f.bot /\ g.visit = f.visit /\ g.trace = f.trace
        /\ g.upto = n /\ g.data = d
    BY <1>2, <2>2 DEF FetchSet
  <2>4. g \in FetchSet
    BY <1>2, <2>1, <2>2 DEF FetchSet
  <2> QED BY <2>3, <2>4 DEF n
<1> HIDE DEF g
<1>8. FetchOK(g)
  <2>1. f.kind = "restore" => f.trace # 0
    BY <1>2, <1>0, HubFacts DEF FetchOK, FromUser
  <2> QED BY <1>2, <1>4, <1>5, <1>6, <1>7, <2>1 DEF FetchOK
<1>9. g \in GoodFetches'
  <2>1. g \in GoodFetches
    BY <1>7, <1>8 DEF GoodFetches
  <2>2. Grows
    BY <1>0, <1>1, QuietGrows
  <2> QED BY <1>0, <1>1, <2>1, <2>2, KeepFetches DEF PlaceInv
<1>10. fetches' \subseteq GoodFetches'
  BY <1>1, <1>9, QuietFetches
<1>11. rows' \in Lists(Told) /\ left' \in LeftSet
  BY <1>0, <1>1, RowsAreLists DEF PlaceInv
<1> QED BY <1>1, <1>10, <1>11, QuietStep

\* restoreActiveRuns asks for runs of this room.
LEMMA RestoresGood ==
  ASSUME HubInv, PlaceInv, NEW O, NEW rs \in Lists(O)
  PROVE  Restores(rs) \subseteq GoodFetches
<1> SUFFICES ASSUME NEW f \in Restores(rs) PROVE f \in GoodFetches
  OBVIOUS
<1>1. PICK k \in DOMAIN rs : /\ rs[k].from = "user" /\ rs[k].status \in {"confirmed", "delivered"}
                             /\ f = Fetch("restore", room, visit, 0, rs[k].hub)
  BY DEF Restores
<1> DEFINE t == rs[k].hub
<1>2. rs[k] \in RowSet /\ RowOK(rs[k])
  BY ListRow
<1>3. t > 0 /\ t \in Int
  <2>1. t \in Int
    BY <1>2 DEF RowSet
  <2>2. rs[k].status = "confirmed" => t \in Ids
    BY <1>2 DEF RowOK, FromUser
  <2>3. rs[k].status = "delivered" => t > 0
    BY <1>1, <1>2 DEF RowOK
  <2> QED BY <1>1, <2>1, <2>2, <2>3 DEF Ids
<1>4. t \in Ids /\ hist[t].from = "user" /\ (hist[t].bot = room \/ hist[t].run = "none")
      /\ room \in Bots
  BY <1>1, <1>2, <1>3 DEF RowOK
<1>5. t \in 0..MaxHub /\ Len(hist) \in Nat /\ visit \in Nat
  BY <1>4, HubFacts DEF PlaceInv
<1> HIDE DEF t
<1>6. f \in FetchSet /\ f.kind = "restore" /\ f.bot = room /\ f.visit = visit /\ f.trace = t
      /\ f.upto = -1 /\ f.data = {}
  <2>1. f = Fetch("restore", room, visit, 0, t)
    BY <1>1 DEF t
  <2> QED BY <2>1, <1>4, <1>5 DEF Fetch, FetchSet
<1>7. FetchOK(f)
  BY <1>4, <1>5, <1>6 DEF FetchOK, FromUser
<1> QED BY <1>6, <1>7 DEF GoodFetches

LEMMA GoodStays ==
  ASSUME ChatInv, UNCHANGED <<room, visit, hist, crossed, aim>>
  PROVE  \A f \in GoodFetches : f \in GoodFetches'
<1>0. HubInv /\ visit \in Nat
  BY DEF ChatInv, PlaceInv
<1>1. Grows
  BY <1>0, QuietGrows
<1> QED BY <1>0, <1>1, KeepFetches

\* A request fails.
LEMMA LostStep ==
  ASSUME ChatInv, NEW f \in fetches, Lost(f)
  PROVE  ChatInv'
<1>0. PlaceInv /\ HubInv /\ RowsInv /\ WayInv
  BY DEF ChatInv
<1>1. /\ fetches' \subseteq fetches \cup Restores(rows)
      /\ UNCHANGED <<selected, room, visit, rows, socket, socks>>
      /\ UNCHANGED <<uploads, aim, posts, crossed, overtaken>>
      /\ UNCHANGED <<hist, subs, fwd, dropped, cut>>
  BY DEF Lost, outgoing, runs, place
<1>2. left' \in LeftSet
  BY <1>0, SpendLeft DEF Lost, PlaceInv
<1>3. rows \in Lists(Told)
  BY <1>0, RowsAreLists
<1>4. fetches' \subseteq GoodFetches
  BY <1>0, <1>1, <1>3, RestoresGood DEF WayInv
<1>5. fetches' \subseteq GoodFetches'
  BY <1>1, <1>4, GoodStays
<1> QED BY <1>1, <1>2, <1>3, <1>5, QuietStep

\* An answer is applied, if it is of this room.
LEMMA ApplyStep ==
  ASSUME ChatInv, NEW f \in fetches, Apply(f)
  PROVE  ChatInv'
<1>0. PlaceInv /\ HubInv /\ RowsInv /\ WayInv
  BY DEF ChatInv
<1>1. /\ f.upto # -1
      /\ fetches' = (fetches \ {f}) \cup (IF Wanted(f) /\ f.kind = "load" THEN Restores(rows') ELSE {})
      /\ UNCHANGED <<selected, room, visit, socket, socks, left>>
      /\ UNCHANGED <<uploads, aim, posts, crossed, overtaken>>
      /\ UNCHANGED <<hist, subs, fwd, dropped, cut>>
  BY DEF Apply, outgoing, runs, place
<1>2. f \in FetchSet /\ FetchOK(f)
  BY <1>0 DEF WayInv, GoodFetches
<1>3. rows \in Lists(Told)
  BY <1>0, RowsAreLists
<1>4. f.upto \in 0..Len(hist) /\ f.bot \in Bots
  BY <1>0, <1>1, <1>2, HubFacts DEF FetchSet, FetchOK
<1>5. f.kind # "restore" /\ f.bot = room => Served(f)
  BY <1>2, <1>4 DEF FetchOK, Served
<1>6. rows' \in Lists(Told)
  <2>1. CASE ~Wanted(f)
    BY <2>1, <1>3 DEF Apply
  <2>2. CASE Wanted(f) /\ f.kind = "load"
    <3>1. Served(f)
      BY <2>2, <1>2, <1>5 DEF Wanted, FetchOK
    <3>2. rows' = ApplyHistory(f)
      BY <2>2 DEF Apply
    <3> QED BY <3>1, <3>2, <1>0, <1>3, ApplyHistoryFit
  <2>3. CASE Wanted(f) /\ f.kind = "reconcile"
    <3>1. Served(f)
      BY <2>3, <1>2, <1>5 DEF Wanted, FetchOK
    <3>2. rows' = Reconciled(f)
      BY <2>3 DEF Apply
    <3> QED BY <3>1, <3>2, <1>0, <1>3, ReconciledFit
  <2>4. CASE Wanted(f) /\ f.kind = "merge"
    <3>1. Served(f)
      BY <2>4, <1>2, <1>5 DEF Wanted
    <3>2. rows' = MergeApi(f)
      BY <2>4 DEF Apply
    <3> QED BY <3>1, <3>2, <1>0, <1>3, MergeApiFit
  <2>5. CASE Wanted(f) /\ f.kind = "restore"
    <3>1. f.visit = visit /\ f.data # {}
      BY <2>5 DEF Wanted
    <3>2. FromUser(f.trace) /\ hist[f.trace].bot = room /\ room \in Bots /\ f.data \in SUBSET Nat
      BY <2>5, <3>1, <1>2, <1>4 DEF FetchOK, FetchSet
    <3>3. rows' = WithBlocks(f.trace, f.data)
      BY <2>5 DEF Apply
    <3> QED BY <3>2, <3>3, <1>0, <1>3, WithBlocksFit
  <2>6. f.kind \in {"load", "reconcile", "merge", "restore"}
    BY <1>2 DEF FetchSet
  <2> QED BY <2>1, <2>2, <2>3, <2>4, <2>5, <2>6
<1>7. Restores(rows') \subseteq GoodFetches
  BY <1>0, <1>6, RestoresGood
<1>8. fetches' \subseteq GoodFetches'
  <2>1. fetches' \subseteq GoodFetches
    BY <1>0, <1>1, <1>7 DEF WayInv
  <2> QED BY <1>1, <2>1, GoodStays
<1> QED BY <1>0, <1>1, <1>6, <1>8, QuietStep DEF PlaceInv

-----------------------------------------------------------------------------
(* Sends *)

\* A send goes its way: the socket, or a POST, will tell its outcome.
LEMMA TransmitGood ==
  ASSUME HubInv, LinkInv, WayInv, Grows, visit \in Nat, visit' = visit, room' = room,
         socket' = socket, left' \in LeftSet, NEW c \in Cids, NEW b \in Bots, NEW w, NEW rs,
         User(c)', Meant(c, b)', Transmit(rs, c, b, w)
  PROVE  /\ posts' \subseteq GoodPosts' /\ posts \subseteq posts'
         /\ socks' \in Seq(GoodSocks')
         /\ socket # 0 => /\ socket \in DOMAIN socks' /\ socks'[socket].state = "up"
                          /\ socks'[socket].bot = room
                          /\ \A x : Carried(socks[socket], x) => Carried(socks'[socket], x)
                          /\ EchoKept(socks[socket], socks'[socket])
         /\ c \in Told'
<1>1. socks \in Seq(GoodSocks') /\ posts \subseteq GoodPosts'
  BY KeepWay
<1>2. CASE w /\ Connected
  <2> DEFINE v == [socks[socket] EXCEPT !.up = Append(socks[socket].up, c)]
             G == GoodSocks'
  <2>1. socket # 0 /\ socket \in DOMAIN socks /\ socks[socket] \in GoodSocks'
        /\ socks[socket].state = "up" /\ socks[socket].bot = room
    BY <1>1, <1>2 DEF LinkInv, Connected
  <2>2. socks' = [n \in DOMAIN socks |-> IF n = socket THEN v ELSE socks[n]] /\ posts' = posts
        /\ crossed' = IF socks[socket].bot = b THEN crossed ELSE crossed \cup {c}
    BY <1>2, <2>1 DEF Transmit
  <2>3. \A x : x = socks[socket].bot => c \in Upward(x)'
    <3>1. socks[socket].bot = b \/ c \in crossed'
      BY <2>2
    <3>2. \A x : x = socks[socket].bot => Meant(c, x)'
      BY <3>1 DEF Meant
    <3> QED BY <3>2 DEF Upward
  <2>4. v \in G
    <3> DEFINE s == socks[socket]
    <3>1. \A x : x = s => [x EXCEPT !.up = Append(x.up, c)] \in GoodSocks'
      BY <2>1, <2>3, SockUp
    <3> QED BY <3>1
  <2>5. v.state = "up" /\ v.bot = room /\ v.down = socks[socket].down
        /\ v.up = Append(socks[socket].up, c) /\ socks[socket].up \in Seq(Cids)
        /\ v.echo = socks[socket].echo
    <3>1. socks[socket] \in SockSet
      BY <2>1, SockParts
    <3> QED BY <2>1, <3>1 DEF SockSet
  <2> HIDE DEF v
  <2>6. socks' \in Seq(GoodSocks')
    <3> HIDE DEF G
    <3>1. [n \in DOMAIN socks |-> IF n = socket THEN v ELSE socks[n]] \in Seq(G)
      BY <1>1, <2>1, <2>4, SocksPut DEF G
    <3> QED BY <2>2, <3>1 DEF G
  <2>7. socket \in DOMAIN socks' /\ socks'[socket] = v
    BY <2>1, <2>2
  <2>8. \A x : Carried(socks[socket], x) => Carried(v, x)
    <3> DEFINE up == socks[socket].up
    <3>1. \A n \in DOMAIN up : n \in DOMAIN v.up /\ v.up[n] = up[n]
      BY <2>5
    <3> QED BY <2>5, <3>1 DEF Carried
  <2>9. Carried(v, c)
    <3> DEFINE up == socks[socket].up
    <3>1. Len(up) + 1 \in DOMAIN v.up /\ v.up[Len(up) + 1] = c
      BY <2>5
    <3> QED BY <3>1 DEF Carried
  <2>10. c \in Told'
    BY <2>1, <2>7, <2>9, TellNext
  <2> QED BY <1>1, <2>1, <2>2, <2>5, <2>6, <2>7, <2>8, <2>10 DEF EchoKept
<1>3. CASE ~(w /\ Connected)
  <2> DEFINE p == [cid |-> c, bot |-> b, try |-> left'.retries, hub |-> 0]
  <2>1. posts' = posts \cup {p} /\ socks' = socks
    BY <1>3 DEF Transmit
  <2>2. p \in PostSet /\ p.cid = c /\ p.bot = b /\ p.hub = 0
    <3>1. left'.retries \in Nat /\ 0 \in 0..MaxHub
      BY OwnerChatAssumption DEF LeftSet
    <3> QED BY <3>1 DEF PostSet
  <2> HIDE DEF p
  <2>3. \A x : x = p => x \in GoodPosts'
    BY <2>2 DEF GoodPosts, PostOK
  <2>4. SentFor(c)'
    BY <2>1, <2>2 DEF SentFor
  <2>5. c \in Told'
    BY <2>4, TellNext
  <2>6. posts' \subseteq GoodPosts' /\ posts \subseteq posts'
    BY <1>1, <2>1, <2>3
  <2>7. socks' \in Seq(GoodSocks')
    BY <1>1, <2>1
  <2>8. socket # 0 => /\ socket \in DOMAIN socks' /\ socks'[socket].state = "up"
                      /\ socks'[socket].bot = room
                      /\ \A x : Carried(socks[socket], x) => Carried(socks'[socket], x)
                      /\ EchoKept(socks[socket], socks'[socket])
    BY <2>1 DEF LinkInv, EchoKept
  <2> QED BY <2>5, <2>6, <2>7, <2>8
<1> QED BY <1>2, <1>3

\* The same with files: the upload will.
LEMMA SubmitGood ==
  ASSUME HubInv, LinkInv, WayInv, Grows, visit \in Nat, visit' = visit, room' = room,
         socket' = socket, left' \in LeftSet, NEW c \in Cids, room \in Bots, NEW rs, NEW files,
         User(c)', \A b : b = room => Meant(c, b)', Submit(rs, c, files)
  PROVE  /\ posts' \subseteq GoodPosts' /\ posts \subseteq posts'
         /\ uploads' \subseteq GoodUploads' /\ uploads \subseteq uploads'
         /\ socks' \in Seq(GoodSocks')
         /\ socket # 0 => /\ socket \in DOMAIN socks' /\ socks'[socket].state = "up"
                          /\ socks'[socket].bot = room
                          /\ \A x : Carried(socks[socket], x) => Carried(socks'[socket], x)
                          /\ EchoKept(socks[socket], socks'[socket])
         /\ c \in Told'
         /\ rows' = rs
<1>1. socks \in Seq(GoodSocks') /\ posts \subseteq GoodPosts' /\ uploads \subseteq GoodUploads'
  BY KeepWay
<1>2. CASE files
  <2> DEFINE u == [cid |-> c, bot |-> room, connected |-> Connected, try |-> left'.retries]
  <2>1. uploads' = uploads \cup {u} /\ rows' = rs /\ posts' = posts /\ socks' = socks
    BY <1>2 DEF Submit
  <2>2. u \in UploadSet /\ u.cid = c /\ u.bot = room
    <3>1. left'.retries \in Nat
      BY DEF LeftSet
    <3>2. Connected \in BOOLEAN
      BY DEF Connected
    <3> DEFINE con == Connected
               try == left'.retries
    <3>3. con \in BOOLEAN /\ try \in Nat
      BY <3>1, <3>2
    <3> HIDE DEF con, try
    <3>4. [cid |-> c, bot |-> room, connected |-> con, try |-> try] \in UploadSet
      BY <3>3 DEF UploadSet
    <3> QED BY <3>4 DEF con, try
  <2> HIDE DEF u
  <2>3. \A x : x = u => x \in GoodUploads'
    BY <2>2 DEF GoodUploads
  <2>4. SentFor(c)'
    BY <2>1, <2>2 DEF SentFor
  <2>5. c \in Told'
    BY <2>4, TellNext
  <2>6. uploads' \subseteq GoodUploads' /\ uploads \subseteq uploads'
    BY <1>1, <2>1, <2>3
  <2>7. socks' \in Seq(GoodSocks') /\ posts' \subseteq GoodPosts' /\ posts \subseteq posts'
    BY <1>1, <2>1
  <2>8. socket # 0 => /\ socket \in DOMAIN socks' /\ socks'[socket].state = "up"
                      /\ socks'[socket].bot = room
                      /\ \A x : Carried(socks[socket], x) => Carried(socks'[socket], x)
                      /\ EchoKept(socks[socket], socks'[socket])
    BY <2>1 DEF LinkInv, EchoKept
  <2> QED BY <2>1, <2>5, <2>6, <2>7, <2>8
<1>3. CASE ~files
  <2>1. Transmit(rs, c, room, Connected) /\ uploads' = uploads
    BY <1>3 DEF Submit
  <2>2. rows' = rs
    BY <2>1 DEF Transmit
  <2>3. \A b : b = room => Transmit(rs, c, b, Connected)
    BY <2>1
  <2>4. /\ posts' \subseteq GoodPosts' /\ posts \subseteq posts'
        /\ socks' \in Seq(GoodSocks')
        /\ socket # 0 => /\ socket \in DOMAIN socks' /\ socks'[socket].state = "up"
                         /\ socks'[socket].bot = room
                         /\ \A x : Carried(socks[socket], x) => Carried(socks'[socket], x)
                         /\ EchoKept(socks[socket], socks'[socket])
        /\ c \in Told'
    <3> DEFINE b == room
    <3>1. b \in Bots /\ Transmit(rs, c, b, Connected)
      BY <2>1
    <3>2. \A x : x = b => Meant(c, x)'
      OBVIOUS
    <3> DEFINE con == Connected
    <3> HIDE DEF con
    <3>3. \A x \in Bots : Meant(c, x)' /\ Transmit(rs, c, x, con) =>
             /\ posts' \subseteq GoodPosts' /\ posts \subseteq posts'
             /\ socks' \in Seq(GoodSocks')
             /\ socket # 0 => /\ socket \in DOMAIN socks' /\ socks'[socket].state = "up"
                              /\ socks'[socket].bot = room
                              /\ \A y : Carried(socks[socket], y) => Carried(socks'[socket], y)
                              /\ EchoKept(socks[socket], socks'[socket])
             /\ c \in Told'
      BY TransmitGood
    <3> QED BY <3>1, <3>2, <3>3 DEF con
  <2> QED BY <1>1, <2>1, <2>2, <2>4
<1> QED BY <1>2, <1>3

\* A step of the pane that stores nothing in the hub.
LEMMA PaneStep ==
  ASSUME ChatInv, Grows, UNCHANGED <<selected, room, visit, socket, fetches>>,
         UNCHANGED <<hist, subs, fwd, dropped, cut>>,
         aim' \in [Sends -> Bots \cup {NoBot}], left' \in LeftSet, RowsInv',
         posts' \subseteq GoodPosts', uploads' \subseteq GoodUploads', socks' \in Seq(GoodSocks'),
         socket # 0 => /\ socket \in DOMAIN socks' /\ socks'[socket].state = "up"
                       /\ socks'[socket].bot = room
  PROVE  ChatInv'
<1>0. PlaceInv /\ HubInv /\ RowsInv /\ LinkInv /\ WayInv
  BY DEF ChatInv
<1>1. visit \in Nat /\ visit' \in Nat /\ visit' = visit /\ room' = room
  BY <1>0 DEF PlaceInv
<1>2. HubInv'
  BY <1>0, QuietHub DEF runs
<1>3. fetches \subseteq GoodFetches' /\ fwd \subseteq GoodBlocks'
  BY <1>0, <1>1, KeepWay
<1>4. WayInv'
  BY <1>3 DEF WayInv
<1>5. PlaceInv' /\ LinkInv'
  BY <1>0 DEF PlaceInv, LinkInv
<1> QED BY <1>2, <1>4, <1>5 DEF ChatInv

\* The list with one send more.
LEMMA KeepListAnd ==
  ASSUME Grows, room' = room, NEW O, NEW rs \in Lists(O), NEW r \in RowSet,
         r.from = "user", RowOK(r)', r.cid \in Told', rows' = Append(rs, r),
         \A c \in O : User(c) => c \in Told'
  PROVE  RowsInv'
<1>1. rs \in Seq(Fit(O)) /\ Solo(rs, Whole)
  BY DEF Lists
<1> DEFINE F == Fit(Told)'
<1>2. ASSUME NEW q \in Fit(O) PROVE q \in F
  <2>1. q \in RowSet /\ RowOK(q) /\ (q.status = "optimistic" => q.cid \in O)
    BY DEF Fit
  <2>2. RowOK(q)'
    BY <2>1, KeepRow
  <2>3. q.status = "optimistic" => q.cid \in Told'
    BY <2>1 DEF RowOK
  <2> QED BY <2>1, <2>2, <2>3 DEF Fit
<1>3. r \in F
  BY DEF Fit
<1> HIDE DEF F
<1>4. rs \in Seq(F)
  <2>1. \A k \in DOMAIN rs : rs[k] \in F
    BY <1>1, <1>2
  <2> QED BY <1>1, <2>1
<1>5. rows' \in Seq(F)
  BY <1>3, <1>4
<1>6. \A k \in DOMAIN rs : rs[k].from = "agent" /\ rs[k].trace \in Whole' => rs[k].trace \in Whole
  <2> SUFFICES ASSUME NEW k \in DOMAIN rs, rs[k].from = "agent", rs[k].trace \in Whole'
               PROVE  rs[k].trace \in Whole
    OBVIOUS
  <2>1. RowOK(rs[k])
    BY <1>1 DEF Fit
  <2>2. rs[k].trace \in Ids
    BY <2>1 DEF RowOK, FromUser
  <2> QED BY <2>2 DEF Whole, Grows
<1> DEFINE W == Whole'
<1>7. Solo(rs, W)
  BY <1>1, <1>6 DEF Solo
<1> HIDE DEF W
<1>8. Solo(Append(rs, r), W)
  BY <1>3, <1>4, <1>7, SoloAppend
<1>9. Solo(rows, Whole)'
  BY <1>8 DEF Solo, W
<1> QED BY <1>5, <1>9 DEF RowsInv, F

\* A row more is being sent.
LEMMA SendStep ==
  ASSUME ChatInv, NEW c \in Sends, Send(c)
  PROVE  ChatInv'
<1>0. PlaceInv /\ HubInv /\ RowsInv /\ LinkInv /\ WayInv
  BY DEF ChatInv
<1> DEFINE r == [Row("user", "optimistic", 0, 0) EXCEPT !.cid = c]
<1>1. /\ room # NoBot /\ aim[c] = NoBot /\ aim' = [aim EXCEPT ![c] = room] /\ left' = left
      /\ Submit(Append(rows, r), c, c \in left.files)
      /\ UNCHANGED <<selected, room, visit, socket, overtaken, fetches>>
      /\ UNCHANGED <<hist, subs, fwd, dropped, cut>>
      /\ visit \in Nat /\ room \in Bots /\ c \in Cids
  BY <1>0 DEF Send, PlaceInv, runs, place, Cids
<1>2. crossed \subseteq crossed'
  BY <1>1 DEF Submit, Transmit
<1>3. aim' \in [Sends -> Bots \cup {NoBot}] /\ aim'[c] = room
      /\ \A x \in Sends : aim[x] # NoBot => aim'[x] = aim[x]
  BY <1>0, <1>1 DEF PlaceInv
<1>4. Grows
  BY <1>0, <1>1, <1>2, <1>3, StillGrows
<1>5. User(c)' /\ \A b : b = room => Meant(c, b)'
  BY <1>3 DEF User, Meant, Owner
<1> HIDE DEF r
<1>6. /\ posts' \subseteq GoodPosts' /\ posts \subseteq posts'
      /\ uploads' \subseteq GoodUploads' /\ uploads \subseteq uploads'
      /\ socks' \in Seq(GoodSocks')
      /\ socket # 0 => /\ socket \in DOMAIN socks' /\ socks'[socket].state = "up"
                       /\ socks'[socket].bot = room
                       /\ \A x : Carried(socks[socket], x) => Carried(socks'[socket], x)
                       /\ EchoKept(socks[socket], socks'[socket])
      /\ c \in Told'
      /\ rows' = Append(rows, r)
  <2>1. left' \in LeftSet
    BY <1>0, <1>1 DEF PlaceInv
  <2> DEFINE rs == Append(rows, r)
             fs == c \in left.files
  <2>2. Submit(rs, c, fs)
    BY <1>1
  <2> HIDE DEF rs, fs
  <2>3. /\ posts' \subseteq GoodPosts' /\ posts \subseteq posts'
        /\ uploads' \subseteq GoodUploads' /\ uploads \subseteq uploads'
        /\ socks' \in Seq(GoodSocks')
        /\ socket # 0 => /\ socket \in DOMAIN socks' /\ socks'[socket].state = "up"
                         /\ socks'[socket].bot = room
                         /\ \A x : Carried(socks[socket], x) => Carried(socks'[socket], x)
                         /\ EchoKept(socks[socket], socks'[socket])
        /\ c \in Told'
        /\ rows' = rs
    BY <1>0, <1>1, <1>4, <1>5, <2>1, <2>2, SubmitGood
  <2> QED BY <2>3 DEF rs
<1>7. \A x \in Told : x \in Told'
  <2>1. \A x : SentFor(x) => SentFor(x)'
    BY <1>6 DEF SentFor
  <2> QED BY <1>0, <1>1, <1>4, <1>6, <2>1, KeepTold
<1>8. r \in RowSet /\ r.cid = c /\ r.hub = 0 /\ r.from = "user" /\ r.trace = 0
      /\ r.status = "optimistic"
  <2>1. Len(hist) \in 0..MaxHub /\ NoSend \in Cids /\ 0 \in 0..MaxHub
    BY <1>0, HubFacts, NamesApart DEF HubInv
  <2>2. Row("user", "optimistic", 0, 0) =
              [cid |-> NoSend, hub |-> 0, from |-> "user", status |-> "optimistic",
               lost |-> FALSE, trace |-> 0, blocks |-> {}, at |-> Len(hist)]
    BY Zenon DEF Row
  <2>3. r = [[cid |-> NoSend, hub |-> 0, from |-> "user", status |-> "optimistic",
              lost |-> FALSE, trace |-> 0, blocks |-> {}, at |-> Len(hist)] EXCEPT !.cid = c]
    BY Zenon, <2>2 DEF r
  <2>4. r = [cid |-> c, hub |-> 0, from |-> "user", status |-> "optimistic",
             lost |-> FALSE, trace |-> 0, blocks |-> {}, at |-> Len(hist)]
    BY <2>3
  <2> QED BY <1>1, <2>1, <2>4 DEF RowSet
<1>9. \A x : x = r => RowOK(x)'
  <2>1. Meant(c, room)' /\ room' \in Bots
    BY <1>1, <1>3 DEF Meant, Owner
  <2> QED BY <1>5, <1>8, <2>1 DEF RowOK
<1>10. RowsInv'
  <2>1. rows \in Lists(Told)
    BY <1>0, RowsAreLists
  <2>2. \A x \in RowSet : x.from = "user" /\ RowOK(x)' /\ x.cid \in Told' /\ rows' = Append(rows, x)
                           => RowsInv'
    BY <1>1, <1>4, <1>7, <2>1, KeepListAnd
  <2> QED BY <1>6, <1>8, <1>9, <2>2
<1> QED BY <1>0, <1>1, <1>3, <1>4, <1>6, <1>10, PaneStep DEF PlaceInv

\* A row is being sent again.
LEMMA RetryStep ==
  ASSUME ChatInv, NEW k \in DOMAIN rows, Retry(k)
  PROVE  ChatInv'
<1>0. PlaceInv /\ HubInv /\ RowsInv /\ LinkInv /\ WayInv
  BY DEF ChatInv
<1> DEFINE rs == [rows EXCEPT ![k].status = "optimistic", ![k].lost = FALSE]
           c == rows[k].cid
           fs == rows[k].hub = 0 /\ rows[k].cid \in left.files
<1>1. /\ rows[k].status = "failed" /\ Spend("retries") /\ Submit(rs, c, fs)
      /\ UNCHANGED <<selected, room, visit, socket, aim, fetches>>
      /\ UNCHANGED <<hist, subs, fwd, dropped, cut>> /\ visit \in Nat
      /\ overtaken' = overtaken \ {c}
  BY <1>0 DEF Retry, PlaceInv, runs, place
<1>2. left' \in LeftSet
  BY <1>0, <1>1, SpendLeft DEF PlaceInv
<1>3. rows \in Lists(Told)
  BY <1>0, RowsAreLists
<1>4. User(c) /\ Meant(c, room) /\ room \in Bots /\ c \in Cids
  <2>1. RowOK(rows[k]) /\ rows[k] \in RowSet
    BY <1>3, ListRow
  <2>2. rows[k].from = "user"
    BY <1>1, <2>1 DEF RowOK
  <2> QED BY <2>1, <2>2 DEF RowOK, RowSet
<1>5. rs \in Lists(Told \cup {c})
  BY <1>1, <1>3, RetriedFit
<1>6. crossed \subseteq crossed'
  BY <1>1 DEF Submit, Transmit
<1>7. Grows
  BY <1>0, <1>1, <1>6, StillGrows
<1> HIDE DEF rs, fs
<1>8. \A x : x = c => User(x)' /\ \A b : b = room => Meant(x, b)'
  BY <1>4, <1>7, KeepUser, KeepMeant
<1>9. /\ posts' \subseteq GoodPosts' /\ posts \subseteq posts'
      /\ uploads' \subseteq GoodUploads' /\ uploads \subseteq uploads'
      /\ socks' \in Seq(GoodSocks')
      /\ socket # 0 => /\ socket \in DOMAIN socks' /\ socks'[socket].state = "up"
                       /\ socks'[socket].bot = room
                       /\ \A x : Carried(socks[socket], x) => Carried(socks'[socket], x)
                       /\ EchoKept(socks[socket], socks'[socket])
      /\ c \in Told'
      /\ rows' = rs
  <2> HIDE DEF c
  <2>1. \A x \in Cids : User(x)' /\ (\A b : b = room => Meant(x, b)') /\ Submit(rs, x, fs) =>
          /\ posts' \subseteq GoodPosts' /\ posts \subseteq posts'
          /\ uploads' \subseteq GoodUploads' /\ uploads \subseteq uploads'
          /\ socks' \in Seq(GoodSocks')
          /\ socket # 0 => /\ socket \in DOMAIN socks' /\ socks'[socket].state = "up"
                           /\ socks'[socket].bot = room
                           /\ \A y : Carried(socks[socket], y) => Carried(socks'[socket], y)
                           /\ EchoKept(socks[socket], socks'[socket])
          /\ x \in Told'
          /\ rows' = rs
    BY <1>0, <1>1, <1>2, <1>4, <1>7, SubmitGood
  <2> QED BY <1>1, <1>4, <1>8, <2>1
<1>10. \A x \in Told : x \notin {c} => x \in Told'
  <2>1. \A x : SentFor(x) => SentFor(x)'
    BY <1>9 DEF SentFor
  <2> HIDE DEF c
  <2> QED BY <1>0, <1>1, <1>7, <1>9, <2>1, KeepTold
<1>11. RowsInv'
  <2> HIDE DEF c
  <2>1. rows' \in Lists(Told \cup {c})
    BY <1>5, <1>9
  <2>2. \A x \in Told \cup {c} : x \in Told'
    BY <1>9, <1>10
  <2> QED BY <1>1, <1>7, <2>1, <2>2, KeepList
<1> QED BY <1>0, <1>1, <1>2, <1>7, <1>9, <1>11, PaneStep DEF PlaceInv

\* The upload ends; what it stood for goes on, or the send has failed.
LEMMA UploadedStep ==
  ASSUME ChatInv, NEW u \in uploads, Uploaded(u)
  PROVE  ChatInv'
<1>0. PlaceInv /\ HubInv /\ RowsInv /\ LinkInv /\ WayInv
  BY DEF ChatInv
<1> DEFINE c == u.cid
<1>1. /\ uploads' = uploads \ {u}
      /\ UNCHANGED <<selected, room, visit, socket, aim, overtaken, fetches>>
      /\ UNCHANGED <<hist, subs, fwd, dropped, cut>> /\ visit \in Nat
  BY <1>0 DEF Uploaded, PlaceInv, runs, place
<1>2. u \in UploadSet /\ User(c) /\ Meant(c, u.bot) /\ u.bot \in Bots /\ c \in Cids
  BY <1>0 DEF WayInv, GoodUploads, UploadSet
<1>3. rows \in Lists(Told)
  BY <1>0, RowsAreLists
<1>4. crossed \subseteq crossed' /\ left' \in LeftSet
  <2>1. crossed \subseteq crossed'
    BY DEF Uploaded, Transmit
  <2>2. left' \in LeftSet
    BY <1>0, SpendLeft DEF Uploaded, PlaceInv
  <2> QED BY <2>1, <2>2
<1>5. Grows
  BY <1>0, <1>1, <1>4, StillGrows
<1>6. \A x : x # c /\ SentFor(x) /\ posts \subseteq posts' => SentFor(x)'
  BY <1>1 DEF SentFor
<1>7. /\ socks \in Seq(GoodSocks') /\ posts \subseteq GoodPosts'
      /\ uploads \subseteq GoodUploads'
  BY <1>0, <1>1, <1>5, KeepWay
<1>8. CASE Transmit(rows, u.cid, u.bot, u.connected)
  <2>1. User(c)' /\ Meant(c, u.bot)'
    BY <1>2, <1>5, KeepUser, KeepMeant
  <2>2. /\ posts' \subseteq GoodPosts' /\ posts \subseteq posts'
        /\ socks' \in Seq(GoodSocks')
        /\ socket # 0 => /\ socket \in DOMAIN socks' /\ socks'[socket].state = "up"
                         /\ socks'[socket].bot = room
                         /\ \A x : Carried(socks[socket], x) => Carried(socks'[socket], x)
                         /\ EchoKept(socks[socket], socks'[socket])
        /\ c \in Told'
    BY <1>0, <1>1, <1>2, <1>4, <1>5, <1>8, <2>1, TransmitGood
  <2>3. \A x \in Told : x \in Told'
    <3>1. \A x \in Told : x \notin {c} => x \in Told'
      BY <1>0, <1>1, <1>5, <1>6, <2>2, KeepTold
    <3> QED BY <2>2, <3>1
  <2>4. rows' = rows \/ rows' = FailedIn(rows, c)
    BY <1>8 DEF Transmit, FailedIn
  <2>5. RowsInv'
    <3>1. FailedIn(rows, c) \in Lists(Told \ {c})
      BY <1>3, FailedInFit
    <3>2. rows' \in Lists(Told) \/ rows' \in Lists(Told \ {c})
      BY <1>3, <2>4, <3>1
    <3> QED BY <1>1, <1>5, <2>3, <3>2, KeepList
  <2> QED BY <1>0, <1>1, <1>4, <1>5, <1>7, <2>2, <2>5, PaneStep DEF PlaceInv
<1>9. CASE rows' = failOptimistic(u.cid) /\ UNCHANGED <<posts, socks, crossed>>
  <2>1. rows' \in Lists(Told \ {c})
    BY <1>3, <1>9, failOptimisticIs, FailedInFit
  <2>2. \A x \in Told : x \notin {c} => x \in Told'
    BY <1>0, <1>1, <1>5, <1>6, <1>9, KeepTold DEF EchoKept
  <2>3. RowsInv'
    BY <1>1, <1>5, <2>1, <2>2, KeepList
  <2> QED BY <1>0, <1>1, <1>4, <1>5, <1>7, <1>9, <2>3, PaneStep DEF PlaceInv, LinkInv
<1> QED BY <1>8, <1>9 DEF Uploaded

\* The POST ends, and the rows that waited for it are confirmed or failed.
LEMMA PostAnsweredStep ==
  ASSUME ChatInv, NEW p \in posts, PostAnswered(p)
  PROVE  ChatInv'
<1>0. PlaceInv /\ HubInv /\ RowsInv /\ LinkInv /\ WayInv
  BY DEF ChatInv
<1> DEFINE c == p.cid
<1>1. /\ posts' = posts \ {p}
      /\ UNCHANGED <<selected, room, visit, socket, fetches>>
      /\ UNCHANGED <<uploads, aim, crossed, overtaken, socks>>
      /\ UNCHANGED <<hist, subs, fwd, dropped, cut>> /\ visit \in Nat
  BY <1>0 DEF PostAnswered, PlaceInv, runs, place
<1>2. p \in PostSet /\ PostOK(p)
  BY <1>0 DEF WayInv, GoodPosts
<1>3. rows \in Lists(Told)
  BY <1>0, RowsAreLists
<1>4. left' \in LeftSet
  BY <1>0, SpendLeft DEF PostAnswered, PlaceInv
<1>5. Grows
  BY <1>0, <1>1, QuietGrows
<1>6. rows' \in Lists(Told \ {c})
  <2>1. CASE p.hub # 0 /\ rows' = confirmOptimistic(p.cid, p.hub)
    <3> DEFINE i == p.hub
    <3>1. User(c) /\ Meant(c, p.bot) /\ FromUser(i) /\ hist[i].cid = c /\ hist[i].bot = p.bot
          /\ hist[i].run = "none"
      BY <1>2, <2>1 DEF PostOK
    <3>2. rows' = ConfirmedIn(c, i, Len(hist)) /\ Len(hist) \in 0..MaxHub
      <4>1. confirmOptimistic(p.cid, p.hub) = ConfirmedIn(p.cid, p.hub, Len(hist))
        BY confirmIs
      <4>2. Len(hist) \in Nat /\ MaxHub \in Nat /\ Len(hist) <= MaxHub
        BY <1>0, HubFacts DEF HubInv
      <4> QED BY <2>1, <4>1, <4>2
    <3>3. hist[i].text = SaidBy(c)
      BY <1>0, <3>1, HubFacts DEF MsgOK, FromUser
    <3>4. CASE \E k \in DOMAIN rows : rows[k].cid = c
      <4>1. PICK k \in DOMAIN rows : rows[k].cid = c
        BY <3>4
      <4>2. Meant(c, room)
        <5>1. RowOK(rows[k]) /\ rows[k] \in RowSet
          BY <1>3, ListRow
        <5>2. c # NoSend /\ ~FromAgent(c)
          BY <1>0, <3>1, HubFacts, OwnerChatAssumption DEF User, FromUser, FromAgent
        <5> QED BY <4>1, <5>1, <5>2 DEF RowOK, RowSet
      <4>3. hist[i].bot = room \/ (c \in crossed /\ hist[i].run = "none")
        BY <3>1, <4>2 DEF Meant
      <4> HIDE DEF c, i
      <4> QED BY <1>0, <1>3, <3>1, <3>2, <3>3, <4>3, ConfirmedInFit
    <3>5. CASE ~\E k \in DOMAIN rows : rows[k].cid = c
      <4>1. rows \in Seq(Fit(Told))
        BY <1>3 DEF Lists
      <4>2. ConfirmedIn(c, i, Len(hist)) = [k \in DOMAIN rows |-> rows[k]]
        BY <3>5 DEF ConfirmedIn
      <4>3. rows = [k \in DOMAIN rows |-> rows[k]]
        BY <4>1
      <4>4. \A k \in DOMAIN rows : rows[k].status = "optimistic" => rows[k].cid \in Told \ {c}
        BY <1>3, <3>5, ListRow
      <4>5. rows \in Lists(Told \ {c})
        BY <1>3, <4>4, ListsWiden
      <4> QED BY <3>2, <4>2, <4>3, <4>5
    <3> QED BY <3>4, <3>5
  <2>2. CASE rows' = failOptimistic(p.cid)
    BY <1>3, <2>2, failOptimisticIs, FailedInFit
  <2> QED BY <2>1, <2>2 DEF PostAnswered
<1>7. \A x \in Told : x \notin {c} => x \in Told'
  <2>1. \A x : x # c /\ SentFor(x) => SentFor(x)'
    BY <1>1 DEF SentFor
  <2> QED BY <1>0, <1>1, <1>5, <2>1, KeepTold DEF EchoKept
<1>8. RowsInv'
  BY <1>1, <1>5, <1>6, <1>7, KeepList
<1>9. /\ socks \in Seq(GoodSocks') /\ posts \subseteq GoodPosts'
      /\ uploads \subseteq GoodUploads'
  BY <1>0, <1>1, <1>5, KeepWay
<1> QED BY <1>0, <1>1, <1>4, <1>5, <1>8, <1>9, PaneStep DEF PlaceInv, LinkInv

\* A frame is read: nobody waits for it any more, or what it tells is stored.
LEMMA ReceiveStep ==
  ASSUME ChatInv, Receive
  PROVE  ChatInv'
<1>0. PlaceInv /\ HubInv /\ RowsInv /\ LinkInv /\ WayInv
  BY DEF ChatInv
<1> DEFINE s == socks[socket]
           f == Head(s.down)
           v == [s EXCEPT !.down = Tail(s.down)]
<1>1. /\ socket # 0 /\ s.down # <<>>
      /\ UNCHANGED <<selected, room, visit, socket, fetches, left>>
      /\ UNCHANGED <<uploads, aim, posts, crossed>>
      /\ UNCHANGED <<hist, subs, fwd, dropped, cut>> /\ visit \in Nat
      /\ overtaken' = IF f.type = "echo" /\ f.hub \in Shown(rows)
                      THEN overtaken \cup {f.cid} ELSE overtaken
  BY <1>0 DEF Receive, Connected, PlaceInv, outgoing, runs, place
<1>2. socket \in DOMAIN socks /\ s \in GoodSocks /\ s.state = "up" /\ s.bot = room /\ room \in Bots
  BY <1>0, <1>1 DEF LinkInv, WayInv, PlaceInv
<1>3. s.down \in Seq(Downward(room)) /\ s.down \in Seq(FrameSet) /\ s \in SockSet
  BY <1>2 DEF GoodSocks, SockOK, SockSet
<1>4. f \in FrameSet /\ FrameOK(f, room)
  <2> DEFINE D == Downward(room)
  <2> HIDE DEF D, s
  <2>1. Head(s.down) \in D
    BY <1>1, <1>3 DEF D
  <2> QED BY <2>1 DEF D, Downward
<1>5. rows \in Lists(Told)
  BY <1>0, RowsAreLists
<1>6. Grows
  BY <1>0, <1>1, QuietGrows
<1>7. socks' = [n \in DOMAIN socks |-> IF n = socket THEN v ELSE socks[n]]
  BY <1>2 DEF Receive
<1>8. socks \in Seq(GoodSocks') /\ posts \subseteq GoodPosts' /\ uploads \subseteq GoodUploads'
  BY <1>0, <1>1, <1>6, KeepWay
<1>9. v \in GoodSocks' /\ v.state = "up" /\ v.bot = room /\ v.up = s.up /\ v.down = Tail(s.down)
      /\ v.echo = s.echo
  <2>1. v.state = "up" /\ v.bot = room /\ v.up = s.up /\ v.down = Tail(s.down) /\ v.echo = s.echo
    BY <1>2, <1>3 DEF SockSet
  <2>2. s \in GoodSocks'
    BY <1>2, <1>8
  <2>3. \A x : x = s => [x EXCEPT !.down = Tail(x.down)] \in GoodSocks'
    BY <1>1, <2>2, SockSeen
  <2> QED BY <2>1, <2>3
<1> HIDE DEF v
<1>10. socks' \in Seq(GoodSocks')
  <2> DEFINE G == GoodSocks'
  <2>1. v \in G /\ socks \in Seq(G)
    BY <1>8, <1>9
  <2> HIDE DEF G
  <2>2. [n \in DOMAIN socks |-> IF n = socket THEN v ELSE socks[n]] \in Seq(G)
    BY <1>2, <2>1, SocksPut
  <2> QED BY <1>7, <2>2 DEF G
<1>11. socket \in DOMAIN socks' /\ socks'[socket] = v
  BY <1>2, <1>7
<1>12. \A x : x # f.cid /\ Carried(s, x) => Carried(v, x)
  <2> SUFFICES ASSUME NEW x, x # f.cid, Carried(s, x) PROVE Carried(v, x)
    OBVIOUS
  <2>1. CASE \E n \in DOMAIN s.up : s.up[n] = x
    BY <2>1, <1>9 DEF Carried
  <2>2. CASE \E n \in DOMAIN s.down : s.down[n].cid = x
    <3>1. PICK n \in DOMAIN s.down : s.down[n].cid = x
      BY <2>2
    <3>2. n # 1
      BY <3>1, <1>1, <1>3
    <3>3. n - 1 \in DOMAIN Tail(s.down) /\ Tail(s.down)[n - 1] = s.down[n]
      <4> HIDE DEF s
      <4> QED BY <3>1, <3>2, <1>1, <1>3
    <3> QED BY <3>1, <3>3, <1>9 DEF Carried
  <2> QED BY <2>1, <2>2 DEF Carried
<1> HIDE DEF s
<1> DEFINE d == f.cid
<1>13. \A x \in Told : x \notin {d} => x \in Told'
  <2>1. \A x : SentFor(x) => SentFor(x)'
    BY <1>1 DEF SentFor
  <2>2. \A x : x # d /\ Carried(socks[socket], x) => Carried(socks'[socket], x)
    BY <1>11, <1>12 DEF s
  <2>3. EchoKept(socks[socket], socks'[socket])
    BY <1>9, <1>11 DEF EchoKept, s
  <2> HIDE DEF d
  <2>4. \A c \in overtaken : c \in overtaken'
    BY <1>1
  <2> QED BY <1>0, <1>1, <1>6, <2>1, <2>2, <2>3, <2>4, KeepTold
<1>14. RowsInv'
  <2> HIDE DEF f
  <2>1. rows' = CASE f.type = "echo" -> Echoed(f.hub, f.cid)
                  [] f.type = "message" -> Finalized(f.hub)
                  [] f.type = "block" -> WithBlocks(f.hub, {f.seq})
                  [] f.type = "error" -> RunFailed(f.hub)
                  [] f.type = "reject" -> failOptimistic(f.cid)
    BY DEF Receive, f, s
  <2>2. CASE f.type = "reject"
    <3>1. rows' = failOptimistic(d)
      BY <2>1, <2>2
    <3>2. rows' \in Lists(Told \ {d})
      BY <1>5, <3>1, failOptimisticIs, FailedInFit
    <3> QED BY <1>1, <1>6, <1>13, <3>2, KeepList
  <2>3. CASE f.type = "echo"
    <3>1. FromUser(f.hub) /\ d = hist[f.hub].cid /\ hist[f.hub].bot = room
      BY <1>4, <2>3 DEF FrameOK
    <3>2. rows' = Echoed(f.hub, d)
      BY <2>1, <2>3
    <3>3. CASE f.hub \in Shown(rows)
      <4>1. rows' \in Lists(Told)
        BY <1>5, <3>2, <3>3 DEF Echoed
      <4>2. d \in Cids /\ d \in overtaken'
        BY <1>1, <1>4, <2>3, <3>3 DEF FrameSet
      <4>3. d \in Told'
        <5> HIDE DEF d
        <5>1. \A x : x = d => KeptAs(x)'
          BY <4>2 DEF KeptAs
        <5> QED BY <4>2, <5>1, TellNext
      <4> QED BY <1>1, <1>6, <1>13, <4>1, <4>3, KeepList
    <3>4. CASE f.hub \notin Shown(rows)
      <4>1. rows' \in Lists(Told \ {d})
        BY <1>0, <1>2, <1>5, <3>1, <3>2, <3>4, EchoedFit
      <4> QED BY <1>1, <1>6, <1>13, <4>1, KeepList
    <3> QED BY <3>3, <3>4
  <2>4. CASE f.type \in {"message", "block", "error"}
    <3>1. d = NoSend
      BY <1>4, <2>4 DEF FrameOK
    <3>2. ~User(NoSend)
      BY <1>0, HubFacts, OwnerChatAssumption DEF User, FromUser
    <3>3. rows' \in Lists(Told)
      <4>1. CASE f.type = "message"
        <5>1. FromAgent(f.hub) /\ hist[f.hub].bot = room /\ rows' = Finalized(f.hub)
          BY <1>4, <2>1, <4>1 DEF FrameOK
        <5> QED BY <1>0, <1>2, <1>5, <5>1, FinalizedFit
      <4>2. CASE f.type = "block"
        <5>1. FromUser(f.hub) /\ hist[f.hub].bot = room /\ rows' = WithBlocks(f.hub, {f.seq})
          BY <1>4, <2>1, <4>2 DEF FrameOK
        <5>2. {f.seq} \in SUBSET Nat
          BY <1>4 DEF FrameSet
        <5> QED BY <1>0, <1>2, <1>5, <5>1, <5>2, WithBlocksFit
      <4>3. CASE f.type = "error"
        <5>1. FromUser(f.hub) /\ hist[f.hub].bot = room /\ hist[f.hub].state = "failed"
              /\ rows' = RunFailed(f.hub)
          BY <1>4, <2>1, <4>3 DEF FrameOK
        <5> QED BY <1>0, <1>2, <1>5, <5>1, RunFailedFit
      <4> QED BY <2>4, <4>1, <4>2, <4>3
    <3> QED BY <1>1, <1>6, <1>13, <3>1, <3>2, <3>3, KeepList
  <2>5. f.type \in {"echo", "message", "block", "error", "reject"}
    BY <1>4 DEF FrameSet
  <2> QED BY <2>2, <2>3, <2>4, <2>5
<1> QED BY <1>0, <1>1, <1>6, <1>8, <1>9, <1>10, <1>11, <1>14, PaneStep DEF PlaceInv

-----------------------------------------------------------------------------
(* The hub *)

\* A step of the hub: the list of the pane stays as it is.
LEMMA HubStep ==
  ASSUME ChatInv, Grows, HubInv', left' \in LeftSet,
         UNCHANGED <<selected, room, visit, rows, socket, uploads, aim, crossed, overtaken, fetches>>,
         posts' \subseteq GoodPosts', \A c : SentFor(c) => SentFor(c)',
         fwd' \subseteq GoodBlocks', socks' \in Seq(GoodSocks'),
         socket # 0 => /\ socket \in DOMAIN socks' /\ socks'[socket].state = "up"
                       /\ socks'[socket].bot = room
                       /\ \A c : Carried(socks[socket], c) =>
                            Carried(socks'[socket], c) \/ KeptAs(c)'
                       /\ EchoKept(socks[socket], socks'[socket])
  PROVE  ChatInv'
<1>0. PlaceInv /\ HubInv /\ RowsInv /\ LinkInv /\ WayInv
  BY DEF ChatInv
<1>1. visit \in Nat /\ visit' \in Nat /\ visit' = visit /\ room' = room
  BY <1>0 DEF PlaceInv
<1>2. fetches \subseteq GoodFetches' /\ uploads \subseteq GoodUploads'
  BY <1>0, <1>1, KeepWay
<1>3. WayInv'
  BY <1>2 DEF WayInv
<1>4. PlaceInv' /\ LinkInv'
  BY <1>0 DEF PlaceInv, LinkInv
<1>5. \A c \in Told : c \notin {} => c \in Told'
  BY <1>0, KeepTold
<1>6. rows' \in Lists(Told)
  BY <1>0, RowsAreLists
<1>7. RowsInv'
  BY <1>1, <1>5, <1>6, KeepList
<1> QED BY <1>3, <1>4, <1>7 DEF ChatInv

\* The step changes one connection.
LEMMA OneSock ==
  ASSUME LinkInv, socks \in Seq(GoodSocks'), NEW s \in DOMAIN socks, NEW v \in GoodSocks',
         socks' = [n \in DOMAIN socks |-> IF n = s THEN v ELSE socks[n]],
         socks[s].state = "up" =>
            /\ v.state = "up" /\ v.bot = socks[s].bot
            /\ s = socket => /\ \A c : Carried(socks[s], c) => Carried(v, c) \/ KeptAs(c)'
                             /\ EchoKept(socks[s], v)
  PROVE  /\ socks' \in Seq(GoodSocks')
         /\ socket # 0 => /\ socket \in DOMAIN socks' /\ socks'[socket].state = "up"
                          /\ socks'[socket].bot = room
                          /\ \A c : Carried(socks[socket], c) =>
                               Carried(socks'[socket], c) \/ KeptAs(c)'
                          /\ EchoKept(socks[socket], socks'[socket])
<1>1. socks' \in Seq(GoodSocks')
  <2> DEFINE G == GoodSocks'
  <2>1. v \in G /\ socks \in Seq(G)
    OBVIOUS
  <2> HIDE DEF G
  <2>2. [n \in DOMAIN socks |-> IF n = s THEN v ELSE socks[n]] \in Seq(G)
    BY <2>1, SocksPut
  <2> QED BY <2>2 DEF G
<1>2. ASSUME socket # 0
      PROVE  /\ socket \in DOMAIN socks' /\ socks'[socket].state = "up"
             /\ socks'[socket].bot = room
             /\ \A c : Carried(socks[socket], c) => Carried(socks'[socket], c) \/ KeptAs(c)'
             /\ EchoKept(socks[socket], socks'[socket])
  <2>1. socket \in DOMAIN socks /\ socks[socket].state = "up" /\ socks[socket].bot = room
    BY <1>2 DEF LinkInv
  <2>2. socket \in DOMAIN socks' /\ socks'[socket] = IF socket = s THEN v ELSE socks[socket]
    BY <2>1
  <2>3. CASE socket = s
    BY <2>1, <2>2, <2>3
  <2>4. CASE socket # s
    BY <2>1, <2>2, <2>4 DEF EchoKept
  <2> QED BY <2>3, <2>4
<1> QED BY <1>1, <1>2

\* _send_to_oc_ws tells the connections of a bot.
LEMMA PushGood ==
  ASSUME LinkInv, socks \in Seq(GoodSocks'), NEW b \in Bots, NEW ms \in Seq(Downward(b)'),
         NEW D \in SUBSET StaleOf(b), socks' = Push(b, ms, D)
  PROVE  /\ socks' \in Seq(GoodSocks')
         /\ socket # 0 => /\ socket \in DOMAIN socks' /\ socks'[socket].state = "up"
                          /\ socks'[socket].bot = room
                          /\ \A c : Carried(socks[socket], c) =>
                               Carried(socks'[socket], c) \/ KeptAs(c)'
                          /\ EchoKept(socks[socket], socks'[socket])
<1> DEFINE G == GoodSocks'
           new(n) == IF n \in D THEN [socks[n] EXCEPT !.state = "dead"]
                     ELSE IF socks[n].bot = b /\ socks[n].state = "up"
                     THEN [socks[n] EXCEPT !.down = socks[n].down \o ms]
                     ELSE socks[n]
<1>1. socks' = [n \in DOMAIN socks |-> new(n)]
  BY Zenon DEF Push
<1>2. \A n \in DOMAIN socks : socks[n] \in G
  OBVIOUS
<1>3. ASSUME NEW n \in DOMAIN socks PROVE new(n) \in G
  <2>1. \A x : x \in G => [x EXCEPT !.state = "dead"] \in G
    BY SockState
  <2>2. \A x : x \in G /\ x.bot = b => [x EXCEPT !.down = x.down \o ms] \in G
    BY SockPush
  <2> HIDE DEF G
  <2> QED BY <1>2, <2>1, <2>2
<1>4. socks' \in Seq(G)
  <2>1. Len(socks) \in Nat /\ DOMAIN socks = 1..Len(socks)
    OBVIOUS
  <2> HIDE DEF G, new
  <2>2. socks' \in [1..Len(socks) -> G]
    BY <1>1, <1>3, <2>1
  <2> QED BY <2>1, <2>2
<1>5. ASSUME socket # 0
      PROVE  /\ socket \in DOMAIN socks' /\ socks'[socket].state = "up"
             /\ socks'[socket].bot = room
             /\ \A c : Carried(socks[socket], c) => Carried(socks'[socket], c)
             /\ EchoKept(socks[socket], socks'[socket])
  <2> DEFINE s == socks[socket]
  <2>1. socket \in DOMAIN socks /\ s.state = "up" /\ s.bot = room
    BY <1>5 DEF LinkInv
  <2>2. socket \notin D
    BY <2>1 DEF StaleOf
  <2>3. s \in SockSet /\ s.down \in Seq(FrameSet) /\ s.up \in Seq(Cids)
    BY <1>2, <2>1, SockParts DEF SockSet
  <2>4. socket \in DOMAIN socks' /\ socks'[socket] =
           IF s.bot = b THEN [s EXCEPT !.down = s.down \o ms] ELSE s
    BY <1>1, <2>1, <2>2
  <2>5. ms \in Seq(FrameSet)
    <3> DEFINE F == Downward(b)'
    <3>1. ms \in Seq(F) /\ \A m \in F : m \in FrameSet
      BY SubTypes
    <3> HIDE DEF F
    <3>2. Len(ms) \in Nat /\ ms \in [1..Len(ms) -> FrameSet]
      BY <3>1
    <3> QED BY <3>2
  <2> HIDE DEF s
  <2>6. \A n \in DOMAIN s.down : n \in DOMAIN (s.down \o ms) /\ (s.down \o ms)[n] = s.down[n]
    BY <2>3, <2>5
  <2> DEFINE t == [s EXCEPT !.down = s.down \o ms]
  <2>7. t.state = s.state /\ t.bot = s.bot /\ t.up = s.up /\ t.down = s.down \o ms
        /\ t.echo = s.echo
    BY <2>3 DEF SockSet
  <2> HIDE DEF t
  <2>8. \A c : Carried(s, c) => Carried(t, c)
    BY <2>6, <2>7 DEF Carried
  <2>9. socks'[socket] = IF s.bot = b THEN t ELSE s
    BY <2>4 DEF t
  <2> QED BY <2>1, <2>4, <2>7, <2>8, <2>9 DEF s, EchoKept
<1> QED BY <1>4, <1>5

\* What the hub has after a step: what the step stored is as it should be, and
\* the runs in progress are accounted for.
LEMMA HubNext ==
  ASSUME HubInv, Grows, hist' \in Seq(MsgSet), Len(hist') <= MaxHub,
         subs' \subseteq Ids', dropped' \subseteq Ids' \X Nat, cut' \subseteq Ids',
         \A i \in Ids' : i \notin Ids => MsgOK(i)',
         \A i \in Ids : hist[i].from = "agent" => hist'[i].state = hist[i].state,
         \A i \in Ids : hist'[i].run = "running" =>
                        i \in subs' \cup cut' \/ hist'[i].turn = "replying",
         OneReply', DropsExplained'
  PROVE  HubInv'
<1>1. ASSUME NEW i \in Ids PROVE MsgOK(i)'
  <2>1. i \in Ids' /\ MsgOK(i) /\ hist[i] \in MsgSet /\ hist[i].bot \in Bots
    BY HubFacts, KeepIds DEF MsgSet
  <2>2. /\ hist'[i].bot = hist[i].bot /\ hist'[i].from = hist[i].from
        /\ hist'[i].cid = hist[i].cid /\ hist'[i].trace = hist[i].trace
        /\ hist'[i].text = hist[i].text
        /\ hist[i].run = "none" => hist'[i].run = "none"
    BY DEF Grows
  <2>3. ASSUME hist[i].from = "user"
        PROVE  /\ User(hist[i].cid)' /\ hist'[i].trace = 0
               /\ hist'[i].text = SaidBy(hist[i].cid)' /\ Meant(hist[i].cid, hist[i].bot)'
    <3> DEFINE c == hist[i].cid
               b == hist[i].bot
    <3>1. User(c) /\ hist[i].trace = 0 /\ hist[i].text = SaidBy(c) /\ Meant(c, b) /\ b \in Bots
      BY <2>1, <2>3 DEF MsgOK
    <3>2. \A x, y : x = c /\ y = b => User(x)' /\ SaidBy(x)' = hist[i].text /\ Meant(x, y)'
      BY <3>1, KeepUser, KeepMeant
    <3>3. \A x, y : x = hist'[i].cid /\ y = hist'[i].bot =>
             User(x)' /\ SaidBy(x)' = hist'[i].text /\ Meant(x, y)'
      BY <2>2, <3>2
    <3>4. User(hist[i].cid)' /\ SaidBy(hist[i].cid)' = hist'[i].text
          /\ Meant(hist[i].cid, hist[i].bot)'
      BY <3>3 DEF User, FromUser, SaidBy, Meant, Owner
    <3> QED BY <2>2, <3>1, <3>4
  <2>4. ASSUME hist[i].from = "agent"
        PROVE  /\ FromUser(hist[i].trace)' /\ hist'[hist'[i].trace].turn # "running"
               /\ hist'[i].state # "failed" /\ hist'[i].run = "none"
    <3> DEFINE t == hist[i].trace
    <3>1. FromUser(t) /\ hist[t].turn # "running" /\ hist[i].state # "failed" /\ hist[i].run = "none"
      BY <2>1, <2>4 DEF MsgOK
    <3>2. \A x : x = t => FromUser(x)'
      BY <3>1, KeepFrom
    <3>3. hist'[t].turn # "running"
      BY <3>1 DEF Grows, FromUser
    <3>4. \A x : x = hist'[i].trace => FromUser(x)'
      BY <2>2, <3>2
    <3>5. FromUser(hist[i].trace)'
      BY <3>4 DEF FromUser
    <3> QED BY <2>2, <2>4, <3>1, <3>3, <3>5
  <2>5. hist'[i].run = "running" => i \in subs' \cup cut' \/ hist'[i].turn = "replying"
    OBVIOUS
  <2> QED BY <2>2, <2>3, <2>4, <2>5 DEF MsgOK
<1> QED BY <1>1 DEF HubInv

\* What the owner wrote is stored.
LEMMA StoredUser ==
  ASSUME HubInv, Len(hist) < MaxHub, NEW b \in Bots, NEW c \in Cids, User(c), Meant(c, b),
         NEW st \in {"none", "running"}, hist' = Stored(b, "user", c, 0, st),
         UNCHANGED <<aim, crossed, dropped, cut>>,
         subs \subseteq subs', subs' \subseteq subs \cup {Len(hist) + 1},
         st = "running" => Len(hist) + 1 \in subs'
  PROVE  /\ Grows /\ HubInv' /\ Len(hist) + 1 \in 1..MaxHub
         /\ \A i : i = Len(hist) + 1 => FromUser(i)'
         /\ hist'[Len(hist) + 1].bot = b /\ hist'[Len(hist) + 1].cid = c
         /\ hist'[Len(hist) + 1].run = st
<1> DEFINE i == Len(hist) + 1
           txt == SaidBy(c)
           m == [bot |-> b, from |-> "user", cid |-> c, trace |-> 0, run |-> st, text |-> txt,
                 blocks |-> {}, sent |-> 0, turn |-> "running", state |-> "queued"]
<1>1. /\ Len(hist) \in Nat /\ DOMAIN hist = Ids /\ Ids = 1..Len(hist) /\ MaxHub \in Nat
      /\ hist \in Seq(MsgSet) /\ i \in 1..MaxHub
  BY HubFacts DEF HubInv, Ids
<1>2. txt \in Texts
  <2>1. CASE c \in Sends
    BY <2>1 DEF SaidBy, Texts
  <2>2. CASE c \notin Sends
    <3>1. c \in Ids /\ hist[c] \in MsgSet
      BY <2>2, HubFacts DEF User, FromUser
    <3> QED BY <2>2, <3>1 DEF SaidBy, MsgSet
  <2> QED BY <2>1, <2>2
<1>3. hist' = Append(hist, m)
  BY Zenon DEF Stored
<1> HIDE DEF txt
<1>4. m \in MsgSet
  BY <1>1, <1>2 DEF MsgSet
<1>5. /\ m.bot = b /\ m.from = "user" /\ m.cid = c /\ m.trace = 0 /\ m.run = st
      /\ m.text = txt
  OBVIOUS
<1> HIDE DEF m
<1>6. /\ hist' \in Seq(MsgSet) /\ Len(hist') = i /\ hist'[i] = m
      /\ \A j \in Ids : hist'[j] = hist[j]
  BY <1>1, <1>3, <1>4
<1>7. Ids' = 1..i /\ \A j \in Ids' : j \in Ids \/ j = i
  BY <1>1, <1>6 DEF Ids
<1>8. Grows
  BY <1>1, <1>6 DEF Grows
<1> HIDE DEF i
<1>9. \A x : x = i => FromUser(x)'
  BY <1>1, <1>5, <1>6, <1>7 DEF FromUser, i
<1>10. OneReply' /\ DropsExplained'
  <2>1. OneReply /\ DropsExplained /\ dropped \subseteq Ids \X Nat
    BY DEF HubInv
  <2>2. OneReply'
    BY <2>1, <1>5, <1>6, <1>7 DEF OneReply
  <2>3. DropsExplained'
    BY <2>1, <1>6 DEF DropsExplained
  <2> QED BY <2>2, <2>3
<1>11. \A j \in Ids' : j \notin Ids => MsgOK(j)'
  <2> SUFFICES ASSUME NEW j \in Ids', j = i PROVE MsgOK(j)'
    BY <1>7
  <2>1. \A x : x = c => User(x)' /\ SaidBy(x)' = txt
    BY <1>8, KeepUser DEF txt
  <2>2. \A x, y : x = c /\ y = b => Meant(x, y)'
    BY <1>8, KeepMeant
  <2>3. hist'[j].cid = c /\ hist'[j].bot = b /\ hist'[j].text = txt /\ hist'[j].from = "user"
        /\ hist'[j].trace = 0 /\ hist'[j].run = st
    BY <1>5, <1>6
  <2>4. User(hist[j].cid)' /\ SaidBy(hist[j].cid)' = hist'[j].text
        /\ Meant(hist[j].cid, hist[j].bot)'
    BY <2>1, <2>2, <2>3 DEF User, FromUser, SaidBy, Meant, Owner
  <2>5. st = "running" => j \in subs' \cup cut'
    BY DEF i
  <2> QED BY <2>3, <2>4, <2>5 DEF MsgOK
<1>12. subs' \subseteq Ids' /\ dropped' \subseteq Ids' \X Nat /\ cut' \subseteq Ids'
  <2>1. \A j \in Ids : j \in Ids'
    BY <1>8, KeepIds
  <2>2. i \in Ids'
    BY <1>1, <1>7 DEF i
  <2> QED BY <2>1, <2>2 DEF HubInv, i
<1>13. \A j \in Ids : hist'[j].run = "running" => j \in subs' \cup cut' \/ hist'[j].turn = "replying"
  BY <1>6, HubFacts DEF MsgOK
<1>14. HubInv'
  BY <1>1, <1>6, <1>8, <1>10, <1>11, <1>12, <1>13, HubNext DEF i
<1> QED BY <1>1, <1>5, <1>6, <1>8, <1>9, <1>14 DEF i

\* One frame more.
LEMMA SockAppend ==
  ASSUME NEW s \in GoodSocks', NEW m \in Downward(s.bot)'
  PROVE  [s EXCEPT !.down = Append(s.down, m)] \in GoodSocks'
<1> DEFINE D == Downward(s.bot)'
<1>1. s.down \in Seq(D) /\ m \in D
  BY SockParts
<1> HIDE DEF D
<1>2. <<m>> \in Seq(D) /\ Append(s.down, m) = s.down \o <<m>>
  BY <1>1
<1>3. [s EXCEPT !.down = s.down \o <<m>>] \in GoodSocks'
  BY <1>2, SockPush DEF D
<1> QED BY <1>2, <1>3

\* What is carried, with a frame more.
LEMMA CarriedAppend ==
  ASSUME NEW s, NEW t, NEW m, s.down \in Seq(FrameSet), m \in FrameSet, t.up = s.up,
         t.down = Append(s.down, m)
  PROVE  (\A c : Carried(s, c) => Carried(t, c)) /\ Carried(t, m.cid)
<1>1. /\ \A n \in DOMAIN s.down : n \in DOMAIN t.down /\ t.down[n] = s.down[n]
      /\ Len(s.down) + 1 \in DOMAIN t.down /\ t.down[Len(s.down) + 1] = m
  <2> DEFINE d == s.down
             e == t.down
  <2>1. d \in Seq(FrameSet) /\ e = Append(d, m)
    OBVIOUS
  <2> HIDE DEF d, e
  <2>2. /\ \A n \in DOMAIN d : n \in DOMAIN e /\ e[n] = d[n]
        /\ Len(d) + 1 \in DOMAIN e /\ e[Len(d) + 1] = m
    BY <2>1
  <2> QED BY <2>2 DEF d, e
<1> QED BY <1>1 DEF Carried

\* What is carried after the hub has read the first of it.
LEMMA CarriedRead ==
  ASSUME NEW s, NEW t, s.up \in Seq(Cids), s.up # <<>>, t.up = Tail(s.up), t.down = s.down
  PROVE  \A c : c # Head(s.up) /\ Carried(s, c) => Carried(t, c)
<1> SUFFICES ASSUME NEW c, c # Head(s.up), Carried(s, c) PROVE Carried(t, c)
  OBVIOUS
<1>1. CASE \E n \in DOMAIN s.up : s.up[n] = c
  <2> DEFINE u == s.up
             w == t.up
  <2>1. PICK n \in DOMAIN u : u[n] = c
    BY <1>1
  <2>2. u \in Seq(Cids) /\ u # <<>> /\ w = Tail(u) /\ c # Head(u)
    OBVIOUS
  <2> HIDE DEF u, w
  <2>3. n \in 2..Len(u) /\ Len(u) \in Nat
    BY <2>1, <2>2
  <2>4. n - 1 \in DOMAIN w /\ w[n - 1] = u[n]
    BY <2>2, <2>3
  <2> QED BY <2>1, <2>4 DEF Carried, w
<1>2. CASE \E n \in DOMAIN s.down : s.down[n].cid = c
  BY <1>2 DEF Carried
<1> QED BY <1>1, <1>2 DEF Carried

\* A send is read from the socket: it is stored, or a frame refuses it.
LEMMA HubSendStep ==
  ASSUME ChatInv, NEW n \in DOMAIN socks, HubSend(n)
  PROVE  ChatInv'
<1>0. PlaceInv /\ HubInv /\ RowsInv /\ LinkInv /\ WayInv
  BY DEF ChatInv
<1> DEFINE s == socks[n]
           c == Head(s.up)
           i == Len(hist) + 1
           read == [s EXCEPT !.up = Tail(s.up)]
           m == Frame("reject", 0, c, 0)
<1>1. /\ s.up # <<>> /\ s.echo = 0
      /\ UNCHANGED <<selected, room, visit, rows, socket, uploads, aim, crossed, overtaken, fetches>>
      /\ UNCHANGED <<posts, fwd, dropped, cut>>
      /\ visit \in Nat /\ visit' \in Nat /\ visit' = visit /\ room' = room
  BY <1>0 DEF HubSend, place, outgoing, PlaceInv
<1>2. s \in GoodSocks /\ s \in SockSet /\ s.bot \in Bots /\ s.up \in Seq(Cids)
      /\ s.down \in Seq(FrameSet)
  BY <1>0 DEF WayInv, GoodSocks, SockSet
<1>3. c \in Cids /\ User(c) /\ Meant(c, s.bot)
  <2> DEFINE U == Upward(s.bot)
  <2>1. s.up \in Seq(U)
    BY <1>2 DEF GoodSocks, SockOK
  <2> HIDE DEF U, s
  <2>2. Head(s.up) \in U
    BY <1>1, <2>1
  <2> QED BY <2>2 DEF U, Upward
<1>4. \A x : SentFor(x) => SentFor(x)'
  BY <1>1 DEF SentFor
<1>5. read \in SockSet /\ read.up = Tail(s.up) /\ read.down = s.down /\ read.bot = s.bot
      /\ read.state = s.state /\ read.echo = 0
  <2>1. Tail(s.up) \in Seq(Cids)
    BY <1>1, <1>2
  <2> HIDE DEF s
  <2> QED BY <1>1, <1>2, <2>1 DEF SockSet
<1>6. \A x : x # c /\ Carried(s, x) => Carried(read, x)
  <2> HIDE DEF read, s
  <2> QED BY <1>1, <1>2, <1>5, CarriedRead
<1>7. Grows => /\ socks \in Seq(GoodSocks') /\ posts \subseteq GoodPosts' /\ fwd \subseteq GoodBlocks'
               /\ read \in GoodSocks'
  <2> SUFFICES ASSUME Grows
               PROVE  /\ socks \in Seq(GoodSocks') /\ posts \subseteq GoodPosts'
                      /\ fwd \subseteq GoodBlocks' /\ read \in GoodSocks'
    OBVIOUS
  <2>1. /\ socks \in Seq(GoodSocks') /\ posts \subseteq GoodPosts' /\ fwd \subseteq GoodBlocks'
        /\ s \in GoodSocks'
    BY <1>0, <1>1, KeepWay
  <2>2. \A x : x = s => [x EXCEPT !.up = Tail(x.up)] \in GoodSocks'
    BY <1>1, <2>1, SockRead
  <2> QED BY <2>1, <2>2
<1>8. CASE /\ i <= MaxHub /\ hist' = Stored(s.bot, "user", c, 0, "running")
           /\ subs' = subs \cup {i} /\ UNCHANGED left
           /\ socks' = [[socks EXCEPT ![n].up = Tail(@)] EXCEPT ![n].echo = i]
  <2> DEFINE v == [read EXCEPT !.echo = i]
  <2>0. Len(hist) \in Nat /\ Len(hist) < MaxHub
    BY <1>0, <1>8, HubFacts
  <2>1. socks' = [k \in DOMAIN socks |-> IF k = n THEN v ELSE socks[k]]
    BY <1>8
  <2> HIDE DEF c, read, s
  <2>2. /\ Grows /\ HubInv' /\ i \in 1..MaxHub /\ \A x : x = i => FromUser(x)'
        /\ hist'[i].bot = s.bot /\ hist'[i].cid = c
    BY <1>0, <1>1, <1>2, <1>3, <1>8, <2>0, StoredUser
  <2> HIDE DEF i
  <2>3. v \in GoodSocks'
    <3>1. i \in 0..MaxHub
      BY <2>2
    <3>2. \A x, k : x = read /\ k = i => [x EXCEPT !.echo = k] \in GoodSocks'
      BY <1>5, <1>7, <2>2, <3>1, SockEcho
    <3> QED BY <3>2
  <2>4. v.state = s.state /\ v.bot = s.bot /\ v.up = read.up /\ v.down = read.down /\ v.echo = i
    BY <1>5 DEF SockSet
  <2> HIDE DEF v
  <2>5. n = socket => \A x : x = c => KeptAs(x)'
    <3> SUFFICES ASSUME n = socket, NEW x, x = c PROVE KeptAs(x)'
      OBVIOUS
    <3>1. n # 0 /\ i # 0
      BY <1>0, <2>2 DEF WayInv
    <3>2. socks'[socket'] = v /\ socket' # 0
      BY <1>1, <2>1, <3>1
    <3> QED BY <2>2, <2>4, <3>1, <3>2 DEF KeptAs, EchoFor
  <2>6. \A x : Carried(read, x) => Carried(v, x)
    BY <2>4 DEF Carried
  <2>7. n = socket => /\ \A x : Carried(s, x) => Carried(v, x) \/ KeptAs(x)'
                      /\ EchoKept(s, v)
    BY <1>1, <1>6, <2>5, <2>6 DEF EchoKept, EchoFor
  <2>8. /\ socks' \in Seq(GoodSocks')
        /\ socket # 0 => /\ socket \in DOMAIN socks' /\ socks'[socket].state = "up"
                         /\ socks'[socket].bot = room
                         /\ \A x : Carried(socks[socket], x) =>
                              Carried(socks'[socket], x) \/ KeptAs(x)'
                         /\ EchoKept(socks[socket], socks'[socket])
    BY <1>0, <1>7, <2>1, <2>2, <2>3, <2>4, <2>7, OneSock DEF s
  <2>9. left' \in LeftSet
    BY <1>0, <1>8 DEF PlaceInv
  <2> QED BY <1>1, <1>4, <1>7, <2>2, <2>8, <2>9, HubStep
<1>9. CASE /\ Spend("faults") /\ UNCHANGED <<hist, subs>>
           /\ socks' = IF s.state = "up"
                       THEN [[socks EXCEPT ![n].up = Tail(@)] EXCEPT ![n].down = Append(@, m)]
                       ELSE [socks EXCEPT ![n].up = Tail(@)]
  <2> DEFINE v == IF s.state = "up" THEN [read EXCEPT !.down = Append(read.down, m)] ELSE read
  <2>1. socks' = [k \in DOMAIN socks |-> IF k = n THEN v ELSE socks[k]]
    BY <1>9
  <2>2. left' \in LeftSet
    BY <1>0, <1>9, SpendLeft DEF PlaceInv
  <2>3. Grows /\ HubInv'
    BY <1>0, <1>1, <1>9, QuietGrows, QuietHub DEF runs
  <2>4. m \in FrameSet /\ m.cid = c /\ m.type = "reject"
    BY <1>3, OwnerChatAssumption DEF Frame, FrameSet
  <2> HIDE DEF m, c, read, s
  <2>5. \A x : m \in Downward(x)'
    BY <2>4 DEF Downward, FrameOK
  <2>6. [read EXCEPT !.down = Append(read.down, m)] \in GoodSocks'
    <3>1. \A x, k : x = read /\ k = m => [x EXCEPT !.down = Append(x.down, k)] \in GoodSocks'
      BY <1>7, <2>3, <2>5, SockAppend
    <3> QED BY <3>1
  <2>7. v \in GoodSocks'
    BY <1>7, <2>3, <2>6
  <2>8. ASSUME s.state = "up"
        PROVE  /\ v.state = "up" /\ v.bot = s.bot
               /\ n = socket => /\ \A x : Carried(s, x) => Carried(v, x) \/ KeptAs(x)'
                                /\ EchoKept(s, v)
    <3>1. v.state = "up" /\ v.bot = s.bot /\ v.up = read.up /\ v.down = Append(read.down, m)
          /\ v.echo = s.echo
      BY <1>1, <1>5, <2>8 DEF SockSet
    <3> HIDE DEF v
    <3>2. (\A x : Carried(read, x) => Carried(v, x)) /\ Carried(v, c)
      BY <1>2, <1>5, <2>4, <3>1, CarriedAppend
    <3> QED BY <1>6, <3>1, <3>2 DEF EchoKept
  <2> HIDE DEF v
  <2> QED BY <1>0, <1>1, <1>4, <1>7, <1>9, <2>1, <2>2, <2>3, <2>7, <2>8, OneSock, HubStep DEF s
<1> QED BY <1>8, <1>9 DEF HubSend

\* The echo of a message that is stored.
LEMMA HubEchoStep ==
  ASSUME ChatInv, NEW n \in DOMAIN socks, HubEcho(n)
  PROVE  ChatInv'
<1>0. PlaceInv /\ HubInv /\ RowsInv /\ LinkInv /\ WayInv
  BY DEF ChatInv
<1> DEFINE s == socks[n]
           m == Frame("echo", s.echo, hist[s.echo].cid, 0)
           v == [s EXCEPT !.echo = 0, !.down = IF s.state = "up" THEN Append(s.down, m) ELSE s.down]
<1>1. /\ s.echo # 0
      /\ socks' = [k \in DOMAIN socks |-> IF k = n THEN v ELSE socks[k]]
      /\ UNCHANGED <<selected, room, visit, rows, socket, uploads, aim, crossed, overtaken, fetches>>
      /\ UNCHANGED <<posts, hist, subs, fwd, dropped, cut, left>>
      /\ visit \in Nat /\ visit' \in Nat /\ visit' = visit /\ room' = room
  BY <1>0 DEF HubEcho, place, outgoing, runs, PlaceInv
<1>2. s \in GoodSocks /\ s \in SockSet /\ s.bot \in Bots /\ s.down \in Seq(FrameSet)
  BY <1>0 DEF WayInv, GoodSocks, SockSet
<1>3. Grows /\ HubInv'
  BY <1>0, <1>1, QuietGrows, QuietHub DEF runs
<1>4. /\ socks \in Seq(GoodSocks') /\ posts \subseteq GoodPosts' /\ fwd \subseteq GoodBlocks'
      /\ s \in GoodSocks'
  BY <1>0, <1>1, <1>3, KeepWay
<1> HIDE DEF s
<1>5. m \in FrameSet /\ \A b : b = s.bot => m \in Downward(b)'
  <2> DEFINE e == s.echo
             d == hist[e].cid
  <2>1. FromUser(e) /\ hist[e].bot = s.bot
    BY <1>1, <1>2 DEF GoodSocks, SockOK
  <2>2. e \in 0..MaxHub /\ d \in Cids
    BY <1>0, <2>1, HubFacts DEF FromUser, MsgSet
  <2>3. m \in FrameSet /\ m.type = "echo" /\ m.hub = e /\ m.cid = d
    BY <2>2 DEF Frame, FrameSet
  <2> HIDE DEF m, e
  <2>4. \A x : x = e => FromUser(x)'
    BY <2>1, <1>3, KeepFrom
  <2>5. \A b, y : b = s.bot /\ y = m => FrameOK(y, b)'
    BY <1>1, <2>1, <2>3, <2>4 DEF FrameOK
  <2> QED BY <2>3, <2>5 DEF Downward
<1>6. v \in GoodSocks'
  <2> DEFINE u == IF s.state = "up" THEN [s EXCEPT !.down = Append(s.down, m)] ELSE s
  <2> HIDE DEF m
  <2>1. u \in GoodSocks'
    <3>1. \A x, k : x = s /\ k = m => [x EXCEPT !.down = Append(x.down, k)] \in GoodSocks'
      BY <1>4, <1>5, SockAppend
    <3> QED BY <1>4, <3>1
  <2>2. v = [u EXCEPT !.echo = 0]
    BY <1>2 DEF SockSet
  <2> HIDE DEF u, v
  <2>3. \A x, k : x = u /\ k = 0 => [x EXCEPT !.echo = k] \in GoodSocks'
    BY <2>1, SockEcho, OwnerChatAssumption
  <2> QED BY <2>2, <2>3
<1>7. ASSUME s.state = "up"
      PROVE  /\ v.state = "up" /\ v.bot = s.bot
             /\ n = socket => /\ \A x : Carried(s, x) => Carried(v, x) \/ KeptAs(x)'
                              /\ EchoKept(s, v)
  <2>0. m.cid = hist[s.echo].cid
    BY DEF Frame
  <2> HIDE DEF m
  <2>1. v.state = "up" /\ v.bot = s.bot /\ v.up = s.up /\ v.down = Append(s.down, m)
    BY <1>2, <1>7 DEF SockSet
  <2> HIDE DEF v
  <2>2. (\A x : Carried(s, x) => Carried(v, x)) /\ Carried(v, m.cid)
    BY <1>2, <1>5, <2>1, CarriedAppend
  <2> QED BY <2>0, <2>1, <2>2 DEF EchoKept, EchoFor
<1>8. \A x : SentFor(x) => SentFor(x)'
  BY <1>1 DEF SentFor
<1> HIDE DEF v
<1> QED BY <1>0, <1>1, <1>3, <1>4, <1>6, <1>7, <1>8, OneSock, HubStep DEF s, PlaceInv

\* A POST is served.
LEMMA HubPostStep ==
  ASSUME ChatInv, NEW p \in posts, HubPost(p)
  PROVE  ChatInv'
<1>0. PlaceInv /\ HubInv /\ RowsInv /\ LinkInv /\ WayInv
  BY DEF ChatInv
<1> DEFINE i == Len(hist) + 1
           q == [p EXCEPT !.hub = Len(hist')]
<1>1. /\ Len(hist) < MaxHub /\ hist' = Stored(p.bot, "user", p.cid, 0, "none")
      /\ posts' = (posts \ {p}) \cup {q}
      /\ UNCHANGED <<selected, room, visit, rows, socket, uploads, aim, crossed, overtaken, fetches>>
      /\ UNCHANGED <<socks, subs, fwd, dropped, cut, left>>
      /\ visit \in Nat /\ visit' \in Nat /\ visit' = visit /\ room' = room
  BY <1>0 DEF HubPost, place, PlaceInv
<1>2. p \in PostSet /\ User(p.cid) /\ Meant(p.cid, p.bot) /\ p.cid \in Cids /\ p.bot \in Bots
  BY <1>0 DEF WayInv, GoodPosts, PostOK, PostSet
<1>3. /\ Grows /\ HubInv' /\ i \in 1..MaxHub /\ \A x : x = i => FromUser(x)'
      /\ hist'[i].bot = p.bot /\ hist'[i].cid = p.cid /\ hist'[i].run = "none"
  BY <1>0, <1>1, <1>2, StoredUser
<1>4. Len(hist') = i
  BY <1>0, <1>1, HubFacts DEF Stored
<1> HIDE DEF i
<1>5. q \in PostSet /\ q.cid = p.cid /\ q.bot = p.bot /\ q.hub = i
  <2>1. q = [p EXCEPT !.hub = i]
    BY <1>4
  <2>2. i \in 0..MaxHub
    BY <1>3
  <2> HIDE DEF q
  <2>3. q.cid = p.cid /\ q.bot = p.bot /\ q.hub = i
    BY <1>2, <2>1 DEF PostSet
  <2>4. q \in PostSet
    BY <1>2, <2>1, <2>2 DEF PostSet
  <2> QED BY <2>3, <2>4
<1> HIDE DEF q
<1>6. q \in GoodPosts'
  <2>1. \A c, b : c = p.cid /\ b = p.bot => User(c)' /\ Meant(c, b)'
    BY <1>2, <1>3, KeepUser, KeepMeant
  <2>2. \A x : x = q => PostOK(x)'
    <3> SUFFICES ASSUME NEW x, x = q PROVE PostOK(x)'
      OBVIOUS
    <3>1. User(x.cid)' /\ Meant(x.cid, x.bot)'
      BY <1>5, <2>1
    <3>2. FromUser(x.hub)'
      BY <1>3, <1>5
    <3> QED BY <1>3, <1>5, <3>1, <3>2 DEF PostOK
  <2> QED BY <1>5, <2>2 DEF GoodPosts
<1>7. /\ socks \in Seq(GoodSocks') /\ posts \subseteq GoodPosts' /\ fwd \subseteq GoodBlocks'
  BY <1>0, <1>1, <1>3, KeepWay
<1>8. \A x : SentFor(x) => SentFor(x)'
  BY <1>1, <1>5 DEF SentFor
<1>9. posts' \subseteq GoodPosts'
  BY <1>1, <1>6, <1>7
<1> QED BY <1>0, <1>1, <1>3, <1>7, <1>8, <1>9, HubStep DEF LinkInv, EchoKept, PlaceInv

\* A connection that is not the pane's ends; its runs are counted as cut.
LEMMA HubEndsStep ==
  ASSUME ChatInv, NEW n \in DOMAIN socks, HubEnds(n)
  PROVE  ChatInv'
<1>0. PlaceInv /\ HubInv /\ RowsInv /\ LinkInv /\ WayInv
  BY DEF ChatInv
<1> DEFINE s == socks[n]
           v == [s EXCEPT !.state = "gone", !.up = <<>>, !.echo = 0]
           forgotten == IF Registered(s.bot) \ {n} = {} THEN {t \in subs : hist[t].bot = s.bot} ELSE {}
<1>1. /\ s.state \in {"stale", "dead"}
      /\ socks' = [k \in DOMAIN socks |-> IF k = n THEN v ELSE socks[k]]
      /\ subs' = subs \ forgotten /\ cut' = cut \cup forgotten
      /\ UNCHANGED <<selected, room, visit, rows, socket, uploads, aim, crossed, overtaken, fetches>>
      /\ UNCHANGED <<posts, hist, fwd, dropped, left>>
      /\ visit \in Nat /\ visit' \in Nat /\ visit' = visit /\ room' = room
  BY <1>0 DEF HubEnds, Forgotten, OfRoom, Registered, place, outgoing, PlaceInv
<1>2. forgotten \subseteq subs
  OBVIOUS
<1> HIDE DEF forgotten
<1>3. Grows
  BY <1>0, <1>1, QuietGrows
<1>4. HubInv'
  BY <1>0, <1>1, <1>2, <1>3, KeepHub DEF HubInv
<1>5. /\ socks \in Seq(GoodSocks') /\ posts \subseteq GoodPosts' /\ fwd \subseteq GoodBlocks'
      /\ s \in GoodSocks'
  BY <1>0, <1>1, <1>3, KeepWay
<1>6. v \in GoodSocks'
  <2>1. \A x : x = s => [x EXCEPT !.state = "gone", !.up = <<>>, !.echo = 0] \in GoodSocks'
    BY <1>5, SockGone
  <2> QED BY <2>1
<1>7. \A x : SentFor(x) => SentFor(x)'
  BY <1>1 DEF SentFor
<1> HIDE DEF v
<1>8. s.state # "up"
  BY <1>1
<1> QED BY <1>0, <1>1, <1>3, <1>4, <1>5, <1>6, <1>7, <1>8, OneSock, HubStep DEF s, PlaceInv

\* What is stored is marked: the messages stay the ones they are.
LEMMA Marked ==
  ASSUME HubInv, UNCHANGED <<aim, crossed, cut>>, hist' = [i \in Ids |-> hist'[i]],
         \A i \in Ids :
            /\ hist'[i] \in MsgSet
            /\ hist'[i].bot = hist[i].bot /\ hist'[i].from = hist[i].from
            /\ hist'[i].cid = hist[i].cid /\ hist'[i].trace = hist[i].trace
            /\ hist'[i].text = hist[i].text
            /\ hist[i].run = "none" => hist'[i].run = "none"
            /\ hist[i].state = "failed" => hist'[i].state = "failed"
            /\ hist[i].turn # "running" => hist'[i].turn # "running"
            /\ hist[i].from = "agent" => hist'[i].state = hist[i].state
            /\ hist'[i].run = "running" => /\ hist[i].run = "running"
                                           /\ i \in subs => i \in subs'
                                           /\ hist'[i].turn = hist[i].turn,
         subs' \subseteq subs, dropped' \subseteq Ids \X Nat, DropsExplained'
  PROVE  Grows /\ HubInv'
<1>1. Len(hist) \in Nat /\ Ids = 1..Len(hist) /\ Len(hist) <= MaxHub
  BY HubFacts DEF HubInv, Ids
<1>2. hist' \in Seq(MsgSet) /\ Len(hist') = Len(hist)
  <2> DEFINE h == hist'
             n == Len(hist)
  <2>1. h \in [1..n -> MsgSet] /\ n \in Nat
    BY <1>1
  <2> HIDE DEF h, n
  <2>2. h \in Seq(MsgSet) /\ Len(h) = n
    BY <2>1
  <2> QED BY <2>2 DEF h, n
<1>3. Ids' = Ids
  BY <1>1, <1>2 DEF Ids
<1>4. Grows
  BY <1>1, <1>2 DEF Grows
<1>5. OneReply'
  BY <1>3 DEF HubInv, OneReply
<1>6. \A i \in Ids : hist'[i].run = "running" => i \in subs' \cup cut' \/ hist'[i].turn = "replying"
  BY HubFacts DEF MsgOK
<1>7. subs' \subseteq Ids' /\ dropped' \subseteq Ids' \X Nat /\ cut' \subseteq Ids'
  BY <1>3 DEF HubInv
<1>8. HubInv'
  BY <1>1, <1>2, <1>3, <1>4, <1>5, <1>6, <1>7, HubNext
<1> QED BY <1>4, <1>8

\* A block is cached, or dropped because the run is cut, was never registered or
\* has had its share.
LEMMA StreamBlockStep ==
  ASSUME ChatInv, NEW t \in Ids, StreamBlock(t)
  PROVE  ChatInv'
<1>0. PlaceInv /\ HubInv /\ RowsInv /\ LinkInv /\ WayInv
  BY DEF ChatInv
<1> DEFINE q == hist[t].sent + 1
           B == IF t \in subs /\ q <= TraceCap THEN hist[t].blocks \cup {q} ELSE hist[t].blocks
           m == [hist[t] EXCEPT !.sent = q, !.blocks = B]
<1>1. /\ UNCHANGED <<selected, room, visit, rows, socket, uploads, aim, crossed, overtaken, fetches>>
      /\ UNCHANGED <<posts, socks, subs, cut, left>>
      /\ fwd' \subseteq fwd \cup {<<t, q>>}
      /\ dropped' = IF t \in subs /\ q <= TraceCap THEN dropped ELSE dropped \cup {<<t, q>>}
      /\ visit \in Nat /\ visit' \in Nat /\ visit' = visit /\ room' = room /\ FromUser(t)
      /\ hist[t].turn = "running"
  BY <1>0 DEF StreamBlock, Running, FromUser, place, outgoing, PlaceInv
<1>2. hist[t] \in MsgSet /\ MsgOK(t) /\ DOMAIN hist = Ids /\ t \in 1..MaxHub
  BY <1>0, HubFacts
<1>3. q \in Nat /\ B \in SUBSET Nat
  BY <1>2 DEF MsgSet
<1>4. hist' = [i \in Ids |-> IF i = t THEN m ELSE hist[i]]
  <2>1. CASE t \in subs /\ q <= TraceCap
    BY <1>2, <2>1 DEF StreamBlock, MsgSet
  <2>2. CASE ~(t \in subs /\ q <= TraceCap)
    <3>1. hist' = [hist EXCEPT ![t].sent = q]
      BY <2>2 DEF StreamBlock
    <3>2. m = [hist[t] EXCEPT !.sent = q]
      BY <1>2, <2>2 DEF MsgSet
    <3> HIDE DEF m
    <3> QED BY <1>2, <3>1, <3>2
  <2> QED BY <2>1, <2>2
<1> HIDE DEF q, B
<1>5. /\ m.bot = hist[t].bot /\ m.from = hist[t].from /\ m.cid = hist[t].cid
      /\ m.trace = hist[t].trace /\ m.text = hist[t].text /\ m.run = hist[t].run
      /\ m.state = hist[t].state /\ m.turn = hist[t].turn
  BY <1>2 DEF MsgSet
<1>6. m \in MsgSet
  BY <1>2, <1>3 DEF MsgSet
<1> HIDE DEF m
<1>7. \A i \in Ids : hist'[i] = IF i = t THEN m ELSE hist[i]
  BY <1>4
<1>8. DropsExplained' /\ dropped' \subseteq Ids \X Nat
  <2>1. DropsExplained /\ dropped \subseteq Ids \X Nat
    BY <1>0 DEF HubInv
  <2>2. t \notin subs => hist[t].run # "running" \/ t \in cut
    BY <1>1, <1>2 DEF MsgOK
  <2>3. \A i \in Ids : hist'[i].run = hist[i].run
    BY <1>5, <1>7
  <2>4. dropped' \subseteq Ids \X Nat
    BY <1>1, <1>3, <2>1
  <2>5. ASSUME NEW x \in dropped'
        PROVE  hist'[x[1]].run # "running" \/ x[1] \in cut' \/ x[2] > TraceCap
    <3>1. CASE x \in dropped
      BY <1>1, <2>1, <2>3, <3>1 DEF DropsExplained
    <3>2. CASE x = <<t, q>> /\ ~(t \in subs /\ q <= TraceCap)
      <4>1. x[1] = t /\ x[2] = q /\ TraceCap \in Nat
        BY <3>2, OwnerChatAssumption
      <4> QED BY <1>1, <1>3, <2>2, <2>3, <3>2, <4>1
    <3> QED BY <1>1, <3>1, <3>2
  <2> QED BY <2>4, <2>5 DEF DropsExplained
<1>9. \A i \in Ids : hist[i] \in MsgSet
  BY <1>0, HubFacts
<1>10. Grows /\ HubInv'
  <2>1. hist' = [i \in Ids |-> hist'[i]]
    BY <1>4
  <2> QED BY <1>0, <1>1, <1>5, <1>6, <1>7, <1>8, <1>9, <2>1, Marked
<1>11. /\ socks \in Seq(GoodSocks') /\ posts \subseteq GoodPosts' /\ fwd \subseteq GoodBlocks'
  BY <1>0, <1>1, <1>10, KeepWay
<1>12. fwd' \subseteq GoodBlocks'
  <2>1. \A x : x = t => FromUser(x)'
    BY <1>1, <1>10, KeepFrom
  <2>2. <<t, q>> \in GoodBlocks'
    BY <1>2, <1>3, <2>1 DEF GoodBlocks
  <2> QED BY <1>1, <1>11, <2>2
<1>13. \A x : SentFor(x) => SentFor(x)'
  BY <1>1 DEF SentFor
<1>14. socks' \in Seq(GoodSocks') /\ posts' \subseteq GoodPosts' /\ left' \in LeftSet
  BY <1>0, <1>1, <1>11 DEF PlaceInv
<1> QED BY <1>0, <1>1, <1>10, <1>12, <1>13, <1>14, HubStep DEF LinkInv, EchoKept

\* A block is sent on to the room of its run.
LEMMA ForwardStep ==
  ASSUME ChatInv, NEW x \in fwd, Forward(x)
  PROVE  ChatInv'
<1>0. PlaceInv /\ HubInv /\ RowsInv /\ LinkInv /\ WayInv
  BY DEF ChatInv
<1> DEFINE t == x[1]
           b == hist[t].bot
           m == Frame("block", t, NoSend, x[2])
<1>1. /\ UNCHANGED <<selected, room, visit, rows, socket, uploads, aim, crossed, overtaken, fetches>>
      /\ UNCHANGED <<posts, hist, subs, dropped, cut, left>> /\ fwd' \subseteq fwd
      /\ visit \in Nat /\ visit' \in Nat /\ visit' = visit /\ room' = room
  BY <1>0 DEF Forward, place, outgoing, PlaceInv
<1>2. PICK D \in SUBSET StaleOf(b) : socks' = Push(b, <<m>>, D)
  BY DEF Forward
<1>3. FromUser(t) /\ x[2] \in Nat /\ t \in 1..MaxHub
  BY <1>0 DEF WayInv, GoodBlocks
<1>4. b \in Bots
  BY <1>0, <1>3, HubFacts DEF FromUser, MsgSet
<1>5. Grows
  BY <1>0, <1>1, QuietGrows
<1>6. HubInv'
  BY <1>0, <1>1, <1>5, KeepHub DEF HubInv
<1>7. /\ socks \in Seq(GoodSocks') /\ posts \subseteq GoodPosts' /\ fwd \subseteq GoodBlocks'
  BY <1>0, <1>1, <1>5, KeepWay
<1>8. m \in FrameSet /\ m.type = "block" /\ m.hub = t /\ m.cid = NoSend
  BY <1>3, NamesApart DEF Frame, FrameSet
<1>9. \A y : y = b => m \in Downward(y)'
  <2> HIDE DEF m
  <2>1. \A z : z = t => FromUser(z)'
    BY <1>3, <1>5, KeepFrom
  <2>2. \A z, y : z = m /\ y = b => FrameOK(z, y)'
    BY <1>1, <1>8, <2>1 DEF FrameOK
  <2> QED BY <1>8, <2>2 DEF Downward
<1> HIDE DEF m, b
<1>10. \A y : y = b => <<m>> \in Seq(Downward(y)')
  BY <1>9
<1>11. \A y : y = b =>
        /\ socks' \in Seq(GoodSocks')
        /\ socket # 0 => /\ socket \in DOMAIN socks' /\ socks'[socket].state = "up"
                         /\ socks'[socket].bot = room
                         /\ \A c : Carried(socks[socket], c) =>
                              Carried(socks'[socket], c) \/ KeptAs(c)'
                         /\ EchoKept(socks[socket], socks'[socket])
  BY <1>0, <1>2, <1>4, <1>7, <1>10, PushGood
<1>12. \A y : SentFor(y) => SentFor(y)'
  BY <1>1 DEF SentFor
<1>13. posts' \subseteq GoodPosts' /\ left' \in LeftSet /\ fwd' \subseteq GoodBlocks'
  BY <1>0, <1>1, <1>7 DEF PlaceInv
<1> QED BY <1>1, <1>5, <1>6, <1>11, <1>12, <1>13, HubStep

\* A run ends.
LEMMA StreamEndStep ==
  ASSUME ChatInv, NEW t \in Ids, StreamEnd(t)
  PROVE  ChatInv'
<1>0. PlaceInv /\ HubInv /\ RowsInv /\ LinkInv /\ WayInv
  BY DEF ChatInv
<1> DEFINE r == IF hist[t].run = "running" THEN "completed" ELSE hist[t].run
           st == IF hist[t].state = "failed" THEN "failed" ELSE "done"
           m == [hist[t] EXCEPT !.run = r, !.turn = "ended", !.state = st]
<1>1. /\ UNCHANGED <<selected, room, visit, rows, socket, uploads, aim, crossed, overtaken, fetches>>
      /\ UNCHANGED <<posts, socks, fwd, dropped, cut, left>>
      /\ subs' = subs \ {t} /\ hist[t].from = "user"
      /\ visit \in Nat /\ visit' \in Nat /\ visit' = visit /\ room' = room
  BY <1>0 DEF StreamEnd, place, outgoing, PlaceInv
<1>2. hist[t] \in MsgSet /\ DOMAIN hist = Ids
  BY <1>0, HubFacts
<1>3. hist' = [i \in Ids |-> IF i = t THEN m ELSE hist[i]]
  BY <1>2 DEF StreamEnd, Completed, MsgSet
<1>4. /\ m.bot = hist[t].bot /\ m.from = hist[t].from /\ m.cid = hist[t].cid
      /\ m.trace = hist[t].trace /\ m.text = hist[t].text /\ m.run = r
      /\ m.state = st /\ m.turn = "ended"
  BY <1>2 DEF MsgSet
<1>5. m \in MsgSet
  BY <1>2 DEF MsgSet
<1> HIDE DEF m
<1>6. \A i \in Ids : hist'[i] = IF i = t THEN m ELSE hist[i]
  BY <1>3
<1>7. DropsExplained' /\ dropped' \subseteq Ids \X Nat
  <2>1. DropsExplained /\ dropped \subseteq Ids \X Nat
    BY <1>0 DEF HubInv
  <2>2. \A i \in Ids : hist'[i].run = "running" => hist[i].run = "running"
    BY <1>4, <1>6
  <2> QED BY <1>1, <2>1, <2>2 DEF DropsExplained
<1>8. \A i \in Ids : hist[i] \in MsgSet
  BY <1>0, HubFacts
<1>9. Grows /\ HubInv'
  <2>1. hist' = [i \in Ids |-> hist'[i]]
    BY <1>3
  <2>2. \A i \in Ids :
            /\ hist'[i] \in MsgSet
            /\ hist'[i].bot = hist[i].bot /\ hist'[i].from = hist[i].from
            /\ hist'[i].cid = hist[i].cid /\ hist'[i].trace = hist[i].trace
            /\ hist'[i].text = hist[i].text
            /\ hist[i].run = "none" => hist'[i].run = "none"
            /\ hist[i].state = "failed" => hist'[i].state = "failed"
            /\ hist[i].turn # "running" => hist'[i].turn # "running"
            /\ hist[i].from = "agent" => hist'[i].state = hist[i].state
            /\ hist'[i].run = "running" => /\ hist[i].run = "running"
                                           /\ i \in subs => i \in subs'
                                           /\ hist'[i].turn = hist[i].turn
    BY <1>1, <1>4, <1>5, <1>6, <1>8
  <2> QED BY <1>0, <1>1, <1>7, <2>1, <2>2, Marked
<1>10. /\ socks \in Seq(GoodSocks') /\ posts \subseteq GoodPosts' /\ fwd \subseteq GoodBlocks'
  BY <1>0, <1>1, <1>9, KeepWay
<1>11. \A x : SentFor(x) => SentFor(x)'
  BY <1>1 DEF SentFor
<1>12. /\ socks' \in Seq(GoodSocks') /\ posts' \subseteq GoodPosts' /\ fwd' \subseteq GoodBlocks'
       /\ left' \in LeftSet
  BY <1>0, <1>1, <1>10 DEF PlaceInv
<1> QED BY <1>0, <1>1, <1>9, <1>11, <1>12, HubStep DEF LinkInv, EchoKept

\* The reply was sent on, and the cached run is completed.
LEMMA ReplySentStep ==
  ASSUME ChatInv, NEW t \in Ids, ReplySent(t)
  PROVE  ChatInv'
<1>0. PlaceInv /\ HubInv /\ RowsInv /\ LinkInv /\ WayInv
  BY DEF ChatInv
<1> DEFINE r == IF hist[t].run = "running" THEN "completed" ELSE hist[t].run
           m == [hist[t] EXCEPT !.run = r, !.turn = "replied"]
<1>1. /\ UNCHANGED <<selected, room, visit, rows, socket, uploads, aim, crossed, overtaken, fetches>>
      /\ UNCHANGED <<posts, socks, subs, fwd, dropped, cut, left>>
      /\ visit \in Nat /\ visit' \in Nat /\ visit' = visit /\ room' = room
  BY <1>0 DEF ReplySent, place, outgoing, PlaceInv
<1>2. hist[t] \in MsgSet /\ DOMAIN hist = Ids
  BY <1>0, HubFacts
<1>3. hist' = [i \in Ids |-> IF i = t THEN m ELSE hist[i]]
  BY <1>2 DEF ReplySent, Completed, MsgSet
<1>4. /\ m.bot = hist[t].bot /\ m.from = hist[t].from /\ m.cid = hist[t].cid
      /\ m.trace = hist[t].trace /\ m.text = hist[t].text /\ m.run = r
      /\ m.state = hist[t].state /\ m.turn = "replied" /\ r # "running"
  BY <1>2 DEF MsgSet
<1>5. m \in MsgSet
  BY <1>2 DEF MsgSet
<1> HIDE DEF m
<1>6. \A i \in Ids : hist'[i] = IF i = t THEN m ELSE hist[i]
  BY <1>3
<1>7. DropsExplained' /\ dropped' \subseteq Ids \X Nat
  <2>1. DropsExplained /\ dropped \subseteq Ids \X Nat
    BY <1>0 DEF HubInv
  <2>2. \A i \in Ids : hist'[i].run = "running" => hist[i].run = "running"
    BY <1>4, <1>6
  <2> QED BY <1>1, <2>1, <2>2 DEF DropsExplained
<1>8. \A i \in Ids : hist[i] \in MsgSet
  BY <1>0, HubFacts
<1>9. Grows /\ HubInv'
  <2>1. hist' = [i \in Ids |-> hist'[i]]
    BY <1>3
  <2>2. \A i \in Ids :
            /\ hist'[i] \in MsgSet
            /\ hist'[i].bot = hist[i].bot /\ hist'[i].from = hist[i].from
            /\ hist'[i].cid = hist[i].cid /\ hist'[i].trace = hist[i].trace
            /\ hist'[i].text = hist[i].text
            /\ hist[i].run = "none" => hist'[i].run = "none"
            /\ hist[i].state = "failed" => hist'[i].state = "failed"
            /\ hist[i].turn # "running" => hist'[i].turn # "running"
            /\ hist[i].from = "agent" => hist'[i].state = hist[i].state
            /\ hist'[i].run = "running" => /\ hist[i].run = "running"
                                           /\ i \in subs => i \in subs'
                                           /\ hist'[i].turn = hist[i].turn
    BY <1>1, <1>4, <1>5, <1>6, <1>8
  <2> QED BY <1>0, <1>1, <1>7, <2>1, <2>2, Marked
<1>10. /\ socks \in Seq(GoodSocks') /\ posts \subseteq GoodPosts' /\ fwd \subseteq GoodBlocks'
  BY <1>0, <1>1, <1>9, KeepWay
<1>11. \A x : SentFor(x) => SentFor(x)'
  BY <1>1 DEF SentFor
<1>12. /\ socks' \in Seq(GoodSocks') /\ posts' \subseteq GoodPosts' /\ fwd' \subseteq GoodBlocks'
       /\ left' \in LeftSet
  BY <1>0, <1>1, <1>10 DEF PlaceInv
<1> QED BY <1>0, <1>1, <1>9, <1>11, <1>12, HubStep DEF LinkInv, EchoKept

\* The agent's reply is stored, and the turn of its run is over, in the state w
\* from now on.
Replied(t, w) ==
    /\ Running(t) /\ w \in {"replying", "replied"}
    /\ hist' = [Stored(hist[t].bot, "agent", NoSend, t, "none") EXCEPT ![t].turn = w]
    /\ subs' \subseteq subs /\ \A i \in subs : i # t \/ w = "replied" => i \in subs'

\* The first reply of its run: until now its turn was running.
LEMMA StoredReply ==
  ASSUME HubInv, Len(hist) < MaxHub, NEW t \in Ids,
         UNCHANGED <<aim, crossed, dropped, cut>>, NEW w, Replied(t, w)
  PROVE  /\ Grows /\ HubInv' /\ Len(hist) + 1 \in 1..MaxHub
         /\ \A i : i = Len(hist) + 1 => FromAgent(i)'
         /\ hist'[Len(hist) + 1].bot = hist[t].bot
<1> DEFINE i == Len(hist) + 1
           b == hist[t].bot
           m == [bot |-> b, from |-> "agent", cid |-> NoSend, trace |-> t, run |-> "none",
                 text |-> "reply", blocks |-> {}, sent |-> 0, turn |-> "running",
                 state |-> "queued"]
           u == [hist[t] EXCEPT !.turn = w]
<1>1. /\ Len(hist) \in Nat /\ DOMAIN hist = Ids /\ Ids = 1..Len(hist) /\ MaxHub \in Nat
      /\ hist \in Seq(MsgSet) /\ i \in 1..MaxHub /\ t \in 1..MaxHub
      /\ hist[t] \in MsgSet /\ MsgOK(t) /\ b \in Bots /\ NoSend \in Cids
  <2>1. /\ Len(hist) \in Nat /\ DOMAIN hist = Ids /\ Ids = 1..Len(hist) /\ MaxHub \in Nat
        /\ hist \in Seq(MsgSet) /\ hist[t] \in MsgSet /\ MsgOK(t) /\ t \in 1..MaxHub
    BY HubFacts DEF HubInv, Ids
  <2>2. b \in Bots
    BY <2>1 DEF MsgSet
  <2> QED BY <2>1, <2>2, NamesApart
<1>2. hist[t].from = "user" /\ hist[t].turn = "running"
  BY DEF Replied, Running
<1>replied. /\ w \in {"replying", "replied"}
       /\ hist' = [Stored(hist[t].bot, "agent", NoSend, t, "none") EXCEPT ![t].turn = w]
       /\ subs' \subseteq subs /\ \A x \in subs : x # t \/ w = "replied" => x \in subs'
  BY DEF Replied
<1>3. Stored(b, "agent", NoSend, t, "none") = Append(hist, m)
  BY Zenon DEF Stored
<1>4. m \in MsgSet
  BY <1>1 DEF MsgSet, Texts
<1>5. /\ m.bot = b /\ m.from = "agent" /\ m.trace = t /\ m.run = "none" /\ m.state = "queued"
  OBVIOUS
<1> HIDE DEF m
<1>6. /\ u.bot = hist[t].bot /\ u.from = hist[t].from /\ u.cid = hist[t].cid
      /\ u.trace = hist[t].trace /\ u.text = hist[t].text /\ u.run = hist[t].run
      /\ u.state = hist[t].state /\ u.turn = w
  BY <1>1 DEF MsgSet
<1>7. u \in MsgSet
  BY <1>1, <1>replied DEF MsgSet
<1> DEFINE h == Append(hist, m)
<1>8. /\ h \in Seq(MsgSet) /\ Len(h) = i /\ h[i] = m /\ DOMAIN h = 1..i /\ t # i /\ t \in 1..i
      /\ \A j \in Ids : h[j] = hist[j]
  BY <1>1, <1>4
<1> HIDE DEF h
<1>9. hist' = [j \in DOMAIN h |-> IF j = t THEN u ELSE h[j]]
  <2>1. hist' = [h EXCEPT ![t].turn = w]
    BY <1>replied, <1>3 DEF h
  <2> QED BY <1>8, <2>1
<1> HIDE DEF u
<1>10. hist' \in Seq(MsgSet)
  <2>1. t \in DOMAIN h
    BY <1>8
  <2>2. [j \in DOMAIN h |-> IF j = t THEN u ELSE h[j]] \in Seq(MsgSet)
    BY <1>7, <1>8, <2>1, SocksPut
  <2> QED BY <1>9, <2>2
<1>11. /\ Len(hist') = i /\ hist'[i] = m /\ hist'[t] = u
       /\ \A j \in Ids : j # t => hist'[j] = hist[j]
  <2>1. DOMAIN hist' = 1..i /\ i \in Nat /\ i \in 1..i
    BY <1>1, <1>8, <1>9
  <2>2. Len(hist') = i
    <3> HIDE DEF i
    <3> QED BY <1>10, <2>1
  <2>3. \A j \in 1..i : hist'[j] = IF j = t THEN u ELSE h[j]
    BY <1>8, <1>9
  <2>4. \A j \in Ids : j \in 1..i
    BY <1>1
  <2> HIDE DEF i
  <2> QED BY <1>8, <2>1, <2>2, <2>3, <2>4
<1>12. Ids' = 1..i /\ (\A j \in Ids' : j \in Ids \/ j = i) /\ i \notin Ids
  BY <1>1, <1>11 DEF Ids
<1>13. Grows
  <2>1. Len(hist) \in Nat /\ Len(hist') \in Nat /\ Len(hist) <= Len(hist')
    BY <1>1, <1>11
  <2>2. ASSUME NEW j \in Ids
        PROVE  /\ hist'[j].bot = hist[j].bot /\ hist'[j].from = hist[j].from
               /\ hist'[j].cid = hist[j].cid /\ hist'[j].trace = hist[j].trace
               /\ hist'[j].text = hist[j].text
               /\ hist[j].run = "none" => hist'[j].run = "none"
               /\ hist[j].state = "failed" => hist'[j].state = "failed"
               /\ hist[j].turn # "running" => hist'[j].turn # "running"
    <3> HIDE DEF i
    <3>1. CASE j = t
      BY <1>2, <1>replied, <1>6, <1>11, <3>1
    <3>2. CASE j # t
      BY <1>11, <3>2
    <3> QED BY <3>1, <3>2
  <2> QED BY <2>1, <2>2 DEF Grows
<1>14. \A x : x = i => FromAgent(x)'
  BY <1>1, <1>5, <1>11, <1>12 DEF FromAgent
<1> HIDE DEF i
<1>15. OneReply'
  <2>1. OneReply
    BY DEF HubInv
  <2>2. \A j \in Ids : hist[j].from = "agent" => hist[j].trace # t
    BY <1>2, HubFacts DEF MsgOK
  <2>3. \A j \in Ids : hist'[j].from = hist[j].from /\ hist'[j].trace = hist[j].trace
    BY <1>13 DEF Grows
  <2>4. hist'[i].trace = t
    BY <1>5, <1>11
  <2>5. ASSUME NEW j \in Ids', NEW k \in Ids', hist'[j].from = "agent", hist'[k].from = "agent",
               hist'[j].trace = hist'[k].trace
        PROVE  j = k
    <3>1. CASE j \in Ids /\ k \in Ids
      BY <2>1, <2>3, <2>5, <3>1 DEF OneReply
    <3>2. CASE j = i /\ k \in Ids
      BY <2>2, <2>3, <2>4, <2>5, <3>2
    <3>3. CASE j \in Ids /\ k = i
      BY <2>2, <2>3, <2>4, <2>5, <3>3
    <3> QED BY <1>12, <3>1, <3>2, <3>3
  <2> QED BY <2>5 DEF OneReply
<1>16. \A j \in Ids : hist'[j].run = hist[j].run
  BY <1>6, <1>11
<1>17. DropsExplained'
  <2>1. DropsExplained /\ dropped \subseteq Ids \X Nat
    BY DEF HubInv
  <2> QED BY <1>16, <2>1 DEF DropsExplained
<1>18. \A j \in Ids : hist'[j].run = "running" =>
          j \in subs' \cup cut' \/ hist'[j].turn = "replying"
  <2> SUFFICES ASSUME NEW j \in Ids, hist'[j].run = "running"
               PROVE  j \in subs' \cup cut' \/ hist'[j].turn = "replying"
    OBVIOUS
  <2>1. j \in subs \cup cut \/ hist[j].turn = "replying"
    BY <1>16, HubFacts DEF MsgOK
  <2>2. CASE j # t
    BY <1>replied, <1>11, <2>1, <2>2
  <2>3. CASE j = t
    BY <1>2, <1>replied, <1>6, <1>11, <2>1, <2>3
  <2> QED BY <2>2, <2>3
<1>19. \A j \in Ids' : j \notin Ids => MsgOK(j)'
  <2> SUFFICES ASSUME NEW j \in Ids', j = i PROVE MsgOK(j)'
    BY <1>12
  <2>1. hist'[j].from = "agent" /\ hist'[j].trace = t /\ hist'[j].run = "none"
        /\ hist'[j].state = "queued" /\ hist'[t].turn # "running"
    BY <1>5, <1>replied, <1>6, <1>11
  <2>2. \A x : x = t => FromUser(x)'
    BY <1>2, <1>13, KeepFrom DEF FromUser
  <2>3. FromUser(hist[j].trace)'
    BY <2>1, <2>2 DEF FromUser
  <2> QED BY <2>1, <2>3 DEF MsgOK
<1>20. subs' \subseteq Ids' /\ dropped' \subseteq Ids' \X Nat /\ cut' \subseteq Ids'
  BY <1>replied, <1>13, KeepIds DEF HubInv
<1>21. \A j \in Ids : hist[j].from = "agent" => hist'[j].state = hist[j].state
  BY <1>6, <1>11
<1>22. HubInv'
  <2>1. Len(hist') <= MaxHub
    BY <1>1, <1>11
  <2> QED BY <1>10, <1>13, <1>15, <1>17, <1>18, <1>19, <1>20, <1>21, <2>1, HubNext
<1> QED BY <1>1, <1>5, <1>11, <1>13, <1>14, <1>22 DEF i

\* The agent replies.
LEMMA ReplyStep ==
  ASSUME ChatInv, NEW t \in Ids, Reply(t)
  PROVE  ChatInv'
<1>0. PlaceInv /\ HubInv /\ RowsInv /\ LinkInv /\ WayInv
  BY DEF ChatInv
<1> DEFINE b == hist[t].bot
           i == Len(hist) + 1
           w == IF Registered(b) = {} THEN "replied" ELSE "replying"
           g == Stored(b, "agent", NoSend, t, "none")
           h == [g EXCEPT ![t].turn = w]
           m == Frame("message", i, NoSend, 0)
<1>1. /\ UNCHANGED <<selected, room, visit, rows, socket, uploads, aim, crossed, overtaken, fetches>>
      /\ UNCHANGED <<posts, fwd, dropped, cut, left>> /\ Running(t) /\ Len(hist) < MaxHub
      /\ visit \in Nat /\ visit' \in Nat /\ visit' = visit /\ room' = room
  BY <1>0 DEF Reply, place, outgoing, PlaceInv
<1>2. hist[t] \in MsgSet /\ b \in Bots /\ DOMAIN hist = Ids /\ Len(hist) \in Nat /\ Ids = 1..Len(hist)
      /\ hist \in Seq(MsgSet)
  BY <1>0, HubFacts DEF MsgSet, Ids, HubInv
<1>3. /\ t \in DOMAIN g /\ g[t] = hist[t] /\ Len(g) = i /\ Len(h) = i
  <2>1. \A x : LET a == Append(hist, x) IN
           t \in DOMAIN a /\ a[t] = hist[t] /\ Len(a) = i
           /\ \A y : Len([a EXCEPT ![t] = y]) = i
    BY <1>2
  <2>2. t \in DOMAIN g /\ g[t] = hist[t] /\ Len(g) = i /\ \A y : Len([g EXCEPT ![t] = y]) = i
    BY <2>1 DEF Stored
  <2> HIDE DEF g
  <2> QED BY <2>2
<1> HIDE DEF g
<1>4. \A x : SentFor(x) => SentFor(x)'
  BY <1>1 DEF SentFor
<1>5. CASE Registered(b) = {} /\ hist' = h /\ UNCHANGED <<subs, socks>>
  <2>1. hist' = [g EXCEPT ![t].turn = "replied"]
    BY <1>5
  <2>2. Grows /\ HubInv'
    <3>1. Replied(t, "replied")
      BY <1>1, <1>5, <2>1 DEF Replied, g
    <3> QED BY <1>0, <1>1, <3>1, StoredReply
  <2>3. /\ socks \in Seq(GoodSocks') /\ posts \subseteq GoodPosts' /\ fwd \subseteq GoodBlocks'
    BY <1>0, <1>1, <2>2, KeepWay
  <2>4. /\ socks' \in Seq(GoodSocks') /\ posts' \subseteq GoodPosts' /\ fwd' \subseteq GoodBlocks'
        /\ left' \in LeftSet
    BY <1>0, <1>1, <1>5, <2>3 DEF PlaceInv
  <2> QED BY <1>0, <1>1, <1>4, <1>5, <2>2, <2>4, HubStep DEF LinkInv, EchoKept
<1>6. CASE /\ Registered(b) # {} /\ hist' = h /\ subs' = subs \ {t}
           /\ \E D \in SUBSET StaleOf(b) :
                socks' = Push(b, <<Frame("message", Len(h), NoSend, 0)>>, D)
  <2>1. PICK D \in SUBSET StaleOf(b) : socks' = Push(b, <<m>>, D)
    BY <1>3, <1>6
  <2>2. hist' = [g EXCEPT ![t].turn = "replying"]
    BY <1>6
  <2>4. /\ Grows /\ HubInv' /\ i \in 1..MaxHub /\ \A x : x = i => FromAgent(x)'
        /\ hist'[i].bot = hist[t].bot
    <3>1. Replied(t, "replying")
      BY <1>1, <1>6, <2>2 DEF Replied, g
    <3> QED BY <1>0, <1>1, <3>1, StoredReply
  <2>5. /\ socks \in Seq(GoodSocks') /\ posts \subseteq GoodPosts' /\ fwd \subseteq GoodBlocks'
    BY <1>0, <1>1, <2>4, KeepWay
  <2> HIDE DEF i
  <2>6. m \in FrameSet /\ m.type = "message" /\ m.hub = i /\ m.cid = NoSend
    BY <2>4, NamesApart DEF Frame, FrameSet
  <2>7. \A y : y = b => m \in Downward(y)'
    <3> HIDE DEF m
    <3>1. \A z, y : z = m /\ y = b => FrameOK(z, y)'
      BY <2>4, <2>6 DEF FrameOK
    <3> QED BY <2>6, <3>1 DEF Downward
  <2> HIDE DEF m, b
  <2>8. \A y : y = b => <<m>> \in Seq(Downward(y)')
    BY <2>7
  <2>9. \A y : y = b =>
        /\ socks' \in Seq(GoodSocks')
        /\ socket # 0 => /\ socket \in DOMAIN socks' /\ socks'[socket].state = "up"
                         /\ socks'[socket].bot = room
                         /\ \A c : Carried(socks[socket], c) =>
                              Carried(socks'[socket], c) \/ KeptAs(c)'
                         /\ EchoKept(socks[socket], socks'[socket])
    BY <1>0, <1>2, <2>1, <2>5, <2>8, PushGood
  <2>10. /\ posts' \subseteq GoodPosts' /\ fwd' \subseteq GoodBlocks' /\ left' \in LeftSet
    BY <1>0, <1>1, <2>5 DEF PlaceInv
  <2> QED BY <1>1, <1>4, <2>4, <2>9, <2>10, HubStep
<1> QED BY <1>5, <1>6 DEF Reply, g

\* Runs fail: what is told of them was stored before.
LEMMA RunsFailStep ==
  ASSUME ChatInv, NEW b \in Bots, RunsFail(b)
  PROVE  ChatInv'
<1>0. PlaceInv /\ HubInv /\ RowsInv /\ LinkInv /\ WayInv
  BY DEF ChatInv
<1> DEFINE T == {t \in Ids : hist[t].from = "user" /\ hist[t].bot = b /\ hist[t].state = "queued"}
           all == [t \in Ids |-> Frame("error", t, NoSend, 0)]
           frames == Picked(all, T)
           run(t) == IF hist[t].run = "none" THEN "none" ELSE "failed"
           new(t) == [hist[t] EXCEPT !.state = "failed", !.run = run(t)]
<1>1. /\ UNCHANGED <<selected, room, visit, rows, socket, uploads, aim, crossed, overtaken, fetches>>
      /\ UNCHANGED <<posts, fwd, dropped, cut>> /\ Spend("faults") /\ subs' = subs \ T
      /\ visit \in Nat /\ visit' \in Nat /\ visit' = visit /\ room' = room
  BY <1>0 DEF RunsFail, place, outgoing, PlaceInv
<1>2. PICK D \in SUBSET StaleOf(b) : socks' = Push(b, frames, D)
  BY DEF RunsFail
<1>3. hist' = [t \in Ids |-> IF t \notin T THEN hist[t] ELSE new(t)]
  BY <1>0, HubFacts DEF RunsFail, MsgSet
<1>4. \A t \in Ids : hist[t] \in MsgSet /\ t \in 0..MaxHub
  BY <1>0, HubFacts
<1>5. \A t \in Ids : /\ new(t).bot = hist[t].bot /\ new(t).from = hist[t].from
                     /\ new(t).cid = hist[t].cid /\ new(t).trace = hist[t].trace
                     /\ new(t).text = hist[t].text /\ new(t).run = run(t)
                     /\ new(t).state = "failed" /\ new(t).turn = hist[t].turn
  BY <1>4 DEF MsgSet
<1>6. \A t \in Ids : new(t) \in MsgSet
  BY <1>4 DEF MsgSet
<1>7. T \subseteq Ids /\ \A t \in T : hist[t].from = "user" /\ hist[t].bot = b
  OBVIOUS
<1>8. left' \in LeftSet
  BY <1>0, <1>1, SpendLeft DEF PlaceInv
<1> HIDE DEF new, T
<1>9. \A t \in Ids : hist'[t] = IF t \notin T THEN hist[t] ELSE new(t)
  BY <1>3
<1>10. DropsExplained' /\ dropped' \subseteq Ids \X Nat
  <2>1. DropsExplained /\ dropped \subseteq Ids \X Nat
    BY <1>0 DEF HubInv
  <2>2. \A i \in Ids : hist'[i].run = "running" => hist[i].run = "running"
    BY <1>5, <1>9
  <2> QED BY <1>1, <2>1, <2>2 DEF DropsExplained
<1>11. Grows /\ HubInv'
  <2>1. hist' = [i \in Ids |-> hist'[i]]
    BY <1>3
  <2>2. \A i \in Ids :
            /\ hist'[i] \in MsgSet
            /\ hist'[i].bot = hist[i].bot /\ hist'[i].from = hist[i].from
            /\ hist'[i].cid = hist[i].cid /\ hist'[i].trace = hist[i].trace
            /\ hist'[i].text = hist[i].text
            /\ hist[i].run = "none" => hist'[i].run = "none"
            /\ hist[i].state = "failed" => hist'[i].state = "failed"
            /\ hist[i].turn # "running" => hist'[i].turn # "running"
            /\ hist[i].from = "agent" => hist'[i].state = hist[i].state
            /\ hist'[i].run = "running" => /\ hist[i].run = "running"
                                           /\ i \in subs => i \in subs'
                                           /\ hist'[i].turn = hist[i].turn
    BY <1>1, <1>4, <1>5, <1>6, <1>7, <1>9
  <2> QED BY <1>0, <1>1, <1>10, <2>1, <2>2, Marked
<1>12. /\ socks \in Seq(GoodSocks') /\ posts \subseteq GoodPosts' /\ fwd \subseteq GoodBlocks'
  BY <1>0, <1>1, <1>11, KeepWay
<1>13. all \in Seq(FrameSet) /\ DOMAIN all = Ids
  <2>1. Len(hist) \in Nat /\ Ids = 1..Len(hist)
    BY <1>0, HubFacts DEF Ids
  <2>2. \A t \in Ids : Frame("error", t, NoSend, 0) \in FrameSet
    BY <1>4, NamesApart DEF Frame, FrameSet
  <2>3. all \in [1..Len(hist) -> FrameSet]
    BY <2>1, <2>2
  <2> HIDE DEF all
  <2>4. all \in Seq(FrameSet)
    BY <2>1, <2>3
  <2> QED BY <2>1, <2>3, <2>4
<1>14. /\ frames \in Seq(FrameSet)
       /\ \A x \in DOMAIN frames : \E k \in T : frames[x] = Frame("error", k, NoSend, 0)
  <2>1. \A k \in Ids : all[k] = Frame("error", k, NoSend, 0)
    OBVIOUS
  <2> HIDE DEF all
  <2> QED BY <1>13, <2>1, PickedFrom
<1> HIDE DEF frames
<1>15. \A x \in DOMAIN frames : frames[x] \in Downward(b)'
  <2> SUFFICES ASSUME NEW x \in DOMAIN frames PROVE frames[x] \in Downward(b)'
    OBVIOUS
  <2> DEFINE m == frames[x]
  <2>1. PICK k \in T : m = Frame("error", k, NoSend, 0)
    BY <1>14
  <2>2. m \in FrameSet
    BY <1>14
  <2>3. m.type = "error" /\ m.hub = k /\ m.cid = NoSend
    BY <2>1 DEF Frame
  <2>4. FromUser(k)' /\ hist'[k].bot = b /\ hist'[k].state = "failed"
    <3>1. FromUser(k)
      BY <1>7 DEF FromUser
    <3>2. FromUser(k)'
      BY <1>11, <3>1, KeepFrom
    <3> QED BY <1>5, <1>7, <1>9, <3>2
  <2> HIDE DEF m
  <2>5. \A z : z = m => FrameOK(z, b)'
    BY <2>3, <2>4 DEF FrameOK
  <2>6. m \in Downward(b)'
    BY <2>2, <2>5 DEF Downward
  <2> QED BY <2>6 DEF m
<1>16. frames \in Seq(Downward(b)')
  <2> DEFINE F == Downward(b)'
  <2>1. \A x \in DOMAIN frames : frames[x] \in F
    BY <1>15
  <2> HIDE DEF F
  <2>2. Len(frames) \in Nat /\ frames \in [1..Len(frames) -> F]
    BY <1>14, <2>1
  <2>3. frames \in Seq(F)
    BY <2>2
  <2> QED BY <2>3 DEF F
<1>17. /\ socks' \in Seq(GoodSocks')
       /\ socket # 0 => /\ socket \in DOMAIN socks' /\ socks'[socket].state = "up"
                        /\ socks'[socket].bot = room
                        /\ \A c : Carried(socks[socket], c) =>
                             Carried(socks'[socket], c) \/ KeptAs(c)'
                        /\ EchoKept(socks[socket], socks'[socket])
  BY <1>0, <1>2, <1>12, <1>16, PushGood
<1>18. \A y : SentFor(y) => SentFor(y)'
  BY <1>1 DEF SentFor
<1>19. posts' \subseteq GoodPosts' /\ fwd' \subseteq GoodBlocks'
  BY <1>1, <1>12
<1> QED BY <1>1, <1>8, <1>11, <1>17, <1>18, <1>19, HubStep

-----------------------------------------------------------------------------
(* The invariant *)

\* It holds to begin with, every step keeps it, and it says what is to be shown.
LEMMA ChatStarts ==
  ASSUME ChatInit
  PROVE  ChatInv
<1>1. /\ selected = First /\ room = NoBot /\ visit = 0 /\ rows = <<>> /\ socket = 0
      /\ uploads = {} /\ aim = [c \in Sends |-> NoBot] /\ posts = {} /\ fetches = {}
      /\ socks = <<>> /\ hist = <<>> /\ subs = {} /\ fwd = {}
      /\ crossed = {} /\ overtaken = {} /\ dropped = {} /\ cut = {} /\ left \in Budgets
  BY DEF ChatInit
<1>2. First \in Bots /\ MaxHub \in Nat /\ Budgets \subseteq LeftSet
  BY OwnerChatAssumption DEF LeftSet
<1>3. PlaceInv
  BY <1>1, <1>2 DEF PlaceInv
<1>4. Ids = {}
  BY <1>1 DEF Ids
<1>5. HubInv
  BY <1>1, <1>2, <1>4 DEF HubInv, OneReply, DropsExplained
<1>6. rows \in Seq(Fit(Told)) /\ socks \in Seq(GoodSocks)
  BY <1>1
<1>7. RowsInv
  BY <1>1, <1>6 DEF RowsInv, Solo
<1>8. WayInv
  BY <1>1, <1>6 DEF WayInv
<1>9. LinkInv
  BY <1>1 DEF LinkInv
<1> QED BY <1>3, <1>5, <1>7, <1>8, <1>9 DEF ChatInv

\* What the invariant says is about the variables of the state only.
LEMMA ChatStays ==
  ASSUME ChatInv, UNCHANGED chatVars
  PROVE  ChatInv'
<1>0. PlaceInv /\ HubInv /\ RowsInv /\ LinkInv /\ WayInv
  BY DEF ChatInv
<1>1. /\ UNCHANGED <<selected, room, visit, socket, uploads, aim, posts, crossed, overtaken, socks>>
      /\ UNCHANGED <<hist, subs, fwd, dropped, cut>> /\ UNCHANGED <<rows, fetches, left>>
  BY DEF chatVars, place, outgoing, runs
<1>2. rows' \in Lists(Told) /\ left' \in LeftSet
  BY <1>0, <1>1, RowsAreLists DEF PlaceInv
<1>3. fetches' \subseteq GoodFetches'
  BY <1>1, QuietFetches
<1> QED BY <1>1, <1>2, <1>3, QuietStep

LEMMA ChatKept ==
  ASSUME ChatInv, [ChatNext]_chatVars
  PROVE  ChatInv'
<1>1. ASSUME NEW b \in Bots, Select(b) PROVE ChatInv'
  BY <1>1, SelectStep
<1>2. ASSUME NEW b \in Bots, RunsFail(b) PROVE ChatInv'
  BY <1>2, RunsFailStep
<1>3. CASE Open
  BY <1>3, OpenStep
<1>4. CASE Connect
  BY <1>4, ConnectStep
<1>5. CASE Drop
  BY <1>5, DropStep
<1>6. CASE Receive
  BY <1>6, ReceiveStep
<1>7. CASE RealtimeEvent
  BY <1>7, RealtimeEventStep
<1>8. ASSUME NEW c \in Sends, Send(c) PROVE ChatInv'
  BY <1>8, SendStep
<1>9. ASSUME NEW u \in uploads, Uploaded(u) PROVE ChatInv'
  BY <1>9, UploadedStep
<1>10. ASSUME NEW k \in DOMAIN rows, Retry(k) PROVE ChatInv'
  BY <1>10, RetryStep
<1>11. ASSUME NEW p \in posts, PostAnswered(p) PROVE ChatInv'
  BY <1>11, PostAnsweredStep
<1>12. ASSUME NEW p \in posts, HubPost(p) PROVE ChatInv'
  BY <1>12, HubPostStep
<1>13. ASSUME NEW f \in fetches, Serve(f) PROVE ChatInv'
  BY <1>13, ServeStep
<1>14. ASSUME NEW f \in fetches, Apply(f) PROVE ChatInv'
  BY <1>14, ApplyStep
<1>15. ASSUME NEW f \in fetches, Lost(f) PROVE ChatInv'
  BY <1>15, LostStep
<1>16. ASSUME NEW s \in DOMAIN socks, HubSend(s) PROVE ChatInv'
  BY <1>16, HubSendStep
<1>17. ASSUME NEW s \in DOMAIN socks, HubEcho(s) PROVE ChatInv'
  BY <1>17, HubEchoStep
<1>18. ASSUME NEW s \in DOMAIN socks, HubEnds(s) PROVE ChatInv'
  BY <1>18, HubEndsStep
<1>19. ASSUME NEW t \in Ids, StreamBlock(t) PROVE ChatInv'
  BY <1>19, StreamBlockStep
<1>20. ASSUME NEW t \in Ids, Reply(t) PROVE ChatInv'
  BY <1>20, ReplyStep
<1>21. ASSUME NEW t \in Ids, StreamEnd(t) PROVE ChatInv'
  BY <1>21, StreamEndStep
<1>22. ASSUME NEW x \in fwd, Forward(x) PROVE ChatInv'
  BY <1>22, ForwardStep
<1>23. ASSUME NEW t \in Ids, ReplySent(t) PROVE ChatInv'
  BY <1>23, ReplySentStep
<1>24. CASE UNCHANGED chatVars
  BY <1>24, ChatStays
<1> QED BY <1>1, <1>2, <1>3, <1>4, <1>5, <1>6, <1>7, <1>8, <1>9, <1>10, <1>11, <1>12, <1>13,
           <1>14, <1>15, <1>16, <1>17, <1>18, <1>19, <1>20, <1>21, <1>22, <1>23, <1>24 DEF ChatNext

LEMMA ChatInvHolds ==
  ASSUME ChatInv
  PROVE  OwnerChatHolds
<1>0. PlaceInv /\ HubInv /\ RowsInv /\ LinkInv /\ WayInv
  BY DEF ChatInv
<1>1. ASSUME NEW k \in DOMAIN rows
      PROVE  /\ rows[k] \in RowSet /\ RowOK(rows[k])
             /\ rows[k].status = "optimistic" => rows[k].cid \in Told
  <2>1. rows[k] \in Fit(Told)
    BY <1>0 DEF RowsInv
  <2> QED BY <2>1 DEF Fit
<1>2. ChatTypeOK
  <2>1. Connected => socket \in DOMAIN socks /\ socks[socket].bot = room
    BY <1>0 DEF Connected, LinkInv
  <2>2. ASSUME NEW k \in DOMAIN rows
        PROVE  /\ rows[k].status \in {"optimistic", "confirmed", "streaming", "delivered", "failed"}
               /\ rows[k].hub \in Int /\ rows[k].trace \in 0..Len(hist)
               /\ rows[k].status = "streaming" => rows[k].from = "agent" /\ rows[k].hub = 0
    <3>1. rows[k] \in RowSet /\ RowOK(rows[k])
      BY <1>1
    <3>2. rows[k].trace \in 0..Len(hist)
      <4>1. rows[k].from \in {"user", "agent"} /\ Len(hist) \in Nat
        BY <1>0, <3>1, HubFacts DEF RowSet
      <4> QED BY <3>1, <4>1 DEF RowOK, FromUser, Ids
    <3> QED BY <3>1, <3>2 DEF RowSet, RowOK
  <2>3. ASSUME NEW s \in DOMAIN socks PROVE socks[s].state \in {"up", "stale", "dead", "gone"}
    <3>1. socks[s] \in GoodSocks
      BY <1>0 DEF WayInv
    <3> QED BY <3>1 DEF GoodSocks, SockSet
  <2> QED BY <1>0, <2>1, <2>2, <2>3 DEF ChatTypeOK, PlaceInv, HubInv
<1>3. RowsOfThisRoom
  <2> SUFFICES ASSUME NEW k \in DOMAIN rows PROVE rows[k].cid \in crossed \/ BotOf(rows[k]) = room
    BY DEF RowsOfThisRoom
  <2> DEFINE r == rows[k]
  <2>1. r \in RowSet /\ RowOK(r)
    BY <1>1
  <2> HIDE DEF r
  <2>2. r.from \in {"user", "agent"} /\ r.hub \in Int
    BY <2>1 DEF RowSet
  <2>3. CASE r.hub > 0
    <3>1. r.cid \in crossed \/ BotOf(r) = room
      BY <2>1, <2>3 DEF RowOK, BotOf
    <3> QED BY <3>1 DEF r
  <2>4. CASE ~(r.hub > 0) /\ r.from = "agent"
    <3>1. r.trace \in Ids /\ hist[r.trace].bot = room
      BY <2>1, <2>2, <2>4 DEF RowOK, FromUser
    <3>2. r.trace # 0
      BY <1>0, <3>1, HubFacts
    <3>3. BotOf(r) = room
      BY <2>4, <3>1, <3>2 DEF BotOf
    <3> QED BY <3>3 DEF r
  <2>5. CASE ~(r.hub > 0) /\ r.from = "user"
    <3>1. r.hub = 0 /\ r.cid \in Sends /\ r.trace = 0 /\ Meant(r.cid, room)
      BY <2>1, <2>2, <2>5 DEF RowOK
    <3>2. r.cid \in crossed \/ BotOf(r) = room
      BY <2>5, <3>1 DEF Meant, Owner, BotOf
    <3> QED BY <3>2 DEF r
  <2>6. r.cid \in crossed \/ BotOf(r) = room
    BY <2>2, <2>3, <2>4, <2>5 DEF r
  <2> QED BY <2>6 DEF r
<1>4. ConfirmedIsStored
  BY <1>1 DEF ConfirmedIsStored, RowOK, FromUser
<1>5. OneBubblePerRun
  <2> SUFFICES ASSUME NEW k \in DOMAIN rows, NEW l \in DOMAIN rows,
                      rows[k].from = "agent", rows[l].from = "agent",
                      rows[k].trace = rows[l].trace, hist[rows[k].trace].state # "failed"
               PROVE  k = l
    BY DEF OneBubblePerRun
  <2>1. rows[k].trace \in Whole
    BY <1>1 DEF RowOK, FromUser, Whole
  <2> QED BY <1>0, <2>1 DEF RowsInv, Solo
<1>6. NotLeftSending
  BY <1>1 DEF NotLeftSending, Told
<1>7. DropsExplained
  BY <1>0 DEF HubInv
<1> QED BY <1>2, <1>3, <1>4, <1>5, <1>6, <1>7 DEF OwnerChatHolds

\* The pane's list is true to what happened, whatever is lost, late or sent
\* again (useOwnerChatStore.ts, owner_chat_ws.py): a row is of the room that is
\* shown, what is shown as confirmed is stored with its text, a run that did not
\* fail has one bubble, a message still shown as being sent has its outcome on
\* its way, and the hub ignores blocks only of runs it has reason to.
THEOREM OwnerChatTrue == ChatSpec => []OwnerChatHolds
<1>1. ChatInit => ChatInv
  BY ChatStarts
<1>2. ChatInv /\ [ChatNext]_chatVars => ChatInv'
  BY ChatKept
<1>3. ChatInv => OwnerChatHolds
  BY ChatInvHolds
<1> QED BY <1>1, <1>2, <1>3, PTL DEF ChatSpec
=============================================================================
