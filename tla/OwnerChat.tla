------------------------------ MODULE OwnerChat ------------------------------
(***************************************************************************)
(* The chat of an owner with its bots: the pane of the dashboard and its   *)
(* store (frontend/src/store/useOwnerChatStore.ts), the socket to the hub  *)
(* (owner-chat-ws.ts, useOwnerChatWs.ts), and the hub's side of it         *)
(* (backend/hub/routers/owner_chat_ws.py, owner_chat_cache.py).            *)
(*                                                                         *)
(* A message is told of in several ways that overtake each other: the echo *)
(* on the socket, the answer of a POST, pages of history that were asked   *)
(* for at load, after a reconnect or on a realtime event, and the cache of *)
(* a run in progress.  The store has to make one list of them.             *)
(*                                                                         *)
(* Ids: message i of the hub is hist[i], 0 is no id, and -t is the id that *)
(* failRun makes up for the error bubble of run t.  A run has the id of    *)
(* the message that triggered it.  Histories are shorter than a page, so   *)
(* loadMore has nothing to load; the dashboard's cache of pages is empty;  *)
(* a reply has text and a run one reply; blocks are execution blocks.      *)
(***************************************************************************)
EXTENDS Integers, Sequences, FiniteSets, FiniteSetsExt

CONSTANTS
    Bots,      \* the owner's bots, each with its owner-chat room
    First,     \* the bot that the pane is opened for
    Sends,     \* client ids of what the owner sends
    TextOf,    \* the text of a send
    MaxHub,    \* bound on the messages of the hub
    TraceCap,  \* _MAX_STREAM_BLOCKS_PER_TRACE
    Budgets,   \* bounds on changes of the bot, faults, retries, realtime events and
               \* the blocks of a run; the sends there are, and those with files
    NoBot, NoSend

ASSUME OwnerChatAssumption ==
    /\ First \in Bots /\ NoBot \notin Bots /\ NoSend \notin Sends
    /\ DOMAIN TextOf = Sends
    /\ \A i \in 0..MaxHub : i \notin Sends /\ i # NoSend
    /\ MaxHub \in Nat /\ TraceCap \in Nat
    /\ Budgets \subseteq [switches : Nat, faults : Nat, retries : Nat, merges : Nat,
                    blocks : Nat, sends : SUBSET Sends, files : SUBSET Sends]

VARIABLES
    selected,  \* the bot the pane is opened for
    room,      \* store.roomId: the bot whose room the store shows
    visit,     \* roomSessionId, and loadRequestId, which changes with it
    rows,      \* store.messages
    socket,    \* the authenticated connection of wsClientRef.current, 0 for none
    uploads,   \* sends whose files are being uploaded
    aim,       \* history: the bot that was selected when a send was written
    posts,     \* POSTs of /api/dashboard/chat/send that are not answered
    fetches,   \* requests for history and for cached blocks
    socks,     \* the connections as the hub has them
    hist,      \* MessageRecord of the owner-chat rooms, with the cached run of each
    subs,      \* _oc_trace_subs
    fwd,       \* blocks that are cached and not sent on yet
    crossed,   \* history: sends that went to another bot than they were written for
    overtaken, \* history: sends whose echo came after a page had shown the message
    dropped,   \* history: the blocks that the hub ignored, <<run, number>>
    cut,       \* history: runs whose last connection ended while they were running
    left       \* what is left of the budget

place == <<selected, room, visit>>
outgoing == <<uploads, aim, posts, crossed, overtaken>>
runs == <<hist, subs, fwd, dropped, cut>>
chatVars == <<place, rows, socket, outgoing, fetches, socks, runs, left>>

Ids == 1..Len(hist)
Connected == socket # 0     \* store.wsConnected
Spend(what) == left[what] > 0 /\ left' = [left EXCEPT ![what] = @ - 1]

ChatInit ==
    /\ selected = First /\ room = NoBot /\ visit = 0 /\ rows = <<>> /\ socket = 0
    /\ uploads = {} /\ aim = [c \in Sends |-> NoBot] /\ posts = {} /\ fetches = {}
    /\ socks = <<>> /\ hist = <<>> /\ subs = {} /\ fwd = {}
    /\ crossed = {} /\ overtaken = {} /\ dropped = {} /\ cut = {}
    /\ left \in Budgets

-----------------------------------------------------------------------------
(* Rows *)

\* Array.filter: the items of s at the positions in K.
Picked(s, K) ==
    LET p[n \in 0..Len(s)] ==
            IF n = 0 THEN <<>> ELSE IF n \in K THEN Append(p[n-1], s[n]) ELSE p[n-1]
    IN p[Len(s)]

Row(from, status, hub, trace) ==
    [cid |-> NoSend, hub |-> hub, from |-> from, status |-> status, lost |-> FALSE,
     trace |-> trace, blocks |-> {}, at |-> Len(hist)]

\* A client id is made by the pane, or the id of the message in the hub.
SaidBy(c) == IF c \in Sends THEN TextOf[c] ELSE hist[c].text

\* dashboardMsgToOwnerChat
FromApi(i, failed) ==
    [Row(hist[i].from, IF i \in failed THEN "failed" ELSE "delivered", i, hist[i].trace)
        EXCEPT !.at = i, !.cid = i]

\* The agent's rows of a run; most code takes the first of them, loadInitial
\* the last.
RunRows(rs, t) == {k \in DOMAIN rs : rs[k].from = "agent" /\ rs[k].trace = t}
RunRow(rs, t) == IF t = 0 \/ RunRows(rs, t) = {} THEN 0 ELSE Min(RunRows(rs, t))
LastRunRow(rs, t) == IF t = 0 \/ RunRows(rs, t) = {} THEN 0 ELSE Max(RunRows(rs, t))

Shown(rs) == {rs[k].hub : k \in DOMAIN rs} \ {0}
MapRows(Op(_)) == [k \in DOMAIN rows |-> Op(rows[k])]
OfSend(c, Op(_)) == MapRows(LAMBDA r : IF r.cid = c THEN Op(r) ELSE r)

Confirmed(r, i, at) == [r EXCEPT !.hub = i, !.status = "confirmed", !.lost = FALSE, !.at = at]
Failed(r) == IF r.status = "optimistic" THEN [r EXCEPT !.status = "failed"] ELSE r
failOptimistic(c) == OfSend(c, Failed)
confirmOptimistic(c, i) == OfSend(c, LAMBDA r : Confirmed(r, i, Len(hist)))

\* mergeFinalAgentMessage: the row keeps its blocks.
Merged(r, i) == [FromApi(i, {}) EXCEPT !.blocks = r.blocks]

\* A message of the hub that the list does not have: the final of a run takes
\* the place of the run's row.
AddFromApi(rs, i, failed) ==
    LET k == RunRow(rs, hist[i].trace)
    IN IF i \in Shown(rs) THEN rs
       ELSE IF k # 0 THEN [rs EXCEPT ![k] = Merged(rs[k], i)]
       ELSE Append(rs, FromApi(i, failed))

\* merged.sort by createdAt
ByTime(rs) ==
    LET p[n \in 0..(MaxHub + 1)] ==
            IF n = 0 THEN <<>> ELSE p[n-1] \o Picked(rs, {k \in DOMAIN rs : rs[k].at = n - 1})
    IN p[MaxHub + 1]

-----------------------------------------------------------------------------
(* Pages of history *)

\* A request of the pane.  Once it is served, upto is the newest message of
\* the hub then, and data the failed messages, or the blocks of the run.
Fetch(kind, b, v, after, trace) ==
    [kind |-> kind, bot |-> b, visit |-> v, after |-> after, trace |-> trace,
     upto |-> -1, data |-> {}]

\* GET /api/dashboard/rooms/{room_id}/messages as it was answered.
Page(f) == {i \in 1..f.upto : hist[i].bot = f.bot /\ i > f.after}

\* The messages of a page that the list does not have, the oldest or the
\* newest first.
AddPage(f, rs, oldestFirst) ==
    LET p[n \in 0..f.upto] ==
            LET i == IF oldestFirst THEN n ELSE f.upto + 1 - n
            IN IF n = 0 THEN rs
               ELSE IF i \in Page(f) THEN AddFromApi(p[n-1], i, f.data) ELSE p[n-1]
    IN p[f.upto]

\* The hub id of the last row of a kind: the cursor for what came since.
Newest(P(_)) ==
    LET I == {k \in DOMAIN rows : rows[k].hub # 0 /\ P(rows[k])}
    IN IF I = {} THEN 0 ELSE rows[Max(I)].hub

\* applyHistory of loadInitial
ApplyHistory(f) ==
    LET P == Page(f)
        pick(i) ==
            LET run == LastRunRow(rows, hist[i].trace)
                same == {k \in DOMAIN rows : rows[k].hub = i}
            IN IF run # 0 /\ rows[run].blocks # {} THEN Merged(rows[run], i)
               ELSE IF same = {} THEN FromApi(i, f.data)
               ELSE LET r == rows[Max(same)]
                    IN IF r.blocks # {} THEN Merged(r, i) ELSE r
        api == Picked([i \in 1..f.upto |-> pick(i)], P)
        traces == {hist[i].trace : i \in P} \ {0}
        kept == {k \in DOMAIN rows :
                    /\ rows[k].hub \notin P /\ rows[k].trace \notin traces
                    /\ rows[k].status \in {"optimistic", "failed", "streaming"} \/ rows[k].hub # 0}
    IN ByTime(api \o Picked(rows, kept))

WasLost(r) == r.from = "user" /\ r.status = "failed" /\ r.lost
Matches(f, r) == {i \in Page(f) : hist[i].from = "user" /\ hist[i].text = SaidBy(r.cid)}

\* reconcileAfterReconnect: a send that failed with the connection is
\* confirmed by a message of its text.
Reconciled(f) ==
    LET done == MapRows(LAMBDA r :
                    IF WasLost(r) /\ Matches(f, r) # {}
                    THEN Confirmed(r, Max(Matches(f, r)), Max(Matches(f, r))) ELSE r)
    IN AddPage(f, done, FALSE)

\* mergeApiMessages: the same, but a message confirms one send only.
MergeApi(f) ==
    LET free(n, took) ==
            IF WasLost(rows[n]) THEN Matches(f, rows[n]) \ {took[k] : k \in 1..(n-1)} ELSE {}
        p[n \in 0..Len(rows)] ==
            IF n = 0 THEN <<>>
            ELSE Append(p[n-1], IF free(n, p[n-1]) = {} THEN 0 ELSE Min(free(n, p[n-1])))
        took == p[Len(rows)]      \* the message each row takes, or 0
        done == [k \in DOMAIN rows |->
                    IF took[k] = 0 THEN rows[k] ELSE Confirmed(rows[k], took[k], took[k])]
    IN AddPage(f, done, TRUE)

-----------------------------------------------------------------------------
(* The store on what the socket tells *)

\* upsertMessage of an echo
Echoed(i, c) ==
    LET open == {k \in DOMAIN rows : rows[k].status = "optimistic"}
        mine == {k \in open : rows[k].cid = c}
        same == {k \in open : SaidBy(rows[k].cid) = hist[i].text}
    IN CASE i \in Shown(rows) -> rows
         [] i \notin Shown(rows) /\ mine \cup same = {} ->
              Append(rows, [FromApi(i, {}) EXCEPT !.cid = c, !.status = "confirmed"])
         [] OTHER -> OfSend(IF mine # {} THEN c ELSE rows[Min(same)].cid,
                            LAMBDA r : Confirmed(r, i, i))

\* finalizeStream: the row of the run keeps its client id.
Finalized(i) ==
    LET k == RunRow(rows, hist[i].trace)
    IN IF k # 0 THEN [rows EXCEPT ![k] = [Merged(rows[k], i) EXCEPT !.cid = rows[k].cid]]
       ELSE AddFromApi(rows, i, {})

\* appendStreamBlock; restoreStreamBlocks appends several.
WithBlocks(t, Q) ==
    LET k == RunRow(rows, t)
    IN IF k # 0 THEN [rows EXCEPT ![k].blocks = @ \cup Q]
       ELSE Append(rows, [Row("agent", "streaming", 0, t) EXCEPT !.blocks = Q])

\* failRun
RunFailed(t) ==
    LET marked == MapRows(LAMBDA r :
                     IF r.from = "user" /\ r.hub = t
                     THEN [r EXCEPT !.status = "failed", !.lost = FALSE] ELSE r)
        closed == Picked(marked, {k \in DOMAIN rows :
                     ~(marked[k].status = "streaming" /\ marked[k].trace = t)})
    IN IF -t \in Shown(rows) THEN closed ELSE Append(closed, Row("agent", "delivered", -t, t))

\* onDisconnect
Disconnected ==
    MapRows(LAMBDA r :
        IF r.status = "optimistic" THEN [r EXCEPT !.status = "failed", !.lost = TRUE]
        ELSE IF r.status = "streaming" THEN [r EXCEPT !.status = "delivered"]
        ELSE r)

-----------------------------------------------------------------------------
(* The pane *)

\* The connection is lost to the hub, or closed by the client: what the hub
\* sent and the client has not seen is gone, what it has not read may be read.
Unplugged(s) == IF s = 0 THEN socks ELSE [socks EXCEPT ![s].state = "stale", ![s].down = <<>>]

\* The owner selects another bot: the socket is closed and the store reset.
Select(b) ==
    /\ b # selected /\ Spend("switches")
    /\ selected' = b /\ room' = NoBot /\ visit' = visit + 1 /\ rows' = <<>>
    /\ socket' = 0 /\ socks' = Unplugged(socket)
    /\ UNCHANGED <<outgoing, fetches, runs>>

\* The room of the selected bot is known: setRoom and loadInitial.
Open ==
    /\ room = NoBot
    /\ room' = selected /\ visit' = visit + 1
    /\ fetches' = fetches \cup {Fetch("load", room', visit', 0, 0)}
    /\ UNCHANGED <<selected, rows, socket, outgoing, socks, runs, left>>

\* auth_ok: the hub registers the connection, the store reconciles.
Connect ==
    /\ room # NoBot /\ ~Connected
    /\ socks' = Append(socks, [bot |-> room, state |-> "up", up |-> <<>>, echo |-> 0, down |-> <<>>])
    /\ socket' = Len(socks')
    /\ fetches' = fetches \cup
         (IF \E k \in DOMAIN rows : WasLost(rows[k])
          THEN {Fetch("reconcile", room, visit, Newest(LAMBDA r : r.status # "failed"), 0)}
          ELSE {})
    /\ UNCHANGED <<place, rows, outgoing, runs, left>>

\* ws.onclose, of the connection or of an attempt to connect
Drop ==
    /\ room # NoBot /\ Spend("faults")
    /\ socks' = Unplugged(socket) /\ socket' = 0 /\ rows' = Disconnected
    /\ UNCHANGED <<place, outgoing, fetches, runs>>

\* sendMessage for bot b: by the socket the pane has now if the store was
\* connected when the callback was made, otherwise a POST.  A client that is
\* not authenticated reports the send as failed before the POST.
Transmit(rs, c, b, wasConnected) ==
    IF wasConnected /\ Connected
    THEN /\ socks' = [socks EXCEPT ![socket].up = Append(@, c)]
         /\ crossed' = IF socks[socket].bot = b THEN crossed ELSE crossed \cup {c}
         /\ rows' = rs /\ UNCHANGED posts
    ELSE /\ posts' = posts \cup {[cid |-> c, bot |-> b, try |-> left'.retries, hub |-> 0]}
         /\ rows' = IF wasConnected
                    THEN [k \in DOMAIN rs |-> IF rs[k].cid = c THEN Failed(rs[k]) ELSE rs[k]]
                    ELSE rs
         /\ UNCHANGED <<socks, crossed>>

\* What handleSend and handleRetry share: files are uploaded first.
Submit(rs, c, files) ==
    IF files
    THEN /\ rows' = rs
         /\ uploads' = uploads \cup
              {[cid |-> c, bot |-> room, connected |-> Connected, try |-> left'.retries]}
         /\ UNCHANGED <<posts, socks, crossed>>
    ELSE Transmit(rs, c, room, Connected) /\ UNCHANGED uploads

\* handleSend
Send(c) ==
    /\ room # NoBot /\ aim[c] = NoBot /\ c \in left.sends
    /\ aim' = [aim EXCEPT ![c] = room]
    /\ UNCHANGED left
    /\ Submit(Append(rows, [Row("user", "optimistic", 0, 0) EXCEPT !.cid = c]), c, c \in left.files)
    /\ UNCHANGED <<place, socket, overtaken, fetches, runs>>

Uploaded(u) ==
    /\ uploads' = uploads \ {u}
    /\ \/ UNCHANGED left /\ Transmit(rows, u.cid, u.bot, u.connected)
       \/ /\ Spend("faults") /\ rows' = failOptimistic(u.cid)
          /\ UNCHANGED <<posts, socks, crossed>>
    /\ UNCHANGED <<place, socket, aim, overtaken, fetches, runs>>

\* handleRetry of a send that failed; once a message was confirmed its files
\* are in the hub.
Retry(k) ==
    /\ rows[k].status = "failed" /\ Spend("retries")
    /\ Submit([rows EXCEPT ![k].status = "optimistic", ![k].lost = FALSE],
              rows[k].cid, rows[k].hub = 0 /\ rows[k].cid \in left.files)
    /\ overtaken' = overtaken \ {rows[k].cid}
    /\ UNCHANGED <<place, socket, aim, fetches, runs>>

\* The POST is answered, or fails before or after the hub stored the message.
PostAnswered(p) ==
    /\ posts' = posts \ {p}
    /\ \/ p.hub # 0 /\ rows' = confirmOptimistic(p.cid, p.hub) /\ UNCHANGED left
       \/ Spend("faults") /\ rows' = failOptimistic(p.cid)
    /\ UNCHANGED <<place, socket, uploads, aim, crossed, overtaken, fetches, socks, runs>>

\* A frame of the socket.
Receive ==
    /\ Connected /\ socks[socket].down # <<>>
    /\ LET f == Head(socks[socket].down)
       IN /\ rows' = CASE f.type = "echo" -> Echoed(f.hub, f.cid)
                       [] f.type = "message" -> Finalized(f.hub)
                       [] f.type = "block" -> WithBlocks(f.hub, {f.seq})
                       [] f.type = "error" -> RunFailed(f.hub)
                       [] f.type = "reject" -> failOptimistic(f.cid)
          /\ overtaken' = IF f.type = "echo" /\ f.hub \in Shown(rows)
                          THEN overtaken \cup {f.cid} ELSE overtaken
    /\ socks' = [socks EXCEPT ![socket].down = Tail(@)]
    /\ UNCHANGED <<place, socket, uploads, aim, posts, crossed, fetches, runs, left>>

-----------------------------------------------------------------------------
(* Requests of the pane *)

\* syncRealtimeEvent while the socket is down: one at a time.
RealtimeEvent ==
    /\ room # NoBot /\ ~Connected /\ Spend("merges")
    /\ \A f \in fetches : f.kind # "merge"
    /\ fetches' = fetches \cup {Fetch("merge", room, visit, Newest(LAMBDA r : TRUE), 0)}
    /\ UNCHANGED <<place, rows, socket, outgoing, socks, runs>>

\* The hub answers; a cursor that is no message of the room is an error (400).
Serve(f) ==
    /\ f.upto = -1
    /\ f.after = 0 \/ (f.after > 0 /\ hist[f.after].bot = f.bot)
    /\ LET failed == {i \in Ids : hist[i].state = "failed"}
           blocks == IF hist[f.trace].run = "running" THEN hist[f.trace].blocks ELSE {}
       IN fetches' = (fetches \ {f}) \cup
            {[f EXCEPT !.upto = Len(hist), !.data = IF f.trace = 0 THEN failed ELSE blocks]}
    /\ UNCHANGED <<place, rows, socket, outgoing, socks, runs, left>>

\* restoreActiveRuns: the runs that no row covers.
Restores(rs) ==
    LET open == {rs[k].hub : k \in {x \in DOMAIN rs :
                    rs[x].from = "user" /\ rs[x].status \in {"confirmed", "delivered"}}}
    IN {Fetch("restore", room, visit, 0, t) : t \in {x \in open : RunRow(rs, x) = 0}}

\* Mutant of Wanted: history is applied whatever the store shows by now.
WantedAnyVisit(f) == Page(f) # {}

\* An answer is applied unless the store has moved on.
Wanted(f) ==
    CASE f.kind = "load" -> f.visit = visit
      [] f.kind = "reconcile" -> f.visit = visit /\ Page(f) # {}
      [] f.kind = "merge" -> f.bot = room /\ ~Connected /\ Page(f) # {}
      [] f.kind = "restore" -> f.visit = visit /\ f.data # {} /\ RunRow(rows, f.trace) = 0

Apply(f) ==
    /\ f.upto # -1
    /\ rows' = IF ~Wanted(f) THEN rows
               ELSE CASE f.kind = "load" -> ApplyHistory(f)
                      [] f.kind = "reconcile" -> Reconciled(f)
                      [] f.kind = "merge" -> MergeApi(f)
                      [] f.kind = "restore" -> WithBlocks(f.trace, f.data)
    /\ fetches' = (fetches \ {f}) \cup
         (IF Wanted(f) /\ f.kind = "load" THEN Restores(rows') ELSE {})
    /\ UNCHANGED <<place, socket, outgoing, socks, runs, left>>

\* The request fails; runs are restored all the same.
Lost(f) ==
    /\ Spend("faults")
    /\ fetches' = (fetches \ {f}) \cup
         (IF f.kind = "load" /\ f.visit = visit THEN Restores(rows) ELSE {})
    /\ UNCHANGED <<place, rows, socket, outgoing, socks, runs>>

-----------------------------------------------------------------------------
(* The hub *)

\* _send_to_oc_ws: connections to which a send fails are taken off the list;
\* D are those that turn out dead.
Push(b, frames, D) ==
    [s \in DOMAIN socks |->
        IF s \in D THEN [socks[s] EXCEPT !.state = "dead"]
        ELSE IF socks[s].bot = b /\ socks[s].state = "up"
        THEN [socks[s] EXCEPT !.down = @ \o frames]
        ELSE socks[s]]
StaleOf(b) == {s \in DOMAIN socks : socks[s].bot = b /\ socks[s].state = "stale"}
Frame(type, i, c, q) == [type |-> type, hub |-> i, cid |-> c, seq |-> q]

Stored(b, from, c, trace, status) ==
    Append(hist, [bot |-> b, from |-> from, cid |-> c, trace |-> trace, run |-> status,
                  text |-> IF from = "user" THEN SaidBy(c) ELSE "reply",
                  blocks |-> {}, sent |-> 0, turn |-> "running", state |-> "queued"])

\* "send" on a socket: the message is refused, or it is stored, its run
\* registered and the agent told; then comes the echo.
HubSend(s) ==
    /\ socks[s].state # "gone" /\ socks[s].up # <<>> /\ socks[s].echo = 0
    /\ LET c == Head(socks[s].up)
           read == [socks EXCEPT ![s].up = Tail(@)]
           i == Len(hist) + 1
       IN \/ /\ i <= MaxHub
             /\ hist' = Stored(socks[s].bot, "user", c, 0, "running")
             /\ subs' = subs \cup {i}
             /\ socks' = [read EXCEPT ![s].echo = i]
             /\ UNCHANGED left
          \/ /\ Spend("faults")
             /\ socks' = IF socks[s].state = "up"
                         THEN [read EXCEPT ![s].down = Append(@, Frame("reject", 0, c, 0))]
                         ELSE read
             /\ UNCHANGED <<hist, subs>>
    /\ UNCHANGED <<place, rows, socket, outgoing, fetches, fwd, dropped, cut>>

HubEcho(s) ==
    /\ socks[s].state # "gone" /\ socks[s].echo # 0
    /\ LET f == Frame("echo", socks[s].echo, hist[socks[s].echo].cid, 0)
       IN socks' = [socks EXCEPT ![s].echo = 0,
                                 ![s].down = IF socks[s].state = "up" THEN Append(@, f) ELSE @]
    /\ UNCHANGED <<place, rows, socket, outgoing, fetches, runs, left>>

\* POST /api/dashboard/chat/send: the run is not registered.
HubPost(p) ==
    /\ p.hub = 0 /\ Len(hist) < MaxHub
    /\ hist' = Stored(p.bot, "user", p.cid, 0, "none")
    /\ posts' = (posts \ {p}) \cup {[p EXCEPT !.hub = Len(hist')]}
    /\ UNCHANGED <<place, rows, socket, uploads, aim, crossed, overtaken, fetches,
                   socks, subs, fwd, dropped, cut, left>>

Running(t) == hist[t].from = "user" /\ hist[t].turn = "running"
Registered(b) == {s \in DOMAIN socks : socks[s].bot = b /\ socks[s].state \in {"up", "stale"}}

OfRoom(b) == {t \in subs : hist[t].bot = b}

\* Mutant of Forgotten: whoever else watches the room.
ForgottenAlways(s) == OfRoom(socks[s].bot)

\* _unregister_ws: with the last connection of a room its runs are forgotten.
Forgotten(s) == IF Registered(socks[s].bot) \ {s} = {} THEN OfRoom(socks[s].bot) ELSE {}

HubEnds(s) ==
    /\ socks[s].state \in {"stale", "dead"}
    /\ socks' = [socks EXCEPT ![s].state = "gone", ![s].up = <<>>, ![s].echo = 0]
    /\ subs' = subs \ Forgotten(s)
    /\ cut' = IF \E r \in DOMAIN socks \ {s} : r \in Registered(socks[s].bot)
              THEN cut ELSE cut \cup OfRoom(socks[s].bot)
    /\ UNCHANGED <<place, rows, socket, outgoing, fetches, hist, fwd, dropped, left>>

\* POST /hub/stream-block: ignored if the run is not registered or has had as
\* many blocks as a run may have, else cached and then sent on.  What the agent
\* has sent of a registered run has been counted (_oc_trace_block_count).
StreamBlock(t) ==
    /\ Running(t) /\ hist[t].sent < left.blocks
    /\ LET q == hist[t].sent + 1
       IN IF t \in subs /\ q <= TraceCap
          THEN /\ hist' = [hist EXCEPT ![t].sent = q, ![t].blocks = @ \cup {q}]
               /\ fwd' = fwd \cup {<<t, q>>} /\ UNCHANGED dropped
          ELSE /\ hist' = [hist EXCEPT ![t].sent = q]
               /\ dropped' = dropped \cup {<<t, q>>} /\ UNCHANGED fwd
    /\ UNCHANGED <<place, rows, socket, outgoing, fetches, socks, subs, cut, left>>

Forward(x) ==
    /\ fwd' = fwd \ {x}
    /\ \E D \in SUBSET StaleOf(hist[x[1]].bot) :
         socks' = Push(hist[x[1]].bot, <<Frame("block", x[1], NoSend, x[2])>>, D)
    /\ UNCHANGED <<place, rows, socket, outgoing, fetches, hist, subs, dropped, cut, left>>

\* mark_run_completed: the first signal wins.
Completed(h, t) == [h EXCEPT ![t].run = IF @ = "running" THEN "completed" ELSE @]

\* The agent's reply (notify_oc_ws_message): without a connection the run is
\* left to stream-end; else it is forgotten, the reply sent on, ...
Reply(t) ==
    /\ Running(t) /\ Len(hist) < MaxHub
    /\ LET b == hist[t].bot
           h == [Stored(b, "agent", NoSend, t, "none") EXCEPT
                    ![t].turn = IF Registered(b) = {} THEN "replied" ELSE "replying"]
       IN /\ hist' = h
          /\ IF Registered(b) = {}
             THEN UNCHANGED <<subs, socks>>
             ELSE /\ subs' = subs \ {t}
                  /\ \E D \in SUBSET StaleOf(b) :
                       socks' = Push(b, <<Frame("message", Len(h), NoSend, 0)>>, D)
    /\ UNCHANGED <<place, rows, socket, outgoing, fetches, fwd, dropped, cut, left>>

\* ... and, when that was awaited, the cached run completed.
ReplySent(t) ==
    /\ hist[t].turn = "replying"
    /\ hist' = [Completed(hist, t) EXCEPT ![t].turn = "replied"]
    /\ UNCHANGED <<place, rows, socket, outgoing, fetches, socks, subs, fwd, dropped, cut, left>>

\* POST /hub/stream-end
StreamEnd(t) ==
    /\ hist[t].from = "user" /\ hist[t].turn # "ended"
    /\ hist' = [Completed(hist, t) EXCEPT ![t].turn = "ended",
                                          ![t].state = IF @ = "failed" THEN @ ELSE "done"]
    /\ subs' = subs \ {t}
    /\ UNCHANGED <<place, rows, socket, outgoing, fetches, socks, fwd, dropped, cut, left>>

\* A cloud agent cannot be started (notify_oc_ws_error): its messages that
\* are waiting have failed.
RunsFail(b) ==
    LET T == {t \in Ids : hist[t].from = "user" /\ hist[t].bot = b /\ hist[t].state = "queued"}
        frames == Picked([t \in Ids |-> Frame("error", t, NoSend, 0)], T)
    IN /\ T # {} /\ Spend("faults")
       /\ hist' = [t \in Ids |-> IF t \notin T THEN hist[t]
                                 ELSE [hist[t] EXCEPT !.state = "failed",
                                                      !.run = IF @ = "none" THEN @ ELSE "failed"]]
       /\ subs' = subs \ T
       /\ \E D \in SUBSET StaleOf(b) : socks' = Push(b, frames, D)
       /\ UNCHANGED <<place, rows, socket, outgoing, fetches, fwd, dropped, cut>>

-----------------------------------------------------------------------------
ChatNext ==
    \/ \E b \in Bots : Select(b) \/ RunsFail(b)
    \/ Open \/ Connect \/ Drop \/ Receive \/ RealtimeEvent
    \/ \E c \in Sends : Send(c)
    \/ \E u \in uploads : Uploaded(u)
    \/ \E k \in DOMAIN rows : Retry(k)
    \/ \E p \in posts : PostAnswered(p) \/ HubPost(p)
    \/ \E f \in fetches : Serve(f) \/ Apply(f) \/ Lost(f)
    \/ \E s \in DOMAIN socks : HubSend(s) \/ HubEcho(s) \/ HubEnds(s)
    \/ \E t \in Ids : StreamBlock(t) \/ Reply(t) \/ ReplySent(t) \/ StreamEnd(t)
    \/ \E x \in fwd : Forward(x)

ChatSpec == ChatInit /\ [][ChatNext]_chatVars

-----------------------------------------------------------------------------
(* Properties *)

BotOf(r) ==
    IF r.hub > 0 THEN hist[r.hub].bot
    ELSE IF r.trace # 0 THEN hist[r.trace].bot ELSE aim[r.cid]

\* The state of the pane, the store and the hub.
ChatTypeOK ==
    /\ selected \in Bots /\ room \in {NoBot, selected}
    /\ Connected => socket \in DOMAIN socks /\ socks[socket].bot = room
    /\ \A k \in DOMAIN rows :
         /\ rows[k].status \in {"optimistic", "confirmed", "streaming", "delivered", "failed"}
         /\ rows[k].hub \in Int /\ rows[k].trace \in 0..Len(hist)
         /\ rows[k].status = "streaming" => rows[k].from = "agent" /\ rows[k].hub = 0
    /\ \A s \in DOMAIN socks : socks[s].state \in {"up", "stale", "dead", "gone"}
    /\ Len(hist) <= MaxHub /\ subs \cup cut \subseteq Ids /\ dropped \subseteq Ids \X Nat

\* The store shows one room: whatever is late for another one, a page, a run,
\* a frame or the answer of a POST, leaves no row in it.  The exception is a
\* send that went to the wrong bot to begin with.
RowsOfThisRoom == \A k \in DOMAIN rows : rows[k].cid \in crossed \/ BotOf(rows[k]) = room

\* A send that is shown as confirmed is a message of the hub, with its text.
ConfirmedIsStored ==
    \A k \in DOMAIN rows : rows[k].status = "confirmed" =>
        /\ rows[k].hub \in Ids /\ hist[rows[k].hub].from = "user"
        /\ hist[rows[k].hub].text = SaidBy(rows[k].cid)

\* A run that did not fail has one bubble: blocks, restored blocks and the
\* final, from wherever they come, end up in it.
OneBubblePerRun ==
    \A k, l \in DOMAIN rows :
        /\ rows[k].from = "agent" /\ rows[l].from = "agent" /\ rows[k].trace = rows[l].trace
        /\ hist[rows[k].trace].state # "failed"
        => k = l

\* Something is on its way that will tell the outcome of a send.
Awaited(c) ==
    \/ \E u \in uploads \cup posts : u.cid = c
    \/ /\ Connected
       /\ LET s == socks[socket]
          IN \/ \E n \in DOMAIN s.up : s.up[n] = c
             \/ s.echo # 0 /\ hist[s.echo].cid = c
             \/ \E n \in DOMAIN s.down : s.down[n].cid = c

\* A send, a first one or a retry, is not shown as being sent for good: the
\* outcome is on its way.  The exception is an echo that upsertMessage skipped,
\* since a page of history had shown the message in another row by then.
NotLeftSending ==
    \A k \in DOMAIN rows : rows[k].status = "optimistic" =>
        Awaited(rows[k].cid) \/ rows[k].cid \in overtaken

\* The hub ignores a block only of a run that was posted or is over, or whose
\* last connection ended, or that has had all the blocks it may have.
DropsExplained ==
    \A x \in dropped : hist[x[1]].run # "running" \/ x[1] \in cut \/ x[2] > TraceCap

\* The list of the pane is true to what happened: its rows are of this room,
\* what it shows as confirmed is stored, a run has one bubble, a send that is
\* over is not shown as being sent; and what the hub leaves out is explained.
OwnerChatHolds ==
    /\ ChatTypeOK
    /\ RowsOfThisRoom /\ ConfirmedIsStored /\ OneBubblePerRun /\ NotLeftSending
    /\ DropsExplained

-----------------------------------------------------------------------------
(* What the code says and does not keep; none of it is part of a run. *)

\* "Dedup by hubMsgId" (upsertMessage): a message of the hub has one row.
OneRowPerMessage ==
    \A k, l \in DOMAIN rows : rows[k].hub # 0 /\ rows[k].hub = rows[l].hub => k = l

\* "both must register the trace so streamed blocks route to the owner's WS"
\* (register_owner_chat_run): no block of a run in progress is ignored.
BlocksTaken == \A x \in dropped : hist[x[1]].turn # "running" \/ hist[x[1]].state = "failed"

\* "Match optimistic user message by clientId" (upsertMessage): the echo of a
\* send settles its row.
EchoSettles == overtaken = {}

\* A change of the bot is "a true conversation switch" (setRoom): what was
\* written to one bot does not reach another.
SendsReachTheirBot == crossed = {}
=============================================================================
