# A TLA+ verification of BotCord

BotCord is a messaging network for AI agents. A hub (Python, FastAPI on
PostgreSQL, `backend/`) stores and routes signed messages between agents. A
daemon (TypeScript, `packages/daemon`) runs on an owner's machine or in a cloud
sandbox, polls the hub for its agents' messages, runs an agent runtime over them
and reports back. Agents pay each other in coins that the hub keeps in wallets.

This directory models the parts of that system where the order of concurrent
steps, or a failure between two of them, decides whether it is correct: TLA+
modules, TLC configurations that check them on small instances, and TLAPS proofs
of the main safety properties for every instance. `PROJECT.json` maps each
definition to its source lines.

## 1. Inventory

| Component | State | Operations | Interacts with |
|---|---|---|---|
| Hub inbox (`hub/routers/hub.py`, `hub/expiry.py`) | `message_records`: state, lease deadline (`next_retry_at`), ttl, recall | send, poll (claim or deliver), ack, renew, receipt, recall; loop: reclaim, expire | daemons (HTTP, WebSocket nudges), response runs, topics |
| Daemon channel (`gateway/channels/botcord.ts`) | seen-cache, pending handoffs, lease timers (memory only) | drain, hand off, renew, accept and ack, forget on error | hub inbox, dispatcher |
| Daemon dispatcher (`gateway/dispatcher.ts`, `wait-marker.ts`, `session-store.ts`) | per conversation: queue, buffer, generation, re-wake timer; runtime session and its file; auth breaker; typing and thinking markers | handle, run turn, cancel, buffer, park, resume, rotate, retry, stream | channel, runtimes, response runs |
| Channel supervisor (`gateway/channel-manager.ts`, `gateway.ts`) | adapters by id, run promises, restart timers, backoff | launch, restart, remove, add, stop all, inject a message | channels, control plane, dispatcher |
| Control connection (`control-channel.ts`, `hub/routers/daemon_control.py`) | socket, timer, token; the hub's registry of connections | connect, reconnect, displace, revoke, stop | provisioner, hub |
| Provisioner (`provision.ts`, `gateway-control.ts`) | `config.json`, credentials, managed routes, channels | provision, revoke, reload, upsert and remove gateways | control connection, supervisor |
| Daemon start (`daemon-singleton.ts`, `index.ts`) | pid file, lock directory, process list | start, restart, stop, release | other daemon processes |
| Response runs (`services/message_responses.py`, `message_response_states.py`) | runs with leases, per-input state, links, event ledger | queue, register, heartbeat, start, ignore, no_reply, replying, finish, record a reply | inbox records, daemons |
| Wallets (`services/wallet.py`) | balances, transactions, entries, topups, withdrawals | grant, transfer, topup, withdrawal and its review | Stripe, billing |
| Stripe checkout (`services/stripe_topup.py`) | topups, Stripe's session | create a session, fulfil (webhook, status) | wallets, Stripe |
| Subscription billing (`services/subscriptions.py`, `subscription_billing.py`) | subscriptions, charge attempts, membership | subscribe, cancel, change plan, charge batch | wallets, rooms |
| Rooms, topics, contacts, invites | membership, topic status, requests | join, leave, open, close, accept, cancel | send path |
| Presence (`services/presence.py`) | status, connection counts | connect, disconnect, cleanup | WebSockets |
| Cloud agents | provisioning state | create, pause, resume, destroy | sandbox provider, daemons |
| Gateway ingress (`packages/gateway-ingress`) | durable event rows, runtime sockets, retry worker | ingest, dispatch, retry, settle, resume | providers, hub, cloud daemons |
| Owner chat (`frontend/src/store/useOwnerChatStore.ts`, `lib/owner-chat-ws.ts`, `hub/routers/owner_chat_ws.py`) | the rows of the pane, the socket; the hub's connections, registered runs and cached blocks | send, retry, reconnect, change the bot, load, reconcile, restore; stream a block, reply, end, fail | inbox, daemons, cloud agents |
| Protocol core, CLI, frontend, desktop, mobile | client-side state | - | hub |

What is hard, and where:

- **Rows read without a lock and written by primary key.** The explicit ack, the
  expiry batch and the fulfilment of a checkout decide on what they read and
  write later; polls, receipts and other requests run in between.
- **Leases.** A claimed message belongs to a daemon until a deadline; renewals
  and acks carry no claim identity, so a daemon that lost its claim acts on its
  successor's. The same holds for the lease of a response run.
- **At-least-once delivery.** Acks and poll answers get lost, daemons restart
  and forget everything, the seen-cache is bounded.
- **Retries with unique keys.** Sends, receipts, transfers, replies and ledger
  events rely on unique constraints, and on what is rolled back when they fail.
- **Lock order.** Transfers lock two wallets, reviews lock a row and a wallet,
  the billing batch many wallets.
- **Awaits.** The daemon and the ingress run on one event loop each: whatever
  was read before an `await` may be stale after it. Messages overtake each other
  at the gates of the dispatcher, frames of the control plane are handled
  concurrently, socket events arrive after their socket was replaced.
- **Processes without a common parent.** Starts of the daemon meet through a pid
  file, a lock directory and `ps` only, none of which is atomic with the others.

What makes each component correct:

- *Inbox*: no record is lost, stuck or brought back; the sender learns of an
  expiry once; a recorded delivery was handled.
- *Response runs*: one final reply per input, final decisions, a complete and
  collision-free ledger, no input left open, no preemption through the queue.
- *Wallets*: the ledger explains the balances, locked coins are those of open
  withdrawals, a key moves money once, nobody waits in a circle.
- *Subscriptions*: a cycle is paid once, a cancelled subscription gives no
  access, one that is due is settled.
- *Dispatcher*: turns of a conversation do not overlap, the newest message
  survives, an acked text was handled or reported, every call returns; sessions
  rotate, dead ones are not resumed, the file never goes back; thinking ends.
- *Supervisor, control plane, start*: one loop per channel, one socket, one
  daemon; what was removed or stopped stays so; config, credentials and channels
  agree; after faults the daemon is connected again.
- *Ingress*: what is recorded as delivered was replied to, and every stored
  event is settled.
- *Owner chat*: rows of one room only, what is confirmed is stored, one bubble per
  run, nothing shown as being sent for good.
- *Topics, contacts, presence* (not modelled): a closed topic stays closed, a
  request is answered once, a connected agent is not "offline" for good.

## 2. Modules

### `Inbox`: the hub's message records

One message from a sender to a receiver is a row of the receiver's inbox;
receipts and the TTL error are rows of the sender's. A row is identified by
`<<message, kind>>`, which stands for the unique `(msg_id, receiver_id)`.
Variables are the columns that decide delivery (`state`, `retry` for
`next_retry_at`, `ttl`, `lastError`, `recalled`, `older` for the order of
`created_at`) and what handlers hold in memory between a read and a write
(`ackRows`, `scanned`, `loop`).

- `Send`, `PollProcessing`, `PollDelivered`, `RenewLease`, `Receipt`, `Recall`
  and `Reclaim` are one transaction each: they lock their rows, or repeat their
  condition in the UPDATE.
- `AckLoad`/`AckWrite` and `Scan`/`ExpireOne` are split where the code reads
  without a lock. `AckWrite` clears the deadline only of rows that had one when
  they were loaded, as the ORM writes changed columns only; for the same reason
  `ExpireOne` leaves `retry` alone.
- `AckAbort` and `LoopAbort` are failures and restarts of the hub.
- Deadlines count down in ticks (`Tick`).

The clients of `Inbox` are arbitrary: its theorems hold whatever they do.

### `Delivery`: hub and daemons together

`Delivery` extends `Inbox` and closes it with workers, daemon processes that
serve the same agent. Two workers are the old and the new process around a
restart, or two machines. `Drain` is the poll and the sorting of its answer in
`drainInbox`, `HandOff` what follows its acks, `EmitDone`/`EmitThrow` the end of
`emit`, and `AckSent`, `AckMissed`, `AckLost`, `AckTimedOut`, `Acked`,
`AckFailed` the ways of an ack between worker and hub. `Restart` forgets
everything. `handled` and `leaseLost` are history variables. `Skipped` are the
messages that `normalizeInbox` rejects. Every message is its own conversation,
so batches of one conversation are not modelled. The dispatcher appears as the
promise that its `handle` acks what it is done with; `TurnQueue` is about that
promise. `EmitSwallowed` is a rejection by the dispatcher as the channel sees it
through `ChannelManager.safeEmit`: not at all. The message is then given up, which
`handled` counts as dealt with (see section 4); `EmitThrow` is an emit that throws.

`AtLeastOnce` is what hub and daemons promise together, without leases, polls or
acks: a message is accepted, withdrawn, handled (perhaps more than once),
delivered, answered or failed, and is recorded as delivered only when a daemon
has dealt with it. `Delivery!Promise` instantiates it with `fate` computed from
the record (`queued` and `processing` are both "open") and `handled` as it is;
`Promise` is checked as a property of `DSpec`, so every step of the detailed
system is a step of the promise or invisible to it.

### `ResponseRuns`: decisions of an agent

Runs, inputs and replies of one agent in one room. `lock_response_agent`
serialises the requests of an agent, so a request is an action. `Transition` is
`transition` applied to all records of a request, with the unique key of the
ledger: a collision rolls the request back and sets `collided`, which a theorem
shows never to happen. Leases expire by `Tick`. `queue` repeated, requests of
unknown runs and refused requests change nothing and are not actions.

### `Wallet`: coins

A session is a database transaction with row locks (`holder`) that it takes one
at a time and drops when it ends. `sess` says what it is doing, `delta` holds its
uncommitted balance changes. Operations with a single lock are one action.
`BeginFulfill` reads the topup without a lock; `LockRow` then keeps the status
the object was loaded with, because the locked SELECT does not refresh an object
that the session already has. `BeginBatch` starts the billing batch: its charges
share a transaction, so locks accumulate in `kept`, and `SkipCharge` rolls back
to the savepoint of one charge. Wallet rows exist from the start; fees are part
of `Amount`.

### `Subscriptions`: one room subscription

Runners are transactions that charge (the billing loop, `/run-billing`), clients
are requests that resubscribe. A transaction loads the row without a lock and
its commit writes the columns that differ from what it loaded, so `Load` and
`Settle` are apart and a step of somebody else fits between. `Cancel` and
`ChangePlan` are single transactions. `paid` counts transfers per period; the
unique cycle key and the idempotency key of the transfer are what keeps it at
one.

### The dispatcher: `TurnQueue`, `Park`, `RuntimeSession`, `TurnStream`

Four views of one conversation in `dispatcher.ts`. They share no state that a
property of another view depends on: a turn of `TurnQueue` is opaque, and the
other three need of the queue only that turns follow one another, which is
`OneTurnAtATime`.

- `TurnQueue`: a call of `handle()` per message, cut at its awaits: `Arrive`
  (gates), `EnterCancel`/`PrevDone`/`TakeOver`/`DropOut` (`runCancelPrevious` with
  its generation), `EnterSerial`/`SettleDropped`/`WorkerLoop` (`runSerial` with its
  buffer, caps and worker), the turn from `BeginTurn` over `RuntimeEnds`,
  `LastCheck`, `emitOutbound` to `ReleaseSlot` (the `finally` block), and
  `safeAck`. `FactoryThrows` is an unknown runtime, `Crash` a restart.
- `Park`: `botcord wait` markers, the re-wake timers and the caps on their number
  and total.
- `RuntimeSession`: the session entry in memory, the write queue and the file;
  resume, rotation, the retry without a session and the transient retry;
  persisting at the end of a turn; the auth breaker with its admission check.
- `TurnStream`: `onBlock`, `onStatus`, typing pings and their debounce, the tool
  budget, and what the chat shows after the frames of a turn.

### Processes: `ControlChannel`, `Provision`, `ChannelManager`, `DaemonStart`, `Ingress`

- `ControlChannel`: `connect()` with the await of its token, socket events at both
  ends, the reconnect timer, the hub's registry with displacement, revocation.
- `Provision`: install with rollback, revoke, reload and gateway frames over the
  four stores that must agree; an await between the read and the write of the
  config is a step boundary. `repeated` remembers agents whose `provision_agent`
  frame came again.
- `ChannelManager`: the adapters that succeed one another under one channel id:
  `launch`, `onExit`, `scheduleRestart`, `removeOne` cut at its awaits, `stopAll`,
  and injected messages that put a relay in the channel's place.
- `DaemonStart`: processes, the pid file, the lock directory with its owner file,
  and signals. `world` fixes for a behaviour whether starts overlap and whether
  `ps` may miss processes.
- `Ingress`: event rows (durable), dispatch with its awaits of the hub and of the
  socket, the retry worker and its list, close handlers, crash and resume.

### `OwnerChat`: the owner and its bots in the dashboard

The pane with its store, the socket between browser and hub, and the hub's side,
in one module, because the properties relate all three. `rows` is the list of the
store; its functions are operators with the names of the code or of what they
return (`Echoed` is `upsertMessage` of an echo, `Finalized` is `finalizeStream`,
`Reconciled` is `reconcileAfterReconnect`). A connection in `socks` is up, stale
(the browser is gone, the hub does not know), dead (a send failed) or gone (its
handler has ended). Requests for history and for cached blocks are answered in two
steps, `Serve` at the hub and `Apply` in the store, and anything fits between;
`Wanted` is the check that the store still shows what was asked for. `Send` and
`Retry` go by socket or by POST as the callback decides that was made at the last
render; files are uploaded before. `HubSend` stores a message and registers its run
before the agent is told, and echoes it in a step of its own. `StreamBlock` caches a
block and `Forward` sends it on. `aim`, `crossed`, `dropped` and `cut` are history
variables.

`MCDispatcher`, `MCLive` and `MCProcesses` put modules side by side. They share no
variable, so a product of them says nothing that they do not say one by one;
variable `part` picks the one that moves, and the states are the sum and not the
product of theirs. No action that fairness is asked of is enabled in an initial
state, so a component that stands still is not unfair.

## 3. Runs

| Run | Config | Shows |
|---|---|---|
| `inbox_races` | `MCInbox.cfg` | one message with a result receipt, two acks in flight, arbitrary clients: deadlines, one report of an expiry, receipts forwarded, no resurrection |
| `expiry_overtaken` | `MCInboxExpiry.cfg` | violation: the expiry batch fails a message delivered since its SELECT |
| `delivery_faults` | `MCDelivery.cfg` | two workers and two faults: no double claim within a lease, recalled messages are not handed out; `Delivery` implements `AtLeastOnce`, so what is delivered was handled |
| `delivery_seen_cache` | `MCDeliverySeen.cfg` | two messages in one poll, a cache of one entry, a skipped message |
| `delivery_live` | `MCDeliveryLive.cfg` | every record is settled or recalled in the end |
| `response_runs` | `MCResponseRuns.cfg` | two runs over batches of two recallable inputs, two replies that may be sent again |
| `wallet` | `MCWallet.cfg` | three sessions with transfers both ways, the billing batch, a topup, a withdrawal: money is accounted for, keys move it once, only the batch can close a circle of waiting sessions |
| `stripe_double_credit` | `MCWalletStripe.cfg` | violation: webhook against session-status |
| `dispatcher` | `MCDispatcher.cfg` | queue (three texts, both modes, a buffer of one, a restart), session (three turns, rotation after two, breaker after one failure, a restart) and stream (two turns, three events) |
| `come_to_an_end` | `MCLive.cfg` | every `handle()` returns; re-wakes stop; a subscription with two charges, two resubscriptions, cancellation and change of plan at once is settled when due, paid once, and gives no access when cancelled |
| `owner_chat` | `MCOwnerChat.cfg` | the owner's chat under a lost socket, lost requests, a retry, an upload and a change of the bot |
| `processes` | `MCProcesses.cfg` | control connection, provisioner, supervisor, start and ingress under their faults, safety and liveness |

The invariants of a component that a run checks are conjunctions of named parts,
with its type invariant in front. What they say:

- `CoinsAccountedFor`: balances never go below zero, each is the sum of its ledger
  entries, and what is locked belongs to an open withdrawal.
- `SessionInOrder`: a dead session is not resumed (`DeadNotResumed`), a living one
  rotates (`SessionsRotate`), the breaker opens in time (`BreakerHolds`), the
  session file never goes back (`DiskMonotone`).
- `ChatIsHonest`: an aborted turn is silent but for its last marker
  (`AbortedIsSilent`), "Thinking..." ends with the turn (`NotLeftThinking`), pings
  keep their distance (`PingsSpaced`).
- `ConnectionsAgree` and `ControlSettles`: one socket, and the one the hub serves is
  registered; after a stop nothing stays open, after faults the daemon is back.
- `StoresAgree`: an installed agent works, the agents that run are those of the
  next start, a revoked agent is gone.
- `LoopsFollowFrames` and `SupervisorGoesOn`: one poll loop per channel, none after
  a removal or stop; crashed channels come back, frames are answered.
- `SingletonHolds` and `StartSucceeds`: one daemon, named by its files; every start
  gets past what a crash left behind.
- `OwnerChatHolds`: a row belongs to the room the store shows (`RowsOfThisRoom`), a
  confirmed send is a message of the hub with its text (`ConfirmedIsStored`), blocks,
  restored blocks and final share a bubble unless the run failed, whose error is a
  row of its own (`OneBubblePerRun`), the outcome of a send that is not stored is on
  its way (`NotLeftSending`), and the hub ignores a block only of a run that was
  posted, is over, or lost its last connection (`DropsExplained`).
- `RowsTellTheTruth` and `EventsSettle`: a delivered event was replied to, one that
  is being delivered has someone who will change it, every stored event ends.

The type invariants of `Inbox`, `ResponseRuns` and `TurnQueue` are theorems and are
not repeated in a run.

### Bounds

Leases and TTLs of one or two ticks are enough for a deadline to pass before,
during and after any other step, as ticks interleave freely. Two ack requests
are enough for a lost update, two workers for a double claim, one entry in the
seen-cache (`SeenCap`) for an eviction on the second message. `MaxFaults`,
`MaxLinkFaults` and `MaxMishaps` bound crashes, lost calls and lost sockets: a
second fault can hit the recovery from the first. Response runs need two inputs
for a batch to be trimmed; states with a recalled input are explored only with one
recall, a ledger of at most `RecallEvents` events and one reply (`Small`), those
without a recall in full. Three wallets and sessions allow a circle of three.

Three texts are the fewest for which one aborts a turn that already made another
wait (cancel), and for which the buffer overflows while a turn runs (serial).
`CharCap` of two messages trims a merged batch. Three attempts with
`MaxResumeTurns` of two let a session rotate and the rotated one be used again.
Three sockets are an old one whose events are late, the current one, and its
successor. Three daemon processes are a running one, one that crashed between its
files, and the one that has to get past both. Three runtime sockets do the same
for the ingress, with two events so that one of them is dispatched by the retry
worker while the other fails.

A run of the owner chat has two messages at the hub (a message and its reply, or
its copy after a retry, or two of the same text) and one block per run. Each
budget of `MCOwnerChat` allows a combination of troubles: two sends, a fault with a
retry, a fault with a change of the bot, a fault with a realtime event, an upload
with a change of the bot. A fault is a lost socket, a lost request, a refused send
or a cloud agent that does not start. More faults, switches, retries and sends at
once are left to the theorem `OwnerChatTrue`, which holds for every budget.

Sets of interchangeable values are symmetric (`SYMMETRY`), except where a liveness
property is checked.

Deadlock checking is off: all these systems may come to rest (every message
settled, every run finished, every request served, every process stopped).

### Fairness

- `Delivery`: time, the hub's expiry loop (which catches every exception and
  sleeps a fixed interval), the end of a drain, of a dispatcher turn (turns have a
  timeout), the sending of an ack and the hub's serving of requests it accepted.
  Nothing is assumed of polls or renewals: a message nobody asks for expires, and
  one that is renewed is being worked on by a turn that ends.
- `TurnQueue`: the event loop runs every callback that is ready, and a turn ends
  (its timeout aborts the runtime). `Park`: turns end and timers fire.
- `ControlChannel`: timers fire, the token of a revoked instance runs out, and a
  socket's events that are due are delivered; not that a handshake is answered.
- `ChannelManager`: restart timers fire, an adapter that was told to stop ends,
  frames go on. `DaemonStart`: a process goes on, gets its signals, and is killed
  when it ignores SIGTERM. `Ingress`: the retry interval, answers of the hub, the
  daemon and the provider; handshakes are answered unless `HandshakeHangs`.
- `Subscriptions`: the billing loop runs and its transactions end.

Faults are bounded, so they stop.

## 4. What disagrees with the code's own words

Two disagreements have a run:

- **Expiry overtaken** (`expiry.py:154`). `_expire_batch` selects "queued
  messages past their TTL" without a lock and writes them by primary key, so a
  message that was delivered in between becomes failed and its sender is told
  that it expired. `ExpiryReportedOnce` and `NoResurrection` still hold: the
  record stays settled and is reported once.
- **Stripe double credit** (`stripe_topup.py:240`). Webhook and session-status
  can both load a topup as pending; the second one waits for the row lock and
  then still trusts the status it had loaded.

The following properties are stated in the modules, are meant by a comment or a
test of the code, and fail. They are not part of a run; adding the property to
the config named, with the constants given, shows the behaviour.

| Property | Where | The code's words, and what happens |
|---|---|---|
| `NoWaitCycle` | `MCWallet.cfg` | "consistent ordering to avoid deadlock" (`wallet.py:357`): holds within a transfer, but the billing batch (`subscriptions.py:673`) keeps the locks of earlier charges. `DeadlockNeedsBatch` says that nothing else can close a circle. |
| `DeliveredWasHandled` with `handled` left alone by `EmitSwallowed` | `MCDelivery.cfg` | "reject every waiting handle so its Hub lease can expire and the message retries" (`dispatcher.ts:1663`): `safeEmit` (`channel-manager.ts:355`) swallows the rejection, the ids stay in the seen-cache, and the redelivery is acked as a duplicate. |
| `OneTerminalRecord` | `MCDispatcher.cfg` | "exactly one terminal record per turnId" (`dispatcher.ts:2605`): a turn that fails without text, or is superseded while its reply is sent, leaves two. |
| `CurrentExecutes` | `MCDispatcher.cfg` | "The currently executing turn" (`dispatcher.ts:670`): `runtimeFactory` throws at 2353, before the `try` whose `finally` frees the slot. |
| `NewestSupersedes` | `MCDispatcher.cfg` | "only the newest message reaches runTurn" (`dispatcher.ts:1473`): a message held up at a gate supersedes the turn of a newer one. |
| `DeferredNotForgotten` | `MCLive.cfg` | attachments are kept to "prepend them to the next text-bearing turn" (`dispatcher.ts:910`): when the report of that turn fails they are gone, acked. |
| `PendingParkIsKnown` | `MCLive.cfg` | "Null when no park is pending" (`dispatcher.ts:690`): a second park overwrites the timer of the first. |
| `ContinuityKept` | `MCDispatcher.cfg` | rotation is "seeded with recent-room-message recovery context" (`dispatcher.ts:80`): the old session is deleted first, and after a failed rotated turn the next one starts without context. |
| `NeverSticks` | `MCDispatcher.cfg` | a turn aborted by its tool budget is taken for a superseded one and leaves "Thinking..." behind. |
| `LoopsAreKnown` | `MCProcesses.cfg`, `Callers = {c1, c2}` | a loop that runs on after "remove" is not acceptable (`gateway-control.ts:597`): two frames for one id overlap, and the first deletes the entry of the second's new adapter. |
| `RelayIsScoped` | `MCProcesses.cfg`, `Relays = {r1, r2}` | "scoped to this call" (`cloud-gateway-runtime.ts:57`): overlapping calls restore each other's relay. |
| `InstalledWorks` without the exception of `repeated` | `MCProcesses.cfg` | the provisioner is "the authoritative dedupe boundary" (`control-channel.ts:489`): a repeated `provision_agent` fails on the registered channel and rolls back what the first one installed. |
| `RevokedStaysGone` | `MCProcesses.cfg`, `Handlers = {h1, h2}` | a provision that awaits the hub writes back the config it read before a revoke (`provision.ts:1353`). |
| `GatewaysKept` | `MCProcesses.cfg` | reload removes "agents in gateway but no longer in config" (`provision.ts:3026`): it removes third-party channels too. |
| `SelfHealing` without the exception for a hung handshake | `MCProcesses.cfg` | "self-healing WS connection" (`control-channel.ts:103`): `connect()` waits without a timeout. |
| `RevokedStops` | `MCProcesses.cfg` | a revocation between the hub's check and the registration (`daemon_control.py:1711`) reaches nobody. |
| `AtMostOneDaemon` | `MCProcesses.cfg`, a world that overlaps and where `ps` fails | "holds an atomic singleton lock until release": a starter removes by path a lock that is not the stale one it looked at. |
| `EventsSettle` | `MCProcesses.cfg`, `HandshakeHangs = TRUE` | "Retryable failures stay queued with backoff" (`orchestrator.ts:395`): the retry worker waits for the handshake. |
| `NoRetryInFlight` | `MCProcesses.cfg` | "does not retry an in-flight delivering event" (`orchestrator.test.ts:145`): the list of queued rows is stale. |
| `RepliedOnce` | `MCProcesses.cfg` | "ignores duplicate outbound complete" (`orchestrator.test.ts:339`): a dispatch that waited overwrites the row of a delivered event. |
| `CancelHolds` | `MCLive.cfg` | a charge that fails after the cancellation committed writes past_due over it (`subscriptions.py:621`). |
| `OneRowPerMessage` | `MCOwnerChat.cfg` | "Dedup by hubMsgId" (`useOwnerChatStore.ts:608`): a page that overtakes the answer of the POST (or an echo of a row that failed) shows the message twice. |
| `BlocksTaken` | `MCOwnerChat.cfg` | "both must register the trace" (`owner_chat_ws.py:215`): `send_chat_message` does not, and `_unregister_ws` forgets runs in progress. |
| `SendsReachTheirBot` | `MCOwnerChat.cfg` | a change of the bot is "a true conversation switch" (`useOwnerChatStore.ts:302`): an upload that outlives it is sent on the socket of the new bot. |
| `ReactivatesCancelled` | `MCLive.cfg` | "Reactivate cancelled subscription" (`subscriptions.py:268`): two requests that overlap both pay. |

## 5. Proofs

Every theorem below holds for every value of the constants that the named
assumptions allow. These say only what the code gives:
bounds are natural numbers (positive where the code's are), the values for
"nothing" (`None`, `NoSocket`, `NoPid`, `NoLock`, `NoChannel`, `Absent`) are none of
the things they stand beside, keys of different tables differ, ids that the pane
makes up are none of the hub's, and sets that the
code counts or sums over (sessions, withdrawals, adapters) are finite. TLC evaluates
all assumptions in the runs. Two theorems have a hypothesis on a constant of their
own and one on the initial state; they are explained where they occur.

| Module | Theorems |
|---|---|
| `ResponseRunsProofs` | `TypeCorrect`, `AnsweredOnce`, `RepliesBelong`, `LedgerNeverCollides`, `LedgerIsComplete`, `NothingLeftBehind`, `DecisionsAreFinal`, `QueueIsPolite` |
| `DeliveryProofs` | of the inbox: `TypeCorrect`, `DeadlinesHold`, `ReportedOnce`, `ReceiptsForwarded`, `SettledForever`; of hub and daemons: `ComposedIsInbox`, `DeliveryTypeCorrect`, `NothingLost`, `OneClaim`, `RecalledStays`, `DeliveryImplementsPromise` |
| `SubscriptionsProofs` | `SubTypeCorrect`, `ChargedOnce`, `NoFreePeriod`, `CancelledIsOut` |
| `WalletProofs` | `CoinsKept`, `MovedOnce`, `OnlyBatchesDeadlock` |
| `TurnQueueProofs` | `QueueTypeCorrect`, `OneTurn`, `AckAfterOutcome`, `NewestStays`, `RepliesOrdered` |
| `IngressProofs` | `RowsTrue` |
| `DaemonProofs` | `EndsAgree`, `OneDaemon`, `LoopsObey`, `StoresInStep`, `SessionsInOrder`, `StreamHonest` |
| `OwnerChatProofs` | `OwnerChatTrue` |

*ResponseRunsProofs.* `IInv` adds `OwnerHasState` (an owned input has a state),
`ActiveListed` (an undecided input is listed by its run) and `EventsBehind`, the
heart of the argument that the ledger never collides. A run moves an input only
forward while it owns it, so the events it has written for the input lie at or
before the input's present state. A run that lost the input can get it back only
by promotion from the queue, and then the only event it has written for it is
"queued". Hence the next event is always new. `DecisionsAreFinal` and
`QueueIsPolite` follow per action.

*DeliveryProofs: the inbox.* `IInv` adds to the properties two facts about rows: a row that
does not exist has no deadline, and what a handler holds in memory (`ackRows`,
`scanned`) are existing rows. Without the second a late ack could create a row;
without the first a new row could start with a deadline. The action property
`SettledForever` needs that neither reclaim nor a late write moves a settled row
back: `AckWrite` writes only settled states, `Reclaim` only touches rows that are
being processed.

*DeliveryProofs: the composition.* Every step of the composition is a step of `Inbox` or leaves it
alone (`ComposedIsInbox`), so `IInv` holds for free. `ChInv` adds what being in the
seen-cache means: a message there was dealt with or is in hand (`SeenIsDealt`), and
so was every message of an ack in flight (`AckedIsDealt`). That is why the ack of a
duplicate cannot record a delivery that nobody handled, however small the cache is.
`ClaimHolds` (a message in hand is being processed unless the lease was lost) gives
`OneClaim`. `DeliveryImplementsPromise` is the refinement: the initial states map to
initial states of `AtLeastOnce`, and each of the hub's and the daemon's steps maps to
one of its steps or to a stutter; only the steps that settle a record or record a
handling are visible.

*SubscriptionsProofs.* Charges that overlap loaded the same row (`LoadedInv`): a row
is due once, and the first of them that commits makes it not due. So late writes of
the others can set a status, which is the finding `CancelHolds` of section 4, but
neither pay a cycle again nor give access back.

*WalletProofs.* Per session: an idle one holds no lock and has no uncommitted change,
uncommitted transfers are on wallets it keeps locked and their keys are unused
(`UncommittedIsLocked`), they do not overdraw (`Covered`), a review has read the status
that the withdrawal still has (`RowKnown`), and a transfer takes its two locks in order
(`InOrder`). Nothing of the kind can be said of a topup, whose status is read before
the lock; the theorems do not need it, and section 4 has what comes of it. Sums over
ledger entries and open withdrawals need induction over finite sets, which the prover
does not have: the lemmas on `Sum` take a minimal set for which they fail and derive a
contradiction. That a circle of sessions needs a billing batch follows likewise from
the greatest wallet that is waited for.

*TurnQueueProofs.* `QInv` is about one conversation in both modes. `Slot`: an executing
turn is the one in the slot, and in serial mode the one the worker waits for.
`Generations`: in cancel mode only the last message that entered has the queue's
generation, and if it waits, it waits for the turn in the slot. `Carried` and
`Entered`: a call carries its own text and otherwise attachments, and what is buffered,
drained or sent has entered, once. `Outcome`: who is about to be acked has an outcome,
and who was drained has one or is an input of the running turn. `Order`: what was sent
entered before what is unsent, and that before what is buffered. The actions are sorted by the
shape of their effect (they move one call on, begin a turn, drain the buffer, or
queue a message), and each shape preserves each conjunct once.

*IngressProofs.* `GInv` adds that a session's socket is one that may still report
(otherwise an event could wait for a socket that is gone), that a reply which was sent
was counted, and that the list of the retry worker lives as long as its pass.

*DaemonProofs.* One section per part.

- Control connection: only the current socket is in use, and none while `connect()`
  awaits its token or a timer runs (`OnlyCurrent`), which is why late events of older
  sockets do no harm.
- Start: `OneDaemon` has the hypothesis that starts do not overlap or that `ps` does
  not fail. Both cases have an argument of their own. With a reliable `ps`, of two
  processes that have swept, the later has the earlier on its list of victims
  (`Swept`). Without overlap, a daemon that is up is named by both files, and the
  one process that starts is at the step that finds it or waits for its end
  (`InTurn`). Section 4 (`AtMostOneDaemon`) shows that the property fails when
  neither holds.
- Supervisor: `LoopsObey` is about one caller (`OneFrame`) and any number of
  adapters, restarts and relays; `RemovalEnds` and `StopEnds` say that the adapter
  which a removal or a stop waits for keeps its entry and is told to end. With two
  callers the claim fails (`LoopsAreKnown` in section 4).
- Provisioner: `StoresInStep` is about one frame at a time (`OneHandler`) and any agents
  and gateways. `JobsKnow` says what a handler may rely on after an await: the config it
  has read is still the config, the agent it revokes is not installed. With two handlers it fails
  (`RevokedStaysGone` in section 4).
- Session: what is queued for the file is in order and not older than the file
  (`FlushesInOrder`), an attempt reports on its own session (`ReportsItsOwn`), and the
  breaker is open exactly from its threshold on (`BreakerCounts`). `DiskMonotone` is an action
  property.
- Stream: while a turn runs, "Thinking..." is on the screen only when the dispatcher
  knows it (`ShownThinks`), so the end of the turn can take it back.

*OwnerChatProofs.* `ChatInv` types the state by sets that say what an item means.
`RowOK` is about a row: a message it names is stored, of the row's sender and run,
and of this room or a POST of a send that crossed over; a row of the owner that
names none has an id of the pane; a row of a run is of a run of this room. `Lists`
are the lists of such rows in which a run that did not fail has one bubble
(`Solo`), and of which those being sent have a client id in a set `O`. What a
connection may carry upward and downward, POSTs, uploads, requests and blocks on
their way are typed likewise (`GoodSocks`, `GoodPosts`, `GoodUploads`,
`GoodFetches`, `GoodBlocks`); a request of this visit is for this room, and a run to
be restored that is of another one has no blocks to bring. In the hub, a reply
follows a message whose turn is over, so a run has one (`OneReply`), and a run in
progress is registered or was cut.

Three groups of lemmas carry the proof. The first is about the store: each of its
functions takes a list in `Lists(O)` to another one, `failOptimistic` and
`confirmOptimistic` of a send even with its id taken out of `O`. The second says that
what is stored about a message only grows (`Grows`), and that an item which was good
then stays good (the `Keep` lemmas), so an action has to account only for what it adds.
The third is about `Told`, the client ids whose outcome is on its way or stored: a
step may take an id out only if no row is left that waits for it (`KeepTold`,
`KeepList`). A switch or a lost socket takes all of them, and leaves no row that is
being sent. Filtering, sorting, the pages and `mergeApiMessages` are recursive
functions; that such a function exists and stays in a set is proved once
(`Recursion`, from a least counterexample) and used for each.

Only model-checked:

- Liveness under fairness, which the prover cannot do: `EventuallySettled`,
  `EveryHandleReturns`, `EventuallyQuiet`, `DueIsSettled`, `ControlSettles`,
  `SupervisorGoesOn`, `StartSucceeds`, `EventsSettle`.

## 6. Not modelled

Signatures and authentication, policies and blocks that decide whether a message
is accepted at all, room fan-out (each receiver's record then behaves as in
`Inbox`), message contents, presence and realtime events, rate limits, the
deprecated webhook retry. A long poll that misses its wakeup is not modelled
either: it times out and fetches again. Grouping of messages of one conversation
in a drain is abstracted to conversations of one message.

Of the dispatcher, the composition of prompts, memory and transcripts; of the
provisioner, runtime discovery, workspace files and the adoption of OpenClaw
agents; of the ingress, the polling of the providers, the setup wizard and the
admin server; of Stripe checkout, the creation of the session; of the owner chat,
older pages, notifications, typing, the caps on blocks and the fan-out between
instances of the hub. Runtimes are
processes that emit events and end.

Most of the repository is user interface: dashboard pages, dialogs, translations,
the desktop shell, the mobile app, the command line. Their state is what the hub
sends and what the user is typing; there is no protocol in them to check, apart
from the owner chat (`OwnerChat`) and the dashboard's other chat stores, which
follow the same pattern. The map therefore covers a small
share of all lines, and most of those that carry the system's own protocols.

## 7. Plan

Done: `Inbox`, `Delivery` over `AtLeastOnce`, `ResponseRuns`, `Wallet`,
`Subscriptions`, the dispatcher, the daemon's processes, the ingress and the owner
chat; proofs of every safety property of the runs. Next, in this order:

1. Of the owner chat, older pages and the fan-out between instances of the hub.
2. Polling of the providers with its offsets, and the refresh of user tokens
   shared by processes.
3. `Topics` and `ContactRequests`: small state machines with races between
   members. `Presence`, schedules, cloud agents.
4. Policies (`should-wake`, access decisions) as operators checked against a
   reference definition over small settings.
