--------------------------- MODULE ChannelManager ---------------------------
(***************************************************************************)
(* The channel supervisor of the daemon and the gateway around it          *)
(* (packages/daemon/src/gateway/channel-manager.ts, gateway.ts), for the   *)
(* adapters that succeed one another under one channel id.  The control    *)
(* plane hot-plugs channels (upsert_gateway removes and adds, and          *)
(* remove_gateway removes); its frames are handled concurrently.           *)
(***************************************************************************)
EXTENDS Naturals, FiniteSets, FiniteSetsExt

CONSTANTS Adapters,    \* numbered; adapter 1 is configured at boot
          Callers,     \* control frames that may be handled at once
          Relays,      \* calls of injectInboundThrough on the same id
          MaxBackoff,  \* backoff doublings up to backoffMs.max
          NoChannel

ASSUME ChannelAssumption ==
  /\ IsFiniteSet(Adapters) /\ Adapters = 1..Cardinality(Adapters) /\ 1 \in Adapters
  /\ NoChannel \notin Adapters \cup Relays /\ MaxBackoff \in Nat

VARIABLES channel,     \* ChannelEntry of each adapter made so far
          live,        \* adapters whose start() has not settled
          backoff,     \* nextBackoff, in doublings
          entries,     \* ChannelManager.entries.get(id)
          channelMap,  \* Gateway.channelMap.get(id)
          call,        \* progress of each removeChannel / upsert call
          relay,       \* progress of each injectInboundThrough call
          stopping,    \* progress of Gateway.stop and the entry it waits for
          removed,     \* remove_gateway took effect last: no adapter was added since
          strays       \* history: adapters the maps lost sight of, see Overlaps, Hides

managerVars == <<channel, live, backoff, entries, channelMap, call, relay, stopping, removed, strays>>
front == <<channelMap, call, relay, stopping, removed, strays>>

Fresh == [state |-> "none", stopRequested |-> FALSE, timer |-> FALSE]
NoCall == [pc |-> "idle", op |-> "none", target |-> NoChannel, stops |-> FALSE, forgets |-> FALSE]
Made == {i \in Adapters : channel[i].state # "none"}

ChannelEntries == [state : {"none", "idle", "running", "stopping", "crashed"},
                   stopRequested : BOOLEAN, timer : BOOLEAN]
Calls == [pc : {"idle", "removing", "adding"}, op : {"none", "remove", "upsert"},
          target : Adapters \cup {NoChannel}, stops : BOOLEAN, forgets : BOOLEAN]

ManagerTypeOK ==
  /\ channel \in [Adapters -> ChannelEntries]
  /\ live \subseteq Made
  /\ backoff \in [Adapters -> 0..MaxBackoff]
  /\ entries \in Made \cup {NoChannel}
  /\ channelMap \in Adapters \cup Relays \cup {NoChannel}
  /\ call \in [Callers -> Calls]
  /\ relay \in [Relays -> [pc : {"idle", "busy", "done"}, previous : Adapters \cup Relays \cup {NoChannel}]]
  /\ stopping \in [pc : {"no", "waiting", "done"}, target : Adapters \cup {NoChannel}]
  /\ removed \in BOOLEAN /\ strays \subseteq Adapters
  \* A restart is pending only while the adapter is down.
  /\ \A i \in Adapters : channel[i].timer => i \notin live /\ channel[i].state \in {"idle", "crashed"}

Running == [state |-> "running", stopRequested |-> FALSE, timer |-> FALSE]

ManagerInit ==
  /\ channel = [i \in Adapters |-> IF i = 1 THEN Running ELSE Fresh]
  /\ live = {1} /\ backoff = [i \in Adapters |-> 0]
  /\ entries = 1 /\ channelMap = 1
  /\ call = [c \in Callers |-> NoCall]
  /\ relay = [r \in Relays |-> [pc |-> "idle", previous |-> NoChannel]]
  /\ stopping = [pc |-> "no", target |-> NoChannel] /\ removed = FALSE /\ strays = {}

-----------------------------------------------------------------------------
(* ChannelManager *)

launch(i) ==
  /\ channel' = [channel EXCEPT ![i] = Running]
  /\ live' = live \cup {i}

ExitState == [exit |-> "idle", crash |-> "crashed", permanent |-> "idle"]

\* start() settled.  Unless a stop was requested, or the adapter stopped for
\* good, a restart is scheduled; a long run resets the backoff.
onExit(i, how) ==
  LET stop == channel[i].stopRequested \/ how = "permanent" IN
  /\ i \in live /\ live' = live \ {i}
  /\ channel' = [channel EXCEPT ![i] = [state |-> ExitState[how], stopRequested |-> stop, timer |-> ~stop]]
  /\ IF stop THEN UNCHANGED backoff
     ELSE \E b \in {backoff[i], 0} : backoff' = [backoff EXCEPT ![i] = b]
  /\ UNCHANGED <<entries, front>>

\* The restart timer fires.
scheduleRestart(i) ==
  /\ channel[i].timer /\ ~channel[i].stopRequested
  /\ backoff' = [backoff EXCEPT ![i] = Min({@ + 1, MaxBackoff})]
  /\ launch(i)
  /\ UNCHANGED <<entries, front>>

\* Mutant of RequestStop: the pending restart is left alone.
RequestStopKeepsTimer(i) ==
  channel' = [channel EXCEPT ![i] = [@ EXCEPT !.stopRequested = TRUE,
                                       !.state = IF @ = "running" THEN "stopping" ELSE @]]

\* Common to removeOne and stopAll: no restart, and a running adapter is
\* aborted and asked to stop.
RequestStop(i) ==
  channel' = [channel EXCEPT ![i] = [stopRequested |-> TRUE, timer |-> FALSE,
                                     state |-> IF @.state = "running" THEN "stopping" ELSE @.state]]

-----------------------------------------------------------------------------
(* Gateway, driven by control frames *)

\* An upsert_gateway or remove_gateway frame: removeChannel up to its await.
\* Only the call that finds the adapter running awaits adapter.stop().
RemoveStart(c, op) ==
  /\ call[c].pc = "idle"
  /\ op = "upsert" => Made # Adapters
  /\ LET i == IF channelMap = NoChannel THEN NoChannel ELSE entries IN
     /\ call' = [call EXCEPT ![c] =
                   [pc |-> "removing", op |-> op, target |-> i, forgets |-> channelMap # NoChannel,
                    stops |-> i # NoChannel /\ channel[i].state = "running"]]
     /\ IF i = NoChannel THEN UNCHANGED channel ELSE RequestStop(i)
  /\ UNCHANGED <<live, backoff, entries, channelMap, relay, stopping, removed, strays>>

\* adapter.stop() settles; its failure is logged.
AdapterStopped(c) ==
  /\ call[c].stops /\ call' = [call EXCEPT ![c].stops = FALSE]
  /\ UNCHANGED <<channel, live, backoff, entries, channelMap, relay, stopping, removed, strays>>

\* Mutant of Awaited: an adapter that crashed while it stopped is waited for.
AwaitedIdle(c) ==
  ~call[c].stops /\ (call[c].target # NoChannel => channel[call[c].target].state = "idle")

Awaited(c) == ~call[c].stops /\ call[c].target \notin live

\* removeOne has waited: the entry of the id is deleted, whichever it is by
\* now, and removeChannel deletes the channel.
RemoveEnd(c) ==
  /\ call[c].pc = "removing" /\ Awaited(c)
  /\ entries' = IF call[c].target = NoChannel THEN entries ELSE NoChannel
  /\ channelMap' = IF call[c].forgets THEN NoChannel ELSE channelMap
  /\ IF call[c].op = "remove"
     THEN call' = [call EXCEPT ![c] = NoCall] /\ removed' = TRUE
     ELSE call' = [call EXCEPT ![c].pc = "adding"] /\ UNCHANGED removed
  /\ UNCHANGED <<channel, live, backoff, relay, stopping, strays>>

\* Another frame is in the middle of its removal, which is of the id and not
\* of an adapter: the entry it deletes may be that of the adapter added now.
Overlaps(c) == \E d \in Callers \ {c} : call[d].pc = "removing"

\* addChannel after a removal, with a fresh adapter; it throws when the
\* gateway has stopped or the id is taken.  addOne skips a known id.
AddChannel(c) ==
  /\ call[c].pc = "adding"
  /\ call' = [call EXCEPT ![c] = NoCall]
  /\ \/ /\ stopping.pc # "no" \/ channelMap # NoChannel \/ Made = Adapters
        /\ UNCHANGED <<channel, live, entries, channelMap, removed, strays>>
     \/ /\ stopping.pc = "no" /\ channelMap = NoChannel /\ Made # Adapters
        /\ LET i == Cardinality(Made) + 1 IN
           /\ channelMap' = i
           /\ IF entries = NoChannel
              THEN /\ entries' = i /\ launch(i) /\ removed' = FALSE
                   /\ strays' = IF Overlaps(c) THEN strays \cup {i} ELSE strays
              ELSE UNCHANGED <<channel, live, entries, removed, strays>>
  /\ UNCHANGED <<backoff, relay, stopping>>

\* Gateway.stop and stopAll: every entry is asked to stop ...
StopAll ==
  /\ stopping.pc = "no" /\ stopping' = [pc |-> "waiting", target |-> entries]
  /\ IF entries = NoChannel THEN UNCHANGED channel ELSE RequestStop(entries)
  /\ UNCHANGED <<live, backoff, entries, channelMap, call, relay, removed, strays>>

\* ... and once they have, the flag is reset.
StopAllEnds ==
  /\ stopping.pc = "waiting" /\ stopping.target \notin live
  /\ stopping' = [stopping EXCEPT !.pc = "done"]
  /\ IF entries = NoChannel THEN UNCHANGED channel
     ELSE channel' = [channel EXCEPT ![entries].stopRequested = FALSE]
  /\ UNCHANGED <<live, backoff, entries, channelMap, call, relay, removed, strays>>

\* injectInboundThrough puts a relay in place of the channel for one call ...
InjectStart(r) ==
  /\ relay[r].pc = "idle"
  /\ relay' = [relay EXCEPT ![r] = [pc |-> "busy", previous |-> channelMap]]
  /\ channelMap' = r
  /\ UNCHANGED <<channel, live, backoff, entries, call, stopping, removed, strays>>

\* ... and puts back what it found.  If that was nothing, and a channel was
\* added meanwhile, the gateway no longer knows it.
Hides(r) == relay[r].previous = NoChannel /\ entries # NoChannel
InjectEnd(r) ==
  /\ relay[r].pc = "busy"
  /\ relay' = [relay EXCEPT ![r].pc = "done"]
  /\ channelMap' = relay[r].previous
  /\ strays' = IF Hides(r) THEN strays \cup {entries} ELSE strays
  /\ UNCHANGED <<channel, live, backoff, entries, call, stopping, removed>>

FrameStep(c) == AdapterStopped(c) \/ RemoveEnd(c) \/ AddChannel(c)
Supervise(i) == \E how \in {"exit", "crash", "permanent"} : onExit(i, how)

ManagerNext ==
  \/ \E i \in Adapters : Supervise(i) \/ scheduleRestart(i)
  \/ \E c \in Callers : FrameStep(c) \/ \E op \in {"remove", "upsert"} : RemoveStart(c, op)
  \/ StopAll \/ StopAllEnds
  \/ \E r \in Relays : InjectStart(r) \/ InjectEnd(r)

\* Timers fire, an aborted adapter ends its run, and its stop() settles.
ManagerFairness ==
  /\ \A i \in Adapters :
       /\ WF_managerVars(scheduleRestart(i))
       /\ WF_managerVars(channel[i].stopRequested /\ Supervise(i))
  /\ \A c \in Callers : WF_managerVars(FrameStep(c))
  /\ WF_managerVars(StopAllEnds)

ManagerSpec == ManagerInit /\ [][ManagerNext]_managerVars /\ ManagerFairness

-----------------------------------------------------------------------------
(* Properties *)

\* Two poll loops of one channel would fight for the provider's updates: a
\* replacement starts only when its predecessor has ended; strays apart.
OneLoop == Cardinality(live \ strays) <= 1

\* No loop runs or will be restarted, strays apart.
NoLoop == \A i \in Adapters \ strays : i \notin live /\ ~channel[i].timer

\* "a running poll loop holding a live token after the operator clicked
\* "remove" is not [recoverable]" (gateway-control.ts): when remove_gateway has
\* had its effect no loop runs or will restart, whatever frames and injected
\* messages overlap.  The exceptions are the strays: an adapter added while
\* another frame was removing, or hidden by the end of an injected message.
RemoveIsFinal == removed => NoLoop

\* The same comment with no exception: once no frame is in progress either, a
\* removed channel has no loop.
RemovedHasNoLoop ==
  removed /\ (\A c \in Callers : call[c].pc = "idle") => live = {}

\* After Gateway.stop has returned no adapter runs, and none is restarted:
\* resetting the flag must not revive one.
StopIsFinal == stopping.pc = "done" => NoLoop

\* Loops follow the frames: one loop per channel, none after the removal or
\* after the gateway stopped, whatever exits, restart timers, overlapping frames
\* and injected messages come between; only an adapter that two overlapping
\* calls made them lose sight of is not covered (launch, onExit,
\* scheduleRestart, removeOne, addOne, stopAll, injectInboundThrough).
LoopsFollowFrames == ManagerTypeOK /\ OneLoop /\ RemoveIsFinal /\ StopIsFinal

\* "The temporary channel is scoped to this call" (cloud-gateway-runtime.ts):
\* a relay is registered only while its call is in progress.
RelayIsScoped == \A r \in Relays : channelMap = r => relay[r].pc = "busy"

\* A channel that went down, unless it stopped for good or somebody stopped
\* it, comes up again.
CrashedComesBack ==
  \A i \in Adapters : channel[i].timer ~> i \in live \/ channel[i].stopRequested \/ stopping.pc # "no"

\* Every frame is answered: removal never waits for a run that goes on.
FramesAnswered == \A c \in Callers : call[c].pc # "idle" ~> call[c].pc = "idle"

\* The supervisor goes on: crashed channels come back, and no frame waits for
\* ever (scheduleRestart, removeOne).
SupervisorGoesOn == CrashedComesBack /\ FramesAnswered
=============================================================================
