------------------------------ MODULE Provision -----------------------------
(***************************************************************************)
(* The provisioner of the daemon (packages/daemon/src/provision.ts and     *)
(* gateway-control.ts): the control frames that install and revoke agents, *)
(* reload the config and hot-plug third-party gateways.  Four places must  *)
(* agree: config.json, the credentials directory, the managed routes and   *)
(* the channels of the running gateway.                                    *)
(*                                                                         *)
(* Frames are handled concurrently, also those for one agent; code between *)
(* two awaits that leave the process is one step.  Every write to the disk *)
(* may fail.  Where the stores may come apart is kept as history: troubles  *)
(* names the agents and gateways concerned and the reason.                 *)
(***************************************************************************)
EXTENDS Naturals, FiniteSets

CONSTANTS Agents, Profiles,
          Handlers,   \* frames that may be handled at once
          MaxFrames,  \* bound on the frames of a behaviour
          NoAgent

Names == Agents \cup Profiles

ASSUME ProvisionAssumption ==
  Agents \cap Profiles = {} /\ NoAgent \notin Names /\ MaxFrames \in Nat

VARIABLES config,       \* config.json: agents ({} means discovery), gateways, the enabled ones
          credentials,  \* agents with a credentials file
          routes,       \* agents with a managed route
          channels,     \* channels registered with the gateway
          job,          \* the frame each handler is at
          taken,        \* how many there were, up to MaxFrames
          installed,    \* provisioned, as acked to the hub, and not revoked since
          erased,       \* revoked with their data or removed, as acked; no frame for it since
          troubles       \* history: what came between, see Reasons

hub == <<installed, erased, troubles>>
provisionVars == <<config, credentials, routes, channels, job, taken, hub>>

(***************************************************************************)
(* repeated: provision_agent for an agent that runs, as for a lost ack     *)
(* crossed:  two frames for it, or a frame and a reload, were handled at   *)
(*           the same time                                                 *)
(* stale:    a provision of another agent wrote back a config that it had  *)
(*           read before this one was listed, or revoked                   *)
(* half:     the revocation could not write the config or delete the file  *)
(***************************************************************************)
Reasons == {"repeated", "crossed", "stale", "half"}
Excused(why) == {x \in Names : \E r \in why : <<x, r>> \in troubles}

Configs == [agents : SUBSET Agents, gateways : SUBSET Profiles, enabled : SUBSET Profiles]
NoConfig == [agents |-> {}, gateways |-> {}, enabled |-> {}]
NoJob == [op |-> "none", for |-> NoAgent, todo |-> {}, flag |-> FALSE, cfg |-> NoConfig]
Jobs == [op : {"none", "provision", "revoke", "reload", "upsert", "remove"},
         for : Names \cup {NoAgent},
         todo : SUBSET Names,   \* the channels it removes
         flag : BOOLEAN,        \* deleteCredentials, or enabled
         cfg : Configs]         \* the config as it was read, where it is used later

ProvisionTypeOK ==
  /\ config \in Configs
  /\ credentials \subseteq Agents /\ routes \subseteq Agents /\ channels \subseteq Names
  /\ installed \subseteq Agents /\ erased \subseteq Names /\ troubles \subseteq Names \X Reasons
  /\ job \in [Handlers -> Jobs] /\ taken \in 0..MaxFrames

\* resolveBootAgents: the agents of the config, or those found on disk.
BootAgents == IF config.agents = {} THEN credentials ELSE config.agents

ProvisionInit ==
  /\ config \in [agents : {{}} \cup {{a} : a \in Agents}, gateways : {{}}, enabled : {{}}]
  /\ credentials \in {{a} : a \in Agents} /\ config.agents \subseteq credentials
  /\ routes = credentials /\ channels = credentials
  /\ job = [h \in Handlers |-> NoJob] /\ taken = 0
  /\ installed = {} /\ erased = {} /\ troubles = {}

\* A frame for x, of the kinds ops, is being handled; or a reload will remove it.
Handling(x, ops) == \E h \in Handlers : job[h].for = x /\ job[h].op \in ops
Busy(x) == \E h \in Handlers : job[h].for = x \/ x \in job[h].todo

Takes(h, op, x, todo, flag, cfg) ==
  /\ job[h] = NoJob /\ taken < MaxFrames
  /\ taken' = taken + 1
  /\ job' = [job EXCEPT ![h] =
                [op |-> op, for |-> x, todo |-> todo, flag |-> flag, cfg |-> cfg]]
Finishes(h, op) ==
  job[h].op = op /\ job' = [job EXCEPT ![h] = NoJob] /\ UNCHANGED taken

-----------------------------------------------------------------------------
(* provision_agent *)

\* The config is read first; then come the discovery of the OpenClaw agent
\* and, without credentials in the frame, the registration at the hub.
ProvisionStart(h, a) ==
  /\ Takes(h, "provision", a, {}, FALSE, config)
  /\ erased' = erased \ {a}
  /\ troubles' = troubles \cup {<<a, r>> : r \in (IF Busy(a) THEN {"crossed"} ELSE {})
                                         \cup (IF a \in channels THEN {"repeated"} ELSE {})}
  /\ UNCHANGED <<config, credentials, routes, channels, installed>>

\* Mutant of addAgentToConfig: the agents that were discovered at boot are
\* not folded in.
addAgentUnfolded(cfg, a) ==
  IF a \in cfg.agents THEN config ELSE [cfg EXCEPT !.agents = @ \cup {a}]

\* The config on disk afterwards: the one read at the start, with the agent
\* and the agents that are live, or no write at all.
addAgentToConfig(cfg, a) ==
  LET list == cfg.agents \cup (channels \cap Agents) IN
  IF a \in list THEN config ELSE [cfg EXCEPT !.agents = list \cup {a}]

\* It lists what was revoked or removed since it was read, and not what came.
Overwritten(cfg, a) ==
  LET new == addAgentToConfig(cfg, a)
      back == (new.agents \ (config.agents \cup channels \cup {a}))
                \cup (new.gateways \ config.gateways)
      lost == config.agents \ new.agents
  IN troubles \cup {<<x, "stale">> : x \in back \cup lost}

removeAgentFromConfig(cfg, a) == [cfg EXCEPT !.agents = @ \ {a}]

\* Credentials, workspace, config, route, channel: one synchronous step.
installLocalAgent(cfg, a) ==
  /\ a \notin channels
  /\ credentials' = credentials \cup {a}
  /\ config' = addAgentToConfig(cfg, a)
  /\ routes' = routes \cup {a} /\ channels' = channels \cup {a}
  /\ installed' = installed \cup {a}
  /\ troubles' = Overwritten(cfg, a)
  /\ UNCHANGED erased

\* addChannel throws, for an id that is registered, a gateway that was stopped
\* or an adapter that cannot be made.  What was written before is taken back,
\* as far as the disk lets it.
RollBack(cfg, a) ==
  LET new == addAgentToConfig(cfg, a) IN
  /\ routes' = routes \ {a}
  /\ config' \in {new, removeAgentFromConfig(new, a)}
  /\ credentials' \in {credentials \ {a}, credentials \cup {a}}
  /\ troubles' = Overwritten(cfg, a)
  /\ UNCHANGED <<channels, installed, erased>>

\* The workspace or the config cannot be written: the credentials go, or stay.
InstallFails(a) ==
  /\ credentials' \in {credentials \ {a}, credentials \cup {a}}
  /\ UNCHANGED <<config, routes, channels, hub>>

ProvisionEnd(h) ==
  LET cfg == job[h].cfg
      a == job[h].for
  IN /\ Finishes(h, "provision")
     /\ installLocalAgent(cfg, a) \/ RollBack(cfg, a) \/ InstallFails(a)

-----------------------------------------------------------------------------
(* revoke_agent, reload_config *)

\* removeChannel is awaited before anything else changes; it returns at once
\* for an id that is not registered.
RevokeStart(h, a, deletes) ==
  /\ Takes(h, "revoke", a, {a} \cap channels, deletes, NoConfig)
  /\ installed' = installed \ {a} /\ erased' = erased \ {a}
  /\ troubles' = troubles \cup {<<x, "crossed">> : x \in {y \in {a} : Handling(y, {"provision"})}}
  /\ UNCHANGED <<config, credentials, routes, channels>>

\* With x out of the config and its channel gone, and no other frame for it,
\* what went wrong before is over.
Forgotten(h, x) ==
  IF \/ x \in config'.agents \cup config'.gateways \cup channels'
     \/ x \in installed \/ (x \in erased' \cap credentials')
     \/ \E other \in Handlers \ {h} : job[other].for = x
  THEN {} ELSE {x} \X Reasons

\* The rest is one step on the config as it is now.  The frame is acked, with
\* what was deleted, also when the config or the file was not.
RevokeEnd(h) ==
  LET a == job[h].for IN
  /\ Finishes(h, "revoke")
  /\ channels' = channels \ job[h].todo /\ routes' = routes \ {a}
  /\ config' \in {removeAgentFromConfig(config, a), config}
  /\ credentials' \in {credentials} \cup (IF job[h].flag THEN {credentials \ {a}} ELSE {})
  /\ erased' = IF job[h].flag THEN erased \cup {a} ELSE erased
  /\ troubles' = (troubles \ Forgotten(h, a))
                  \cup {<<x, "half">> : x \in {a} \cap erased'
                                                  \cap (credentials' \cup config'.agents)}
  /\ UNCHANGED installed

\* reload_config adds the channels of the agents the config names, but for some
\* it cannot make; every other channel there is will be removed in turn.
ReloadStart(h) ==
  \E added \in SUBSET (config.agents \ channels) :
    /\ channels' = channels \cup added
    /\ Takes(h, "reload", NoAgent, channels \ config.agents, FALSE, NoConfig)
    /\ troubles' = troubles \cup {<<a, "crossed">> : a \in {x \in added : Busy(x)}}
    /\ UNCHANGED <<config, credentials, routes, installed, erased>>

ReloadRemove(h, c) ==
  /\ job[h].op = "reload" /\ c \in job[h].todo
  /\ channels' = channels \ {c}
  /\ job' = [job EXCEPT ![h].todo = @ \ {c}]
  /\ UNCHANGED <<taken, config, credentials, routes, hub>>

\* The managed routes are rebuilt from the config as it is by then, unless it
\* cannot be read.
ReloadEnd(h) ==
  /\ Finishes(h, "reload") /\ job[h].todo = {}
  /\ routes' \in {config.agents, routes}
  /\ UNCHANGED <<config, credentials, channels, hub>>

-----------------------------------------------------------------------------
(* upsert_gateway, remove_gateway *)

\* The profile is saved, enabled or not, for an account of the config.  Then
\* removeChannel is awaited: the channel is replaced, or only stopped.
UpsertStart(h, g, enabled) ==
  /\ config.agents # {}
  /\ Takes(h, "upsert", g, {g} \cap channels, enabled, config)
  /\ config' = [config EXCEPT !.gateways = @ \cup {g},
                              !.enabled = IF enabled THEN @ \cup {g} ELSE @ \ {g}]
  /\ erased' = erased \ {g}
  /\ troubles' = IF Busy(g) THEN troubles \cup {<<g, "crossed">>} ELSE troubles
  /\ UNCHANGED <<credentials, routes, channels, installed>>

\* addChannel may throw.  Of a fresh install the profile stays, without its
\* secret; of an update the old profile is restored and its channel added, both
\* if they can be.
UpsertEnd(h) ==
  LET g == job[h].for
      old == job[h].cfg
      stopped == channels \ job[h].todo
      restored == [config EXCEPT !.gateways = @ \cup {g},
                     !.enabled = IF g \in old.enabled THEN @ \cup {g} ELSE @ \ {g}]
  IN /\ Finishes(h, "upsert")
     /\ \/ /\ ~job[h].flag
           /\ channels' = stopped /\ UNCHANGED config
        \/ /\ job[h].flag /\ g \notin stopped
           /\ channels' = stopped \cup {g} /\ UNCHANGED config
        \/ /\ job[h].flag /\ g \notin old.gateways
           /\ channels' = stopped /\ UNCHANGED config
        \/ /\ job[h].flag /\ g \in old.gateways
           /\ channels' \in {stopped, stopped \cup {g}}
           /\ config' \in {config, restored}
     /\ UNCHANGED <<credentials, routes, hub>>

RemoveGatewayStart(h, g) ==
  /\ Takes(h, "remove", g, {g} \cap channels, FALSE, NoConfig)
  /\ erased' = erased \ {g}
  /\ troubles' = troubles \cup {<<x, "crossed">> : x \in {y \in {g} : Handling(y, {"upsert"})}}
  /\ UNCHANGED <<config, credentials, routes, channels, installed>>

\* The channel is stopped; if the config cannot be saved the frame is refused.
RemoveGatewayEnd(h) ==
  LET g == job[h].for IN
  /\ Finishes(h, "remove")
  /\ channels' = channels \ job[h].todo
  /\ \/ /\ config' = [config EXCEPT !.gateways = @ \ {g}, !.enabled = @ \ {g}]
        /\ erased' = erased \cup {g}
     \/ UNCHANGED <<config, erased>>
  /\ UNCHANGED <<credentials, routes, installed>>
  /\ troubles' = troubles \ Forgotten(h, g)

-----------------------------------------------------------------------------

\* The daemon restarts, frames in progress are lost.  A crash in the middle
\* of an install leaves the credentials file only, or, later, what a finished
\* install leaves.
DaemonRestarts ==
  /\ UNCHANGED <<taken, config, hub>>
  /\ \E kept \in SUBSET {job[h].for : h \in {x \in Handlers : job[x].op = "provision"}} :
       credentials' = credentials \cup kept
  /\ routes' = BootAgents' /\ channels' = BootAgents' \cup config.enabled
  /\ job' = [h \in Handlers |-> NoJob]

ProvisionNext ==
  \/ \E h \in Handlers :
       \/ \E a \in Agents : ProvisionStart(h, a) \/ \E d \in BOOLEAN : RevokeStart(h, a, d)
       \/ \E g \in Profiles :
            RemoveGatewayStart(h, g) \/ \E on \in BOOLEAN : UpsertStart(h, g, on)
       \/ ProvisionEnd(h) \/ RevokeEnd(h) \/ ReloadStart(h) \/ ReloadEnd(h)
       \/ UpsertEnd(h) \/ RemoveGatewayEnd(h)
       \/ \E c \in job[h].todo : ReloadRemove(h, c)
  \/ DaemonRestarts

ProvisionSpec == ProvisionInit /\ [][ProvisionNext]_provisionVars

-----------------------------------------------------------------------------
(* Properties *)

\* The agent has credentials, a route, a channel and its place in the config.
Works(a) == a \in credentials \cap routes \cap channels \cap config.agents

\* An agent that was installed and not revoked works, whatever frames follow or
\* overlap and whatever fails.  Not so if its own frame was repeated (the
\* rollback of the second takes away what the first installed) or crossed.
InstalledWorks == \A a \in installed \ Excused({"repeated", "crossed", "stale"}) : Works(a)

\* The footgun addAgentToConfig speaks of: the agents that run now are those
\* that would run after a restart, with the same exceptions.
RestartKeepsAgents ==
  (channels \cap Agents) \ Excused({"repeated", "crossed", "stale"}) \subseteq BootAgents

\* An agent revoked with its data and a gateway that was removed do not come
\* back, in memory or on disk, as long as no frame asks for them, not even by a
\* restart; unless the disk refused part of the revocation, it was crossed, or
\* a provision that had read the config before brought it back.
RevokedStaysGone ==
  (erased \ Excused({"half", "crossed", "stale"}))
    \cap (credentials \cup channels \cup BootAgents \cup config.gateways) = {}

\* "the daemon should stay in sync or not at all" (installLocalAgent): config,
\* credentials, routes and channels agree over overlapping frames, writes that
\* fail, rollbacks, reloads and restarts: an installed agent works, the agents
\* of now are those of the next start, and a revoked one is gone, with the
\* exceptions stated (installLocalAgent, revokeAgent, reloadConfig, handleUpsert).
StoresAgree ==
  ProvisionTypeOK /\ InstalledWorks /\ RestartKeepsAgents /\ RevokedStaysGone

\* "The provisioner itself is the authoritative dedupe boundary for stateful
\* operations" (control-channel.ts): an installed agent works, also when its
\* frame comes again.
RepeatsAreHarmless == \A a \in installed \ Excused({"crossed", "stale"}) : Works(a)

\* "agents in gateway but no longer in config" are what reload_config removes:
\* a third-party gateway of the config keeps its channel.
GatewaysKept == (\A h \in Handlers : job[h] = NoJob) => config.enabled \subseteq channels
=============================================================================
