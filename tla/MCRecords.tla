----------------------------- MODULE MCRecords -----------------------------
(***************************************************************************)
(* Records that several writers share: the hub's inbox rows, with          *)
(* arbitrary clients; the daemon's config and credentials, and the maps of *)
(* its channel supervisor, with two frames handled at a time; its lock and *)
(* pid files.  They share no variable, so their product says nothing that  *)
(* they do not say one by one: part is the one that moves, the others stay *)
(* in their initial states.                                                *)
(***************************************************************************)
EXTENDS Inbox, Provision, ChannelManager, DaemonStart, TLC

VARIABLE part

AllInit ==
  /\ Init /\ ProvisionInit /\ ManagerInit /\ StartInit
  /\ part \in {"inbox", "provision", "manager", "start"}
  \* those that do not move have one initial state
  /\ part # "provision" => config.agents = {}
  /\ part # "start" => world = CHOOSE w \in Worlds : TRUE

AllNext ==
  /\ \/ part = "inbox" /\ Next /\ UNCHANGED <<provisionVars, managerVars, startVars>>
     \/ part = "provision" /\ ProvisionNext /\ UNCHANGED <<vars, managerVars, startVars>>
     \/ part = "manager" /\ ManagerNext /\ UNCHANGED <<vars, provisionVars, startVars>>
     \/ part = "start" /\ StartNext /\ UNCHANGED <<vars, provisionVars, managerVars>>
  /\ UNCHANGED part

AllSpec == AllInit /\ [][AllNext]_<<vars, provisionVars, managerVars, startVars, part>>

-----------------------------------------------------------------------------
CONSTANTS p1, p2, p3, c1, c2

\* p1 and p2 may start in the background; c1 and c2 are their children.
Children == p1 :> c1 @@ p2 :> c2 @@ p3 :> NoPid @@ c1 :> NoPid @@ c2 :> NoPid

\* The ways in which the processes of ps may be started.
Started(ps) ==
  {m \in [Procs -> Modes] :
     /\ m[c1] = IF m[p1] = "background" THEN "child" ELSE "none"
     /\ m[c2] = IF m[p2] = "background" THEN "child" ELSE "none"
     /\ m[p3] # "background"
     /\ \A p \in {p1, p2, p3} : m[p] # "child" /\ (p \in ps <=> m[p] # "none")}

\* Starts one after the other with a ps that cannot be relied on, and two
\* that overlap with one that can; a daemon may outlive its SIGKILL.
SomeWorlds ==
  [mode : Started({p1, p2, p3}), overlapping : {FALSE}, psFails : {TRUE}, stuck : {FALSE}]
  \cup [mode : Started({p1, p2}), overlapping : {FALSE}, psFails : {TRUE}, stuck : {TRUE}]
  \cup [mode : Started({p1, p2}), overlapping : {TRUE}, psFails : {FALSE}, stuck : {TRUE}]

Symmetry == Permutations(Requests) \cup Permutations(Agents) \cup Permutations(Handlers)
=============================================================================
