---------------------------- MODULE MCProcesses ----------------------------
(***************************************************************************)
(* The control connection of the daemon, its channel supervisor, its start *)
(* and the ingress process, checked in one run.  They share no variable    *)
(* here, so their product says nothing that they do not say one by one:    *)
(* part is the component that moves, the others stay in their initial      *)
(* states.  No action that fairness is asked of is enabled in an initial   *)
(* state, so a component that does not move is not unfair.                 *)
(***************************************************************************)
EXTENDS ControlChannel, ChannelManager, DaemonStart, Ingress, TLC

VARIABLE part

AllInit ==
  /\ ControlInit /\ ManagerInit /\ StartInit /\ IngressInit
  /\ part \in {"control", "manager", "start", "ingress"}
  \* the components that do not move have one initial state
  /\ part # "start" => world = CHOOSE w \in Worlds : TRUE

AllNext ==
  /\ \/ part = "control" /\ ControlNext /\ UNCHANGED <<managerVars, startVars, ingressVars>>
     \/ part = "manager" /\ ManagerNext /\ UNCHANGED <<controlVars, startVars, ingressVars>>
     \/ part = "start" /\ StartNext /\ UNCHANGED <<controlVars, managerVars, ingressVars>>
     \/ part = "ingress" /\ IngressNext /\ UNCHANGED <<controlVars, managerVars, startVars>>
  /\ UNCHANGED part

AllSpec ==
  /\ AllInit
  /\ [][AllNext]_<<controlVars, managerVars, startVars, ingressVars, part>>
  /\ ControlFairness /\ ManagerFairness /\ StartFairness /\ IngressFairness

-----------------------------------------------------------------------------
CONSTANTS p1, p2, c1, e1, e2, g1

OneGateway == [e \in {e1, e2} |-> g1]

\* p1 may start in the background, and c1 is its child.
Children == p1 :> c1 @@ p2 :> NoPid @@ c1 :> NoPid

\* Two starts in any way, one after the other, with a ps that cannot be
\* relied on and daemons that a SIGKILL ends.
OneByOne ==
  {w \in [mode : [Procs -> Modes], overlapping : {FALSE}, psFails : {TRUE}, stuck : {FALSE}] :
     /\ w.mode[c1] = IF w.mode[p1] = "background" THEN "child" ELSE "none"
     /\ w.mode[p2] # "background"
     /\ \A p \in {p1, p2} : w.mode[p] \notin {"child", "none"}}
=============================================================================
