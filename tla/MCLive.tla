------------------------------- MODULE MCLive -------------------------------
(***************************************************************************)
(* What has to come to an end by itself: the calls of handle() and the     *)
(* re-wakes of a conversation, and the charges of a subscription.  The     *)
(* modules share no variable, so their product says nothing that they do   *)
(* not say one by one: part is the one that moves, the others stay in      *)
(* their initial states.  No action that fairness is asked of is enabled   *)
(* in an initial state, so one that does not move is not unfair.           *)
(***************************************************************************)
EXTENDS TurnQueue, Park, Subscriptions

VARIABLE part   \* "queue", "park" or "subscription"

queueView == <<vars, mode>>
allVars == <<queueView, parkVars, subVars, part>>

AllInit ==
  /\ Init /\ ParkInit /\ SubInit
  /\ part \in {"queue", "park", "subscription"}
  /\ part # "queue" => mode = "serial"

AllNext ==
  /\ \/ part = "queue" /\ Next /\ UNCHANGED <<mode, parkVars, subVars>>
     \/ part = "park" /\ ParkNext /\ UNCHANGED <<queueView, subVars>>
     \/ part = "subscription" /\ SubNext /\ UNCHANGED <<queueView, parkVars>>
  /\ UNCHANGED part

AllFairSpec == AllInit /\ [][AllNext]_allVars /\ Fairness /\ ParkFairness /\ SubFairness
=============================================================================
