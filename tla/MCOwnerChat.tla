---------------------------- MODULE MCOwnerChat ----------------------------
(***************************************************************************)
(* Instances of the owner chat, each with a budget that lets one kind of   *)
(* trouble happen: more blocks than a run may have, two sends of the same  *)
(* text, a retry, a change of the bot, a realtime event while the socket   *)
(* is down, an upload.                                                     *)
(***************************************************************************)
EXTENDS OwnerChat

CONSTANTS bot1, bot2, c1, c2

SameText == [c \in Sends |-> "hello"]

NoTrouble == [switches |-> 0, faults |-> 0, retries |-> 0, merges |-> 0, blocks |-> 1,
              sends |-> {c1}, files |-> {}]

SomeBudgets ==
    {[NoTrouble EXCEPT !.blocks = 2],
     [NoTrouble EXCEPT !.sends = {c1, c2}],
     [NoTrouble EXCEPT !.faults = 1, !.retries = 1],
     [NoTrouble EXCEPT !.faults = 1, !.switches = 1],
     [NoTrouble EXCEPT !.faults = 1, !.merges = 1],
     [NoTrouble EXCEPT !.switches = 1, !.files = {c1}]}
=============================================================================
