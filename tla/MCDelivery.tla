----------------------------- MODULE MCDelivery -----------------------------
(* Model checking of hub and daemon channels together. *)
EXTENDS Delivery, TLC

MCRequests == Workers \X Msgs
Perms == Permutations(Msgs) \cup Permutations(Workers)
=============================================================================
