------------------------------ MODULE MCInbox ------------------------------
(* Model checking of the hub's inbox with arbitrary clients. *)
EXTENDS Inbox, TLC

Perms == Permutations(Msgs) \cup Permutations(Requests)
=============================================================================
