--------------------------- MODULE MCResponseRuns ---------------------------
(* Model checking of the response runs of one agent. *)
EXTENDS ResponseRuns, FiniteSets, TLC

Perms == Permutations(Runs) \cup Permutations(Inputs) \cup Permutations(Replies)

\* Bound: states with a recalled input are explored as long as there are at
\* most RecallEvents ledger entries and one reply; states without, in full.
RecallEvents == 7
Small ==
    recalled # {} => /\ Cardinality(recalled) = 1
                     /\ Cardinality(events) <= RecallEvents
                     /\ Cardinality({l.reply : l \in links}) <= 1
=============================================================================
