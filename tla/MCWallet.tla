------------------------------ MODULE MCWallet ------------------------------
(* Model checking of the wallets: three owners, in the order of their ids. *)
EXTENDS Wallet, TLC

CONSTANTS a, b, c

\* Transfers between all three, and two subscriptions that pay to c.
Parties == "ab" :> <<a, b>> @@ "ba" :> <<b, a>> @@ "bc" :> <<b, c>> @@ "ca" :> <<c, a>>
           @@ "sub a" :> <<a, c>> @@ "sub b" :> <<b, c>>
MCFrom == [x \in Transfers |-> Parties[x][1]]
MCTo == [x \in Transfers |-> Parties[x][2]]
MCRank == [o \in Owners |-> (a :> 1 @@ b :> 2 @@ c :> 3)[o]]

NoBatches == {}
OneBatch == {<<"sub a", "sub b">>, <<"sub a">>, <<"sub b">>}

\* Everything else is a's.
MCOwnerOf == [i \in Grants \cup Rows |-> a]
MCAmount == [x \in Keys \cup Rows |-> IF x \in Grants THEN 2 ELSE 1]

Symmetry == Permutations(Sessions)
=============================================================================
