---------------------------- MODULE MCDispatcher ----------------------------
(***************************************************************************)
(* Views of one conversation of the dispatcher, checked together.  They    *)
(* share no variable, so their product says nothing that they do not say   *)
(* one by one: part is the view that moves, the others stay in their       *)
(* initial states.                                                         *)
(***************************************************************************)
EXTENDS TurnQueue, RuntimeSession, TurnStream

VARIABLE part   \* "queue", "merging", "session" or "stream"

\* The queue once more, with room for two entries that a turn then merges,
\* and a prompt that takes the text of one.
M == INSTANCE TurnQueue WITH BufferCap <- 2, CharCap <- 1,
                             MaxCrashes <- 0, UnknownRuntime <- FALSE

queueView == <<vars, mode>>
allVars == <<queueView, sessionVars, streamVars, part>>

AllInit ==
  /\ Init /\ SessionInit /\ StreamInit
  /\ part \in {"queue", "merging", "session", "stream"}
  /\ part # "queue" => mode = "serial"

AllNext ==
  /\ \/ part = "queue" /\ Next /\ UNCHANGED <<mode, sessionVars, streamVars>>
     \/ part = "merging" /\ M!Next /\ UNCHANGED <<mode, sessionVars, streamVars>>
     \/ part = "session" /\ SessionNext /\ UNCHANGED <<queueView, streamVars>>
     \/ part = "stream" /\ StreamNext /\ UNCHANGED <<queueView, sessionVars>>
  /\ UNCHANGED part

AllSpec == AllInit /\ [][AllNext]_allVars

\* Text messages are interchangeable.
Symmetry == Permutations(Msgs \ Multimodal)
=============================================================================
