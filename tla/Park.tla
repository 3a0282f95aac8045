-------------------------------- MODULE Park --------------------------------
(***************************************************************************)
(* A group-room turn may end with `botcord wait`: it leaves a marker file  *)
(* and the dispatcher re-wakes the conversation later                      *)
(* (packages/daemon/src/gateway/dispatcher.ts, wait-marker.ts).  The queue *)
(* is serial: a message that comes during a turn is buffered for the next. *)
(* Time is counted in units of the shortest wait.                          *)
(***************************************************************************)
EXTENDS Naturals, FiniteSets, FiniteSetsExt

CONSTANTS MaxParks,      \* MAX_PARKS
          MaxWait,       \* MAX_WAIT_MS
          MaxInbound,   \* bound on external messages
          NoTimer

ASSUME ParkAssumption ==
  MaxParks \in Nat \ {0} /\ MaxWait \in Nat \ {0} /\ MaxInbound \in Nat

Timers == 1..(MaxInbound + 1)
ASSUME NoTimer \notin Timers

VARIABLES running,              \* the serial worker executes a turn
          buffered,             \* something waits for the next turn
          marker,               \* the wait asked for in the marker file, or 0
          park,                 \* QueueState.park
          armed,                \* timers that will fire
          parkCount, parkAccum, \* QueueState.parkCount, parkAccumMs
          inbound

counters == <<parkCount, parkAccum>>
parkVars == <<running, buffered, marker, park, armed, counters, inbound>>

ParkTypeOK ==
  /\ running \in BOOLEAN /\ buffered \in BOOLEAN
  /\ marker \in 0..MaxWait
  /\ park \in Timers \cup {NoTimer} /\ armed \subseteq Timers
  /\ parkCount \in 0..MaxParks /\ parkAccum \in 0..MaxWait
  /\ inbound \in 0..MaxInbound

ParkInit ==
  /\ running = FALSE /\ buffered = FALSE /\ marker = 0
  /\ park = NoTimer /\ armed = {}
  /\ parkCount = 0 /\ parkAccum = 0 /\ inbound = 0

\* runSerial: buffer the message, or start a turn, which clears the marker.
Push ==
  IF running THEN buffered' = TRUE /\ UNCHANGED <<running, marker>>
  ELSE running' = TRUE /\ marker' = 0 /\ UNCHANGED buffered

\* An arrival clears the re-wake the queue knows of, and its budget.
supersedePendingPark ==
  \/ park = NoTimer /\ UNCHANGED <<park, armed, counters>>
  \/ /\ park # NoTimer
     /\ armed' = armed \ {park} /\ park' = NoTimer
     /\ parkCount' = 0 /\ parkAccum' = 0

Inbound ==
  /\ inbound < MaxInbound /\ inbound' = inbound + 1
  /\ supersedePendingPark
  /\ Push

\* The agent runs `botcord wait` during its turn.
BotcordWait(w) ==
  /\ running /\ marker' = w
  /\ UNCHANGED <<running, buffered, park, armed, counters, inbound>>

\* The worker goes on with what is buffered.
NextTurn ==
  /\ running' = buffered /\ buffered' = FALSE /\ marker' = 0
  /\ UNCHANGED inbound

ResetPark ==
  /\ parkCount' = 0 /\ parkAccum' = 0
  /\ UNCHANGED <<park, armed>>

WithinCaps == parkCount < MaxParks /\ parkAccum < MaxWait

\* The wait is clamped to what is left of the budget.
Schedule(w) ==
  LET t == Min(Timers \ armed)
      rest == MaxWait - parkAccum
      wait == IF w < rest THEN w ELSE rest
  IN  /\ parkCount' = parkCount + 1 /\ parkAccum' = parkAccum + wait
      /\ armed' = armed \cup {t} /\ park' = t

\* maybeSchedulePark at the end of a clean turn; a deadline that has passed by
\* then counts as no marker.
TurnEnds ==
  /\ running
  /\ \/ marker # 0 /\ WithinCaps /\ Schedule(marker)
     \/ ResetPark
  /\ NextTurn

\* Mutant of ParkElapsed: the re-wake restarts the dithering budget.
ParkElapsedResets(t) ==
  /\ t \in armed
  /\ armed' = armed \ {t} /\ park' = NoTimer
  /\ parkCount' = 0 /\ parkAccum' = 0
  /\ Push
  /\ UNCHANGED inbound

\* The timer callback nulls q.park, whichever timer it was, and pushes the
\* same message again; supersedePendingPark then finds nothing to clear.
ParkElapsed(t) ==
  /\ t \in armed
  /\ armed' = armed \ {t} /\ park' = NoTimer
  /\ Push
  /\ UNCHANGED <<counters, inbound>>

ParkNext ==
  \/ Inbound \/ TurnEnds
  \/ \E w \in 1..MaxWait : BotcordWait(w)
  \/ \E t \in Timers : ParkElapsed(t)

\* Turns end (they have a timeout) and timers fire.
ParkFairness ==
  WF_parkVars(TurnEnds) /\ \A t \in Timers : WF_parkVars(ParkElapsed(t))

ParkSpec == ParkInit /\ [][ParkNext]_parkVars /\ ParkFairness

\* However often the agent asks to wait, and however re-wakes and buffered
\* messages interleave, the conversation comes to rest once no external
\* message arrives: the caps stay effective across re-wakes.
EventuallyQuiet == <>[](~running /\ ~buffered /\ armed = {})

\* "Null when no park is pending. An external arrival on this queue clears it"
\* (QueueState.park): the queue knows the only re-wake there is.
PendingParkIsKnown == armed \subseteq {park}
=============================================================================
