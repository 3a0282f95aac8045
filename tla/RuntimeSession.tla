-------------------------- MODULE RuntimeSession --------------------------
(***************************************************************************)
(* The runtime session of one conversation: how a turn of the dispatcher   *)
(* resumes, rotates, retries and persists it, the JSON session store with  *)
(* its write queue, and the authentication breaker                         *)
(* (packages/daemon/src/gateway/dispatcher.ts, session-store.ts).  The     *)
(* turns of one conversation do not overlap (module TurnQueue).            *)
(***************************************************************************)
EXTENDS Naturals, FiniteSets

CONSTANTS MaxResumeTurns,  \* maxResumeTurns
          Threshold,       \* runtimeAuthFailureThreshold
          MaxAttempts,        \* bound on the turns of a behaviour
          MaxRestarts       \* bound on daemon restarts

ASSUME SessionAssumption ==
  /\ MaxResumeTurns \in Nat \ {0} /\ Threshold \in Nat \ {0}
  /\ MaxAttempts \in Nat /\ MaxRestarts \in Nat

Ids == 1..(2 * MaxAttempts)           \* a turn starts at most two sessions
Entry == [id : Ids \cup {0}, turns : 0..MaxResumeTurns, ver : Nat]
NoEntry(v) == [id |-> 0, turns |-> 0, ver |-> v]

VARIABLES
  \* SessionStore: the entry in memory, payloads being written, flushes that
  \* wait for the write queue, the file.  ver numbers the changes.
  entry, writing, queued, disk,
  \* the running turn and the messages admitted behind it
  attempt, waiting,
  \* RuntimeAuthFailureState
  failures, blocked,
  \* sessions started; persisted turns of each; sessions found dead, the change
  \* of the store that deleted them, and those whose delete a restart lost; an
  \* old session was rotated away and nothing was persisted since; turns
  \* that failed to authenticate since the last success; turns and crashes
  started, length, dead, deleted, unburied, rotatedAway, authRow, turns, restarts

store   == <<entry, writing, queued, disk>>
breaker == <<failures, blocked>>
graves  == <<dead, deleted, unburied>>
ghosts  == <<length, graves, rotatedAway, authRow>>
sessionVars == <<store, attempt, waiting, breaker, started, ghosts, turns, restarts>>

\* entry is what runTurn read at its start, active the session it resumes.
IdleTurn == [phase |-> "idle", entry |-> NoEntry(0), active |-> 0,
             recovery |-> FALSE, aborted |-> FALSE,
             error |-> "none", text |-> FALSE, newId |-> 0]

SessionTypeOK ==
  /\ entry \in Entry /\ disk \in Entry
  /\ writing \subseteq Entry /\ queued \in 0..(4 * MaxAttempts)
  /\ attempt.phase \in {"idle", "ready", "run", "retry", "ran"}
  /\ attempt.active \in Ids \cup {0} /\ attempt.newId \in Ids \cup {0}
  /\ waiting \in BOOLEAN
  /\ failures \in Nat /\ blocked \in {"no", "yes", "expired"}
  /\ started \in 0..(2 * MaxAttempts)
  /\ dead \subseteq Ids /\ unburied \subseteq Ids /\ deleted \in [Ids -> Nat]

SessionInit ==
  /\ entry = NoEntry(0) /\ disk = NoEntry(0) /\ writing = {} /\ queued = 0
  /\ attempt = IdleTurn /\ waiting = FALSE
  /\ failures = 0 /\ blocked = "no"
  /\ started = 0 /\ length = [i \in Ids |-> 0]
  /\ dead = {} /\ unburied = {} /\ deleted = [i \in Ids |-> 0]
  /\ rotatedAway = FALSE /\ authRow = 0 /\ turns = 0 /\ restarts = 0

(***************************************************************************)
(* SessionStore: set and delete change the memory at once and queue a      *)
(* flush, which serialises whatever the memory holds when it starts.       *)
(***************************************************************************)
Put(id, n) ==
  /\ entry' = [id |-> id, turns |-> n, ver |-> entry.ver + 1]
  /\ queued' = queued + 1 /\ UNCHANGED <<writing, disk>>

Delete == Put(0, 0)

\* History: session i died and was deleted by the present change of the store.
Bury(i) ==
  /\ dead' = dead \cup {i} /\ unburied' = unburied \ {i}
  /\ deleted' = [deleted EXCEPT ![i] = entry'.ver]

\* Mutant of FlushStart: flushes are not chained on the write queue.
FlushConcurrently ==
  /\ queued > 0
  /\ queued' = queued - 1 /\ writing' = writing \cup {entry}
  /\ UNCHANGED <<entry, disk, attempt, waiting, breaker, started, ghosts, turns,
                 restarts>>

FlushStart ==
  /\ queued > 0 /\ writing = {}
  /\ queued' = queued - 1 /\ writing' = {entry}
  /\ UNCHANGED <<entry, disk, attempt, waiting, breaker, started, ghosts, turns,
                 restarts>>

\* The rename, or a failure that leaves the file alone.
FlushEnd(p) ==
  /\ p \in writing /\ writing' = writing \ {p}
  /\ disk' = p \/ UNCHANGED disk
  /\ UNCHANGED <<entry, queued, attempt, waiting, breaker, started, ghosts, turns,
                 restarts>>

\* A restart loads the file; an old entry, or a file that does not parse, is
\* dropped.  What was not written is lost, deletes too.
Restart ==
  /\ restarts < MaxRestarts /\ restarts' = restarts + 1
  /\ \/ entry' = disk
     \/ entry' = NoEntry(disk.ver)
  /\ writing' = {} /\ queued' = 0 /\ UNCHANGED disk
  /\ attempt' = IdleTurn /\ waiting' = FALSE
  /\ failures' = 0 /\ blocked' = "no" /\ authRow' = 0
  /\ unburied' = unburied \cup {i \in dead : deleted[i] > disk.ver}
  /\ UNCHANGED <<dead, deleted>> /\ rotatedAway' = FALSE
  /\ length' = [i \in Ids |-> IF i = disk.id THEN disk.turns ELSE 0]
  /\ UNCHANGED <<started, turns>>

(***************************************************************************)
(* The breaker is looked at when a message arrives, before it is queued;   *)
(* what is queued is merged into one turn.                                 *)
(***************************************************************************)
openRuntimeAuthBreaker == blocked = "yes"

Admit ==
  /\ ~openRuntimeAuthBreaker
  /\ IF blocked = "expired"
     THEN failures' = 0 /\ blocked' = "no" /\ authRow' = 0
     ELSE UNCHANGED <<breaker, authRow>>
  /\ waiting' = TRUE
  /\ UNCHANGED <<store, attempt, started, length, graves, rotatedAway, turns, restarts>>

CooldownPasses ==
  /\ blocked = "yes" /\ blocked' = "expired"
  /\ UNCHANGED <<store, attempt, waiting, failures, started, ghosts, turns, restarts>>

recordRuntimeAuthFailure ==
  /\ failures' = failures + 1
  /\ blocked' = IF failures + 1 >= Threshold THEN "yes" ELSE "no"

clearRuntimeAuthFailures == failures' = 0 /\ blocked' = "no"

(***************************************************************************)
(* runTurn                                                                 *)
(***************************************************************************)
RunFrame == <<waiting, breaker, length, graves, authRow, turns, restarts>>

BeginAttempt ==
  /\ attempt.phase = "idle" /\ waiting /\ turns < MaxAttempts
  /\ turns' = turns + 1 /\ waiting' = FALSE
  /\ attempt' = [IdleTurn EXCEPT !.phase = "ready", !.entry = entry,
                              !.active = entry.id]
  /\ UNCHANGED <<store, breaker, started, ghosts, restarts>>

\* rotationDecision: the turn counter, or the input tokens of the last turn.
Rotate ==
  /\ attempt.phase = "ready" /\ attempt.active # 0
  /\ Delete
  /\ attempt' = [attempt EXCEPT !.phase = "run", !.active = 0, !.recovery = TRUE]
  /\ rotatedAway' = TRUE
  /\ UNCHANGED <<RunFrame, started>>

Resume ==
  /\ attempt.phase = "ready"
  /\ attempt.active # 0 => attempt.entry.turns < MaxResumeTurns
  /\ attempt' = [attempt EXCEPT !.phase = "run"]
  /\ UNCHANGED <<store, RunFrame, rotatedAway, started>>

\* A newer message supersedes the turn, or its timer kills it.
AbortAttempt ==
  /\ attempt.phase \in {"ready", "run", "retry", "ran"}
  /\ attempt' = [attempt EXCEPT !.aborted = TRUE]
  /\ UNCHANGED <<store, RunFrame, rotatedAway, started>>

\* runtime.run returns: the session it ran in is the resumed one or a new
\* one, and the adapter reports its id or none.
AttemptEnds(error, text, echo) ==
  LET id == IF attempt.active # 0 THEN attempt.active ELSE started + 1 IN
  /\ attempt.phase = "run" \/ (attempt.phase = "retry" /\ attempt.error = "again")
  /\ started' = IF attempt.active # 0 THEN started ELSE started + 1
  /\ attempt' = [attempt EXCEPT !.phase = IF @ = "run" THEN "retry" ELSE "ran",
                          !.error = error, !.text = text,
                          !.newId = IF echo THEN id ELSE 0]
  /\ UNCHANGED <<store, RunFrame, rotatedAway>>

ReadyToRetry == attempt.phase = "retry" /\ ~attempt.text /\ ~attempt.aborted

FreshFrame == <<waiting, breaker, length, authRow, turns, restarts>>

\* shouldRetryFresh: the session is dropped and the turn starts over.
RetryFresh ==
  /\ ReadyToRetry /\ attempt.active # 0 /\ attempt.error = "session"
  /\ Delete
  /\ Bury(attempt.active)
  /\ attempt' = [attempt EXCEPT !.active = 0, !.recovery = TRUE, !.error = "again"]
  /\ UNCHANGED <<FreshFrame, rotatedAway, started>>

\* shouldRetryTransient: the same session once more.
RetryTransient ==
  /\ ReadyToRetry /\ attempt.error = "transient"
  /\ attempt' = [attempt EXCEPT !.error = "again"]
  /\ UNCHANGED <<store, RunFrame, rotatedAway, started>>

\* What the turn leaves in the store.
Persist ==
  LET n == IF attempt.active # 0 /\ attempt.entry.id = attempt.active
           THEN attempt.entry.turns + 1 ELSE 1
  IN  IF attempt.active # 0 /\ attempt.error # "none" /\ ~attempt.text THEN Delete
      ELSE IF attempt.newId # 0 /\ attempt.error # "auth" THEN Put(attempt.newId, n)
      ELSE IF attempt.active # 0 /\ attempt.error # "none" THEN Delete
      ELSE UNCHANGED store

\* Nothing is stored by a turn that was superseded or killed, whose runtime
\* threw, or whose response decision cannot be parsed or reported.
GiveUp ==
  /\ attempt.phase \in {"run", "retry", "ran"}
  /\ \/ attempt.aborted
     \/ attempt.phase = "run" \/ attempt.error = "again"
     \/ attempt.error = "none" /\ attempt.text
  /\ attempt' = IdleTurn
  /\ UNCHANGED <<store, waiting, breaker, started, ghosts, turns, restarts>>

\* The turn is over and was not aborted.
Conclude ==
  /\ attempt.phase \in {"retry", "ran"} /\ ~attempt.aborted /\ attempt.error # "again"
  /\ Persist
  /\ IF attempt.error = "auth"
     THEN recordRuntimeAuthFailure /\ authRow' = authRow + 1
     ELSE IF attempt.error = "none"
          THEN clearRuntimeAuthFailures /\ authRow' = 0
          ELSE UNCHANGED <<breaker, authRow>>
  /\ IF attempt.active # 0 /\ attempt.error # "none" /\ ~attempt.text
     THEN Bury(attempt.active) ELSE UNCHANGED graves
  /\ length' = IF attempt.newId # 0 /\ attempt.newId = entry'.id
               THEN [length EXCEPT ![attempt.newId] = @ + 1] ELSE length
  /\ rotatedAway' = (rotatedAway /\ entry'.id = 0)
  /\ attempt' = IdleTurn
  /\ UNCHANGED <<waiting, started, turns, restarts>>

SessionNext ==
  \/ FlushStart \/ (\E p \in writing : FlushEnd(p)) \/ Restart
  \/ Admit \/ CooldownPasses
  \/ BeginAttempt \/ Rotate \/ Resume \/ AbortAttempt
  \/ \E error \in {"none", "auth", "session", "transient"}, text \in BOOLEAN,
        echo \in BOOLEAN :
       /\ error = "auth" => ~text     \* such a text is taken for the error
       /\ AttemptEnds(error, text, echo)
  \/ RetryFresh \/ RetryTransient \/ GiveUp \/ Conclude

SessionSpec == SessionInit /\ [][SessionNext]_sessionVars

\* A session that failed without a word while it was resumed is not resumed
\* again: neither after the retry that replaced it failed as well, nor because
\* the adapter echoed its id, nor by an older flush that was late.  Only a
\* restart before its delete was written to the file brings it back.
DeadNotResumed ==
  (attempt.phase \in {"run", "retry"} /\ attempt.active # 0) =>
    attempt.active \notin dead \ unburied

\* Sessions do not grow without bound: no session keeps more persisted turns
\* than the rotation allows, whatever retries and echoes do to the entry.
SessionsRotate == \A i \in Ids : length[i] <= MaxResumeTurns

\* The file never goes back to an older content (persist, flushOnce), however
\* flushes are delayed or fail.
DiskMonotone == [][disk'.ver >= disk.ver]_sessionVars

\* The breaker opens in time: authentication fails in at most Threshold turns
\* without a success between, and one more whose message was admitted before.
BreakerHolds == authRow <= Threshold + 1

\* The session of a conversation is kept in order, over rotations, both
\* retries, aborts, failing flushes and restarts: dead sessions are not resumed,
\* living ones rotate, the breaker opens in time and the file does not go back
\* (runTurn, SessionStore, recordRuntimeAuthFailure).
SessionInOrder ==
  [](SessionTypeOK /\ DeadNotResumed /\ SessionsRotate /\ BreakerHolds) /\ DiskMonotone

\* "When a session crosses either threshold we drop it and start a fresh one,
\* seeded with recent-room-message recovery context so the agent keeps
\* continuity."
ContinuityKept ==
  (attempt.phase = "run" /\ attempt.active = 0 /\ rotatedAway) => attempt.recovery
=============================================================================
