---------------------------- MODULE ResponseRuns ----------------------------
(***************************************************************************)
(* Explicit agent decisions on delivered messages, for one agent in one    *)
(* room: services/message_responses.py (runs, decisions, replies) and      *)
(* services/message_response_states.py (the state of an input and its      *)
(* ledger of events).                                                      *)
(*                                                                         *)
(* A run is one execution of the agent over a batch of inputs.  Several    *)
(* executions can name the same inputs: a retry, a second daemon, a turn   *)
(* that overtakes a queued one.  lock_response_agent serialises the        *)
(* requests of an agent, so each request is one action; requests arrive    *)
(* in any order, late, and more than once.                                 *)
(***************************************************************************)
EXTENDS Naturals

CONSTANTS
    Runs,     \* run ids the clients of the agent use
    Inputs,   \* messages delivered to the agent in the room
    Replies,  \* message ids of the agent's replies
    FinishOutcomes, \* the outcomes clients report: a subset of Outcomes
    Recallable,     \* the inputs their senders may recall
    Lease,    \* LEASE_SECONDS, in ticks
    None      \* no run, no reply

RESOLVED == {"ignored", "completed", "no_reply"}
Outcomes == {"unconfirmed", "failed", "interrupted"}
TERMINAL == RESOLVED \cup Outcomes
Active == {"queued", "waiting", "processing", "replying"}
InputStates == Active \cup TERMINAL

ASSUME ResponseAssumption ==
    /\ Lease \in Nat \ {0}
    /\ None \notin Runs
    /\ None \notin Replies
    /\ FinishOutcomes \subseteq Outcomes
    /\ Recallable \subseteq Inputs

ACTIVE_ORDER == [queued |-> 0, waiting |-> 1, processing |-> 2, replying |-> 3]

Links == [run : Runs, reply : Replies, target : Inputs, kind : {"progress", "final"}]
Events == [run : Runs, target : Inputs, state : InputStates]

VARIABLES
    status,    \* MessageResponseRun.status
    inputs,    \* MessageResponseRun.message_ids
    lease,     \* ticks until MessageResponseRun.expires_at
    owner,     \* MessageRecord.response_run_id
    rstate,    \* MessageRecord.response_state
    replyMsg,  \* MessageRecord.response_reply_msg_id
    recalled,  \* inputs with recalled_at set
    links,     \* MessageResponseLink
    events,    \* MessageResponseEvent
    collided   \* a request failed on the unique key of the event ledger

runVars == <<status, inputs, lease>>
recordVars == <<owner, rstate, replyMsg>>
vars == <<runVars, recordVars, recalled, links, events, collided>>

TypeOK ==
    /\ status \in [Runs -> {"none", "queued", "running", "finished"}]
    /\ inputs \in [Runs -> SUBSET Inputs]
    /\ lease \in [Runs -> 0..Lease]
    /\ owner \in [Inputs -> Runs \cup {None}]
    /\ rstate \in [Inputs -> InputStates \cup {"none"}]
    /\ replyMsg \in [Inputs -> Replies \cup {None}]
    /\ recalled \in SUBSET Inputs
    /\ links \in SUBSET Links
    /\ events \in SUBSET Events
    /\ collided \in BOOLEAN

Init ==
    /\ status = [r \in Runs |-> "none"]
    /\ inputs = [r \in Runs |-> {}]
    /\ lease = [r \in Runs |-> 0]
    /\ owner = [m \in Inputs |-> None]
    /\ rstate = [m \in Inputs |-> "none"]
    /\ replyMsg = [m \in Inputs |-> None]
    /\ recalled = {}
    /\ links = {}
    /\ events = {}
    /\ collided = FALSE

-----------------------------------------------------------------------------
(* Helpers *)

expired(r) == lease[r] = 0

\* Mutant of Changes: reports may rewind a run.
ChangesRewinding(r, m, s) == ~(owner[m] = r /\ rstate[m] = s)

\* Does transition(record, run, s) change the record?
Changes(r, m, s) ==
    ~ /\ owner[m] = r
      /\ \/ rstate[m] = s
         \/ /\ rstate[m] \in Active /\ s \in Active
            /\ ACTIVE_ORDER[s] < ACTIVE_ORDER[rstate[m]]

\* Mutant of Transition: the event of a reply is not written.
TransitionSilent(r, goal, reply, commit) ==
    LET moved == {m \in Inputs : goal[m] # "keep" /\ Changes(r, m, goal[m])}
        new == {[run |-> r, target |-> m, state |-> goal[m]] :
                    m \in {n \in moved : goal[n] # "completed"}}
    IN /\ commit
       /\ owner' = [m \in Inputs |-> IF m \in moved THEN r ELSE owner[m]]
       /\ rstate' = [m \in Inputs |-> IF m \in moved THEN goal[m] ELSE rstate[m]]
       /\ replyMsg' = [m \in Inputs |->
              IF m \notin moved THEN replyMsg[m]
              ELSE IF goal[m] = "completed" THEN reply ELSE None]
       /\ events' = events \cup new
       /\ UNCHANGED <<recalled, collided>>

\* transition for every record m with a goal, in the transaction of run r.
\* A second event for the same (run, input, state) violates the unique key
\* of the ledger and rolls the whole request back; else the caller's own
\* writes, commit, are part of the same transaction.
Transition(r, goal, reply, commit) ==
    LET moved == {m \in Inputs : goal[m] # "keep" /\ Changes(r, m, goal[m])}
        new == {[run |-> r, target |-> m, state |-> goal[m]] : m \in moved}
    IN IF new \cap events # {}
       THEN /\ collided' = TRUE
            /\ UNCHANGED <<runVars, recordVars, recalled, links, events>>
       ELSE /\ commit
            /\ owner' = [m \in Inputs |-> IF m \in moved THEN r ELSE owner[m]]
            /\ rstate' = [m \in Inputs |-> IF m \in moved THEN goal[m] ELSE rstate[m]]
            /\ replyMsg' = [m \in Inputs |->
                   IF m \notin moved THEN replyMsg[m]
                   ELSE IF goal[m] = "completed" THEN reply ELSE None]
            /\ events' = events \cup new
            /\ UNCHANGED <<recalled, collided>>

\* The inputs among M that some other run is working on: started or waiting
\* in an execution that is running and has its lease.
Busy(r, M) ==
    {m \in M : /\ owner[m] \notin {r, None}
               /\ rstate[m] \notin TERMINAL \cup {"queued"}
               /\ status[owner[m]] = "running"
               /\ ~expired(owner[m])}

-----------------------------------------------------------------------------
(* update_run *)

\* Mutants of TakeInputs: resolved inputs are taken too, or the inputs that
\* were trimmed from the batch are forgotten.
TakeInputsResolved(r, M, st, s) ==
    Transition(r,
        [m \in Inputs |->
            IF m \in M THEN s
            ELSE IF m \in inputs[r] /\ owner[m] = r /\ rstate[m] \notin TERMINAL
                 THEN "failed" ELSE "keep"],
        None,
        /\ status' = [status EXCEPT ![r] = st]
        /\ inputs' = [inputs EXCEPT ![r] = M]
        /\ lease' = [lease EXCEPT ![r] = Lease]
        /\ links' = links)
TakeInputsForgetting(r, M, st, s) ==
    Transition(r,
        [m \in Inputs |->
            IF m \in M /\ rstate[m] \notin RESOLVED THEN s ELSE "keep"],
        None,
        /\ status' = [status EXCEPT ![r] = st]
        /\ inputs' = [inputs EXCEPT ![r] = M]
        /\ lease' = [lease EXCEPT ![r] = Lease]
        /\ links' = links)

\* The tail of queue and register: the run's inputs become M, the unresolved
\* ones among them move to state s, prior inputs no longer listed fail.
TakeInputs(r, M, st, s) ==
    Transition(r,
        [m \in Inputs |->
            IF m \in M THEN IF rstate[m] \in RESOLVED THEN "keep" ELSE s
            ELSE IF m \in inputs[r] /\ owner[m] = r /\ rstate[m] \notin TERMINAL
                 THEN "failed" ELSE "keep"],
        None,
        /\ status' = [status EXCEPT ![r] = st]
        /\ inputs' = [inputs EXCEPT ![r] = M]
        /\ lease' = [lease EXCEPT ![r] = Lease]
        /\ links' = links)

\* Mutant of Queue: it takes its inputs whoever is at work on them.
QueueAnyway(r, M) ==
    /\ status[r] = "none"
    /\ M # {} /\ M \cap recalled = {}
    /\ TakeInputs(r, M, "queued", "queued")

\* action "queue", a new run.  (Repeating it changes nothing.)
Queue(r, M) ==
    /\ status[r] = "none"
    /\ M # {} /\ M \cap recalled = {}
    /\ Busy(r, M) = {}
    /\ TakeInputs(r, M, "queued", "queued")

\* action "register", a new run: it takes its inputs whoever has them.
Register(r, M) ==
    /\ status[r] = "none"
    /\ M # {} /\ M \cap recalled = {}
    /\ TakeInputs(r, M, "running", "waiting")

\* action "register" of a queued run: the batch may have been trimmed.
Promote(r, M) ==
    /\ status[r] = "queued" /\ ~expired(r)
    /\ M # {} /\ (M \cup inputs[r]) \cap recalled = {}
    /\ Busy(r, M \cup inputs[r]) = {}
    /\ TakeInputs(r, M, "running", "waiting")

Heartbeat(r) ==
    /\ status[r] \in {"queued", "running"} /\ ~expired(r)
    /\ lease' = [lease EXCEPT ![r] = Lease]
    /\ UNCHANGED <<status, inputs, recordVars, recalled, links, events, collided>>

\* start, ignore, no_reply and replying, on targets the run still owns.
Decide(r, a, T) ==
    /\ status[r] = "running" /\ ~expired(r)
    /\ T # {} /\ T \subseteq inputs[r]
    /\ \A m \in T : owner[m] = r
    /\ a = "ignored" => \A m \in T : rstate[m] \notin {"processing", "replying"}
    /\ a = "no_reply" => \A m \in T : rstate[m] # "replying"
    /\ Transition(r,
           [m \in Inputs |-> IF m \in T /\ rstate[m] \notin TERMINAL THEN a ELSE "keep"],
           None, UNCHANGED <<runVars, links>>)

\* finish, on every input the run still owns.  only_if_queued is how the
\* daemon cleans up: it must not end a run that was registered meanwhile.
Finish(r, outcome, only_if_queued) ==
    /\ status[r] \in {"queued", "running"} /\ ~expired(r)
    /\ only_if_queued => status[r] = "queued"
    /\ Transition(r,
           [m \in Inputs |->
               IF m \in inputs[r] /\ owner[m] = r /\ rstate[m] \notin TERMINAL
               THEN outcome ELSE "keep"],
           None,
           /\ status' = [status EXCEPT ![r] = "finished"]
           /\ UNCHANGED <<inputs, lease, links>>)

-----------------------------------------------------------------------------
(* record_response *)

\* Without responds_to: what was started, or else the only input of the run.
AutoTargets(r) ==
    LET started == {m \in Inputs : owner[m] = r /\ rstate[m] \in {"processing", "replying"}}
    IN IF started # {} THEN started
       ELSE IF \E m \in Inputs : inputs[r] = {m} THEN inputs[r] ELSE {}

\* Mutant of RecordResponse: resolved targets are answered again.
RecordResponseTwice(r, p, kind, responds_to) ==
    LET T == IF responds_to # {} THEN responds_to ELSE AutoTargets(r) IN
    /\ \A l \in links : l.reply # p
    /\ status[r] = "running" /\ ~expired(r)
    /\ T # {} /\ \A m \in T : owner[m] = r
    /\ \A m \in T : m \notin recalled
    /\ Transition(r,
           [m \in Inputs |-> IF m \notin T THEN "keep"
                             ELSE IF kind = "final" THEN "completed" ELSE "replying"],
           p,
           /\ links' = links \cup
                {[run |-> r, reply |-> p, target |-> m, kind |-> kind] : m \in T}
           /\ UNCHANGED runVars)

\* A reply with response metadata, in the transaction that sends it.  A reply
\* that has links already is a retry and changes nothing.
RecordResponse(r, p, kind, responds_to) ==
    LET T == IF responds_to # {} THEN responds_to ELSE AutoTargets(r) IN
    /\ \A l \in links : l.reply # p
    /\ status[r] = "running" /\ ~expired(r)
    /\ T # {} /\ \A m \in T : owner[m] = r
    /\ \A m \in T : rstate[m] \notin TERMINAL /\ m \notin recalled
    /\ Transition(r,
           [m \in Inputs |-> IF m \notin T THEN "keep"
                             ELSE IF kind = "final" THEN "completed" ELSE "replying"],
           p,
           /\ links' = links \cup
                {[run |-> r, reply |-> p, target |-> m, kind |-> kind] : m \in T}
           /\ UNCHANGED runVars)

-----------------------------------------------------------------------------
(* Environment *)

Recall(m) ==
    /\ m \notin recalled
    /\ recalled' = recalled \cup {m}
    /\ UNCHANGED <<runVars, recordVars, links, events, collided>>

Tick ==
    /\ \E r \in Runs : lease[r] > 0
    /\ lease' = [r \in Runs |-> IF lease[r] > 0 THEN lease[r] - 1 ELSE 0]
    /\ UNCHANGED <<status, inputs, recordVars, recalled, links, events, collided>>

Next ==
    \/ \E r \in Runs, M \in SUBSET Inputs : Queue(r, M)
    \/ \E r \in Runs, M \in SUBSET Inputs : Register(r, M)
    \/ \E r \in Runs, M \in SUBSET Inputs : Promote(r, M)
    \/ \E r \in Runs : Heartbeat(r)
    \/ \E r \in Runs, a \in {"processing", "ignored", "no_reply", "replying"},
          T \in SUBSET Inputs : Decide(r, a, T)
    \/ \E r \in Runs, o \in FinishOutcomes, q \in BOOLEAN : Finish(r, o, q)
    \/ \E r \in Runs, p \in Replies, k \in {"progress", "final"}, T \in SUBSET Inputs :
          RecordResponse(r, p, k, T)
    \/ \E m \in Recallable : Recall(m)
    \/ Tick

Spec == Init /\ [][Next]_vars

-----------------------------------------------------------------------------
(* Properties *)

\* An input gets at most one final reply, over all runs, retries and daemons,
\* and it is "completed" by exactly that reply (record_response).
OneFinalReply ==
    /\ \A l, k \in links : l.kind = "final" /\ k.kind = "final" /\ l.target = k.target
                           => l = k
    /\ \A m \in Inputs : rstate[m] = "completed" <=>
           \E l \in links : l.kind = "final" /\ l.target = m
                            /\ l.reply = replyMsg[m] /\ l.run = owner[m]
    /\ \A l \in links : l.kind = "final" => rstate[l.target] = "completed"

\* One reply message belongs to one run and is of one kind, however often it
\* is sent.
ReplyBelongsToOneRun ==
    \A l, k \in links : l.reply = k.reply => l.run = k.run /\ l.kind = k.kind

\* The ledger never has to hold the same fact twice: no order of requests
\* makes a request fail on the unique key (run, input, state).
EventsNeverCollide == ~collided

\* The ledger holds the event that put every input where it is, and the event
\* of every reply that was linked.
LedgerComplete ==
    /\ \A m \in Inputs : owner[m] # None =>
           [run |-> owner[m], target |-> m, state |-> rstate[m]] \in events
    /\ \A l \in links : [run |-> l.run, target |-> l.target, state |->
           IF l.kind = "final" THEN "completed" ELSE "replying"] \in events

\* A run that ended has left none of its inputs undecided, and a run that was
\* only queued has started none of them.  (message_ids shrinks on promotion,
\* inputs move between runs: an input that fell between would stay open.)
NoInputLeftBehind ==
    \A m \in Inputs : owner[m] # None =>
        /\ status[owner[m]] = "finished" => rstate[m] \in TERMINAL
        /\ status[owner[m]] = "queued" => rstate[m] = "queued"

\* A decision is final: an input that was answered, ignored or closed without
\* a reply is never given to another run nor reopened.
ResolvedForever ==
    [][\A m \in Inputs : rstate[m] \in RESOLVED =>
           UNCHANGED <<owner[m], rstate[m], replyMsg[m]>>]_vars

\* An execution that holds its lease loses an input it has taken up only to a
\* new execution that starts at once: neither a request to be queued nor the
\* promotion of a run that waited takes it (update_run: "A queued attempt
\* cannot preempt running inputs").
QueuedNeverPreempts ==
    [][\A m \in Inputs :
        owner[m] # owner'[m] /\ owner[m] # None /\ rstate[m] \in Active \ {"queued"}
        /\ status[owner[m]] = "running" /\ ~expired(owner[m])
        => status[owner'[m]] = "none" /\ status'[owner'[m]] = "running"]_vars
=============================================================================
