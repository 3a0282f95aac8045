------------------------- MODULE ResponseRunsProofs -------------------------
(***************************************************************************)
(* The safety of the response runs, for any number of runs, inputs and     *)
(* replies and any length of lease.                                        *)
(*                                                                         *)
(* Why the ledger never collides is the heart of the matter.  A run moves  *)
(* an input only while it owns it, and only forward, so the events it has  *)
(* written are at or before the input's state (EventsBehind).  A run that  *)
(* lost an input can get it back only by being promoted from the queue,    *)
(* and then it has written nothing but "queued".                           *)
(***************************************************************************)
EXTENDS ResponseRuns, TLAPS

\* An input has an owner exactly if it has a state, and its owner was
\* registered or queued.
OwnerHasState ==
    \A m \in Inputs : /\ owner[m] = None <=> rstate[m] = "none"
                      /\ owner[m] # None => status[owner[m]] # "none"

\* The undecided inputs of a run are listed in its message_ids.
ActiveListed ==
    \A m \in Inputs : owner[m] # None /\ rstate[m] \in Active => m \in inputs[owner[m]]

\* The events a run wrote for an input it owns are at or before the state of
\* the input; a run that is still queued has written nothing but "queued".
EventsBehind ==
    \A e \in events :
        /\ status[e.run] # "none"
        /\ status[e.run] = "queued" => e.state = "queued"
        /\ owner[e.target] = e.run /\ rstate[e.target] \in Active =>
              /\ e.state \in Active
              /\ ACTIVE_ORDER[e.state] <= ACTIVE_ORDER[rstate[e.target]]

\* The inductive invariant.
IInv ==
    /\ TypeOK
    /\ OwnerHasState
    /\ ActiveListed
    /\ EventsBehind
    /\ EventsNeverCollide
    /\ OneFinalReply
    /\ ReplyBelongsToOneRun
    /\ LedgerComplete
    /\ NoInputLeftBehind

-----------------------------------------------------------------------------
(* The order of states, and the effect of Transition *)

\* ACTIVE_ORDER is an injection into the numbers.
LEMMA OrderFacts ==
    /\ \A s \in Active : ACTIVE_ORDER[s] \in 0..3
    /\ \A s, t \in Active : ACTIVE_ORDER[s] = ACTIVE_ORDER[t] => s = t
    /\ ACTIVE_ORDER["queued"] = 0 /\ ACTIVE_ORDER["replying"] = 3
BY DEF ACTIVE_ORDER, Active

\* The states fall apart as the code's sets say.
LEMMA StateFacts ==
    /\ RESOLVED \subseteq TERMINAL /\ Outcomes \subseteq TERMINAL
    /\ Active \cap TERMINAL = {}
    /\ InputStates = Active \cup TERMINAL
    /\ "none" \notin InputStates /\ "keep" \notin InputStates
    /\ {"queued", "waiting", "processing", "replying"} = Active
    /\ {"ignored", "no_reply", "completed"} = RESOLVED
    /\ "completed" \notin Outcomes /\ "failed" \in Outcomes
BY DEF RESOLVED, TERMINAL, Outcomes, Active, InputStates

\* The records a transition changes and the events it writes.
Moved(r, goal) == {m \in Inputs : goal[m] # "keep" /\ Changes(r, m, goal[m])}
NewEvents(r, goal) ==
    {[run |-> r, target |-> m, state |-> goal[m]] : m \in Moved(r, goal)}

\* What a transition does when it does not collide.
Update(r, goal, reply) ==
    /\ owner' = [m \in Inputs |-> IF m \in Moved(r, goal) THEN r ELSE owner[m]]
    /\ rstate' = [m \in Inputs |-> IF m \in Moved(r, goal) THEN goal[m] ELSE rstate[m]]
    /\ replyMsg' = [m \in Inputs |->
           IF m \notin Moved(r, goal) THEN replyMsg[m]
           ELSE IF goal[m] = "completed" THEN reply ELSE None]
    /\ events' = events \cup NewEvents(r, goal)
    /\ UNCHANGED <<recalled, collided>>

Goals == [Inputs -> InputStates \cup {"keep"}]

\* Types are kept.
LEMMA UpdateTypes ==
    ASSUME TypeOK, NEW r \in Runs, NEW goal \in Goals, NEW reply \in Replies \cup {None},
           Update(r, goal, reply)
    PROVE  /\ owner' \in [Inputs -> Runs \cup {None}]
           /\ rstate' \in [Inputs -> InputStates \cup {"none"}]
           /\ replyMsg' \in [Inputs -> Replies \cup {None}]
           /\ recalled' \in SUBSET Inputs
           /\ events' \in SUBSET Events
           /\ collided' \in BOOLEAN
<1>1. Moved(r, goal) \subseteq Inputs
  BY DEF Moved
<1>2. \A m \in Moved(r, goal) : goal[m] \in InputStates
  BY DEF Moved, Goals
<1>3. NewEvents(r, goal) \subseteq Events
  BY <1>1, <1>2 DEF NewEvents, Events
<1>4. events' \in SUBSET Events
  BY <1>3 DEF Update, TypeOK
<1>5. rstate' \in [Inputs -> InputStates \cup {"none"}]
  BY <1>1, <1>2 DEF Update, TypeOK
<1> QED
  BY <1>1, <1>4, <1>5 DEF Update, TypeOK

\* The same, point by point.
Pointwise(r, goal, reply) ==
    /\ Moved(r, goal) \subseteq Inputs
    /\ \A m \in Inputs : m \in Moved(r, goal) =>
          /\ owner'[m] = r /\ rstate'[m] = goal[m]
          /\ replyMsg'[m] = IF goal[m] = "completed" THEN reply ELSE None
          /\ [run |-> r, target |-> m, state |-> goal[m]] \in events'
    /\ \A m \in Inputs : m \notin Moved(r, goal) =>
          owner'[m] = owner[m] /\ rstate'[m] = rstate[m] /\ replyMsg'[m] = replyMsg[m]
    /\ \A e \in events' : e \in events \/ (/\ e.run = r /\ e.target \in Moved(r, goal)
                                           /\ e.state = goal[e.target])
    /\ events \subseteq events'

\* An update acts point by point.
LEMMA UpdateFacts ==
    ASSUME TypeOK, NEW r \in Runs, NEW goal \in Goals, NEW reply,
           Update(r, goal, reply)
    PROVE  Pointwise(r, goal, reply)
<1>1. Moved(r, goal) \subseteq Inputs
  BY DEF Moved
<1> QED
  BY <1>1 DEF Update, NewEvents, Pointwise

-----------------------------------------------------------------------------
(* What every request guarantees before it transitions its inputs *)

\* The step of run r with these goals keeps the promises of the model: it
\* reopens nothing, moves an input it has forward or takes it for the first
\* time, and leaves the run's batch and status consistent.
Legal(r, goal) ==
    /\ \A m \in Moved(r, goal) :
         /\ rstate[m] \notin RESOLVED
         /\ \/ status[r] = "none"
            \/ owner[m] = r /\ rstate[m] \in Active
            \/ status[r] = "queued" /\ goal[m] # "queued"
         /\ goal[m] \in Active => m \in inputs'[r]
         /\ status'[r] = "finished" => goal[m] \in TERMINAL
         /\ status'[r] = "queued" => goal[m] = "queued"
    /\ \A m \in Inputs : m \notin Moved(r, goal) /\ owner[m] = r =>
         /\ rstate[m] \in Active => m \in inputs'[r]
         /\ status'[r] = "finished" => rstate[m] \in TERMINAL
    /\ status'[r] # "none"
    /\ status'[r] = "queued" => status[r] = "none"
    /\ \A q \in Runs : q # r => status'[q] = status[q] /\ inputs'[q] = inputs[q]

\* A run writes an event about an input at most once.
LEMMA NoCollision ==
    ASSUME IInv, NEW r \in Runs, NEW goal \in Goals,
           \A m \in Moved(r, goal) : \/ status[r] = "none"
                                     \/ owner[m] = r /\ rstate[m] \in Active
                                     \/ status[r] = "queued" /\ goal[m] # "queued"
    PROVE  NewEvents(r, goal) \cap events = {}
<1> SUFFICES ASSUME NEW m \in Moved(r, goal),
                    [run |-> r, target |-> m, state |-> goal[m]] \in events
             PROVE  FALSE
  BY DEF NewEvents
<1> DEFINE e == [run |-> r, target |-> m, state |-> goal[m]]
<1>1. e \in events /\ e.run = r /\ e.target = m /\ e.state = goal[m]
  OBVIOUS
<1>2. status[r] # "none" /\ (status[r] = "queued" => goal[m] = "queued")
  BY <1>1 DEF IInv, EventsBehind
<1>3. owner[m] = r /\ rstate[m] \in Active
  BY <1>2
<1>4. goal[m] \in Active /\ ACTIVE_ORDER[goal[m]] <= ACTIVE_ORDER[rstate[m]]
  BY <1>1, <1>3 DEF IInv, EventsBehind
<1>5. goal[m] # rstate[m] /\ ~(ACTIVE_ORDER[goal[m]] < ACTIVE_ORDER[rstate[m]])
  BY <1>3, <1>4 DEF Moved, Changes
<1> QED
  BY <1>3, <1>4, <1>5, OrderFacts

\* So the transaction commits.
LEMMA Commits ==
    ASSUME IInv, NEW r \in Runs, NEW goal \in Goals, NEW reply, NEW ACTION commit,
           Transition(r, goal, reply, commit),
           \A m \in Moved(r, goal) : \/ status[r] = "none"
                                     \/ owner[m] = r /\ rstate[m] \in Active
                                     \/ status[r] = "queued" /\ goal[m] # "queued"
    PROVE  Update(r, goal, reply) /\ commit
<1>1. NewEvents(r, goal) \cap events = {}
  BY NoCollision
<1> QED
  BY <1>1 DEF Transition, Update, NewEvents, Moved

-----------------------------------------------------------------------------
(* A legal step keeps the invariant *)

\* Owners, batches and the runs' status.
LEMMA LegalKeepsOwners ==
    ASSUME IInv, NEW r \in Runs, NEW goal \in Goals, NEW reply \in Replies \cup {None},
           Update(r, goal, reply), Legal(r, goal)
    PROVE  OwnerHasState' /\ ActiveListed' /\ NoInputLeftBehind'
<1> USE StateFacts
<1>1. TypeOK /\ OwnerHasState /\ ActiveListed /\ NoInputLeftBehind
  BY DEF IInv
<1>0. Pointwise(r, goal, reply)
  BY <1>1, UpdateFacts
<1>2. r # None /\ \A m \in Moved(r, goal) : goal[m] \in InputStates
  BY ResponseAssumption DEF Moved, Goals
<1>3. OwnerHasState'
  <2> SUFFICES ASSUME NEW m \in Inputs
               PROVE  /\ owner'[m] = None <=> rstate'[m] = "none"
                      /\ owner'[m] # None => status'[owner'[m]] # "none"
    BY DEF OwnerHasState
  <2>1. CASE m \in Moved(r, goal)
    <3>1. owner'[m] = r /\ rstate'[m] = goal[m]
      BY <1>0, <2>1 DEF Pointwise
    <3>2. goal[m] # "none" /\ r # None
      BY <1>2, <2>1
    <3>3. status'[r] # "none"
      BY DEF Legal
    <3> QED
      BY <3>1, <3>2, <3>3
  <2>2. CASE m \notin Moved(r, goal)
    BY <1>0, <1>1, <2>2 DEF Pointwise, Legal, OwnerHasState, TypeOK
  <2> QED
    BY <2>1, <2>2
<1>4. ActiveListed'
  <2> SUFFICES ASSUME NEW m \in Inputs, owner'[m] # None, rstate'[m] \in Active
               PROVE  m \in inputs'[owner'[m]]
    BY DEF ActiveListed
  <2>1. CASE m \in Moved(r, goal)
    BY <1>0, <2>1 DEF Pointwise, Legal
  <2>2. CASE m \notin Moved(r, goal)
    BY <1>0, <1>1, <2>2 DEF Pointwise, Legal, ActiveListed, TypeOK
  <2> QED
    BY <2>1, <2>2
<1>5. NoInputLeftBehind'
  <2> SUFFICES ASSUME NEW m \in Inputs, owner'[m] # None
               PROVE  /\ status'[owner'[m]] = "finished" => rstate'[m] \in TERMINAL
                      /\ status'[owner'[m]] = "queued" => rstate'[m] = "queued"
    BY DEF NoInputLeftBehind
  <2>1. CASE m \in Moved(r, goal)
    BY <1>0, <1>1, <2>1 DEF Pointwise, Legal
  <2>2. CASE m \notin Moved(r, goal)
    BY <1>0, <1>1, <2>2 DEF Pointwise, Legal, OwnerHasState, NoInputLeftBehind, TypeOK
  <2> QED
    BY <2>1, <2>2
<1> QED
  BY <1>3, <1>4, <1>5

\* Events stay at or before the state of their input.
LEMMA LegalKeepsEventsBehind ==
    ASSUME IInv, NEW r \in Runs, NEW goal \in Goals, NEW reply \in Replies \cup {None},
           Update(r, goal, reply), Legal(r, goal)
    PROVE  EventsBehind'
<1>1. TypeOK /\ EventsBehind
  BY DEF IInv
<1>0. Pointwise(r, goal, reply)
  BY <1>1, UpdateFacts
<1> SUFFICES ASSUME NEW e \in events'
             PROVE  /\ status'[e.run] # "none"
                    /\ status'[e.run] = "queued" => e.state = "queued"
                    /\ owner'[e.target] = e.run /\ rstate'[e.target] \in Active =>
                          /\ e.state \in Active
                          /\ ACTIVE_ORDER[e.state] <= ACTIVE_ORDER[rstate'[e.target]]
  BY DEF EventsBehind
<1>2. e \in events \/ (e.run = r /\ e.target \in Moved(r, goal) /\ e.state = goal[e.target])
  BY <1>0 DEF Pointwise
<1>3. CASE e \in events
  <2>1. e.run \in Runs /\ e.target \in Inputs
    BY <1>1, <1>3 DEF TypeOK, Events
  <2>2. /\ status'[e.run] # "none"
        /\ status'[e.run] = "queued" => e.state = "queued"
    BY <1>1, <1>3, <2>1 DEF EventsBehind, Legal
  <2>3. CASE e.target \in Moved(r, goal)
    <3> SUFFICES ASSUME e.run = r, goal[e.target] \in Active
                 PROVE  e.state \in Active /\ ACTIVE_ORDER[e.state] <= ACTIVE_ORDER[goal[e.target]]
      BY <1>1, <2>1, <2>2, <2>3, <1>0 DEF Pointwise
    <3>1. \/ owner[e.target] = r /\ rstate[e.target] \in Active
          \/ status[r] = "queued"
      BY <1>1, <1>3, <2>3 DEF Legal, EventsBehind
    <3>2. CASE status[r] = "queued"
      <4>1. e.state = "queued"
        BY <1>1, <1>3, <3>2 DEF EventsBehind
      <4> QED
        BY <4>1, OrderFacts, StateFacts
    <3>3. CASE owner[e.target] = r /\ rstate[e.target] \in Active
      <4>1. e.state \in Active /\ ACTIVE_ORDER[e.state] <= ACTIVE_ORDER[rstate[e.target]]
        BY <1>1, <1>3, <3>3 DEF EventsBehind
      <4>2. ~(ACTIVE_ORDER[goal[e.target]] < ACTIVE_ORDER[rstate[e.target]])
        BY <2>3, <3>3 DEF Moved, Changes
      <4> QED
        BY <3>3, <4>1, <4>2, OrderFacts
    <3> QED
      BY <3>1, <3>2, <3>3
  <2>4. CASE e.target \notin Moved(r, goal)
    BY <1>1, <1>3, <2>1, <2>2, <2>4, <1>0 DEF Pointwise, EventsBehind
  <2> QED
    BY <2>3, <2>4
<1>4. CASE e.run = r /\ e.target \in Moved(r, goal) /\ e.state = goal[e.target]
  <2>1. rstate'[e.target] = e.state
    BY <1>1, <1>4, <1>0 DEF Pointwise
  <2> QED
    BY <1>4, <2>1, OrderFacts DEF Legal
<1> QED
  BY <1>2, <1>3, <1>4

\* A step that answers nothing keeps what is known of replies.
LEMMA LegalKeepsReplies ==
    ASSUME IInv, NEW r \in Runs, NEW goal \in Goals, NEW reply \in Replies \cup {None},
           Update(r, goal, reply), Legal(r, goal),
           \A m \in Inputs : goal[m] # "completed", links' = links
    PROVE  OneFinalReply' /\ ReplyBelongsToOneRun' /\ LedgerComplete'
<1>1. TypeOK /\ OneFinalReply /\ ReplyBelongsToOneRun /\ LedgerComplete
  BY DEF IInv
<1>0. Pointwise(r, goal, reply)
  BY <1>1, UpdateFacts
<1>2. \A m \in Moved(r, goal) : rstate[m] # "completed"
  BY StateFacts DEF Legal
<1>3. \A l \in links : l.target \in Inputs
  BY <1>1 DEF TypeOK, Links
<1>4. OneFinalReply'
  <2>1. \A m \in Inputs : rstate'[m] = "completed" <=> rstate[m] = "completed"
    BY <1>0, <1>2 DEF Pointwise
  <2>2. \A m \in Inputs : rstate[m] = "completed" =>
            owner'[m] = owner[m] /\ replyMsg'[m] = replyMsg[m]
    BY <1>0, <1>2 DEF Pointwise
  <2>3. \A m \in Inputs, l \in links : l.kind = "final" /\ l.target = m => rstate[m] = "completed"
    BY <1>1 DEF OneFinalReply
  <2>4. \A m \in Inputs : rstate'[m] = "completed" <=>
            \E l \in links' : l.kind = "final" /\ l.target = m
                              /\ l.reply = replyMsg'[m] /\ l.run = owner'[m]
    BY <1>1, <2>1, <2>2, <2>3 DEF OneFinalReply
  <2>5. \A l \in links' : l.kind = "final" => rstate'[l.target] = "completed"
    BY <1>1, <1>3, <2>1 DEF OneFinalReply
  <2> QED
    BY <1>1, <2>4, <2>5 DEF OneFinalReply
<1>5. ReplyBelongsToOneRun'
  BY <1>1 DEF ReplyBelongsToOneRun
<1>6. LedgerComplete'
  BY <1>1, <1>0 DEF Pointwise, LedgerComplete
<1> QED
  BY <1>4, <1>5, <1>6

\* The types of a run's own columns.
RunTypes ==
    /\ status \in [Runs -> {"none", "queued", "running", "finished"}]
    /\ inputs \in [Runs -> SUBSET Inputs]
    /\ lease \in [Runs -> 0..Lease]

\* The invariant after a legal step that answers nothing.
LEMMA LegalStep ==
    ASSUME IInv, NEW r \in Runs, NEW goal \in Goals,
           Update(r, goal, None), Legal(r, goal), RunTypes',
           \A m \in Inputs : goal[m] # "completed", links' = links
    PROVE  IInv'
<1>1. TypeOK'
  <2>1. TypeOK
    BY DEF IInv
  <2>2. /\ owner' \in [Inputs -> Runs \cup {None}]
        /\ rstate' \in [Inputs -> InputStates \cup {"none"}]
        /\ replyMsg' \in [Inputs -> Replies \cup {None}]
        /\ recalled' \in SUBSET Inputs
        /\ events' \in SUBSET Events
        /\ collided' \in BOOLEAN
    BY <2>1, UpdateTypes
  <2> QED
    BY <2>1, <2>2 DEF RunTypes, TypeOK
<1>2. EventsNeverCollide'
  BY DEF IInv, EventsNeverCollide, Update
<1>3. OwnerHasState' /\ ActiveListed' /\ NoInputLeftBehind'
  BY LegalKeepsOwners
<1>4. EventsBehind'
  BY LegalKeepsEventsBehind
<1>5. OneFinalReply' /\ ReplyBelongsToOneRun' /\ LedgerComplete'
  BY LegalKeepsReplies
<1> QED
  BY <1>1, <1>2, <1>3, <1>4, <1>5 DEF IInv

-----------------------------------------------------------------------------
(* The requests *)

\* What an action may not do: reopen what was resolved, or take an input from
\* a live execution for one that waited in the queue.
Respectful ==
    \A m \in Inputs :
        /\ rstate[m] \in RESOLVED => UNCHANGED <<owner[m], rstate[m], replyMsg[m]>>
        /\ (/\ owner[m] # owner'[m] /\ owner[m] # None
            /\ rstate[m] \in Active \ {"queued"}
            /\ status[owner[m]] = "running" /\ ~expired(owner[m]))
           => status[owner'[m]] = "none" /\ status'[owner'[m]] = "running"

\* queue, register and promotion share their tail.
TakenGoal(r, M, s) ==
    [m \in Inputs |->
        IF m \in M THEN IF rstate[m] \in RESOLVED THEN "keep" ELSE s
        ELSE IF m \in inputs[r] /\ owner[m] = r /\ rstate[m] \notin TERMINAL
             THEN "failed" ELSE "keep"]

\* Taking inputs is legal for a new run and for a queued one.
LEMMA TakeInputsStep ==
    ASSUME IInv, NEW r \in Runs, NEW M \in SUBSET Inputs, NEW st, NEW s,
           TakeInputs(r, M, st, s),
           \/ status[r] = "none" /\ st = "queued" /\ s = "queued"
           \/ status[r] = "none" /\ st = "running" /\ s = "waiting"
           \/ status[r] = "queued" /\ st = "running" /\ s = "waiting"
    PROVE  /\ IInv'
           /\ Update(r, TakenGoal(r, M, s), None)
           /\ \A m \in Moved(r, TakenGoal(r, M, s)) :
                 rstate[m] \notin RESOLVED /\ (m \in M \/ owner[m] = r)
           /\ status'[r] = st
<1> DEFINE goal == TakenGoal(r, M, s)
<1>1. TypeOK /\ OwnerHasState /\ ActiveListed
  BY DEF IInv
<1>2. goal \in Goals
  BY StateFacts DEF Goals, TakenGoal
<1>3. \A m \in Inputs : m \in M => goal[m] = IF rstate[m] \in RESOLVED THEN "keep" ELSE s
  BY DEF TakenGoal
<1>4. \A m \in Inputs : m \notin M =>
        goal[m] = IF m \in inputs[r] /\ owner[m] = r /\ rstate[m] \notin TERMINAL
                  THEN "failed" ELSE "keep"
  BY DEF TakenGoal
<1> HIDE DEF goal
<1>5. ASSUME NEW m \in Moved(r, goal)
      PROVE  /\ m \in Inputs
             /\ rstate[m] \notin RESOLVED
             /\ m \in M => goal[m] = s
             /\ m \notin M => goal[m] = "failed" /\ owner[m] = r /\ rstate[m] \in Active
                              /\ status[r] # "none"
  <2>1. m \in Inputs /\ goal[m] # "keep"
    BY DEF Moved
  <2>2. CASE m \in M
    BY <1>3, <2>1, <2>2
  <2>3. CASE m \notin M
    <3>1. goal[m] = "failed" /\ owner[m] = r /\ rstate[m] \notin TERMINAL
      BY <1>4, <2>1, <2>3
    <3>2. r # None
      BY ResponseAssumption
    <3>3. rstate[m] # "none" /\ status[r] # "none"
      BY <1>1, <2>1, <3>1, <3>2 DEF OwnerHasState
    <3>4. rstate[m] \in Active
      BY <1>1, <2>1, <3>1, <3>3, StateFacts DEF TypeOK
    <3> QED
      BY <2>1, <2>3, <3>1, <3>3, <3>4, StateFacts
  <2> QED
    BY <2>2, <2>3
<1>6. \A m \in Moved(r, goal) : \/ status[r] = "none"
                                \/ owner[m] = r /\ rstate[m] \in Active
                                \/ status[r] = "queued" /\ goal[m] # "queued"
  BY <1>5
<1> DEFINE commit == /\ status' = [status EXCEPT ![r] = st]
                     /\ inputs' = [inputs EXCEPT ![r] = M]
                     /\ lease' = [lease EXCEPT ![r] = Lease]
                     /\ links' = links
<1>7. Update(r, goal, None) /\ commit
  <2>1. Transition(r, goal, None, commit)
    BY DEF TakeInputs, goal, TakenGoal
  <2> HIDE DEF commit
  <2> QED
    BY <1>2, <1>6, <2>1, Commits
<1>8. /\ status'[r] = st /\ inputs'[r] = M /\ links' = links
      /\ \A q \in Runs : q # r => status'[q] = status[q] /\ inputs'[q] = inputs[q]
  BY <1>1, <1>7 DEF TypeOK
<1>9. RunTypes'
  BY <1>1, <1>7, ResponseAssumption DEF TypeOK, RunTypes
<1>10. Legal(r, goal)
  <2>1. ASSUME NEW m \in Inputs, m \notin Moved(r, goal), owner[m] = r
        PROVE  /\ rstate[m] \in Active => m \in inputs'[r]
               /\ status'[r] = "finished" => rstate[m] \in TERMINAL
    <3>1. ASSUME rstate[m] \in Active, m \notin M
          PROVE  FALSE
      <4>1. m \in inputs[r] /\ rstate[m] \notin TERMINAL /\ rstate[m] # "failed"
        BY <1>1, <2>1, <3>1, ResponseAssumption, StateFacts DEF ActiveListed
      <4>2. goal[m] = "failed"
        BY <1>4, <2>1, <3>1, <4>1
      <4>3. Changes(r, m, "failed")
        BY <4>1, StateFacts DEF Changes
      <4> QED
        BY <2>1, <4>2, <4>3 DEF Moved
    <3> QED
      BY <1>8, <3>1
  <2>2. ASSUME NEW m \in Moved(r, goal)
        PROVE  /\ goal[m] \in Active => m \in inputs'[r]
               /\ status'[r] = "finished" => goal[m] \in TERMINAL
               /\ status'[r] = "queued" => goal[m] = "queued"
    BY <1>5, <1>8, StateFacts
  <2> QED
    BY <1>5, <1>6, <1>8, <2>1, <2>2 DEF Legal
<1>11. \A m \in Inputs : goal[m] # "completed"
  BY <1>3, <1>4
<1>12. IInv'
  BY <1>2, <1>7, <1>8, <1>9, <1>10, <1>11, LegalStep
<1> QED
  BY <1>5, <1>7, <1>8, <1>12 DEF goal

\* A step respects what was decided and who is at work if every input it
\* moves is unresolved and is its own, or is taken by a new run, or is not
\* busy.
LEMMA RespectfulUpdate ==
    ASSUME IInv, NEW r \in Runs, NEW goal \in Goals, NEW reply,
           Update(r, goal, reply),
           \A m \in Moved(r, goal) :
              /\ rstate[m] \notin RESOLVED
              /\ \/ owner[m] = r
                 \/ status[r] = "none" /\ status'[r] = "running"
                 \/ \E M : m \in M /\ Busy(r, M) = {}
    PROVE  Respectful
<1>1. TypeOK
  BY DEF IInv
<1>2. Pointwise(r, goal, reply)
  BY <1>1, UpdateFacts
<1> SUFFICES ASSUME NEW m \in Inputs
             PROVE  /\ rstate[m] \in RESOLVED => UNCHANGED <<owner[m], rstate[m], replyMsg[m]>>
                    /\ (/\ owner[m] # owner'[m] /\ owner[m] # None
                        /\ rstate[m] \in Active \ {"queued"}
                        /\ status[owner[m]] = "running" /\ ~expired(owner[m]))
                       => status[owner'[m]] = "none" /\ status'[owner'[m]] = "running"
  BY DEF Respectful
<1>3. CASE m \notin Moved(r, goal)
  BY <1>2, <1>3 DEF Pointwise
<1>4. CASE m \in Moved(r, goal)
  <2>1. owner'[m] = r /\ rstate[m] \notin RESOLVED
    BY <1>2, <1>4 DEF Pointwise
  <2>2. ASSUME NEW M, m \in M, Busy(r, M) = {}, owner[m] # r, owner[m] # None,
               rstate[m] \in Active \ {"queued"},
               status[owner[m]] = "running", ~expired(owner[m])
        PROVE  FALSE
    BY <2>2, StateFacts DEF Busy
  <2> QED
    BY <1>4, <2>1, <2>2
<1> QED
  BY <1>3, <1>4

\* action queue: nobody is at work on what it takes.
LEMMA QueueStep ==
    ASSUME IInv, NEW r \in Runs, NEW M \in SUBSET Inputs, Queue(r, M)
    PROVE  IInv' /\ Respectful
<1>1. /\ IInv' /\ Update(r, TakenGoal(r, M, "queued"), None)
      /\ \A m \in Moved(r, TakenGoal(r, M, "queued")) :
            rstate[m] \notin RESOLVED /\ (m \in M \/ owner[m] = r)
  BY TakeInputsStep DEF Queue
<1>2. Busy(r, M) = {}
  BY DEF Queue
<1>3. TakenGoal(r, M, "queued") \in Goals
  BY StateFacts DEF Goals, TakenGoal
<1>4. \A m \in Moved(r, TakenGoal(r, M, "queued")) :
         /\ rstate[m] \notin RESOLVED
         /\ owner[m] = r \/ \E N : m \in N /\ Busy(r, N) = {}
  BY <1>1, <1>2
<1> QED
  BY <1>1, <1>3, <1>4, RespectfulUpdate

\* action register of a new run.
LEMMA RegisterStep ==
    ASSUME IInv, NEW r \in Runs, NEW M \in SUBSET Inputs, Register(r, M)
    PROVE  IInv' /\ Respectful
<1>1. /\ IInv' /\ Update(r, TakenGoal(r, M, "waiting"), None)
      /\ \A m \in Moved(r, TakenGoal(r, M, "waiting")) :
            rstate[m] \notin RESOLVED /\ (m \in M \/ owner[m] = r)
      /\ status'[r] = "running"
  BY TakeInputsStep DEF Register
<1>2. status[r] = "none"
  BY DEF Register
<1>3. TakenGoal(r, M, "waiting") \in Goals
  BY StateFacts DEF Goals, TakenGoal
<1> QED
  BY <1>1, <1>2, <1>3, RespectfulUpdate

\* action register of a queued run: the busy check covers all it moves.
LEMMA PromoteStep ==
    ASSUME IInv, NEW r \in Runs, NEW M \in SUBSET Inputs, Promote(r, M)
    PROVE  IInv' /\ Respectful
<1>1. /\ IInv' /\ Update(r, TakenGoal(r, M, "waiting"), None)
      /\ \A m \in Moved(r, TakenGoal(r, M, "waiting")) :
            rstate[m] \notin RESOLVED /\ (m \in M \/ owner[m] = r)
  BY TakeInputsStep DEF Promote
<1>2. Busy(r, M \cup inputs[r]) = {}
  BY DEF Promote
<1>3. TakenGoal(r, M, "waiting") \in Goals
  BY StateFacts DEF Goals, TakenGoal
<1>4. \A m \in Moved(r, TakenGoal(r, M, "waiting")) :
         /\ rstate[m] \notin RESOLVED
         /\ owner[m] = r \/ \E N : m \in N /\ Busy(r, N) = {}
  BY <1>1, <1>2
<1> QED
  BY <1>1, <1>3, <1>4, RespectfulUpdate

\* A step on inputs the run owns and has not settled, all to one state.
OwnGoal(T, s) ==
    [m \in Inputs |-> IF m \in T /\ rstate[m] \notin TERMINAL THEN s ELSE "keep"]

\* Such a step, of start, ignore, no_reply, replying and finish, is legal.
LEMMA OwnStep ==
    ASSUME IInv, NEW r \in Runs, NEW T, NEW s \in InputStates, s # "completed",
           \A m \in T : owner[m] = r, T \subseteq Inputs,
           NEW ACTION commit,
           Transition(r, OwnGoal(T, s), None, commit),
           commit => /\ RunTypes' /\ inputs' = inputs /\ links' = links
                     /\ \A q \in Runs : q # r => status'[q] = status[q],
           commit => \/ status' = status /\ status[r] = "running"
                     \/ /\ status'[r] = "finished" /\ s \in TERMINAL
                        /\ \A m \in Inputs : owner[m] = r /\ rstate[m] \notin TERMINAL => m \in T
    PROVE  IInv' /\ Respectful
<1> DEFINE goal == OwnGoal(T, s)
<1>1. TypeOK /\ OwnerHasState /\ ActiveListed
  BY DEF IInv
<1>2. goal \in Goals
  BY DEF Goals, OwnGoal
<1>3. \A m \in Inputs : goal[m] = IF m \in T /\ rstate[m] \notin TERMINAL THEN s ELSE "keep"
  BY DEF OwnGoal
<1> HIDE DEF goal
<1>4. ASSUME NEW m \in Moved(r, goal)
      PROVE  m \in T /\ owner[m] = r /\ rstate[m] \in Active /\ goal[m] = s
  <2>1. m \in Inputs /\ goal[m] # "keep"
    BY DEF Moved
  <2>2. m \in T /\ rstate[m] \notin TERMINAL /\ goal[m] = s
    BY <1>3, <2>1
  <2>3. r # None
    BY ResponseAssumption
  <2>4. rstate[m] # "none"
    BY <1>1, <2>1, <2>2, <2>3 DEF OwnerHasState
  <2> QED
    BY <1>1, <2>1, <2>2, <2>4, StateFacts DEF TypeOK
<1>5. Update(r, goal, None) /\ commit
  BY <1>2, <1>4, Commits DEF goal
<1>6. Legal(r, goal)
  <2>1. \A m \in Moved(r, goal) : rstate[m] \notin RESOLVED
    BY <1>4, StateFacts
  <2>2. \A m \in Moved(r, goal) : m \in inputs'[r]
    BY <1>1, <1>4, <1>5, ResponseAssumption DEF ActiveListed, Moved
  <2>3. ASSUME NEW m \in Inputs, m \notin Moved(r, goal), owner[m] = r
        PROVE  /\ rstate[m] \in Active => m \in inputs'[r]
               /\ status'[r] = "finished" => rstate[m] \in TERMINAL
    <3>1. rstate[m] \in Active => m \in inputs'[r]
      BY <1>1, <1>5, <2>3, ResponseAssumption DEF ActiveListed
    <3>2. ASSUME status'[r] = "finished", rstate[m] \notin TERMINAL
          PROVE  FALSE
      <4>1. m \in T /\ s \in TERMINAL /\ goal[m] = s
        BY <1>3, <1>5, <2>3, <3>2
      <4>2. Changes(r, m, s)
        BY <3>2, <4>1, StateFacts DEF Changes
      <4> QED
        BY <2>3, <4>1, <4>2, StateFacts DEF Moved
    <3> QED
      BY <3>1, <3>2
  <2>4. status'[r] \in {"running", "finished"}
    BY <1>5
  <2>5. status'[r] = "finished" => s \in TERMINAL
    BY <1>5
  <2> QED
    BY <1>4, <1>5, <2>1, <2>2, <2>3, <2>4, <2>5 DEF Legal
<1>7. \A m \in Inputs : goal[m] # "completed"
  BY <1>3
<1>8. IInv'
  BY <1>2, <1>5, <1>6, <1>7, LegalStep
<1>9. Respectful
  BY <1>2, <1>4, <1>5, RespectfulUpdate, StateFacts
<1> QED
  BY <1>8, <1>9

\* start, ignore, no_reply, replying.
LEMMA DecideStep ==
    ASSUME IInv, NEW r \in Runs, NEW a \in {"processing", "ignored", "no_reply", "replying"},
           NEW T \in SUBSET Inputs, Decide(r, a, T)
    PROVE  IInv' /\ Respectful
<1> DEFINE commit == UNCHANGED <<runVars, links>>
<1>1. Transition(r, OwnGoal(T, a), None, commit)
  BY DEF Decide, OwnGoal
<1>2. a \in InputStates /\ a # "completed"
  BY DEF InputStates, Active, TERMINAL, RESOLVED
<1>3. T \subseteq Inputs /\ status[r] = "running" /\ \A m \in T : owner[m] = r
  BY DEF Decide
<1>4. commit => /\ RunTypes' /\ inputs' = inputs /\ links' = links /\ status' = status
                /\ \A q \in Runs : q # r => status'[q] = status[q]
  BY DEF IInv, TypeOK, RunTypes, runVars
<1> HIDE DEF commit
<1>5. commit => \/ status' = status /\ status[r] = "running"
                \/ /\ status'[r] = "finished" /\ a \in TERMINAL
                   /\ \A m \in Inputs : owner[m] = r /\ rstate[m] \notin TERMINAL => m \in T
  BY <1>3, <1>4
<1> QED
  BY <1>1, <1>2, <1>3, <1>4, <1>5, OwnStep

\* finish: ActiveListed says that message_ids names all the run has to settle.
LEMMA FinishStep ==
    ASSUME IInv, NEW r \in Runs, NEW o \in FinishOutcomes, NEW q \in BOOLEAN, Finish(r, o, q)
    PROVE  IInv' /\ Respectful
<1> DEFINE commit == /\ status' = [status EXCEPT ![r] = "finished"]
                     /\ UNCHANGED <<inputs, lease, links>>
<1> DEFINE T == {m \in inputs[r] : owner[m] = r}
<1>1. TypeOK /\ OwnerHasState /\ ActiveListed
  BY DEF IInv
<1>2. o \in TERMINAL /\ o \in InputStates /\ o # "completed"
  BY ResponseAssumption, StateFacts
<1>3. T \subseteq Inputs /\ \A m \in T : owner[m] = r
  BY <1>1 DEF TypeOK
<1>4. Transition(r, OwnGoal(T, o), None, commit)
  <2>1. OwnGoal(T, o) = [m \in Inputs |->
               IF m \in inputs[r] /\ owner[m] = r /\ rstate[m] \notin TERMINAL
               THEN o ELSE "keep"]
    BY DEF OwnGoal
  <2> QED
    BY <2>1 DEF Finish
<1>5. \A m \in Inputs : owner[m] = r /\ rstate[m] \notin TERMINAL => m \in T
  <2> SUFFICES ASSUME NEW m \in Inputs, owner[m] = r, rstate[m] \notin TERMINAL
               PROVE  m \in inputs[r]
    OBVIOUS
  <2>1. r # None
    BY ResponseAssumption
  <2>2. rstate[m] \in Active
    BY <1>1, <2>1, StateFacts DEF OwnerHasState, TypeOK
  <2> QED
    BY <1>1, <2>1, <2>2 DEF ActiveListed
<1>6. commit => /\ RunTypes' /\ inputs' = inputs /\ links' = links
                /\ status'[r] = "finished"
                /\ \A p \in Runs : p # r => status'[p] = status[p]
  BY <1>1 DEF TypeOK, RunTypes
<1> HIDE DEF commit, T
<1>7. commit => \/ status' = status /\ status[r] = "running"
                \/ /\ status'[r] = "finished" /\ o \in TERMINAL
                   /\ \A m \in Inputs : owner[m] = r /\ rstate[m] \notin TERMINAL => m \in T
  BY <1>2, <1>5, <1>6
<1> QED
  BY <1>2, <1>3, <1>4, <1>6, <1>7, OwnStep

\* Heartbeats, recalls and time touch no record of the ledger.
LEMMA QuietStep ==
    ASSUME IInv, (\E r \in Runs : Heartbeat(r)) \/ (\E m \in Recallable : Recall(m)) \/ Tick
    PROVE  IInv' /\ Respectful
<1>1. UNCHANGED <<status, inputs, owner, rstate, replyMsg, links, events, collided>>
  BY DEF Heartbeat, Recall, Tick, recordVars, runVars
<1>2. lease' \in [Runs -> 0..Lease]
  <2>1. lease \in [Runs -> 0..Lease] /\ Lease \in Nat
    BY ResponseAssumption DEF IInv, TypeOK
  <2> QED
    BY <2>1 DEF Heartbeat, Recall, Tick, runVars
<1>3. recalled' \in SUBSET Inputs
  <2>1. recalled \in SUBSET Inputs /\ Recallable \subseteq Inputs
    BY ResponseAssumption DEF IInv, TypeOK
  <2> QED
    BY <2>1 DEF Heartbeat, Recall, Tick
<1>4. TypeOK'
  BY <1>1, <1>2, <1>3 DEF IInv, TypeOK
<1>5. OwnerHasState' /\ ActiveListed' /\ NoInputLeftBehind'
  BY <1>1 DEF IInv, OwnerHasState, ActiveListed, NoInputLeftBehind
<1>6. EventsBehind' /\ EventsNeverCollide' /\ LedgerComplete'
  BY <1>1 DEF IInv, EventsBehind, EventsNeverCollide, LedgerComplete
<1>7. OneFinalReply' /\ ReplyBelongsToOneRun'
  BY <1>1 DEF IInv, OneFinalReply, ReplyBelongsToOneRun
<1>8. Respectful
  BY <1>1 DEF Respectful
<1> QED
  BY <1>4, <1>5, <1>6, <1>7, <1>8 DEF IInv

\* record_response: the reply is new and its targets are open.
LEMMA RecordResponseStep ==
    ASSUME IInv, NEW r \in Runs, NEW p \in Replies, NEW kind \in {"progress", "final"},
           NEW responds_to \in SUBSET Inputs, RecordResponse(r, p, kind, responds_to)
    PROVE  IInv' /\ Respectful
<1> DEFINE T == IF responds_to # {} THEN responds_to ELSE AutoTargets(r)
           s == IF kind = "final" THEN "completed" ELSE "replying"
           goal == [m \in Inputs |-> IF m \notin T THEN "keep"
                                     ELSE IF kind = "final" THEN "completed" ELSE "replying"]
           link(m) == [run |-> r, reply |-> p, target |-> m, kind |-> kind]
           commit == /\ links' = links \cup
                          {[run |-> r, reply |-> p, target |-> m, kind |-> kind] : m \in T}
                     /\ UNCHANGED runVars
<1>1. TypeOK /\ OwnerHasState /\ ActiveListed /\ OneFinalReply /\ ReplyBelongsToOneRun
      /\ LedgerComplete
  BY DEF IInv
<1>2. /\ \A l \in links : l.reply # p
      /\ status[r] = "running"
      /\ \A m \in T : owner[m] = r /\ rstate[m] \notin TERMINAL
      /\ Transition(r, goal, p, commit)
  BY DEF RecordResponse
<1>3. T \subseteq Inputs
  BY <1>1 DEF AutoTargets, TypeOK
<1>4. s \in InputStates /\ s \notin Outcomes /\ s # "keep" /\ s # "none"
      /\ (s = "completed" <=> kind = "final") /\ (s # "completed" => s = "replying")
  BY DEF InputStates, Active, TERMINAL, RESOLVED, Outcomes
<1>5. goal \in Goals /\ \A m \in Inputs : goal[m] = IF m \in T THEN s ELSE "keep"
  BY <1>4 DEF Goals
<1> HIDE DEF T, goal, s
<1>6. \A m \in T : rstate[m] \in Active /\ rstate[m] \notin RESOLVED
  BY <1>1, <1>2, <1>3, ResponseAssumption, StateFacts DEF OwnerHasState, TypeOK
<1>7. \A m \in Moved(r, goal) : m \in T /\ goal[m] = s
  BY <1>5 DEF Moved
<1>8. Update(r, goal, p) /\ commit
  <2> HIDE DEF commit
  <2> QED
    BY <1>2, <1>5, <1>6, <1>7, Commits
<1>9. Pointwise(r, goal, p)
  BY <1>1, <1>5, <1>8, UpdateFacts
<1>10. s = "completed" => T \subseteq Moved(r, goal)
  BY <1>3, <1>4, <1>5, <1>6, StateFacts DEF Moved, Changes
<1>11. links' = links \cup {link(m) : m \in T} /\ status' = status /\ inputs' = inputs
       /\ lease' = lease
  BY <1>8 DEF runVars
<1>12. Legal(r, goal)
  <2>1. \A m \in T : m \in inputs'[r]
    BY <1>1, <1>2, <1>3, <1>6, <1>11, ResponseAssumption DEF ActiveListed
  <2>2. \A m \in Inputs : owner[m] = r /\ rstate[m] \in Active => m \in inputs'[r]
    BY <1>1, <1>11, ResponseAssumption DEF ActiveListed
  <2> QED
    BY <1>2, <1>6, <1>7, <1>11, <2>1, <2>2 DEF Legal
<1>13. TypeOK'
  <2>1. /\ owner' \in [Inputs -> Runs \cup {None}]
        /\ rstate' \in [Inputs -> InputStates \cup {"none"}]
        /\ replyMsg' \in [Inputs -> Replies \cup {None}]
        /\ recalled' \in SUBSET Inputs
        /\ events' \in SUBSET Events
        /\ collided' \in BOOLEAN
    BY <1>1, <1>5, <1>8, UpdateTypes
  <2>2. links' \in SUBSET Links
    BY <1>1, <1>3, <1>11 DEF TypeOK, Links
  <2> QED
    BY <1>1, <1>11, <2>1, <2>2 DEF TypeOK
<1>14. ReplyBelongsToOneRun'
  BY <1>1, <1>2, <1>11 DEF ReplyBelongsToOneRun
<1>15. OneFinalReply'
  <2>1. \A l \in links : l.target \in Inputs
    BY <1>1 DEF TypeOK, Links
  <2>2. \A l \in links : l.kind = "final" => rstate[l.target] = "completed" /\ l.target \notin T
    BY <1>1, <1>6, StateFacts DEF OneFinalReply
  <2>3. \A l, k \in links' : l.kind = "final" /\ k.kind = "final" /\ l.target = k.target => l = k
    <3> SUFFICES ASSUME NEW l \in links', NEW k \in links',
                        l.kind = "final", k.kind = "final", l.target = k.target
                 PROVE  l = k
      OBVIOUS
    <3>1. CASE l \in links /\ k \in links
      BY <1>1, <3>1 DEF OneFinalReply
    <3>2. CASE l \notin links /\ k \notin links
      BY <1>11, <3>2
    <3>3. CASE l \in links /\ k \notin links
      BY <1>11, <2>2, <3>3
    <3>4. CASE l \notin links /\ k \in links
      BY <1>11, <2>2, <3>4
    <3> QED
      BY <3>1, <3>2, <3>3, <3>4
  <2>4. \A l \in links' : l.kind = "final" => rstate'[l.target] = "completed"
    <3> SUFFICES ASSUME NEW l \in links', l.kind = "final"
                 PROVE  rstate'[l.target] = "completed"
      OBVIOUS
    <3>1. CASE l \in links
      BY <1>7, <1>9, <2>1, <2>2, <3>1 DEF Pointwise
    <3>2. CASE l \notin links
      <4>1. l.target \in T /\ kind = "final"
        BY <1>11, <3>2
      <4> QED
        BY <1>3, <1>4, <1>7, <1>9, <1>10, <4>1 DEF Pointwise
    <3> QED
      BY <3>1, <3>2
  <2>5. ASSUME NEW m \in Inputs, rstate'[m] = "completed"
        PROVE  \E l \in links' : l.kind = "final" /\ l.target = m
                                 /\ l.reply = replyMsg'[m] /\ l.run = owner'[m]
    <3>1. CASE m \in Moved(r, goal)
      <4>1. s = "completed" /\ kind = "final" /\ m \in T /\ goal[m] = "completed"
        BY <1>4, <1>7, <1>9, <2>5, <3>1 DEF Pointwise
      <4>2. link(m) \in links' /\ link(m).kind = "final" /\ link(m).target = m
            /\ link(m).reply = p /\ link(m).run = r
        BY <1>11, <4>1
      <4>3. owner'[m] = r /\ replyMsg'[m] = p
        BY <1>9, <3>1, <4>1 DEF Pointwise
      <4> QED
        BY <4>2, <4>3
    <3>2. CASE m \notin Moved(r, goal)
      <4>1. rstate[m] = "completed" /\ owner'[m] = owner[m] /\ replyMsg'[m] = replyMsg[m]
        BY <1>9, <2>5, <3>2 DEF Pointwise
      <4> QED
        BY <1>1, <1>11, <4>1 DEF OneFinalReply
    <3> QED
      BY <3>1, <3>2
  <2> QED
    BY <2>3, <2>4, <2>5 DEF OneFinalReply
<1>16. LedgerComplete'
  <2>1. \A m \in Inputs : owner'[m] # None =>
           [run |-> owner'[m], target |-> m, state |-> rstate'[m]] \in events'
    BY <1>1, <1>9 DEF LedgerComplete, Pointwise
  <2>2. ASSUME NEW m \in T
        PROVE  [run |-> r, target |-> m, state |-> s] \in events'
    <3>1. CASE m \in Moved(r, goal)
      BY <1>3, <1>7, <1>9, <3>1 DEF Pointwise
    <3>2. CASE m \notin Moved(r, goal)
      <4>1. owner[m] = r /\ m \in Inputs /\ goal[m] = s /\ s = "replying"
        BY <1>2, <1>3, <1>4, <1>5, <1>10, <3>2
      <4>2. rstate[m] = "replying"
        <5>1. ~Changes(r, m, "replying")
          BY <1>4, <3>2, <4>1 DEF Moved
        <5> QED
          BY <1>6, <4>1, <5>1, OrderFacts DEF Changes
      <4>3. owner[m] # None
        BY <4>1, ResponseAssumption
      <4> QED
        BY <1>1, <1>9, <4>1, <4>2, <4>3 DEF LedgerComplete, Pointwise
    <3> QED
      BY <3>1, <3>2
  <2>3. ASSUME NEW l \in links'
        PROVE  [run |-> l.run, target |-> l.target, state |->
                   IF l.kind = "final" THEN "completed" ELSE "replying"] \in events'
    <3>1. CASE l \in links
      BY <1>1, <1>9, <3>1 DEF LedgerComplete, Pointwise
    <3>2. CASE l \notin links
      <4>1. l.run = r /\ l.target \in T /\ l.kind = kind
        BY <1>11, <3>2
      <4> QED
        BY <1>4, <2>2, <4>1
    <3> QED
      BY <3>1, <3>2
  <2> QED
    BY <2>1, <2>3 DEF LedgerComplete
<1>17. OwnerHasState' /\ ActiveListed' /\ NoInputLeftBehind' /\ EventsBehind'
  BY <1>5, <1>8, <1>12, LegalKeepsOwners, LegalKeepsEventsBehind
<1>18. EventsNeverCollide'
  BY <1>8 DEF IInv, EventsNeverCollide, Update
<1>19. Respectful
  BY <1>2, <1>5, <1>6, <1>7, <1>8, RespectfulUpdate
<1> QED
  BY <1>13, <1>14, <1>15, <1>16, <1>17, <1>18, <1>19 DEF IInv

-----------------------------------------------------------------------------
(* The theorems *)

\* The invariant is inductive, and every step is respectful.
LEMMA Induction ==
    /\ Init => IInv
    /\ IInv /\ [Next]_vars => IInv' /\ Respectful
<1>1. ASSUME Init PROVE IInv
  <2>1. TypeOK
    <3>1. lease \in [Runs -> 0..Lease]
      BY <1>1, ResponseAssumption DEF Init
    <3>2. status \in [Runs -> {"none", "queued", "running", "finished"}]
          /\ inputs \in [Runs -> SUBSET Inputs]
      BY <1>1 DEF Init
    <3>3. owner \in [Inputs -> Runs \cup {None}] /\ replyMsg \in [Inputs -> Replies \cup {None}]
          /\ rstate \in [Inputs -> InputStates \cup {"none"}]
      BY <1>1 DEF Init
    <3> QED
      BY <1>1, <3>1, <3>2, <3>3 DEF Init, TypeOK
  <2>2. OwnerHasState /\ ActiveListed /\ EventsBehind /\ EventsNeverCollide
    BY <1>1 DEF Init, OwnerHasState, ActiveListed, EventsBehind, EventsNeverCollide
  <2>3. OneFinalReply /\ ReplyBelongsToOneRun /\ LedgerComplete /\ NoInputLeftBehind
    BY <1>1 DEF Init, OneFinalReply, ReplyBelongsToOneRun, LedgerComplete, NoInputLeftBehind
  <2> QED
    BY <2>1, <2>2, <2>3 DEF IInv
<1>2. ASSUME IInv, [Next]_vars PROVE IInv' /\ Respectful
  <2>1. CASE \E r \in Runs, M \in SUBSET Inputs : Queue(r, M)
    BY <1>2, <2>1, QueueStep
  <2>2. CASE \E r \in Runs, M \in SUBSET Inputs : Register(r, M)
    BY <1>2, <2>2, RegisterStep
  <2>3. CASE \E r \in Runs, M \in SUBSET Inputs : Promote(r, M)
    BY <1>2, <2>3, PromoteStep
  <2>4. CASE \E r \in Runs, a \in {"processing", "ignored", "no_reply", "replying"},
                T \in SUBSET Inputs : Decide(r, a, T)
    BY <1>2, <2>4, DecideStep
  <2>5. CASE \E r \in Runs, o \in FinishOutcomes, q \in BOOLEAN : Finish(r, o, q)
    BY <1>2, <2>5, FinishStep
  <2>6. CASE \E r \in Runs, p \in Replies, k \in {"progress", "final"},
                T \in SUBSET Inputs : RecordResponse(r, p, k, T)
    BY <1>2, <2>6, RecordResponseStep
  <2>7. CASE (\E r \in Runs : Heartbeat(r)) \/ (\E m \in Recallable : Recall(m)) \/ Tick
    BY <1>2, <2>7, QuietStep
  <2>8. CASE UNCHANGED vars
    <3>1. UNCHANGED <<status, inputs, lease, owner, rstate, replyMsg, recalled, links,
                      events, collided>>
      BY <2>8 DEF vars, runVars, recordVars
    <3> QED
      BY <1>2, <3>1 DEF IInv, TypeOK, OwnerHasState, ActiveListed, EventsBehind,
          EventsNeverCollide, OneFinalReply, ReplyBelongsToOneRun, LedgerComplete,
          NoInputLeftBehind, Respectful
  <2> QED
    BY <1>2, <2>1, <2>2, <2>3, <2>4, <2>5, <2>6, <2>7, <2>8 DEF Next
<1> QED
  BY <1>1, <1>2

\* The inductive invariant holds in every reachable state.
LEMMA Invariance == Spec => []IInv
<1>1. Init => IInv
  BY Induction
<1>2. IInv /\ [Next]_vars => IInv'
  BY Induction
<1> QED
  BY <1>1, <1>2, PTL DEF Spec

\* Every column keeps its type.
THEOREM TypeCorrect == Spec => []TypeOK
BY Invariance, PTL DEF IInv

\* However many runs, daemons and retries there are, an input gets at most
\* one final reply and is completed by exactly that one.
THEOREM AnsweredOnce == Spec => []OneFinalReply
BY Invariance, PTL DEF IInv

\* A reply is never claimed by two runs, nor counted as both kinds.
THEOREM RepliesBelong == Spec => []ReplyBelongsToOneRun
BY Invariance, PTL DEF IInv

\* No order of requests makes one fail on the unique key of the ledger.
THEOREM LedgerNeverCollides == Spec => []EventsNeverCollide
BY Invariance, PTL DEF IInv

\* The ledger explains the state of every input and every linked reply.
THEOREM LedgerIsComplete == Spec => []LedgerComplete
BY Invariance, PTL DEF IInv

\* A finished run leaves no input undecided.
THEOREM NothingLeftBehind == Spec => []NoInputLeftBehind
BY Invariance, PTL DEF IInv

\* A resolved input is never reopened, reassigned or answered again.
THEOREM DecisionsAreFinal == Spec => ResolvedForever
<1>1. IInv /\ [Next]_vars =>
        [\A m \in Inputs : rstate[m] \in RESOLVED =>
            UNCHANGED <<owner[m], rstate[m], replyMsg[m]>>]_vars
  BY Induction DEF Respectful
<1> QED
  BY <1>1, Invariance, PTL DEF Spec, ResolvedForever

\* Neither a request to be queued nor a promotion from the queue takes an input
\* from a live execution.
THEOREM QueueIsPolite == Spec => QueuedNeverPreempts
<1>1. IInv /\ [Next]_vars =>
        [\A m \in Inputs :
            owner[m] # owner'[m] /\ owner[m] # None /\ rstate[m] \in Active \ {"queued"}
            /\ status[owner[m]] = "running" /\ ~expired(owner[m])
            => status[owner'[m]] = "none" /\ status'[owner'[m]] = "running"]_vars
  BY Induction DEF Respectful
<1> QED
  BY <1>1, Invariance, PTL DEF Spec, QueuedNeverPreempts
=============================================================================
