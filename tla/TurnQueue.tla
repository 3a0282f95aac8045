----------------------------- MODULE TurnQueue -----------------------------
(***************************************************************************)
(* One conversation queue of the daemon's dispatcher                       *)
(* (packages/daemon/src/gateway/dispatcher.ts).  Every inbound message is  *)
(* carried by one call of handle(); the steps below are the stretches of   *)
(* that call between two awaits.  mode is the queue mode of the            *)
(* conversation: "cancel" lets a new message abort the running turn,       *)
(* "serial" buffers it and merges the buffer into the next turn.  Turns    *)
(* are named by their winning message, which is also what turnId does.     *)
(***************************************************************************)
EXTENDS Naturals, Sequences, FiniteSets, SequencesExt

CONSTANTS Msgs,            \* inbound messages of this conversation
          Multimodal,      \* those with attachments and no authored text
          NoMsg,           \* absence of a message
          Modes,           \* queue modes to look at: "cancel", "serial"
          BufferCap,       \* MAX_BATCH_BUFFER_ENTRIES
          CharCap,         \* MAX_BATCH_BUFFER_CHARS, in messages
          UnknownRuntime,  \* whether the route may name an unknown runtime
          MaxCrashes       \* bound on daemon restarts

ASSUME QueueAssumption ==
  /\ Multimodal \subseteq Msgs /\ NoMsg \notin Msgs
  /\ Modes \subseteq {"cancel", "serial"}
  /\ BufferCap \in Nat \ {0} /\ CharCap \in Nat \ {0}
  /\ UnknownRuntime \in BOOLEAN /\ MaxCrashes \in Nat

VARIABLES
  \* resolveQueueMode of the conversation; it does not change
  mode,
  \* handle(): where each call stands, the messages it carries, the ack
  pc, batch, acked,
  \* QueueState: running slot, cancel generation, serial buffer and worker
  current, cancelGen, myGen, waitFor, buffer, completion, worker, drained,
  \* attachments waiting for the next text message
  deferred,
  \* TurnSlot of every turn
  turn,
  \* history: turns entered, replies of turns on the wire, terminal outcome of each
  \* message, number of terminal transcript records of each turn, arrivals, crashes
  entered, sent, settled, records, arrivals, crashes

handleVars == <<pc, batch, acked>>
queueVars  == <<current, cancelGen, myGen, waitFor, buffer, completion,
                worker, drained>>
histVars   == <<entered, sent, settled, records, arrivals, crashes>>
vars == <<handleVars, queueVars, deferred, turn, histVars>>

Stages == {"idle", "deferring", "gate", "awaitPrev", "running", "trim",
           "completion", "settle", "finally", "done", "rejected"}
Phases == {"none", "runtime", "persist", "replying", "sent", "finally",
           "done", "leaked"}
Outcomes == {"none", "ran", "trimmed", "overflow", "superseded", "skipped"}

NoTurn == [phase |-> "none", inputs |-> <<>>, superseded |-> FALSE,
           killed |-> FALSE, result |-> "none"]

TypeOK ==
  /\ mode \in Modes
  /\ pc \in [Msgs -> Stages]
  /\ batch \in [Msgs -> Seq(Msgs)]
  /\ acked \in [Msgs -> BOOLEAN]
  /\ current \in Msgs \cup {NoMsg}
  /\ cancelGen \in Nat /\ myGen \in [Msgs -> Nat]
  /\ waitFor \in [Msgs -> Msgs \cup {NoMsg}]
  /\ buffer \in Seq(Msgs) /\ Len(buffer) <= BufferCap
  /\ deferred \in Seq(Msgs) /\ Len(deferred) <= BufferCap
  /\ drained \in Seq(Msgs)
  /\ completion \in [Msgs -> {"pending", "resolved", "rejected"}]
  /\ worker \in Msgs \cup {NoMsg}
  /\ turn \in [Msgs -> [phase : Phases, inputs : Seq(Msgs),
                        superseded : BOOLEAN, killed : BOOLEAN,
                        result : {"none", "text", "error", "threw"}]]
  /\ entered \in Seq(Msgs) /\ sent \in Seq(Msgs) /\ arrivals \in Seq(Msgs)
  /\ settled \in [Msgs -> Outcomes]
  /\ records \in [Msgs -> Nat]
  /\ crashes \in 0..MaxCrashes

Init ==
  /\ mode \in Modes
  /\ pc = [m \in Msgs |-> "idle"]
  /\ batch = [m \in Msgs |-> <<>>]
  /\ acked = [m \in Msgs |-> FALSE]
  /\ current = NoMsg /\ cancelGen = 0 /\ worker = NoMsg
  /\ myGen = [m \in Msgs |-> 0]
  /\ waitFor = [m \in Msgs |-> NoMsg]
  /\ buffer = <<>> /\ deferred = <<>> /\ drained = <<>>
  /\ completion = [m \in Msgs |-> "pending"]
  /\ turn = [m \in Msgs |-> NoTurn]
  /\ entered = <<>> /\ sent = <<>> /\ arrivals = <<>>
  /\ settled = [m \in Msgs |-> "none"]
  /\ records = [m \in Msgs |-> 0]
  /\ crashes = 0

(***************************************************************************)
(* handle(): from the arrival to the queue.                                *)
(***************************************************************************)

\* A file or an image on its own is acked first ...
DeferAck(m) ==
  /\ pc[m] = "idle" /\ m \in Multimodal /\ ~acked[m]
  /\ acked' = [acked EXCEPT ![m] = TRUE]
  /\ pc' = [pc EXCEPT ![m] = "deferring"]
  /\ arrivals' = Append(arrivals, m)
  /\ UNCHANGED <<batch, queueVars, deferred, turn, entered, sent, settled,
                 records, crashes>>

\* ... then kept for the next text message; past the cap the oldest goes.
deferMultimodal(m) ==
  LET list == Append(deferred, m)
      over == Len(list) > BufferCap
  IN  /\ pc[m] = "deferring"
      /\ pc' = [pc EXCEPT ![m] = "done"]
      /\ deferred' = IF over THEN Tail(list) ELSE list
      /\ settled' = IF over THEN [settled EXCEPT ![Head(list)] = "overflow"]
                            ELSE settled
      /\ records' = IF over
                    THEN [records EXCEPT ![Head(list)] = @ + 1]
                    ELSE records
      /\ UNCHANGED <<batch, acked, queueVars, turn, entered, sent, arrivals,
                     crashes>>

\* mergeSerialBuffer: with several entries the oldest messages past the
\* character cap fall out of the prompt.
Merge(entries) ==
  LET items == FlattenSeq(entries)
  IN  IF Len(entries) = 1 \/ Len(items) <= CharCap THEN items
      ELSE SubSeq(items, Len(items) - CharCap + 1, Len(items))

Trimmed(entries) ==
  ToSet(FlattenSeq(entries)) \ ToSet(Merge(entries))

\* A text message takes the deferred attachments with it.
Arrive(m) ==
  LET entries == Append([i \in DOMAIN deferred |-> <<deferred[i]>>], <<m>>)
  IN  /\ pc[m] = "idle" /\ m \notin Multimodal /\ ~acked[m]
      /\ batch' = [batch EXCEPT ![m] = Merge(entries)]
      /\ settled' = [x \in Msgs |-> IF x \in Trimmed(entries) THEN "trimmed"
                                    ELSE IF x = m THEN "none"
                                    ELSE settled[x]]
      /\ records' = [x \in Msgs |-> IF x \in ToSet(deferred)
                                    THEN records[x] + 1 ELSE records[x]]
      /\ deferred' = <<>>
      /\ pc' = [pc EXCEPT ![m] = "gate"]
      /\ arrivals' = Append(arrivals, m)
      /\ UNCHANGED <<acked, queueVars, turn, entered, sent, crashes>>

\* The call ends without a turn: the decision is reported to the hub and the
\* message is acked.  The attention gate leaves one terminal record, the open
\* authentication breaker two: the error and its diagnostic, a notice that is
\* no turn's reply and not counted as one.
SkipTurn(m) ==
  /\ pc[m] = "gate"
  /\ \E n \in {1, 2} : records' = [records EXCEPT ![m] = @ + n]
  /\ settled' = [x \in Msgs |-> IF x \in ToSet(batch[m]) THEN "skipped"
                                ELSE settled[x]]
  /\ pc' = [pc EXCEPT ![m] = "done"]
  /\ acked' = [acked EXCEPT ![m] = TRUE]
  /\ UNCHANGED <<batch, queueVars, deferred, turn, entered, sent, arrivals,
                 crashes>>

\* The report of an attention decision or of the queueing fails: handle()
\* throws and nothing is acked.
ReportFails(m) ==
  /\ pc[m] = "gate"
  /\ pc' = [pc EXCEPT ![m] = "rejected"]
  /\ \E n \in {0, 1} : records' = [records EXCEPT ![m] = @ + n]
  /\ UNCHANGED <<batch, acked, queueVars, deferred, turn, entered, sent,
                 settled, arrivals, crashes>>

(***************************************************************************)
(* runTurn: the slot from its creation to its release.                     *)
(***************************************************************************)

NewTurn(ins) == [NoTurn EXCEPT !.phase = "runtime", !.inputs = ins]

Phase(m, p) == turn' = [turn EXCEPT ![m].phase = p]

\* A terminal transcript record: dropped, outbound or turn_error.
Record(m) == records' = [records EXCEPT ![m] = @ + 1]

SpeakFrame == <<handleVars, queueVars, deferred, entered, settled, arrivals,
                crashes>>
TurnFrame == <<SpeakFrame, sent>>

\* The error reply of a turn: canDeliverRuntimeDiagnostics is always true.
ErrorReply(m) == sent' = Append(sent, m)

\* The hard cap of a turn: the timer, or the tool budget of a cloud run.
\* It fires whether or not the turn was superseded before.
TurnTimeout(m) ==
  /\ turn[m].phase = "runtime" /\ ~turn[m].killed
  /\ turn' = [turn EXCEPT ![m].killed = TRUE]
  /\ UNCHANGED <<TurnFrame, records>>

\* runtime.run and onTurnComplete have returned.  A superseded turn stops
\* here without a word; a killed or failed one sends its error reply.
RuntimeEnds(m, result) ==
  LET t == turn[m]
      To(p) == turn' = [turn EXCEPT ![m].phase = p, ![m].result = result]
  IN
  /\ t.phase = "runtime"
  /\ \/ /\ t.superseded /\ ~t.killed
        /\ To("finally") /\ UNCHANGED <<records, sent>>
     \/ /\ t.killed \/ (result = "threw" /\ ~t.superseded)
        /\ To("finally") /\ Record(m) /\ ErrorReply(m)
     \/ \* the response decision cannot be parsed or reported
        /\ ~t.superseded /\ ~t.killed /\ result = "text"
        /\ To("finally") /\ UNCHANGED <<records, sent>>
     \/ /\ ~t.superseded /\ ~t.killed /\ result # "threw"
        /\ To("persist") /\ UNCHANGED <<records, sent>>
  /\ UNCHANGED SpeakFrame

\* Mutant of LastCheck: the abort signal is not looked at again.
LastCheckTrusts(m) ==
  LET t == turn[m] IN
  /\ t.phase = "persist"
  /\ \/ /\ t.result = "error" /\ Phase(m, "finally")
        /\ records' = [records EXCEPT ![m] = @ + 2] /\ ErrorReply(m)
     \/ /\ t.result \in {"none", "text"}
        /\ Phase(m, "finally") /\ Record(m) /\ UNCHANGED sent
     \/ /\ t.result = "text"
        /\ Phase(m, "replying") /\ UNCHANGED <<records, sent>>
  /\ UNCHANGED SpeakFrame

\* sessionStore.set or delete has returned.  Of the branches that follow,
\* only the one that sends text looks at the abort signal again.
LastCheck(m) ==
  LET t == turn[m] IN
  /\ t.phase = "persist"
  /\ \/ \* error without text: failure captured, diagnostic sent
        /\ t.result = "error" /\ Phase(m, "finally")
        /\ records' = [records EXCEPT ![m] = @ + 2] /\ ErrorReply(m)
     \/ \* no text, or text that this room does not accept
        /\ t.result \in {"none", "text"}
        /\ Phase(m, "finally") /\ Record(m) /\ UNCHANGED sent
     \/ /\ t.result = "text" /\ t.superseded
        /\ Phase(m, "finally") /\ UNCHANGED <<records, sent>>
     \/ /\ t.result = "text" /\ ~t.superseded
        /\ Phase(m, "replying") /\ UNCHANGED <<records, sent>>
  /\ UNCHANGED SpeakFrame

\* The reply intent is reported; if that fails the reply is not sent.
ReplyIntentFails(m) ==
  /\ turn[m].phase = "replying"
  /\ Phase(m, "finally")
  /\ UNCHANGED <<TurnFrame, records>>

sendReply(m) ==
  /\ turn[m].phase = "replying"
  /\ Phase(m, "sent")
  /\ sent' = Append(sent, m)
  /\ UNCHANGED <<SpeakFrame, records>>

emitOutbound(m) ==
  /\ turn[m].phase = "sent"
  /\ Phase(m, "finally") /\ Record(m)
  /\ UNCHANGED TurnFrame

\* The end of the finally block: the slot is cleared, done resolves, and in
\* cancel mode runTurn returns into handle().
ReleaseSlot(m) ==
  /\ turn[m].phase = "finally"
  /\ Phase(m, "done")
  /\ current' = IF current = m THEN NoMsg ELSE current
  /\ settled' = [x \in Msgs |-> IF x \in ToSet(turn[m].inputs) THEN "ran"
                                ELSE settled[x]]
  /\ pc' = IF mode = "cancel" THEN [pc EXCEPT ![m] = "finally"] ELSE pc
  /\ UNCHANGED <<batch, acked, cancelGen, myGen, waitFor, buffer, completion,
                 worker, drained, deferred, entered, sent, records, arrivals, crashes>>

\* runtimeFactory throws outside the try block: runTurn rejects and its
\* finally never runs, so the slot stays and done never resolves.
FactoryThrows(m) ==
  /\ UnknownRuntime /\ turn[m].phase = "runtime"
  /\ Phase(m, "leaked")
  /\ IF mode = "cancel"
     THEN /\ pc' = [pc EXCEPT ![m] = "rejected"]
          /\ UNCHANGED <<buffer, completion, worker, drained>>
     ELSE \* the worker rejects what it drained and what is still buffered
          /\ completion' = [x \in Msgs |->
                             IF x \in ToSet(drained) \cup ToSet(buffer)
                             THEN "rejected" ELSE completion[x]]
          /\ buffer' = <<>> /\ worker' = NoMsg /\ drained' = <<>>
          /\ UNCHANGED pc
  /\ UNCHANGED <<batch, acked, current, cancelGen, myGen, waitFor, deferred,
                 histVars>>

(***************************************************************************)
(* runCancelPrevious                                                       *)
(***************************************************************************)

BeginTurn(m, ins) ==
  /\ current' = m
  /\ turn' = [turn EXCEPT ![m] = NewTurn(ins)]
  /\ pc' = [pc EXCEPT ![m] = "running"]

\* Mutant of EnterCancel: the generation is read before it is bumped.
EnterCancelReadsEarly(m) ==
  /\ mode = "cancel" /\ pc[m] = "gate"
  /\ cancelGen' = cancelGen + 1
  /\ myGen' = [myGen EXCEPT ![m] = cancelGen]
  /\ entered' = Append(entered, m)
  /\ IF current = NoMsg
     THEN BeginTurn(m, batch[m]) /\ UNCHANGED <<waitFor, records>>
     ELSE /\ turn' = [turn EXCEPT ![current].superseded = TRUE]
          /\ Record(current)
          /\ waitFor' = [waitFor EXCEPT ![m] = current]
          /\ pc' = [pc EXCEPT ![m] = "awaitPrev"]
          /\ UNCHANGED current
  /\ UNCHANGED <<batch, acked, buffer, completion, worker, drained, deferred,
                 sent, settled, arrivals, crashes>>

EnterCancel(m) ==
  /\ mode = "cancel" /\ pc[m] = "gate"
  /\ cancelGen' = cancelGen + 1
  /\ myGen' = [myGen EXCEPT ![m] = cancelGen + 1]
  /\ entered' = Append(entered, m)
  /\ IF current = NoMsg
     THEN BeginTurn(m, batch[m]) /\ UNCHANGED <<waitFor, records>>
     ELSE /\ turn' = [turn EXCEPT ![current].superseded = TRUE]
          /\ Record(current)
          /\ waitFor' = [waitFor EXCEPT ![m] = current]
          /\ pc' = [pc EXCEPT ![m] = "awaitPrev"]
          /\ UNCHANGED current
  /\ UNCHANGED <<batch, acked, buffer, completion, worker, drained, deferred,
                 sent, settled, arrivals, crashes>>

PrevDone(m) == pc[m] = "awaitPrev" /\ turn[waitFor[m]].phase = "done"

\* Mutant of TakeOver: the generation is not compared after the await.
TakeOverAnyGen(m) ==
  /\ PrevDone(m)
  /\ BeginTurn(m, batch[m])
  /\ UNCHANGED <<batch, acked, cancelGen, myGen, waitFor, buffer, completion,
                 worker, drained, deferred, histVars>>

\* The previous turn is gone and no newer message has bumped the generation.
TakeOver(m) ==
  /\ PrevDone(m) /\ myGen[m] = cancelGen
  /\ BeginTurn(m, batch[m])
  /\ UNCHANGED <<batch, acked, cancelGen, myGen, waitFor, buffer, completion,
                 worker, drained, deferred, histVars>>

DropOut(m) ==
  /\ PrevDone(m) /\ myGen[m] # cancelGen
  /\ Record(m)
  /\ pc' = [pc EXCEPT ![m] = "settle"]
  /\ UNCHANGED <<batch, acked, queueVars, deferred, turn, entered, sent,
                 settled, arrivals, crashes>>

\* settleSkippedResponse(interrupted, superseded); failures are swallowed.
SettleSuperseded(m) ==
  /\ pc[m] = "settle"
  /\ settled' = [x \in Msgs |-> IF x \in ToSet(batch[m]) THEN "superseded"
                                ELSE settled[x]]
  /\ pc' = [pc EXCEPT ![m] = "finally"]
  /\ UNCHANGED <<batch, acked, queueVars, deferred, turn, entered, sent,
                 records, arrivals, crashes>>

(***************************************************************************)
(* runSerial                                                               *)
(***************************************************************************)

\* Drain the whole buffer into one turn won by its last entry; outcome is
\* what is settled before.
DrainInto(buf, outcome) ==
  LET entries == [i \in DOMAIN buf |-> batch[buf[i]]]
      winner  == buf[Len(buf)]
  IN  /\ current' = winner
      /\ turn' = [turn EXCEPT ![winner] = NewTurn(Merge(entries))]
      /\ settled' = [x \in Msgs |-> IF x \in Trimmed(entries) THEN "trimmed"
                                    ELSE outcome[x]]
      /\ records' = [x \in Msgs |->
                      IF x \in ToSet(buf) \ {winner}
                      THEN records[x] + 1 ELSE records[x]]
      /\ drained' = buf /\ buffer' = <<>>

\* Mutant of EnterSerial: the worker flag is not looked at.
EnterSerialAlways(m) ==
  /\ mode = "serial" /\ pc[m] = "gate"
  /\ entered' = Append(entered, m)
  /\ worker' = m /\ pc' = [pc EXCEPT ![m] = "completion"]
  /\ DrainInto(Append(buffer, m), settled)
  /\ UNCHANGED <<batch, acked, cancelGen, myGen, waitFor, completion, deferred,
                 sent, arrivals, crashes>>

\* The entry is pushed.  Past the cap the oldest is taken out at once and the
\* call goes on to report it; else the call becomes the worker, or waits.
EnterSerial(m) ==
  LET buf == Append(buffer, m) IN
  /\ mode = "serial" /\ pc[m] = "gate"
  /\ entered' = Append(entered, m)
  /\ \/ /\ Len(buf) > BufferCap
        /\ buffer' = Tail(buf) /\ Record(Head(buf))
        /\ waitFor' = [waitFor EXCEPT ![m] = Head(buf)]
        /\ pc' = [pc EXCEPT ![m] = "trim"]
        /\ UNCHANGED <<current, turn, settled, drained, worker>>
     \/ /\ Len(buf) <= BufferCap /\ worker # NoMsg
        /\ buffer' = buf
        /\ pc' = [pc EXCEPT ![m] = "completion"]
        /\ UNCHANGED <<current, turn, settled, records, drained, worker, waitFor>>
     \/ /\ Len(buf) <= BufferCap /\ worker = NoMsg
        /\ worker' = m /\ pc' = [pc EXCEPT ![m] = "completion"]
        /\ DrainInto(buf, settled)
        /\ UNCHANGED waitFor
  /\ UNCHANGED <<batch, acked, cancelGen, myGen, completion, deferred, sent,
                 arrivals, crashes>>

\* The dropped entry has its outcome; the worker is started if there is none.
AfterDrop(m, outcome) ==
  /\ pc[m] = "trim"
  /\ completion' = [completion EXCEPT ![waitFor[m]] = "resolved"]
  /\ pc' = [pc EXCEPT ![m] = "completion"]
  /\ IF worker = NoMsg /\ buffer # <<>>
     THEN worker' = m /\ DrainInto(buffer, outcome)
     ELSE /\ settled' = outcome
          /\ UNCHANGED <<buffer, worker, drained, current, turn, records>>
  /\ UNCHANGED <<batch, acked, cancelGen, myGen, waitFor, deferred, entered,
                 sent, arrivals, crashes>>

\* settleSkippedResponse(queue_overflow) for the entry m pushed out.
SettleDropped(m) ==
  AfterDrop(m, [x \in Msgs |-> IF x \in ToSet(batch[waitFor[m]])
                               THEN "overflow" ELSE settled[x]])

WorkerTurnOver(w) ==
  /\ mode = "serial" /\ worker = w /\ drained # <<>>
  /\ turn[drained[Len(drained)]].phase = "done"
  /\ completion' = [x \in Msgs |-> IF x \in ToSet(drained) THEN "resolved"
                                   ELSE completion[x]]
  /\ UNCHANGED <<pc, batch, acked, cancelGen, myGen, waitFor, deferred,
                 entered, sent, arrivals, crashes>>

WorkerStops ==
  /\ worker' = NoMsg /\ drained' = <<>>
  /\ UNCHANGED <<buffer, current, turn, settled, records>>

\* Mutant of WorkerLoop: the worker stops after its first turn.
WorkerStopsEarly(w) == WorkerTurnOver(w) /\ WorkerStops

\* The worker's turn is over: its entries resolve and the next batch starts.
WorkerLoop(w) ==
  /\ WorkerTurnOver(w)
  /\ IF buffer = <<>> THEN WorkerStops
     ELSE DrainInto(buffer, settled) /\ UNCHANGED worker

\* Mutant of CompletionResolved: a merged entry counts as handled at once.
CompletionAtDrain(m) ==
  /\ pc[m] = "completion" /\ worker # m
  /\ completion[m] = "resolved" \/ m \in ToSet(drained)
  /\ pc' = [pc EXCEPT ![m] = "finally"]
  /\ UNCHANGED <<batch, acked, queueVars, deferred, turn, histVars>>

\* await completion: the call that runs the worker gets there only after the
\* worker has stopped.
CompletionResolved(m) ==
  /\ pc[m] = "completion" /\ worker # m /\ completion[m] = "resolved"
  /\ pc' = [pc EXCEPT ![m] = "finally"]
  /\ UNCHANGED <<batch, acked, queueVars, deferred, turn, histVars>>

\* A rejected completion makes handle() throw: there is no ack.
CompletionRejected(m) ==
  /\ pc[m] = "completion" /\ worker # m /\ completion[m] = "rejected"
  /\ pc' = [pc EXCEPT ![m] = "rejected"]
  /\ UNCHANGED <<batch, acked, queueVars, deferred, turn, histVars>>

\* The end of handle(): finish a still queued attempt, then ack.
safeAck(m) ==
  /\ pc[m] = "finally"
  /\ pc' = [pc EXCEPT ![m] = "done"]
  /\ acked' = [acked EXCEPT ![m] = TRUE]
  /\ UNCHANGED <<batch, queueVars, deferred, turn, histVars>>

(***************************************************************************)
(* A restart keeps nothing but what the hub and the transcript hold;       *)
(* messages that were not acked arrive again.                              *)
(***************************************************************************)
Crash ==
  /\ crashes < MaxCrashes
  /\ crashes' = crashes + 1
  /\ pc' = [m \in Msgs |-> "idle"]
  /\ batch' = [m \in Msgs |-> <<>>]
  /\ current' = NoMsg /\ cancelGen' = 0 /\ worker' = NoMsg
  /\ myGen' = [m \in Msgs |-> 0]
  /\ waitFor' = [m \in Msgs |-> NoMsg]
  /\ buffer' = <<>> /\ deferred' = <<>> /\ drained' = <<>>
  /\ completion' = [m \in Msgs |-> "pending"]
  /\ turn' = [m \in Msgs |-> NoTurn]
  /\ entered' = <<>> /\ sent' = <<>> /\ arrivals' = <<>>
  /\ records' = [m \in Msgs |-> 0]
  /\ UNCHANGED <<acked, settled>>

TurnStep(m) ==
  \/ \E r \in {"none", "text", "error", "threw"} : RuntimeEnds(m, r)
  \/ LastCheck(m) \/ ReplyIntentFails(m) \/ sendReply(m) \/ emitOutbound(m)
  \/ ReleaseSlot(m)

HandleStep(m) ==
  \/ deferMultimodal(m) \/ ReportFails(m) \/ SkipTurn(m)
  \/ EnterCancel(m) \/ TakeOver(m) \/ DropOut(m) \/ SettleSuperseded(m)
  \/ EnterSerial(m) \/ SettleDropped(m) \/ WorkerLoop(m)
  \/ CompletionResolved(m) \/ CompletionRejected(m) \/ safeAck(m)

Next ==
  \/ \E m \in Msgs : \/ DeferAck(m) \/ Arrive(m) \/ HandleStep(m)
                     \/ TurnStep(m) \/ TurnTimeout(m) \/ FactoryThrows(m)
  \/ Crash

Spec == Init /\ [][Next /\ UNCHANGED mode]_<<vars, mode>>

\* Every await returns: the hub calls have timeouts, the runtime is killed by
\* the turn timer, and the event loop runs every resolved continuation.
Fairness == \A m \in Msgs : WF_vars(HandleStep(m)) /\ WF_vars(TurnStep(m))

FairSpec == Spec /\ Fairness

(***************************************************************************)
(* Properties                                                              *)
(***************************************************************************)

Executing(m) == turn[m].phase \notin {"none", "done", "leaked"}

\* At most one turn of a conversation executes, and it is the one the queue
\* knows: no interleaving of arrivals with the teardown of an aborted turn
\* (runCancelPrevious) or with the serial worker starts a second.
OneTurnAtATime ==
  \A m \in Msgs : Executing(m) => current = m

\* A text message is acked at the hub only when it has reached a terminal
\* outcome (its turn released its slot, or it was superseded, trimmed, skipped
\* or dropped), whatever it was merged into and wherever the daemon crashed.
AckedTextIsSettled ==
  \A m \in Msgs \ Multimodal : acked[m] => settled[m] # "none"

\* Replies, error replies included, reach the wire in the order in which
\* their messages entered the queue: a turn that lost its slot cannot speak
\* after its successor.
Position(s, m) == CHOOSE i \in DOMAIN s : s[i] = m
RepliesInOrder ==
  \A i, j \in DOMAIN sent :
    i < j => Position(entered, sent[i]) < Position(entered, sent[j])

\* A turn that is superseded before its session is persisted does not send its
\* text; one that is superseded later, while the reply intent is reported,
\* still does (the check before the send "narrows the window").  Its error
\* reply goes out either way.
SupersededIsSilent ==
  [][\A m \in Msgs : turn[m].superseded /\ turn[m].phase \in {"runtime", "persist"}
       => turn'[m].phase \notin {"replying", "sent"}]_vars

\* A message dropped by a newer arrival leaves that newer one in the queue:
\* two arrivals that wait for the same turn never both drop out.
NewestSurvives ==
  (mode = "cancel" /\ entered # <<>>) =>
    LET last == entered[Len(entered)]
    IN  pc[last] # "settle" /\ settled[last] # "superseded"

\* Every call of handle() returns, unless the daemon restarts: it is not left
\* waiting on a worker that is gone or on another turn than one whose runtime
\* could not be created (FactoryThrows).
EveryHandleReturns ==
  \A m \in Msgs : (pc[m] = "gate") ~>
    \/ pc[m] \in {"done", "rejected", "idle"}
    \/ pc[m] = "awaitPrev" /\ turn[waitFor[m]].phase = "leaked"

\* What the comments of the dispatcher claim and the code does not keep.

\* "exactly one terminal record per turnId" (dispatcher.ts, after runtime.run)
OneTerminalRecord == \A m \in Msgs : turn[m].phase # "none" => records[m] <= 1

\* "The currently executing turn on this queue key, if any."
CurrentExecutes == current # NoMsg => Executing(current)

\* "only the newest message reaches runTurn": the message that supersedes a
\* turn arrived after the one whose turn it aborts.
NewestSupersedes ==
  \A m \in Msgs : pc[m] = "awaitPrev" /\ Executing(waitFor[m]) =>
    Position(arrivals, waitFor[m]) < Position(arrivals, m)

\* "prepend them to the next text-bearing turn for this queue": deferred
\* attachments stay in the list, or in the batch of a call that is not over,
\* until they have an outcome.
DeferredNotForgotten ==
  \A m \in Multimodal :
    (pc[m] = "done" /\ settled[m] = "none") =>
      \/ m \in ToSet(deferred)
      \/ \E x \in Msgs : m \in ToSet(batch[x]) /\ pc[x] # "rejected"
=============================================================================
