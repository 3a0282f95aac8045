----------------------------- MODULE TurnStream -----------------------------
(***************************************************************************)
(* What the owner's chat sees while a turn runs: typing pings, "Thinking"  *)
(* markers and streamed blocks (dispatcher.ts, runTurn).  The runtime      *)
(* calls onBlock and onStatus whenever it likes, also after its turn was   *)
(* aborted; the turns of the conversation follow one another.              *)
(***************************************************************************)
EXTENDS Naturals, Sequences

CONSTANTS MaxStreams, MaxEvents,   \* bounds: turns, runtime events per turn
          Budget,                \* maxToolCalls of the cloud run, or MaxEvents
          Debounce,              \* TYPING_DEBOUNCE_MS, in ticks
          RecencyCap             \* TYPING_RECENCY_CAP

ASSUME StreamAssumption ==
  /\ MaxStreams \in Nat \ {0} /\ MaxEvents \in Nat
  /\ Budget \in 0..MaxEvents /\ Debounce \in Nat \ {0}
  /\ RecencyCap \in Nat \ {0}

VARIABLES stream,      \* number of the current turn, 0 before the first
          several,     \* the turn answers more than one response
          phase,     \* "idle", "running", "finally"
          stop,      \* "no", "superseded", "timedOut", "budget"
          typing,    \* typingRefreshTimer is set
          thinking, sawText,    \* thinkingActive, sawAssistantText
          tools, events,        \* observedToolCalls; runtime events so far
          blocksSent, frames,   \* frames of the turn: how many, the last ones
          shown,     \* whether the frames of the turn leave "Thinking..."
          lastPing,  \* age of the last ping
          others,    \* other conversations that pinged since
          pings      \* shortest gap of two pings with the entry still there

streamVars == <<stream, several, phase, stop, typing, thinking, sawText, tools, events,
          blocksSent, frames, shown, lastPing, others, pings>>

Old == Debounce + 1
Kinds == {"assistant_text", "tool_use", "system", "other"}

StreamTypeOK ==
  /\ stream \in 0..MaxStreams /\ phase \in {"idle", "running", "finally"}
  /\ stop \in {"no", "superseded", "timedOut", "budget"}
  /\ typing = (phase # "idle") /\ thinking \in BOOLEAN /\ sawText \in BOOLEAN
  /\ tools \in 0..MaxEvents /\ events \in 0..MaxEvents
  /\ blocksSent \in 0..(2 * MaxEvents + 1) /\ Len(frames) <= 2
  /\ shown \in BOOLEAN /\ lastPing \in 0..Old /\ pings \in 0..Old
  /\ several \in BOOLEAN /\ others \in 0..RecencyCap

StreamInit ==
  /\ stream = 0 /\ phase = "idle" /\ stop = "no" /\ typing = FALSE
  /\ thinking = FALSE /\ sawText = FALSE /\ tools = 0 /\ events = 0
  /\ blocksSent = 0 /\ frames = <<>> /\ shown = FALSE /\ lastPing = Old /\ pings = Old
  /\ several = FALSE /\ others = 0

Aborted == stop # "no"

\* forwardBlockToChannel: frames reach the screen in their wire order.
Forward(fs) ==
  /\ blocksSent' = blocksSent + Len(fs)
  /\ frames' = IF fs = <<>> THEN frames ELSE fs
  /\ shown' = /\ shown \/ \E i \in DOMAIN fs : fs[i] \in {"started", "updated"}
              /\ \A i \in DOMAIN fs : fs[i] \notin {"stopped", "assistant_text"}

\* recentTypingPings still has the entry of this conversation: it is the
\* oldest, and goes, when the cap is reached by younger ones.
Remembered == others < RecencyCap

\* A ping, unless the last one of this conversation is remembered and too
\* young; it moves the entry to the tail.
sendTypingPing ==
  IF Remembered /\ lastPing < Debounce THEN UNCHANGED <<lastPing, others, pings>>
  ELSE /\ lastPing' = 0 /\ others' = 0
       /\ pings' = IF Remembered /\ lastPing < pings THEN lastPing ELSE pings

OpenStream ==
  /\ phase = "idle" /\ stream < MaxStreams
  /\ stream' = stream + 1 /\ phase' = "running" /\ stop' = "no"
  /\ several' \in BOOLEAN
  /\ thinking' = FALSE /\ sawText' = FALSE /\ tools' = 0 /\ events' = 0
  /\ typing' = TRUE /\ sendTypingPing          \* fireTypingIfNeeded
  /\ shown' = FALSE                            \* a new trace
  /\ blocksSent' = 0 /\ frames' = <<>>

Tick ==
  /\ lastPing < Old /\ lastPing' = lastPing + 1
  /\ UNCHANGED <<stream, several, phase, stop, typing, thinking, sawText, tools, events,
                 blocksSent, frames, shown, others, pings>>

\* Another conversation pings that has not pinged since this one did.
OtherPing ==
  /\ Remembered /\ others' = others + 1
  /\ UNCHANGED <<stream, several, phase, stop, typing, thinking, sawText, tools, events,
                 blocksSent, frames, shown, lastPing, pings>>

RefreshTyping ==
  /\ typing /\ sendTypingPing
  /\ UNCHANGED <<stream, several, phase, stop, typing, thinking, sawText, tools, events,
                 blocksSent, frames, shown>>

\* runCancelPrevious or the turn timer.
AbortStream(why) ==
  /\ phase = "running" /\ stop' = why
  /\ ~Aborted \/ (why = "timedOut" /\ stop # why)   \* the timer fires anyway
  /\ UNCHANGED <<stream, several, phase, typing, thinking, sawText, tools, events, blocksSent,
                 frames, shown, lastPing, others, pings>>

\* recordBlock: a tool call over the budget aborts the turn.
OverBudget(kind) == kind = "tool_use" /\ tools + 1 > Budget

\* The text of a turn that answers several responses may be protocol JSON.
Withheld(kind) == several /\ kind \in {"assistant_text", "other"}

\* Mutant of onBlock: an aborted turn goes on forwarding.
onBlockUnguarded(kind) ==
  LET start == ~thinking /\ kind # "assistant_text"
               /\ (~sawText \/ kind = "tool_use")
  IN
  /\ phase = "running" /\ events < MaxEvents /\ events' = events + 1 /\ ~Withheld(kind)
  /\ tools' = IF kind = "tool_use" THEN tools + 1 ELSE tools
  /\ stop' = IF OverBudget(kind) /\ ~Aborted THEN "budget" ELSE stop
  /\ thinking' = IF kind = "assistant_text" THEN FALSE ELSE thinking \/ start
  /\ sawText' = (sawText \/ kind = "assistant_text")
  /\ Forward(IF start THEN <<"started", kind>> ELSE <<kind>>)
  /\ UNCHANGED <<stream, several, phase, typing, lastPing, others, pings>>

\* A block is recorded always and forwarded unless the turn was aborted or
\* its text is withheld; thinking is announced before the first block that is not text.
onBlock(kind) ==
  LET start == ~thinking /\ kind # "assistant_text"
               /\ (~sawText \/ kind = "tool_use")
  IN
  /\ phase = "running" /\ events < MaxEvents /\ events' = events + 1
  /\ tools' = IF kind = "tool_use" THEN tools + 1 ELSE tools
  /\ IF Aborted \/ OverBudget(kind) \/ Withheld(kind)
     THEN /\ stop' = IF ~Aborted /\ OverBudget(kind) THEN "budget" ELSE stop
          /\ UNCHANGED <<thinking, sawText, blocksSent, frames, shown>>
     ELSE /\ thinking' = IF kind = "assistant_text" THEN FALSE
                         ELSE thinking \/ start
          /\ sawText' = (sawText \/ kind = "assistant_text")
          /\ Forward(IF start THEN <<"started", kind>> ELSE <<kind>>)
          /\ UNCHANGED stop
  /\ UNCHANGED <<stream, several, phase, typing, lastPing, others, pings>>

\* Status events of the runtime drive the same lifecycle.
onStatus(ev) ==
  /\ phase = "running" /\ events < MaxEvents /\ events' = events + 1
  /\ ~Aborted
  /\ thinking' = (ev # "stopped")
  /\ Forward(IF ev = "stopped" /\ ~thinking THEN <<>> ELSE <<ev>>)
  /\ UNCHANGED <<stream, several, phase, stop, typing, sawText, tools, lastPing, others, pings>>

\* runtime.run has returned.
StreamEnds ==
  /\ phase = "running" /\ phase' = "finally"
  /\ UNCHANGED <<stream, several, stop, typing, thinking, sawText, tools, events, blocksSent,
                 frames, shown, lastPing, others, pings>>

\* stopTypingRefresh and finalizeThinkingIfActive, skipped when the turn was
\* aborted and did not time out.
Finalize ==
  LET superseded == Aborted /\ stop # "timedOut" IN
  /\ phase = "finally" /\ phase' = "idle" /\ typing' = FALSE
  /\ thinking' = (thinking /\ superseded)
  /\ Forward(IF thinking /\ ~superseded THEN <<"stopped">> ELSE <<>>)
  /\ UNCHANGED <<stream, several, stop, sawText, tools, events, lastPing, others, pings>>

StreamNext ==
  \/ OpenStream \/ Tick \/ OtherPing \/ RefreshTyping \/ StreamEnds \/ Finalize
  \/ \E why \in {"superseded", "timedOut"} : AbortStream(why)
  \/ \E kind \in Kinds : onBlock(kind)
  \/ \E ev \in {"started", "updated", "stopped"} : onStatus(ev)

StreamSpec == StreamInit /\ [][StreamNext]_streamVars

\* A turn that was aborted adds nothing to the stream but the end of its
\* thinking: the frames of a superseded turn cannot leak into the next one.
AbortedIsSilent ==
  [][Aborted /\ blocksSent' > blocksSent => frames' = <<"stopped">>]_streamVars

\* When a turn that ran to its end or timed out is over, its frames do not
\* leave "Thinking..." on the screen, whatever text, tool calls and markers
\* came in which order, and also when the text was withheld.  Nothing is said
\* of a turn that was superseded (its successor takes the screen over) or
\* that the tool budget aborted (it does stick: NeverSticks).
NotLeftThinking ==
  (phase = "idle" /\ stop \in {"no", "timedOut"}) => ~shown

\* Two pings of a conversation are never closer than the debounce window,
\* however turns follow and supersede one another, unless RecencyCap other
\* conversations pinged in between.
PingsSpaced == pings >= Debounce

\* The chat shows what is going on: nothing of an aborted turn but its last
\* marker, no "Thinking..." after the end of a turn that was neither
\* superseded nor stopped by its budget, pings at their distance (onBlock,
\* onStatus, finalizeThinkingIfActive, sendTypingPing).
ChatIsHonest == [](StreamTypeOK /\ NotLeftThinking /\ PingsSpaced) /\ AbortedIsSilent

\* "Emit a final thinking.stopped on terminal paths so the frontend never
\* sticks at "Thinking..."": on every path but cancel-previous.
NeverSticks == (phase = "idle" /\ stop # "superseded") => ~shown
=============================================================================
