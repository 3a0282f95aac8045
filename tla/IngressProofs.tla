--------------------------- MODULE IngressProofs ---------------------------
(***************************************************************************)
(* Proofs about gateway-ingress, for any events, gateways and sockets and  *)
(* any number of faults: the durable rows tell the truth.                  *)
(***************************************************************************)
EXTENDS Ingress, TLAPS

-----------------------------------------------------------------------------
(* The inductive invariant *)

\* A session's socket is one that may still report.
SessionsReport == \A g \in Gateways : session[g] # Absent => sock[session[g]] # "closed"

\* A provider that has a reply was counted.
SentIsReplied == \A e \in Events : sending[e] \in {"sent", "touching"} => replies[e] > 0

\* The rows listed for a pass are forgotten only when it is over.
RowsListed == ~retrying => todo = {}

GInv == RowsTellTheTruth /\ SessionsReport /\ SentIsReplied /\ RowsListed

\* Init establishes the invariant.
LEMMA GInit == IngressInit => GInv
<1> SUFFICES ASSUME IngressInit PROVE GInv
  OBVIOUS
<1> USE IngressAssumption DEF IngressInit
<1>1. IngressTypeOK
  <2>1. /\ status \in [Events -> {"none"} \cup Pending \cup Terminal]
        /\ disp \in [Events -> {"idle"} \cup Dispatching]
        /\ waitsFor \in [Events -> RuntimeSockets \cup {Absent}]
        /\ session \in [Gateways -> RuntimeSockets \cup {Absent}]
        /\ sock \in [RuntimeSockets -> {"closed", "connecting", "open"}]
        /\ sockOf \in [RuntimeSockets -> Gateways \cup {Absent}]
    OBVIOUS
  <2>2. /\ sending \in [Events -> {"no", "sending", "sent", "touching"}]
        /\ replies \in [Events -> 0..2] /\ skipped \in SUBSET Events /\ faults \in 0..MaxFaults
    OBVIOUS
  <2>3. /\ \A e \in Events : disp[e] \notin {"ready", "push"}
        /\ \A g \in Gateways : session[g] \notin RuntimeSockets
    OBVIOUS
  <2> QED BY <2>1, <2>2, <2>3 DEF IngressTypeOK
<1>2. DeliveringIsWatched /\ DeliveredWasReplied
  BY DEF DeliveringIsWatched, Watched, DeliveredWasReplied
<1>3. SessionsReport /\ SentIsReplied /\ RowsListed
  BY DEF SessionsReport, SentIsReplied, RowsListed
<1> QED BY <1>1, <1>2, <1>3 DEF GInv, RowsTellTheTruth

-----------------------------------------------------------------------------
(* Steps that leave the sockets alone *)

\* Rows, dispatches, turns and replies change, the sockets and who waits for
\* them stay; nobody begins to wait.
Quiet ==
  /\ UNCHANGED <<waitsFor, session, sock, sockOf>>
  /\ status' \in [Events -> {"none"} \cup Pending \cup Terminal]
  /\ disp' \in [Events -> {"idle"} \cup Dispatching]
  /\ \A e \in Events : disp'[e] \in {disp[e], "idle", "hub"}
  /\ retrying' \in BOOLEAN /\ todo' \in SUBSET Events /\ current' \in Events \cup {Absent}
  /\ turns' \in SUBSET (RuntimeSockets \X Events)
  /\ sending' \in [Events -> {"no", "sending", "sent", "touching"}]
  /\ replies' \in [Events -> 0..2] /\ skipped' \in SUBSET Events /\ faults' \in 0..MaxFaults

\* They keep the types and the sessions.
LEMMA QuietKeeps ==
  ASSUME GInv, Quiet
  PROVE  IngressTypeOK' /\ SessionsReport'
<1>1. IngressTypeOK /\ SessionsReport
  BY DEF GInv, RowsTellTheTruth
<1>2. SessionsReport'
  BY <1>1 DEF Quiet, SessionsReport
<1>3. \A e \in Events : disp'[e] \in {"ready", "push"} =>
        waitsFor'[e] \in RuntimeSockets /\ sock'[waitsFor'[e]] = "connecting"
  BY <1>1 DEF Quiet, IngressTypeOK
<1>4. \A g \in Gateways : session'[g] \in RuntimeSockets => sockOf'[session'[g]] = g
  BY <1>1 DEF Quiet, IngressTypeOK
<1> QED BY <1>1, <1>2, <1>3, <1>4 DEF Quiet, IngressTypeOK

\* ingest, and the end of a dispatch at the hub.
LEMMA HubSteps ==
  ASSUME GInv, NEW e \in Events, Ingest(e) \/ HubNotReady(e) \/ HubRefuses(e)
  PROVE  GInv'
<1>1. IngressTypeOK /\ DeliveringIsWatched /\ DeliveredWasReplied
  BY DEF GInv, RowsTellTheTruth
<1>2. PICK st \in {"queued", "failed"}, d \in {"hub", "idle"} :
        /\ status' = [status EXCEPT ![e] = st] /\ disp' = [disp EXCEPT ![e] = d]
        /\ faults' \in 0..MaxFaults
        /\ UNCHANGED <<waitsFor, retrying, todo, current, session, sock, sockOf, turns,
                       sending, replies, skipped>>
  <2>1. faults \in 0..MaxFaults /\ MaxFaults \in Nat
    BY <1>1, IngressAssumption DEF IngressTypeOK
  <2> QED BY <2>1 DEF Ingest, Begin, HubNotReady, HubRefuses, EndDispatch, Fault
<1>3. Quiet
  BY <1>1, <1>2 DEF Quiet, IngressTypeOK, Pending, Terminal, Dispatching
<1>4. IngressTypeOK' /\ SessionsReport'
  BY <1>3, QuietKeeps
<1>5. DeliveringIsWatched' /\ DeliveredWasReplied'
  BY <1>1, <1>2 DEF IngressTypeOK, DeliveringIsWatched, Watched, DeliveredWasReplied
<1>6. SentIsReplied' /\ RowsListed'
  BY <1>2 DEF GInv, SentIsReplied, RowsListed
<1> QED BY <1>4, <1>5, <1>6 DEF GInv, RowsTellTheTruth

\* The hub answers a frame: the event fails, or its reply goes out.
LEMMA AnswerSteps ==
  ASSUME GInv, NEW t \in RuntimeSockets \X Events, TurnFails(t) \/ TurnCompletes(t)
  PROVE  GInv'
<1>1. IngressTypeOK /\ DeliveringIsWatched /\ DeliveredWasReplied
  BY DEF GInv, RowsTellTheTruth
<1> DEFINE e == t[2]
<1>2. e \in Events /\ t = <<t[1], e>> /\ t[1] \in RuntimeSockets
  OBVIOUS
<1>3. /\ turns' = turns \ {t} /\ faults' \in 0..MaxFaults
      /\ UNCHANGED <<disp, waitsFor, retrying, todo, current, session, sock, sockOf, replies>>
      /\ \/ /\ status' = [status EXCEPT ![e] = "failed"] /\ sending' = sending
            /\ skipped' = skipped
         \/ /\ status' = status
            /\ skipped' = IF status[e] \notin Terminal /\ sending[e] = "touching"
                          THEN skipped \cup {e} ELSE skipped
            /\ sending' = [sending EXCEPT ![e] =
                             IF status[e] \in Terminal \/ @ # "no" THEN @ ELSE "sending"]
  <2>1. faults \in 0..MaxFaults /\ MaxFaults \in Nat
    BY <1>1, IngressAssumption DEF IngressTypeOK
  <2> QED BY <2>1 DEF TurnFails, TurnCompletes, Answer, Fault
<1>4. Quiet
  BY <1>1, <1>2, <1>3 DEF Quiet, IngressTypeOK, Pending, Terminal
<1>5. IngressTypeOK' /\ SessionsReport'
  BY <1>4, QuietKeeps
<1> HIDE DEF e
<1>6. /\ \A x \in Events : sending[x] \in {"sending", "sent"} => sending'[x] = sending[x]
      /\ skipped \subseteq skipped'
  BY <1>1, <1>2, <1>3 DEF IngressTypeOK
<1>7. \A x \in Events \ {e} : status'[x] = status[x]
  BY <1>1, <1>3 DEF IngressTypeOK
<1>8. \A x \in Events \ {e}, s \in RuntimeSockets : <<s, x>> \in turns => <<s, x>> \in turns'
  BY <1>2, <1>3
<1>9. status'[e] = "delivering" =>
        sending'[e] \in {"sending", "sent"} \/ (e \in skipped' /\ replies'[e] > 0)
  BY <1>1, <1>2, <1>3 DEF GInv, SentIsReplied, IngressTypeOK, Terminal
<1>10. DeliveringIsWatched'
  BY <1>1, <1>3, <1>6, <1>7, <1>8, <1>9 DEF DeliveringIsWatched, Watched
<1>11. DeliveredWasReplied'
  BY <1>1, <1>2, <1>3 DEF IngressTypeOK, DeliveredWasReplied
<1>12. SentIsReplied'
  BY <1>1, <1>2, <1>3 DEF GInv, SentIsReplied, IngressTypeOK
<1>13. RowsListed'
  BY <1>3 DEF GInv, RowsListed
<1> QED BY <1>5, <1>10, <1>11, <1>12, <1>13 DEF GInv, RowsTellTheTruth

\* A reply reaches the provider; its promise settles.
LEMMA SendSteps ==
  ASSUME GInv, NEW e \in Events,
         ProviderSends(e) \/ SendResolves(e) \/ SendRejects(e) \/ TouchEnds(e)
  PROVE  GInv'
<1>1. IngressTypeOK /\ DeliveringIsWatched /\ DeliveredWasReplied /\ SentIsReplied
  BY DEF GInv, RowsTellTheTruth
<1>2. faults \in 0..MaxFaults /\ MaxFaults \in Nat
  BY <1>1, IngressAssumption DEF IngressTypeOK
<1>3. /\ UNCHANGED <<disp, waitsFor, retrying, todo, current, session, sock, sockOf, turns,
                     skipped>>
      /\ faults' \in 0..MaxFaults
      /\ \/ /\ sending' = [sending EXCEPT ![e] = "sent"] /\ status' = status
            /\ replies' = [replies EXCEPT ![e] = IF @ < 2 THEN @ + 1 ELSE @]
         \/ /\ sending[e] = "sent" /\ status' = [status EXCEPT ![e] = "delivered"]
            /\ sending' = [sending EXCEPT ![e] = "touching"] /\ replies' = replies
         \/ /\ sending[e] = "touching" /\ status' = [status EXCEPT ![e] = status[e]]
            /\ sending' = [sending EXCEPT ![e] = "no"] /\ replies' = replies
         \/ /\ status' = [status EXCEPT ![e] = "failed"]
            /\ sending' = [sending EXCEPT ![e] = "no"] /\ replies' = replies
  BY <1>2 DEF ProviderSends, SendResolves, SendRejects, TouchEnds, SendSettles, Fault
<1>4. /\ replies' \in [Events -> 0..2] /\ \A x \in Events : replies'[x] >= replies[x]
      /\ sending'[e] \in {"sent", "touching"} => replies'[e] > 0
  BY <1>1, <1>3 DEF IngressTypeOK, SentIsReplied
<1>5. Quiet
  BY <1>1, <1>3, <1>4 DEF Quiet, IngressTypeOK, Pending, Terminal
<1>6. IngressTypeOK' /\ SessionsReport'
  BY <1>5, QuietKeeps
<1>7. /\ \A x \in Events \ {e} : status'[x] = status[x] /\ sending'[x] = sending[x]
      /\ status'[e] = "delivering" =>
            /\ status[e] = "delivering"
            /\ sending[e] \in {"sending", "sent"} => sending'[e] \in {"sending", "sent"}
      /\ status'[e] = "delivered" => status[e] = "delivered" \/ sending[e] = "sent"
  BY <1>1, <1>3 DEF IngressTypeOK
<1>8. DeliveringIsWatched'
  BY <1>1, <1>3, <1>4, <1>7 DEF IngressTypeOK, DeliveringIsWatched, Watched
<1>9. DeliveredWasReplied' /\ SentIsReplied'
  <2>1. \A x \in Events : replies[x] \in 0..2 /\ replies'[x] \in 0..2
    BY <1>1, <1>4 DEF IngressTypeOK
  <2> QED BY <1>1, <1>4, <1>7, <2>1 DEF DeliveredWasReplied, SentIsReplied
<1>10. RowsListed'
  BY <1>3 DEF GInv, RowsListed
<1> QED BY <1>6, <1>8, <1>9, <1>10 DEF GInv, RowsTellTheTruth

\* The retry worker skips only rows that are being dispatched or are terminal.
LEMMA RetrySteps ==
  ASSUME GInv, RetryTick \/ RetryOn
  PROVE  GInv'
<1>1. IngressTypeOK /\ DeliveringIsWatched /\ DeliveredWasReplied
  BY DEF GInv, RowsTellTheTruth
<1>2. PICK T \in SUBSET Events : todo \subseteq T /\ Advance(T)
  BY <1>1 DEF RetryTick, RetryOn, GInv, RowsListed, IngressTypeOK
<1> DEFINE due == {e \in T : disp[e] = "idle" /\ status[e] \notin Terminal}
<1>3. UNCHANGED <<status, waitsFor, session, sock, sockOf, turns, sending, replies, skipped, faults>>
  BY <1>2 DEF Advance
<1>4. CASE \E e \in due, passed \in SUBSET (T \ due) :
             /\ Begin(e) /\ current' = e /\ todo' = T \ (passed \cup {e}) /\ retrying' = TRUE
  <2>1. PICK e \in due, passed \in SUBSET (T \ due) :
             /\ Begin(e) /\ current' = e /\ todo' = T \ (passed \cup {e}) /\ retrying' = TRUE
    BY <1>4
  <2>2. e \in Events /\ disp' = [disp EXCEPT ![e] = "hub"]
    BY <2>1 DEF Begin
  <2>3. Quiet
    BY <1>1, <1>3, <2>1, <2>2 DEF Quiet, IngressTypeOK, Dispatching
  <2>4. \A x \in passed : disp[x] # "idle" \/ status[x] \in Terminal
    BY <2>1
  <2>5. /\ disp'[e] = "hub" /\ \A x \in Events \ {e} : disp'[x] = disp[x]
    BY <1>1, <2>2 DEF IngressTypeOK
  <2>6. DeliveringIsWatched'
    <3> SUFFICES ASSUME NEW x \in Events, status[x] = "delivering"
                 PROVE Watched(x)' \/ (x \in skipped' /\ replies'[x] > 0)
      BY <1>3 DEF DeliveringIsWatched, Watched
    <3>1. x \in todo => x \in todo' \/ x = e \/ x \in passed
      BY <1>2, <2>1
    <3>2. x \in passed => disp[x] # "idle"
      BY <2>4 DEF Terminal
    <3> QED BY <1>1, <1>3, <2>5, <3>1, <3>2 DEF DeliveringIsWatched, Watched
  <2>7. RowsListed' /\ SentIsReplied' /\ DeliveredWasReplied'
    BY <1>1, <1>3, <2>1 DEF GInv, RowsListed, SentIsReplied, DeliveredWasReplied
  <2> QED BY <2>3, <2>6, <2>7, QuietKeeps DEF GInv, RowsTellTheTruth
<1>5. CASE due = {} /\ current' = Absent /\ todo' = {} /\ retrying' = FALSE /\ disp' = disp
  <2>1. Quiet
    BY <1>1, <1>3, <1>5 DEF Quiet, IngressTypeOK
  <2>2. DeliveringIsWatched'
    <3> SUFFICES ASSUME NEW x \in Events, status[x] = "delivering"
                 PROVE Watched(x)' \/ (x \in skipped' /\ replies'[x] > 0)
      BY <1>3, <1>5 DEF DeliveringIsWatched, Watched
    <3>1. x \in todo => disp[x] # "idle"
      BY <1>2, <1>5 DEF Terminal
    <3> QED BY <1>1, <1>3, <1>5, <3>1 DEF DeliveringIsWatched, Watched
  <2>3. RowsListed' /\ SentIsReplied' /\ DeliveredWasReplied'
    BY <1>1, <1>3, <1>5 DEF GInv, RowsListed, SentIsReplied, DeliveredWasReplied
  <2> QED BY <2>1, <2>2, <2>3, QuietKeeps DEF GInv, RowsTellTheTruth
<1> QED BY <1>2, <1>4, <1>5 DEF Advance

-----------------------------------------------------------------------------
(* Steps of the sockets *)

\* The types of what Push assigns, and who is watched after it.
LEMMA PushFacts ==
  ASSUME GInv, NEW W \in SUBSET Events, NEW ses \in [Gateways -> RuntimeSockets \cup {Absent}],
         NEW sk \in [RuntimeSockets -> {"closed", "connecting", "open"}], Push(W, ses, sk)
  PROVE  /\ status' \in [Events -> {"none"} \cup Pending \cup Terminal]
         /\ disp' \in [Events -> {"idle"} \cup Dispatching]
         /\ waitsFor' \in [Events -> RuntimeSockets \cup {Absent}]
         /\ turns' \in SUBSET (RuntimeSockets \X Events) /\ turns \subseteq turns'
         /\ \A e \in Events \ W : status'[e] = status[e] /\ disp'[e] = disp[e] /\ waitsFor'[e] = waitsFor[e]
         /\ \A e \in W : status'[e] # "delivered" /\ disp'[e] \in {"push", "idle"}
         /\ \A e \in W : disp'[e] = "push" => /\ waitsFor'[e] \in RuntimeSockets
                                              /\ sk[waitsFor'[e]] = "connecting"
         /\ \A e \in W : status'[e] = "delivering" =>
              disp'[e] # "idle" \/ \E s \in RuntimeSockets : <<s, e>> \in turns'
<1> DEFINE s(e) == ses[GatewayOf[e]]
           open == {e \in W : s(e) # Absent /\ sk[s(e)] = "open"}
           wait == {e \in W : s(e) # Absent /\ sk[s(e)] = "connecting"}
<1>1. /\ status' = [e \in Events |-> IF e \in open \cup wait THEN "delivering"
                                     ELSE IF e \in W THEN "queued" ELSE status[e]]
      /\ disp' = [e \in Events |-> IF e \in wait THEN "push" ELSE IF e \in W THEN "idle" ELSE disp[e]]
      /\ waitsFor' = [e \in Events |->
                        IF e \in wait THEN s(e) ELSE IF e \in W THEN Absent ELSE waitsFor[e]]
      /\ turns' = turns \cup {<<s(e), e>> : e \in open}
  BY DEF Push
<1>2. \A e \in Events : s(e) \in RuntimeSockets \cup {Absent}
  BY IngressAssumption
<1>3. /\ \A e \in open \cup wait : s(e) \in RuntimeSockets
      /\ \A e \in wait : sk[s(e)] = "connecting"
  BY <1>2
<1>4. open \subseteq W /\ wait \subseteq W
  OBVIOUS
<1>5. IngressTypeOK
  BY DEF GInv, RowsTellTheTruth
<1> HIDE DEF s, open, wait
<1>6. status' \in [Events -> {"none"} \cup Pending \cup Terminal]
  BY <1>1, <1>5 DEF IngressTypeOK, Pending
<1>7. disp' \in [Events -> {"idle"} \cup Dispatching]
  BY <1>1, <1>5 DEF IngressTypeOK, Dispatching
<1>8. waitsFor' \in [Events -> RuntimeSockets \cup {Absent}]
  BY <1>1, <1>2, <1>5 DEF IngressTypeOK
<1>9. turns' \in SUBSET (RuntimeSockets \X Events) /\ turns \subseteq turns'
  <2>1. \A e \in open : <<s(e), e>> \in RuntimeSockets \X Events
    BY <1>3, <1>4
  <2> QED BY <1>1, <1>5, <2>1 DEF IngressTypeOK
<1>10. /\ \A e \in Events \ W : status'[e] = status[e] /\ disp'[e] = disp[e] /\ waitsFor'[e] = waitsFor[e]
       /\ \A e \in W : status'[e] # "delivered" /\ disp'[e] \in {"push", "idle"}
  BY <1>1, <1>4
<1>11. \A e \in W : disp'[e] = "push" => e \in wait
  BY <1>1
<1>12. \A e \in wait : waitsFor'[e] \in RuntimeSockets /\ sk[waitsFor'[e]] = "connecting"
  BY <1>1, <1>3, <1>4
<1>13. \A e \in W : status'[e] = "delivering" => e \in open \cup wait
  BY <1>1
<1>14. \A e \in wait : disp'[e] # "idle"
  BY <1>1, <1>4
<1>15. \A e \in open : \E x \in RuntimeSockets : <<x, e>> \in turns'
  BY <1>1, <1>3
<1> QED BY <1>6, <1>7, <1>8, <1>9, <1>10, <1>11, <1>12, <1>13, <1>14, <1>15

\* The handshake succeeds, and who awaited it goes on.
LEMMA OpensStep ==
  ASSUME GInv, NEW z \in RuntimeSockets, SocketOpens(z)
  PROVE  GInv'
<1>1. IngressTypeOK /\ DeliveringIsWatched /\ DeliveredWasReplied /\ SessionsReport
  BY DEF GInv, RowsTellTheTruth
<1>2. /\ sock[z] = "connecting" /\ sock' = [sock EXCEPT ![z] = "open"]
      /\ Push(Awaiting(z), session, sock')
      /\ UNCHANGED <<retrying, todo, current, session, sockOf, sending, replies, skipped, faults>>
  BY DEF SocketOpens
<1>3. /\ sock' \in [RuntimeSockets -> {"closed", "connecting", "open"}]
      /\ sock'[z] = "open" /\ \A s \in RuntimeSockets \ {z} : sock'[s] = sock[s]
  BY <1>1, <1>2 DEF IngressTypeOK
<1> DEFINE W == Awaiting(z)
<1>4. W \in SUBSET Events /\ \A e \in Events \ W : disp[e] \in {"ready", "push"} => waitsFor[e] # z
  BY DEF Awaiting
<1> HIDE DEF W
<1>5. PICK sk \in [RuntimeSockets -> {"closed", "connecting", "open"}] : sk = sock'
  BY <1>3
<1>6. session \in [Gateways -> RuntimeSockets \cup {Absent}] /\ Push(W, session, sk)
  BY <1>1, <1>2, <1>5 DEF IngressTypeOK, W
<1>7. /\ status' \in [Events -> {"none"} \cup Pending \cup Terminal]
      /\ disp' \in [Events -> {"idle"} \cup Dispatching]
      /\ waitsFor' \in [Events -> RuntimeSockets \cup {Absent}]
      /\ turns' \in SUBSET (RuntimeSockets \X Events) /\ turns \subseteq turns'
      /\ \A e \in Events \ W : status'[e] = status[e] /\ disp'[e] = disp[e] /\ waitsFor'[e] = waitsFor[e]
      /\ \A e \in W : status'[e] # "delivered" /\ disp'[e] \in {"push", "idle"}
      /\ \A e \in W : disp'[e] = "push" => /\ waitsFor'[e] \in RuntimeSockets
                                           /\ sk[waitsFor'[e]] = "connecting"
      /\ \A e \in W : status'[e] = "delivering" =>
           disp'[e] # "idle" \/ \E s \in RuntimeSockets : <<s, e>> \in turns'
  BY <1>4, <1>6, PushFacts
<1>8. \A e \in Events : disp'[e] \in {"ready", "push"} =>
        waitsFor'[e] \in RuntimeSockets /\ sock'[waitsFor'[e]] = "connecting"
  <2> SUFFICES ASSUME NEW e \in Events, disp'[e] \in {"ready", "push"}
               PROVE  waitsFor'[e] \in RuntimeSockets /\ sock'[waitsFor'[e]] = "connecting"
    OBVIOUS
  <2>1. CASE e \in W
    BY <1>5, <1>7, <2>1
  <2>2. CASE e \notin W
    <3>1. waitsFor'[e] = waitsFor[e] /\ disp[e] \in {"ready", "push"}
      BY <1>7, <2>2
    <3>2. waitsFor[e] \in RuntimeSockets /\ sock[waitsFor[e]] = "connecting" /\ waitsFor[e] # z
      BY <1>1, <1>4, <2>2, <3>1 DEF IngressTypeOK
    <3> QED BY <1>3, <3>1, <3>2
  <2> QED BY <2>1, <2>2
<1>9. IngressTypeOK'
  BY <1>1, <1>2, <1>3, <1>7, <1>8 DEF IngressTypeOK
<1>10. DeliveringIsWatched' /\ DeliveredWasReplied'
  BY <1>1, <1>2, <1>7 DEF DeliveringIsWatched, Watched, DeliveredWasReplied
<1>11. SessionsReport'
  BY <1>1, <1>2, <1>3 DEF SessionsReport, IngressTypeOK
<1>12. SentIsReplied' /\ RowsListed'
  BY <1>2 DEF GInv, SentIsReplied, RowsListed
<1> QED BY <1>9, <1>10, <1>11, <1>12 DEF GInv, RowsTellTheTruth

\* A socket is lost: nobody waits for it and no row stays "delivering".
LEMMA LostStep ==
  ASSUME GInv, NEW z \in RuntimeSockets, SocketLost(z)
  PROVE  GInv'
<1>1. IngressTypeOK /\ DeliveringIsWatched /\ DeliveredWasReplied /\ SessionsReport
  BY DEF GInv, RowsTellTheTruth
<1> DEFINE W == Awaiting(z)
<1>2. /\ sock' = [sock EXCEPT ![z] = "closed"] /\ sockOf' = [sockOf EXCEPT ![z] = Absent]
      /\ session' = [session EXCEPT ![sockOf[z]] = Absent]
      /\ turns' = {t \in turns : t[1] # z}
      /\ status' = [e \in Events |-> IF e \in W \/ status[e] = "delivering" THEN "queued" ELSE status[e]]
      /\ disp' = [e \in Events |-> IF e \in W THEN "idle" ELSE disp[e]]
      /\ waitsFor' = [e \in Events |-> IF e \in W THEN Absent ELSE waitsFor[e]]
      /\ UNCHANGED <<retrying, todo, current, sending, replies, skipped>>
      /\ faults' \in 0..MaxFaults
  <2>1. faults \in 0..MaxFaults /\ MaxFaults \in Nat
    BY <1>1, IngressAssumption DEF IngressTypeOK
  <2> QED BY <2>1 DEF SocketLost, SocketClosed, Fault
<1>3. W \in SUBSET Events /\ \A e \in Events \ W : disp[e] \in {"ready", "push"} => waitsFor[e] # z
  BY DEF Awaiting
<1> HIDE DEF W
<1>4. /\ sock' \in [RuntimeSockets -> {"closed", "connecting", "open"}]
      /\ \A s \in RuntimeSockets \ {z} : sock'[s] = sock[s] /\ sockOf'[s] = sockOf[s]
      /\ sockOf' \in [RuntimeSockets -> Gateways \cup {Absent}]
  BY <1>1, <1>2 DEF IngressTypeOK
<1>5. /\ session' \in [Gateways -> RuntimeSockets \cup {Absent}]
      /\ \A g \in Gateways : session'[g] # Absent => session'[g] = session[g] /\ session[g] # z
  BY <1>1, <1>2, IngressAssumption DEF IngressTypeOK
<1>6. /\ status' \in [Events -> {"none"} \cup Pending \cup Terminal]
      /\ \A e \in Events : status'[e] # "delivering"
      /\ \A e \in Events : status'[e] = "delivered" => status[e] = "delivered"
  BY <1>1, <1>2 DEF IngressTypeOK, Pending
<1>7. /\ disp' \in [Events -> {"idle"} \cup Dispatching]
      /\ waitsFor' \in [Events -> RuntimeSockets \cup {Absent}]
      /\ turns' \in SUBSET (RuntimeSockets \X Events)
  BY <1>1, <1>2 DEF IngressTypeOK
<1>8. \A e \in Events : disp'[e] \in {"ready", "push"} =>
        waitsFor'[e] \in RuntimeSockets /\ sock'[waitsFor'[e]] = "connecting"
  BY <1>1, <1>2, <1>3, <1>4 DEF IngressTypeOK
<1>9. \A g \in Gateways : session'[g] \in RuntimeSockets => sockOf'[session'[g]] = g
  BY <1>1, <1>4, <1>5, IngressAssumption DEF IngressTypeOK
<1>10. IngressTypeOK'
  BY <1>1, <1>2, <1>4, <1>5, <1>6, <1>7, <1>8, <1>9 DEF IngressTypeOK
<1>11. DeliveringIsWatched' /\ DeliveredWasReplied'
  BY <1>1, <1>2, <1>6 DEF DeliveringIsWatched, Watched, DeliveredWasReplied
<1>12. SessionsReport'
  BY <1>1, <1>4, <1>5 DEF SessionsReport, IngressTypeOK
<1>13. SentIsReplied' /\ RowsListed'
  BY <1>2 DEF GInv, SentIsReplied, RowsListed
<1> QED BY <1>10, <1>11, <1>12, <1>13 DEF GInv, RowsTellTheTruth

\* The hub is ready: the frame is sent, or a new socket replaces a stale one
\* and whoever awaited that one is queued again.
LEMMA ReadyStep ==
  ASSUME GInv, NEW e \in Events, HubReady(e)
  PROVE  GInv'
<1>1. IngressTypeOK /\ DeliveringIsWatched /\ DeliveredWasReplied /\ SessionsReport
  BY DEF GInv, RowsTellTheTruth
<1> DEFINE g == GatewayOf[e]
           old == session[g]
           lost == IF old = Absent THEN {} ELSE Awaiting(old)
<1>2. g \in Gateways /\ old \in RuntimeSockets \cup {Absent} /\ disp[e] = "hub"
  BY <1>1, IngressAssumption DEF IngressTypeOK, HubReady
<1>3. UNCHANGED <<retrying, todo, current, sending, replies, skipped, faults>>
  BY DEF HubReady
<1>4. SentIsReplied' /\ RowsListed'
  BY <1>3 DEF GInv, SentIsReplied, RowsListed
<1>5. CASE old # Absent /\ sock[old] = "open"
  <2>1. Push({e}, session, sock) /\ UNCHANGED <<session, sock, sockOf>>
    BY <1>5 DEF HubReady
  <2> DEFINE W == {e}
  <2>2. W \in SUBSET Events /\ Push(W, session, sock)
        /\ session \in [Gateways -> RuntimeSockets \cup {Absent}]
        /\ sock \in [RuntimeSockets -> {"closed", "connecting", "open"}]
    BY <1>1, <2>1 DEF IngressTypeOK
  <2> HIDE DEF W
  <2>3. /\ status' \in [Events -> {"none"} \cup Pending \cup Terminal]
        /\ disp' \in [Events -> {"idle"} \cup Dispatching]
        /\ waitsFor' \in [Events -> RuntimeSockets \cup {Absent}]
        /\ turns' \in SUBSET (RuntimeSockets \X Events) /\ turns \subseteq turns'
        /\ \A x \in Events \ W : status'[x] = status[x] /\ disp'[x] = disp[x] /\ waitsFor'[x] = waitsFor[x]
        /\ \A x \in W : status'[x] # "delivered" /\ disp'[x] \in {"push", "idle"}
        /\ \A x \in W : disp'[x] = "push" => /\ waitsFor'[x] \in RuntimeSockets
                                             /\ sock[waitsFor'[x]] = "connecting"
        /\ \A x \in W : status'[x] = "delivering" =>
             disp'[x] # "idle" \/ \E s \in RuntimeSockets : <<s, x>> \in turns'
    BY <2>2, PushFacts
  <2>4. \A x \in Events : disp'[x] \in {"ready", "push"} =>
          waitsFor'[x] \in RuntimeSockets /\ sock'[waitsFor'[x]] = "connecting"
    BY <1>1, <2>1, <2>3 DEF IngressTypeOK
  <2>5. IngressTypeOK'
    BY <1>1, <1>3, <2>1, <2>3, <2>4 DEF IngressTypeOK
  <2>6. DeliveringIsWatched' /\ DeliveredWasReplied'
    BY <1>1, <1>3, <2>3 DEF DeliveringIsWatched, Watched, DeliveredWasReplied
  <2>7. SessionsReport'
    BY <1>1, <2>1 DEF SessionsReport
  <2> QED BY <1>4, <2>5, <2>6, <2>7 DEF GInv, RowsTellTheTruth
<1>6. CASE ~(old # Absent /\ sock[old] = "open")
  <2>1. PICK s \in RuntimeSockets :
          /\ sock[s] = "closed"
          /\ sock' = [x \in RuntimeSockets |->
                        IF x = s THEN "connecting" ELSE IF x = old THEN "closed" ELSE sock[x]]
          /\ sockOf' = [x \in RuntimeSockets |->
                          IF x = s THEN g ELSE IF x = old THEN Absent ELSE sockOf[x]]
          /\ session' = [session EXCEPT ![g] = IF old = Absent THEN s ELSE Absent]
          /\ disp' = [x \in Events |-> IF x = e THEN "ready" ELSE IF x \in lost THEN "idle" ELSE disp[x]]
          /\ waitsFor' = [x \in Events |-> IF x = e THEN s ELSE IF x \in lost THEN Absent ELSE waitsFor[x]]
          /\ status' = [x \in Events |->
                          IF x \in lost \/ (old # Absent /\ status[x] = "delivering")
                          THEN "queued" ELSE status[x]]
          /\ UNCHANGED turns
    BY <1>6 DEF HubReady
  <2>2. \A x \in Events \ lost : disp[x] \in {"ready", "push"} => waitsFor[x] # old
    BY <1>1, IngressAssumption DEF Awaiting, IngressTypeOK
  <2> HIDE DEF g, old, lost
  <2>3. /\ sock' \in [RuntimeSockets -> {"closed", "connecting", "open"}]
        /\ sockOf' \in [RuntimeSockets -> Gateways \cup {Absent}]
        /\ session' \in [Gateways -> RuntimeSockets \cup {Absent}]
        /\ disp' \in [Events -> {"idle"} \cup Dispatching]
        /\ waitsFor' \in [Events -> RuntimeSockets \cup {Absent}]
    BY <1>1, <1>2, <2>1 DEF IngressTypeOK, Dispatching
  <2>4. /\ status' \in [Events -> {"none"} \cup Pending \cup Terminal]
        /\ \A x \in Events : status'[x] \in {status[x], "queued"}
    BY <1>1, <2>1 DEF IngressTypeOK, Pending
  <2>5. \A x \in Events : disp'[x] \in {"ready", "push"} =>
          waitsFor'[x] \in RuntimeSockets /\ sock'[waitsFor'[x]] = "connecting"
    <3> SUFFICES ASSUME NEW x \in Events, disp'[x] \in {"ready", "push"}
                 PROVE  waitsFor'[x] \in RuntimeSockets /\ sock'[waitsFor'[x]] = "connecting"
      OBVIOUS
    <3>1. CASE x = e
      BY <2>1, <3>1
    <3>2. CASE x # e
      <4>1. x \notin lost /\ waitsFor'[x] = waitsFor[x] /\ disp[x] \in {"ready", "push"}
        BY <2>1, <3>2
      <4>2. waitsFor[x] \in RuntimeSockets /\ sock[waitsFor[x]] = "connecting" /\ waitsFor[x] # old
        BY <1>1, <2>2, <4>1 DEF IngressTypeOK
      <4> QED BY <2>1, <4>1, <4>2
    <3> QED BY <3>1, <3>2
  <2>6. \A h \in Gateways \ {g} : session'[h] = session[h] /\
          (session[h] # Absent => session[h] \in RuntimeSockets /\ session[h] # s /\ session[h] # old)
    <3> SUFFICES ASSUME NEW h \in Gateways \ {g}
                 PROVE  session'[h] = session[h] /\
                        (session[h] # Absent => session[h] \in RuntimeSockets /\ session[h] # s /\ session[h] # old)
      OBVIOUS
    <3>1. session'[h] = session[h]
      BY <1>1, <2>1 DEF IngressTypeOK
    <3>2. session[h] # Absent => session[h] \in RuntimeSockets /\ sockOf[session[h]] = h
                                 /\ sock[session[h]] # "closed"
      BY <1>1 DEF IngressTypeOK, SessionsReport
    <3>3. old \in RuntimeSockets => sockOf[old] = g
      BY <1>1, <1>2 DEF IngressTypeOK, old
    <3> QED BY <2>1, <3>1, <3>2, <3>3
  <2>7. session'[g] # Absent => session'[g] = s /\ sockOf'[s] = g /\ sock'[s] = "connecting"
    BY <1>1, <1>2, <2>1 DEF IngressTypeOK
  <2>8. \A h \in Gateways : session'[h] # Absent =>
          session'[h] \in RuntimeSockets /\ sockOf'[session'[h]] = h /\ sock'[session'[h]] # "closed"
    <3>1. \A h \in Gateways \ {g} : session[h] # Absent =>
            /\ sockOf'[session[h]] = sockOf[session[h]] /\ sock'[session[h]] = sock[session[h]]
      BY <2>1, <2>6
    <3>2. \A h \in Gateways : session[h] # Absent =>
            sockOf[session[h]] = h /\ sock[session[h]] # "closed"
      BY <1>1 DEF IngressTypeOK, SessionsReport
    <3> QED BY <2>6, <2>7, <3>1, <3>2
  <2>9. IngressTypeOK'
    BY <1>1, <1>3, <2>1, <2>3, <2>4, <2>5, <2>8, IngressAssumption DEF IngressTypeOK
  <2>10. SessionsReport'
    BY <2>8 DEF SessionsReport
  <2>11. DeliveringIsWatched'
    <3>1. \A x \in Events : status'[x] = "delivering" =>
            status[x] = "delivering" /\ (x = e => disp'[x] # "idle") /\ (x # e => disp'[x] = disp[x])
      BY <2>1
    <3> QED BY <1>1, <1>3, <2>1, <3>1 DEF DeliveringIsWatched, Watched
  <2>12. DeliveredWasReplied'
    BY <1>1, <1>3, <2>4 DEF DeliveredWasReplied
  <2> QED BY <1>4, <2>9, <2>10, <2>11, <2>12 DEF GInv, RowsTellTheTruth
<1> QED BY <1>5, <1>6

\* A crash: the rows that are pending are listed.
LEMMA CrashStep ==
  ASSUME GInv, Crash
  PROVE  GInv'
<1>1. IngressTypeOK /\ DeliveredWasReplied
  BY DEF GInv, RowsTellTheTruth
<1> DEFINE R == {e \in Events : status[e] \in Pending}
<1>2. /\ disp' = [e \in Events |-> "idle"] /\ waitsFor' = [e \in Events |-> Absent]
      /\ current' = Absent /\ session' = [g \in Gateways |-> Absent]
      /\ sock' = [s \in RuntimeSockets |-> "closed"]
      /\ sockOf' = [s \in RuntimeSockets |-> Absent]
      /\ turns' = {} /\ sending' = [e \in Events |-> "no"]
      /\ retrying' = TRUE /\ todo' = R /\ UNCHANGED <<status, replies, skipped>>
      /\ faults' \in 0..MaxFaults
  <2>1. faults \in 0..MaxFaults /\ MaxFaults \in Nat
    BY <1>1, IngressAssumption DEF IngressTypeOK
  <2> QED BY <2>1 DEF Crash, Restart, Fault
<1>3. IngressTypeOK'
  <2>1. /\ disp' \in [Events -> {"idle"} \cup Dispatching]
        /\ waitsFor' \in [Events -> RuntimeSockets \cup {Absent}]
        /\ session' \in [Gateways -> RuntimeSockets \cup {Absent}]
        /\ sock' \in [RuntimeSockets -> {"closed", "connecting", "open"}]
        /\ sockOf' \in [RuntimeSockets -> Gateways \cup {Absent}]
        /\ sending' \in [Events -> {"no", "sending", "sent", "touching"}] /\ todo' \in SUBSET Events
    BY <1>2
  <2>2. /\ \A e \in Events : disp'[e] \notin {"ready", "push"}
        /\ \A g \in Gateways : session'[g] \notin RuntimeSockets
    BY <1>2, IngressAssumption
  <2> QED BY <1>1, <1>2, <2>1, <2>2 DEF IngressTypeOK
<1>4. DeliveringIsWatched' /\ DeliveredWasReplied'
  BY <1>1, <1>2 DEF DeliveringIsWatched, Watched, DeliveredWasReplied, Pending
<1>5. SessionsReport' /\ SentIsReplied' /\ RowsListed'
  BY <1>2 DEF SessionsReport, SentIsReplied, RowsListed
<1> QED BY <1>3, <1>4, <1>5 DEF GInv, RowsTellTheTruth

-----------------------------------------------------------------------------
\* Every step preserves the invariant.
LEMMA GNext == GInv /\ [IngressNext]_ingressVars => GInv'
<1> SUFFICES ASSUME GInv, [IngressNext]_ingressVars PROVE GInv'
  OBVIOUS
<1>1. CASE UNCHANGED ingressVars
  <2>1. UNCHANGED <<status, disp, waitsFor, retrying, todo, current, session, sock, sockOf,
                    turns, sending, replies, skipped, faults>>
    BY <1>1 DEF ingressVars, memVars
  <2>2. IngressTypeOK' /\ DeliveringIsWatched' /\ DeliveredWasReplied'
    BY <2>1 DEF GInv, RowsTellTheTruth, IngressTypeOK, DeliveringIsWatched, Watched, DeliveredWasReplied
  <2>3. SessionsReport' /\ SentIsReplied' /\ RowsListed'
    BY <2>1 DEF GInv, SessionsReport, SentIsReplied, RowsListed
  <2> QED BY <2>2, <2>3 DEF GInv, RowsTellTheTruth
<1> QED BY <1>1, HubSteps, AnswerSteps, SendSteps, RetrySteps, OpensStep, LostStep, ReadyStep,
           CrashStep DEF IngressNext

\* The rows of gateway-ingress tell the truth in every reachable state: one
\* that says "delivered" was replied to, and one that says "delivering" has
\* someone who will change it, or was replied to and lost a second reply.
THEOREM RowsTrue == IngressSpec => []RowsTellTheTruth
<1>1. GInv => RowsTellTheTruth
  BY DEF GInv
<1> QED BY <1>1, GInit, GNext, PTL DEF IngressSpec
=============================================================================
