----------------------------- MODULE BridgeProofs -----------------------------
(***************************************************************************)
(* Proofs about Bridge for every set of requests, notifications and        *)
(* rejected lines: type correctness, the draining argument, at most one    *)
(* answer per line, and that the bridge implements the Forwarder.          *)
(***************************************************************************)
EXTENDS Bridge, Naturals, TLAPS

Accepted == {f \in Frames : pc[f] # "unread"}
Finished == {f \in Frames : pc[f] = "done"}

------------------------------------------------------------------------------
(* What a gateway exchange can leave to write is a sequence of messages.     *)
LEMMA EnvelopesAreMessages ==
  ASSUME NEW f \in Frames
  PROVE  /\ \A ms \in GatewayEnvelopes(f) : ms \in Seq(Messages)
         /\ <<errorEnvelope(f)>> \in Seq(Messages)
<1> DEFINE result  == Message(f, f, "result")
           refused == Message(f, NoId, "error")
           note    == Message(f, NoId, "note")
<1>1. result \in Messages /\ refused \in Messages /\ note \in Messages
  BY DEF Message, Messages
<1>2. errorEnvelope(f) \in Messages
  BY DEF errorEnvelope, Message, Messages
<1>3. ASSUME NEW ms \in GatewayEnvelopes(f)
      PROVE  ms \in {<<result>>, <<refused>>, <<note>>, <<note, result>>, <<result, note>>}
  BY <1>3 DEF GatewayEnvelopes
<1>4. \A m, n \in Messages : <<m>> \in Seq(Messages) /\ <<m, n>> \in Seq(Messages)
  OBVIOUS
<1> HIDE DEF result, refused, note
<1>5. ASSUME NEW ms \in GatewayEnvelopes(f) PROVE ms \in Seq(Messages)
  BY <1>1, <1>3, <1>4
<1>6. QED
  BY <1>2, <1>4, <1>5

(* The part of TypeOK that a task writes.                                    *)
TaskTypes ==
  /\ pc \in [Frames -> {"unread", "fetching", "reading", "writing", "done"}]
  /\ outcome \in [Frames -> Outcomes]
  /\ reply \in [Frames -> Seq(Messages)]
  /\ inFlight \subseteq Frames

LEMMA ReplyTypes ==
  ASSUME TypeOK, NEW f \in Frames, NEW what \in Outcomes,
         NEW ms \in Seq(Messages), Reply(f, what, ms)
  PROVE  TaskTypes'
  BY DEF Reply, TypeOK, TaskTypes

LEMMA NoReplyTypes ==
  ASSUME TypeOK, NEW f \in Frames, NEW what \in Outcomes, NoReply(f, what)
  PROVE  TaskTypes'
  BY DEF NoReply, finishTask, TypeOK, TaskTypes

(* The variables of Bridge keep their types.                                 *)
THEOREM TypeCorrect == Spec => []TypeOK
<1>1. Init => TypeOK
  BY DEF Init, TypeOK, Outcomes
<1>2. TypeOK /\ [Next]_vars => TypeOK'
  <2> SUFFICES ASSUME TypeOK, [Next]_vars PROVE TypeOK'
    OBVIOUS
  <2> USE DEF TypeOK
  <2>1. CASE runStdioBridge
    BY <2>1 DEF runStdioBridge, taskVars
  <2>2. ASSUME NEW f \in Frames, onmessage(f) PROVE TypeOK'
    BY <2>2 DEF onmessage
  <2>3. ASSUME NEW f \in Frames, FetchSettles(f) PROVE TypeOK'
    <3>1. TaskTypes'
      BY <2>3, EnvelopesAreMessages, ReplyTypes, NoReplyTypes
      DEF FetchSettles, TaskTypes, Outcomes
    <3>2. QED
      BY <2>3, <3>1 DEF FetchSettles, TaskTypes
  <2>4. ASSUME NEW f \in Frames, BodySettles(f) PROVE TypeOK'
    <3>1. TaskTypes'
      BY <2>4, EnvelopesAreMessages, ReplyTypes, NoReplyTypes
      DEF BodySettles, Outcomes
    <3>2. QED
      BY <2>4, <3>1 DEF BodySettles, TaskTypes
  <2>5. ASSUME NEW f \in Frames, Send(f) PROVE TypeOK'
    <3>1. Head(reply[f]) \in Messages /\ Tail(reply[f]) \in Seq(Messages)
      BY <2>5 DEF Send
    <3>2. stdout' \in Seq(Messages) /\ late' \subseteq Frames
      <4>1. CASE Running
        <5>1. stdout' = Append(stdout, Head(reply[f])) /\ late' = late
          BY <2>5, <4>1 DEF Send
        <5>2. QED
          BY <5>1, <3>1
      <4>2. CASE ~Running
        BY <2>5, <4>2 DEF Send
      <4>3. QED
        BY <4>1, <4>2
    <3>3. reply' \in [Frames -> Seq(Messages)]
      BY <2>5, <3>1 DEF Send
    <3>4. /\ pc' \in [Frames -> {"unread", "fetching", "reading", "writing", "done"}]
          /\ inFlight' \subseteq Frames
      BY <2>5 DEF Send, finishTask
    <3>5. QED
      BY <2>5, <3>2, <3>3, <3>4 DEF Send
  <2>6. ASSUME NEW b \in BadLines, onerror(b) PROVE TypeOK'
    <3>1. Message(b, NoId, "error") \in Messages
      BY DEF Message, Messages
    <3>2. QED
      BY <2>6, <3>1 DEF onerror, taskVars
  <2>7. CASE StdinEnds
    BY <2>7 DEF StdinEnds, drainAndSettle, settle, taskVars
  <2>8. CASE StdinCloses
    BY <2>8 DEF StdinCloses, drainAndSettle, settle, taskVars
  <2>9. CASE Abort
    BY <2>9 DEF Abort, drainAndSettle, settle, taskVars
  <2>10. CASE Drained
    BY <2>10 DEF Drained, settle, taskVars
  <2>11. CASE UNCHANGED vars
    BY <2>11 DEF vars, taskVars
  <2>12. QED
    BY <2>1, <2>2, <2>3, <2>4, <2>5, <2>6, <2>7, <2>8, <2>9, <2>10, <2>11
    DEF Next, Task
<1>3. QED
  BY <1>1, <1>2, PTL DEF Spec

------------------------------------------------------------------------------
(* Draining.                                                                 *)

\* What a step of a task may do to the state DrainInv looks at: the task stays
\* active and in inFlight, or is done and out of it.
TaskMoves(f) ==
  /\ pc[f] \in {"fetching", "reading", "writing"}
  /\ \/ /\ pc' = [pc EXCEPT ![f] = "done"]
        /\ inFlight' = inFlight \ {f}
     \/ /\ \E p \in {"reading", "writing"} : pc' = [pc EXCEPT ![f] = p]
        /\ UNCHANGED inFlight
     \/ UNCHANGED <<pc, inFlight>>
  /\ UNCHANGED <<promise, stdin, signal, drains, owed>>

LEMMA TasksMove ==
  ASSUME TypeOK, NEW f \in Frames, Task(f)
  PROVE  /\ TaskMoves(f)
         /\ late' = late \/ (~Running /\ late' = late \cup {f})
<1>1. CASE FetchSettles(f)
  BY <1>1 DEF FetchSettles, Reply, NoReply, finishTask, TaskMoves
<1>2. CASE BodySettles(f)
  BY <1>2 DEF BodySettles, Reply, NoReply, finishTask, TaskMoves
<1>3. CASE Send(f)
  <2>1. TaskMoves(f)
    BY <1>3 DEF Send, finishTask, TaskMoves
  <2>2. late' = late \/ (~Running /\ late' = late \cup {f})
    BY <1>3 DEF Send
  <2>3. QED
    BY <2>1, <2>2
<1>4. QED
  BY <1>1, <1>2, <1>3 DEF Task

LEMMA TasksKeepDrainInv ==
  ASSUME TypeOK, DrainInv, NEW f \in Frames, Task(f)
  PROVE  DrainInv'
<1>a. /\ TaskMoves(f)
      /\ late' = late \/ (~Running /\ late' = late \cup {f})
  BY TasksMove
<1> USE DEF TypeOK, DrainInv
<1>0. /\ UNCHANGED <<promise, stdin, signal, drains, owed>>
      /\ pc[f] \notin {"unread", "done"} /\ pc'[f] # "unread"
      /\ \A g \in Frames : g # f => pc'[g] = pc[g]
      /\ DOMAIN pc' = Frames
  BY <1>a DEF TaskMoves
<1>1. inFlight' = Active'
  BY <1>a DEF Active, TaskMoves
<1>2. /\ \A g \in owed' : pc'[g] # "unread"
      /\ \A pending \in drains' : owed' \cap NotDone' \subseteq pending
  <2>1. UNCHANGED <<drains, owed>> /\ NotDone' \subseteq NotDone
    BY <1>0 DEF NotDone
  <2>2. \A g \in owed' : pc'[g] # "unread"
    BY <1>0, <2>1
  <2>3. QED
    BY <2>1, <2>2
<1>3. /\ (drains # {} => StopRequested)'
      /\ (promise = "unstarted" => stdin = "open")'
      /\ (signal # "aborted" => \A g \in Frames : pc[g] # "unread" => g \in owed)'
  BY <1>0 DEF StopRequested
<1>4. promise \notin {"unstarted", "rejected"}
  BY <1>0
<1>5. DrainsBeforeClosing'
  BY <1>0 DEF DrainsBeforeClosing
<1>6. OnlyBestEffortFramesAreLate'
  <2>1. CASE late' = late
    BY <2>1, <1>0 DEF OnlyBestEffortFramesAreLate
  <2>2. CASE ~Running /\ late' = late \cup {f}
    <3>1. promise = "resolved"
      BY <1>4, <2>2 DEF Running
    <3>2. f \notin owed
      BY <3>1, <1>0 DEF DrainsBeforeClosing
    <3>3. signal = "aborted"
      BY <3>2, <1>0
    <3>4. QED
      BY <2>2, <3>2, <3>3, <1>0 DEF OnlyBestEffortFramesAreLate
  <2>3. QED
    BY <2>1, <2>2, <1>a
<1>7. promise' # "resolved" => late' = {}
  BY <1>4, <1>0, <1>a DEF Running
<1>8. promise' \notin {"unstarted", "rejected"}
  BY <1>4, <1>0
<1>9. QED
  BY <1>1, <1>2, <1>3, <1>5, <1>6, <1>7, <1>8

\* A stop request: the promise settles with every owed frame done, or a new
\* snapshot that holds all the active ones is waited for.
LEMMA StopsKeepDrainInv ==
  ASSUME TypeOK, DrainInv, drainAndSettle, promise # "unstarted",
         StopRequested', signal = "aborted" => signal' = "aborted",
         UNCHANGED <<pc, inFlight, late, owed>>
  PROVE  DrainInv'
<1> USE DEF TypeOK, DrainInv, NotDone
<1>1. CASE Running /\ inFlight # {}
  BY <1>1 DEF drainAndSettle, Active, DrainsBeforeClosing,
              OnlyBestEffortFramesAreLate
<1>2. CASE ~(Running /\ inFlight # {})
  <2>1. drains' = drains /\ promise' = IF Running THEN "resolved" ELSE promise
    BY <1>2 DEF drainAndSettle, settle
  <2>2. DrainsBeforeClosing'
    BY <1>2, <2>1 DEF DrainsBeforeClosing, Active, Running
  <2>3. QED
    BY <2>1, <2>2 DEF Active, OnlyBestEffortFramesAreLate, Running
<1>3. QED
  BY <1>1, <1>2

(* The bridge closes only after every frame it owes an answer is through:    *)
(* the draining invariant is inductive.                                      *)
THEOREM Draining == Spec => []DrainInv
<1>1. Init => DrainInv
  BY DEF Init, DrainInv, Active, NotDone, DrainsBeforeClosing,
         OnlyBestEffortFramesAreLate
<1>2. TypeOK /\ DrainInv /\ [Next]_vars => DrainInv'
  <2> SUFFICES ASSUME TypeOK, DrainInv, [Next]_vars PROVE DrainInv'
    OBVIOUS
  <2> USE DEF TypeOK, DrainInv
  <2>1. CASE runStdioBridge
    BY <2>1 DEF runStdioBridge, taskVars, Active, NotDone, StopRequested,
                DrainsBeforeClosing, OnlyBestEffortFramesAreLate
  <2>2. ASSUME NEW f \in Frames, onmessage(f) PROVE DrainInv'
    <3>1. promise = "pending" /\ promise' = promise
      BY <2>2 DEF onmessage, Running
    <3>2. inFlight' = Active'
      BY <2>2 DEF onmessage, Active
    <3>3. /\ \A g \in owed' : pc'[g] # "unread"
          /\ \A pending \in drains' : owed' \cap NotDone' \subseteq pending
      BY <2>2 DEF onmessage, NotDone
    <3>4. /\ (drains # {} => StopRequested)'
          /\ (signal # "aborted" => \A g \in Frames : pc[g] # "unread" => g \in owed)'
      BY <2>2 DEF onmessage, StopRequested
    <3>5. DrainsBeforeClosing' /\ OnlyBestEffortFramesAreLate'
      BY <2>2, <3>1 DEF onmessage, DrainsBeforeClosing, OnlyBestEffortFramesAreLate
    <3>6. QED
      BY <2>2, <3>1, <3>2, <3>3, <3>4, <3>5 DEF onmessage
  <2>3. ASSUME NEW f \in Frames, Task(f) PROVE DrainInv'
    BY <2>3, TasksKeepDrainInv
  <2>4. ASSUME NEW b \in BadLines, onerror(b) PROVE DrainInv'
    BY <2>4 DEF onerror, taskVars, Active, NotDone, StopRequested,
                DrainsBeforeClosing, OnlyBestEffortFramesAreLate
  <2>5. CASE StdinEnds
    BY <2>5, StopsKeepDrainInv DEF StdinEnds, taskVars, StopRequested
  <2>6. CASE StdinCloses
    BY <2>6, StopsKeepDrainInv DEF StdinCloses, taskVars, StopRequested
  <2>7. CASE Abort
    BY <2>7, StopsKeepDrainInv DEF Abort, taskVars, StopRequested
  <2>8. CASE Drained
    <3>1. \A f \in owed : pc[f] = "done"
      BY <2>8 DEF Drained, NotDone
    <3>2. promise' = "resolved" /\ UNCHANGED <<pc, inFlight, owed, late, drains, signal, stdin>>
      BY <2>8 DEF Drained, settle, taskVars
    <3>3. QED
      BY <3>1, <3>2 DEF Active, NotDone, StopRequested, DrainsBeforeClosing,
                        OnlyBestEffortFramesAreLate
  <2>9. CASE UNCHANGED vars
    BY <2>9 DEF vars, taskVars, Active, NotDone, StopRequested,
                DrainsBeforeClosing, OnlyBestEffortFramesAreLate
  <2>10. QED
    BY <2>1, <2>2, <2>3, <2>4, <2>5, <2>6, <2>7, <2>8, <2>9 DEF Next
<1>3. QED
  BY <1>1, <1>2, TypeCorrect, PTL DEF Spec

\* The bridge resolves its promise with no owed frame unfinished.
THEOREM ClosesAfterDraining == Spec => []DrainsBeforeClosing
<1>1. DrainInv => DrainsBeforeClosing
  BY DEF DrainInv
<1>2. QED
  BY <1>1, Draining, PTL

\* A reply is lost to the closed transport only after an abort, and never that
\* of an owed frame.
THEOREM LosesOnlyBestEffortReplies == Spec => []OnlyBestEffortFramesAreLate
<1>1. DrainInv => OnlyBestEffortFramesAreLate
  BY DEF DrainInv
<1>2. QED
  BY <1>1, Draining, PTL

------------------------------------------------------------------------------
(* Answers.                                                                  *)

LEMMA SentMessage ==
  ASSUME TypeOK, NEW m \in Messages, stdout' = Append(stdout, m)
  PROVE  /\ \A l : Answered(l)' <=> Answered(l) \/ (m.from = l /\ IsAnswer(m))
         /\ AtMostOneAnswer /\ (IsAnswer(m) => ~Answered(m.from)) => AtMostOneAnswer'
<1> USE DEF TypeOK
<1>1. /\ DOMAIN stdout' = DOMAIN stdout \cup {Len(stdout) + 1}
      /\ Len(stdout) + 1 \notin DOMAIN stdout
      /\ \A i \in DOMAIN stdout : stdout'[i] = stdout[i]
      /\ stdout'[Len(stdout) + 1] = m
  OBVIOUS
<1>2. \A l : Answered(l)' <=> Answered(l) \/ (m.from = l /\ IsAnswer(m))
  BY <1>1 DEF Answered
<1>3. ASSUME AtMostOneAnswer, (IsAnswer(m) => ~Answered(m.from))
      PROVE  AtMostOneAnswer'
  BY <1>1, <1>3 DEF AtMostOneAnswer, Answered
<1>4. QED
  BY <1>2, <1>3

\* A task's messages are its own, with one answer at most among them.
OwnMessages(f, ms) ==
  /\ \A i \in DOMAIN ms : ms[i].from = f
  /\ \A i, j \in DOMAIN ms : IsAnswer(ms[i]) /\ IsAnswer(ms[j]) => i = j

LEMMA EnvelopesAreOwn ==
  ASSUME NEW f \in Frames
  PROVE  /\ \A ms \in GatewayEnvelopes(f) : OwnMessages(f, ms)
         /\ OwnMessages(f, <<errorEnvelope(f)>>)
         /\ OwnMessages(f, <<>>)
<1> USE DEF OwnMessages, IsAnswer, Message
<1>1. ASSUME NEW ms \in GatewayEnvelopes(f) PROVE OwnMessages(f, ms)
  <2> DEFINE result  == Message(f, f, "result")
             refused == Message(f, NoId, "error")
             note    == Message(f, NoId, "note")
  <2>1. CASE ms = <<result>>
    BY <2>1
  <2>2. CASE ms = <<refused>>
    BY <2>2
  <2>3. CASE ms = <<note>>
    BY <2>3
  <2>4. CASE ms = <<note, result>>
    BY <2>4
  <2>5. CASE ms = <<result, note>>
    BY <2>5
  <2>6. QED
    BY <2>1, <2>2, <2>3, <2>4, <2>5 DEF GatewayEnvelopes
<1>2. OwnMessages(f, <<errorEnvelope(f)>>)
  BY DEF errorEnvelope
<1>3. QED
  BY <1>1, <1>2

\* fetch and the body: the task has written nothing yet, and what it goes on
\* with is its own.
LEMMA ExchangesKeepAnswerInv ==
  ASSUME TypeOK, AnswerInv, NEW f \in Frames, FetchSettles(f) \/ BodySettles(f)
  PROVE  AnswerInv'
<1>1. /\ UNCHANGED <<stdout, seen>>
      /\ pc[f] \in {"fetching", "reading"}
  BY DEF FetchSettles, BodySettles
<1>2. ~Answered(f) /\ reply[f] = <<>>
  BY <1>1 DEF AnswerInv
<1>3. \/ \E p \in {"reading", "done"} :
           pc' = [pc EXCEPT ![f] = p] /\ reply' = reply
      \/ pc' = [pc EXCEPT ![f] = "writing"]
         /\ \E ms \in Seq(Messages) :
              OwnMessages(f, ms) /\ reply' = [reply EXCEPT ![f] = ms]
  BY EnvelopesAreOwn, EnvelopesAreMessages
  DEF FetchSettles, BodySettles, Reply, NoReply, finishTask
<1>4. \A l : Answered(l)' <=> Answered(l)
  BY <1>1 DEF Answered
<1>5. OwnMessages(f, reply'[f])
  BY <1>2, <1>3, EnvelopesAreOwn DEF TypeOK
<1>6. /\ pc'[f] # "writing" => reply'[f] = <<>>
      /\ \A g \in Frames : g # f => pc'[g] = pc[g] /\ reply'[g] = reply[g]
  BY <1>2, <1>3 DEF TypeOK
<1>7. AtMostOneAnswer'
  BY <1>1 DEF AnswerInv, AtMostOneAnswer
<1>8. ASSUME NEW g \in Frames
      PROVE  /\ pc'[g] # "writing" => reply'[g] = <<>>
             /\ \A i \in DOMAIN reply'[g] : reply'[g][i].from = g
             /\ \A i, j \in DOMAIN reply'[g] :
                  IsAnswer(reply'[g][i]) /\ IsAnswer(reply'[g][j]) => i = j
             /\ Answered(g)' => /\ pc'[g] \in {"writing", "done"}
                                /\ \A i \in DOMAIN reply'[g] : ~IsAnswer(reply'[g][i])
  <2>1. CASE g = f
    BY <1>2, <1>4, <1>5, <1>6, <2>1 DEF OwnMessages
  <2>2. CASE g # f
    BY <1>4, <1>6, <2>2 DEF AnswerInv
  <2>3. QED
    BY <2>1, <2>2
<1>9. \A b \in BadLines : Answered(b)' => b \in seen'
  BY <1>1, <1>4 DEF AnswerInv
<1>10. QED
  BY <1>7, <1>8, <1>9 DEF AnswerInv

LEMMA SendsKeepAnswerInv ==
  ASSUME TypeOK, AnswerInv, NEW f \in Frames, Send(f)
  PROVE  AnswerInv'
<1> DEFINE m == Head(reply[f])
<1> USE DEF TypeOK
<1>1. /\ reply[f] \in Seq(Messages) /\ reply[f] # <<>> /\ pc[f] = "writing"
      /\ reply' = [reply EXCEPT ![f] = Tail(reply[f])]
      /\ UNCHANGED seen
  BY DEF Send
<1>2. /\ m \in Messages /\ m = reply[f][1] /\ 1 \in DOMAIN reply[f]
      /\ \A i \in DOMAIN Tail(reply[f]) :
           /\ i + 1 \in DOMAIN reply[f] /\ i + 1 # 1
           /\ Tail(reply[f])[i] = reply[f][i + 1]
  BY <1>1
<1>3. /\ OwnMessages(f, Tail(reply[f]))
      /\ m.from = f
      /\ IsAnswer(m) => \A i \in DOMAIN Tail(reply[f]) : ~IsAnswer(Tail(reply[f])[i])
  <2>1. /\ \A i \in DOMAIN reply[f] : reply[f][i].from = f
        /\ \A i, j \in DOMAIN reply[f] :
             IsAnswer(reply[f][i]) /\ IsAnswer(reply[f][j]) => i = j
    BY DEF AnswerInv
  <2>2. m.from = f /\ \A i \in DOMAIN Tail(reply[f]) : Tail(reply[f])[i].from = f
    BY <1>2, <2>1
  <2>3. IsAnswer(m) => \A i \in DOMAIN Tail(reply[f]) : ~IsAnswer(Tail(reply[f])[i])
    BY <1>2, <2>1
  <2>4. ASSUME NEW i \in DOMAIN Tail(reply[f]), NEW j \in DOMAIN Tail(reply[f]),
               IsAnswer(Tail(reply[f])[i]), IsAnswer(Tail(reply[f])[j])
        PROVE  i = j
    <3>1. i + 1 = j + 1
      BY <1>2, <2>1, <2>4
    <3>2. i \in Nat /\ j \in Nat
      BY <1>1
    <3>3. QED
      BY <3>1, <3>2
  <2>5. QED
    BY <2>2, <2>3, <2>4 DEF OwnMessages
<1>4. /\ IsAnswer(m) => ~Answered(f)
      /\ Answered(f) => \A i \in DOMAIN Tail(reply[f]) : ~IsAnswer(Tail(reply[f])[i])
  BY <1>1, <1>2 DEF AnswerInv
<1>5. /\ pc' \in [Frames -> {"unread", "fetching", "reading", "writing", "done"}]
      /\ pc'[f] = IF Tail(reply[f]) = <<>> THEN "done" ELSE "writing"
      /\ \A g \in Frames : g # f => pc'[g] = pc[g] /\ reply'[g] = reply[g]
      /\ reply'[f] = Tail(reply[f])
  BY <1>1 DEF Send, finishTask
<1>6. /\ \A l : Answered(l)' => Answered(l) \/ (l = f /\ IsAnswer(m))
      /\ AtMostOneAnswer'
  <2>1. CASE Running
    <3>1. stdout' = Append(stdout, m)
      BY <2>1 DEF Send
    <3>2. AtMostOneAnswer
      BY DEF AnswerInv
    <3>3. QED
      BY <1>2, <1>3, <1>4, <3>1, <3>2, SentMessage
  <2>2. CASE ~Running
    <3>1. stdout' = stdout
      BY <2>2 DEF Send
    <3>2. QED
      BY <3>1 DEF Answered, AnswerInv, AtMostOneAnswer
  <2>3. QED
    BY <2>1, <2>2
<1>7. ASSUME NEW g \in Frames
      PROVE  /\ pc'[g] # "writing" => reply'[g] = <<>>
             /\ \A i \in DOMAIN reply'[g] : reply'[g][i].from = g
             /\ \A i, j \in DOMAIN reply'[g] :
                  IsAnswer(reply'[g][i]) /\ IsAnswer(reply'[g][j]) => i = j
             /\ Answered(g)' => /\ pc'[g] \in {"writing", "done"}
                                /\ \A i \in DOMAIN reply'[g] : ~IsAnswer(reply'[g][i])
  <2>1. CASE g = f
    BY <1>3, <1>4, <1>5, <1>6, <2>1 DEF OwnMessages
  <2>2. CASE g # f
    BY <1>5, <1>6, <2>2 DEF AnswerInv
  <2>3. QED
    BY <2>1, <2>2
<1>8. \A b \in BadLines : Answered(b)' => b \in seen'
  BY <1>1, <1>6, FramesAssumption DEF AnswerInv
<1>9. QED
  BY <1>6, <1>7, <1>8 DEF AnswerInv

\* Every step that touches no task and writes nothing.
LEMMA QuietStepsKeepAnswerInv ==
  ASSUME AnswerInv, UNCHANGED <<pc, reply, stdout, seen>>
  PROVE  AnswerInv'
BY DEF AnswerInv, Answered, AtMostOneAnswer

(* Where each answer is: nowhere yet, with its task, or on stdout.           *)
THEOREM Answering == Spec => []AnswerInv
<1>1. Init => AnswerInv
  BY DEF Init, AnswerInv, Answered, AtMostOneAnswer
<1>2. TypeOK /\ AnswerInv /\ [Next]_vars => AnswerInv'
  <2> SUFFICES ASSUME TypeOK, AnswerInv, [Next]_vars PROVE AnswerInv'
    OBVIOUS
  <2>1. CASE runStdioBridge \/ StdinEnds \/ StdinCloses \/ Abort \/ Drained \/ UNCHANGED vars
    <3>1. UNCHANGED <<pc, reply, stdout, seen>>
      BY <2>1 DEF runStdioBridge, StdinEnds, StdinCloses, Abort, Drained, vars, taskVars
    <3>2. QED
      BY <3>1, QuietStepsKeepAnswerInv
  <2>2. ASSUME NEW f \in Frames, onmessage(f) PROVE AnswerInv'
    <3>1. /\ UNCHANGED <<reply, stdout, seen>>
          /\ pc[f] = "unread" /\ pc' = [pc EXCEPT ![f] = "fetching"]
      BY <2>2 DEF onmessage
    <3>2. \A l : Answered(l)' <=> Answered(l)
      BY <3>1 DEF Answered
    <3>3. QED
      BY <3>1, <3>2 DEF AnswerInv, AtMostOneAnswer, TypeOK
  <2>3. ASSUME NEW f \in Frames, Task(f) PROVE AnswerInv'
    BY <2>3, ExchangesKeepAnswerInv, SendsKeepAnswerInv DEF Task
  <2>4. ASSUME NEW b \in BadLines, onerror(b) PROVE AnswerInv'
    <3> DEFINE m == Message(b, NoId, "error")
    <3>1. /\ b \notin seen /\ seen' = seen \cup {b}
          /\ stdout' = Append(stdout, m)
          /\ UNCHANGED <<pc, reply>>
      BY <2>4 DEF onerror, taskVars
    <3>2. m \in Messages /\ m.from = b
      BY DEF Message, Messages
    <3>3. ~Answered(b) /\ AtMostOneAnswer
      BY <3>1 DEF AnswerInv
    <3> HIDE DEF m
    <3>4. /\ \A l : Answered(l)' => Answered(l) \/ l = b
          /\ AtMostOneAnswer'
      BY <3>1, <3>2, <3>3, SentMessage
    <3>5. \A f \in Frames : f # b
      BY FramesAssumption
    <3>6. QED
      BY <3>1, <3>4, <3>5 DEF AnswerInv
  <2>5. QED
    BY <2>1, <2>2, <2>3, <2>4 DEF Next
<1>3. QED
  BY <1>1, <1>2, TypeCorrect, PTL DEF Spec

\* However tasks interleave, a line read from stdin gets at most one answer.
THEOREM AnswersAtMostOnce == Spec => []AtMostOneAnswer
<1>1. AnswerInv => AtMostOneAnswer
  BY DEF AnswerInv
<1>2. QED
  BY <1>1, Answering, PTL

------------------------------------------------------------------------------
(* Nothing is left behind: what a task still owes is in its reply, and what  *)
(* a stop waits for can end.                                                 *)

LEMMA EnvelopesAnswer ==
  ASSUME NEW f \in Frames, NEW ms \in GatewayEnvelopes(f) \cup {<<errorEnvelope(f)>>}
  PROVE  /\ ms # <<>>
         /\ f \in Requests => \E i \in DOMAIN ms : IsAnswer(ms[i])
<1> DEFINE result  == Message(f, f, "result")
           refused == Message(f, NoId, "error")
           note    == Message(f, NoId, "note")
<1> USE DEF IsAnswer, Message
<1>1. CASE ms = <<result>> \/ ms = <<refused>> \/ ms = <<result, note>>
  <2>1. 1 \in DOMAIN ms /\ IsAnswer(ms[1])
    BY <1>1
  <2>2. QED
    BY <1>1, <2>1
<1>2. CASE ms = <<note, result>>
  <2>1. 2 \in DOMAIN ms /\ IsAnswer(ms[2])
    BY <1>2
  <2>2. QED
    BY <1>2, <2>1
<1>3. CASE ms = <<errorEnvelope(f)>>
  <2>1. 1 \in DOMAIN ms /\ IsAnswer(ms[1])
    BY <1>3 DEF errorEnvelope
  <2>2. QED
    BY <1>3, <2>1
<1>4. CASE ms = <<note>> /\ f \notin Requests
  BY <1>4
<1>5. QED
  BY <1>1, <1>2, <1>3, <1>4 DEF GatewayEnvelopes

\* fetch and the body: what the task goes on with has its answer.
LEMMA ExchangesKeepPendingInv ==
  ASSUME TypeOK, PendingInv, NEW f \in Frames, FetchSettles(f) \/ BodySettles(f)
  PROVE  PendingInv'
<1>1. /\ UNCHANGED <<stdout, late, promise, stdin, signal, drains>>
      /\ pc[f] \in {"fetching", "reading"}
  BY DEF FetchSettles, BodySettles
<1>2. \/ /\ pc' = [pc EXCEPT ![f] = "reading"]
         /\ UNCHANGED <<reply, outcome>>
      \/ /\ pc' = [pc EXCEPT ![f] = "done"]
         /\ \E o \in {"ack", "body failed"} : outcome' = [outcome EXCEPT ![f] = o]
         /\ UNCHANGED reply
      \/ /\ pc' = [pc EXCEPT ![f] = "writing"]
         /\ \E o : outcome' = [outcome EXCEPT ![f] = o]
         /\ \E ms \in GatewayEnvelopes(f) \cup {<<errorEnvelope(f)>>} :
              reply' = [reply EXCEPT ![f] = ms]
  BY DEF FetchSettles, BodySettles, Reply, NoReply, finishTask
<1>3. \A g \in Frames : g # f =>
        pc'[g] = pc[g] /\ reply'[g] = reply[g] /\ outcome'[g] = outcome[g]
  BY <1>2 DEF TypeOK
<1>4. /\ pc'[f] # "unread"
      /\ pc'[f] = "writing" =>
           reply'[f] # <<>> /\ (f \in Requests => \E i \in DOMAIN reply'[f] : IsAnswer(reply'[f][i]))
      /\ pc'[f] = "done" => outcome'[f] \in {"ack", "body failed"}
  <2>1. CASE pc' = [pc EXCEPT ![f] = "reading"]
    BY <2>1 DEF TypeOK
  <2>2. CASE /\ pc' = [pc EXCEPT ![f] = "done"]
             /\ \E o \in {"ack", "body failed"} : outcome' = [outcome EXCEPT ![f] = o]
    BY <2>2 DEF TypeOK
  <2>3. ASSUME pc' = [pc EXCEPT ![f] = "writing"],
               NEW ms \in GatewayEnvelopes(f) \cup {<<errorEnvelope(f)>>},
               reply' = [reply EXCEPT ![f] = ms]
        PROVE  /\ pc'[f] = "writing" /\ reply'[f] # <<>>
               /\ f \in Requests => \E i \in DOMAIN reply'[f] : IsAnswer(reply'[f][i])
    <3>1. pc'[f] = "writing" /\ reply'[f] = ms
      BY <2>3 DEF TypeOK
    <3>2. QED
      BY <3>1, EnvelopesAnswer
  <2>4. QED
    BY <1>2, <2>1, <2>2, <2>3
<1>5. \A l : Answered(l)' <=> Answered(l)
  BY <1>1 DEF Answered
<1>6. ASSUME NEW g \in Frames
      PROVE  /\ pc'[g] = "writing" => reply'[g] # <<>>
             /\ pc[g] # "unread" => pc'[g] # "unread"
             /\ g \in Requests /\ pc'[g] \in {"writing", "done"} =>
                  \/ Answered(g)' \/ g \in late'
                  \/ outcome'[g] \in {"ack", "body failed"}
                  \/ \E i \in DOMAIN reply'[g] : IsAnswer(reply'[g][i])
  <2>1. CASE g = f
    BY <1>4, <2>1
  <2>2. CASE g # f
    BY <1>1, <1>3, <1>5, <2>2 DEF PendingInv
  <2>3. QED
    BY <2>1, <2>2
<1>7. StopIsUnderWay'
  BY <1>1, <1>6 DEF PendingInv, StopIsUnderWay, Running, StopRequested, TypeOK
<1>8. QED
  BY <1>6, <1>7 DEF PendingInv, Frames

\* What is written is on stdout, or its task among the late ones; what is not is left.
LEMMA SendsKeepPendingInv ==
  ASSUME TypeOK, AnswerInv, PendingInv, NEW f \in Frames, Send(f)
  PROVE  PendingInv'
<1> DEFINE m == Head(reply[f])
           rest == Tail(reply[f])
<1> USE DEF TypeOK
<1>1. /\ reply[f] \in Seq(Messages) /\ reply[f] # <<>> /\ pc[f] = "writing"
      /\ reply' = [reply EXCEPT ![f] = rest]
      /\ UNCHANGED <<outcome, promise, stdin, signal, drains>>
  BY DEF Send
<1>2. /\ m \in Messages /\ m = reply[f][1] /\ 1 \in DOMAIN reply[f]
      /\ \A i \in DOMAIN reply[f] : i # 1 =>
           i - 1 \in DOMAIN rest /\ rest[i - 1] = reply[f][i]
  BY <1>1
<1>3. m.from = f
  BY <1>2 DEF AnswerInv
<1>4. /\ pc'[f] = IF rest = <<>> THEN "done" ELSE "writing"
      /\ \A g \in Frames : g # f => pc'[g] = pc[g] /\ reply'[g] = reply[g]
      /\ reply'[f] = rest
  BY <1>1 DEF Send, finishTask
<1>5. /\ \A l : Answered(l) => Answered(l)'
      /\ late \subseteq late'
      /\ IsAnswer(m) => Answered(f)' \/ f \in late'
  <2>1. CASE Running
    <3>1. stdout' = Append(stdout, m) /\ late' = late
      BY <2>1 DEF Send
    <3>2. QED
      BY <1>2, <1>3, <3>1, SentMessage
  <2>2. CASE ~Running
    BY <2>2 DEF Send, Answered
  <2>3. QED
    BY <2>1, <2>2
<1>6. (\E i \in DOMAIN reply[f] : IsAnswer(reply[f][i])) =>
        IsAnswer(m) \/ \E i \in DOMAIN rest : IsAnswer(rest[i])
  BY <1>2
<1>7. ASSUME NEW g \in Frames
      PROVE  /\ pc'[g] = "writing" => reply'[g] # <<>>
             /\ pc[g] # "unread" => pc'[g] # "unread"
             /\ g \in Requests /\ pc'[g] \in {"writing", "done"} =>
                  \/ Answered(g)' \/ g \in late'
                  \/ outcome'[g] \in {"ack", "body failed"}
                  \/ \E i \in DOMAIN reply'[g] : IsAnswer(reply'[g][i])
  <2>1. CASE g = f
    BY <1>1, <1>4, <1>5, <1>6, <2>1 DEF PendingInv
  <2>2. CASE g # f
    BY <1>1, <1>4, <1>5, <2>2 DEF PendingInv
  <2>3. QED
    BY <2>1, <2>2
<1>8. StopIsUnderWay'
  BY <1>1, <1>7 DEF PendingInv, StopIsUnderWay, Running, StopRequested
<1>9. QED
  BY <1>7, <1>8 DEF PendingInv, Frames

\* A stop request waits for the active tasks, or there are none and it settles.
LEMMA StopsKeepPendingInv ==
  ASSUME TypeOK, DrainInv, PendingInv, drainAndSettle,
         UNCHANGED <<pc, reply, outcome, late, stdout, inFlight>>
  PROVE  PendingInv'
<1>1. \A f \in inFlight : pc[f] # "unread"
  BY DEF DrainInv, Active
<1>2. StopIsUnderWay'
  <2>1. CASE Running /\ inFlight # {}
    <3>1. drains' = drains \cup {inFlight}
      BY <2>1 DEF drainAndSettle
    <3>2. \A f \in inFlight : pc[f] # "unread" /\ (pc[f] = "writing" => reply[f] # <<>>)
      BY <1>1 DEF PendingInv, TypeOK
    <3>3. \A pending \in drains' : \A f \in pending :
            pc[f] # "unread" /\ (pc[f] = "writing" => reply[f] # <<>>)
      BY <3>1, <3>2 DEF PendingInv, StopIsUnderWay
    <3>4. QED
      BY <3>1, <3>3 DEF StopIsUnderWay
  <2>2. CASE ~(Running /\ inFlight # {})
    BY <2>2 DEF drainAndSettle, settle, StopIsUnderWay, PendingInv, Running
  <2>3. QED
    BY <2>1, <2>2
<1>3. QED
  BY <1>2 DEF PendingInv, Answered

(* What is owed is in hand until it is given.                                *)
THEOREM Pending == Spec => []PendingInv
<1>1. Init => PendingInv
  BY DEF Init, PendingInv, StopIsUnderWay, Running, Frames
<1>2. TypeOK /\ DrainInv /\ AnswerInv /\ PendingInv /\ [Next]_vars => PendingInv'
  <2> SUFFICES ASSUME TypeOK, DrainInv, AnswerInv, PendingInv, [Next]_vars PROVE PendingInv'
    OBVIOUS
  <2>1. CASE runStdioBridge
    BY <2>1 DEF runStdioBridge, taskVars, PendingInv, StopIsUnderWay, Answered, Running,
                StopRequested, DrainInv
  <2>2. ASSUME NEW f \in Frames, onmessage(f) PROVE PendingInv'
    <3>1. /\ UNCHANGED <<reply, outcome, late, stdout, promise, stdin, signal, drains>>
          /\ pc[f] = "unread" /\ pc' = [pc EXCEPT ![f] = "fetching"]
      BY <2>2 DEF onmessage
    <3>2. \A l : Answered(l)' <=> Answered(l)
      BY <3>1 DEF Answered
    <3>3. QED
      BY <3>1, <3>2 DEF PendingInv, StopIsUnderWay, Running, StopRequested, TypeOK, Frames
  <2>3. ASSUME NEW f \in Frames, Task(f) PROVE PendingInv'
    BY <2>3, ExchangesKeepPendingInv, SendsKeepPendingInv DEF Task
  <2>4. ASSUME NEW b \in BadLines, onerror(b) PROVE PendingInv'
    <3>1. /\ stdout' = Append(stdout, Message(b, NoId, "error"))
          /\ UNCHANGED <<pc, reply, outcome, late, promise, stdin, signal, drains>>
      BY <2>4 DEF onerror, taskVars
    <3>2. Message(b, NoId, "error") \in Messages
      BY DEF Message, Messages
    <3>3. \A l : Answered(l) => Answered(l)'
      BY <3>1, <3>2, SentMessage
    <3>4. QED
      BY <3>1, <3>3 DEF PendingInv, StopIsUnderWay, Running, StopRequested
  <2>5. CASE StdinEnds \/ StdinCloses \/ Abort
    BY <2>5, StopsKeepPendingInv DEF StdinEnds, StdinCloses, Abort, taskVars
  <2>6. CASE Drained
    BY <2>6 DEF Drained, settle, taskVars, PendingInv, StopIsUnderWay, Answered, Running,
                StopRequested
  <2>7. CASE UNCHANGED vars
    BY <2>7 DEF vars, taskVars, PendingInv, StopIsUnderWay, Answered, Running, StopRequested
  <2>8. QED
    BY <2>1, <2>2, <2>3, <2>4, <2>5, <2>6, <2>7 DEF Next
<1>3. QED
  BY <1>1, <1>2, TypeCorrect, Draining, Answering, PTL DEF Spec

\* When its task is done, a request has its answer unless there is none to give or
\* the transport was closed.
THEOREM AnswersAreNotDropped == Spec => []NoAnswerIsDropped
<1>1. PendingInv /\ AnswerInv => NoAnswerIsDropped
  <2>1. \A f \in Requests : AnswerInv /\ pc[f] = "done" => reply[f] = <<>>
    BY DEF AnswerInv, Frames
  <2>2. \A i \in DOMAIN <<>> : FALSE
    OBVIOUS
  <2>3. QED
    BY <2>1, <2>2 DEF PendingInv, NoAnswerIsDropped
<1>2. QED
  BY <1>1, Pending, Answering, PTL

\* A bridge that is to stop is never left without a snapshot that can drain.
THEOREM StopsAreUnderWay == Spec => []StopIsUnderWay
<1>1. PendingInv => StopIsUnderWay
  BY DEF PendingInv
<1>2. QED
  BY <1>1, Pending, PTL

\* A running bridge stops only once stdin has ended or the signal has aborted.
THEOREM StopsOnRequestOnly == Spec => StopsOnlyOnRequest
<1>1. TypeOK /\ DrainInv /\ [Next]_vars => [Running /\ ~Running' => StopRequested']_vars
  <2> SUFFICES ASSUME DrainInv, Next, Running, ~Running' PROVE StopRequested'
    OBVIOUS
  <2>1. CASE Drained
    BY <2>1 DEF Drained, DrainInv, StopRequested
  <2>2. CASE StdinEnds \/ StdinCloses \/ Abort
    BY <2>2 DEF StdinEnds, StdinCloses, Abort, StopRequested
  <2>3. CASE runStdioBridge
    BY <2>3 DEF runStdioBridge, Running
  <2>4. CASE UNCHANGED promise
    BY <2>4 DEF Running
  <2>5. QED
    BY <2>1, <2>2, <2>3, <2>4
    DEF Next, Task, onmessage, onerror, FetchSettles, BodySettles, Send
<1>2. QED
  BY <1>1, TypeCorrect, Draining, PTL DEF Spec, StopsOnlyOnRequest

------------------------------------------------------------------------------
(* Refinement.                                                               *)

Stopping == promise # "unstarted" /\ (StopRequested \/ promise = "rejected")
Closed == promise \in {"resolved", "rejected"}
AnsweredFrames == {f \in Frames : Answered(f)}

LEMMA AbstractVars ==
  /\ Abstract!vars = <<Accepted, owed, Finished, AnsweredFrames, Stopping, Closed>>
  /\ Abstract!vars' = <<Accepted', owed', Finished', AnsweredFrames', Stopping', Closed'>>
BY DEF Abstract!vars, Accepted, Finished, AnsweredFrames, Stopping, Closed

\* A step that moves no frame, requests a stop or closes: with the owed frames
\* finished whenever it closes, it is a Forwarder step.
LEMMA StopStepsSimulate ==
  ASSUME UNCHANGED <<pc, owed, stdout>>,
         Stopping => Stopping', Closed => Closed', Closed' => Stopping',
         Closed' => owed \subseteq Finished
  PROVE  [Abstract!Next]_(Abstract!vars)
<1>1. UNCHANGED <<Accepted, owed, Finished, AnsweredFrames>>
  BY DEF Accepted, Finished, AnsweredFrames, Answered
<1>2. CASE Stopping = Stopping' /\ Closed = Closed'
  BY <1>1, <1>2, AbstractVars
<1>3. CASE ~Stopping /\ Stopping'
  <2>1. Abstract!RequestStop
    BY <1>1, <1>3
    DEF Abstract!RequestStop, Accepted, Finished, AnsweredFrames, Stopping, Closed
  <2>2. QED
    BY <2>1 DEF Abstract!Next
<1>4. CASE Stopping /\ ~Closed /\ Closed'
  <2>1. Abstract!Close
    BY <1>1, <1>4
    DEF Abstract!Close, Accepted, Finished, AnsweredFrames, Stopping, Closed
  <2>2. QED
    BY <2>1 DEF Abstract!Next
<1>5. QED
  BY <1>2, <1>3, <1>4 DEF Stopping, Closed

LEMMA AcceptsSimulate ==
  ASSUME TypeOK, NEW f \in Frames, onmessage(f)
  PROVE  Abstract!Accept(f)
<1>1. /\ promise = "pending" /\ promise' = promise
      /\ UNCHANGED <<stdin, signal, stdout>>
      /\ pc[f] = "unread" /\ pc' = [pc EXCEPT ![f] = "fetching"]
      /\ owed' = IF StopRequested THEN owed ELSE owed \cup {f}
  BY DEF onmessage, Running
<1>2. Accepted' = Accepted \cup {f} /\ f \notin Accepted /\ Finished' = Finished
  BY <1>1 DEF Accepted, Finished, TypeOK
<1>3. AnsweredFrames' = AnsweredFrames
  BY <1>1 DEF AnsweredFrames, Answered
<1>4. Stopping' = Stopping /\ ~Closed /\ ~Closed' /\ (Stopping <=> StopRequested)
  BY <1>1 DEF Stopping, Closed, StopRequested
<1>5. QED
  BY <1>1, <1>2, <1>3, <1>4
  DEF Abstract!Accept, Accepted, Finished, AnsweredFrames, Stopping, Closed

LEMMA TasksSimulate ==
  ASSUME TypeOK, AnswerInv, NEW f \in Frames, Task(f)
  PROVE  [Abstract!Answer(f) \/ Abstract!Finish(f)]_(Abstract!vars)
<1>a. TaskMoves(f)
  BY TasksMove
<1>1. /\ UNCHANGED <<owed, Stopping, Closed>>
      /\ UNCHANGED Accepted
      /\ f \in Accepted \ Finished
      /\ Finished' = Finished \/ Finished' = Finished \cup {f}
  <2>1. UNCHANGED <<owed, Stopping, Closed>>
    BY <1>a DEF TaskMoves, Stopping, Closed, StopRequested
  <2>2. /\ UNCHANGED Accepted
        /\ f \in Accepted \ Finished
        /\ Finished' = Finished \/ Finished' = Finished \cup {f}
    BY <1>a DEF TaskMoves, Accepted, Finished, TypeOK
  <2>3. QED
    BY <2>1, <2>2
<1>2. \/ AnsweredFrames' = AnsweredFrames
      \/ ~Closed /\ AnsweredFrames' = AnsweredFrames \cup {f}
  <2>1. CASE Send(f) /\ Running
    <3> DEFINE m == Head(reply[f])
    <3>1. m \in Messages /\ stdout' = Append(stdout, m) /\ m.from = f
      BY <2>1 DEF Send, TypeOK, AnswerInv
    <3>2. \A l : Answered(l)' <=> Answered(l) \/ (l = f /\ IsAnswer(m))
      BY <3>1, SentMessage
    <3>3. ~Closed
      BY <2>1 DEF Running, Closed
    <3>4. QED
      BY <3>2, <3>3 DEF AnsweredFrames
  <2>2. CASE UNCHANGED stdout
    BY <2>2 DEF AnsweredFrames, Answered
  <2>3. QED
    BY <2>1, <2>2 DEF Task, FetchSettles, BodySettles, Send
<1>3. CASE AnsweredFrames' = AnsweredFrames
  <2>1. CASE Finished' = Finished
    BY <1>1, <1>3, <2>1, AbstractVars
  <2>2. CASE Finished' = Finished \cup {f}
    <3>1. Abstract!Finish(f)
      BY <1>1, <1>3, <2>2
      DEF Abstract!Finish, Accepted, Finished, AnsweredFrames, Stopping, Closed
    <3>2. QED
      BY <3>1
  <2>3. QED
    BY <1>1, <2>1, <2>2
<1>4. CASE AnsweredFrames' # AnsweredFrames
  <2>1. f \notin AnsweredFrames /\ ~Closed /\ AnsweredFrames' = AnsweredFrames \cup {f}
    BY <1>2, <1>4
  <2>2. Abstract!Answer(f)
    BY <1>1, <2>1
    DEF Abstract!Answer, Accepted, Finished, AnsweredFrames, Stopping, Closed
  <2>3. QED
    BY <2>2
<1>5. QED
  BY <1>3, <1>4

\* An answer to a rejected line is none of the Forwarder's business.
LEMMA RejectionsSimulate ==
  ASSUME TypeOK, NEW b \in BadLines, onerror(b)
  PROVE  UNCHANGED Abstract!vars
<1> DEFINE m == Message(b, NoId, "error")
<1>1. m \in Messages /\ m.from = b /\ stdout' = Append(stdout, m)
  BY DEF onerror, Message, Messages
<1>2. UNCHANGED <<pc, owed, promise, stdin, signal>>
  BY DEF onerror, taskVars
<1> HIDE DEF m
<1>3. \A f \in Frames : Answered(f)' <=> Answered(f)
  BY <1>1, SentMessage, FramesAssumption
<1>4. QED
  BY <1>2, <1>3, AbstractVars
  DEF Accepted, Finished, AnsweredFrames, Stopping, Closed, StopRequested

(* The bridge implements the Forwarder: what is proved of the one holds of   *)
(* the other.                                                                *)
THEOREM Refinement == Spec => ImplementsForwarder
<1>1. Init => Abstract!Init
  BY DEF Init, Abstract!Init, Answered
<1>2. ASSUME TypeOK, DrainInv, AnswerInv, DrainInv', [Next]_vars
      PROVE  [Abstract!Next]_(Abstract!vars)
  <2>1. ASSUME NEW f \in Frames, onmessage(f) PROVE Abstract!Next
    BY <1>2, <2>1, AcceptsSimulate DEF Abstract!Next
  <2>2. ASSUME NEW f \in Frames, Task(f) PROVE [Abstract!Next]_(Abstract!vars)
    BY <1>2, <2>2, TasksSimulate DEF Abstract!Next
  <2>3. ASSUME NEW b \in BadLines, onerror(b) PROVE UNCHANGED Abstract!vars
    BY <1>2, <2>3, RejectionsSimulate
  <2>4. CASE runStdioBridge
    <3>1. /\ UNCHANGED <<pc, owed, stdout>>
          /\ (Stopping => Stopping') /\ (Closed => Closed') /\ (Closed' => Stopping')
      BY <2>4 DEF runStdioBridge, taskVars, Stopping, Closed, StopRequested
    <3>2. owed \subseteq Finished
      BY <1>2, <2>4 DEF runStdioBridge, DrainInv, TypeOK, Finished
    <3>3. QED
      BY <3>1, <3>2, StopStepsSimulate
  <2>5. CASE StdinEnds \/ StdinCloses \/ Abort
    <3>1. UNCHANGED <<pc, owed, stdout>> /\ promise # "unstarted" /\ StopRequested'
          /\ (promise' = promise \/ promise' = "resolved")
          /\ (promise = "rejected" => promise' = "rejected")
      BY <2>5 DEF StdinEnds, StdinCloses, Abort, drainAndSettle, settle, taskVars,
                  StopRequested, Running
    <3>2. Stopping' /\ (Closed => Closed')
      BY <3>1 DEF Stopping, Closed
    <3>3. Closed' => owed \subseteq Finished
      BY <1>2, <3>1 DEF Closed, DrainInv, DrainsBeforeClosing, Finished, TypeOK
    <3>4. QED
      BY <3>1, <3>2, <3>3, StopStepsSimulate
  <2>6. CASE Drained
    <3>1. UNCHANGED <<pc, owed, stdout, stdin, signal>> /\ promise = "pending"
          /\ promise' = "resolved" /\ drains # {}
      BY <2>6 DEF Drained, settle, taskVars, Running
    <3>2. Stopping /\ Stopping' /\ ~Closed /\ Closed'
      BY <1>2, <3>1 DEF Stopping, Closed, DrainInv, StopRequested
    <3>3. owed \subseteq Finished
      BY <1>2, <3>1 DEF DrainInv, DrainsBeforeClosing, Finished, TypeOK
    <3>4. QED
      BY <3>1, <3>2, <3>3, StopStepsSimulate
  <2>7. CASE UNCHANGED vars
    BY <2>7, AbstractVars DEF vars, taskVars, Accepted, Finished, AnsweredFrames,
                              Answered, Stopping, Closed, StopRequested
  <2>8. QED
    BY <1>2, <2>1, <2>2, <2>3, <2>4, <2>5, <2>6, <2>7 DEF Next
<1>3. QED
  BY <1>1, <1>2, TypeCorrect, Draining, Answering, PTL
  DEF Spec, ImplementsForwarder, Abstract!Spec
==============================================================================
