-------------------------------- MODULE Bridge --------------------------------
(***************************************************************************)
(* mcp-server/src/bridge.ts: the stdio bridge.  Frames read from stdin are *)
(* forwarded, each by an asynchronous task of its own, to the gateway's    *)
(* /mcp endpoint, and what comes back is written to stdout.  The bridge    *)
(* drains its tasks before it closes when stdin ends or it is aborted.     *)
(*                                                                         *)
(* JavaScript runs to completion between awaits: one action is what a task *)
(* or callback does between two awaits.  The gateway, the network and the  *)
(* MCP SDK's StdioServerTransport are external: every outcome that         *)
(* forwardFrame tells apart is possible.                                   *)
(***************************************************************************)
EXTENDS Sequences

CONSTANTS
  Requests,       \* frames with an id
  Notifications,  \* frames without one
  BadLines,       \* stdin lines the SDK rejects (not JSON, or not JSON-RPC)
  NoId            \* the id null

Frames == Requests \cup Notifications

ASSUME FramesAssumption ==
  /\ Requests \cap Notifications = {}
  /\ BadLines \cap Frames = {}
  /\ NoId \notin Frames \cup BadLines

VARIABLES
  url,       \* class of opts.baseUrl
  signal,    \* opts.signal: "absent", "armed" or "aborted"
  promise,   \* the promise runStdioBridge returned; the transport is open
             \* exactly while it is "pending": settle closes it and nothing
             \* else does
  stdin,     \* "open", then "ended" ('end' event), then "closed" ('close')
  seen,      \* rejected lines already read
  pc,        \* where each frame's task is
  outcome,   \* what the gateway exchange of a frame came to
  reply,     \* messages the task still has to write
  inFlight,  \* the Set inFlight: frames whose task has not finished
  drains,    \* snapshots that drainAndSettle calls wait for
  stdout,    \* messages written to the open transport, in order
  late,      \* frames that sent a message after the transport was closed
  owed       \* history: frames read before the first stop request

vars == <<url, signal, promise, stdin, seen, pc, outcome, reply, inFlight,
          drains, stdout, late, owed>>
taskVars == <<pc, outcome, reply, inFlight>>

------------------------------------------------------------------------------
(* Messages.  Payloads and wording are abstracted to the line that caused    *)
(* the message, the id it carries, and whether it is an answer or a note     *)
(* (a server notification inside a batch).                                   *)

Message(from, id, kind) == [from |-> from, id |-> id, kind |-> kind]

\* `id ?? null`.
errorEnvelope(f) == Message(f, IF f \in Requests THEN f ELSE NoId, "error")

\* What looksLikeJSONRPCEnvelope lets through: one envelope, or a non-empty
\* batch of them.  The gateway answers a request at most once in it, under its
\* id, or under null when it refuses the call before it knows the id.
GatewayEnvelopes(f) ==
  LET result  == Message(f, f, "result")
      refused == Message(f, NoId, "error")
      note    == Message(f, NoId, "note")
  IN IF f \in Requests
     THEN {<<result>>, <<refused>>, <<note, result>>, <<result, note>>}
     ELSE {<<note>>, <<refused>>}

------------------------------------------------------------------------------
Running == promise = "pending"

StopRequested == stdin # "open" \/ signal = "aborted"

\* settle: the first caller decides, and the transport closes with it.
settle(result) == promise' = IF Running THEN result ELSE promise

\* Mutant: the transport closes on the next tick, without waiting (the "m2
\* race" that the comments of bridge.ts describe).
drainAndSettle_NoWait == settle("resolved") /\ UNCHANGED drains

drainAndSettle ==
  IF Running /\ inFlight # {}
  THEN drains' = drains \cup {inFlight} /\ UNCHANGED promise
  ELSE settle("resolved") /\ UNCHANGED drains

\* The task's async function returns, and p.finally takes p out of inFlight.
finishTask(f) ==
  /\ pc' = [pc EXCEPT ![f] = "done"]
  /\ inFlight' = inFlight \ {f}

Init ==
  /\ url \in {"https", "loopback", "plaintext", "invalid"}
  /\ signal \in {"absent", "armed", "aborted"}
  /\ promise = "unstarted"
  /\ stdin = "open"
  /\ seen = {}
  /\ pc = [f \in Frames |-> "unread"]
  /\ outcome = [f \in Frames |-> "none"]
  /\ reply = [f \in Frames |-> <<>>]
  /\ inFlight = {}
  /\ drains = {}
  /\ stdout = <<>>
  /\ late = {}
  /\ owed = {}

(* runStdioBridge up to transport.start(): the guards on the options, the    *)
(* early return when the signal has already aborted, and start() itself,     *)
(* which may fail and then settles with the error.                           *)
runStdioBridge ==
  /\ promise = "unstarted"
  /\ \/ url \in {"plaintext", "invalid"} /\ promise' = "rejected"
     \/ /\ url \in {"https", "loopback"}
        /\ promise' \in IF signal = "aborted" THEN {"resolved"}
                        ELSE {"pending", "rejected"}
  /\ UNCHANGED <<url, signal, stdin, seen, taskVars, drains, stdout, late, owed>>

\* Mutant: the task is not added to inFlight.
onmessage_Untracked(f) ==
  /\ Running /\ stdin = "open" /\ pc[f] = "unread"
  /\ pc' = [pc EXCEPT ![f] = "fetching"]
  /\ owed' = IF StopRequested THEN owed ELSE owed \cup {f}
  /\ UNCHANGED <<url, signal, promise, stdin, seen, outcome, reply, inFlight,
                 drains, stdout, late>>

(* transport.onmessage: start a task; it calls fetch before it first awaits. *)
onmessage(f) ==
  /\ Running /\ stdin = "open" /\ pc[f] = "unread"
  /\ pc' = [pc EXCEPT ![f] = "fetching"]
  /\ inFlight' = inFlight \cup {f}
  /\ owed' = IF StopRequested THEN owed ELSE owed \cup {f}
  /\ UNCHANGED <<url, signal, promise, stdin, seen, outcome, reply, drains,
                 stdout, late>>

(* transport.onerror: an answer with id null, whatever the line was.         *)
onerror(b) ==
  /\ Running /\ stdin = "open" /\ b \in BadLines \ seen
  /\ seen' = seen \cup {b}
  /\ stdout' = Append(stdout, Message(b, NoId, "error"))
  /\ UNCHANGED <<url, signal, promise, stdin, taskVars, drains, late, owed>>

------------------------------------------------------------------------------
(* forwardFrame.  Each way to a reply, or to none.                           *)

\* The task goes on with the messages ms to write.
Reply(f, what, ms) ==
  /\ outcome' = [outcome EXCEPT ![f] = what]
  /\ reply' = [reply EXCEPT ![f] = ms]
  /\ pc' = [pc EXCEPT ![f] = "writing"]
  /\ UNCHANGED inFlight

\* forwardFrame returns undefined or throws: the task ends and writes nothing.
NoReply(f, what) ==
  /\ outcome' = [outcome EXCEPT ![f] = what]
  /\ UNCHANGED reply
  /\ finishTask(f)

\* Mutant: a rejected fetch is not caught in forwardFrame.
FetchSettles_Uncaught(f) ==
  /\ pc[f] = "fetching"
  /\ \/ NoReply(f, "fetch failed")
     \/ NoReply(f, "ack")
     \/ pc' = [pc EXCEPT ![f] = "reading"] /\ UNCHANGED <<outcome, reply, inFlight>>
  /\ UNCHANGED <<url, signal, promise, stdin, seen, drains, stdout, late, owed>>

\* fetch rejects (network error, or the 30 s signal), answers 204, or yields
\* any other response, whose body is then read.
FetchSettles(f) ==
  /\ pc[f] = "fetching"
  /\ \/ Reply(f, "fetch failed", <<errorEnvelope(f)>>)
     \/ NoReply(f, "ack")
     \/ pc' = [pc EXCEPT ![f] = "reading"] /\ UNCHANGED <<outcome, reply, inFlight>>
  /\ UNCHANGED <<url, signal, promise, stdin, seen, drains, stdout, late, owed>>

\* res.text() rejects (reset, or the same 30 s signal): it is outside the try
\* of forwardFrame, so the task's own catch logs it.  Otherwise the body is
\* empty or "null", an envelope or a batch, or anything else.
BodySettles(f) ==
  /\ pc[f] = "reading"
  /\ \/ NoReply(f, "body failed")
     \/ NoReply(f, "ack")
     \/ \E ms \in GatewayEnvelopes(f) : Reply(f, "envelope", ms)
     \/ Reply(f, "bad body", <<errorEnvelope(f)>>)
  /\ UNCHANGED <<url, signal, promise, stdin, seen, drains, stdout, late, owed>>

\* Mutant: the loop over a batch writes its first element every time.
Send_First(f) ==
  /\ pc[f] = "writing" /\ reply[f] # <<>>
  /\ IF Running
     THEN stdout' = Append(stdout, Head(reply[f])) /\ UNCHANGED late
     ELSE late' = late \cup {f} /\ UNCHANGED stdout
  /\ reply' = [reply EXCEPT ![f] = IF Tail(@) # <<>> THEN <<Head(@)>> ELSE Tail(@)]
  /\ IF Tail(reply[f]) = <<>> THEN finishTask(f) ELSE UNCHANGED <<pc, inFlight>>
  /\ UNCHANGED <<url, signal, promise, stdin, seen, outcome, drains, owed>>

\* One `await transport.send(m)`; after the last one the task finishes.
Send(f) ==
  /\ pc[f] = "writing" /\ reply[f] # <<>>
  /\ IF Running
     THEN stdout' = Append(stdout, Head(reply[f])) /\ UNCHANGED late
     ELSE late' = late \cup {f} /\ UNCHANGED stdout
  /\ reply' = [reply EXCEPT ![f] = Tail(@)]
  /\ IF Tail(reply[f]) = <<>> THEN finishTask(f) ELSE UNCHANGED <<pc, inFlight>>
  /\ UNCHANGED <<url, signal, promise, stdin, seen, outcome, drains, owed>>

------------------------------------------------------------------------------
(* Stopping.                                                                 *)

\* Mutant: nobody listens to 'end' (the SDK does not).
StdinEnds_Unobserved ==
  /\ promise # "unstarted" /\ stdin = "open"
  /\ stdin' = "ended"
  /\ UNCHANGED <<url, signal, promise, seen, taskVars, drains, stdout, late, owed>>

\* stdin 'end', once, when the local client closes the pipe.
StdinEnds ==
  /\ promise # "unstarted" /\ stdin = "open"
  /\ stdin' = "ended"
  /\ drainAndSettle
  /\ UNCHANGED <<url, signal, seen, taskVars, stdout, late, owed>>

\* stdin 'close', once: after 'end', or alone when the stream is destroyed.
StdinCloses ==
  /\ promise # "unstarted" /\ stdin # "closed"
  /\ stdin' = "closed"
  /\ drainAndSettle
  /\ UNCHANGED <<url, signal, seen, taskVars, stdout, late, owed>>

\* opts.signal fires.
Abort ==
  /\ promise # "unstarted" /\ signal = "armed"
  /\ signal' = "aborted"
  /\ drainAndSettle
  /\ UNCHANGED <<url, stdin, seen, taskVars, stdout, late, owed>>

\* Mutant: Promise.race in place of Promise.allSettled.
Drained_Race ==
  /\ Running
  /\ \E pending \in drains : \E f \in pending : pc[f] = "done"
  /\ settle("resolved")
  /\ UNCHANGED <<url, signal, stdin, seen, taskVars, drains, stdout, late, owed>>

\* Promise.allSettled(pending).then(() => settle(err)).
Drained ==
  /\ Running
  /\ \E pending \in drains : \A f \in pending : pc[f] = "done"
  /\ settle("resolved")
  /\ UNCHANGED <<url, signal, stdin, seen, taskVars, drains, stdout, late, owed>>

Task(f) == FetchSettles(f) \/ BodySettles(f) \/ Send(f)

Next ==
  \/ runStdioBridge
  \/ \E f \in Frames : onmessage(f) \/ Task(f)
  \/ \E b \in BadLines : onerror(b)
  \/ StdinEnds \/ StdinCloses \/ Abort
  \/ Drained

(* Every fetch and every body read ends within BRIDGE_FETCH_TIMEOUT_MS, a    *)
(* task that can run runs, and the local client keeps reading stdout.  What  *)
(* the client sends and when it closes the pipe is its own affair.           *)
Fairness ==
  /\ WF_vars(runStdioBridge)
  /\ \A f \in Frames : WF_vars(Task(f))
  /\ WF_vars(Drained)

Spec == Init /\ [][Next]_vars
FairSpec == Spec /\ Fairness

------------------------------------------------------------------------------
(* Properties.                                                               *)

Outcomes == {"none", "fetch failed", "ack", "body failed", "envelope", "bad body"}
Messages == [from : Frames \cup BadLines, id : Frames \cup {NoId},
             kind : {"result", "error", "note"}]

\* The types of the variables.
TypeOK ==
  /\ url \in {"https", "loopback", "plaintext", "invalid"}
  /\ signal \in {"absent", "armed", "aborted"}
  /\ promise \in {"unstarted", "pending", "resolved", "rejected"}
  /\ stdin \in {"open", "ended", "closed"}
  /\ seen \subseteq BadLines
  /\ pc \in [Frames -> {"unread", "fetching", "reading", "writing", "done"}]
  /\ outcome \in [Frames -> Outcomes]
  /\ reply \in [Frames -> Seq(Messages)]
  /\ inFlight \subseteq Frames
  /\ drains \subseteq SUBSET Frames
  /\ stdout \in Seq(Messages)
  /\ late \subseteq Frames
  /\ owed \subseteq Frames

IsAnswer(m) == m.kind # "note"

Answered(f) == \E i \in DOMAIN stdout : stdout[i].from = f /\ IsAnswer(stdout[i])

\* However tasks interleave, a line read from stdin gets at most one answer.
AtMostOneAnswer ==
  \A i, j \in DOMAIN stdout :
    /\ stdout[i].from = stdout[j].from
    /\ IsAnswer(stdout[i]) /\ IsAnswer(stdout[j])
    => i = j

\* The transport closes only when every frame read before the stop request has
\* been through its whole exchange: draining waits for the tasks of all of
\* them, also when 'end' and 'close' each take a snapshot of their own.
DrainsBeforeClosing ==
  promise = "resolved" => \A f \in owed : pc[f] = "done"

\* A reply is sent to the closed transport only by a frame that arrived after
\* the abort that closed it; on the way through stdin EOF no reply is lost.
OnlyBestEffortFramesAreLate ==
  /\ late \cap owed = {}
  /\ late # {} => signal = "aborted"

\* A bad line, a failed exchange or a finished task never stops the bridge: a
\* running bridge stops only on stdin EOF or abort.
StopsOnlyOnRequest == [][Running /\ ~Running' => StopRequested']_vars

\* No request is forgotten: when its task is done it has been answered, or its answer
\* met the closed transport, or there was nothing to answer with.
NoAnswerIsDropped ==
  \A f \in Requests :
    pc[f] = "done" => \/ Answered(f) \/ f \in late
                      \/ outcome[f] \in {"ack", "body failed"}

\* A bridge that is asked to stop waits, if it has not stopped: for tasks only that
\* were started and that have something left to do or are done.
StopIsUnderWay ==
  /\ Running /\ StopRequested => drains # {}
  /\ \A pending \in drains : \A f \in pending :
       pc[f] # "unread" /\ (pc[f] = "writing" => reply[f] # <<>>)

\* Every request read is answered, unless the gateway acknowledged it without a
\* body, reading its body failed, or the abort closed the transport first.
RequestsAreAnswered ==
  \A f \in Requests :
    pc[f] # "unread" ~> \/ Answered(f) \/ f \in late
                        \/ outcome[f] \in {"ack", "body failed"}

\* Once asked to stop, a running bridge resolves its promise.
StopCompletes == (Running /\ StopRequested) ~> promise = "resolved"

(* The inductive strengthenings (proved in BridgeProofs).                    *)

Active == {f \in Frames : pc[f] \in {"fetching", "reading", "writing"}}
NotDone == {f \in Frames : pc[f] # "done"}

\* Why draining is enough: inFlight is exactly the set of active tasks, so each
\* snapshot holds every owed frame that is not done, and without an abort every
\* frame read is owed.
DrainInv ==
  /\ inFlight = Active
  /\ \A f \in owed : pc[f] # "unread"
  /\ \A pending \in drains : owed \cap NotDone \subseteq pending
  /\ drains # {} => StopRequested
  /\ promise = "unstarted" => stdin = "open"
  /\ promise \in {"unstarted", "rejected"} => \A f \in Frames : pc[f] = "unread"
  /\ promise # "resolved" => late = {}
  /\ DrainsBeforeClosing
  /\ OnlyBestEffortFramesAreLate
  /\ signal # "aborted" => \A f \in Frames : pc[f] # "unread" => f \in owed

\* Where the answer to a line is: not there yet, among the messages its task
\* has left to write, or on stdout.
AnswerInv ==
  /\ \A f \in Frames :
       /\ pc[f] # "writing" => reply[f] = <<>>
       /\ \A i \in DOMAIN reply[f] : reply[f][i].from = f
       /\ \A i, j \in DOMAIN reply[f] :
            IsAnswer(reply[f][i]) /\ IsAnswer(reply[f][j]) => i = j
       /\ Answered(f) => /\ pc[f] \in {"writing", "done"}
                         /\ \A i \in DOMAIN reply[f] : ~IsAnswer(reply[f][i])
  /\ \A b \in BadLines : Answered(b) => b \in seen
  /\ AtMostOneAnswer

\* A task that writes has something to write; an answer that is not on stdout yet is
\* part of it.
PendingInv ==
  /\ \A f \in Frames : pc[f] = "writing" => reply[f] # <<>>
  /\ \A f \in Requests : pc[f] \in {"writing", "done"} =>
       \/ Answered(f) \/ f \in late
       \/ outcome[f] \in {"ack", "body failed"}
       \/ \E i \in DOMAIN reply[f] : IsAnswer(reply[f][i])
  /\ StopIsUnderWay

(* The bridge implements the forwarder.                                      *)
Abstract == INSTANCE Forwarder WITH
  accepted <- {f \in Frames : pc[f] # "unread"},
  owed     <- owed,
  finished <- {f \in Frames : pc[f] = "done"},
  answered <- {f \in Frames : Answered(f)},
  stopping <- promise # "unstarted" /\ (StopRequested \/ promise = "rejected"),
  closed   <- promise \in {"resolved", "rejected"}

ImplementsForwarder == Abstract!Spec

(* A statement of the documentation that the code does not keep.             *)

\* bridge.ts:31: a network failure or timeout reaching the gateway is
\* answered with -32603.
NetworkFailuresAreAnswered ==
  \A f \in Requests :
    /\ outcome[f] \in {"fetch failed", "body failed"}
    /\ pc[f] = "done" /\ f \notin late
    => Answered(f)
==============================================================================
