------------------------------ MODULE Forwarder ------------------------------
(***************************************************************************)
(* What the stdio bridge promises its local MCP client, without a word on  *)
(* how: it accepts frames, gives each request at most one answer, and      *)
(* closes only after every frame that it owes an answer to is finished.    *)
(* A frame is owed when it was accepted before a stop was requested; later *)
(* ones are best effort.  Bridge implements this module (Bridge!Abstract). *)
(***************************************************************************)
CONSTANT Frames

VARIABLES
  accepted,  \* frames taken over from the client
  owed,      \* those accepted before a stop was requested
  finished,  \* accepted frames the forwarder is through with
  answered,  \* frames whose answer the client was given
  stopping,  \* a stop has been requested
  closed     \* the channel to the client is closed

vars == <<accepted, owed, finished, answered, stopping, closed>>

Init ==
  /\ accepted = {} /\ owed = {} /\ finished = {} /\ answered = {}
  /\ stopping = FALSE /\ closed = FALSE

Accept(f) ==
  /\ ~closed /\ f \notin accepted
  /\ accepted' = accepted \cup {f}
  /\ owed' = IF stopping THEN owed ELSE owed \cup {f}
  /\ UNCHANGED <<finished, answered, stopping, closed>>

\* An answer is given once, on an open channel, to an unfinished frame; the
\* frame may be finished by the same step.
Answer(f) ==
  /\ ~closed /\ f \in accepted \ (finished \cup answered)
  /\ answered' = answered \cup {f}
  /\ finished' \in {finished, finished \cup {f}}
  /\ UNCHANGED <<accepted, owed, stopping, closed>>

\* A frame may be finished with no answer (or with its answer lost).
Finish(f) ==
  /\ f \in accepted \ finished
  /\ finished' = finished \cup {f}
  /\ UNCHANGED <<accepted, owed, answered, stopping, closed>>

RequestStop ==
  /\ ~stopping
  /\ stopping' = TRUE
  /\ closed' \in {closed, owed \subseteq finished}
  /\ UNCHANGED <<accepted, owed, finished, answered>>

Close ==
  /\ stopping /\ ~closed /\ owed \subseteq finished
  /\ closed' = TRUE
  /\ UNCHANGED <<accepted, owed, finished, answered, stopping>>

Next ==
  \/ \E f \in Frames : Accept(f) \/ Answer(f) \/ Finish(f)
  \/ RequestStop
  \/ Close

Spec == Init /\ [][Next]_vars
==============================================================================
