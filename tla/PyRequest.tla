------------------------------ MODULE PyRequest ------------------------------
(***************************************************************************)
(* python/src/lucairn/client.py: one call of a public method, down to      *)
(* _request and back.  The client is synchronous and has no cancel.  Its   *)
(* only limit is httpx.Timeout(timeout_s), which bounds each network       *)
(* operation by itself: connecting, waiting for the response, and each     *)
(* wait for more body.  Time is counted in ticks: gap is how long the      *)
(* operation at hand has waited, elapsed how long the call has taken.      *)
(***************************************************************************)
EXTENDS Call

\* The Pydantic models.  A summary is the raw text.
WellShaped(m, b) == m = "getCertificateSummary" \/ b = "valid"

afterRequest(m, s, b) ==
  IF s = "accepted" /\ m \in {"getCertificate", "getCertificateSummary"}
  THEN "http" ELSE IF WellShaped(m, b) THEN "value" ELSE "validation"

\* The timeout and the headers are validated, then httpx connects.
_request ==
  /\ pc = "idle"
  /\ \/ settle("config")
     \/ pc' = "connecting" /\ UNCHANGED outcome
  /\ UNCHANGED <<method, caller, timer, cause, status, bodyVars, err, clock>>

------------------------------------------------------------------------------
Waiting == pc \in {"connecting", "fetching", "reading"}

\* One operation ends and the next one starts with the whole timeout.
Progress == gap' = 0 /\ UNCHANGED elapsed

Connects ==
  /\ pc = "connecting"
  /\ pc' = "fetching"
  /\ Progress
  /\ UNCHANGED <<method, caller, timer, cause, status, bodyVars, err, outcome>>

ResponseArrives(s) ==
  /\ pc = "fetching"
  /\ status' = s
  /\ pc' = "reading"
  /\ Progress
  /\ UNCHANGED <<method, caller, timer, cause, bodyVars, err, outcome>>

\* An httpx.HTTPError becomes a LucairnError.
TransportFails ==
  /\ Waiting
  /\ err' = "network"
  /\ settle("network")
  /\ UNCHANGED <<method, caller, timer, cause, status, bodyVars, clock>>

(* One round of the loop over response.iter_bytes().                         *)
ChunkArrives(n) ==
  /\ pc = "reading"
  /\ sent' = sent + n
  /\ Progress
  /\ LET budget == Cap - accumulated IN
     IF n > budget
     THEN /\ accumulated' = accumulated + budget
          /\ settle(IF status = "failed" THEN "http" ELSE "validation")
     ELSE /\ accumulated' = accumulated + n
          /\ UNCHANGED <<pc, outcome>>
  /\ UNCHANGED <<method, caller, timer, cause, status, ended, err>>

BodyEnds(b) ==
  /\ pc = "reading"
  /\ ended' = b
  /\ settle(IF status = "failed" THEN "http" ELSE afterRequest(method, status, b))
  /\ UNCHANGED <<method, caller, timer, cause, status, accumulated, sent, err,
                 clock>>

------------------------------------------------------------------------------
Tick ==
  /\ Waiting /\ gap < Timeout
  /\ gap' = gap + 1
  /\ elapsed' = IF elapsed > Timeout THEN elapsed ELSE elapsed + 1
  /\ UNCHANGED <<method, caller, timer, cause, pc, status, bodyVars, err, outcome>>

\* An httpx.TimeoutException becomes a LucairnTimeoutError.
OperationTimesOut ==
  /\ Waiting /\ gap = Timeout
  /\ cause' = "timeout" /\ err' = "timeout"
  /\ settle("timeout")
  /\ UNCHANGED <<method, caller, timer, status, bodyVars, clock>>

Gateway ==
  \/ Connects
  \/ \E s \in Statuses : ResponseArrives(s)
  \/ \E n \in ChunkSizes : ChunkArrives(n)
  \/ \E b \in Bodies : BodyEnds(b)
  \/ TransportFails

Next == _request \/ Gateway \/ Tick \/ OperationTimesOut

\* Time passes, and httpx raises when an operation has waited long enough.
Fairness ==
  /\ WF_callVars(_request) /\ WF_callVars(Tick) /\ WF_callVars(OperationTimesOut)
==============================================================================
