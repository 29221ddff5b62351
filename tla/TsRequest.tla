------------------------------ MODULE TsRequest ------------------------------
(***************************************************************************)
(* ts/src/client.ts: one call of a public method, down to request and      *)
(* readBodyCapped and back.  Four parties race: the gateway, the timeout   *)
(* timer, the caller's AbortSignal and the call itself.                    *)
(*                                                                         *)
(* JavaScript runs to completion between awaits.  A rejected await is      *)
(* continued in the microtask queue: before its catch block runs, no timer *)
(* and no socket event can, but other microtasks can abort the caller's    *)
(* signal.  The gateway, the network and fetch are external.               *)
(***************************************************************************)
EXTENDS Call

\* validate...Shape of each method: the minimum field set of a 2xx body.
\* A summary is text/html and never validated.
WellShaped(m, b) == m = "getCertificateSummary" \/ b = "valid"


\* The method's code after request returned a 2xx response.
afterRequest(m, s, b) ==
  IF s = "accepted" /\ m \in {"getCertificate", "getCertificateSummary"}
  THEN "http" ELSE IF WellShaped(m, b) THEN "value" ELSE "validation"

\* Mutant: the timer is left to the garbage collector.
clearTimeout_Forgotten == UNCHANGED timer

\* finally { clearTimeout(timer) }.
clearTimeout == timer' = IF timer = "armed" THEN "cleared" ELSE timer

(* The synchronous part of request: the timeout is validated, then an       *)
(* aborted signal is refused, then the timer is set and the caller's headers *)
(* go through `new Headers`, which throws a TypeError for an invalid one     *)
(* outside the try, and fetch is called.                                     *)
request ==
  /\ pc = "idle"
  /\ \/ settle("config") /\ UNCHANGED timer
     \/ caller = "aborted" /\ settle("caller") /\ UNCHANGED timer
     \/ /\ caller # "aborted"
        /\ timer' = "armed"
        /\ \/ pc' = "fetching" /\ UNCHANGED outcome
           \/ settle("TypeError")
  /\ UNCHANGED <<method, caller, cause, status, bodyVars, err, clock>>

------------------------------------------------------------------------------
(* The gateway and the network.                                              *)

\* Mutant: the timer guards the headers only.
ResponseArrives_StopsTimer(s) ==
  /\ pc = "fetching"
  /\ status' = s
  /\ pc' = "reading"
  /\ clearTimeout
  /\ UNCHANGED <<method, caller, cause, bodyVars, err, outcome, clock>>

ResponseArrives(s) ==
  /\ pc = "fetching"
  /\ status' = s
  /\ pc' = "reading"
  /\ UNCHANGED <<method, caller, timer, cause, bodyVars, err, outcome, clock>>

\* The connection breaks, before the response or inside its body.
TransportFails ==
  /\ pc \in {"fetching", "reading"}
  /\ err' = "network"
  /\ pc' = "rejected"
  /\ UNCHANGED <<method, caller, timer, cause, status, bodyVars, outcome, clock>>

\* Mutant: a chunk that fills the rest of the budget exactly counts as over.
ChunkArrives_OffByOne(n) ==
  /\ pc = "reading"
  /\ sent' = sent + n
  /\ LET budget == Cap - accumulated IN
     IF n >= budget
     THEN /\ accumulated' = accumulated + budget
          /\ settle(IF status = "failed" THEN "http" ELSE "validation")
          /\ clearTimeout
     ELSE /\ accumulated' = accumulated + n
          /\ UNCHANGED <<pc, outcome, timer>>
  /\ UNCHANGED <<method, caller, cause, status, ended, err, clock>>

(* One round of the loop of readBodyCapped.  A chunk beyond the budget ends  *)
(* it, keeps the prefix that fits, and request throws.                       *)
ChunkArrives(n) ==
  /\ pc = "reading"
  /\ sent' = sent + n
  /\ LET budget == Cap - accumulated IN
     IF n > budget
     THEN /\ accumulated' = accumulated + budget
          /\ settle(IF status = "failed" THEN "http" ELSE "validation")
          /\ clearTimeout
     ELSE /\ accumulated' = accumulated + n
          /\ UNCHANGED <<pc, outcome, timer>>
  /\ UNCHANGED <<method, caller, cause, status, ended, err, clock>>

\* The body is complete: not 2xx throws, 2xx goes back to the method.
BodyEnds(b) ==
  /\ pc = "reading"
  /\ ended' = b
  /\ settle(IF status = "failed" THEN "http" ELSE afterRequest(method, status, b))
  /\ clearTimeout
  /\ UNCHANGED <<method, caller, cause, status, accumulated, sent, err, clock>>

------------------------------------------------------------------------------
(* The two sources of an abort.  AbortSignal.any takes the reason of the     *)
(* first; a pending fetch or read rejects with it.                           *)

aborted(who) ==
  /\ cause' = IF cause = "none" THEN who ELSE cause
  /\ IF pc \in {"fetching", "reading"}
     THEN pc' = "rejected" /\ err' = who
     ELSE UNCHANGED <<pc, err>>

\* The timer runs as a task of its own: never between a rejection and its
\* catch block.
TimerFires ==
  /\ timer = "armed" /\ pc # "rejected"
  /\ timer' = "fired"
  /\ IF pc = "settled" THEN UNCHANGED <<cause, pc, err>> ELSE aborted("timeout")
  /\ UNCHANGED <<method, caller, status, bodyVars, outcome, clock>>

CallerAborts ==
  /\ caller = "quiet" /\ pc \in {"fetching", "reading", "rejected"}
  /\ caller' = "aborted"
  /\ aborted("caller")
  /\ UNCHANGED <<method, timer, status, bodyVars, outcome, clock>>

\* Mutant: blame whoever is aborted by the time of the catch.
Catch_ByState ==
  /\ pc = "rejected"
  /\ settle(IF caller = "aborted" THEN "caller"
            ELSE IF cause # "none" THEN "timeout" ELSE "network")
  /\ clearTimeout
  /\ UNCHANGED <<method, caller, cause, status, bodyVars, err, clock>>

(* The catch and finally blocks of request.  The composed reason, locked to  *)
(* the first abort, decides; with no abort it is a plain LucairnError.       *)
Catch ==
  /\ pc = "rejected"
  /\ settle(IF cause = "none" THEN "network" ELSE cause)
  /\ clearTimeout
  /\ UNCHANGED <<method, caller, cause, status, bodyVars, err, clock>>

Gateway ==
  \/ \E s \in Statuses : ResponseArrives(s)
  \/ \E n \in ChunkSizes : ChunkArrives(n)
  \/ \E b \in Bodies : BodyEnds(b)
  \/ TransportFails

Next == request \/ Gateway \/ TimerFires \/ CallerAborts \/ Catch

(* The runtime runs what it has queued and fires the timers it has set.      *)
(* Nothing is assumed of the gateway, nor of the caller.                     *)
Fairness == WF_callVars(request) /\ WF_callVars(Catch) /\ WF_callVars(TimerFires)
==============================================================================
