------------------------------ MODULE GoRequest ------------------------------
(***************************************************************************)
(* go/lucairn.go: one call of a public method, down to doBytes and back.   *)
(* The call's goroutine races with the gateway, with the timer of          *)
(* context.WithTimeout and with the caller's cancel or deadline, which     *)
(* counts as a timeout here.  Any of them may act between two statements.  *)
(* callCtx.Err() is cause: it is set once, by whoever comes first.         *)
(***************************************************************************)
EXTENDS Call

\* decodeInto and the validators.  A string never decodes into a struct.  The
\* audit export has no validator: json.Unmarshal leaves what a body lacks zero.
WellShaped(m, b) ==
  \/ m = "getCertificateSummary" \/ b = "valid"
  \/ m = "listAuditEvents" /\ b = "lacking"

\* What Messages, GetCertificate, GetCertificateSummary and ListAuditEvents do
\* with a 2xx response.
afterRequest(m, s, b) ==
  IF s = "accepted" /\ m \in {"getCertificate", "getCertificateSummary"}
  THEN "http" ELSE IF WellShaped(m, b) THEN "value" ELSE "validation"

\* defer cancel(): the timer of callCtx is released on every way out.
cancel == timer' = IF timer = "armed" THEN "cleared" ELSE timer

(* The arguments are checked (a ConfigError), then the timeout is layered on *)
(* the caller's context and Do is called.                                    *)
doBytes ==
  /\ pc = "idle"
  /\ \/ settle("config") /\ UNCHANGED <<timer, cause>>
     \/ /\ timer' = "armed"
        /\ cause' = IF caller = "aborted" THEN "caller" ELSE "none"
        /\ pc' = "fetching" /\ UNCHANGED outcome
  /\ UNCHANGED <<method, caller, status, bodyVars, err, clock>>

------------------------------------------------------------------------------
ResponseArrives(s) ==
  /\ pc = "fetching"
  /\ status' = s
  /\ pc' = "reading"
  /\ UNCHANGED <<method, caller, timer, cause, bodyVars, err, outcome, clock>>

\* Do or a Read of the body returns an error: the connection's own, or that of
\* callCtx once it is done.
OperationFails ==
  /\ pc \in {"fetching", "reading"}
  /\ err' \in {"network"} \cup ({cause} \ {"none"})
  /\ pc' = "rejected"
  /\ UNCHANGED <<method, caller, timer, cause, status, bodyVars, outcome, clock>>

(* One Read by io.ReadAll from the LimitReader, which lets Cap + 1 bytes     *)
(* through.  With the last of them the body is over the cap.                 *)
ChunkArrives(n) ==
  /\ pc = "reading"
  /\ sent' = sent + n
  /\ IF accumulated + n > Cap
     THEN /\ accumulated' = Cap + 1
          /\ settle(IF status = "failed" THEN "http" ELSE "validation")
          /\ cancel
     ELSE /\ accumulated' = accumulated + n
          /\ UNCHANGED <<pc, outcome, timer>>
  /\ UNCHANGED <<method, caller, cause, status, ended, err, clock>>

BodyEnds(b) ==
  /\ pc = "reading"
  /\ ended' = b
  /\ settle(IF status = "failed" THEN "http" ELSE afterRequest(method, status, b))
  /\ cancel
  /\ UNCHANGED <<method, caller, cause, status, accumulated, sent, err, clock>>

------------------------------------------------------------------------------
\* callCtx is done: its own timer, or the deadline of the caller's context.
DeadlinePasses ==
  /\ timer = "armed"
  /\ timer' = "fired"
  /\ cause' = IF cause = "none" THEN "timeout" ELSE cause
  /\ UNCHANGED <<method, caller, pc, status, bodyVars, err, outcome, clock>>

CallerCancels ==
  /\ caller = "quiet" /\ pc \in {"fetching", "reading", "rejected"}
  /\ caller' = "aborted"
  /\ cause' = IF cause = "none" THEN "caller" ELSE cause
  /\ UNCHANGED <<method, timer, pc, status, bodyVars, err, outcome, clock>>

(* The error branches.  Do's error is a TimeoutError when it or callCtx says *)
(* so by now; any other is a NetworkError, in which errors.Is finds          *)
(* context.Canceled if it is what failed ("caller").  An error while reading *)
(* the body is always a NetworkError.                                        *)
returnError ==
  /\ pc = "rejected"
  /\ settle(IF status = "none" /\ "timeout" \in {err, cause} THEN "timeout"
            ELSE IF err = "caller" THEN "caller" ELSE "network")
  /\ cancel
  /\ UNCHANGED <<method, caller, cause, status, bodyVars, err, clock>>

Gateway ==
  \/ \E s \in Statuses : ResponseArrives(s)
  \/ \E n \in ChunkSizes : ChunkArrives(n)
  \/ \E b \in Bodies : BodyEnds(b)
  \/ OperationFails

Next == doBytes \/ Gateway \/ DeadlinePasses \/ CallerCancels \/ returnError

\* The goroutine runs, the timer it armed fires, and an operation of a done
\* context returns.
Fairness ==
  /\ WF_callVars(doBytes) /\ WF_callVars(returnError)
  /\ WF_callVars(DeadlinePasses)
  /\ WF_callVars(cause # "none" /\ OperationFails)
==============================================================================
