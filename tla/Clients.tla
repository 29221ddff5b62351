------------------------------- MODULE Clients -------------------------------
(***************************************************************************)
(* The clients of the three SDKs and the tool of the MCP server side by    *)
(* side: a call of one of them, and the promises they share.               *)
(***************************************************************************)
EXTENDS Call

VARIABLE sdk

vars == <<callVars, sdk>>

Ts == INSTANCE TsRequest
Go == INSTANCE GoRequest
Py == INSTANCE PyRequest
Tool == INSTANCE ToolRequest

Sdks == {"ts", "go", "py", "tool"}

\* The one tool of the MCP server is no method of an SDK.
Offers(s, m) == (s = "tool") <=> (m = "chat_via_lucairn")

ClientsInit ==
  /\ Init
  /\ sdk \in Sdks /\ Offers(sdk, method)
  /\ sdk \in {"py", "tool"} => caller = "none"

Next ==
  /\ \/ sdk = "ts" /\ Ts!Next
     \/ sdk = "go" /\ Go!Next
     \/ sdk = "py" /\ Py!Next
     \/ sdk = "tool" /\ Tool!ToolNext
  /\ UNCHANGED sdk

Spec == ClientsInit /\ [][Next]_vars
FairSpec ==
  /\ Spec
  /\ sdk = "ts" => Ts!Fairness
  /\ sdk = "go" => Go!Fairness
  /\ sdk = "py" => Py!Fairness
  /\ sdk = "tool" => Tool!ToolFairness

------------------------------------------------------------------------------
(* Properties.                                                               *)

\* The types of the variables.
TypeOK ==
  /\ sdk \in Sdks /\ Offers(sdk, method)
  /\ method \in Methods
  /\ caller \in {"none", "quiet", "aborted"}
  /\ timer \in {"unset", "armed", "fired", "cleared"}
  /\ cause \in {"none", "caller", "timeout"}
  /\ pc \in {"idle", "connecting", "fetching", "reading", "rejected", "settled"}
  /\ status \in Statuses \cup {"none"}
  /\ accumulated \in 0 .. Cap + 1 /\ sent \in Nat
  /\ ended \in Bodies \cup {"no"}
  /\ err \in {"none", "network", "caller", "timeout"}
  /\ outcome \in Outcomes \cup {"none"}
  /\ gap \in 0 .. Timeout /\ elapsed \in 0 .. Timeout + 1

\* The cap is exact however the body is cut into chunks: the client never holds
\* more than Cap bytes (Cap + 1 in Go, to see that there is one more), a body of
\* up to Cap bytes is judged whole, and a longer one fails as its status says
\* without waiting for its end.  (The MCP tool has no cap and counts nothing.)
CapIsExact ==
  /\ accumulated <= IF sdk = "go" THEN Cap + 1 ELSE Cap
  /\ Settled /\ sent > Cap =>
       outcome = IF status = "failed" THEN "http" ELSE "validation"
  /\ outcome \in {"http", "validation", "value"} /\ sent <= Cap =>
       ended # "no" /\ accumulated = sent

\* The first abort of a call gets the blame, also when the other party aborts
\* before the error is looked at, and nobody is blamed without having aborted.
\* In Go a call may still succeed after an abort, and only an error of Do is
\* ever a TimeoutError; in the MCP server only one of fetch is ever a timeout or a
\* network error, and an internal error has one of two reasons: the body did not
\* arrive, or it is no object with an array of blocks.
BlamesTheFirstAbort ==
  Settled =>
    /\ outcome = "timeout" => cause = "timeout"
    /\ outcome = "caller" => cause = "caller" \/ (sdk = "ts" /\ timer = "unset")
    /\ outcome = "network" => err = "network" \/ (sdk = "go" /\ status # "none")
    /\ cause = "timeout" /\ err = "timeout" /\ (sdk \in {"go", "tool"} => status = "none") =>
         outcome = "timeout"
    /\ cause = "caller" /\ err = "caller" => outcome = "caller"
    /\ outcome = "internal" =>
         /\ sdk = "tool" /\ status # "none"
         /\ err # "none" \/ (status = "ok" /\ ended = "lacking")

\* The complete bodies that a method makes a value of: a summary is returned as the text
\* it is, whatever that says; Go's ListAuditEvents takes an export that lacks its fields
\* (the README says otherwise, see GoRejectsLackingBodies); all others have the fields
\* that their type requires.
BodiesOf(s, m) ==
  CASE m = "getCertificateSummary" -> Bodies
    [] s = "go" /\ m = "listAuditEvents" -> {"valid", "lacking"}
    [] OTHER -> {"valid"}

\* A method returns a value for a complete 2xx body of those that are its own, never
\* before the end of the body and for no other one, and it refuses none of its own.  A
\* pending certificate, summary or tool call (202) is an error.
ReturnsOnlyWhatItPromises ==
  /\ ended = "no" => outcome # "value"
  /\ ended # "no" =>
       (outcome = "value" <=>
          /\ \/ status = "ok"
             \/ status = "accepted" /\ method \in {"messages", "listAuditEvents"}
          /\ ended \in BodiesOf(sdk, method))

\* No timer outlives its call, except after the TypeError of an invalid header,
\* which the TypeScript client throws between setTimeout and its try, and the
\* AbortSignal.timeout of the MCP server, which is left to expire.
NoTimerOutlivesTheCall ==
  Settled /\ outcome # "TypeError" /\ sdk # "tool" => timer # "armed"

\* A call never waits for the gateway alone: until it has all of the body its timer runs,
\* and in Go, where Do and Read return some time after an abort, or its context is done
\* already.  (In Python each wait is timed by itself.)
NoWaitIsUntimed ==
  pc \in {"fetching", "reading"} /\ sdk # "py" =>
    timer = "armed" \/ (sdk = "go" /\ cause # "none")

\* Every call ends, also when the gateway stalls before or inside the body; in
\* Python, where every chunk restarts the clock, because the cap ends it.
CallEnds == pc # "idle" ~> Settled

\* How many steps a call can still take: the operations it may go through, each with
\* the whole timeout to wait, bytes up to the cap, its timer and the caller's abort.
Ahead ==
  CASE pc = "idle" -> 5 [] pc = "connecting" -> 4 [] pc = "fetching" -> 3
    [] pc = "reading" -> 2 [] pc = "rejected" -> 1 [] OTHER -> 0
TimerAhead == CASE timer = "unset" -> 2 [] timer = "armed" -> 1 [] OTHER -> 0
StepsLeft ==
  (Ahead + (Cap + 1 - accumulated)) * (Timeout + 1) + (Timeout - gap)
    + TimerAhead + (IF caller = "quiet" THEN 1 ELSE 0)

\* No call goes on forever, whatever the gateway sends and whoever aborts: no chunk,
\* timeout or failure takes it back to where it has been, so that it ends within a
\* number of steps (and of ticks, in Python) that cap and timeout give.
NoStepIsRepeated == [][StepsLeft' < StepsLeft]_vars

(* The inductive strengthening (proved in ClientsProofs): what is known of a *)
(* call before it settles.                                                   *)

\* While a body is read the client holds all of it, and it is within the cap.
ReadInv ==
  /\ pc \in {"reading", "rejected"} => accumulated = sent /\ sent <= Cap
  /\ pc \in {"idle", "connecting", "fetching"} =>
       sent = 0 /\ accumulated = 0 /\ status = "none"
  /\ pc = "reading" => status # "none"
  /\ pc # "settled" => outcome = "none" /\ ended = "no"

\* What failed agrees with the first abort.  In TypeScript and in the tool an abort rejects the
\* pending operation in the same step, so a call that waits has seen none.
AbortInv ==
  /\ pc \in {"idle", "connecting", "fetching", "reading"} => err = "none"
  /\ pc = "rejected" => err # "none" /\ sdk # "py"
  /\ sdk = "tool" => err # "caller" /\ caller = "none"
  /\ err \in {"caller", "timeout"} => cause = err
  /\ pc = "connecting" => sdk = "py"
  /\ pc = "idle" => timer = "unset" /\ cause = "none"
  /\ sdk \in {"ts", "tool"} =>
       /\ pc \in {"fetching", "reading"} => cause = "none"
       /\ pc = "rejected" /\ err = "network" => cause # "timeout"
       /\ timer = "unset" => cause = "none" /\ pc \in {"idle", "settled"}
  /\ sdk = "py" => timer = "unset"

IInv == TypeOK /\ ReadInv /\ AbortInv /\ CapIsExact /\ BlamesTheFirstAbort
          /\ ReturnsOnlyWhatItPromises /\ NoTimerOutlivesTheCall /\ NoWaitIsUntimed

(* Statements of the documentation that the code does not keep.              *)

\* go/README.md:662: a request that exceeds its timeout is a TimeoutError.
GoTimeoutsAreTimeoutErrors ==
  Settled /\ sdk = "go" /\ err = "timeout" => outcome = "timeout"

\* go/README.md:696-704: a 2xx body that cannot be decoded is a ResponseValidationError,
\* "uniformly across GetCertificate, Messages, ListAuditEvents, and any other 2xx-decode
\* path", and so is an object whose required fields are missing.  (A summary is not
\* decoded.)
GoRejectsLackingBodies ==
  outcome = "value" /\ sdk = "go" /\ method # "getCertificateSummary" => ended = "valid"

\* python/src/lucairn/errors.py:66: LucairnTimeoutError is raised when a request
\* exceeds its timeout.
PyTimeoutBoundsTheCall ==
  Settled /\ sdk = "py" /\ elapsed > Timeout => outcome = "timeout"
==============================================================================
