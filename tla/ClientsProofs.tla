----------------------------- MODULE ClientsProofs -----------------------------
(***************************************************************************)
(* Proofs about Clients, for every cap, chunk size and timeout: what the   *)
(* run MCClients.cfg checks as invariants, and what a call needs to end.   *)
(* IInv is inductive; each SDK's step preserves it by a lemma of its own,  *)
(* one step per action.                                                    *)
(***************************************************************************)
EXTENDS Clients, TLAPS

\* A step of the TypeScript client preserves the invariant.
LEMMA TsStep ==
  ASSUME IInv, sdk = "ts", Ts!Next, UNCHANGED sdk
  PROVE  IInv'
<1> USE SizesAssumption DEF IInv, TypeOK, Sdks, Offers, ReadInv, AbortInv, CapIsExact,
      BlamesTheFirstAbort, ReturnsOnlyWhatItPromises, BodiesOf, NoTimerOutlivesTheCall,
      NoWaitIsUntimed,
      Methods, Statuses, Bodies, Outcomes, Settled, settle, bodyVars, clock,
      Ts!settle, Ts!Settled, Ts!bodyVars, Ts!clock, Ts!Statuses, Ts!Bodies
<1>1. CASE Ts!request
  BY <1>1 DEF Ts!request
<1>2. ASSUME NEW s \in Statuses, Ts!ResponseArrives(s)
      PROVE  IInv'
  BY <1>2 DEF Ts!ResponseArrives
<1>3. CASE Ts!TransportFails
  BY <1>3 DEF Ts!TransportFails
<1>4. ASSUME NEW n \in ChunkSizes, Ts!ChunkArrives(n)
      PROVE  IInv'
  BY <1>4 DEF Ts!ChunkArrives, Ts!clearTimeout
<1>5. ASSUME NEW b \in Bodies, Ts!BodyEnds(b)
      PROVE  IInv'
  BY <1>5 DEF Ts!BodyEnds, Ts!clearTimeout, Ts!afterRequest, Ts!WellShaped
<1>6. CASE Ts!TimerFires
  BY <1>6 DEF Ts!TimerFires, Ts!aborted
<1>7. CASE Ts!CallerAborts
  BY <1>7 DEF Ts!CallerAborts, Ts!aborted
<1>8. CASE Ts!Catch
  BY <1>8 DEF Ts!Catch, Ts!clearTimeout
<1> QED
  BY <1>1, <1>2, <1>3, <1>4, <1>5, <1>6, <1>7, <1>8 DEF Ts!Next, Ts!Gateway

\* A step of the Go client preserves the invariant.
LEMMA GoStep ==
  ASSUME IInv, sdk = "go", Go!Next, UNCHANGED sdk
  PROVE  IInv'
<1> USE SizesAssumption DEF IInv, TypeOK, Sdks, Offers, ReadInv, AbortInv, CapIsExact,
      BlamesTheFirstAbort, ReturnsOnlyWhatItPromises, BodiesOf, NoTimerOutlivesTheCall,
      NoWaitIsUntimed,
      Methods, Statuses, Bodies, Outcomes, Settled, settle, bodyVars, clock,
      Go!settle, Go!Settled, Go!bodyVars, Go!clock, Go!Statuses, Go!Bodies
<1>1. CASE Go!doBytes
  BY <1>1 DEF Go!doBytes
<1>2. ASSUME NEW s \in Statuses, Go!ResponseArrives(s)
      PROVE  IInv'
  BY <1>2 DEF Go!ResponseArrives
<1>3. CASE Go!OperationFails
  BY <1>3 DEF Go!OperationFails
<1>4. ASSUME NEW n \in ChunkSizes, Go!ChunkArrives(n)
      PROVE  IInv'
  BY <1>4 DEF Go!ChunkArrives, Go!cancel
<1>5. ASSUME NEW b \in Bodies, Go!BodyEnds(b)
      PROVE  IInv'
  BY <1>5 DEF Go!BodyEnds, Go!cancel, Go!afterRequest, Go!WellShaped
<1>6. CASE Go!DeadlinePasses
  BY <1>6 DEF Go!DeadlinePasses
<1>7. CASE Go!CallerCancels
  BY <1>7 DEF Go!CallerCancels
<1>8. CASE Go!returnError
  BY <1>8 DEF Go!returnError, Go!cancel
<1> QED
  BY <1>1, <1>2, <1>3, <1>4, <1>5, <1>6, <1>7, <1>8 DEF Go!Next, Go!Gateway

\* A step of the Python client preserves the invariant.
LEMMA PyStep ==
  ASSUME IInv, sdk = "py", Py!Next, UNCHANGED sdk
  PROVE  IInv'
<1> USE SizesAssumption DEF IInv, TypeOK, Sdks, Offers, ReadInv, AbortInv, CapIsExact,
      BlamesTheFirstAbort, ReturnsOnlyWhatItPromises, BodiesOf, NoTimerOutlivesTheCall,
      NoWaitIsUntimed,
      Methods, Statuses, Bodies, Outcomes, Settled, settle, bodyVars, clock,
      Py!settle, Py!Settled, Py!bodyVars, Py!clock, Py!Statuses, Py!Bodies
<1>1. CASE Py!_request
  BY <1>1 DEF Py!_request
<1>2. CASE Py!Connects
  BY <1>2 DEF Py!Connects, Py!Progress
<1>3. ASSUME NEW s \in Statuses, Py!ResponseArrives(s)
      PROVE  IInv'
  BY <1>3 DEF Py!ResponseArrives, Py!Progress
<1>4. CASE Py!TransportFails
  BY <1>4 DEF Py!TransportFails, Py!Waiting
<1>5. ASSUME NEW n \in ChunkSizes, Py!ChunkArrives(n)
      PROVE  IInv'
  BY <1>5 DEF Py!ChunkArrives, Py!Progress
<1>6. ASSUME NEW b \in Bodies, Py!BodyEnds(b)
      PROVE  IInv'
  BY <1>6 DEF Py!BodyEnds, Py!afterRequest, Py!WellShaped
<1>7. CASE Py!Tick
  BY <1>7 DEF Py!Tick, Py!Waiting
<1>8. CASE Py!OperationTimesOut
  BY <1>8 DEF Py!OperationTimesOut, Py!Waiting
<1> QED
  BY <1>1, <1>2, <1>3, <1>4, <1>5, <1>6, <1>7, <1>8 DEF Py!Next, Py!Gateway

\* A step of a tool call preserves the invariant.
LEMMA ToolStep ==
  ASSUME IInv, sdk = "tool", Tool!ToolNext, UNCHANGED sdk
  PROVE  IInv'
<1> USE SizesAssumption DEF IInv, TypeOK, Sdks, Offers, ReadInv, AbortInv, CapIsExact,
      BlamesTheFirstAbort, ReturnsOnlyWhatItPromises, BodiesOf, NoTimerOutlivesTheCall,
      NoWaitIsUntimed,
      Methods, Statuses, Bodies, Outcomes, Settled, settle, bodyVars, clock,
      Tool!settle, Tool!Settled, Tool!bodyVars, Tool!clock, Tool!Statuses, Tool!Bodies
<1>1. CASE Tool!CallTool
  BY <1>1 DEF Tool!CallTool
<1>2. ASSUME NEW s \in Statuses, Tool!ResponseArrives(s)
      PROVE  IInv'
  BY <1>2 DEF Tool!ResponseArrives
<1>3. ASSUME NEW b \in Bodies, Tool!TextArrives(b)
      PROVE  IInv'
  BY <1>3 DEF Tool!TextArrives, Tool!afterText
<1>4. CASE Tool!TransportFails
  BY <1>4 DEF Tool!TransportFails
<1>5. CASE Tool!TimerFires
  BY <1>5 DEF Tool!TimerFires, Tool!aborted
<1>6. CASE Tool!CatchTool
  BY <1>6 DEF Tool!CatchTool
<1> QED
  BY <1>1, <1>2, <1>3, <1>4, <1>5, <1>6 DEF Tool!ToolNext, Tool!ToolGateway

\* IInv holds in every reachable state.
THEOREM Invariance == Spec => []IInv
<1>1. ClientsInit => IInv
  BY SizesAssumption DEF IInv, TypeOK, Sdks, Offers, ReadInv, AbortInv, CapIsExact,
       BlamesTheFirstAbort, ReturnsOnlyWhatItPromises, BodiesOf, NoTimerOutlivesTheCall,
       NoWaitIsUntimed, Methods, Statuses, Bodies,
       Outcomes, Settled, settle, bodyVars, clock, ClientsInit, Init
<1>2. IInv /\ [Next]_vars => IInv'
  <2>1. CASE UNCHANGED vars
    BY <2>1 DEF IInv, TypeOK, Sdks, Offers, ReadInv, AbortInv, CapIsExact, BlamesTheFirstAbort,
         ReturnsOnlyWhatItPromises, BodiesOf, NoTimerOutlivesTheCall, NoWaitIsUntimed, Methods,
         Statuses, Bodies,
         Outcomes, Settled, settle, bodyVars, clock, vars, callVars
  <2>2. CASE Next
    BY <2>2, TsStep, GoStep, PyStep, ToolStep DEF Next
  <2> QED
    BY <2>1, <2>2
<1> QED
  BY <1>1, <1>2, PTL DEF Spec

\* The variables of a call keep their types, in all three SDKs and the tool.
THEOREM TypeCorrect == Spec => []TypeOK
BY Invariance, PTL DEF IInv

\* For every cap and however the body is cut into chunks, readBodyCapped, the
\* LimitReader of doBytes and the loop of _request hold at most the cap (and one
\* byte in Go), accept a body of exactly Cap bytes and refuse any longer one.
THEOREM CapExact == Spec => []CapIsExact
BY Invariance, PTL DEF IInv

\* The error of a call names the party that aborted first, whatever happens
\* between the abort and the code that looks at it.
THEOREM BlameIsRight == Spec => []BlamesTheFirstAbort
BY Invariance, PTL DEF IInv

\* A method returns a value for the complete 2xx bodies that are its own, and for nothing
\* else: for those with the required fields, but a summary is any text and Go's
\* ListAuditEvents takes an export that lacks them.
THEOREM ReturnsWhatItPromises == Spec => []ReturnsOnlyWhatItPromises
BY Invariance, PTL DEF IInv

\* A settled call has released its timer, but for TypeScript's TypeError.
THEOREM TimersAreReleased == Spec => []NoTimerOutlivesTheCall
BY Invariance, PTL DEF IInv

\* No call waits for the gateway without a timeout that can still end the wait.
THEOREM WaitsAreTimed == Spec => []NoWaitIsUntimed
BY Invariance, PTL DEF IInv

(* Every step brings the end nearer.                                        *)

\* One operation less makes up for whatever the others gain, a whole timeout to wait
\* included.
LEMMA OneOperationLess ==
  ASSUME NEW m \in Nat, NEW n \in Nat, n < m, NEW t \in Nat,
         NEW g \in 0 .. t, NEW h \in 0 .. t
  PROVE  n * (t + 1) + (t - h) < m * (t + 1) + (t - g)
<1>1. (n + 1) * (t + 1) <= m * (t + 1)
  <2>1. PICK d \in Nat : m = n + 1 + d
    <3>1. m - (n + 1) \in Nat /\ m = n + 1 + (m - (n + 1))
      OBVIOUS
    <3>2. QED
      BY <3>1
  <2>2. m * (t + 1) = (n + 1) * (t + 1) + d * (t + 1)
    BY <2>1, SMT
  <2>3. d * (t + 1) \in Nat
    BY SMT
  <2>4. (n + 1) * (t + 1) \in Nat
    BY SMT
  <2>5. QED
    BY <2>2, <2>3, <2>4
<1>2. (n + 1) * (t + 1) = n * (t + 1) + t + 1
  BY SMT
<1>3. n * (t + 1) \in Nat /\ m * (t + 1) \in Nat
  BY SMT
<1>4. QED
  BY <1>1, <1>2, <1>3

\* In that order: operations, the wait, the timer and the caller.
LEMMA LessInOrder ==
  ASSUME NEW m \in Nat, NEW n \in Nat, NEW t \in Nat, NEW g \in 0 .. t, NEW h \in 0 .. t,
         NEW a \in Nat, NEW b \in Nat, b <= a, NEW c \in Nat, NEW d \in Nat, d <= c,
         \/ n < m
         \/ n = m /\ h >= g /\ (h > g \/ b < a \/ d < c)
  PROVE  n * (t + 1) + (t - h) + b + d < m * (t + 1) + (t - g) + a + c
<1>1. n * (t + 1) \in Nat /\ m * (t + 1) \in Nat
  BY SMT
<1>2. CASE n < m
  BY <1>1, <1>2, OneOperationLess
<1>3. CASE n = m /\ h >= g /\ (h > g \/ b < a \/ d < c)
  <2>1. n * (t + 1) = m * (t + 1)
    BY <1>3
  <2>2. QED
    BY <1>1, <1>3, <2>1
<1>4. QED
  BY <1>2, <1>3

\* A step either ends an operation, or leaves it and waits, or is the timer's or the
\* caller's.
StepForward ==
  LET left == Ahead + (Cap + 1 - accumulated) IN
  /\ TimerAhead' <= TimerAhead
  /\ caller' = "quiet" => caller = "quiet"
  /\ \/ left' < left
     \/ /\ left' = left /\ gap' >= gap
        /\ \/ gap' > gap \/ TimerAhead' < TimerAhead
           \/ caller = "quiet" /\ caller' # "quiet"

\* A step of the TypeScript client.
LEMMA TsForward ==
  ASSUME IInv, sdk = "ts", Ts!Next
  PROVE  StepForward
<1> USE SizesAssumption DEF IInv, TypeOK, ReadInv, AbortInv, StepForward, Ahead, TimerAhead,
      Statuses, Bodies, bodyVars, clock, Ts!settle, Ts!bodyVars, Ts!clock,
      Ts!Statuses, Ts!Bodies
<1>1. CASE Ts!request
  BY <1>1 DEF Ts!request
<1>2. ASSUME NEW s \in Statuses, Ts!ResponseArrives(s)
      PROVE  StepForward
  BY <1>2 DEF Ts!ResponseArrives
<1>3. CASE Ts!TransportFails
  BY <1>3 DEF Ts!TransportFails
<1>4. ASSUME NEW n \in ChunkSizes, Ts!ChunkArrives(n)
      PROVE  StepForward
  BY <1>4 DEF Ts!ChunkArrives, Ts!clearTimeout
<1>5. ASSUME NEW b \in Bodies, Ts!BodyEnds(b)
      PROVE  StepForward
  BY <1>5 DEF Ts!BodyEnds, Ts!clearTimeout
<1>6. CASE Ts!TimerFires
  BY <1>6 DEF Ts!TimerFires, Ts!aborted
<1>7. CASE Ts!CallerAborts
  BY <1>7 DEF Ts!CallerAborts, Ts!aborted
<1>8. CASE Ts!Catch
  BY <1>8 DEF Ts!Catch, Ts!clearTimeout
<1> QED
  BY <1>1, <1>2, <1>3, <1>4, <1>5, <1>6, <1>7, <1>8 DEF Ts!Next, Ts!Gateway

\* A step of the Go client.
LEMMA GoForward ==
  ASSUME IInv, sdk = "go", Go!Next
  PROVE  StepForward
<1> USE SizesAssumption DEF IInv, TypeOK, ReadInv, AbortInv, StepForward, Ahead, TimerAhead,
      Statuses, Bodies, bodyVars, clock, Go!settle, Go!bodyVars, Go!clock,
      Go!Statuses, Go!Bodies
<1>1. CASE Go!doBytes
  BY <1>1 DEF Go!doBytes
<1>2. ASSUME NEW s \in Statuses, Go!ResponseArrives(s)
      PROVE  StepForward
  BY <1>2 DEF Go!ResponseArrives
<1>3. CASE Go!OperationFails
  BY <1>3 DEF Go!OperationFails
<1>4. ASSUME NEW n \in ChunkSizes, Go!ChunkArrives(n)
      PROVE  StepForward
  BY <1>4 DEF Go!ChunkArrives, Go!cancel
<1>5. ASSUME NEW b \in Bodies, Go!BodyEnds(b)
      PROVE  StepForward
  BY <1>5 DEF Go!BodyEnds, Go!cancel
<1>6. CASE Go!DeadlinePasses
  BY <1>6 DEF Go!DeadlinePasses
<1>7. CASE Go!CallerCancels
  BY <1>7 DEF Go!CallerCancels
<1>8. CASE Go!returnError
  BY <1>8 DEF Go!returnError, Go!cancel
<1> QED
  BY <1>1, <1>2, <1>3, <1>4, <1>5, <1>6, <1>7, <1>8 DEF Go!Next, Go!Gateway

\* A step of the Python client.
LEMMA PyForward ==
  ASSUME IInv, sdk = "py", Py!Next
  PROVE  StepForward
<1> USE SizesAssumption DEF IInv, TypeOK, ReadInv, AbortInv, StepForward, Ahead, TimerAhead,
      Statuses, Bodies, bodyVars, clock, Py!settle, Py!bodyVars, Py!clock,
      Py!Statuses, Py!Bodies
<1>1. CASE Py!_request
  BY <1>1 DEF Py!_request
<1>2. CASE Py!Connects
  BY <1>2 DEF Py!Connects, Py!Progress
<1>3. ASSUME NEW s \in Statuses, Py!ResponseArrives(s)
      PROVE  StepForward
  BY <1>3 DEF Py!ResponseArrives, Py!Progress
<1>4. CASE Py!TransportFails
  BY <1>4 DEF Py!TransportFails, Py!Waiting
<1>5. ASSUME NEW n \in ChunkSizes, Py!ChunkArrives(n)
      PROVE  StepForward
  BY <1>5 DEF Py!ChunkArrives, Py!Progress
<1>6. ASSUME NEW b \in Bodies, Py!BodyEnds(b)
      PROVE  StepForward
  BY <1>6 DEF Py!BodyEnds
<1>7. CASE Py!Tick
  BY <1>7 DEF Py!Tick, Py!Waiting
<1>8. CASE Py!OperationTimesOut
  BY <1>8 DEF Py!OperationTimesOut, Py!Waiting
<1> QED
  BY <1>1, <1>2, <1>3, <1>4, <1>5, <1>6, <1>7, <1>8 DEF Py!Next, Py!Gateway

\* A step of a tool call.
LEMMA ToolForward ==
  ASSUME IInv, sdk = "tool", Tool!ToolNext
  PROVE  StepForward
<1> USE SizesAssumption DEF IInv, TypeOK, ReadInv, AbortInv, StepForward, Ahead, TimerAhead,
      Statuses, Bodies, bodyVars, clock, Tool!settle, Tool!bodyVars, Tool!clock,
      Tool!Statuses, Tool!Bodies
<1>1. CASE Tool!CallTool
  BY <1>1 DEF Tool!CallTool
<1>2. ASSUME NEW s \in Statuses, Tool!ResponseArrives(s)
      PROVE  StepForward
  BY <1>2 DEF Tool!ResponseArrives
<1>3. ASSUME NEW b \in Bodies, Tool!TextArrives(b)
      PROVE  StepForward
  BY <1>3 DEF Tool!TextArrives
<1>4. CASE Tool!TransportFails
  BY <1>4 DEF Tool!TransportFails
<1>5. CASE Tool!TimerFires
  BY <1>5 DEF Tool!TimerFires, Tool!aborted
<1>6. CASE Tool!CatchTool
  BY <1>6 DEF Tool!CatchTool
<1> QED
  BY <1>1, <1>2, <1>3, <1>4, <1>5, <1>6 DEF Tool!ToolNext, Tool!ToolGateway

\* Each such step leaves fewer to take.
LEMMA ForwardIsLess ==
  ASSUME TypeOK, TypeOK', StepForward
  PROVE  StepsLeft' < StepsLeft
<1> DEFINE left == Ahead + (Cap + 1 - accumulated)
           whose == IF caller = "quiet" THEN 1 ELSE 0
<1>1. /\ left \in Nat /\ left' \in Nat
      /\ TimerAhead \in 0 .. 2 /\ TimerAhead' \in 0 .. 2
      /\ whose \in 0 .. 1 /\ whose' \in 0 .. 1
      /\ gap \in 0 .. Timeout /\ gap' \in 0 .. Timeout /\ Timeout \in Nat
  BY SizesAssumption DEF TypeOK, Ahead, TimerAhead
<1>2. /\ TimerAhead' <= TimerAhead /\ whose' <= whose
      /\ \/ left' < left
         \/ /\ left' = left /\ gap' >= gap
            /\ gap' > gap \/ TimerAhead' < TimerAhead \/ whose' < whose
  BY DEF StepForward
<1>3. /\ StepsLeft = left * (Timeout + 1) + (Timeout - gap) + TimerAhead + whose
      /\ StepsLeft' = left' * (Timeout + 1) + (Timeout - gap') + TimerAhead' + whose'
  BY DEF StepsLeft
<1>4. QED
  BY <1>1, <1>2, <1>3, LessInOrder

\* Every step of a call, of whichever party, leaves it fewer steps to take than before:
\* with the cap and the timeout of the client, no gateway keeps a call forever.
THEOREM EveryStepIsForward == Spec => NoStepIsRepeated
<1>1. IInv /\ IInv' /\ [Next]_vars => [StepsLeft' < StepsLeft]_vars
  <2>1. SUFFICES ASSUME IInv, IInv', Next PROVE StepsLeft' < StepsLeft
    OBVIOUS
  <2>2. StepForward
    BY <2>1, TsForward, GoForward, PyForward, ToolForward DEF Next
  <2>3. QED
    BY <2>1, <2>2, ForwardIsLess DEF IInv
<1>2. QED
  BY <1>1, Invariance, PTL DEF Spec, NoStepIsRepeated
================================================================================
