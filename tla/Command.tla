-------------------------------- MODULE Command --------------------------------
(***************************************************************************)
(* The command lucairn-bundle-verify (cmd/lucairn-bundle-verify/main.go):  *)
(* it turns its flags into trust roots and options, has Bundle verify the  *)
(* file, and reports the verdict as its exit code under a label that says  *)
(* by which roots it was reached.  A run f is a record                     *)
(*   parses     the flags are known ones; about: "version" or "trust roots" *)
(*              when it only prints these; files: the number of arguments  *)
(*   witness, service, tsaRoot, rekorKey   keys given instead of the       *)
(*              built-in ones: "none", "own", "unusable", and for service  *)
(*              "partial" when the audit key is not among them             *)
(*   requireAnchors, allowUnanchored, online, json                         *)
(*   bindingAfter, cleaningFrom   a time, NotGiven or NotATime; 0 is the   *)
(*              zero time                                                  *)
(*   readable   the file can be read; written: the JSON report can be      *)
(***************************************************************************)
EXTENDS Bundle, Integers

CONSTANTS
  BindingV1Cutover, CleaningCounterStart,   \* built in with the hosted pins
  Runs      \* for each kind of edit, the runs that its bundles are verified in

NotGiven == -1
NotATime == -2

(* The trust roots.                                                          *)

ProductionRoots ==
  [serviceKeys |-> TRUE, auditKey |-> TRUE, requireAnchors |-> TRUE,
   bindingAfter |-> BindingV1Cutover, cleaningFrom |-> CleaningCounterStart, online |-> FALSE]

Own(key) == key # "none"

\* A different witness is a different deployment, whose service keys are unknown.
applyOverrides(f) ==
  [ProductionRoots EXCEPT
     !.serviceKeys = Own(f.service) \/ ~Own(f.witness),
     !.auditKey = IF Own(f.service) THEN f.service = "own" ELSE ~Own(f.witness)]

\* It may run without anchoring, and has its own cutovers.
otherDeployment(f, pins) ==
  IF ~Own(f.witness) THEN pins
  ELSE [pins EXCEPT !.requireAnchors = FALSE, !.bindingAfter = 0, !.cleaningFrom = 0]

\* Mutant: the flags are applied before the witness key resets what they set.
trustRoots_FlagsFirst(f) ==
  otherDeployment(f,
    [applyOverrides(f) EXCEPT
       !.bindingAfter = IF f.bindingAfter = NotGiven THEN @ ELSE f.bindingAfter,
       !.cleaningFrom = IF f.cleaningFrom = NotGiven THEN @ ELSE f.cleaningFrom,
       !.requireAnchors = (@ \/ f.requireAnchors) /\ ~f.allowUnanchored,
       !.online = f.online])

trustRoots(f) ==
  [otherDeployment(f, applyOverrides(f)) EXCEPT
     !.bindingAfter = IF f.bindingAfter = NotGiven THEN @ ELSE f.bindingAfter,
     !.cleaningFrom = IF f.cleaningFrom = NotGiven THEN @ ELSE f.cleaningFrom,
     !.requireAnchors = (@ \/ f.requireAnchors) /\ ~f.allowUnanchored,
     !.online = f.online]

\* What the label names; empty for the built-in pins.
Names(condition, text) == IF condition THEN {text} ELSE {}

Label(f) == UNION {
  Names(Own(f.witness), "witness key"), Names(Own(f.service), "service keys"),
  Names(Own(f.tsaRoot), "TSA root"), Names(Own(f.rekorKey), "Rekor key"),
  Names(f.allowUnanchored \/ (Own(f.witness) /\ ~f.requireAnchors), "unanchored allowed"),
  Names(Own(f.witness) /\ f.cleaningFrom = NotGiven, "cleaning start not enforced"),
  Names(Own(f.witness) /\ f.bindingAfter = NotGiven, "binding cutover not enforced"),
  Names(f.bindingAfter # NotGiven, "binding required after"),
  Names(f.cleaningFrom # NotGiven, "cleaning entries required from")}

ASSUME RunsAssumption ==
  /\ BindingV1Cutover # 0 /\ CleaningCounterStart # 0
  /\ \A edit \in DOMAIN Bundles : \A f \in Runs[edit] : trustRoots(f) \in Options

(* The run.                                                                  *)

VARIABLES
  flags,    \* the run, fixed
  stage,    \* "start", "verify" or "exited"
  exit      \* the exit code; 2 until the report says otherwise

commandVars == <<vars, flags, stage, exit>>

CommandInit ==
  /\ \E edit \in DOMAIN Bundles : bundle \in Bundles[edit] /\ flags \in Runs[edit]
  /\ opt = trustRoots(flags)
  /\ Begin
  /\ stage = "start" /\ exit = ExitIncomplete

Exit(code) == stage' = "exited" /\ exit' = code

\* Only prints something.
Informs(f) == f.parses /\ f.about # ""

UsageError(f) ==
  \/ ~f.parses \/ f.files # 1
  \/ "unusable" \in {f.witness, f.service, f.tsaRoot, f.rekorKey}
  \/ f.requireAnchors /\ f.allowUnanchored
  \/ f.bindingAfter \in {NotATime, 0} \/ f.cleaningFrom \in {NotATime, 0}

readBounded(f, b) == f.readable /\ b.bytes <= MaxBundleBytes

Start ==
  /\ stage = "start"
  /\ IF Informs(flags) THEN Exit(0)
     ELSE IF UsageError(flags) \/ ~readBounded(flags, bundle) THEN Exit(ExitIncomplete)
     ELSE stage' = "verify" /\ UNCHANGED exit
  /\ UNCHANGED <<vars, flags>>

Verify == stage = "verify" /\ Next /\ UNCHANGED <<flags, stage, exit>>

PrintReport ==
  /\ stage = "verify" /\ verdict # "none"
  /\ Exit(IF flags.json /\ ~flags.written THEN ExitIncomplete ELSE ExitCode(verdict))
  /\ UNCHANGED <<vars, flags>>

CommandNext == Start \/ Verify \/ PrintReport

CommandSpec == CommandInit /\ [][CommandNext]_commandVars
FairCommandSpec == CommandSpec /\ WF_commandVars(CommandNext)

(* What a run shows.                                                         *)

\* main.go:146, main.go:47 (exit codes) and roots.go:43 (Label): when a run that does
\* not merely print something exits with 0, its bundle is VALID, and under whatever
\* combination of flags it has what the hosted pins demand, from the times that the
\* label names or else from the built-in ones, unless the label says that it was not
\* demanded; and a label that names nothing stands for the hosted pins.
From(given, builtIn) == IF given # NotGiven THEN given ELSE builtIn
WhatTheLabelLeavesOutHolds ==
  exit = 0 /\ ~Informs(flags) =>
    /\ Valid /\ ~UsageError(flags)
    /\ "unanchored allowed" \notin Label(flags) =>
         \A i \in Certs : Says(i, "timestamp", Passing) /\ Says(i, "rekor", Passing)
    /\ "binding cutover not enforced" \notin Label(flags) =>
         \A i \in Certs :
           Cert(i).issued > From(flags.bindingAfter, BindingV1Cutover) => Cert(i).form = "v1"
    /\ "cleaning start not enforced" \notin Label(flags) =>
         \A i \in {j \in Certs : /\ needsCleaningEntry(Cert(j), m.certs[j], opt)
                                 /\ ~(Cert(j).issued < From(flags.cleaningFrom, CleaningCounterStart))} :
           withAudit /\ \E n \in DOMAIN bundle.audit.events : Numbered(i, n)
    /\ Label(flags) = {} =>
         \A pin \in DOMAIN ProductionRoots \ {"online"} : opt[pin] = ProductionRoots[pin]

\* Every run ends.
Exits == <>(stage = "exited")
==============================================================================
