-------------------------------- MODULE Report --------------------------------
(***************************************************************************)
(* The report of one bundle verification, go/internal/bundle/report.go.    *)
(* A report is the set of its steps; what a step says in words is left     *)
(* out, and so are the INFO lines, which are no checks.  "scope" is the    *)
(* bundle or a certificate's request id (never both: no request is named   *)
(* "bundle").                                                              *)
(***************************************************************************)

Bundle == "bundle"

Passing == {"PASS", "PASS_CONTENT_BOUND", "PASS_NOT_CONTENT_BOUND"}
Statuses == Passing \cup {"FAIL", "SKIPPED"}
Verdicts == {"VALID", "TAMPERED", "INCOMPLETE"}

add(scope, name, status) ==
  [scope |-> scope, name |-> name, status |-> status, blocks |-> FALSE]
skip(scope, name, blocks) ==
  [scope |-> scope, name |-> name, status |-> "SKIPPED", blocks |-> blocks]

pass(scope, name) == add(scope, name, "PASS")
fail(scope, name) == add(scope, name, "FAIL")

Fails(steps) == \E s \in steps : s.status = "FAIL"
Blocks(steps) == \E s \in steps : s.status = "SKIPPED" /\ s.blocks

\* Any FAIL: TAMPERED; otherwise any blocking SKIPPED: INCOMPLETE; else VALID.
finish(steps) ==
  IF Fails(steps) THEN "TAMPERED" ELSE IF Blocks(steps) THEN "INCOMPLETE" ELSE "VALID"

ExitIncomplete == 2
ExitCode(verdict) ==
  CASE verdict = "VALID" -> 0 [] verdict = "TAMPERED" -> 1 [] OTHER -> ExitIncomplete
==============================================================================
