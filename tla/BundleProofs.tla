------------------------------ MODULE BundleProofs ------------------------------
(***************************************************************************)
(* Proofs about Bundle, for all bundles and options: what the run          *)
(* MCBundle.cfg checks on edits of small bundles.  The invariant says what *)
(* the report holds at every point of the verification; what a VALID       *)
(* verdict means follows from it, because VALID leaves no FAIL and no      *)
(* blocking step in a report that is complete.                             *)
(***************************************************************************)
EXTENDS Command, FiniteSetTheorems, TLAPS

(* The invariant.                                                            *)

InCert == {"signature", "timestamp", "rekor", "counter"}
AfterSet == InCert \cup {"end"}
AfterList == AfterSet \cup {"set"}
AfterFiles == AfterList \cup {"certificates"}
AfterManifest == AfterFiles \cup {"files"}
AfterZip == AfterManifest \cup {"manifest"}

ShapeInv ==
  /\ opt \in Options
  /\ bundle.entries \in Seq(Elements(bundle.entries))
  /\ m.certs \in Seq(Elements(m.certs))

\* What has passed by the time the verification is at a check.
GateInv ==
  /\ pc \in AfterZip => ~ZipUnread(bundle) /\ ~ZipProblem(bundle)
  /\ pc \in AfterManifest => ~ManifestProblem(bundle) /\ ~ManifestUnknown(bundle)
  /\ pc \in AfterFiles => ~FilesProblem(bundle)
  /\ pc \in AfterList => ~CertificateListProblem(bundle)

SetReported ==
  /\ {CertificateSet(bundle), Completeness(bundle)} \subseteq steps
  /\ withAudit => newAuditVerifier(bundle.audit, m, opt) \subseteq steps

SignatureReported(i) == signature(Cert(i), m.certs[i], m, opt) \subseteq steps
TimestampReported(i) ==
  \E seen \in SUBSET seenTSA : timestamp(Cert(i), m.certs[i], opt, seen) \in steps
RekorReported(i) ==
  \E seen \in SUBSET seenRekor, seen2 \in SUBSET seenBody :
    rekor(Cert(i), m.certs[i], opt, seen, seen2) \in steps
CounterReported(i) ==
  IF withAudit THEN cert(bundle.audit, Cert(i), m.certs[i], opt) \subseteq steps
  ELSE noCounterEntry(Cert(i), m.certs[i], opt, FALSE) \subseteq steps

CertReported(i) ==
  /\ SignatureReported(i)
  /\ Cert(i).object => TimestampReported(i) /\ RekorReported(i)
  /\ CounterReported(i)

EndReported == withAudit => auditFinish(bundle.audit, opt, Requests) \subseteq steps

\* A report of everything there is to check.
Complete ==
  /\ ~ZipUnread(bundle) /\ ~ZipProblem(bundle)
  /\ ~ManifestProblem(bundle) /\ ~ManifestUnknown(bundle)
  /\ ~FilesProblem(bundle) /\ ~CertificateListProblem(bundle)
  /\ SetReported
  /\ \A i \in Certs : CertReported(i)
  /\ EndReported

ReportInv ==
  /\ pc \in AfterSet => SetReported
  /\ pc \in InCert => turn \in Certs /\ \A i \in Certs : i < turn => CertReported(i)
  /\ pc \in InCert \ {"signature"} => SignatureReported(turn)
  /\ pc \in {"timestamp", "rekor"} => Cert(turn).object
  /\ pc \in {"rekor", "counter"} /\ Cert(turn).object => TimestampReported(turn)
  /\ pc = "counter" /\ Cert(turn).object => RekorReported(turn)
  /\ pc = "end" => \A i \in Certs : CertReported(i)
  /\ pc = "done" => Complete \/ Fails(steps) \/ Blocks(steps)

VerdictInv == verdict = IF pc = "done" THEN finish(steps) ELSE "none"

\* Everything accepted is remembered.
SeenInv ==
  \A i \in Certs :
    /\ Says(i, "timestamp", Passing) => Cert(i).certHash \in seenTSA
    /\ Says(i, "rekor", Passing) => Cert(i).rekor.index \in seenRekor /\ Cert(i).rekor.logged \in seenBody

IInv ==
  /\ TypeOK /\ ShapeInv /\ GateInv /\ ReportInv /\ VerdictInv
  /\ SeenInv /\ AnchorsAreDistinct /\ BoundMeansBound

(* What the checks report.                                                   *)

\* A step with a status and a block flag that is not about an anchor.
PlainStep(s) ==
  s.status \in Statuses /\ s.blocks \in BOOLEAN /\ s.name \notin {"timestamp", "rekor"}
Plainly(S) == \A s \in S : PlainStep(s)

LEMMA PlainSteps ==
  /\ \A scope, name : name \notin {"timestamp", "rekor"} =>
       /\ PlainStep(pass(scope, name)) /\ PlainStep(fail(scope, name))
       /\ PlainStep(skip(scope, name, TRUE)) /\ PlainStep(skip(scope, name, FALSE))
  /\ \A scope, name, blocks : name \notin {"timestamp", "rekor"} /\ blocks \in BOOLEAN =>
       PlainStep(skip(scope, name, blocks))
BY DEF PlainStep, add, skip, pass, fail, Statuses, Passing

\* The checks of the layout report no anchor.
LEMMA LayoutSteps ==
  ASSUME NEW b
  PROVE  /\ Plainly({readZip(b)}) /\ Plainly({CertificateSet(b), Completeness(b)})
         /\ Plainly({fail(Bundle, "manifest")}) /\ Plainly({skip(Bundle, "manifest", TRUE)})
         /\ Plainly({pass(Bundle, "manifest")}) /\ Plainly({pass(Bundle, "certificate-list")})
         /\ Plainly({fail(Bundle, "certificate-list")})
BY PlainSteps DEF Plainly, readZip, CertificateSet, Completeness

\* Nor do the checks of a signature and the claims.
LEMMA SignatureSteps ==
  ASSUME NEW k, NEW l, NEW n, NEW o
  PROVE  Plainly(signature(k, l, n, o))
<1>1. Plainly(claimChain(k, n, o, l.req))
  BY PlainSteps DEF Plainly, claimChain, binding
<1>2. Plainly(Unrecovered(k, l, o))
  BY PlainSteps DEF Plainly, Unrecovered
<1> QED
  BY <1>1, <1>2, PlainSteps DEF Plainly, signature

\* Nor do the checks of the counter.
LEMMA InclusionStep ==
  ASSUME NEW a, NEW e, NEW o, NEW scope
  PROVE  Plainly({inclusion(a, e, o, scope)})
BY PlainSteps DEF Plainly, inclusion

LEMMA CounterSteps ==
  ASSUME NEW a, NEW k, NEW l, NEW n, NEW o, NEW S
  PROVE  /\ Plainly(newAuditVerifier(a, n, o))
         /\ Plainly(noCounterEntry(k, l, o, TRUE)) /\ Plainly(noCounterEntry(k, l, o, FALSE))
         /\ Plainly(cert(a, k, l, o))
         /\ Plainly(auditFinish(a, o, S))
<1> USE PlainSteps
<1>1. Plainly(roots(a, o))
  BY DEF Plainly, roots
<1>2. Plainly({conversation(a, n), eventHashes(a), continuity(a)})
  <2>1. \A ok : Plainly({ofEvents(a, "audit-binding", ok)}) /\ Plainly({ofEvents(a, "audit-event-hash", ok)})
                  /\ Plainly({ofEvents(a, "audit-continuity", ok)})
    BY DEF Plainly, ofEvents
  <2> QED
    BY <2>1 DEF Plainly, conversation, eventHashes, continuity
<1>3. Plainly(newAuditVerifier(a, n, o))
  BY <1>1, <1>2 DEF Plainly, newAuditVerifier
<1>4. Plainly(noCounterEntry(k, l, o, TRUE)) /\ Plainly(noCounterEntry(k, l, o, FALSE))
  BY DEF Plainly, noCounterEntry
<1>5. \A e : Plainly({counterStep(k, l, o, e), certInclusion(a, k, l, o, e)})
  <2> TAKE e
  <2>1. Plainly({counterStep(k, l, o, e)})
    BY DEF Plainly, counterStep
  <2>2. Plainly({certInclusion(a, k, l, o, e)})
    BY InclusionStep DEF Plainly, certInclusion
  <2> QED
    BY <2>1, <2>2 DEF Plainly
<1>6. Plainly(cert(a, k, l, o))
  BY <1>4, <1>5 DEF Plainly, cert
<1>7. Plainly(auditFinish(a, o, S))
  BY InclusionStep DEF Plainly, auditFinish
<1> QED
  BY <1>3, <1>4, <1>6, <1>7

\* The anchor checks report one step each, about the certificate they check.
LEMMA AnchorSteps ==
  ASSUME NEW k, NEW l, NEW o, NEW S, NEW T
  PROVE  /\ LET s == timestamp(k, l, o, S) IN
              /\ s.status \in Statuses /\ s.blocks \in BOOLEAN
              /\ s.scope = l.req /\ s.name = "timestamp"
         /\ LET s == rekor(k, l, o, S, T) IN
              /\ s.status \in Statuses /\ s.blocks \in BOOLEAN
              /\ s.scope = l.req /\ s.name = "rekor"
<1> DEFINE Fine(s, name) == s.status \in Statuses /\ s.blocks \in BOOLEAN
                              /\ s.scope = l.req /\ s.name = name
<1>1. \A name : Fine(fail(l.req, name), name) /\ Fine(skip(l.req, name, TRUE), name)
  BY DEF add, fail, skip, Statuses, Passing
<1>2. \A name, status : status \in Passing => Fine(add(l.req, name, status), name)
  BY DEF add, Statuses
<1>3. \A name : Fine(notAnchored(k, o, l.req, name), name)
  BY DEF notAnchored, skip, Statuses
<1>4. \A b : (IF b THEN "PASS_CONTENT_BOUND" ELSE "PASS_NOT_CONTENT_BOUND") \in Passing
  BY DEF Passing
<1> HIDE DEF Fine
<1>5. Fine(timestamp(k, l, o, S), "timestamp")
  BY <1>1, <1>2, <1>3, <1>4 DEF timestamp
<1>6. Fine(rekor(k, l, o, S, T), "rekor")
  BY <1>1, <1>2, <1>3, <1>4 DEF rekor
<1> QED
  BY <1>5, <1>6 DEF Fine

(* What is reported stays reported, and so does what is accepted.            *)

LEMMA ReportGrows ==
  ASSUME steps \subseteq steps', seenTSA \subseteq seenTSA', seenRekor \subseteq seenRekor',
         seenBody \subseteq seenBody', UNCHANGED <<bundle, opt>>
  PROVE  /\ SetReported => SetReported'
         /\ \A i : CertReported(i) => CertReported(i)'
         /\ \A i : SignatureReported(i) => SignatureReported(i)'
         /\ \A i : TimestampReported(i) => TimestampReported(i)'
         /\ \A i : RekorReported(i) => RekorReported(i)'
<1>1. m' = m /\ withAudit' = withAudit /\ \A i : Cert(i)' = Cert(i)
  BY DEF m, withAudit, Cert
<1>2. \A i : TimestampReported(i) => TimestampReported(i)'
  BY <1>1 DEF TimestampReported
<1>3. \A i : RekorReported(i) => RekorReported(i)'
  BY <1>1 DEF RekorReported
<1>4. \A i : SignatureReported(i) => SignatureReported(i)'
  BY <1>1 DEF SignatureReported
<1>5. \A i : CounterReported(i) => CounterReported(i)'
  BY <1>1 DEF CounterReported
<1>6. SetReported => SetReported'
  BY <1>1 DEF SetReported
<1> QED
  BY <1>1, <1>2, <1>3, <1>4, <1>5, <1>6 DEF CertReported

\* A step that reports nothing about an anchor leaves the anchors as they were.
LEMMA AnchorsKept ==
  ASSUME SeenInv, AnchorsAreDistinct, BoundMeansBound,
         NEW S, Plainly(S), report(S), UNCHANGED <<bundle, opt, seenVars>>
  PROVE  SeenInv' /\ AnchorsAreDistinct' /\ BoundMeansBound'
<1>1. m' = m /\ Certs' = Certs /\ \A i : Cert(i)' = Cert(i)
  BY DEF m, Certs, Cert
<1>2. ASSUME NEW i, NEW statuses
      PROVE  /\ Says(i, "timestamp", statuses)' <=> Says(i, "timestamp", statuses)
             /\ Says(i, "rekor", statuses)' <=> Says(i, "rekor", statuses)
             /\ Says(i, "signature", statuses) => Says(i, "signature", statuses)'
  BY <1>1 DEF Says, report, Plainly, PlainStep
<1>3. SeenInv'
  BY <1>1, <1>2 DEF SeenInv, seenVars
<1>4. AnchorsAreDistinct'
  BY <1>1, <1>2 DEF AnchorsAreDistinct
<1>5. BoundMeansBound'
  BY <1>1, <1>2 DEF BoundMeansBound
<1> QED
  BY <1>3, <1>4, <1>5

(* Every check preserves the invariant.                                      *)

LEMMA InitInv == ASSUME Init PROVE IInv
<1> USE DEF Init, Begin
<1>1. TypeOK
  BY DEF TypeOK, Verdicts
<1>2. ShapeInv
  BY BundlesAssumption DEF ShapeInv, m
<1>3. GateInv /\ ReportInv /\ VerdictInv
  BY DEF GateInv, ReportInv, VerdictInv, AfterZip, AfterManifest, AfterFiles, AfterList, AfterSet,
         InCert
<1>4. SeenInv /\ AnchorsAreDistinct /\ BoundMeansBound
  BY DEF SeenInv, AnchorsAreDistinct, BoundMeansBound, Says
<1> QED
  BY <1>1, <1>2, <1>3, <1>4 DEF IInv

\* A report that grew by plain steps: what does not depend on the next check.
LEMMA PlainReport ==
  ASSUME IInv, NEW S, Plainly(S), report(S), UNCHANGED <<bundle, opt, seenVars>>
  PROVE  /\ \A s \in steps' : s.status \in Statuses /\ s.blocks \in BOOLEAN
         /\ m' = m /\ Certs' = Certs /\ withAudit' = withAudit
         /\ ShapeInv'
         /\ SeenInv' /\ AnchorsAreDistinct' /\ BoundMeansBound'
         /\ SetReported => SetReported'
         /\ \A i : CertReported(i) => CertReported(i)'
         /\ \A i : SignatureReported(i) => SignatureReported(i)'
         /\ \A i : TimestampReported(i) => TimestampReported(i)'
         /\ \A i : RekorReported(i) => RekorReported(i)'
<1>1. \A s \in steps' : s.status \in Statuses /\ s.blocks \in BOOLEAN
  BY DEF IInv, TypeOK, report, Plainly, PlainStep
<1>2. m' = m /\ Certs' = Certs /\ withAudit' = withAudit
  BY DEF m, Certs, withAudit
<1>3. ShapeInv'
  BY <1>2 DEF IInv, ShapeInv
<1>4. steps \subseteq steps' /\ seenTSA \subseteq seenTSA' /\ seenRekor \subseteq seenRekor'
        /\ seenBody \subseteq seenBody'
  BY DEF report, seenVars
<1> QED
  BY <1>1, <1>2, <1>3, <1>4, AnchorsKept, ReportGrows DEF IInv

LEMMA StopMeansVerdict ==
  ASSUME stop
  PROVE  verdict' \in Verdicts /\ VerdictInv'
BY DEF stop, VerdictInv, finish, Verdicts

\* A bundle-level check that passes, or ends the verification with its report.
LEMMA GateStep ==
  ASSUME IInv, NEW step, Plainly({step}), NEW next, Gate(step, next),
         pc # "done",
         step.status = "PASS" \/ step.status = "FAIL" \/ (step.status = "SKIPPED" /\ step.blocks),
         next \in {"manifest", "certificates", "set"},
         step.status = "PASS" => GateInv'
  PROVE  IInv'
<1>1. report({step}) /\ UNCHANGED <<bundle, opt, seenVars>> /\ UNCHANGED <<turn, cleaningSteps>>
  BY DEF Gate, same
<1>2. /\ \A s \in steps' : s.status \in Statuses /\ s.blocks \in BOOLEAN
      /\ m' = m /\ ShapeInv' /\ SeenInv' /\ AnchorsAreDistinct' /\ BoundMeansBound'
  BY <1>1, PlainReport
<1>3. CASE step.status = "PASS"
  <2>1. pc' = next /\ verdict' = verdict
    BY <1>3 DEF Gate, goto
  <2>2. GateInv'
    BY <1>3
  <2>3. TypeOK'
    BY <1>1, <1>2, <2>1 DEF IInv, TypeOK
  <2>4. ReportInv'
    BY <2>1 DEF ReportInv, InCert, AfterSet
  <2>5. VerdictInv'
    BY <2>1 DEF IInv, VerdictInv
  <2> QED
    BY <1>2, <2>2, <2>3, <2>4, <2>5 DEF IInv
<1>4. CASE step.status # "PASS"
  <2>1. stop /\ step \in steps'
    BY <1>1, <1>4 DEF Gate, report
  <2>2. verdict' \in Verdicts /\ VerdictInv' /\ pc' = "done"
    BY <1>2, <2>1, StopMeansVerdict DEF stop
  <2>3. (Fails(steps) \/ Blocks(steps))'
    BY <1>4, <2>1 DEF Fails, Blocks
  <2>4. ReportInv' /\ GateInv'
    BY <2>2, <2>3 DEF ReportInv, GateInv, InCert, AfterSet, AfterList, AfterFiles, AfterManifest,
                      AfterZip
  <2>5. TypeOK'
    BY <1>1, <1>2, <2>2 DEF IInv, TypeOK
  <2> QED
    BY <1>2, <2>2, <2>4, <2>5 DEF IInv
<1> QED
  BY <1>3, <1>4

LEMMA LayoutInv ==
  ASSUME IInv, ReadZip \/ CheckFiles \/ CheckCertificateList PROVE IInv'
<1> USE DEF AfterZip, AfterManifest, AfterFiles, AfterList, AfterSet, InCert
<1>1. CASE ReadZip
  <2>1. UNCHANGED bundle /\ (readZip(bundle).status = "PASS" => pc' = "manifest")
    BY <1>1 DEF ReadZip, Gate, same, goto
  <2>2. readZip(bundle).status = "PASS" => ~ZipUnread(bundle) /\ ~ZipProblem(bundle)
    BY DEF readZip, skip, fail, add
  <2>3. LET step == readZip(bundle) IN
        step.status = "PASS" \/ step.status = "FAIL" \/ (step.status = "SKIPPED" /\ step.blocks)
    BY DEF readZip, skip, fail, add, pass
  <2>4. readZip(bundle).status = "PASS" => GateInv'
    BY <2>1, <2>2 DEF GateInv
  <2> QED
    BY <1>1, <2>3, <2>4, LayoutSteps, GateStep DEF ReadZip
<1>2. CASE CheckFiles
  <2> DEFINE step == IF FilesProblem(bundle) THEN fail(Bundle, "manifest")
                     ELSE pass(Bundle, "manifest")
  <2>1. UNCHANGED bundle /\ (step.status = "PASS" => pc' = "certificates") /\ pc = "files"
    BY <1>2 DEF CheckFiles, Gate, same, goto
  <2>2. step.status = "PASS" => ~FilesProblem(bundle)
    BY DEF fail, add
  <2>3. step.status = "PASS" \/ step.status = "FAIL"
    BY DEF fail, add, pass
  <2>4. step.status = "PASS" => GateInv'
    BY <2>1, <2>2 DEF GateInv, IInv
  <2>5. Plainly({step})
    BY LayoutSteps
  <2> QED
    BY <1>2, <2>3, <2>4, <2>5, GateStep DEF CheckFiles
<1>3. CASE CheckCertificateList
  <2> DEFINE step == IF CertificateListProblem(bundle) THEN fail(Bundle, "certificate-list")
                     ELSE pass(Bundle, "certificate-list")
  <2>1. UNCHANGED bundle /\ (step.status = "PASS" => pc' = "set") /\ pc = "certificates"
    BY <1>3 DEF CheckCertificateList, Gate, same, goto
  <2>2. step.status = "PASS" => ~CertificateListProblem(bundle)
    BY DEF fail, add
  <2>3. step.status = "PASS" \/ step.status = "FAIL"
    BY DEF fail, add, pass
  <2>4. step.status = "PASS" => GateInv'
    BY <2>1, <2>2 DEF GateInv, IInv
  <2>5. Plainly({step})
    BY LayoutSteps
  <2> QED
    BY <1>3, <2>3, <2>4, <2>5, GateStep DEF CheckCertificateList
<1> QED
  BY <1>1, <1>2, <1>3

LEMMA ReadManifestInv == ASSUME IInv, ReadManifest PROVE IInv'
<1> USE DEF AfterZip, AfterManifest, AfterFiles, AfterList, AfterSet, InCert
<1>1. pc = "manifest" /\ UNCHANGED <<bundle, opt, seenVars>> /\ UNCHANGED <<turn, cleaningSteps>>
  BY DEF ReadManifest, same
<1>2. ASSUME NEW step \in {fail(Bundle, "manifest"), skip(Bundle, "manifest", TRUE)},
             report({step}), stop
      PROVE  IInv'
  <2>1. Plainly({step})
    BY LayoutSteps
  <2>2. /\ \A s \in steps' : s.status \in Statuses /\ s.blocks \in BOOLEAN
        /\ m' = m /\ ShapeInv' /\ SeenInv' /\ AnchorsAreDistinct' /\ BoundMeansBound'
    BY <1>1, <1>2, <2>1, PlainReport
  <2>3. verdict' \in Verdicts /\ VerdictInv' /\ pc' = "done"
    BY <1>2, StopMeansVerdict DEF stop
  <2>4. step \in steps' /\ (step.status = "FAIL" \/ (step.status = "SKIPPED" /\ step.blocks))
    BY <1>2 DEF report, fail, add, skip
  <2>5. ReportInv' /\ GateInv'
    BY <2>3, <2>4 DEF ReportInv, GateInv, Fails, Blocks
  <2>6. TypeOK'
    BY <1>1, <2>2, <2>3 DEF IInv, TypeOK
  <2> QED
    BY <2>2, <2>3, <2>5, <2>6 DEF IInv
<1>3. ASSUME ~ManifestProblem(bundle), ~ManifestUnknown(bundle), UNCHANGED steps, goto("files")
      PROVE  IInv'
  <2>1. pc' = "files" /\ verdict' = verdict
    BY <1>3 DEF goto
  <2>2. report({}) /\ Plainly({})
    BY <1>3 DEF report, Plainly
  <2>3. m' = m /\ ShapeInv' /\ SeenInv' /\ AnchorsAreDistinct' /\ BoundMeansBound'
    BY <1>1, <2>2, PlainReport
  <2>4. TypeOK' /\ GateInv' /\ ReportInv' /\ VerdictInv'
    BY <1>1, <1>3, <2>1, <2>3 DEF IInv, TypeOK, GateInv, ReportInv, VerdictInv
  <2> QED
    BY <2>3, <2>4 DEF IInv
<1> QED
  BY <1>2, <1>3 DEF ReadManifest

LEMMA CheckSetInv == ASSUME IInv, CheckSet PROVE IInv'
<1> USE DEF AfterZip, AfterManifest, AfterFiles, AfterList, AfterSet, InCert
<1> DEFINE S == {CertificateSet(bundle), Completeness(bundle)} \cup
                IF withAudit THEN newAuditVerifier(bundle.audit, m, opt) ELSE {}
<1>1. /\ pc = "set" /\ report(S) /\ pc' = "signature" /\ verdict' = verdict /\ turn' = 1
      /\ UNCHANGED <<bundle, opt, seenVars>> /\ UNCHANGED cleaningSteps
  BY DEF CheckSet, goto, same
<1>2. Plainly(S)
  BY LayoutSteps, CounterSteps DEF Plainly
<1> HIDE DEF S
<1>3. /\ \A s \in steps' : s.status \in Statuses /\ s.blocks \in BOOLEAN
      /\ m' = m /\ Certs' = Certs /\ ShapeInv' /\ SeenInv' /\ AnchorsAreDistinct'
      /\ BoundMeansBound'
  BY <1>1, <1>2, PlainReport
<1>4. Certs \subseteq Nat /\ 1 \in Certs /\ \A i \in Certs : i >= 1
  <2>1. ~CertificateListProblem(bundle)
    BY <1>1 DEF IInv, GateInv
  <2>2. m.certs # <<>>
    BY <2>1 DEF CertificateListProblem, m
  <2>3. m.certs \in Seq(Elements(m.certs))
    BY DEF IInv, ShapeInv
  <2> QED
    BY <2>2, <2>3 DEF Certs
<1>5. SetReported'
  BY <1>1 DEF SetReported, report, S, withAudit, m
<1>6. ReportInv'
  BY <1>1, <1>3, <1>4, <1>5 DEF ReportInv
<1>7. TypeOK' /\ GateInv' /\ VerdictInv'
  BY <1>1, <1>3, <1>4 DEF IInv, TypeOK, GateInv, VerdictInv, Certs
<1> QED
  BY <1>3, <1>6, <1>7 DEF IInv

\* The certificates of a listed bundle have different request ids.
LEMMA UniqueRequests ==
  ASSUME ~CertificateListProblem(bundle), ShapeInv, NEW i \in Certs, NEW j \in Certs, i # j
  PROVE  m.certs[i].req # m.certs[j].req
<1>1. ~\E k, l \in DOMAIN m.certs : k < l /\ m.certs[k].req = m.certs[l].req
  BY DEF CertificateListProblem, Repeats, m
<1>2. i \in Nat /\ j \in Nat
  BY DEF ShapeInv, Certs
<1> QED
  BY <1>1, <1>2 DEF Certs

LEMMA SignatureInv == ASSUME IInv, Signature PROVE IInv'
<1> USE DEF AfterZip, AfterManifest, AfterFiles, AfterList, AfterSet, InCert
<1> DEFINE S == signature(c, mc, m, opt)
<1>1. /\ pc = "signature" /\ report(S) /\ verdict' = verdict
      /\ pc' = IF c.object THEN "timestamp" ELSE "counter"
      /\ UNCHANGED <<bundle, opt, seenVars>> /\ UNCHANGED <<turn, cleaningSteps>>
  BY DEF Signature, goto, same
<1>2. Plainly(S)
  BY SignatureSteps
<1>3. S \subseteq steps'
  BY <1>1 DEF report
<1>4. c = Cert(turn) /\ mc = m.certs[turn]
  BY DEF c, mc, Cert
<1>5. /\ \A s \in steps' : s.status \in Statuses /\ s.blocks \in BOOLEAN
      /\ m' = m /\ Certs' = Certs /\ ShapeInv' /\ SeenInv' /\ AnchorsAreDistinct'
      /\ BoundMeansBound' /\ (SetReported => SetReported')
      /\ \A i : CertReported(i) => CertReported(i)'
  BY <1>1, <1>2, PlainReport
<1>6. SignatureReported(turn)'
  BY <1>1, <1>3, <1>4, <1>5 DEF SignatureReported, Cert
<1>7. Cert(turn)' = c
  BY <1>1, <1>4, <1>5 DEF Cert
<1> HIDE DEF S
<1>8. ReportInv'
  <2>1. turn' = turn /\ pc' \in {"timestamp", "counter"}
    BY <1>1
  <2>2. SetReported' /\ turn \in Certs' /\ \A i \in Certs' : i < turn => CertReported(i)'
    BY <1>1, <1>5 DEF IInv, ReportInv
  <2>3. Cert(turn)'.object <=> pc' = "timestamp"
    BY <1>1, <1>7
  <2> QED
    BY <2>1, <2>2, <2>3, <1>6 DEF ReportInv
<1>9. TypeOK' /\ GateInv' /\ VerdictInv'
  BY <1>1, <1>5 DEF IInv, TypeOK, GateInv, VerdictInv
<1> QED
  BY <1>5, <1>8, <1>9 DEF IInv

LEMMA CheckCounterInv == ASSUME IInv, CheckCounter PROVE IInv'
<1> USE DEF AfterZip, AfterManifest, AfterFiles, AfterList, AfterSet, InCert
<1> DEFINE S == IF withAudit THEN cert(bundle.audit, c, mc, opt)
                ELSE noCounterEntry(c, mc, opt, FALSE)
<1>1. /\ pc = "counter" /\ report(S) /\ verdict' = verdict
      /\ UNCHANGED <<bundle, opt, seenVars>>
      /\ IF turn < Len(m.certs) THEN pc' = "signature" /\ turn' = turn + 1
         ELSE pc' = "end" /\ turn' = turn
  BY DEF CheckCounter, goto
<1>2. cleaningSteps' \in Nat
  <2>1. cleaningSteps \in Nat
    BY DEF IInv, TypeOK
  <2>2. cleaningSteps' \in {cleaningSteps, cleaningSteps + 1}
    <3>1. CASE withAudit
      <4>1. cleaningSteps' = IF CleaningStep(steps', bundle.audit, c, mc, opt)
                             THEN cleaningSteps + 1 ELSE cleaningSteps
        BY <3>1, Zenon DEF CheckCounter
      <4> QED
        BY <4>1
    <3>2. CASE ~withAudit
      BY <3>2, Zenon DEF CheckCounter
    <3> QED
      BY <3>1, <3>2
  <2> QED
    BY <2>1, <2>2
<1>3. Plainly(S)
  BY CounterSteps
<1>4. S \subseteq steps'
  BY <1>1 DEF report
<1>5. c = Cert(turn) /\ mc = m.certs[turn]
  BY DEF c, mc, Cert
<1>6. /\ \A s \in steps' : s.status \in Statuses /\ s.blocks \in BOOLEAN
      /\ m' = m /\ Certs' = Certs /\ withAudit' = withAudit /\ ShapeInv' /\ SeenInv'
      /\ AnchorsAreDistinct' /\ BoundMeansBound' /\ (SetReported => SetReported')
      /\ \A i : CertReported(i) => CertReported(i)'
      /\ \A i : SignatureReported(i) => SignatureReported(i)'
      /\ \A i : TimestampReported(i) => TimestampReported(i)'
      /\ \A i : RekorReported(i) => RekorReported(i)'
  BY <1>1, <1>3, PlainReport
<1>7. \A i : Cert(i)' = Cert(i)
  BY <1>1, <1>6 DEF Cert
<1>8. turn \in Certs /\ Certs = 1 .. Len(m.certs) /\ Len(m.certs) \in Nat
  BY <1>1 DEF IInv, ReportInv, ShapeInv, Certs
<1>9. \A i \in Certs : i < turn + 1 => CertReported(i)'
  <2>1. \A i \in Certs : i < turn => CertReported(i)'
    BY <1>1, <1>6 DEF IInv, ReportInv
  <2>2. PICK t : t = turn
    OBVIOUS
  <2>3. CounterReported(t)'
    BY <1>1, <1>4, <1>5, <1>6, <1>7, <2>2 DEF CounterReported
  <2>4. SignatureReported(t)' /\ (Cert(t).object => TimestampReported(t)' /\ RekorReported(t)')
    BY <1>1, <1>6, <2>2 DEF IInv, ReportInv
  <2>5. CertReported(t)'
    BY <1>7, <2>3, <2>4 DEF CertReported
  <2> QED
    BY <2>1, <2>2, <2>5, <1>8
<1> HIDE DEF S
<1>10. ReportInv'
  <2>1. SetReported'
    BY <1>1, <1>6 DEF IInv, ReportInv
  <2>2. CASE turn < Len(m.certs)
    BY <2>1, <2>2, <1>1, <1>6, <1>8, <1>9 DEF ReportInv
  <2>3. CASE ~(turn < Len(m.certs))
    BY <2>1, <2>3, <1>1, <1>6, <1>8, <1>9 DEF ReportInv
  <2> QED
    BY <2>2, <2>3
<1>11. TypeOK' /\ GateInv' /\ VerdictInv'
  <2>1. turn' \in Nat /\ turn' \in DOMAIN m'.certs
    BY <1>1, <1>6, <1>8 DEF Certs
  <2> QED
    BY <1>1, <1>2, <1>6, <2>1 DEF IInv, TypeOK, GateInv, VerdictInv
<1> QED
  BY <1>6, <1>10, <1>11 DEF IInv

LEMMA EndInv == ASSUME IInv, End PROVE IInv'
<1> USE DEF AfterZip, AfterManifest, AfterFiles, AfterList, AfterSet, InCert
<1> DEFINE S == IF withAudit THEN auditFinish(bundle.audit, opt, Requests) ELSE {}
<1>1. /\ pc = "end" /\ report(S) /\ stop
      /\ UNCHANGED <<bundle, opt, seenVars>> /\ UNCHANGED <<turn, cleaningSteps>>
  BY DEF End, same
<1>2. Plainly(S)
  BY CounterSteps DEF Plainly
<1>3. S \subseteq steps'
  BY <1>1 DEF report
<1>4. /\ \A s \in steps' : s.status \in Statuses /\ s.blocks \in BOOLEAN
      /\ m' = m /\ Certs' = Certs /\ withAudit' = withAudit /\ ShapeInv' /\ SeenInv'
      /\ AnchorsAreDistinct' /\ BoundMeansBound' /\ (SetReported => SetReported')
      /\ \A i : CertReported(i) => CertReported(i)'
  BY <1>1, <1>2, PlainReport
<1>5. verdict' \in Verdicts /\ VerdictInv' /\ pc' = "done"
  BY <1>1, StopMeansVerdict DEF stop
<1>6. EndReported'
  <2>1. Requests' = Requests
    BY <1>4 DEF Requests
  <2> QED
    BY <1>1, <1>3, <1>4, <2>1 DEF EndReported
<1> HIDE DEF S
<1>7. SetReported' /\ \A i \in Certs' : CertReported(i)'
  BY <1>1, <1>4 DEF IInv, ReportInv
<1>8. Complete'
  BY <1>1, <1>6, <1>7 DEF Complete, IInv, GateInv
<1>9. ReportInv' /\ GateInv'
  BY <1>5, <1>8 DEF ReportInv, GateInv
<1>10. TypeOK'
  BY <1>1, <1>4, <1>5 DEF IInv, TypeOK
<1> QED
  BY <1>4, <1>5, <1>9, <1>10 DEF IInv

\* What a passing timestamp and a passing log entry have shown.
LEMMA TimestampPasses ==
  ASSUME NEW k, NEW l, NEW o, NEW S, timestamp(k, l, o, S).status \in Passing
  PROVE  /\ k.token.kind = "token" /\ k.certHash \notin S
         /\ timestamp(k, l, o, S).status = "PASS_CONTENT_BOUND" =>
              Signed(k, l) /\ k.token.imprint = DigestV1(k.certHash, k.content)
<1>1. /\ ~TimestampProblem(k, l, o, S) /\ k.token.kind = "token" /\ ~TimestampUnbound(k, l)
      /\ timestamp(k, l, o, S).status = "PASS_CONTENT_BOUND" => k.form = "v1"
  BY DEF timestamp, notAnchored, fail, skip, add, Passing
<1>2. k.certHash \notin S /\ VerifyTimestamp(k.token, expectedImprint(k)) /\ k.certHash # NoDigest
  BY <1>1 DEF TimestampProblem
<1> QED
  BY <1>1, <1>2 DEF VerifyTimestamp, expectedImprint, TimestampUnbound, HasH, Recovered, h

LEMMA RekorPasses ==
  ASSUME NEW k, NEW l, NEW o, NEW S, NEW T, rekor(k, l, o, S, T).status \in Passing
  PROVE  /\ k.rekor.kind = "entry" /\ k.rekor.index \notin S /\ k.rekor.logged \notin T
         /\ rekor(k, l, o, S, T).status = "PASS_CONTENT_BOUND" =>
              Signed(k, l) /\ k.rekor.logged = DigestV1(k.certHash, k.content)
<1>1. /\ k.rekor.kind = "entry" /\ ~RekorProblem(k, l, o, S, T)
      /\ ~ErrRekorNoBody(k.rekor, o) /\ ~RekorUnbound(k, l, o)
      /\ rekor(k, l, o, S, T).status = "PASS_CONTENT_BOUND" => BoundEntry(k, l)
  BY DEF rekor, notAnchored, fail, skip, add, Passing
<1>2. k.rekor.index \notin S /\ k.rekor.logged \notin T
  BY <1>1 DEF RekorProblem
<1> QED
  BY <1>1, <1>2 DEF BoundEntry, HasH, Recovered, h

LEMMA SignedPasses ==
  ASSUME NEW k, NEW l, NEW n, NEW o, Signed(k, l)
  PROVE  pass(l.req, "signature") \in signature(k, l, n, o)
BY DEF Signed, signature

\* What an anchor's step says, it says of the certificate whose turn it is.
LEMMA AnchorReport ==
  ASSUME IInv, NEW t, t = turn, pc \in InCert, NEW step, report({step}), UNCHANGED <<bundle, opt>>,
         step.status \in Statuses, step.blocks \in BOOLEAN, step.scope = m.certs[t].req
  PROVE  /\ \A s \in steps' : s.status \in Statuses /\ s.blocks \in BOOLEAN
         /\ m' = m /\ Certs' = Certs /\ withAudit' = withAudit /\ ShapeInv'
         /\ step \in steps' /\ steps \subseteq steps'
         /\ t \in Certs /\ Certs \subseteq Nat
         /\ \A i : Cert(i)' = Cert(i)
         /\ \A i \in Certs : \A name, statuses :
              Says(i, name, statuses)' <=>
                \/ Says(i, name, statuses)
                \/ i = t /\ name = step.name /\ step.status \in statuses
<1> USE DEF AfterZip, AfterManifest, AfterFiles, AfterList, AfterSet, InCert
<1>1. \A s \in steps' : s.status \in Statuses /\ s.blocks \in BOOLEAN
  BY DEF IInv, TypeOK, report
<1>2. m' = m /\ Certs' = Certs /\ withAudit' = withAudit /\ \A i : Cert(i)' = Cert(i)
  BY DEF m, Certs, withAudit, Cert
<1>3. ShapeInv'
  BY <1>2 DEF IInv, ShapeInv
<1>4. t \in Certs /\ Certs \subseteq Nat /\ ~CertificateListProblem(bundle)
  BY DEF IInv, ReportInv, GateInv, ShapeInv, Certs
<1>5. ASSUME NEW i \in Certs, NEW name, NEW statuses
      PROVE  Says(i, name, statuses)' <=>
               \/ Says(i, name, statuses)
               \/ i = t /\ name = step.name /\ step.status \in statuses
  <2>1. i # t => m.certs[i].req # step.scope
    BY <1>4, UniqueRequests DEF IInv
  <2> QED
    BY <1>2, <2>1 DEF Says, report
<1> QED
  BY <1>1, <1>2, <1>3, <1>4, <1>5 DEF report

LEMMA TimestampInv == ASSUME IInv, Timestamp PROVE IInv'
<1> USE DEF AfterZip, AfterManifest, AfterFiles, AfterList, AfterSet, InCert
<1> DEFINE step == timestamp(c, mc, opt, seenTSA)
<1>1. PICK t : t = turn
  OBVIOUS
<1>2. /\ pc = "timestamp" /\ report({step}) /\ pc' = "rekor" /\ verdict' = verdict
      /\ seenTSA' = IF step.status \in Passing THEN seenTSA \cup {c.certHash} ELSE seenTSA
      /\ UNCHANGED <<bundle, opt>> /\ UNCHANGED <<turn, seenRekor, seenBody, cleaningSteps>>
  BY DEF Timestamp, goto, Passed
<1>3. c = Cert(t) /\ mc = m.certs[t]
  BY <1>1 DEF c, mc, Cert
<1>4. step.status \in Statuses /\ step.blocks \in BOOLEAN /\ step.scope = mc.req
        /\ step.name = "timestamp"
  BY AnchorSteps
<1>5. step.status \in Passing =>
        /\ c.certHash \notin seenTSA
        /\ step.status = "PASS_CONTENT_BOUND" =>
             Signed(c, mc) /\ c.token.imprint = DigestV1(c.certHash, c.content)
  BY TimestampPasses
<1>6. step.status = "PASS_CONTENT_BOUND" => Says(t, "signature", {"PASS"})
  <2>1. SignatureReported(t)
    BY <1>1, <1>2 DEF IInv, ReportInv
  <2>2. ASSUME Signed(c, mc) PROVE Says(t, "signature", {"PASS"})
    <3>1. pass(mc.req, "signature") \in steps
      BY <1>3, <2>1, <2>2, SignedPasses DEF SignatureReported
    <3> QED
      BY <1>3, <3>1 DEF Says, pass, add
  <2> QED
    BY <1>5, <2>2 DEF Passing
<1>7. step = timestamp(Cert(t), m.certs[t], opt, seenTSA)
  BY <1>3
<1> HIDE DEF step
<1>8. /\ \A s \in steps' : s.status \in Statuses /\ s.blocks \in BOOLEAN
      /\ m' = m /\ Certs' = Certs /\ ShapeInv' /\ step \in steps' /\ steps \subseteq steps'
      /\ t \in Certs /\ Certs \subseteq Nat
      /\ \A i : Cert(i)' = Cert(i)
      /\ \A i \in Certs : \A name, statuses :
           Says(i, name, statuses)' <=>
             \/ Says(i, name, statuses)
             \/ i = t /\ name = "timestamp" /\ step.status \in statuses
  BY <1>1, <1>2, <1>3, <1>4, AnchorReport
<1>9. seenTSA \subseteq seenTSA'
  BY <1>2
<1>10. /\ SetReported => SetReported'
       /\ \A i : CertReported(i) => CertReported(i)'
       /\ \A i : SignatureReported(i) => SignatureReported(i)'
  BY <1>2, <1>8, <1>9, ReportGrows
<1>11. TimestampReported(t)'
  BY <1>2, <1>7, <1>8, <1>9 DEF TimestampReported
<1>12. ReportInv'
  <2>1. SetReported' /\ \A i \in Certs' : i < t => CertReported(i)'
    BY <1>1, <1>2, <1>8, <1>10 DEF IInv, ReportInv
  <2>2. SignatureReported(t)' /\ Cert(t)'.object
    BY <1>1, <1>2, <1>8, <1>10 DEF IInv, ReportInv
  <2>3. turn' = t /\ pc' = "rekor"
    BY <1>1, <1>2
  <2> QED
    BY <1>8, <1>11, <2>1, <2>2, <2>3 DEF ReportInv
<1>13. SeenInv'
  BY <1>2, <1>3, <1>8, <1>9 DEF IInv, SeenInv
<1>14. AnchorsAreDistinct'
  <2>1. ASSUME NEW i \in Certs, NEW j \in Certs, i < j,
               Says(i, "timestamp", Passing)', Says(j, "timestamp", Passing)'
        PROVE  Cert(i).certHash # Cert(j).certHash
    <3>1. i # j
      BY <1>8, <2>1
    <3>2. Says(i, "timestamp", Passing) => Cert(i).certHash \in seenTSA
      BY DEF IInv, SeenInv
    <3>3. Says(j, "timestamp", Passing) => Cert(j).certHash \in seenTSA
      BY DEF IInv, SeenInv
    <3>4. Says(i, "timestamp", Passing) \/ (i = t /\ step.status \in Passing)
      BY <1>8, <2>1
    <3>5. Says(j, "timestamp", Passing) \/ (j = t /\ step.status \in Passing)
      BY <1>8, <2>1
    <3>6. step.status \in Passing => Cert(t).certHash \notin seenTSA
      BY <1>3, <1>5
    <3>7. CASE Says(i, "timestamp", Passing) /\ Says(j, "timestamp", Passing)
      BY <2>1, <3>7 DEF IInv, AnchorsAreDistinct
    <3> QED
      BY <3>1, <3>2, <3>3, <3>4, <3>5, <3>6, <3>7
  <2>2. \A i, j \in Certs : i < j /\ Says(i, "rekor", Passing)' /\ Says(j, "rekor", Passing)' =>
          /\ Cert(i).rekor.index # Cert(j).rekor.index
          /\ Cert(i).rekor.logged # Cert(j).rekor.logged
    <3>1. \A i \in Certs : Says(i, "rekor", Passing)' <=> Says(i, "rekor", Passing)
      BY <1>8
    <3>2. AnchorsAreDistinct
      BY DEF IInv
    <3> QED
      BY <3>1, <3>2, Zenon DEF AnchorsAreDistinct
  <2> QED
    BY <1>8, <2>1, <2>2 DEF AnchorsAreDistinct
<1>15. BoundMeansBound'
  BY <1>3, <1>5, <1>6, <1>8 DEF IInv, BoundMeansBound, Passing
<1>16. TypeOK' /\ GateInv' /\ VerdictInv'
  BY <1>2, <1>8 DEF IInv, TypeOK, GateInv, VerdictInv
<1> QED
  BY <1>8, <1>12, <1>13, <1>14, <1>15, <1>16 DEF IInv

LEMMA RekorInv == ASSUME IInv, Rekor PROVE IInv'
<1> USE DEF AfterZip, AfterManifest, AfterFiles, AfterList, AfterSet, InCert
<1> DEFINE step == rekor(c, mc, opt, seenRekor, seenBody)
<1>1. PICK t : t = turn
  OBVIOUS
<1>2. /\ pc = "rekor" /\ report({step}) /\ pc' = "counter" /\ verdict' = verdict
      /\ seenRekor' = IF step.status \in Passing THEN seenRekor \cup {c.rekor.index} ELSE seenRekor
      /\ seenBody' = IF step.status \in Passing THEN seenBody \cup {c.rekor.logged} ELSE seenBody
      /\ UNCHANGED <<bundle, opt>> /\ UNCHANGED <<turn, seenTSA, cleaningSteps>>
  BY DEF Rekor, goto, Passed
<1>3. c = Cert(t) /\ mc = m.certs[t]
  BY <1>1 DEF c, mc, Cert
<1>4. step.status \in Statuses /\ step.blocks \in BOOLEAN /\ step.scope = mc.req
        /\ step.name = "rekor"
  BY AnchorSteps
<1>5. step.status \in Passing =>
        /\ c.rekor.index \notin seenRekor /\ c.rekor.logged \notin seenBody
        /\ step.status = "PASS_CONTENT_BOUND" =>
             Signed(c, mc) /\ c.rekor.logged = DigestV1(c.certHash, c.content)
  BY RekorPasses
<1>6. step.status = "PASS_CONTENT_BOUND" => Says(t, "signature", {"PASS"})
  <2>1. SignatureReported(t)
    BY <1>1, <1>2 DEF IInv, ReportInv
  <2>2. ASSUME Signed(c, mc) PROVE Says(t, "signature", {"PASS"})
    <3>1. pass(mc.req, "signature") \in steps
      BY <1>3, <2>1, <2>2, SignedPasses DEF SignatureReported
    <3> QED
      BY <1>3, <3>1 DEF Says, pass, add
  <2> QED
    BY <1>5, <2>2 DEF Passing
<1>7. step = rekor(Cert(t), m.certs[t], opt, seenRekor, seenBody)
  BY <1>3
<1> HIDE DEF step
<1>8. /\ \A s \in steps' : s.status \in Statuses /\ s.blocks \in BOOLEAN
      /\ m' = m /\ Certs' = Certs /\ ShapeInv' /\ step \in steps' /\ steps \subseteq steps'
      /\ t \in Certs /\ Certs \subseteq Nat
      /\ \A i : Cert(i)' = Cert(i)
      /\ \A i \in Certs : \A name, statuses :
           Says(i, name, statuses)' <=>
             \/ Says(i, name, statuses)
             \/ i = t /\ name = "rekor" /\ step.status \in statuses
  BY <1>1, <1>2, <1>3, <1>4, AnchorReport
<1>9. seenRekor \subseteq seenRekor' /\ seenBody \subseteq seenBody'
  BY <1>2
<1>10. /\ SetReported => SetReported'
       /\ \A i : CertReported(i) => CertReported(i)'
       /\ \A i : SignatureReported(i) => SignatureReported(i)'
       /\ \A i : TimestampReported(i) => TimestampReported(i)'
  BY <1>2, <1>8, <1>9, ReportGrows
<1>11. RekorReported(t)'
  BY <1>2, <1>7, <1>8, <1>9 DEF RekorReported
<1>12. ReportInv'
  <2>1. SetReported' /\ \A i \in Certs' : i < t => CertReported(i)'
    BY <1>1, <1>2, <1>8, <1>10 DEF IInv, ReportInv
  <2>2. SignatureReported(t)' /\ TimestampReported(t)'
    BY <1>1, <1>2, <1>8, <1>10 DEF IInv, ReportInv
  <2>3. turn' = t /\ pc' = "counter"
    BY <1>1, <1>2
  <2> QED
    BY <1>8, <1>11, <2>1, <2>2, <2>3 DEF ReportInv
<1>13. SeenInv'
  BY <1>2, <1>3, <1>8, <1>9 DEF IInv, SeenInv
<1>14. AnchorsAreDistinct'
  BY <1>3, <1>5, <1>8 DEF IInv, AnchorsAreDistinct, SeenInv
<1>15. BoundMeansBound'
  BY <1>3, <1>5, <1>6, <1>8 DEF IInv, BoundMeansBound, Passing
<1>16. TypeOK' /\ GateInv' /\ VerdictInv'
  BY <1>2, <1>8 DEF IInv, TypeOK, GateInv, VerdictInv
<1> QED
  BY <1>8, <1>12, <1>13, <1>14, <1>15, <1>16 DEF IInv

\* The invariant holds of every bundle, whatever its edits, at every check.
THEOREM Invariance == Spec => []IInv
<1>1. Init => IInv
  BY InitInv
<1>2. IInv /\ [Next]_vars => IInv'
  <2> SUFFICES ASSUME IInv, [Next]_vars PROVE IInv'
    OBVIOUS
  <2>1. CASE ReadZip \/ CheckFiles \/ CheckCertificateList
    BY <2>1, LayoutInv
  <2>2. CASE ReadManifest
    BY <2>2, ReadManifestInv
  <2>3. CASE CheckSet
    BY <2>3, CheckSetInv
  <2>4. CASE Signature
    BY <2>4, SignatureInv
  <2>5. CASE Timestamp
    BY <2>5, TimestampInv
  <2>6. CASE Rekor
    BY <2>6, RekorInv
  <2>7. CASE CheckCounter
    BY <2>7, CheckCounterInv
  <2>8. CASE End
    BY <2>8, EndInv
  <2>9. CASE UNCHANGED vars
    <3> USE <2>9 DEF vars, seenVars
    <3>1. m' = m /\ Certs' = Certs /\ withAudit' = withAudit /\ Requests' = Requests
            /\ \A i : Cert(i)' = Cert(i)
      BY DEF m, Certs, withAudit, Cert, Requests
    <3>2. TypeOK' /\ ShapeInv' /\ GateInv' /\ VerdictInv'
      BY <3>1 DEF IInv, TypeOK, ShapeInv, GateInv, VerdictInv
    <3>3. report({}) /\ Plainly({})
      BY DEF report, Plainly
    <3>4. SeenInv' /\ AnchorsAreDistinct' /\ BoundMeansBound'
      BY <3>3, AnchorsKept DEF IInv
    <3>5. Complete => Complete'
      BY <3>1, ReportGrows DEF Complete, EndReported
    <3>6. ReportInv'
      <4>1. PICK t : t = turn
        OBVIOUS
      <4>2. /\ SetReported => SetReported'
            /\ \A i : CertReported(i) => CertReported(i)'
            /\ \A i : SignatureReported(i) => SignatureReported(i)'
            /\ \A i : TimestampReported(i) => TimestampReported(i)'
            /\ \A i : RekorReported(i) => RekorReported(i)'
        BY ReportGrows
      <4>3. (Fails(steps) \/ Blocks(steps)) => (Fails(steps) \/ Blocks(steps))'
        BY DEF Fails, Blocks
      <4> QED
        BY <3>1, <3>5, <4>1, <4>2, <4>3 DEF IInv, ReportInv
    <3> QED
      BY <3>2, <3>4, <3>6 DEF IInv
  <2> QED
    BY <2>1, <2>2, <2>3, <2>4, <2>5, <2>6, <2>7, <2>8, <2>9 DEF Next
<1> QED
  BY <1>1, <1>2, PTL DEF Spec

\* The state variables keep their types.
THEOREM TypeCorrect == Spec => []TypeOK
<1>1. IInv => TypeOK
  BY DEF IInv
<1> QED
  BY <1>1, Invariance, PTL

\* An anchor is accepted for one certificate only, in whatever order the
\* certificates come and however many share it.
THEOREM AnchorsAreNotShared == Spec => []AnchorsAreDistinct
<1>1. IInv => AnchorsAreDistinct
  BY DEF IInv
<1> QED
  BY <1>1, Invariance, PTL

\* PASS_CONTENT_BOUND is only said of an anchor over the signed content of a
\* certificate that the pinned key signed.
THEOREM BoundIsBound == Spec => []BoundMeansBound
<1>1. IInv => BoundMeansBound
  BY DEF IInv
<1> QED
  BY <1>1, Invariance, PTL

(* What a VALID verdict means.                                               *)

\* Steps none of which can keep a report from being VALID.
Clean(S) == \A s \in S : s.status # "FAIL" /\ ~(s.status = "SKIPPED" /\ s.blocks)

LEMMA ValidIsComplete ==
  ASSUME IInv, Valid
  PROVE  Complete /\ Clean(steps)
<1>1. pc = "done" /\ finish(steps) = "VALID"
  BY DEF IInv, VerdictInv, Valid
<1>2. ~Fails(steps) /\ ~Blocks(steps)
  BY <1>1 DEF finish
<1> QED
  BY <1>1, <1>2 DEF IInv, ReportInv, Fails, Blocks, Clean

\* A clean report of a signature and its claims.
LEMMA CleanSignature ==
  ASSUME NEW k, NEW l, NEW n, NEW o, Clean(signature(k, l, n, o))
  PROVE  /\ k.object /\ Signed(k, l) /\ ClaimsVerified(k, l, o)
         /\ k.convs = {n.conv} /\ k.custs = {n.cust} /\ n.cust # ""
         /\ o.bindingAfter # 0 => issuedAt(k, l) # 0
<1>1. k.object /\ k.pinned /\ Signed(k, l)
  BY DEF Clean, signature, fail, add, skip
<1>2. Clean(Unrecovered(k, l, o)) /\ Clean(claimChain(k, n, o, l.req))
  BY <1>1 DEF Clean, signature
<1>3. o.bindingAfter # 0 => issuedAt(k, l) # 0
  BY <1>2 DEF Clean, Unrecovered, skip
<1>4. o.serviceKeys /\ k.chain = "ok" /\ Clean({binding(k, n, l.req)})
  BY <1>2 DEF Clean, claimChain, fail, add, skip
<1>5. /\ \A s \in k.convs : s = n.conv
      /\ \A s \in k.custs : n.cust # "" /\ s = n.cust
      /\ k.convs # {} /\ k.custs # {}
  BY <1>4 DEF Clean, binding, fail, add, skip
<1> QED
  BY <1>1, <1>3, <1>4, <1>5 DEF ClaimsVerified

LEMMA ValidSignature ==
  ASSUME IInv, Valid, NEW i \in Certs
  PROVE  Clean(signature(Cert(i), m.certs[i], m, opt))
BY ValidIsComplete DEF Complete, CertReported, SignatureReported, Clean

\* VALID certificates are intact, signed by the pinned key, and belong to the
\* conversation and the account of the manifest.
THEOREM ValidIsEarnedAlways == Spec => []ValidIsEarned
<1>1. ASSUME IInv, Valid, NEW i \in Certs
      PROVE  /\ Cert(i).object /\ Cert(i).pinned /\ Cert(i).signature /\ Cert(i).chain = "ok"
             /\ Cert(i).req = m.certs[i].req /\ Cert(i).id = m.certs[i].id
             /\ Cert(i).convs = {m.conv} /\ Cert(i).custs = {m.cust} /\ m.cust # ""
  BY <1>1, ValidSignature, CleanSignature DEF Signed, ClaimsVerified
<1>2. IInv => ValidIsEarned
  BY <1>1 DEF ValidIsEarned
<1> QED
  BY <1>2, Invariance, PTL

\* The files of a VALID bundle are exactly what its manifest lists.
THEOREM ValidIsIntactAlways == Spec => []ValidIsIntact
<1>1. ASSUME IInv, Valid PROVE ValidIsIntact
  <2>1. Complete /\ Clean(steps)
    BY <1>1, ValidIsComplete
  <2>2. \A i, j \in DOMAIN bundle.entries : bundle.entries[i].name = bundle.entries[j].name => i = j
    <3>1. ~\E i, j \in DOMAIN bundle.entries :
             i < j /\ bundle.entries[i].name = bundle.entries[j].name
      BY <2>1 DEF Complete, ZipProblem, Repeats
    <3>2. DOMAIN bundle.entries \subseteq Nat
      BY <1>1 DEF IInv, ShapeInv
    <3> QED
      BY <3>1, <3>2
  <2>3. files(bundle) \ {Manifest} = {f.path : f \in Elements(m.files)}
    BY <2>1 DEF Complete, FilesProblem, m, Elements
  <2>4. \A f \in Elements(m.files) : entry(bundle, f.path).sha = f.sha
    BY <2>1 DEF Complete, FilesProblem, m, Elements
  <2>5. files(bundle) \cap CertFiles = {k.path : k \in Elements(m.certs)}
    BY <2>1 DEF Complete, CertificateListProblem, m, Elements
  <2>6. \A i, j \in Certs : m.certs[i].req = m.certs[j].req => i = j
    BY <1>1, <2>1, UniqueRequests DEF Complete, IInv
  <2>7. m.digest = CertificatesDigest(bundle)
    BY <2>1 DEF Complete, SetReported, Clean, CertificateSet, fail, add, m
  <2> QED
    BY <2>2, <2>3, <2>4, <2>5, <2>6, <2>7 DEF ValidIsIntact
<1>2. IInv => ValidIsIntact
  BY <1>1 DEF ValidIsIntact
<1> QED
  BY <1>2, Invariance, PTL

\* What a clean report says of an anchor, after the cutover and where anchors
\* are required or claimed.
LEMMA CleanTimestamp ==
  ASSUME NEW k, NEW l, NEW o, NEW S, Clean({timestamp(k, l, o, S)})
  PROVE  LET status == timestamp(k, l, o, S).status IN
         /\ required(k, l, o) => k.form = "v1"
         /\ required(k, l, o) /\ k.token.kind = "token" => status = "PASS_CONTENT_BOUND"
         /\ o.requireAnchors \/ k.claimsAnchored => status \in Passing
<1>1. ~TimestampProblem(k, l, o, S)
  BY DEF Clean, timestamp, fail, add
<1>2. required(k, l, o) => k.form = "v1"
  BY <1>1 DEF TimestampProblem, bindingProblem
<1>3. k.token.kind = "token" =>
        timestamp(k, l, o, S).status =
          IF k.form = "v1" THEN "PASS_CONTENT_BOUND" ELSE "PASS_NOT_CONTENT_BOUND"
  BY <1>1 DEF Clean, timestamp, skip, add
<1>4. o.requireAnchors \/ k.claimsAnchored => k.token.kind = "token"
  BY <1>1 DEF Clean, timestamp, notAnchored, skip
<1> QED
  BY <1>2, <1>3, <1>4 DEF Passing

LEMMA CleanRekor ==
  ASSUME NEW k, NEW l, NEW o, NEW S, NEW T, Clean({rekor(k, l, o, S, T)}), k.pinned
  PROVE  LET status == rekor(k, l, o, S, T).status IN
         /\ required(k, l, o) /\ k.rekor.kind = "entry" => status = "PASS_CONTENT_BOUND"
         /\ o.requireAnchors \/ k.claimsAnchored => status \in Passing
<1>1. ~RekorProblem(k, l, o, S, T)
  BY DEF Clean, rekor, fail, add
<1>2. k.rekor.kind = "entry" =>
        /\ ~ErrRekorNoBody(k.rekor, o) /\ ~RekorUnbound(k, l, o)
        /\ rekor(k, l, o, S, T).status =
             IF BoundEntry(k, l) THEN "PASS_CONTENT_BOUND" ELSE "PASS_NOT_CONTENT_BOUND"
  BY <1>1 DEF Clean, rekor, skip, add
<1>3. required(k, l, o) /\ k.rekor.kind = "entry" => BoundEntry(k, l)
  BY <1>1, <1>2 DEF RekorProblem, mustBeBound
<1>4. o.requireAnchors \/ k.claimsAnchored => k.rekor.kind = "entry"
  BY <1>1 DEF Clean, rekor, notAnchored, skip
<1> QED
  BY <1>2, <1>3, <1>4 DEF Passing

\* After the cutover the anchors of a VALID bundle are bound, and required or
\* claimed anchors are there.
THEOREM ValidAnchorsAlways == Spec => []ValidAnchors
<1>1. ASSUME IInv, Valid, NEW i \in Certs
      PROVE  LET k == Cert(i) IN
             /\ opt.bindingAfter # 0 /\ k.issued > opt.bindingAfter =>
                  /\ k.form = "v1"
                  /\ k.token.kind = "token" => Says(i, "timestamp", {"PASS_CONTENT_BOUND"})
                  /\ k.rekor.kind = "entry" => Says(i, "rekor", {"PASS_CONTENT_BOUND"})
             /\ opt.requireAnchors \/ k.claimsAnchored =>
                  Says(i, "timestamp", Passing) /\ Says(i, "rekor", Passing)
  <2> DEFINE k == Cert(i)
             l == m.certs[i]
  <2>1. /\ k.object /\ Signed(k, l) /\ (opt.bindingAfter # 0 => issuedAt(k, l) # 0)
    <3>1. Clean(signature(k, l, m, opt))
      BY <1>1, ValidSignature
    <3> HIDE DEF k, l
    <3> QED
      BY <3>1, CleanSignature
  <2>2. opt.bindingAfter # 0 /\ k.issued > opt.bindingAfter => required(k, l, opt)
    BY <2>1 DEF required, issuedAt
  <2>3. TimestampReported(i) /\ RekorReported(i) /\ Clean(steps)
    BY <1>1, <2>1, ValidIsComplete DEF Complete, CertReported
  <2>4. PICK S \in SUBSET seenTSA : timestamp(k, l, opt, S) \in steps
    BY <2>3 DEF TimestampReported
  <2>5. PICK T \in SUBSET seenRekor, U \in SUBSET seenBody : rekor(k, l, opt, T, U) \in steps
    BY <2>3 DEF RekorReported
  <2>6. Clean({timestamp(k, l, opt, S)}) /\ Clean({rekor(k, l, opt, T, U)})
    BY <2>3, <2>4, <2>5 DEF Clean
  <2>7. \A statuses : timestamp(k, l, opt, S).status \in statuses => Says(i, "timestamp", statuses)
    <3> DEFINE s == timestamp(k, l, opt, S)
    <3>1. s.scope = m.certs[i].req /\ s.name = "timestamp"
      BY AnchorSteps
    <3> HIDE DEF s
    <3> QED
      BY <2>4, <3>1 DEF Says, s
  <2>8. \A statuses : rekor(k, l, opt, T, U).status \in statuses => Says(i, "rekor", statuses)
    BY <2>5, AnchorSteps DEF Says
  <2>9. k.pinned
    BY <2>1 DEF Signed
  <2> HIDE DEF k, l
  <2>10. /\ required(k, l, opt) => k.form = "v1"
         /\ required(k, l, opt) /\ k.token.kind = "token" => Says(i, "timestamp", {"PASS_CONTENT_BOUND"})
         /\ opt.requireAnchors \/ k.claimsAnchored => Says(i, "timestamp", Passing)
    BY <2>6, <2>7, CleanTimestamp
  <2>11. /\ required(k, l, opt) /\ k.rekor.kind = "entry" => Says(i, "rekor", {"PASS_CONTENT_BOUND"})
         /\ opt.requireAnchors \/ k.claimsAnchored => Says(i, "rekor", Passing)
    BY <2>6, <2>8, <2>9, CleanRekor
  <2> QED
    BY <2>2, <2>10, <2>11 DEF k
<1>2. IInv => ValidAnchors
  BY <1>1 DEF ValidAnchors
<1> QED
  BY <1>2, Invariance, PTL

\* A bundle stripped of its counter is not VALID while a signature tells of it.
THEOREM DowngradeIsNeverValid == Spec => []DowngradeIsNotValid
<1>1. ASSUME IInv, Valid, ~withAudit, NEW i \in Certs
      PROVE  \A claim \in Cert(i).claims : ~SignsCounter(claim)
  <2>1. ClaimsVerified(Cert(i), m.certs[i], opt)
    BY <1>1, ValidSignature, CleanSignature
  <2>2. Clean(noCounterEntry(Cert(i), m.certs[i], opt, FALSE))
    BY <1>1, ValidIsComplete DEF Complete, CertReported, CounterReported, Clean
  <2> QED
    BY <2>1, <2>2 DEF noCounterEntry, Clean, skip
<1>2. IInv => DowngradeIsNotValid
  BY <1>1 DEF DowngradeIsNotValid
<1> QED
  BY <1>2, Invariance, PTL

\* A certificate that matches its entry signs the number, or is a cleaning step
\* under a verified root.
LEMMA CleanEntry ==
  ASSUME NEW a, NEW k, NEW l, NEW o, NEW e,
         Clean({counterStep(k, l, o, e), certInclusion(a, k, l, o, e)})
  PROVE  \/ /\ \E claim \in k.claims : claim.seq = e.seq /\ claim.conv = e.conv
            /\ \A claim \in k.claims : claim.seq \in {0, e.seq}
         \/ /\ k.twoSigner /\ e.type = cleaningEventType
            /\ \E r \in rootOK(a, o) : r.id = e.root
<1>1. ClaimsVerified(k, l, o)
  BY DEF Clean, counterStep, skip
<1>2. CASE isCleaning(k, l, o, e)
  <2>1. cleaningStepEligible(k, l, o) /\ k.twoSigner /\ e.type = cleaningEventType
    BY <1>2 DEF isCleaning, cleaningStepEligible
  <2>2. needsCleaningEntry(k, l, o)
    BY <2>1 DEF cleaningStepEligible, needsCleaningEntry
  <2>3. Anchored(e) /\ Clean({inclusion(a, e, o, l.req)})
    BY <2>2 DEF Clean, certInclusion, skip
  <2>4. RootsOf(a, e.root) \cap rootOK(a, o) # {}
    BY <2>3 DEF Clean, inclusion, fail, add, skip
  <2> QED
    BY <2>1, <2>4 DEF RootsOf
<1>3. CASE ~isCleaning(k, l, o, e)
  <2>1. matchAuditClaim(k.claims, e) = "PASS"
    BY <1>1, <1>3 DEF Clean, counterStep, skip, fail, add
  <2>2. /\ \E claim \in k.claims : SignsCounter(claim)
        /\ \A claim \in k.claims : SignsCounter(claim) => Matches(claim, e)
    BY <2>1 DEF matchAuditClaim
  <2> QED
    BY <2>2 DEF SignsCounter, Matches
<1> QED
  BY <1>2, <1>3

\* A VALID bundle with a counter has every number of the conversation, once.
THEOREM ValidHasNoHoleAlways == Spec => []ValidHasNoHole
<1>1. ASSUME IInv, Valid, withAudit PROVE ValidHasNoHole
  <2> DEFINE a == bundle.audit
  <2>1. Complete /\ Clean(steps)
    BY <1>1, ValidIsComplete
  <2>2. Clean(newAuditVerifier(a, m, opt)) /\ Clean(auditFinish(a, opt, Requests))
    BY <1>1, <2>1 DEF Complete, SetReported, EndReported, Clean
  <2>3. \A i \in Certs : Clean(cert(a, Cert(i), m.certs[i], opt))
    BY <1>1, <2>1 DEF Complete, CertReported, CounterReported, Clean
  <2>4. parseAuditFiles(a)
    BY <2>2 DEF Clean, newAuditVerifier, fail, add
  <2>5. Clean({conversation(a, m), eventHashes(a), continuity(a)})
    BY <2>2, <2>4 DEF Clean, newAuditVerifier
  <2>6. ASSUME NEW n \in DOMAIN a.events
        PROVE  /\ a.events[n].seq = n /\ a.events[n].conv = m.conv
               /\ a.events[n].hash = EventHashV2(a.events[n])
    <3>1. a.events # <<>> /\ a.events[n] \in Elements(a.events)
      BY DEF Elements
    <3> QED
      BY <2>5, <3>1 DEF Clean, conversation, eventHashes, continuity, ofEvents, fail, add
  <2>7. \A i \in Certs : Cert(i).req = m.certs[i].req /\ m.certs[i].req # ""
    <3>1. \A i \in Certs : Cert(i).req = m.certs[i].req
      BY <1>1, ValidSignature, CleanSignature DEF Signed
    <3>2. \A i \in Certs : m.certs[i].req # ""
      BY <2>1 DEF Complete, CertificateListProblem, Certs, m
    <3> QED
      BY <3>1, <3>2
  <2>8. ASSUME NEW i \in Certs, NEW n \in DOMAIN a.events, a.events[n].req = m.certs[i].req
        PROVE  Numbered(i, n)
    <3> DEFINE e == a.events[n]
    <3>1. e \in EventsOf(a, m.certs[i].req)
      BY <2>7, <2>8 DEF EventsOf, Elements
    <3>2. Clean({counterStep(Cert(i), m.certs[i], opt, e), certInclusion(a, Cert(i), m.certs[i], opt, e)})
      <4>1. cert(a, Cert(i), m.certs[i], opt) =
              UNION {{counterStep(Cert(i), m.certs[i], opt, f),
                      certInclusion(a, Cert(i), m.certs[i], opt, f)} :
                     f \in EventsOf(a, m.certs[i].req)}
        BY <2>4, <3>1 DEF cert
      <4> QED
        BY <2>3, <3>1, <4>1 DEF Clean
    <3>3. \/ /\ \E claim \in Cert(i).claims : claim.seq = e.seq /\ claim.conv = e.conv
             /\ \A claim \in Cert(i).claims : claim.seq \in {0, e.seq}
          \/ /\ Cert(i).twoSigner /\ e.type = cleaningEventType
             /\ \E r \in rootOK(a, opt) : r.id = e.root
      BY <3>2, CleanEntry
    <3> QED
      BY <2>6, <2>7, <2>8, <3>3 DEF Numbered
  <2>9. ASSUME NEW n \in DOMAIN a.events PROVE \E i \in Certs : Numbered(i, n)
    <3>1. Missing(a, Requests) = {}
      <4>1. Missing(a, Requests) # {} =>
              skip(Bundle, "audit-certs", TRUE) \in auditFinish(a, opt, Requests)
        BY <2>4 DEF auditFinish
      <4> QED
        BY <2>2, <4>1 DEF Clean, skip
    <3>2. a.events[n].req \in Requests
      BY <3>1 DEF Missing, Elements
    <3>3. PICK i \in Certs : m.certs[i].req = a.events[n].req
      BY <3>2 DEF Requests, Elements, Certs
    <3> QED
      BY <2>8, <3>3
  <2>10. ASSUME NEW i \in Certs
         PROVE  \/ \E n \in DOMAIN a.events : Numbered(i, n)
                \/ /\ \A claim \in Cert(i).claims : claim.seq = 0
                   /\ opt.cleaningFrom # 0 /\ Cert(i).issued < opt.cleaningFrom
    <3>1. CASE EventsOf(a, m.certs[i].req) # {}
      <4>1. PICK n \in DOMAIN a.events : a.events[n].req = m.certs[i].req
        BY <3>1 DEF EventsOf, Elements
      <4> QED
        BY <2>8, <4>1
    <3>2. CASE EventsOf(a, m.certs[i].req) = {}
      <4>1. Clean(noCounterEntry(Cert(i), m.certs[i], opt, TRUE))
        BY <2>3, <2>4, <3>2 DEF cert
      <4>2. ClaimsVerified(Cert(i), m.certs[i], opt)
        BY <1>1, ValidSignature, CleanSignature
      <4>3. /\ \A claim \in Cert(i).claims : ~SignsCounter(claim)
            /\ cleaningBeforeStart(Cert(i), m.certs[i], opt)
        BY <4>1, <4>2 DEF noCounterEntry, Clean, skip, fail, add
      <4> QED
        BY <4>3 DEF SignsCounter, cleaningBeforeStart, issuedAt
    <3> QED
      BY <3>1, <3>2
  <2> QED
    BY <2>9, <2>10 DEF ValidHasNoHole
<1>2. IInv => ValidHasNoHole
  BY <1>1 DEF ValidHasNoHole
<1> QED
  BY <1>2, Invariance, PTL

(* Cleaning steps that were counted.                                         *)

\* The certificates before the n-th that the report says are cleaning steps.
Counted(n) ==
  {i \in Certs : i < n /\ CleaningStep(steps, bundle.audit, Cert(i), m.certs[i], opt)}

RequestsInv ==
  \A l \in Elements(m.certs) :
    l.path \in CertFiles \cap files(bundle) /\ Signed(bundle.cert[l.path], l) => l.req # Bundle

\* The count is that of the certificates already checked; whatever is reported
\* later is about another certificate, or about the bundle and not a shared check.
CleaningInv ==
  /\ RequestsInv
  /\ pc \notin AfterSet \cup {"done"} => turn = 0 /\ cleaningSteps = 0
  /\ pc \in InCert /\ withAudit => cleaningSteps = Cardinality(Counted(turn))
  /\ pc \in {"end", "done"} /\ withAudit /\ turn > 0 =>
       cleaningSteps = Cardinality(Counted(Len(m.certs) + 1))
  /\ cleaningSteps > 0 => rootOK(bundle.audit, opt) # {}

\* A step of this scope that disqualifies no cleaning step of another scope.
AboutStep(s, scope) == s.scope = scope /\ s.name \notin shared
About(S, scope) == \A s \in S : AboutStep(s, scope)

LEMMA AboutSteps ==
  \A scope, name : name \notin shared =>
    /\ AboutStep(pass(scope, name), scope) /\ AboutStep(fail(scope, name), scope)
    /\ \A blocks : AboutStep(skip(scope, name, blocks), scope)
BY DEF AboutStep, add, skip, pass, fail

\* A certificate's steps are about its request, the last ones about the bundle.
LEMMA AboutSignature ==
  ASSUME NEW k, NEW l, NEW n, NEW o
  PROVE  About(signature(k, l, n, o), l.req)
<1>1. /\ "signature" \notin shared /\ "claims" \notin shared /\ "binding" \notin shared
      /\ "anchor-binding" \notin shared
  BY DEF shared
<1>2. About(claimChain(k, n, o, l.req), l.req)
  BY <1>1, AboutSteps DEF About, claimChain, binding
<1>3. About(Unrecovered(k, l, o), l.req)
  BY <1>1, AboutSteps DEF About, Unrecovered
<1> QED
  BY <1>1, <1>2, <1>3, AboutSteps DEF About, signature

LEMMA AboutAnchors ==
  ASSUME NEW k, NEW l, NEW o, NEW S, NEW T
  PROVE  About({timestamp(k, l, o, S)}, l.req) /\ About({rekor(k, l, o, S, T)}, l.req)
BY AnchorSteps DEF About, AboutStep, shared

LEMMA AboutInclusion ==
  ASSUME NEW a, NEW e, NEW o, NEW scope
  PROVE  AboutStep(inclusion(a, e, o, scope), scope)
<1>1. "audit-inclusion" \notin shared
  BY DEF shared
<1> QED
  BY <1>1, AboutSteps DEF inclusion

LEMMA AboutCounter ==
  ASSUME NEW a, NEW k, NEW l, NEW o, NEW S
  PROVE  /\ About(cert(a, k, l, o), l.req) /\ About(noCounterEntry(k, l, o, FALSE), l.req)
         /\ About(auditFinish(a, o, S), Bundle)
<1>1. /\ "audit-inclusion" \notin shared /\ "audit-counter" \notin shared
      /\ "audit-certs" \notin shared
  BY DEF shared
<1>2. /\ About(noCounterEntry(k, l, o, TRUE), l.req)
      /\ About(noCounterEntry(k, l, o, FALSE), l.req)
  BY <1>1, AboutSteps DEF About, noCounterEntry
<1>3. ASSUME NEW e
      PROVE  About({counterStep(k, l, o, e), certInclusion(a, k, l, o, e)}, l.req)
  <2>1. AboutStep(counterStep(k, l, o, e), l.req)
    BY <1>1, AboutSteps DEF counterStep
  <2>2. AboutStep(certInclusion(a, k, l, o, e), l.req)
    BY <1>1, AboutSteps, AboutInclusion DEF certInclusion
  <2> QED
    BY <2>1, <2>2 DEF About
<1>4. About(cert(a, k, l, o), l.req)
  BY <1>2, <1>3 DEF About, cert
<1>5. About(auditFinish(a, o, S), Bundle)
  BY <1>1, AboutSteps, AboutInclusion DEF About, auditFinish
<1> QED
  BY <1>2, <1>4, <1>5

\* A cleaning step is signed for its request, and lies under a verified root.
LEMMA CleaningSteps ==
  ASSUME NEW S, NEW a, NEW k, NEW l, NEW o, CleaningStep(S, a, k, l, o)
  PROVE  Signed(k, l) /\ rootOK(a, o) # {}
<1>1. PICK e \in EventsOf(a, l.req) :
        cleaningMatched(k, l, o, e) /\ certInclusion(a, k, l, o, e).status = "PASS"
  BY DEF CleaningStep
<1>2. Signed(k, l)
  BY <1>1 DEF cleaningMatched, isCleaning, cleaningStepEligible, ClaimsVerified
<1>3. inclusion(a, e, o, l.req).status = "PASS"
  BY <1>1 DEF certInclusion, skip
<1>4. RootsOf(a, e.root) \cap rootOK(a, o) # {}
  BY <1>3 DEF inclusion, skip, fail, add
<1> QED
  BY <1>2, <1>4

\* Steps about another certificate, or about the bundle and not a shared check,
\* leave a cleaning step what it was.
LEMMA CleaningKept ==
  ASSUME IInv, RequestsInv, pc \in AfterSet, NEW i \in Certs,
         NEW S, NEW scope, About(S, scope), scope # m.certs[i].req \/ scope = Bundle
  PROVE  CleaningStep(steps \cup S, bundle.audit, Cert(i), m.certs[i], opt)
           <=> CleaningStep(steps, bundle.audit, Cert(i), m.certs[i], opt)
<1>1. m.certs[i] \in Elements(m.certs) /\ m.certs[i].path \in CertFiles \cap files(bundle)
  BY DEF IInv, GateInv, AfterList, CertificateListProblem, Certs, Elements, m
<1>2. Signed(Cert(i), m.certs[i]) => m.certs[i].req # Bundle
  BY <1>1 DEF RequestsInv, Cert
<1>3. CASE m.certs[i].req # Bundle
  <2>1. \A s \in S : s.scope # m.certs[i].req /\ s.name \notin shared
    BY <1>3 DEF About, AboutStep
  <2> QED
    BY <2>1 DEF CleaningStep
<1>4. CASE m.certs[i].req = Bundle
  BY <1>2, <1>4, CleaningSteps
<1> QED
  BY <1>3, <1>4

\* Certificates have different requests, so the steps of one leave the others.
LEMMA OthersKept ==
  ASSUME IInv, RequestsInv, pc \in AfterSet, NEW t \in Certs, NEW i \in Certs, i # t,
         NEW S, About(S, m.certs[t].req)
  PROVE  CleaningStep(steps \cup S, bundle.audit, Cert(i), m.certs[i], opt)
           <=> CleaningStep(steps, bundle.audit, Cert(i), m.certs[i], opt)
<1>1. m.certs[t].req # m.certs[i].req
  BY UniqueRequests DEF IInv, GateInv, AfterList
<1> QED
  BY <1>1, CleaningKept

LEMMA CertsAre1ToN ==
  ASSUME IInv
  PROVE  /\ Certs = 1 .. Len(m.certs) /\ Len(m.certs) \in Nat
         /\ \A n : IsFiniteSet(Counted(n))
<1>1. Certs = 1 .. Len(m.certs) /\ Len(m.certs) \in Nat
  BY DEF IInv, ShapeInv, Certs
<1>2. IsFiniteSet(1 .. Len(m.certs))
  BY <1>1, FS_Interval
<1> QED
  BY <1>1, <1>2, FS_Subset DEF Counted

\* Nothing that the count depends on changes, except the report.
LEMMA SameBundle ==
  ASSUME UNCHANGED <<bundle, opt>>
  PROVE  /\ m' = m /\ withAudit' = withAudit /\ Certs' = Certs
         /\ \A i : Cert(i)' = Cert(i)
         /\ RequestsInv => RequestsInv'
<1>1. m' = m
  BY DEF m
<1> QED
  BY <1>1 DEF withAudit, Certs, Cert, RequestsInv

\* The steps of the certificate being checked.
LEMMA CountKept ==
  ASSUME IInv, RequestsInv, pc \in InCert, NEW S, About(S, mc.req), report(S),
         UNCHANGED <<bundle, opt>>, UNCHANGED turn
  PROVE  Counted(turn)' = Counted(turn)
<1>1. turn \in Certs /\ pc \in AfterSet
  BY DEF IInv, ReportInv, AfterSet
<1>2. \A i \in Certs : i < turn =>
        (CleaningStep(steps', bundle.audit, Cert(i), m.certs[i], opt)
           <=> CleaningStep(steps, bundle.audit, Cert(i), m.certs[i], opt))
  <2> TAKE i \in Certs
  <2> HAVE i < turn
  <2>1. i # turn
    BY <1>1, CertsAre1ToN
  <2> QED
    BY <1>1, <2>1, OthersKept DEF mc, report
<1> QED
  BY <1>2, SameBundle DEF Counted

\* Before the certificates are looked at, nothing is counted.
LEMMA CleaningLayout ==
  ASSUME IInv, CleaningInv, ReadZip \/ ReadManifest \/ CheckFiles \/ CheckCertificateList
  PROVE  CleaningInv'
<1> USE DEF AfterSet, InCert
<1>1. /\ UNCHANGED <<bundle, opt>> /\ turn' = turn /\ cleaningSteps' = cleaningSteps
      /\ pc \in {"zip", "manifest", "files", "certificates"}
      /\ pc' \in {"manifest", "files", "certificates", "set", "done"}
  BY DEF ReadZip, ReadManifest, CheckFiles, CheckCertificateList, Gate, goto, stop, same
<1>2. turn = 0 /\ cleaningSteps = 0
  BY <1>1 DEF CleaningInv
<1> QED
  BY <1>1, <1>2, SameBundle DEF CleaningInv

LEMMA CleaningSet == ASSUME IInv, CleaningInv, CheckSet PROVE CleaningInv'
<1>1. /\ UNCHANGED <<bundle, opt>> /\ turn' = 1 /\ cleaningSteps' = cleaningSteps
      /\ pc = "set" /\ pc' = "signature"
  BY DEF CheckSet, goto, same
<1>2. cleaningSteps = 0
  BY <1>1 DEF CleaningInv, AfterSet, InCert
<1>3. Counted(turn)' = {}
  BY <1>1, CertsAre1ToN, SameBundle DEF Counted
<1> QED
  BY <1>1, <1>2, <1>3, SameBundle, FS_EmptySet DEF CleaningInv, AfterSet, InCert

\* The checks of a certificate before its counter entry count nothing.
LEMMA CleaningCert ==
  ASSUME IInv, CleaningInv, Signature \/ Timestamp \/ Rekor PROVE CleaningInv'
<1>1. /\ UNCHANGED <<bundle, opt>> /\ turn' = turn /\ cleaningSteps' = cleaningSteps
      /\ pc \in InCert /\ pc' \in InCert
  BY DEF Signature, Timestamp, Rekor, goto, same, InCert
<1>2. \E S : About(S, mc.req) /\ report(S)
  <2>1. CASE Signature
    BY <2>1, AboutSignature DEF Signature
  <2>2. CASE Timestamp
    BY <2>2, AboutAnchors DEF Timestamp
  <2>3. CASE Rekor
    BY <2>3, AboutAnchors DEF Rekor
  <2> QED
    BY <2>1, <2>2, <2>3
<1>3. Counted(turn)' = Counted(turn)
  BY <1>1, <1>2, CountKept DEF CleaningInv
<1>4. pc' \notin {"end", "done"} /\ pc' \in AfterSet
  BY <1>1 DEF InCert, AfterSet
<1> QED
  BY <1>1, <1>3, <1>4, SameBundle DEF CleaningInv

LEMMA CleaningCounter == ASSUME IInv, CleaningInv, CheckCounter PROVE CleaningInv'
<1> DEFINE now == CleaningStep(steps', bundle.audit, c, mc, opt)
           S == IF withAudit THEN cert(bundle.audit, c, mc, opt)
                ELSE noCounterEntry(c, mc, opt, FALSE)
<1>1. /\ UNCHANGED <<bundle, opt>> /\ pc = "counter" /\ report(S)
      /\ IF turn < Len(m.certs) THEN pc' = "signature" /\ turn' = turn + 1
         ELSE pc' = "end" /\ turn' = turn
  BY DEF CheckCounter, goto
<1>2. /\ withAudit => cleaningSteps' = IF now THEN cleaningSteps + 1 ELSE cleaningSteps
      /\ ~withAudit => cleaningSteps' = cleaningSteps
  BY Zenon DEF CheckCounter
<1>3. c = Cert(turn) /\ mc = m.certs[turn]
  BY DEF c, mc, Cert
<1>4. /\ turn \in Certs /\ Certs = 1 .. Len(m.certs) /\ Len(m.certs) \in Nat
      /\ \A n : IsFiniteSet(Counted(n))
  BY <1>1, CertsAre1ToN DEF IInv, ReportInv, InCert
<1>5. RequestsInv /\ RequestsInv' /\ pc \in InCert /\ pc \in AfterSet
  BY <1>1, SameBundle DEF CleaningInv, InCert, AfterSet
<1>6. About(S, mc.req)
  BY AboutCounter
<1>7. steps' = steps \cup S
  BY <1>1 DEF report
<1> HIDE DEF S
<1>8. now => rootOK(bundle.audit, opt) # {}
  BY CleaningSteps
<1>9. ASSUME NEW n, n = turn + 1
      PROVE  Counted(n)' = IF now THEN Counted(turn) \cup {turn} ELSE Counted(turn)
  <2>1. \A i \in Certs : i < turn =>
          (CleaningStep(steps', bundle.audit, Cert(i), m.certs[i], opt)
             <=> CleaningStep(steps, bundle.audit, Cert(i), m.certs[i], opt))
    <3> TAKE i \in Certs
    <3> HAVE i < turn
    <3>1. i # turn
      BY <1>4
    <3> QED
      BY <1>3, <1>4, <1>5, <1>6, <1>7, <3>1, OthersKept
  <2>2. Counted(n)' = {i \in Certs : i < turn + 1
                         /\ CleaningStep(steps', bundle.audit, Cert(i), m.certs[i], opt)}
    BY <1>1, <1>9, SameBundle DEF Counted
  <2>3. \A i \in Certs : i < turn + 1 <=> i < turn \/ i = turn
    BY <1>4
  <2>4. CASE now
    BY <1>3, <1>4, <2>1, <2>2, <2>3, <2>4 DEF Counted
  <2>5. CASE ~now
    BY <1>3, <1>4, <2>1, <2>2, <2>3, <2>5 DEF Counted
  <2> QED
    BY <2>4, <2>5
<1> HIDE DEF now
<1>10. ASSUME withAudit, NEW n, n = turn + 1
       PROVE  cleaningSteps' = Cardinality(Counted(n)')
  <2>1. cleaningSteps = Cardinality(Counted(turn)) /\ turn \notin Counted(turn)
    BY <1>4, <1>5, <1>10 DEF CleaningInv, Counted
  <2>2. CASE now
    BY <1>2, <1>4, <1>9, <1>10, <2>1, <2>2, FS_AddElement
  <2>3. CASE ~now
    BY <1>2, <1>9, <1>10, <2>1, <2>3
  <2> QED
    BY <2>2, <2>3
<1>11. cleaningSteps' > 0 => rootOK(bundle.audit, opt) # {}
  <2>1. cleaningSteps > 0 => rootOK(bundle.audit, opt) # {}
    BY DEF CleaningInv
  <2>2. cleaningSteps' = cleaningSteps \/ now
    BY <1>2
  <2> QED
    BY <1>8, <2>1, <2>2
<1>12. CASE turn < Len(m.certs)
  <2>1. pc' = "signature" /\ turn' = turn + 1
    BY <1>1, <1>12
  <2>2. withAudit' => cleaningSteps' = Cardinality(Counted(turn)')
    BY <1>1, <1>10, <2>1, SameBundle
  <2> QED
    BY <1>1, <1>5, <1>11, <2>1, <2>2 DEF CleaningInv, InCert, AfterSet
<1>13. CASE ~(turn < Len(m.certs))
  <2>1. pc' = "end" /\ turn' = turn /\ Len(m.certs) = turn /\ m' = m
    BY <1>1, <1>4, <1>13, SameBundle
  <2>2. withAudit' => cleaningSteps' = Cardinality(Counted(Len(m.certs) + 1)')
    BY <1>1, <1>10, <2>1, SameBundle
  <2> QED
    BY <1>1, <1>5, <1>11, <2>1, <2>2 DEF CleaningInv, InCert, AfterSet
<1> QED
  BY <1>12, <1>13

LEMMA CleaningEnd == ASSUME IInv, CleaningInv, End PROVE CleaningInv'
<1> DEFINE S == IF withAudit THEN auditFinish(bundle.audit, opt, Requests) ELSE {}
           all == Len(m.certs) + 1
<1>1. /\ UNCHANGED <<bundle, opt>> /\ turn' = turn /\ cleaningSteps' = cleaningSteps
      /\ pc = "end" /\ pc' = "done" /\ report(S)
  BY DEF End, stop, same
<1>2. About(S, Bundle)
  BY AboutCounter DEF About
<1>3. steps' = steps \cup S /\ RequestsInv /\ pc \in AfterSet
  BY <1>1 DEF report, CleaningInv, AfterSet
<1> HIDE DEF S
<1>4. \A i \in Certs : CleaningStep(steps', bundle.audit, Cert(i), m.certs[i], opt)
                         <=> CleaningStep(steps, bundle.audit, Cert(i), m.certs[i], opt)
  BY <1>2, <1>3, CleaningKept
<1>5. Counted(all)' = Counted(all)
  BY <1>1, <1>4, SameBundle DEF Counted
<1> QED
  BY <1>1, <1>5, SameBundle DEF CleaningInv, InCert, AfterSet

\* The steps that were counted as cleaning steps are those that the finished
\* report still accepts, and they lie under a verified root of the audit log.
THEOREM CleaningIsCounted == Spec => []CleaningStepsStayCounted
<1>1. Init => CleaningInv
  <2> SUFFICES ASSUME Init PROVE CleaningInv
    OBVIOUS
  <2>1. RequestsInv
    BY RequestsAssumption DEF Init, RequestsInv, m
  <2> QED
    BY <2>1 DEF Init, Begin, CleaningInv, InCert, AfterSet
<1>2. IInv /\ CleaningInv /\ [Next]_vars => CleaningInv'
  <2> SUFFICES ASSUME IInv, CleaningInv, [Next]_vars PROVE CleaningInv'
    OBVIOUS
  <2>1. CASE Next
    BY <2>1, CleaningLayout, CleaningSet, CleaningCert, CleaningCounter, CleaningEnd DEF Next
  <2>2. CASE UNCHANGED vars
    <3>1. UNCHANGED <<bundle, opt, pc, turn, steps, cleaningSteps>>
      BY <2>2 DEF vars
    <3>2. \A n : Counted(n)' = Counted(n)
      BY <3>1, SameBundle DEF Counted
    <3> QED
      BY <3>1, <3>2, SameBundle DEF CleaningInv
  <2> QED
    BY <2>1, <2>2
<1>3. IInv /\ CleaningInv => CleaningStepsStayCounted
  <2> SUFFICES ASSUME IInv, CleaningInv PROVE CleaningStepsStayCounted
    OBVIOUS
  <2>1. Counted(Len(m.certs) + 1) =
          {i \in Certs : CleaningStep(steps, bundle.audit, Cert(i), m.certs[i], opt)}
    BY CertsAre1ToN DEF Counted
  <2> QED
    BY <2>1 DEF CleaningInv, CleaningStepsStayCounted
<1> QED
  BY <1>1, <1>2, <1>3, Invariance, PTL DEF Spec

(* The command: a run of it is a verification as Bundle has it, so what is   *)
(* proved above of a VALID verdict holds of the bundle of every run; and what *)
(* its label leaves out was demanded.                                        *)

\* The command never interferes with the verification, so its steps are steps of
\* Bundle, under options that Bundle may be given: ImplementsVerify.
THEOREM VerifiesTheBundle == CommandSpec => Spec
<1>1. CommandInit => Init
  BY RunsAssumption DEF CommandInit, Init
<1>2. [CommandNext]_commandVars => [Next]_vars
  BY DEF CommandNext, Start, Verify, PrintReport, commandVars
<1>3. QED
  BY <1>1, <1>2, PTL DEF CommandSpec, Spec

CommandInv ==
  /\ opt = trustRoots(flags)
  /\ stage \in {"start", "verify", "exited"}
  /\ stage # "exited" => exit = ExitIncomplete
  /\ stage = "verify" => ~Informs(flags) /\ ~UsageError(flags)
  /\ exit = 0 => Informs(flags) \/ (Valid /\ ~UsageError(flags))

LEMMA StepKeepsCommandInv ==
  ASSUME CommandInv, [CommandNext]_commandVars PROVE CommandInv'
<1>1. CASE Start
  BY <1>1 DEF Start, Exit, CommandInv, vars, ExitIncomplete, Valid
<1>2. CASE Verify
  <2>1. opt' = opt
    BY <1>2 DEF Verify, Next, ReadZip, Gate, ReadManifest, CheckFiles, CheckCertificateList,
                CheckSet, Signature, Timestamp, Rekor, CheckCounter, End, same
  <2>2. QED
    BY <1>2, <2>1 DEF Verify, CommandInv, ExitIncomplete
<1>3. CASE PrintReport
  BY <1>3 DEF PrintReport, Exit, ExitCode, ExitIncomplete, CommandInv, vars, Valid
<1>4. CASE UNCHANGED commandVars
  BY <1>4 DEF commandVars, vars, CommandInv, Valid
<1>5. QED
  BY <1>1, <1>2, <1>3, <1>4 DEF CommandNext

\* The options are those that the flags ask for, and the exit code that of a report.
THEOREM CommandInvariance == CommandSpec => []CommandInv
<1>1. CommandInit => CommandInv
  BY DEF CommandInit, CommandInv, ExitIncomplete
<1>2. QED
  BY <1>1, StepKeepsCommandInv, PTL DEF CommandSpec

(* What the label leaves out.                                                *)

\* A guard that the label does not call off is the one that the options have.
LEMMA GuardsAreSet ==
  ASSUME CommandInv, ~UsageError(flags)
  PROVE  /\ "unanchored allowed" \notin Label(flags) => opt.requireAnchors
         /\ "binding cutover not enforced" \notin Label(flags) =>
              /\ opt.bindingAfter = From(flags.bindingAfter, BindingV1Cutover)
              /\ opt.bindingAfter # 0
         /\ "cleaning start not enforced" \notin Label(flags) =>
              /\ opt.cleaningFrom = From(flags.cleaningFrom, CleaningCounterStart)
              /\ opt.cleaningFrom # 0
         /\ Label(flags) = {} =>
              \A pin \in DOMAIN ProductionRoots \ {"online"} : opt[pin] = ProductionRoots[pin]
<1> USE RunsAssumption
<1>1. opt = trustRoots(flags)
  BY DEF CommandInv
<1>2. ASSUME "unanchored allowed" \notin Label(flags) PROVE opt.requireAnchors
  <2>1. ~flags.allowUnanchored /\ (Own(flags.witness) => flags.requireAnchors)
    BY <1>2 DEF Label, Names
  <2>2. QED
    BY <1>1, <2>1 DEF trustRoots, otherDeployment, applyOverrides, ProductionRoots
<1>3. ASSUME "binding cutover not enforced" \notin Label(flags)
      PROVE  /\ opt.bindingAfter = From(flags.bindingAfter, BindingV1Cutover)
             /\ opt.bindingAfter # 0
  <2>1. ~Own(flags.witness) \/ flags.bindingAfter # NotGiven
    BY <1>3 DEF Label, Names
  <2>2. opt.bindingAfter = From(flags.bindingAfter, BindingV1Cutover)
    BY <1>1, <2>1 DEF trustRoots, otherDeployment, applyOverrides, ProductionRoots, From
  <2>3. QED
    BY <2>2 DEF From, UsageError
<1>4. ASSUME "cleaning start not enforced" \notin Label(flags)
      PROVE  /\ opt.cleaningFrom = From(flags.cleaningFrom, CleaningCounterStart)
             /\ opt.cleaningFrom # 0
  <2>1. ~Own(flags.witness) \/ flags.cleaningFrom # NotGiven
    BY <1>4 DEF Label, Names
  <2>2. opt.cleaningFrom = From(flags.cleaningFrom, CleaningCounterStart)
    BY <1>1, <2>1 DEF trustRoots, otherDeployment, applyOverrides, ProductionRoots, From
  <2>3. QED
    BY <2>2 DEF From, UsageError
<1>5. ASSUME Label(flags) = {}, NEW pin \in DOMAIN ProductionRoots \ {"online"}
      PROVE  opt[pin] = ProductionRoots[pin]
  <2>1. /\ ~Own(flags.witness) /\ ~Own(flags.service) /\ ~flags.allowUnanchored
        /\ flags.bindingAfter = NotGiven /\ flags.cleaningFrom = NotGiven
    BY <1>5 DEF Label, Names
  <2>2. /\ opt.serviceKeys = TRUE /\ opt.auditKey = TRUE /\ opt.requireAnchors = TRUE
        /\ opt.bindingAfter = BindingV1Cutover /\ opt.cleaningFrom = CleaningCounterStart
    BY <1>1, <2>1 DEF trustRoots, otherDeployment, applyOverrides, ProductionRoots
  <2>3. pin \in {"serviceKeys", "auditKey", "requireAnchors", "bindingAfter", "cleaningFrom"}
    BY <1>5 DEF ProductionRoots
  <2>4. /\ ProductionRoots["serviceKeys"] = opt["serviceKeys"]
        /\ ProductionRoots["auditKey"] = opt["auditKey"]
        /\ ProductionRoots["requireAnchors"] = opt["requireAnchors"]
        /\ ProductionRoots["bindingAfter"] = opt["bindingAfter"]
        /\ ProductionRoots["cleaningFrom"] = opt["cleaningFrom"]
    BY <2>2 DEF ProductionRoots
  <2>5. QED
    BY <2>3, <2>4, Zenon
<1>6. QED
  BY <1>2, <1>3, <1>4, <1>5

\* A VALID bundle without a counter has no certificate that needs an entry.
LEMMA NoEntryNoCleaning ==
  ASSUME IInv, Valid, ~withAudit, NEW i \in Certs, opt.cleaningFrom # 0,
         needsCleaningEntry(Cert(i), m.certs[i], opt)
  PROVE  Cert(i).issued < opt.cleaningFrom
<1>1. Clean(noCounterEntry(Cert(i), m.certs[i], opt, FALSE))
  BY ValidIsComplete DEF Complete, CertReported, CounterReported, Clean
<1>2. cleaningBeforeStart(Cert(i), m.certs[i], opt)
  BY <1>1 DEF noCounterEntry, Clean, skip
<1>3. QED
  BY <1>2 DEF cleaningBeforeStart, issuedAt

\* Exit code 0 and a label that does not call a guard off: the bundle is VALID and
\* the guard was in force, from the time that was given or the built-in one.
THEOREM LabelSaysWhatIsLeftOut == CommandSpec => []WhatTheLabelLeavesOutHolds
<1>1. ASSUME CommandInv, IInv, ValidAnchors, ValidHasNoHole, exit = 0, ~Informs(flags)
      PROVE  WhatTheLabelLeavesOutHolds
  <2>1. Valid /\ ~UsageError(flags)
    BY <1>1 DEF CommandInv
  <2>2. ASSUME "unanchored allowed" \notin Label(flags), NEW i \in Certs
        PROVE  Says(i, "timestamp", Passing) /\ Says(i, "rekor", Passing)
    BY <1>1, <2>1, <2>2, GuardsAreSet DEF ValidAnchors
  <2>3. ASSUME "binding cutover not enforced" \notin Label(flags), NEW i \in Certs,
               Cert(i).issued > From(flags.bindingAfter, BindingV1Cutover)
        PROVE  Cert(i).form = "v1"
    BY <1>1, <2>1, <2>3, GuardsAreSet DEF ValidAnchors
  <2>4. ASSUME "cleaning start not enforced" \notin Label(flags), NEW i \in Certs,
               needsCleaningEntry(Cert(i), m.certs[i], opt),
               ~(Cert(i).issued < From(flags.cleaningFrom, CleaningCounterStart))
        PROVE  withAudit /\ \E n \in DOMAIN bundle.audit.events : Numbered(i, n)
    <3>1. /\ opt.cleaningFrom = From(flags.cleaningFrom, CleaningCounterStart)
          /\ opt.cleaningFrom # 0
      BY <1>1, <2>1, <2>4, GuardsAreSet
    <3>2. ~(Cert(i).issued < opt.cleaningFrom)
      BY <2>4, <3>1
    <3>3. withAudit
      BY <1>1, <2>1, <2>4, <3>1, <3>2, NoEntryNoCleaning
    <3>4. QED
      BY <1>1, <2>1, <3>2, <3>3 DEF ValidHasNoHole
  <2>5. Label(flags) = {} =>
          \A pin \in DOMAIN ProductionRoots \ {"online"} : opt[pin] = ProductionRoots[pin]
    BY <1>1, <2>1, GuardsAreSet
  <2>6. QED
    BY <2>1, <2>2, <2>3, <2>4, <2>5 DEF WhatTheLabelLeavesOutHolds
<1>2. CommandInv /\ IInv /\ ValidAnchors /\ ValidHasNoHole => WhatTheLabelLeavesOutHolds
  BY <1>1 DEF WhatTheLabelLeavesOutHolds
<1>3. QED
  BY <1>2, CommandInvariance, VerifiesTheBundle, Invariance, ValidAnchorsAlways,
     ValidHasNoHoleAlways, PTL
==============================================================================
