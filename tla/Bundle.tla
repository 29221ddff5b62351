-------------------------------- MODULE Bundle --------------------------------
(***************************************************************************)
(* The verification of one evidence bundle: Verify of                      *)
(* go/internal/bundle/verify.go, which runs the checks of Layout,          *)
(* Certificates and Counter in order, remembers the anchors it has         *)
(* accepted, and ends with a verdict.  The bundle is what somebody holds   *)
(* after any number of edits: its unsigned parts may say anything.         *)
(***************************************************************************)
EXTENDS Layout, Counter

CONSTANTS
  Bundles,  \* the bundles that may be verified, by the kind of edit they saw
  Options   \* the options and trust roots they may be verified with

ASSUME BoundsAssumption ==
  MaxBundleBytes \in Nat /\ MaxFileBytes \in Nat /\ MaxFiles \in Nat /\ ClockSkew \in Nat

ASSUME BundlesAssumption ==
  \A edit \in DOMAIN Bundles : \A b \in Bundles[edit] :
    /\ b.entries \in Seq(Elements(b.entries))
    /\ b.manifest.certs \in Seq(Elements(b.manifest.certs))

\* A listed certificate file has a content, and the witness signs for no request
\* that is named like the scope of the steps about the bundle as a whole.
ASSUME RequestsAssumption ==
  \A edit \in DOMAIN Bundles : \A b \in Bundles[edit] : \A l \in Elements(b.manifest.certs) :
    l.path \in CertFiles \cap files(b) =>
      l.path \in DOMAIN b.cert /\ (Signed(b.cert[l.path], l) => l.req # Bundle)

VARIABLES
  bundle, opt,                     \* the bundle and the options, fixed
  pc,                              \* what is checked next
  turn,                            \* the certificate being checked
  steps,                           \* the report
  seenTSA, seenRekor, seenBody,    \* anchors accepted so far
  cleaningSteps,                   \* cleaning steps accepted so far
  verdict                          \* "none" until the report is finished

seenVars == <<seenTSA, seenRekor, seenBody>>
vars == <<bundle, opt, pc, turn, steps, seenVars, cleaningSteps, verdict>>

m == bundle.manifest
withAudit == m.version = 2
mc == m.certs[turn]
c == bundle.cert[mc.path]
Requests == {mcert.req : mcert \in Elements(m.certs)}

\* Nothing is checked yet.
Begin ==
  /\ pc = "zip" /\ turn = 0 /\ steps = {} /\ verdict = "none"
  /\ seenTSA = {} /\ seenRekor = {} /\ seenBody = {} /\ cleaningSteps = 0

Init ==
  /\ \E edit \in DOMAIN Bundles : bundle \in Bundles[edit]
  /\ opt \in Options
  /\ Begin

report(S) == steps' = steps \cup S
stop == pc' = "done" /\ verdict' = finish(steps')
goto(p) == pc' = p /\ UNCHANGED verdict
same == UNCHANGED <<bundle, opt, seenVars, cleaningSteps>>

\* A bundle-level check that ends the verification when it does not pass.
Gate(step, next) ==
  /\ report({step})
  /\ IF step.status = "PASS" THEN goto(next) ELSE stop
  /\ UNCHANGED turn /\ same

ReadZip == pc = "zip" /\ Gate(readZip(bundle), "manifest")

\* Mutant: a bundle of an unknown version ends the run without a verdict.
ReadManifest_NoVerdict ==
  /\ pc = "manifest"
  /\ IF ManifestProblem(bundle) THEN report({fail(Bundle, "manifest")}) /\ stop
     ELSE UNCHANGED steps /\ goto(IF ManifestUnknown(bundle) THEN "done" ELSE "files")
  /\ UNCHANGED turn /\ same

\* A readable manifest adds no step of its own.
ReadManifest ==
  /\ pc = "manifest"
  /\ IF ManifestProblem(bundle)
     THEN report({fail(Bundle, "manifest")}) /\ stop
     ELSE IF ManifestUnknown(bundle)
     THEN report({skip(Bundle, "manifest", TRUE)}) /\ stop
     ELSE UNCHANGED steps /\ goto("files")
  /\ UNCHANGED turn /\ same

CheckFiles ==
  /\ pc = "files"
  /\ Gate(IF FilesProblem(bundle) THEN fail(Bundle, "manifest") ELSE pass(Bundle, "manifest"),
          "certificates")

CheckCertificateList ==
  /\ pc = "certificates"
  /\ Gate(IF CertificateListProblem(bundle) THEN fail(Bundle, "certificate-list")
          ELSE pass(Bundle, "certificate-list"), "set")

\* The checks of the bundle as a whole: none of them ends the verification.
CheckSet ==
  /\ pc = "set"
  /\ report({CertificateSet(bundle), Completeness(bundle)} \cup
            IF withAudit THEN newAuditVerifier(bundle.audit, m, opt) ELSE {})
  /\ goto("signature") /\ turn' = 1
  /\ same

\* Without a strict JSON object there is no anchor to look at.
Signature ==
  /\ pc = "signature"
  /\ report(signature(c, mc, m, opt))
  /\ goto(IF c.object THEN "timestamp" ELSE "counter")
  /\ UNCHANGED turn /\ same

Passed(step) == step.status \in Passing

Timestamp ==
  /\ pc = "timestamp"
  /\ LET step == timestamp(c, mc, opt, seenTSA) IN
     /\ report({step})
     /\ seenTSA' = IF Passed(step) THEN seenTSA \cup {c.certHash} ELSE seenTSA
  /\ goto("rekor")
  /\ UNCHANGED <<bundle, opt, turn, seenRekor, seenBody, cleaningSteps>>

\* Mutant: only an entry that is bound to its certificate is remembered.
Rekor_OnlyBound ==
  /\ pc = "rekor"
  /\ LET step == rekor(c, mc, opt, seenRekor, seenBody)
         bound == step.status = "PASS_CONTENT_BOUND" IN
     /\ report({step})
     /\ seenRekor' = IF bound THEN seenRekor \cup {c.rekor.index} ELSE seenRekor
     /\ seenBody' = IF bound THEN seenBody \cup {c.rekor.logged} ELSE seenBody
  /\ goto("counter")
  /\ UNCHANGED <<bundle, opt, turn, seenTSA, cleaningSteps>>

Rekor ==
  /\ pc = "rekor"
  /\ LET step == rekor(c, mc, opt, seenRekor, seenBody) IN
     /\ report({step})
     /\ seenRekor' = IF Passed(step) THEN seenRekor \cup {c.rekor.index} ELSE seenRekor
     /\ seenBody' = IF Passed(step) THEN seenBody \cup {c.rekor.logged} ELSE seenBody
  /\ goto("counter")
  /\ UNCHANGED <<bundle, opt, turn, seenTSA, cleaningSteps>>

CheckCounter ==
  /\ pc = "counter"
  /\ IF withAudit
     THEN /\ report(cert(bundle.audit, c, mc, opt))
          /\ cleaningSteps' =
               IF CleaningStep(steps', bundle.audit, c, mc, opt) THEN cleaningSteps + 1
               ELSE cleaningSteps
     ELSE report(noCounterEntry(c, mc, opt, FALSE)) /\ UNCHANGED cleaningSteps
  /\ IF turn < Len(m.certs)
     THEN goto("signature") /\ turn' = turn + 1
     ELSE goto("end") /\ UNCHANGED turn
  /\ UNCHANGED <<bundle, opt, seenVars>>

\* The steps that say what a bundle cannot show (no counter in format 1, reports
\* without a signature) block nothing and are left out.
End ==
  /\ pc = "end"
  /\ report(IF withAudit THEN auditFinish(bundle.audit, opt, Requests) ELSE {})
  /\ stop
  /\ UNCHANGED turn /\ same

Next ==
  \/ ReadZip \/ ReadManifest \/ CheckFiles \/ CheckCertificateList \/ CheckSet
  \/ Signature \/ Timestamp \/ Rekor \/ CheckCounter \/ End

Spec == Init /\ [][Next]_vars

TypeOK ==
  /\ opt \in Options
  /\ pc \in {"zip", "manifest", "files", "certificates", "set", "signature",
            "timestamp", "rekor", "counter", "end", "done"}
  /\ turn \in Nat /\ (turn = 0 \/ turn \in DOMAIN m.certs)
  /\ \A s \in steps : s.status \in Statuses /\ s.blocks \in BOOLEAN
  /\ cleaningSteps \in Nat
  /\ verdict \in Verdicts \cup {"none"}

(* What a verdict means.                                                     *)

Certs == DOMAIN m.certs
Cert(i) == bundle.cert[m.certs[i].path]
Says(i, name, statuses) ==
  \E s \in steps : s.scope = m.certs[i].req /\ s.name = name /\ s.status \in statuses
Valid == verdict = "VALID"

\* report.go:49 (ValidMeaning): VALID means that the certificates are intact,
\* signed by the pinned keys and belong to this conversation and account.
ValidIsEarned ==
  Valid => \A i \in Certs :
    /\ Cert(i).object /\ Cert(i).pinned /\ Cert(i).signature /\ Cert(i).chain = "ok"
    /\ Cert(i).req = m.certs[i].req /\ Cert(i).id = m.certs[i].id
    /\ Cert(i).convs = {m.conv} /\ Cert(i).custs = {m.cust} /\ m.cust # ""

\* VALID: the files are those the manifest lists, once each and with their
\* digests, and the certificate files are those it lists as certificates.
ValidIsIntact ==
  Valid =>
    /\ \A i, j \in DOMAIN bundle.entries :
         bundle.entries[i].name = bundle.entries[j].name => i = j
    /\ files(bundle) \ {Manifest} = {f.path : f \in Elements(m.files)}
    /\ \A f \in Elements(m.files) : entry(bundle, f.path).sha = f.sha
    /\ files(bundle) \cap CertFiles = {k.path : k \in Elements(m.certs)}
    /\ \A i, j \in Certs : m.certs[i].req = m.certs[j].req => i = j
    /\ m.digest = CertificatesDigest(bundle)

\* verify.go:687 and :805: an anchor is accepted for one certificate only.
AnchorsAreDistinct ==
  \A i, j \in Certs : i < j =>
    /\ Says(i, "timestamp", Passing) /\ Says(j, "timestamp", Passing) =>
         Cert(i).certHash # Cert(j).certHash
    /\ Says(i, "rekor", Passing) /\ Says(j, "rekor", Passing) =>
         /\ Cert(i).rekor.index # Cert(j).rekor.index
         /\ Cert(i).rekor.logged # Cert(j).rekor.logged

\* report.go:30 (PassContentBound): such an anchor commits to the signed content
\* of its certificate, which is signed by a pinned key.
BoundMeansBound ==
  \A i \in Certs : LET k == Cert(i) IN
    /\ Says(i, "timestamp", {"PASS_CONTENT_BOUND"}) =>
         k.token.imprint = DigestV1(k.certHash, k.content) /\ Says(i, "signature", {"PASS"})
    /\ Says(i, "rekor", {"PASS_CONTENT_BOUND"}) =>
         k.rekor.logged = DigestV1(k.certHash, k.content) /\ Says(i, "signature", {"PASS"})

\* roots.go:32 (BindingRequiredAfter): in a VALID bundle every certificate issued
\* after the cutover declares its anchors bound, and those it has are, also when
\* anchors are optional; and required anchors are there (roots.go:26).
ValidAnchors ==
  Valid => \A i \in Certs : LET k == Cert(i) IN
    /\ opt.bindingAfter # 0 /\ k.issued > opt.bindingAfter =>
         /\ k.form = "v1"
         /\ k.token.kind = "token" => Says(i, "timestamp", {"PASS_CONTENT_BOUND"})
         /\ k.rekor.kind = "entry" => Says(i, "rekor", {"PASS_CONTENT_BOUND"})
    /\ opt.requireAnchors \/ k.claimsAnchored =>
         Says(i, "timestamp", Passing) /\ Says(i, "rekor", Passing)

\* The number n of a certificate is signed, or its entry is a logged row of a
\* cleaning step of this conversation.
Numbered(i, n) == LET k == Cert(i) e == bundle.audit.events[n] IN
  /\ e.req = k.req /\ e.seq = n /\ e.conv = m.conv /\ e.hash = EventHashV2(e)
  /\ \/ /\ \E claim \in k.claims : claim.seq = n /\ claim.conv = m.conv
        /\ \A claim \in k.claims : claim.seq \in {0, n}
     \/ /\ k.twoSigner /\ e.type = cleaningEventType
        /\ \E r \in rootOK(bundle.audit, opt) : r.id = e.root

\* report.go:68 (CounterTailLimitReason): between request 1 and request N of a
\* conversation there is no hole: every number of a VALID bundle with a counter
\* has its certificate, and every certificate its number, except cleaning steps
\* sealed before they were counted.
ValidHasNoHole ==
  Valid /\ withAudit =>
    /\ \A n \in DOMAIN bundle.audit.events : \E i \in Certs : Numbered(i, n)
    /\ \A i \in Certs :
         \/ \E n \in DOMAIN bundle.audit.events : Numbered(i, n)
         \/ /\ \A claim \in Cert(i).claims : claim.seq = 0
            /\ opt.cleaningFrom # 0 /\ Cert(i).issued < opt.cleaningFrom

\* audit_verify.go:289: a bundle without the counter does not pass as complete
\* when a signature says that one of its requests was counted.
DowngradeIsNotValid ==
  Valid /\ ~withAudit =>
    \A i \in Certs : \A claim \in Cert(i).claims : ~SignsCounter(claim)

\* audit_verify.go:242: what was counted as a cleaning step stays one: no later
\* step of the report disqualifies it, and it lies under a verified root.
CleaningStepsStayCounted ==
  /\ pc \in {"end", "done"} /\ withAudit /\ turn > 0 =>
       cleaningSteps =
         Cardinality({i \in Certs : CleaningStep(steps, bundle.audit, Cert(i), m.certs[i], opt)})
  /\ cleaningSteps > 0 => rootOK(bundle.audit, opt) # {}
==============================================================================
