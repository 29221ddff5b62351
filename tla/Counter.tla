-------------------------------- MODULE Counter --------------------------------
(***************************************************************************)
(* The audit counter of a format-2 bundle, go/internal/bundle/audit.go and *)
(* audit_verify.go: the folder audit/ lists one entry per counted request  *)
(* of the conversation, a proof that its row is a leaf of the audit log,   *)
(* and the signed and anchored roots of that log.                          *)
(*                                                                         *)
(* The folder is a record a:                                               *)
(*   shape    the three files have the documented shape                    *)
(*   events   entries in order: [seq, conv, req, type, hash, leaf, root]   *)
(*   proofs   entries in order: [seq, leaf, size, path]; path is NoPath or *)
(*            what an audit path proves, [leaf, sizes, hash, root]; sizes  *)
(*            are the tree sizes in which a path has this shape            *)
(*   roots    entries in order: [id, size, root, signed, genuine, stored,  *)
(*            log]; signed is the artifact, [size, root]; genuine:         *)
(*            signature and Rekor entry verify under the pinned audit key; *)
(*            stored and log as for a certificate's Rekor entry            *)
(* and an audit-signed claim is [req, conv, seq, hash, malformed]: seq is  *)
(* 0 when the claim signs no counter, req is "" when it signs none.        *)
(* Fields that are compared alike (event_id, event_type, source_service    *)
(* like request_id; actor, payload and previous hash like the type inside  *)
(* the event hash) are represented by one of them.                         *)
(***************************************************************************)
EXTENDS Certificates, Sequences

CONSTANTS
  NoPath,     \* an empty audit path
  NoRoot      \* the result of a path that leads to no signed root

cleaningEventType == "SENSITIVE_MODE_CERT_SEALED"

\* The hash covers every field that makes the row what it is.
EventHashV2(e) == <<e.conv, e.seq, e.req, e.type>>

Elements(s) == {s[i] : i \in DOMAIN s}
Anchored(e) == e.root # 0
noProof(p) == p.size = 0 /\ p.path = NoPath
ProofsOf(a, seq) == {p \in Elements(a.proofs) : p.seq = seq}
HasProof(a, seq) == \E p \in ProofsOf(a, seq) : ~noProof(p)
RootsOf(a, id) == {r \in Elements(a.roots) : r.id = id}
EventsOf(a, req) == {e \in Elements(a.events) : e.req = req /\ req # ""}

TwiceIn(s, Same(_, _)) == \E i, j \in DOMAIN s : i < j /\ Same(s[i], s[j])

\* One counted event per request, one proof per number, one root per id.
parseAuditFiles(a) ==
  /\ a.shape
  /\ \A e \in Elements(a.events) : e.seq >= 1
  /\ ~TwiceIn(a.events, LAMBDA e, f : e.hash = f.hash \/ (e.req = f.req /\ e.req # ""))
  /\ ~TwiceIn(a.proofs, LAMBDA p, q : p.seq = q.seq)
  /\ \A r \in Elements(a.roots) : r.id >= 1 /\ r.size >= 1
  /\ ~TwiceIn(a.roots, LAMBDA r, s : r.id = s.id)

\* References between the files; of a repeated number only the first entry counts.
FirstOfItsNumber(a, i) == \A j \in 1 .. i - 1 : a.events[j].seq # a.events[i].seq
auditReferenceProblems(a) ==
  \/ \E i \in DOMAIN a.events : LET e == a.events[i] IN
       /\ FirstOfItsNumber(a, i)
       /\ \/ Anchored(e) # HasProof(a, e.seq)
          \/ Anchored(e) /\ RootsOf(a, e.root) = {}
  \/ \E p \in Elements(a.proofs) : \A e \in Elements(a.events) : e.seq # p.seq

\* A bundle-level check that has nothing to check without a counted request.
ofEvents(a, name, ok) ==
  IF a.events = <<>> THEN skip(Bundle, name, FALSE)
  ELSE IF ok THEN pass(Bundle, name) ELSE fail(Bundle, name)

conversation(a, m) ==
  ofEvents(a, "audit-binding", \A e \in Elements(a.events) : e.conv = m.conv)
eventHashes(a) ==
  ofEvents(a, "audit-event-hash", \A e \in Elements(a.events) : e.hash = EventHashV2(e))

\* The numbers are 1..N, in this order.
continuity(a) ==
  ofEvents(a, "audit-continuity", \A i \in DOMAIN a.events : a.events[i].seq = i)

\* The roots that verify, and only them, say what a tree size and a root are.
RefusedRoot(r, o) == o.online /\ r.log = "refuses"
rootOK(a, o) ==
  {r \in Elements(a.roots) :
     o.auditKey /\ ~RefusedRoot(r, o) /\ (r.stored \/ o.online) /\ r.genuine
       /\ r.signed = [size |-> r.size, root |-> r.root]}

roots(a, o) ==
  IF a.roots = <<>> THEN {skip(Bundle, "audit-root", FALSE)}
  ELSE {IF ~o.auditKey THEN skip(Bundle, "audit-root", TRUE)
        ELSE IF r \in rootOK(a, o) THEN pass(Bundle, "audit-root")
        ELSE fail(Bundle, "audit-root") : r \in Elements(a.roots)}

newAuditVerifier(a, m, o) ==
  IF ~parseAuditFiles(a) THEN {fail(Bundle, "audit-files")}
  ELSE {IF auditReferenceProblems(a) THEN fail(Bundle, "audit-files")
        ELSE pass(Bundle, "audit-files"),
        conversation(a, m), eventHashes(a), continuity(a)} \cup roots(a, o)

\* The bundle carries a root, a proof or a row that names a root.
anchored(a) ==
  \/ a.roots # <<>>
  \/ \E p \in Elements(a.proofs) : ~noProof(p)
  \/ \E e \in Elements(a.events) : Anchored(e)

\* The root that a path leads to from this row, at this place of a tree of this
\* size: from any other row or place, or in a tree of another shape, none.
AuditInclusionRoot(leaf, size, hash, path) ==
  IF /\ path # NoPath
     /\ leaf < size /\ size \in path.sizes /\ path.leaf = leaf /\ path.hash = hash
  THEN path.root ELSE NoRoot

\* Size and root come only from the signed artifact of a root that verified; the
\* proof's own size and leaf must equal them and are never used in their place.
Included(a, e, o) ==
  \E r \in RootsOf(a, e.root) \cap rootOK(a, o), p \in ProofsOf(a, e.seq) :
    /\ p.size = r.signed.size
    /\ p.leaf = e.leaf
    /\ AuditInclusionRoot(e.leaf, r.signed.size, e.hash, p.path) = r.signed.root

inclusion(a, e, o, scope) ==
  IF ~Anchored(e) THEN skip(scope, "audit-inclusion", anchored(a) \/ o.requireAnchors)
  ELSE IF RootsOf(a, e.root) = {} \/ ~HasProof(a, e.seq)
  THEN fail(scope, "audit-inclusion")
  ELSE IF RootsOf(a, e.root) \cap rootOK(a, o) = {}
  THEN skip(scope, "audit-inclusion", TRUE)
  ELSE IF Included(a, e, o) THEN pass(scope, "audit-inclusion")
  ELSE fail(scope, "audit-inclusion")

(* Matching a certificate with its counter entry.                            *)

SignsCounter(claim) == claim.seq # 0
Matches(claim, e) ==
  /\ claim.hash = e.hash /\ claim.seq = e.seq /\ claim.conv = e.conv
  /\ claim.req \in {"", e.req}

\* Mutant: one matching claim is enough, whatever the others sign.
matchAuditClaim_AnyOf(claims, e) ==
  IF \E k \in claims : SignsCounter(k) /\ Matches(k, e) THEN "PASS"
  ELSE IF \E k \in claims : k.hash = e.hash THEN "SKIPPED" ELSE "FAIL"

\* PASS: a signature states this conversation and this number, and none another.
matchAuditClaim(claims, e) ==
  IF \/ \E k \in claims : k.malformed
     \/ \E k \in claims : SignsCounter(k) /\ ~Matches(k, e)
     \/ \A k \in claims : ~SignsCounter(k) /\ k.hash # e.hash
  THEN "FAIL"
  ELSE IF \E k \in claims : SignsCounter(k) THEN "PASS" ELSE "SKIPPED"

\* The only exception to the signed number: a cleaning step of two signers.
isCleaning(c, mc, o, e) == cleaningStepEligible(c, mc, o) /\ e.type = cleaningEventType
cleaningMatched(c, mc, o, e) ==
  isCleaning(c, mc, o, e) /\ c.gatewayConv # "" /\ e.conv = c.gatewayConv

counterStep(c, mc, o, e) ==
  LET named(ok) == IF ok THEN pass(mc.req, "audit-counter") ELSE fail(mc.req, "audit-counter")
      unknown == skip(mc.req, "audit-counter", TRUE)
      st == matchAuditClaim(c.claims, e) IN
  IF ~ClaimsVerified(c, mc, o) THEN unknown
  ELSE IF isCleaning(c, mc, o, e)
  THEN IF c.gatewayConv = "" THEN unknown ELSE named(e.conv = c.gatewayConv)
  ELSE IF c.claims = {} THEN unknown
  ELSE IF st = "SKIPPED" \/ (st = "PASS" /\ needsCleaningEntry(c, mc, o)) THEN unknown
  ELSE named(st = "PASS")

\* A cleaning step needs inclusion under an anchored root, whatever the options.
certInclusion(a, c, mc, o, e) ==
  IF needsCleaningEntry(c, mc, o) /\ ~Anchored(e)
  THEN skip(mc.req, "audit-inclusion", TRUE)
  ELSE inclusion(a, e, o, mc.req)

\* Mutant: without a counter in the bundle there is nothing to check.
noCounterEntry_Format2Only(c, mc, o, inAuditBundle) ==
  IF inAuditBundle THEN {skip(mc.req, "audit-counter", TRUE)} ELSE {}

\* A certificate without a counter entry, in a format-2 bundle or in format 1,
\* where a step is added only if a signed fact calls for an entry.
noCounterEntry(c, mc, o, inAuditBundle) ==
  LET claims == IF ClaimsVerified(c, mc, o) THEN c.claims ELSE {}
      counted == \E k \in claims : SignsCounter(k) IN
  IF inAuditBundle /\ (counted \/ \E k \in claims : k.malformed)
  THEN {fail(mc.req, "audit-counter")}
  ELSE IF counted THEN {skip(mc.req, "audit-counter", TRUE)}
  ELSE IF needsCleaningEntry(c, mc, o) /\ cleaningBeforeStart(c, mc, o) THEN {}
  ELSE IF inAuditBundle \/ (needsCleaningEntry(c, mc, o) /\ o.cleaningFrom # 0)
  THEN {skip(mc.req, "audit-counter", TRUE)} ELSE {}

cert(a, c, mc, o) ==
  IF ~parseAuditFiles(a) THEN {}
  ELSE IF EventsOf(a, mc.req) = {} THEN noCounterEntry(c, mc, o, TRUE)
  ELSE UNION {{counterStep(c, mc, o, e), certInclusion(a, c, mc, o, e)} :
                e \in EventsOf(a, mc.req)}

\* The bundle-level steps that a counted cleaning step rests on.
shared == {"audit-files", "audit-binding", "audit-event-hash", "audit-continuity"}

\* Mutant: a matching entry is counted before its inclusion is looked at.
CleaningStep_NotIncluded(steps, a, c, mc, o) ==
  parseAuditFiles(a) /\ \E e \in EventsOf(a, mc.req) : cleaningMatched(c, mc, o, e)

\* An accepted cleaning step: its entry matches and is included, and no step of
\* its own or of the shared checks failed or blocks.
CleaningStep(steps, a, c, mc, o) ==
  /\ parseAuditFiles(a)
  /\ \E e \in EventsOf(a, mc.req) :
       cleaningMatched(c, mc, o, e) /\ certInclusion(a, c, mc, o, e).status = "PASS"
  /\ ~\E s \in steps :
        /\ s.scope = mc.req \/ (s.scope = Bundle /\ s.name \in shared)
        /\ s.status = "FAIL" \/ s.blocks

\* Counted requests without a certificate in the bundle.
Missing(a, seen) == {e \in Elements(a.events) : e.req \notin seen}

auditFinish(a, o, seen) ==
  IF ~parseAuditFiles(a) THEN {}
  ELSE {inclusion(a, e, o, Bundle) : e \in Missing(a, seen)} \cup
       {IF Missing(a, seen) # {} THEN skip(Bundle, "audit-certs", TRUE)
        ELSE IF a.events = <<>> THEN skip(Bundle, "audit-certs", FALSE)
        ELSE pass(Bundle, "audit-certs")}
==============================================================================
