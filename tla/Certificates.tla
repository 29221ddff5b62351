----------------------------- MODULE Certificates -----------------------------
(***************************************************************************)
(* What go/internal/bundle/verify.go checks of one certificate: the        *)
(* witness signature, the claim signatures, that the claims name this      *)
(* conversation and customer, and the two anchors, go/internal/anchor.     *)
(*                                                                         *)
(* A certificate file c is a record:                                       *)
(*   object    it is one strict JSON object                                *)
(*   pinned    its witness_key_id names a pinned witness key               *)
(*   signature what VerifyCertificate says: it verifies or not             *)
(*   req, id   the signed request and certificate id                       *)
(*   content   the signed bytes (the signable)                             *)
(*   issued    issued_at, 0 when it does not parse                         *)
(*   recovered the second pipeline run yields the signed bytes again       *)
(*   chain     what VerifyCertificateChain says: "ok" (VERIFIED or         *)
(*             PARTIAL), "failed", "sealed_failed" or "refused"            *)
(*   convs, custs  the conversation and customer ids its claims sign       *)
(*   claims    its audit-signed EVENTS_RECORDED claims (Counter)           *)
(*   signers   the number of its claims per signer, [gateway, sanitizer,   *)
(*             other]; marker: a gateway claim says input-shield; twoSigner: *)
(*             the signed tier is the two-signer input shield              *)
(*   gatewayConv  the conversation its gateway claim signs, "" for none    *)
(*   claimsAnchored  its (unsigned) anchor_status says ANCHORED            *)
(*   form      the anchor form its timestamp declares: "legacy", "v1" or   *)
(*             "unknown"; certHash: its recorded digest, NoDigest unless   *)
(*             it is a SHA-256                                             *)
(*   token     [kind: "none", "garbled" or "token", imprint, time,         *)
(*             trusted]; superseded: decoder_expiry names another digest   *)
(*   rekor     [kind: "none", "garbled" or "entry", index, logged, time,   *)
(*             genuine, stored, log]; stored: body and time are in the     *)
(*             bundle; log: the log's current copy "confirms" or "refuses" *)
(*                                                                         *)
(* o are the options and trust roots: [serviceKeys, auditKey,              *)
(* requireAnchors, bindingAfter, cleaningFrom, online]; times are naturals *)
(* and 0 is Go's zero time.                                                *)
(***************************************************************************)
EXTENDS Naturals, FiniteSets, Report

CONSTANTS
  NoDigest,   \* an absent or malformed digest
  ClockSkew   \* tolerance between an anchor's time and issued_at

\* Digests are sequences: a raw one has one member, DigestV1 three.  Hashing is
\* free of collisions, so the digest that the log keeps of H stands for H.
DigestV1(certHash, signable) == <<"v1", certHash, signable>>

\* Mutant: any signed certificate will do, not the one the manifest lists.
Signed_Anyone(c, mc) == c.object /\ c.pinned /\ c.signature

Signed(c, mc) ==
  /\ c.object /\ c.pinned /\ c.signature
  /\ c.req = mc.req /\ c.id = mc.id
Recovered(c, mc) == Signed(c, mc) /\ c.recovered
issuedAt(c, mc) == IF Recovered(c, mc) THEN c.issued ELSE 0

\* The signed conversation and customer ids against the manifest's.
binding(c, m, scope) ==
  IF \/ \E s \in c.convs : s # m.conv
     \/ \E s \in c.custs : m.cust = "" \/ s # m.cust
  THEN fail(scope, "binding")
  ELSE IF c.convs = {} \/ c.custs = {} THEN skip(scope, "binding", TRUE)
  ELSE pass(scope, "binding")

claimChain(c, m, o, scope) ==
  IF ~o.serviceKeys \/ c.chain \in {"refused", "sealed_failed"}
  THEN {skip(scope, "claims", TRUE), skip(scope, "binding", TRUE)}
  ELSE IF c.chain # "ok" THEN {fail(scope, "claims")}
  ELSE {pass(scope, "claims"), binding(c, m, scope)}

\* Without the signed issued_at the cutover cannot be applied, and that blocks.
Unrecovered(c, mc, o) ==
  IF issuedAt(c, mc) = 0 /\ o.bindingAfter # 0
  THEN {skip(mc.req, "anchor-binding", TRUE)} ELSE {}

signature(c, mc, m, o) ==
  IF ~c.object THEN {fail(mc.req, "signature")}
  ELSE IF ~c.pinned THEN {skip(mc.req, "signature", TRUE)}
  ELSE IF ~Signed(c, mc) THEN {fail(mc.req, "signature")}
  ELSE {pass(mc.req, "signature")} \cup Unrecovered(c, mc, o)
         \cup claimChain(c, m, o, mc.req)

ClaimsVerified(c, mc, o) == Signed(c, mc) /\ o.serviceKeys /\ c.chain = "ok"

\* Signed facts alone decide that a certificate needs a counter entry as a
\* cleaning step; which certificate may be accepted as one is stricter.
needsCleaningEntry(c, mc, o) ==
  /\ ClaimsVerified(c, mc, o)
  /\ \/ c.marker
     \/ c.signers.gateway >= 1 /\ c.signers.sanitizer >= 1 /\ c.signers.other = 0
cleaningStepEligible(c, mc, o) ==
  /\ ClaimsVerified(c, mc, o)
  /\ c.twoSigner
  /\ c.signers = [gateway |-> 1, sanitizer |-> 1, other |-> 0]
cleaningBeforeStart(c, mc, o) ==
  /\ o.cleaningFrom # 0 /\ issuedAt(c, mc) # 0
  /\ issuedAt(c, mc) < o.cleaningFrom

(* The anchors.                                                              *)

required(c, mc, o) ==
  o.bindingAfter # 0 /\ issuedAt(c, mc) # 0 /\ issuedAt(c, mc) > o.bindingAfter

\* Mutant: the form is what the unsigned marker says, before and after the cutover.
bindingProblem_NoCutover(c, mc, o) == c.form = "unknown"

bindingProblem(c, mc, o) == c.form = "unknown" \/ (required(c, mc, o) /\ c.form # "v1")

\* The binding digest H can be recomputed, and is.
HasH(c, mc) == c.certHash # NoDigest /\ Recovered(c, mc)
h(c) == DigestV1(c.certHash, c.content)

Predates(time, c) == c.issued # 0 /\ time + ClockSkew < c.issued

notAnchored(c, o, scope, step) ==
  skip(scope, step, o.requireAnchors \/ c.claimsAnchored)

VerifyTimestamp(token, expected) == token.trusted /\ token.imprint = expected
\* Mutant: a token over the recorded digest passes as content-bound.
expectedImprint_Recorded(c) == c.certHash

expectedImprint(c) == IF c.form = "v1" THEN h(c) ELSE c.certHash

\* A bound form whose digest cannot be recomputed.
TimestampUnbound(c, mc) ==
  c.token.kind = "token" /\ c.certHash # NoDigest /\ c.form = "v1" /\ ~HasH(c, mc)

TimestampProblem(c, mc, o, seenTSA) ==
  \/ c.token.kind = "garbled"
  \/ bindingProblem(c, mc, o)
  \/ c.token.kind = "token" /\ c.certHash = NoDigest
  \/ /\ c.token.kind = "token" /\ ~TimestampUnbound(c, mc)
     /\ \/ ~VerifyTimestamp(c.token, expectedImprint(c))
        \/ Predates(c.token.time, c)
        \/ c.superseded
        \/ c.certHash \in seenTSA

timestamp(c, mc, o, seenTSA) ==
  IF TimestampProblem(c, mc, o, seenTSA) THEN fail(mc.req, "timestamp")
  ELSE IF c.token.kind # "token" THEN notAnchored(c, o, mc.req, "timestamp")
  ELSE IF TimestampUnbound(c, mc) THEN skip(mc.req, "timestamp", TRUE)
  ELSE add(mc.req, "timestamp",
           IF c.form = "v1" THEN "PASS_CONTENT_BOUND" ELSE "PASS_NOT_CONTENT_BOUND")

\* The log's copy confirms the stored entry and never replaces it; it only
\* fills in a body and a time that were never stored.
RefusedOnline(e, o) == o.online /\ e.log = "refuses"
ErrRekorNoBody(e, o) == ~e.stored /\ ~o.online

BoundEntry(c, mc) == HasH(c, mc) /\ c.rekor.logged = h(c)
mustBeBound(c, mc, o) == c.form = "v1" \/ required(c, mc, o)

\* The entry is genuine, but nothing can tell whether it is this certificate's.
RekorUnbound(c, mc, o) == mustBeBound(c, mc, o) /\ ~HasH(c, mc)

RekorProblem(c, mc, o, seenRekor, seenBody) ==
  LET e == c.rekor IN
  \/ e.kind = "garbled"
  \/ e.kind = "none" /\ bindingProblem(c, mc, o)
  \/ e.kind = "entry" /\ RefusedOnline(e, o)
  \/ /\ e.kind = "entry" /\ ~ErrRekorNoBody(e, o)
     /\ \/ ~e.genuine
        \/ Predates(e.time, c)
        \/ bindingProblem(c, mc, o)
        \/ /\ ~RekorUnbound(c, mc, o)
           /\ \/ ~BoundEntry(c, mc) /\ (mustBeBound(c, mc, o) \/ e.logged = c.certHash)
              \/ e.index \in seenRekor
              \/ e.logged \in seenBody

rekor(c, mc, o, seenRekor, seenBody) ==
  IF ~c.pinned THEN skip(mc.req, "rekor", TRUE)
  ELSE IF RekorProblem(c, mc, o, seenRekor, seenBody) THEN fail(mc.req, "rekor")
  ELSE IF c.rekor.kind # "entry" THEN notAnchored(c, o, mc.req, "rekor")
  ELSE IF ErrRekorNoBody(c.rekor, o) \/ RekorUnbound(c, mc, o) THEN skip(mc.req, "rekor", TRUE)
  ELSE add(mc.req, "rekor",
           IF BoundEntry(c, mc) THEN "PASS_CONTENT_BOUND" ELSE "PASS_NOT_CONTENT_BOUND")
==============================================================================
