--------------------------------- MODULE Chain ---------------------------------
(***************************************************************************)
(* verifyCertificateChain: RunChain of go/internal/verify/chain.go, whose  *)
(* ordered steps 1 to 9e the TypeScript and Python SDKs repeat one by one. *)
(*                                                                         *)
(* The witness signs the ids of the claims, each service signs its own     *)
(* claim, and nothing signs the rest: the label cert_tier, the version     *)
(* number, the typed mirrors of the claims, the stored request bodies.     *)
(*                                                                         *)
(* To the members that module Certificate names, a certificate has         *)
(*   tier        verification.cert_tier                                    *)
(* and each claim                                                          *)
(*   claim_type, data_seen                                                 *)
(*   canonical_payload   [base64, json, payload, flat], and also strict    *)
(*               (one strict document), variant (a key is the variant of   *)
(*               one that the recipe reads), exact (its bytes are the      *)
(*               canonical ones, with the eight members only), pointers    *)
(*               (bytes of its pointers), the outer members it repeats     *)
(*   signature   [canonical, by, over]                                     *)
(*   kinds       the typed mirrors that are there                          *)
(*   typed       the members of the typed mirror, Absent where missing     *)
(*   bodies      its upstream_request_bodies                               *)
(* A body is named by its digest.                                          *)
(***************************************************************************)
EXTENDS CertTier

Go == INSTANCE GoPipeline

CONSTANTS
  Issued,      \* the certificates that were issued
  Values,      \* per member of a certificate, what it may be changed to
  ClaimValues, \* per member of a claim, what it may be changed to
  Claims,      \* the claims of all certificates, which may change places
  Asks,        \* what callers ask: [minV3, request, certificate], Null if not given
  Services,    \* the pinned key of each service
  Witness,     \* the pinned key of the witness
  WitnessKeyID,
  Digests,     \* the digests of request bodies
  MaxEdits,    \* bound: the members that change
  MaxChainValuesPointerBytes

ASSUME MaxEditsAssumption == MaxEdits \in Nat
ASSUME PointersAssumption == MaxChainValuesPointerBytes \in Nat

Members ==
  {"id", "request", "keyId", "sig", "v3sig", "issued", "protocol", "emitted", "claims",
   "verdict", "byok", "client", "apiKey", "tier"}
ClaimMembers ==
  {"claim_id", "request_id", "service_id", "claim_type", "data_seen", "canonical_payload",
   "signature", "kinds", "typed", "bodies"}

\* The lists of claims and the claims that there are, and what a member may be.
Lists ==
  {h.claims : h \in Issued}
    \cup (IF "claims" \in DOMAIN Values THEN Values["claims"] \ {Other} ELSE {})
AllClaims ==
  (Claims \cup UNION {{list[j] : j \in DOMAIN list} : list \in Lists}) \ {Other}
Held(member) ==
  {h[member] : h \in Issued} \cup (IF member \in DOMAIN Values THEN Values[member] ELSE {})
HeldInClaims(member) ==
  {claim[member] : claim \in AllClaims}
    \cup (IF member \in DOMAIN ClaimValues THEN ClaimValues[member] ELSE {})

(* The data are those described above.                                       *)
ASSUME DataAssumption ==
  /\ DOMAIN Values \subseteq Members /\ \A h \in Issued : DOMAIN h = Members
  /\ DOMAIN ClaimValues \subseteq ClaimMembers
  /\ \A claim \in AllClaims : DOMAIN claim = ClaimMembers
  /\ \A list \in Lists : list \in Seq({list[j] : j \in DOMAIN list})
  /\ \A doc \in HeldInClaims("canonical_payload") \ NoString : doc.pointers \in Nat

(* Ed25519: what verifies under the pinned key of the witness, the witness   *)
(* has signed.                                                               *)
ASSUME WitnessAssumption ==
  \A text \in (Held("sig") \cup Held("v3sig")) \ NoString :
    text.by = Witness =>
      \E h \in Issued :
        \/ text.over = SignedV2(h)
        \/ h.v3sig # Absent /\ text.over = SignedV3(h)

VARIABLES
  cert,     \* what the verifier gets
  edits,    \* how many members have changed
  ask,      \* what the caller asks, Null before the call
  at,       \* the next part of the recipe
  i,        \* the claims of the loop so far
  pointers, \* valuesBytes so far
  result    \* what the caller gets

vars == <<cert, edits, ask, at, i, pointers, result>>

------------------------------------------------------------------------------
(* Steps 1 to 6: the certificate and its witness.                            *)

\* An integer token within the bounds of 32 bits.
ChainInteger(v) == v \notin NoNumber /\ v.token = "integer" /\ v.value # MaxUint64

WellShaped(claim) ==
  claim # Other /\ claim.claim_id \notin NoString /\ claim.service_id \notin NoString

Shape(c) ==
  /\ c.id \notin NoString /\ c.request \notin NoString /\ c.keyId \notin NoString
  /\ c.issued \notin NoString /\ c.verdict \notin NoString
  /\ ChainInteger(c.protocol)
  /\ c.emitted \in {Absent, Null} \/ ChainInteger(c.emitted)
  /\ c.byok \in {Absent, Null} \cup BOOLEAN
  /\ Other \notin {c.tier, c.v3sig, c.sig, c.client, c.apiKey, c.claims}
  /\ DOMAIN c.claims # {} /\ \A j \in DOMAIN c.claims : WellShaped(c.claims[j])

v3present(c) == c.v3sig \notin NoString \cup {Blank}

\* Mutant: only the form that is signed is read.
ChainIssuedAt_SignedForm(t) == t.form = "nano"

ChainIssuedAt(t) == t.form \in {"nano", "padded", "offset"}

v2(c) ==
  [certificate_id |-> c.id, request_id |-> c.request, protocol_version |-> 2,
   claim_ids |-> ClaimIds(c.claims), issued_at |-> [c.issued EXCEPT !.form = "nano"],
   overall_verdict |-> IF c.verdict \in DOMAIN VerdictShort THEN VerdictShort[c.verdict]
                       ELSE c.verdict,
   witness_key_id |-> c.keyId]

\* Read from the first sanitizer claim before its signature is checked.
chainSanitizerHash(c, key) ==
  LET n == SanitizerClaim(c.claims)
      p == c.claims[n].canonical_payload
  IN IF n = 0 THEN Null
     ELSE IF p \in NoString \/ p.base64 # "canonical" \/ p.json # "object" \/ ~p.strict THEN Null
     ELSE NonEmpty((IF p.payload \in NoString \cup {List} THEN p.flat ELSE p.payload)[key])

v3(c) ==
  LET orNull(v) == IF v = Absent THEN Null ELSE v
  IN [certificate_id |-> c.id, request_id |-> c.request, protocol_version |-> 2,
      claim_ids |-> ClaimIds(c.claims), issued_at |-> v2(c).issued_at,
      overall_verdict |-> v2(c).overall_verdict, witness_key_id |-> c.keyId,
      client_id |-> orNull(c.client), api_key_id |-> orNull(c.apiKey),
      byok_exempt |-> (c.byok = TRUE),
      redaction_manifest_hash |-> chainSanitizerHash(c, "redaction_manifest_hash"),
      sanitized_fields_body_hash |-> chainSanitizerHash(c, "sanitized_fields_hash"),
      tms_manifest_hash |-> chainSanitizerHash(c, "tms_manifest_hash")]

chainStrictVerify(key, message, text) ==
  /\ text \notin NoString \cup {Blank} /\ text.canonical
  /\ text.by = key /\ text.over = message

\* Mutant: with a v3 signature the older one is not looked at.
WitnessV2_WithoutV3(c) == v3present(c) \/ chainStrictVerify(Witness, v2(c), c.sig)

WitnessV2(c) == chainStrictVerify(Witness, v2(c), c.sig)
WitnessV3(c) == v3present(c) => chainStrictVerify(Witness, v3(c), c.v3sig)

Unique(ids) == \A j, k \in DOMAIN ids : ids[j] = ids[k] => j = k

Bound(c, a) == a.request \in {Null, c.request} /\ a.certificate \in {Null, c.id}

\* The step that decides, "pass" if none does.
WitnessSteps(c, a) ==
  IF ~Shape(c) THEN "1"
  ELSE IF c.protocol.value # 2 THEN "2"
  ELSE IF c.keyId # WitnessKeyID THEN "3"
  ELSE IF (c.emitted \notin {Absent, Null} /\ c.emitted.value >= 3) # v3present(c) THEN "4"
  ELSE IF ~ChainIssuedAt(c.issued) THEN "5a"
  ELSE IF ~WitnessV2(c) THEN "5b"
  ELSE IF ~WitnessV3(c) THEN "5c"
  ELSE IF a.minV3 /\ ~v3present(c) THEN "5d"
  ELSE IF ~Bound(c, a) THEN "5e"
  ELSE IF c.verdict = "VERDICT_FAILED" THEN "6a"
  ELSE IF c.verdict \notin {"VERDICT_VERIFIED", "VERDICT_PARTIAL"} THEN "6b"
  ELSE IF ~Unique(ClaimIds(c.claims)) THEN "6c"
  ELSE "pass"

------------------------------------------------------------------------------
(* Step 7: one claim.                                                        *)

chainClaimTypeNames ==
  {"CLAIM_TYPE_TOKEN_GENERATED", "CLAIM_TYPE_PII_SANITIZED",
   "CLAIM_TYPE_INFERENCE_COMPLETED", "CLAIM_TYPE_EVENTS_RECORDED"}

\* A claim type without a name is signed as none.
TypeName(claim) == IF claim.claim_type \in chainClaimTypeNames THEN claim.claim_type ELSE ""

\* Per claim type: its typed mirror, and the keys that are signed beside one.
chainTypedKinds ==
  [CLAIM_TYPE_TOKEN_GENERATED |->
     [key |-> "bridge", requires |-> {"token_hash", "encryption_enabled"}],
   CLAIM_TYPE_PII_SANITIZED |->
     [key |-> "sanitizer", requires |-> {"pii_entities_found", "layers_active", "qi_score"}],
   CLAIM_TYPE_INFERENCE_COMPLETED |->
     [key |-> "inference",
      requires |-> {"response_hash", "isolation_probe", "model_used", "inference_outcome"}],
   CLAIM_TYPE_EVENTS_RECORDED |->
     [key |-> "audit", requires |-> {"chain_head_hash", "chain_length"}]]

chainOptString(v) == IF v \in {Absent, Null} THEN "" ELSE v
chainStrList(v) == IF v \in {Absent, Null} THEN <<>> ELSE v

chainUserUnredactedTok == "user_unredacted_segment"
HasToken(layers) ==
  layers \notin NoString /\ \E n \in DOMAIN layers : layers[n] = chainUserUnredactedTok

\* What a missing member of a mirror says: the zero of its type.
Zero ==
  [token_hash |-> "", encryption_enabled |-> FALSE, pii_entities_found |-> 0,
   model_used |-> "", chain_head_hash |-> "", chain_length |-> 0]

\* Compared only if the claim signs a value of the right type.
WhenSigned ==
  [bridge |-> {"token_hash", "encryption_enabled"}, sanitizer |-> {"pii_entities_found"},
   inference |-> {"model_used"}, audit |-> {"chain_head_hash", "chain_length"}]
\* There in the mirror if and only if the claim signs it.
Both == [bridge |-> {}, sanitizer |-> {"qi_score"}, inference |-> {"response_hash"}, audit |-> {}]

chainProbeEnum == {"VERIFIED", "BREACHED", "LOCKED", "BYOK_EXEMPT"}

ProbeBound(signed, typed) ==
  /\ typed # Other
  /\ IF signed \notin NoString
     THEN (IF typed \in {Absent, Null} THEN "UNKNOWN" ELSE typed)
            = (IF signed \in chainProbeEnum THEN signed ELSE "UNKNOWN")
     ELSE typed \notin {"VERIFIED", "BYOK_EXEMPT"}

MirrorBound(kind, p, t) ==
  /\ \A key \in WhenSigned[kind] : p[key] \notin NoString =>
       (IF t[key] \in {Absent, Null} THEN Zero[key] ELSE t[key]) = p[key]
  /\ \A key \in Both[kind] :
       IF p[key] \in NoString THEN t[key] \in {Absent, Null} ELSE t[key] = p[key]
  /\ kind = "inference" => /\ ProbeBound(p["isolation_probe"], t["isolation_probe"])
                           /\ t["model_used"] # Other
  /\ kind = "sanitizer" =>
       LET signed == p["layers_active"]
           typed == t["layers_active"]
       IN Other \notin {signed, typed} /\ chainStrList(signed) = chainStrList(typed)

chainTypedBound(claim) ==
  LET p == chainSignedPayload(claim)
      named == TypeName(claim) # ""
      kind == chainTypedKinds[claim.claim_type]
  IN /\ Cardinality(claim.kinds) <= 1 /\ claim.typed # Other
     /\ claim.kinds # {} => named /\ claim.kinds = {kind.key}
     /\ claim.kinds = {} /\ named => \A key \in kind.requires : p[key] = Absent
     /\ HasToken(p["layers_active"]) => claim.kinds = {"sanitizer"}
     /\ \A k \in claim.kinds : MirrorBound(k, p, claim.typed)

\* The signed bytes are those of the outer fields, the payload and the time.
Rebuilt(claim) ==
  LET doc == claim.canonical_payload
  IN /\ Other \notin {claim.data_seen, claim.request_id} /\ doc.exact
     /\ doc.claim_id = claim.claim_id /\ doc.service_id = claim.service_id
     /\ doc.request_id = chainOptString(claim.request_id)
     /\ doc.claim_type = TypeName(claim)
     /\ doc.data_seen = chainStrList(claim.data_seen)

\* Nothing there is the text of no bytes.
chainB64(v, canonical) == v \in {Absent, Null} \/ (v # Other /\ canonical)

SignedBy(key, claim) ==
  /\ claim.canonical_payload \notin NoString
  /\ chainStrictVerify(key, claim.canonical_payload, claim.signature)

\* Mutant: any pinned key will do.
OwnSignature_AnyKey(claim) == \E s \in DOMAIN Services : SignedBy(Services[s], claim)

OwnSignature(claim) == SignedBy(Services[claim.service_id], claim)

\* Mutant: the pointers are counted claim by claim.
StrictDocument_PerClaim(doc, sofar) ==
  /\ doc.json = "object" /\ doc.strict /\ ~doc.variant
  /\ doc.pointers <= MaxChainValuesPointerBytes

StrictDocument(doc, sofar) ==
  /\ doc.json = "object" /\ doc.strict /\ ~doc.variant
  /\ sofar + doc.pointers <= MaxChainValuesPointerBytes

ClaimSteps(c, claim, sofar) ==
  LET doc == claim.canonical_payload
      sig == claim.signature
  IN IF claim.service_id \notin DOMAIN Services THEN "7a"
     ELSE IF ~chainB64(doc, doc.base64 = "canonical") THEN "7b"
     ELSE IF ~chainB64(sig, sig.canonical) THEN "7b"
     ELSE IF ~OwnSignature(claim)
     THEN IF \E s \in DOMAIN Services \ {claim.service_id} : SignedBy(Services[s], claim)
          THEN "7c" ELSE "7d"
     ELSE IF ~StrictDocument(doc, sofar) THEN "7e"
     ELSE IF \A j \in DOMAIN c.claims : doc.claim_id # c.claims[j].claim_id THEN "7f"
     ELSE IF ~Rebuilt(claim) THEN "7g"
     ELSE IF doc.request_id # c.request THEN "7h"
     ELSE IF ~chainTypedBound(claim) THEN "7i"
     ELSE "pass"

------------------------------------------------------------------------------
(* Step 8: the claims together.                                              *)

DigestClaims(c) ==
  {j \in Of(c.claims, "dsa-ai") :
     Inference(c.claims[j]) /\ chainSignedPayload(c.claims[j])["upstream_body_sha256"] # Absent}

SignedDigests(claim) == chainSignedPayload(claim)["upstream_body_sha256"]
WellFormedDigests(d) == d \notin NoString /\ d # <<>> /\ \A n \in DOMAIN d : d[n] \in Digests

bodiesOf(claim) ==
  IF "inference" \in claim.kinds /\ claim.bodies \notin {Absent, Null} THEN claim.bodies ELSE <<>>

\* Mutant: bodies may be on any claim of the ai service.
BodiesUnbound_AiClaims(c) ==
  \E j \in DOMAIN c.claims : bodiesOf(c.claims[j]) # <<>> /\ j \notin Of(c.claims, "dsa-ai")

BodiesUnbound(c) ==
  \E j \in DOMAIN c.claims :
    \/ bodiesOf(c.claims[j]) = Other
    \/ bodiesOf(c.claims[j]) # <<>> /\ j \notin DigestClaims(c)

EgressSteps(c) ==
  IF \/ Cardinality(DigestClaims(c)) > 1
     \/ \E j \in DigestClaims(c) : ~WellFormedDigests(SignedDigests(c.claims[j]))
  THEN "8a"
  ELSE IF BodiesUnbound(c) THEN "8b"
  ELSE IF \E j \in DigestClaims(c) :
            bodiesOf(c.claims[j]) \notin {<<>>, SignedDigests(c.claims[j])}
  THEN "8c"
  ELSE IF ~chainCertTier(c.claims, Label(c.tier), c.verdict).passes THEN "8d"
  ELSE "pass"

------------------------------------------------------------------------------
(* What the services and the gateway make of a request.                      *)

\* One document that says one thing, as the service of its claim writes it.
Sound(doc) ==
  LET says(key) == IF doc.payload \in NoString \cup {List} THEN Absent ELSE doc.payload[key]
  IN /\ doc.json = "object" /\ doc.strict /\ ~doc.variant /\ doc.exact
     /\ HasToken(says("layers_active")) => doc.claim_type = "CLAIM_TYPE_PII_SANITIZED"
     /\ /\ doc.service_id = "dsa-ai" /\ doc.claim_type = "CLAIM_TYPE_INFERENCE_COMPLETED"
        /\ says("upstream_body_sha256") # Absent
        => WellFormedDigests(says("upstream_body_sha256"))

(* Ed25519, and ids that are unique: of the sound documents that a service   *)
(* has signed, no other one has the claim id and the request of a claim that *)
(* was issued.                                                               *)
ASSUME ServicesAssumption ==
  \A text \in HeldInClaims("signature") \ NoString, s \in DOMAIN Services :
    text.by = Services[s] =>
      LET doc == text.over
      IN doc.service_id = s /\ Sound(doc) =>
           \A h \in Issued : \A j \in DOMAIN h.claims :
             h.claims[j].claim_id = doc.claim_id /\ h.request = doc.request_id
             => doc = h.claims[j].canonical_payload

\* The kinds are no probe and no empty list.
ASSUME ChainKindsAssumption == \A kind \in NoString : kind \notin chainProbeEnum /\ kind # <<>>

\* A claim as its service signs it and the gateway stores it, its mirror the
\* payload.
IssuedClaim(h, claim) ==
  LET doc == claim.canonical_payload
      p == chainSignedPayload(claim)
  IN /\ claim # Other /\ claim.claim_id \notin NoString /\ claim.service_id \notin NoString
     /\ claim.service_id \in DOMAIN Services
     /\ doc \notin NoString /\ doc.base64 = "canonical" /\ Sound(doc)
     /\ claim.signature = Signature(Services[claim.service_id], doc)
     /\ claim.signature \notin NoString \cup {Blank}
     /\ doc.claim_id = claim.claim_id /\ doc.service_id = claim.service_id
     /\ doc.request_id = h.request /\ claim.request_id = h.request
     /\ doc.data_seen = claim.data_seen /\ claim.data_seen \notin NoString
     /\ doc.claim_type = TypeName(claim)
     /\ claim.kinds = IF TypeName(claim) = "" THEN {} ELSE {chainTypedKinds[claim.claim_type].key}
     /\ claim.typed = p /\ p # Other
     /\ p["isolation_probe"] \in chainProbeEnum \cup {Absent}
     /\ Other \notin {p[key] : key \in {"layers_active", "qi_score", "response_hash", "model_used"}}
     /\ claim.service_id = "dsa-ai" => Inference(claim)
     /\ \/ bodiesOf(claim) = <<>>
        \/ /\ claim.service_id = "dsa-ai" /\ SignedDigests(claim) # Absent
           /\ bodiesOf(claim) = SignedDigests(claim)

\* A label that fits the copies, or a chain that is sealed as partial.
TierFits(h) ==
  LET C == Carriers(h.claims)
      label == Label(h.tier)
      signs(j, service, copy) ==
        h.claims[j].service_id = service /\ SignedCopy(h.claims[j]) = copy
  IN \/ C = {} /\ label \in {"", "full_chain"}
     \/ /\ label = "input_shield"
        /\ \E j, k \in C : /\ C = {j, k} /\ signs(j, "dsa-gateway", "input-shield")
                            /\ signs(k, "dsa-ai", "input-shield")
     \/ /\ label = "input_shield_two_signer"
        /\ \E j \in C : C = {j} /\ signs(j, "dsa-gateway", "input-shield")
        /\ Of(h.claims, "dsa-ai") = {} /\ Of(h.claims, "dsa-sanitizer") # {}
     \/ /\ label = "audit_only"
        /\ \E j \in C : C = {j} /\ Of(h.claims, "dsa-ai") = {j} /\ signs(j, "dsa-ai", "audit-only")
     \/ /\ h.verdict = "VERDICT_PARTIAL" /\ label \in {"", "full_chain", "input_shield"}
        /\ \A j \in C : SignedCopy(h.claims[j]) # "audit-only"

ASSUME IssuedAssumption ==
  \A h \in Issued :
    /\ \/ h = IssueV2(h, Witness)
       \/ /\ h = IssueV3(h, Witness)
          /\ h.v3sig \notin NoString \cup {Blank} /\ h.emitted \notin NoNumber
    /\ {h.id, h.request, h.keyId, h.issued} \cap NoString = {} /\ h.keyId = WitnessKeyID
    /\ h.sig \notin NoString \cup {Blank}
    /\ h.protocol = [value |-> 2, token |-> "integer"] /\ h.protocol \notin NoNumber
    /\ h.issued.form \in {"nano", "padded", "offset"}
    /\ h.verdict \in {"VERDICT_VERIFIED", "VERDICT_PARTIAL", "VERDICT_FAILED"}
    /\ h.byok \in BOOLEAN \cup {Absent} /\ Other \notin {h.tier, h.client, h.apiKey, h.claims}
    /\ DOMAIN h.claims # {} /\ \A j \in DOMAIN h.claims : IssuedClaim(h, h.claims[j])
    /\ Cardinality(DigestClaims(h)) <= 1 /\ TierFits(h)

------------------------------------------------------------------------------
(* Step 9: the ceilings, the first of which decides.                         *)

ChainSteps(step) ==
  CASE step \in {"9a", "9b", "9c"} -> "PARTIAL"
    [] step = "9d" -> "EGRESS_UNATTESTED"
    [] step = "9e" -> "VERIFIED"
    [] OTHER -> "FAILED"

\* Mutant: the outcome of the inference is read from the typed mirror.
Unfinished_Mirror(c) ==
  \E j \in DOMAIN c.claims :
    c.claims[j].typed # Other /\ c.claims[j].typed["inference_outcome"] # Absent

\* The key counts, even with a signed null.
Unfinished(c) ==
  \E j \in DOMAIN c.claims : chainSignedPayload(c.claims[j])["inference_outcome"] # Absent

userUnredacted(c) ==
  \E j \in Of(c.claims, "dsa-sanitizer") \cup Of(c.claims, "dsa-sanitizer-streaming") :
    HasToken(chainSignedPayload(c.claims[j])["layers_active"])

Ceiling(c) ==
  IF Unfinished(c) THEN "9a"
  ELSE IF userUnredacted(c) THEN "9b"
  ELSE IF c.verdict = "VERDICT_PARTIAL" THEN "9c"
  ELSE IF DigestClaims(c) = {} \/ chainCertTier(c.claims, Label(c.tier), c.verdict).capped THEN "9d"
  ELSE "9e"

\* What a failed check returns: no value of the certificate is in it.
Failed(step) ==
  [step |-> step, verdict |-> "FAILED", egress |-> "not_evaluated", unredacted |-> "unknown",
   tier |-> "not_evaluated", version |-> "none", binding |-> "not_evaluated",
   verified |-> Null]

\* What the signatures cover, and nothing else.
ChainVerified(c) ==
  [certificate |-> IF v3present(c) THEN v3(c) ELSE v2(c),
   claims |-> [j \in DOMAIN c.claims |-> c.claims[j].canonical_payload]]

Passed(c, a) ==
  [step |-> Ceiling(c), verdict |-> ChainSteps(Ceiling(c)),
   egress |-> IF DigestClaims(c) = {} THEN "unattested" ELSE "signed_digests",
   unredacted |-> IF userUnredacted(c) THEN "true" ELSE "false",
   tier |-> chainCertTier(c.claims, Label(c.tier), c.verdict).tier,
   version |-> IF v3present(c) THEN "v3" ELSE "v2",
   binding |-> IF {a.request, a.certificate} = {Null} THEN "not_checked" ELSE "matched",
   verified |-> ChainVerified(c)]

NoResult == [verdict |-> "none"]

------------------------------------------------------------------------------
Init ==
  /\ cert \in Issued /\ edits = 0
  /\ ask = Null
  /\ at = "input" /\ i = 0 /\ pointers = 0 /\ result = NoResult

Edit(c) ==
  /\ at = "input" /\ edits < MaxEdits
  /\ cert' = c /\ edits' = edits + 1
  /\ UNCHANGED <<ask, at, i, pointers, result>>

\* On the way: a member changes, a member of a claim, or a whole claim.
Change(member) == \E v \in Values[member] : Edit([cert EXCEPT ![member] = v])

ChangeClaim(member) ==
  /\ cert.claims # Other
  /\ \E j \in DOMAIN cert.claims, v \in ClaimValues[member] :
       cert.claims[j] # Other /\ Edit([cert EXCEPT !.claims[j][member] = v])

ReplaceClaim ==
  /\ cert.claims # Other
  /\ \E j \in DOMAIN cert.claims, claim \in Claims : Edit([cert EXCEPT !.claims[j] = claim])

\* The part of the recipe that is done: go on at the next one, or fail.
Decide(step, next) ==
  IF step = "pass" THEN at' = next /\ UNCHANGED result
  ELSE at' = "done" /\ result' = Failed(step)

CheckWitness ==
  /\ at = "input" /\ ask' \in Asks
  /\ Decide(WitnessSteps(cert, ask'), "claims")
  /\ UNCHANGED <<cert, edits, i, pointers>>

CheckClaim ==
  /\ at = "claims" /\ i + 1 \in DOMAIN cert.claims
  /\ LET step == ClaimSteps(cert, cert.claims[i + 1], pointers)
     IN /\ Decide(step, "claims")
        /\ IF step = "pass"
           THEN /\ i' = i + 1
                /\ pointers' = pointers + cert.claims[i + 1].canonical_payload.pointers
           ELSE UNCHANGED <<i, pointers>>
  /\ UNCHANGED <<cert, edits, ask>>

CheckEgress ==
  /\ at = "claims" /\ DOMAIN cert.claims = 1..i
  /\ Decide(EgressSteps(cert), "ceilings")
  /\ UNCHANGED <<cert, edits, ask, i, pointers>>

Ceilings ==
  /\ at = "ceilings" /\ at' = "done"
  /\ result' = Passed(cert, ask)
  /\ UNCHANGED <<cert, edits, ask, i, pointers>>

Next ==
  \/ \E member \in DOMAIN Values : Change(member)
  \/ \E member \in DOMAIN ClaimValues : ChangeClaim(member)
  \/ ReplaceClaim
  \/ CheckWitness \/ CheckClaim \/ CheckEgress \/ Ceilings

Spec == Init /\ [][Next]_vars

------------------------------------------------------------------------------
Steps ==
  {"1", "2", "3", "4", "5a", "5b", "5c", "5d", "5e", "6a", "6b", "6c",
   "7a", "7b", "7c", "7d", "7e", "7f", "7g", "7h", "7i", "8a", "8b", "8c", "8d",
   "9a", "9b", "9c", "9d", "9e"}
Tiers == {"absent", "input_shield", "inconsistent", "input_shield_two_signer", "audit_only"}

\* A failed check tells nothing, and the pointers stay within their bound.
TypeOK ==
  /\ DOMAIN cert = Members
  /\ edits \in 0..MaxEdits /\ ask \in IF at = "input" THEN {Null} ELSE Asks
  /\ at \in {"input", "claims", "ceilings", "done"} /\ i \in Nat
  /\ pointers \in 0..MaxChainValuesPointerBytes
  /\ IF at # "done" THEN result = NoResult
     ELSE \/ result \in {Failed(step) : step \in Steps} /\ result.verdict = "FAILED"
          \/ /\ result = Passed(cert, ask)
             /\ result.verdict = ChainSteps(result.step) /\ result.verdict # "FAILED"
             /\ result.tier \in Tiers

Accepted == result.verdict \notin {"none", "FAILED"}

(* Whatever verdict but FAILED the caller reads, the pinned witness signed   *)
(* the ids of this certificate, among them that of every claim and the ids   *)
(* the caller expects, and every claim was signed, for this request, by the  *)
(* key pinned for its own service.                                           *)
ClaimsAreSigned ==
  Accepted =>
    /\ cert.sig.by = Witness
    /\ LET list == cert.sig.over
       IN /\ ask.request \in {Null, list.request_id}
          /\ ask.certificate \in {Null, list.certificate_id}
          /\ \A j \in DOMAIN cert.claims :
               LET claim == cert.claims[j]
                   doc == claim.signature.over
               IN /\ claim.service_id \in DOMAIN Services
                  /\ claim.signature.by = Services[claim.service_id]
                  /\ doc.service_id = claim.service_id
                  /\ doc.claim_id = list.claim_ids[j]
                  /\ doc.request_id = list.request_id

------------------------------------------------------------------------------
Documents(c) == [j \in DOMAIN c.claims |-> c.claims[j].canonical_payload]

\* The signed values of a result are those of one issued certificate.
VerifiedOf(h) ==
  /\ result.verified.claims = Documents(h)
  /\ \/ result.verified.certificate = SignedV2(h)
     \/ h.v3sig # Absent /\ result.verified.certificate = SignedV3(h)

Says(doc, key) == IF doc.payload \in NoString \cup {List} THEN Absent ELSE doc.payload[key]
Signs(h, services, key) ==
  \E j \in DOMAIN h.claims :
    LET doc == Documents(h)[j] IN doc.service_id \in services /\ Says(doc, key) # Absent
SignsToken(h) ==
  \E j \in DOMAIN h.claims :
    /\ Documents(h)[j].service_id \in {"dsa-sanitizer", "dsa-sanitizer-streaming"}
    /\ HasToken(Says(Documents(h)[j], "layers_active"))

\* The best verdict that the signed values of a certificate allow.
Deserved(h) ==
  IF \/ Signs(h, DOMAIN Services, "inference_outcome") \/ SignsToken(h)
     \/ h.verdict = "VERDICT_PARTIAL"
  THEN "PARTIAL"
  ELSE IF ~Signs(h, {"dsa-ai"}, "upstream_body_sha256") THEN "EGRESS_UNATTESTED"
  ELSE "VERIFIED"

Rank == [FAILED |-> 0, PARTIAL |-> 1, EGRESS_UNATTESTED |-> 2, VERIFIED |-> 3]

(* Nothing that is unsigned lifts a verdict: whatever else has changed, the  *)
(* signed values in a result are those of one issued certificate, and the    *)
(* verdict is at most the one that these values deserve.                     *)
VerdictIsSigned ==
  Accepted => \E h \in Issued : VerifiedOf(h) /\ Rank[result.verdict] <= Rank[Deserved(h)]

\* The signed copies of the tier, with their services.
Copies ==
  LET docs == result.verified.claims
  IN {<<docs[j].service_id, Says(docs[j], "cert_tier")>> :
        j \in {k \in DOMAIN docs : Says(docs[k], "cert_tier") # Absent}}

(* The tier of a result is that of its signed copies.  In particular an      *)
(* audit-only chain, in which nothing was sanitized, has no other tier,      *)
(* whatever its label says; and copies that do not fit together are accepted *)
(* only below a PARTIAL.                                                     *)
TierIsSigned ==
  Accepted =>
    LET docs == result.verified.claims
    IN /\ result.tier = "audit_only" <=> \E copy \in Copies : copy[2] = "audit-only"
       /\ result.tier = "absent" <=> Copies = {}
       /\ result.tier = "input_shield" =>
            Copies = {<<"dsa-gateway", "input-shield">>, <<"dsa-ai", "input-shield">>}
       /\ result.tier = "input_shield_two_signer" =>
            /\ Copies = {<<"dsa-gateway", "input-shield">>}
            /\ \A j \in DOMAIN docs : docs[j].service_id # "dsa-ai"
       /\ result.tier = "inconsistent" => result.verdict = "PARTIAL"

\* The claim that the loop has come to is one too many for the bound.
PointersExceeded ==
  /\ i + 1 \in DOMAIN cert.claims
  /\ pointers + cert.claims[i + 1].canonical_payload.pointers > MaxChainValuesPointerBytes

(* No false alarm: a chain as it was issued gets the verdict that it         *)
(* deserves.  One that was sealed FAILED fails as that, and so does one with *)
(* an id twice, and one of which the values to return are too large.         *)
GenuineChainsVerify ==
  /\ at = "done" /\ edits = 0
  /\ Bound(cert, ask)
  /\ ask.minV3 => cert.v3sig # Absent
  => IF cert.verdict = "VERDICT_FAILED" THEN result.step = "6a"
     ELSE IF ~Unique(ClaimIds(cert.claims)) THEN result.step = "6c"
     ELSE IF PointersExceeded THEN result.step = "7e"
     ELSE result.verdict = Deserved(cert) /\ VerifiedOf(cert)

(* A request body that is stored beside an accepted chain is, in its place,  *)
(* the one whose digest the ai service signed.                               *)
StoredBodiesAreAttested ==
  Accepted =>
    \A j \in DOMAIN cert.claims :
      bodiesOf(cert.claims[j]) # <<>> =>
        /\ cert.claims[j].service_id = "dsa-ai"
        /\ SignedDigests(cert.claims[j]) = bodiesOf(cert.claims[j])
        /\ result.egress = "signed_digests"

\* The same pins and policy as the caller of verifyCertificateChain has.
options ==
  [keyId |-> WitnessKeyID, key |-> Witness, text |-> TRUE,
   minimum |-> IF ask.minV3 THEN "v3" ELSE "any"]

(* Checking the chain adds to checking the witness: what this accepts,       *)
(* verifyCertificate of the same SDK accepts on the same signature.  (Only   *)
(* an empty id is refused by that one alone.)                                *)
ChainIsStricter ==
  Accepted /\ "" \notin {cert.id, cert.request} => Go!Run(cert, options) = result.version

(* Step 8d, written in three ways, is one rule, but for the tier that Python *)
(* reports beside a two-signer label that does not fit.                      *)
TierRulesAgree ==
  at = "claims" /\ DOMAIN cert.claims = 1..i =>
    LET label == Label(cert.tier)
        go == chainCertTier(cert.claims, label, cert.verdict)
        py == _cert_tier_check(cert.claims, label, cert.verdict)
    IN /\ certTierCheck(cert.claims, label, cert.verdict) = go
       /\ py.passes = go.passes /\ py.capped = go.capped
       /\ py.tier = go.tier \/ (label = "input_shield_two_signer" /\ ~go.passes)
==============================================================================
