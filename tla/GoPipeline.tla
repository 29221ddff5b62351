------------------------------ MODULE GoPipeline ------------------------------
(***************************************************************************)
(* VerifyCertificate of the Go SDK: go/verify.go and go/internal/verify.   *)
(* The certificate comes as JSON text or as a decoded map (o.text).        *)
(***************************************************************************)
EXTENDS Certificate

SupportedProtocolVersion == 2

\* From text the token must be an integer; from a map the float64 must be one,
\* below 2^64.
versionValue(v, text) ==
  /\ v \notin NoNumber
  /\ IF text THEN v.token = "integer" ELSE v.value # MaxUint64

\* A claim is an object with a string for both of its ids.
WellFormedClaim(claim) ==
  claim # Other /\ claim.claim_id \notin NoString /\ claim.request_id \notin NoString

Parse(c, text) ==
  /\ c.id \notin NoString \cup {""}
  /\ c.request \notin NoString /\ c.keyId \notin NoString
  /\ c.sig \notin NoString /\ c.issued \notin NoString
  /\ versionValue(c.protocol, text)
  /\ c.claims # Other /\ \A i \in DOMAIN c.claims : WellFormedClaim(c.claims[i])
  /\ c.verdict \notin NoString
  /\ c.emitted \in {Absent, Null} \/ versionValue(c.emitted, text)

useV3(c) == c.emitted \notin {Absent, Null} /\ c.emitted.value >= 3
\* Anything but a string counts as no signature.
v3SigPresent(c) == c.v3sig \notin NoString \cup {Blank}

\* time.Parse also reads a comma before the fraction of a second.  What it
\* cannot read stays as it is.
normalizeIssuedAt(t) ==
  IF t.form \in {"nano", "padded", "offset", "comma"} THEN [t EXCEPT !.form = "nano"] ELSE t

\* DeriveSignedBytes and DeriveV3SignedBytes refuse the same certificates.
Derivable(c) ==
  /\ c.claims # <<>>
  /\ c.claims[1].request_id = c.request
  /\ c.verdict \in DOMAIN VerdictShort

DeriveSignedBytes(c) ==
  [certificate_id |-> c.id, request_id |-> c.request, protocol_version |-> 2,
   claim_ids |-> ClaimIds(c.claims), issued_at |-> normalizeIssuedAt(c.issued),
   overall_verdict |-> VerdictShort[c.verdict], witness_key_id |-> c.keyId]

\* encoding/base64 refuses any character outside its alphabet.
ExtractSanitizerPayloadHash(c, key) ==
  LET i == SanitizerClaim(c.claims)
      p == c.claims[i].canonical_payload
  IN IF i = 0 THEN Null
     ELSE IF p \in NoString \/ p.base64 # "canonical" \/ p.json # "object" THEN Null
     ELSE NonEmpty((IF p.payload \in NoString \cup {List} THEN p.flat ELSE p.payload)[key])

\* Only a string is a client or key id, only a JSON boolean sets byok_exempt.
DeriveV3SignedBytes(c) ==
  LET v2 == DeriveSignedBytes(c)
      optStr(v) == IF v \in NoString THEN Null ELSE v
  IN [certificate_id |-> v2.certificate_id, request_id |-> v2.request_id,
      protocol_version |-> v2.protocol_version, claim_ids |-> v2.claim_ids,
      issued_at |-> v2.issued_at, overall_verdict |-> v2.overall_verdict,
      witness_key_id |-> v2.witness_key_id,
      client_id |-> optStr(c.client), api_key_id |-> optStr(c.apiKey),
      byok_exempt |-> (c.byok = TRUE),
      redaction_manifest_hash |-> ExtractSanitizerPayloadHash(c, "redaction_manifest_hash"),
      sanitized_fields_body_hash |-> ExtractSanitizerPayloadHash(c, "sanitized_fields_hash"),
      tms_manifest_hash |-> ExtractSanitizerPayloadHash(c, "tms_manifest_hash")]

\* Mutant: only the error of the verification is looked at, not its result.
VerifyEd25519_ErrorOnly(signable, text, key) == text.by = key

\* A malformed key is no key of any signature.
VerifyEd25519(signable, text, key) == text.by = key /\ text.over = signable

\* Both texts must be canonical on the v3 path, although one is verified.
Verified(c, key) ==
  /\ c.sig.canonical
  /\ IF useV3(c)
     THEN c.v3sig.canonical /\ VerifyEd25519(DeriveV3SignedBytes(c), c.v3sig, key)
     ELSE VerifyEd25519(DeriveSignedBytes(c), c.sig, key)

Run(c, o) ==
  IF ~Parse(c, o.text) THEN "malformed"
  ELSE IF c.protocol.value # SupportedProtocolVersion THEN "unsupported_protocol_version"
  ELSE IF c.keyId # o.keyId THEN "witness_mismatch"
  ELSE IF c.sig = Blank THEN "witness_signature_missing"
  ELSE IF v3SigPresent(c) # useV3(c) THEN "version_downgrade_detected"
  ELSE IF ~Derivable(c) THEN "malformed"
  ELSE IF ~Verified(c, o.key) THEN "invalid_signature"
  ELSE IF o.minimum = "v3" /\ ~useV3(c) THEN "signable_version_insufficient"
  ELSE IF useV3(c) THEN "v3" ELSE "v2"
==============================================================================
