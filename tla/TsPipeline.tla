------------------------------ MODULE TsPipeline ------------------------------
(***************************************************************************)
(* verifyCertificate of the TypeScript SDK: ts/src/verify-certificate.     *)
(* The certificate is an object, whose numbers are doubles.                *)
(***************************************************************************)
EXTENDS Certificate

SUPPORTED_PROTOCOL_VERSION == 2
V3_SIGNABLE_VERSION_THRESHOLD == 3

isUint64(v) == v \notin NoNumber /\ v.value # MaxUint64

\* The claims are not looked into yet.
parseCertificate(c) ==
  /\ c.id \notin NoString /\ c.request \notin NoString /\ c.keyId \notin NoString
  /\ c.sig \notin NoString /\ c.issued \notin NoString
  /\ c.claims # Other
  /\ isUint64(c.protocol)
  /\ c.emitted \in {Absent, Null} \/ isUint64(c.emitted)
  /\ c.verdict \notin NoString

useV3(c) ==
  c.emitted \notin {Absent, Null} /\ c.emitted.value >= V3_SIGNABLE_VERSION_THRESHOLD

\* Mutant: String.trim, which leaves some white space that Go's set has.
v3SigPresent_Trim(c) == c.v3sig \notin NoString

v3SigPresent(c) == c.v3sig \notin NoString \cup {Blank}

\* Mutant: only zeros are stripped, an offset stays.
normalizeIssuedAt_KeepsOffset(t) ==
  IF t.form \in {"nano", "padded"} THEN [t EXCEPT !.form = "nano"] ELSE t

normalizeIssuedAt(t) ==
  IF t.form \in {"nano", "padded", "offset"} THEN [t EXCEPT !.form = "nano"] ELSE t

\* Only the first claim must name the request.
extractValidatedClaimIds(claims, request) ==
  /\ claims # <<>>
  /\ claims[1] # Other /\ claims[1].request_id = request
  /\ \A i \in DOMAIN claims : claims[i] # Other /\ claims[i].claim_id \notin NoString

validateAndMapVerdict(verdict) == verdict \in DOMAIN VerdictShort

deriveWitnessSignedBytes(c) ==
  [certificate_id |-> c.id, request_id |-> c.request, protocol_version |-> 2,
   claim_ids |-> ClaimIds(c.claims), issued_at |-> normalizeIssuedAt(c.issued),
   overall_verdict |-> VerdictShort[c.verdict], witness_key_id |-> c.keyId]

\* Buffer.from skips what is not base64.  An array is taken for the inner
\* object, and has none of the keys.
sanitizerHashField(c, key) ==
  LET i == SanitizerClaim(c.claims)
      p == c.claims[i].canonical_payload
  IN IF i = 0 THEN Null
     ELSE IF p \in NoString \/ p.base64 = "garbled" \/ p.json # "object" \/ p.payload = List
          THEN Null
     ELSE NonEmpty((IF p.payload \in NoString THEN p.flat ELSE p.payload)[key])

\* Whatever the members hold is signed; only a missing one and null become null
\* or false.
deriveWitnessSignedBytesV3(c) ==
  LET v2 == deriveWitnessSignedBytes(c)
      orElse(v, default) == IF v \in {Absent, Null} THEN default ELSE v
  IN [certificate_id |-> v2.certificate_id, request_id |-> v2.request_id,
      protocol_version |-> v2.protocol_version, claim_ids |-> v2.claim_ids,
      issued_at |-> v2.issued_at, overall_verdict |-> v2.overall_verdict,
      witness_key_id |-> v2.witness_key_id,
      client_id |-> orElse(c.client, Null), api_key_id |-> orElse(c.apiKey, Null),
      byok_exempt |-> orElse(c.byok, FALSE),
      redaction_manifest_hash |-> sanitizerHashField(c, "redaction_manifest_hash"),
      sanitized_fields_body_hash |-> sanitizerHashField(c, "sanitized_fields_hash"),
      tms_manifest_hash |-> sanitizerHashField(c, "tms_manifest_hash")]

\* canonicalJson throws on a raw number, and the caller makes it malformed.
canonicalJson(c) == useV3(c) => c.client # Other /\ c.apiKey # Other /\ c.byok # Other

verifyEd25519(signable, text, key) == text.by = key /\ text.over = signable

Derivable(c) ==
  /\ extractValidatedClaimIds(c.claims, c.request)
  /\ validateAndMapVerdict(c.verdict)
  /\ canonicalJson(c)

verifyV3(c, o) ==
  IF ~Derivable(c) THEN "malformed"
  ELSE IF ~(/\ c.sig.canonical /\ c.v3sig.canonical
            /\ verifyEd25519(deriveWitnessSignedBytesV3(c), c.v3sig, o.key))
       THEN "invalid_signature"
  ELSE "v3"

\* Mutant: the minimum is checked first.
verifyV2_MinimumFirst(c, o) ==
  IF o.minimum = "v3" THEN "signable_version_insufficient"
  ELSE IF ~Derivable(c) THEN "malformed"
  ELSE IF ~(c.sig.canonical /\ verifyEd25519(deriveWitnessSignedBytes(c), c.sig, o.key))
       THEN "invalid_signature"
  ELSE "v2"

verifyV2(c, o) ==
  IF ~Derivable(c) THEN "malformed"
  ELSE IF ~(c.sig.canonical /\ verifyEd25519(deriveWitnessSignedBytes(c), c.sig, o.key))
       THEN "invalid_signature"
  ELSE IF o.minimum = "v3" THEN "signable_version_insufficient"
  ELSE "v2"

verifyCertificate(c, o) ==
  IF ~parseCertificate(c) THEN "malformed"
  ELSE IF c.protocol.value # SUPPORTED_PROTOCOL_VERSION THEN "unsupported_protocol_version"
  ELSE IF c.keyId # o.keyId THEN "witness_mismatch"
  ELSE IF c.sig = Blank THEN "witness_signature_missing"
  ELSE IF useV3(c) # v3SigPresent(c) THEN "version_downgrade_detected"
  ELSE IF useV3(c) THEN verifyV3(c, o) ELSE verifyV2(c, o)
==============================================================================
