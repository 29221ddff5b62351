------------------------------ MODULE PyPipeline ------------------------------
(***************************************************************************)
(* verify_certificate of the Python SDK:                                   *)
(* python/src/lucairn/verify_certificate, with the model VeilCertificate   *)
(* of python/src/lucairn/types.py.  The certificate is a dict whose        *)
(* integers are exact.                                                     *)
(***************************************************************************)
EXTENDS Certificate

SIGNABLE_PROTOCOL_VERSION == 2
_V3_SIGNABLE_MIN_VERSION == 3

\* An int, not a float.
WithinU64(v) == v \notin NoNumber /\ v.token = "integer"

VeilClaim(claim) ==
  /\ claim # Other
  /\ claim.claim_id \notin NoString /\ claim.request_id \notin NoString
  /\ claim.service_id \notin NoString /\ claim.canonical_payload \notin NoString

\* VeilCertificate.model_validate.  A bool is also read from a word for one; the
\* verdict is one of its four literals.
VeilCertificate(c) ==
  /\ \A i \in DOMAIN c.claims : VeilClaim(c.claims[i])
  /\ c.verdict \in DOMAIN VerdictShort
  /\ c.byok \notin {Null, Other}
  /\ c.client # Other /\ c.apiKey # Other /\ c.v3sig # Other
  /\ c.rest

parse_certificate(c) ==
  /\ c.id \notin NoString /\ c.request \notin NoString /\ c.keyId \notin NoString
  /\ c.sig \notin NoString /\ c.issued \notin NoString
  /\ WithinU64(c.protocol)
  /\ c.emitted \in {Absent, Null} \/ WithinU64(c.emitted)
  /\ c.claims # Other
  /\ c.verdict \notin NoString
  /\ VeilCertificate(c)

use_v3(c) == c.emitted \notin {Absent, Null} /\ c.emitted.value >= _V3_SIGNABLE_MIN_VERSION

\* Mutant: no guard against a version number that is gone.
v3_sig_present_NoGuard(c) == use_v3(c) /\ c.v3sig \notin NoString \cup {Blank}

v3_sig_present(c) == c.v3sig \notin NoString \cup {Blank}

normalize_issued_at(t) ==
  IF t.form \in {"nano", "padded", "offset"} THEN [t EXCEPT !.form = "nano"] ELSE t

_validate_claims(c) == c.claims # <<>> /\ c.claims[1].request_id = c.request

derive_witness_signed_bytes(c) ==
  [certificate_id |-> c.id, request_id |-> c.request,
   protocol_version |-> SIGNABLE_PROTOCOL_VERSION,
   claim_ids |-> ClaimIds(c.claims), issued_at |-> normalize_issued_at(c.issued),
   overall_verdict |-> VerdictShort[c.verdict], witness_key_id |-> c.keyId]

\* b64decode without validate drops what is not base64.
_sanitizer_canonical_payload_string(c, key) ==
  LET i == SanitizerClaim(c.claims)
      p == c.claims[i].canonical_payload
  IN IF i = 0 THEN Null
     ELSE IF p.base64 = "garbled" \/ p.json = "garbled" THEN Null
     ELSE NonEmpty((IF p.payload \in NoString \cup {List} THEN p.flat ELSE p.payload)[key])

\* JSON that is no object has no get(): that is outside the try block.
PayloadHasNoGet(c) ==
  LET i == SanitizerClaim(c.claims)
      p == c.claims[i].canonical_payload
  IN i # 0 /\ p.base64 # "garbled" /\ p.json = "other"

derive_v3_signed_bytes(c) ==
  LET v2 == derive_witness_signed_bytes(c)
      orNull(v) == IF v \in {Absent, Null} THEN Null ELSE v
  IN [certificate_id |-> v2.certificate_id, request_id |-> v2.request_id,
      protocol_version |-> v2.protocol_version, claim_ids |-> v2.claim_ids,
      issued_at |-> v2.issued_at, overall_verdict |-> v2.overall_verdict,
      witness_key_id |-> v2.witness_key_id,
      client_id |-> orNull(c.client), api_key_id |-> orNull(c.apiKey),
      byok_exempt |-> (c.byok \in {TRUE, Truthy}),
      redaction_manifest_hash |-> _sanitizer_canonical_payload_string(c, "redaction_manifest_hash"),
      sanitized_fields_body_hash |-> _sanitizer_canonical_payload_string(c, "sanitized_fields_hash"),
      tms_manifest_hash |-> _sanitizer_canonical_payload_string(c, "tms_manifest_hash")]

verify_ed25519(signable, text, key) == text.by = key /\ text.over = signable

\* Mutant: the older signature is there on v3 certificates too, and is checked.
Verified_OlderSignature(c, key) ==
  c.sig.canonical /\ verify_ed25519(derive_witness_signed_bytes(c), c.sig, key)

Verified(c, key) ==
  /\ c.sig.canonical
  /\ IF use_v3(c)
     THEN c.v3sig.canonical /\ verify_ed25519(derive_v3_signed_bytes(c), c.v3sig, key)
     ELSE verify_ed25519(derive_witness_signed_bytes(c), c.sig, key)

\* _build_result refuses a signed time that it cannot read.
_parse_iso(t) == t.form # "unreadable"

verify_certificate(c, o) ==
  IF ~parse_certificate(c) THEN "malformed"
  ELSE IF c.protocol.value # SIGNABLE_PROTOCOL_VERSION THEN "unsupported_protocol_version"
  ELSE IF c.keyId # o.keyId THEN "witness_mismatch"
  ELSE IF c.sig = Blank THEN "witness_signature_missing"
  ELSE IF use_v3(c) # v3_sig_present(c) THEN "version_downgrade_detected"
  ELSE IF ~_validate_claims(c) THEN "malformed"
  ELSE IF use_v3(c) /\ PayloadHasNoGet(c) THEN "AttributeError"
  ELSE IF ~Verified(c, o.key) THEN "invalid_signature"
  ELSE IF o.minimum = "v3" /\ ~use_v3(c) THEN "signable_version_insufficient"
  ELSE IF ~_parse_iso(c.issued) THEN "malformed"
  ELSE IF use_v3(c) THEN "v3" ELSE "v2"
==============================================================================
