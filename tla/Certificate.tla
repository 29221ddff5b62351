------------------------------ MODULE Certificate ------------------------------
(***************************************************************************)
(* A Veil certificate as the gateway serves it, and what its witness       *)
(* signed: the part of veil-witness and of the gateway that the three      *)
(* verifyCertificate functions presuppose.                                 *)
(*                                                                         *)
(* A certificate is a record of the JSON members the verifiers read:       *)
(*   id, request, keyId   certificate_id, request_id, witness_key_id       *)
(*   sig, v3sig           witness_signature, signable_v3_signature         *)
(*   issued               issued_at                                        *)
(*   protocol, emitted    protocol_version and                             *)
(*                        signable_protocol_version_emitted                *)
(*   claims               the claims, each with claim_id, request_id,      *)
(*                        service_id and canonical_payload                 *)
(*   verdict, byok        verification.overall_verdict and .byok_exempt    *)
(*   client, apiKey       client_id, api_key_id                            *)
(*   rest                 every member that only the Python model declares *)
(*                        is there and has its type                        *)
(*                                                                         *)
(* A member is a string, a value of one of the kinds below, or one of the  *)
(* constants.  A signature text is Blank or [canonical, by, over]: whether *)
(* it is canonical base64, and whose signature over which signable its     *)
(* bytes are.  A version number is [value, token]: how JSON writes it.     *)
(* A time is [instant, form].  A canonical_payload is [base64, json,       *)
(* payload, flat]: its texts are "canonical", "loose" or "garbled", and    *)
(* "object", "other" or "garbled", and the two places where the hashes may *)
(* be are functions on HashKeys.                                           *)
(***************************************************************************)
EXTENDS Naturals, Sequences

CONSTANTS
  Absent,    \* the member is missing
  Null,      \* it is the JSON null
  Other,     \* it has a JSON type it should not have
  List,      \* it is a JSON array, where an object is expected
  Truthy,    \* it is a string that reads as true ("yes")
  Blank,     \* a signature text of white space only
  MaxUint64  \* 2^64 - 1, which a double rounds up to 2^64

ASSUME MaxUint64Assumption == MaxUint64 \in Nat /\ MaxUint64 > 3

HashKeys == {"redaction_manifest_hash", "sanitized_fields_hash", "tms_manifest_hash"}

VerdictShort ==
  [VERDICT_UNSPECIFIED |-> "UNSPECIFIED", VERDICT_VERIFIED |-> "VERIFIED",
   VERDICT_PARTIAL |-> "PARTIAL", VERDICT_FAILED |-> "FAILED"]

\* Members that hold no value of any kind a verifier could use as a number or
\* as a string.
NoNumber == {Absent, Null, Other}
NoString == {Absent, Null, Other}

\* The kinds differ, and are no booleans and none of the strings that the
\* verifiers know.
ASSUME KindsAssumption ==
  /\ \A kind \in NoString \cup {List, Truthy} :
       kind \notin BOOLEAN /\ kind \notin DOMAIN VerdictShort \cup {"", "audit-only"}
  /\ Absent # Other /\ Null # Other /\ Absent # Null /\ Truthy \notin NoString
  /\ Blank \notin NoString

ClaimIds(claims) == [i \in DOMAIN claims |-> claims[i].claim_id]

\* The first claim of the sanitizer service, 0 for none.
SanitizerClaim(claims) ==
  LET S == {i \in DOMAIN claims :
              claims[i] # Other /\ claims[i].service_id = "dsa-sanitizer"}
  IN IF S = {} THEN 0 ELSE CHOOSE i \in S : \A j \in S : i <= j

\* A string that is there and is not empty, else null.
NonEmpty(v) == IF v \in NoString \cup {""} THEN Null ELSE v

(* The witness.  It signs two maps with one key: seven members (v2), and     *)
(* those and six more (v3).  Times are signed in the RFC 3339 form that Go   *)
(* prints, "nano", and hashes as the sanitizer's payload has them.           *)

SignedV2(c) ==
  [certificate_id |-> c.id, request_id |-> c.request, protocol_version |-> 2,
   claim_ids |-> ClaimIds(c.claims),
   issued_at |-> IF c.issued.form = "unreadable" THEN c.issued
                 ELSE [c.issued EXCEPT !.form = "nano"],
   overall_verdict |-> VerdictShort[c.verdict], witness_key_id |-> c.keyId]

PayloadHash(c, key) ==
  LET i == SanitizerClaim(c.claims)
      p == c.claims[i].canonical_payload
  IN IF i = 0 \/ p.json # "object" THEN Null
     ELSE NonEmpty((IF p.payload \in NoString \cup {List} THEN p.flat ELSE p.payload)[key])

SignedV3(c) ==
  [certificate_id |-> c.id, request_id |-> c.request, protocol_version |-> 2,
   claim_ids |-> ClaimIds(c.claims), issued_at |-> SignedV2(c).issued_at,
   overall_verdict |-> VerdictShort[c.verdict], witness_key_id |-> c.keyId,
   client_id |-> IF c.client \in NoString THEN Null ELSE c.client,
   api_key_id |-> IF c.apiKey \in NoString THEN Null ELSE c.apiKey,
   byok_exempt |-> (c.byok = TRUE),
   redaction_manifest_hash |-> PayloadHash(c, "redaction_manifest_hash"),
   sanitized_fields_body_hash |-> PayloadHash(c, "sanitized_fields_hash"),
   tms_manifest_hash |-> PayloadHash(c, "tms_manifest_hash")]

Signature(key, signable) == [canonical |-> TRUE, by |-> key, over |-> signable]

\* What the witness with this key makes of a certificate without signatures:
\* before the v3 chain, and since.
IssueV2(c, key) ==
  [c EXCEPT !.sig = Signature(key, SignedV2(c)), !.v3sig = Absent, !.emitted = Absent]
IssueV3(c, key) ==
  [c EXCEPT !.sig = Signature(key, SignedV2(c)), !.v3sig = Signature(key, SignedV3(c)),
            !.emitted = [value |-> 3, token |-> "integer"]]
==============================================================================
