------------------------------- MODULE Pipelines -------------------------------
(***************************************************************************)
(* One served certificate and the verifyCertificate functions of the three *)
(* SDKs.  The witness has issued the certificates Issued.  One of them is  *)
(* served; on the way to the caller its members may change, also to those  *)
(* of another one.  The caller then gives it to each SDK, with one         *)
(* witness key and one minimum version.                                    *)
(***************************************************************************)
EXTENDS Certificate, FiniteSets

CONSTANTS
  Issued,    \* the certificates the witness issued
  Values,    \* per member, what it may be changed to
  Options,   \* [keyId, key, minimum, text]: what the caller pins and asks
  WitnessKey,
  MaxEdits   \* bound: the members that change

ASSUME MaxEditsAssumption == MaxEdits \in Nat

Members ==
  {"id", "request", "keyId", "sig", "v3sig", "issued", "protocol", "emitted", "claims",
   "verdict", "byok", "client", "apiKey", "rest"}

\* What a member may be: as issued in some certificate, or as changed.
Held(member) ==
  {h[member] : h \in Issued} \cup (IF member \in DOMAIN Values THEN Values[member] ELSE {})

SanitizerDoc(claim) ==
  claim.service_id = "dsa-sanitizer" /\ claim.canonical_payload \notin NoString

(* The data are those of the module Certificate.                            *)
ASSUME DataAssumption ==
  /\ DOMAIN Values \subseteq Members /\ \A h \in Issued : DOMAIN h = Members
  /\ \A t \in Held("issued") \ NoString :
       t \in [instant : Nat, form : {"nano", "padded", "offset", "comma", "unreadable"}]
  /\ \A claims \in Held("claims") \ {Other} :
       /\ claims \in Seq({claims[i] : i \in DOMAIN claims})
       /\ \A i \in DOMAIN claims :
            claims[i] # Other /\ SanitizerDoc(claims[i]) =>
              /\ claims[i].canonical_payload.base64 \in {"canonical", "loose", "garbled"}
              /\ claims[i].canonical_payload.json \in {"object", "other", "garbled"}
  /\ Held("byok") \subseteq BOOLEAN \cup {Absent, Null, Other, Truthy}
  /\ Held("rest") \subseteq BOOLEAN

(* A time that no verifier can read names no instant that a readable one does. *)
ASSUME UnreadableAssumption ==
  \A t, u \in Held("issued") \ NoString :
    t.form = "unreadable" /\ u.form # "unreadable" => t.instant # u.instant

(* The witness signs what its assembler has made.                           *)
ASSUME IssuedAssumption ==
  \A h \in Issued :
    /\ \/ h = IssueV2(h, WitnessKey)
       \/ /\ h = IssueV3(h, WitnessKey)
          /\ h.v3sig \notin NoString \cup {Blank} /\ h.emitted \notin NoNumber
    /\ {h.id, h.request, h.keyId, h.issued} \cap NoString = {} /\ h.id # ""
    /\ h.sig \notin NoString \cup {Blank}
    /\ h.protocol = [value |-> 2, token |-> "integer"] /\ h.protocol \notin NoNumber
    /\ h.claims \notin {Other, <<>>} /\ h.claims[1].request_id = h.request
    /\ \A i \in DOMAIN h.claims :
         /\ h.claims[i] # Other
         /\ {h.claims[i].claim_id, h.claims[i].request_id, h.claims[i].service_id,
             h.claims[i].canonical_payload} \cap NoString = {}
         /\ SanitizerDoc(h.claims[i]) =>
              LET doc == h.claims[i].canonical_payload
              IN doc.base64 = "canonical" /\ doc.json = "object" /\ doc.payload # List
    /\ h.verdict \in DOMAIN VerdictShort /\ h.byok \in BOOLEAN \cup {Absent}
    /\ h.client # Other /\ h.apiKey # Other /\ h.rest

(* Ed25519: what verifies under the key that a caller pins, the witness has  *)
(* signed.                                                                   *)
ASSUME WitnessAssumption ==
  \A text \in (Held("sig") \cup Held("v3sig")) \ NoString, o \in Options :
    text.by = o.key =>
      /\ o.key = WitnessKey
      /\ \E h \in Issued :
           \/ text.over = SignedV2(h)
           \/ h.v3sig # Absent /\ text.over = SignedV3(h)

Go == INSTANCE GoPipeline
Ts == INSTANCE TsPipeline
Py == INSTANCE PyPipeline

VARIABLES
  served,   \* the certificate that was issued
  cert,     \* what the caller holds
  edits,    \* how many members have changed
  opts,     \* what the caller asks
  answer    \* per SDK: the verified version, the reason of the refusal, or "none"

vars == <<served, cert, edits, opts, answer>>

SDKs == {"go", "ts", "py"}

Init ==
  /\ served \in Issued /\ cert = served /\ edits = 0
  /\ opts \in Options
  /\ answer = [s \in SDKs |-> "none"]

Change(member) ==
  /\ edits < MaxEdits /\ answer = [s \in SDKs |-> "none"]
  /\ \E v \in Values[member] : cert' = [cert EXCEPT ![member] = v]
  /\ edits' = edits + 1
  /\ UNCHANGED <<served, opts, answer>>

Answer(s, a) ==
  /\ answer[s] = "none"
  /\ answer' = [answer EXCEPT ![s] = a]
  /\ UNCHANGED <<served, cert, edits, opts>>

VerifyGo == Answer("go", Go!Run(cert, opts))
VerifyTs == answer["go"] # "none" /\ Answer("ts", Ts!verifyCertificate(cert, opts))
VerifyPy == answer["ts"] # "none" /\ Answer("py", Py!verify_certificate(cert, opts))

Next ==
  \/ \E member \in DOMAIN Values : Change(member)
  \/ VerifyGo \/ VerifyTs \/ VerifyPy

Spec == Init /\ [][Next]_vars

------------------------------------------------------------------------------
Reasons ==
  {"malformed", "unsupported_protocol_version", "witness_mismatch",
   "witness_signature_missing", "version_downgrade_detected", "invalid_signature",
   "signable_version_insufficient"}
Accepts(s) == answer[s] \in {"v2", "v3"}
Answered == \A s \in SDKs : answer[s] # "none"

\* The values a caller reads from a result, or from the certificate it accepted.
SameCore(h) ==
  /\ cert.id = h.id /\ cert.request = h.request /\ cert.keyId = h.keyId
  /\ cert.issued.instant = h.issued.instant
  /\ cert.verdict = h.verdict
  /\ ClaimIds(cert.claims) = ClaimIds(h.claims)

(* Whatever an SDK accepts, the witness the caller pinned signed for one     *)
(* certificate: its ids, its time, its verdict and its claim ids together,   *)
(* so that members of two certificates never verify as one.                  *)
AcceptedIsSigned ==
  \A s \in SDKs : Accepts(s) =>
    /\ opts.key = WitnessKey
    /\ \E h \in Issued : SameCore(h)

\* What a string member says: nothing, unless it is a string.
Said(v) == IF v \in NoString THEN Null ELSE v

SameV3(h) ==
  /\ Said(cert.client) = Said(h.client) /\ Said(cert.apiKey) = Said(h.apiKey)
  /\ cert.byok \in BOOLEAN => cert.byok = (h.byok = TRUE)
  /\ LET i == SanitizerClaim(cert.claims)
         p == cert.claims[i].canonical_payload
     IN i # 0 =>
          \/ p \in NoString \/ p.base64 # "canonical" \/ p.payload = List
          \/ \A key \in HashKeys : PayloadHash(cert, key) = PayloadHash(h, key)

(* With "v3" in the result, and always when the caller asked for at least    *)
(* v3, the six members that only the v3 signature covers are those of the    *)
(* same issued certificate.                                                  *)
V3MembersAreSigned ==
  \A s \in SDKs : Accepts(s) /\ (answer[s] = "v3" \/ opts.minimum = "v3") =>
    \E h \in Issued : h.v3sig # Absent /\ SameCore(h) /\ SameV3(h)

(* A certificate issued with both signatures is accepted on its older one    *)
(* only when the version number and the newer signature are both gone:       *)
(* removing one of them is noticed.                                          *)
HalfAStripIsNoticed ==
  \A s \in SDKs : answer[s] = "v2" /\ served.v3sig # Absent => edits >= 2

(* The policy reason is for genuine certificates alone: one that was         *)
(* tampered with is refused for its signature.                               *)
PolicyDoesNotMaskTampering ==
  \A s \in SDKs : answer[s] = "signable_version_insufficient" =>
    \E h \in Issued : SameCore(h)

\* At most the form of the time has changed, as the gateway prints it.
Untouched ==
  /\ cert.issued.instant = served.issued.instant
  /\ cert.issued.form \in {"nano", "padded", "offset"}
  /\ \A member \in DOMAIN cert \ {"issued"} : cert[member] = served[member]

(* No false alarm: as the witness issued it, in whatever RFC 3339 form the   *)
(* gateway prints the time, a certificate is accepted by all three SDKs on   *)
(* its best signature.                                                       *)
GenuineIsAccepted ==
  /\ Answered /\ cert.issued \notin NoString /\ Untouched
  /\ opts.key = WitnessKey /\ opts.keyId = served.keyId
  /\ opts.minimum = "v3" => served.v3sig # Absent
  => \A s \in SDKs : answer[s] = IF served.v3sig = Absent THEN "v2" ELSE "v3"

\* Numbers that are integers by value and not as written, or of no double.
OddNumber(v) == v \notin NoNumber /\ (v.token # "integer" \/ v.value = MaxUint64)

\* A claim that one SDK takes for well-formed and another does not.
OddClaim(claim) ==
  \/ claim = Other
  \/ claim.claim_id \in NoString \/ claim.request_id \in NoString
  \/ claim.service_id \in NoString \/ claim.canonical_payload \in NoString
  \/ claim.service_id = "dsa-sanitizer"
     /\ \/ claim.canonical_payload.base64 = "loose"
        \/ claim.canonical_payload.json = "other"
        \/ claim.canonical_payload.payload = List

\* The limits that CHANGELOG.md names: numbers, claim fields and the type of the
\* v3 signature.
KnownLimit ==
  \/ OddNumber(cert.protocol) \/ OddNumber(cert.emitted)
  \/ cert.claims # Other /\ \E i \in DOMAIN cert.claims : OddClaim(cert.claims[i])
  \/ cert.v3sig = Other

\* Where the three differ beyond that: how they read a time, and members of the
\* wrong type that Python's model refuses and the others ignore or sign.
OtherDifference ==
  \/ cert.issued \notin NoString /\ cert.issued.form \in {"comma", "unreadable"}
  \/ cert.byok \in {Null, Other, Truthy}
  \/ cert.client = Other \/ cert.apiKey = Other
  \/ ~cert.rest

\* Refused by all three, with the reason of an earlier check in one of them: Go
\* refuses an empty certificate id, Python's model an unknown verdict.
EarlyRefusal == cert.id = "" \/ cert.verdict \notin DOMAIN VerdictShort

(* Outside of these classes the three SDKs give the same answer, with the    *)
(* same reason.                                                              *)
SdksAgree ==
  Answered /\ ~KnownLimit /\ ~OtherDifference =>
    \/ answer["go"] = answer["ts"] /\ answer["ts"] = answer["py"]
    \/ EarlyRefusal /\ \A s \in SDKs : ~Accepts(s)

(* What python/src/lucairn/verify_certificate/pipeline.py says: only         *)
(* LucairnCertificateError and TypeError escape from verify_certificate.     *)
OnlyTypedErrors == answer["py"] # "AttributeError"
==============================================================================
