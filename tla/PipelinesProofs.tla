--------------------------- MODULE PipelinesProofs ---------------------------
(***************************************************************************)
(* Proofs about Pipelines, for every set of issued certificates, changes,  *)
(* callers and number of changes: all that the run MCPipelines.cfg checks. *)
(*                                                                         *)
(* IInv is inductive.  It says where the members of the certificate come   *)
(* from, and that an answer is what that SDK computes of the certificate   *)
(* and the options as they are, since nothing changes after the first one. *)
(* The rest is about the three computations.                               *)
(***************************************************************************)
EXTENDS Pipelines, WellFoundedInduction, TLAPS

TypeInv ==
  /\ served \in Issued /\ opts \in Options /\ edits \in Nat
  /\ DOMAIN cert = Members /\ \A member \in Members : cert[member] \in Held(member)

EditInv ==
  /\ edits = 0 => cert = served
  /\ edits = 1 => \E changed \in Members :
                    \A member \in Members \ {changed} : cert[member] = served[member]

AnswerInv ==
  /\ DOMAIN answer = SDKs
  /\ answer["go"] \in {"none", Go!Run(cert, opts)}
  /\ answer["ts"] \in {"none", Ts!verifyCertificate(cert, opts)}
  /\ answer["py"] \in {"none", Py!verify_certificate(cert, opts)}

IInv == TypeInv /\ EditInv /\ AnswerInv

LEMMA InitInv == Init => IInv
<1> SUFFICES ASSUME Init
             PROVE  IInv
  OBVIOUS
<1>1. DOMAIN cert = Members
  BY DataAssumption DEF Init
<1>2. \A member \in Members : cert[member] \in Held(member)
  BY DEF Init, Held
<1>3. TypeInv
  BY <1>1, <1>2 DEF Init, TypeInv
<1>4. EditInv /\ AnswerInv
  BY DEF Init, EditInv, AnswerInv, SDKs
<1> QED
  BY <1>3, <1>4 DEF IInv

\* A change replaces one member by one of its values.
LEMMA ChangeKeeps ==
  ASSUME IInv, NEW member \in DOMAIN Values, Change(member)
  PROVE  IInv'
<1>1. PICK v \in Values[member] : cert' = [cert EXCEPT ![member] = v]
  BY DEF Change
<1>2. /\ answer = [s \in SDKs |-> "none"] /\ edits' = edits + 1
      /\ UNCHANGED <<served, opts, answer>>
  BY DEF Change
<1>3. member \in Members /\ v \in Held(member)
  BY DataAssumption DEF Held
<1>4. /\ DOMAIN cert' = Members /\ cert'[member] = v
      /\ \A other \in Members \ {member} : cert'[other] = cert[other]
  BY <1>1, <1>3 DEF IInv, TypeInv
<1>5. TypeInv'
  BY <1>2, <1>3, <1>4 DEF IInv, TypeInv
<1>6. EditInv'
  <2>1. edits \in Nat /\ (edits = 0 => cert = served)
    BY DEF IInv, TypeInv, EditInv
  <2>2. edits' # 0 /\ (edits' = 1 => edits = 0)
    BY <1>2, <2>1
  <2> QED
    BY <1>2, <1>3, <1>4, <2>1, <2>2 DEF EditInv
<1>7. AnswerInv'
  BY <1>2 DEF AnswerInv, SDKs
<1> QED
  BY <1>5, <1>6, <1>7 DEF IInv

\* An answer leaves all else alone.
LEMMA AnswerKeeps ==
  ASSUME IInv, VerifyGo \/ VerifyTs \/ VerifyPy
  PROVE  IInv'
<1>1. UNCHANGED <<served, cert, edits, opts>>
  BY DEF VerifyGo, VerifyTs, VerifyPy, Answer
<1>2. AnswerInv'
  <2>1. /\ Go!Run(cert, opts)' = Go!Run(cert, opts)
        /\ Ts!verifyCertificate(cert, opts)' = Ts!verifyCertificate(cert, opts)
        /\ Py!verify_certificate(cert, opts)' = Py!verify_certificate(cert, opts)
    BY <1>1
  <2> DEFINE go == Go!Run(cert, opts)
             ts == Ts!verifyCertificate(cert, opts)
             py == Py!verify_certificate(cert, opts)
  <2>2. /\ DOMAIN answer = {"go", "ts", "py"} /\ answer["go"] \in {"none", go}
        /\ answer["ts"] \in {"none", ts} /\ answer["py"] \in {"none", py}
    BY DEF IInv, AnswerInv, SDKs
  <2>3. \/ answer' = [answer EXCEPT !["go"] = go]
        \/ answer' = [answer EXCEPT !["ts"] = ts]
        \/ answer' = [answer EXCEPT !["py"] = py]
    BY DEF VerifyGo, VerifyTs, VerifyPy, Answer
  <2>4. go' = go /\ ts' = ts /\ py' = py
    BY <2>1
  <2> HIDE DEF go, ts, py
  <2>5. /\ DOMAIN answer' = {"go", "ts", "py"} /\ answer'["go"] \in {"none", go}
        /\ answer'["ts"] \in {"none", ts} /\ answer'["py"] \in {"none", py}
    BY <2>2, <2>3
  <2> QED
    BY <2>1, <2>5 DEF AnswerInv, SDKs, go, ts, py
<1> QED
  BY <1>1, <1>2 DEF IInv, TypeInv, EditInv

LEMMA InvInductive == IInv /\ [Next]_vars => IInv'
<1> SUFFICES ASSUME IInv, [Next]_vars
             PROVE  IInv'
  OBVIOUS
<1>1. CASE UNCHANGED vars
  BY <1>1 DEF vars, IInv, TypeInv, EditInv, AnswerInv
<1> QED
  BY <1>1, ChangeKeeps, AnswerKeeps DEF Next

(* The answers are those of the certificate that the caller holds, whatever  *)
(* was changed before.                                                       *)
THEOREM AnswersStand == Spec => []IInv
BY InitInv, InvInductive, PTL DEF Spec

------------------------------------------------------------------------------
\* The modules of the SDKs read the certificate with the same helpers.
LEMMA GoHelpers ==
  /\ Go!NoString = NoString /\ Go!NoNumber = NoNumber /\ Go!VerdictShort = VerdictShort
  /\ \A claims : /\ Go!ClaimIds(claims) = ClaimIds(claims)
                 /\ Go!SanitizerClaim(claims) = SanitizerClaim(claims)
  /\ \A v : Go!NonEmpty(v) = NonEmpty(v)
BY DEF Go!NoString, NoString, Go!NoNumber, NoNumber, Go!VerdictShort, VerdictShort, Go!ClaimIds,
       ClaimIds, Go!SanitizerClaim, SanitizerClaim, Go!NonEmpty, NonEmpty

LEMMA TsHelpers ==
  /\ Ts!NoString = NoString /\ Ts!NoNumber = NoNumber /\ Ts!VerdictShort = VerdictShort
  /\ \A claims : /\ Ts!ClaimIds(claims) = ClaimIds(claims)
                 /\ Ts!SanitizerClaim(claims) = SanitizerClaim(claims)
  /\ \A v : Ts!NonEmpty(v) = NonEmpty(v)
BY DEF Ts!NoString, NoString, Ts!NoNumber, NoNumber, Ts!VerdictShort, VerdictShort, Ts!ClaimIds,
       ClaimIds, Ts!SanitizerClaim, SanitizerClaim, Ts!NonEmpty, NonEmpty

LEMMA PyHelpers ==
  /\ Py!NoString = NoString /\ Py!NoNumber = NoNumber /\ Py!VerdictShort = VerdictShort
  /\ \A claims : /\ Py!ClaimIds(claims) = ClaimIds(claims)
                 /\ Py!SanitizerClaim(claims) = SanitizerClaim(claims)
  /\ \A v : Py!NonEmpty(v) = NonEmpty(v)
BY DEF Py!NoString, NoString, Py!NoNumber, NoNumber, Py!VerdictShort, VerdictShort, Py!ClaimIds,
       ClaimIds, Py!SanitizerClaim, SanitizerClaim, Py!NonEmpty, NonEmpty

\* The two signables, of what a verifier or the witness puts into them.
V2(c, t) ==
  [certificate_id |-> c.id, request_id |-> c.request, protocol_version |-> 2,
   claim_ids |-> ClaimIds(c.claims), issued_at |-> t,
   overall_verdict |-> VerdictShort[c.verdict], witness_key_id |-> c.keyId]

V3(c, t, client, apiKey, byok, hash) ==
  [certificate_id |-> c.id, request_id |-> c.request, protocol_version |-> 2,
   claim_ids |-> ClaimIds(c.claims), issued_at |-> t,
   overall_verdict |-> VerdictShort[c.verdict], witness_key_id |-> c.keyId,
   client_id |-> client, api_key_id |-> apiKey, byok_exempt |-> byok,
   redaction_manifest_hash |-> hash["redaction_manifest_hash"],
   sanitized_fields_body_hash |-> hash["sanitized_fields_hash"],
   tms_manifest_hash |-> hash["tms_manifest_hash"]]

\* What an SDK's derivation makes of the six members, and whether it takes the
\* v3 path.
Path(s, c) ==
  CASE s = "go" -> Go!useV3(c) [] s = "ts" -> Ts!useV3(c) [] s = "py" -> Py!use_v3(c)
Time(s, c) ==
  CASE s = "go" -> Go!normalizeIssuedAt(c.issued)
    [] s = "ts" -> Ts!normalizeIssuedAt(c.issued)
    [] s = "py" -> Py!normalize_issued_at(c.issued)
Text(s, v) ==
  CASE s = "go" -> (IF v \in NoString THEN Null ELSE v)
    [] s \in {"ts", "py"} -> (IF v \in {Absent, Null} THEN Null ELSE v)
Byok(s, v) ==
  CASE s = "go" -> (v = TRUE)
    [] s = "ts" -> (IF v \in {Absent, Null} THEN FALSE ELSE v)
    [] s = "py" -> (v \in {TRUE, Truthy})
Hash(s, c, key) ==
  CASE s = "go" -> Go!ExtractSanitizerPayloadHash(c, key)
    [] s = "ts" -> Ts!sanitizerHashField(c, key)
    [] s = "py" -> Py!_sanitizer_canonical_payload_string(c, key)

DerivedV2(s, c) == V2(c, Time(s, c))
DerivedV3(s, c) ==
  V3(c, Time(s, c), Text(s, c.client), Text(s, c.apiKey), Byok(s, c.byok),
     [key \in HashKeys |-> Hash(s, c, key)])

\* The signables of the SDKs are of these forms.
LEMMA Derivations ==
  ASSUME NEW c
  PROVE  /\ Go!DeriveSignedBytes(c) = DerivedV2("go", c)
         /\ Ts!deriveWitnessSignedBytes(c) = DerivedV2("ts", c)
         /\ Py!derive_witness_signed_bytes(c) = DerivedV2("py", c)
         /\ Go!DeriveV3SignedBytes(c) = DerivedV3("go", c)
         /\ Ts!deriveWitnessSignedBytesV3(c) = DerivedV3("ts", c)
         /\ Py!derive_v3_signed_bytes(c) = DerivedV3("py", c)
<1>1. Go!DeriveSignedBytes(c) = DerivedV2("go", c)
  BY GoHelpers DEF Go!DeriveSignedBytes, DerivedV2, V2, Time
<1>2. Ts!deriveWitnessSignedBytes(c) = DerivedV2("ts", c)
  BY TsHelpers DEF Ts!deriveWitnessSignedBytes, DerivedV2, V2, Time
<1>3. Py!derive_witness_signed_bytes(c) = DerivedV2("py", c)
  BY PyHelpers DEF Py!derive_witness_signed_bytes, DerivedV2, V2, Time, Py!SIGNABLE_PROTOCOL_VERSION
<1>4. Go!DeriveV3SignedBytes(c) = DerivedV3("go", c)
  BY <1>1, GoHelpers
  DEF Go!DeriveV3SignedBytes, DerivedV2, V2, DerivedV3, V3, Text, Byok, Hash, HashKeys
<1>5. Ts!deriveWitnessSignedBytesV3(c) = DerivedV3("ts", c)
  BY <1>2 DEF Ts!deriveWitnessSignedBytesV3, DerivedV2, V2, DerivedV3, V3, Text, Byok, Hash, HashKeys
<1>6. Py!derive_v3_signed_bytes(c) = DerivedV3("py", c)
  BY <1>3 DEF Py!derive_v3_signed_bytes, DerivedV2, V2, DerivedV3, V3, Text, Byok, Hash, HashKeys
<1> QED
  BY <1>1, <1>2, <1>3, <1>4, <1>5, <1>6

\* The witness signs of a certificate these.
LEMMA WitnessSigns ==
  ASSUME NEW h
  PROVE  LET t == SignedV2(h).issued_at
         IN /\ SignedV2(h) = V2(h, t)
            /\ SignedV3(h) = V3(h, t, Said(h.client), Said(h.apiKey), (h.byok = TRUE),
                                [key \in HashKeys |-> PayloadHash(h, key)])
BY DEF SignedV2, SignedV3, V2, V3, Said, HashKeys

------------------------------------------------------------------------------
\* The answers of an SDK that has looked at a signature and found it valid.
Verifying == {"v2", "v3", "signable_version_insufficient"}

\* What such an answer a of the SDK s has shown.
Shown(s, c, o, a) ==
  /\ {c.id, c.request, c.keyId, c.sig, c.issued} \cap NoString = {}
  /\ s = "go" => c.id # ""
  /\ c.claims # Other /\ c.verdict \in DOMAIN VerdictShort
  /\ c.keyId = o.keyId
  /\ IF Path(s, c)
     THEN /\ a = "v3"
          /\ c.v3sig \notin NoString \cup {Blank}
          /\ c.v3sig.by = o.key /\ c.v3sig.over = DerivedV3(s, c)
          /\ s # "go" => c.client # Other /\ c.apiKey # Other
          /\ s = "py" => ~Py!PayloadHasNoGet(c)
     ELSE /\ a = IF o.minimum = "v3" THEN "signable_version_insufficient" ELSE "v2"
          /\ c.v3sig \in NoString \cup {Blank}
          /\ c.sig.by = o.key /\ c.sig.over = DerivedV2(s, c)

LEMMA GoShows ==
  ASSUME NEW c, NEW o, Go!Run(c, o) \in Verifying
  PROVE  Shown("go", c, o, Go!Run(c, o))
<1>1. /\ Go!Parse(c, o.text) /\ c.keyId = o.keyId /\ Go!Derivable(c) /\ Go!Verified(c, o.key)
      /\ Go!v3SigPresent(c) = Go!useV3(c)
      /\ Go!Run(c, o) = IF o.minimum = "v3" /\ ~Go!useV3(c) THEN "signable_version_insufficient"
                        ELSE IF Go!useV3(c) THEN "v3" ELSE "v2"
  BY DEF Go!Run, Verifying
<1>2. {c.id, c.request, c.keyId, c.sig, c.issued} \cap NoString = {} /\ c.id # "" /\ c.claims # Other
  BY <1>1, GoHelpers DEF Go!Parse
<1>3. c.verdict \in DOMAIN VerdictShort
  BY <1>1, GoHelpers DEF Go!Derivable
<1>4. IF Go!useV3(c)
      THEN c.v3sig.by = o.key /\ c.v3sig.over = DerivedV3("go", c)
      ELSE c.sig.by = o.key /\ c.sig.over = DerivedV2("go", c)
  BY <1>1, Derivations, Zenon DEF Go!Verified, Go!VerifyEd25519
<1>5. Go!v3SigPresent(c) = (c.v3sig \notin NoString \cup {Blank})
  BY GoHelpers DEF Go!v3SigPresent
<1>6. Path("go", c) = Go!useV3(c)
  BY DEF Path
<1> QED
  BY <1>1, <1>2, <1>3, <1>4, <1>5, <1>6 DEF Shown

LEMMA TsShows ==
  ASSUME NEW c, NEW o, Ts!verifyCertificate(c, o) \in Verifying
  PROVE  Shown("ts", c, o, Ts!verifyCertificate(c, o))
<1> DEFINE a == Ts!verifyCertificate(c, o)
<1>1. /\ Ts!parseCertificate(c) /\ c.keyId = o.keyId
      /\ Ts!useV3(c) = Ts!v3SigPresent(c)
      /\ a = IF Ts!useV3(c) THEN Ts!verifyV3(c, o) ELSE Ts!verifyV2(c, o)
  BY DEF Ts!verifyCertificate, Verifying
<1>2. {c.id, c.request, c.keyId, c.sig, c.issued} \cap NoString = {} /\ c.claims # Other
  BY <1>1, TsHelpers DEF Ts!parseCertificate
<1>3. Ts!Derivable(c)
  BY <1>1 DEF Ts!verifyV3, Ts!verifyV2, Verifying
<1>4. c.verdict \in DOMAIN VerdictShort
  BY <1>3, TsHelpers DEF Ts!Derivable, Ts!validateAndMapVerdict
<1>5. CASE Ts!useV3(c)
  <2>1. /\ a = "v3"
        /\ Ts!verifyEd25519(Ts!deriveWitnessSignedBytesV3(c), c.v3sig, o.key)
    BY <1>1, <1>5 DEF Ts!verifyV3, Verifying
  <2>2. c.v3sig.by = o.key /\ c.v3sig.over = DerivedV3("ts", c)
    BY <2>1, Derivations, Zenon DEF Ts!verifyEd25519
  <2>3. c.v3sig \notin NoString \cup {Blank}
    BY <1>1, <1>5, TsHelpers DEF Ts!v3SigPresent
  <2>4. c.client # Other /\ c.apiKey # Other
    BY <1>3, <1>5 DEF Ts!Derivable, Ts!canonicalJson
  <2>5. Path("ts", c)
    BY <1>5 DEF Path
  <2> QED
    BY <1>1, <1>2, <1>4, <2>1, <2>2, <2>3, <2>4, <2>5 DEF Shown
<1>6. CASE ~Ts!useV3(c)
  <2>1. /\ a = IF o.minimum = "v3" THEN "signable_version_insufficient" ELSE "v2"
        /\ Ts!verifyEd25519(Ts!deriveWitnessSignedBytes(c), c.sig, o.key)
    BY <1>1, <1>6 DEF Ts!verifyV2, Verifying
  <2>2. c.sig.by = o.key /\ c.sig.over = DerivedV2("ts", c)
    BY <2>1, Derivations, Zenon DEF Ts!verifyEd25519
  <2>3. c.v3sig \in NoString \cup {Blank}
    BY <1>1, <1>6, TsHelpers DEF Ts!v3SigPresent
  <2>4. ~Path("ts", c)
    BY <1>6 DEF Path
  <2> QED
    BY <1>1, <1>2, <1>4, <2>1, <2>2, <2>3, <2>4 DEF Shown
<1> QED
  BY <1>5, <1>6

LEMMA PyShows ==
  ASSUME NEW c, NEW o, Py!verify_certificate(c, o) \in Verifying
  PROVE  Shown("py", c, o, Py!verify_certificate(c, o))
<1> DEFINE a == Py!verify_certificate(c, o)
<1>1. /\ Py!parse_certificate(c) /\ c.keyId = o.keyId /\ Py!Verified(c, o.key)
      /\ Py!use_v3(c) = Py!v3_sig_present(c)
      /\ ~(Py!use_v3(c) /\ Py!PayloadHasNoGet(c))
      /\ a = IF o.minimum = "v3" /\ ~Py!use_v3(c) THEN "signable_version_insufficient"
             ELSE IF Py!use_v3(c) THEN "v3" ELSE "v2"
  BY DEF Py!verify_certificate, Verifying
<1>2. /\ {c.id, c.request, c.keyId, c.sig, c.issued} \cap NoString = {}
      /\ c.claims # Other /\ c.client # Other /\ c.apiKey # Other
      /\ c.verdict \in DOMAIN VerdictShort
  BY <1>1, PyHelpers DEF Py!parse_certificate, Py!VeilCertificate
<1>3. IF Py!use_v3(c)
      THEN c.v3sig.by = o.key /\ c.v3sig.over = DerivedV3("py", c)
      ELSE c.sig.by = o.key /\ c.sig.over = DerivedV2("py", c)
  BY <1>1, Derivations, Zenon DEF Py!Verified, Py!verify_ed25519
<1>4. Py!v3_sig_present(c) = (c.v3sig \notin NoString \cup {Blank})
  BY PyHelpers DEF Py!v3_sig_present
<1>5. Path("py", c) = Py!use_v3(c)
  BY DEF Path
<1> QED
  BY <1>1, <1>2, <1>3, <1>4, <1>5 DEF Shown

\* An answer of that kind is one that the SDK has computed.
LEMMA AnswersShow ==
  ASSUME IInv, NEW s \in SDKs, answer[s] \in Verifying
  PROVE  Shown(s, cert, opts, answer[s])
<1>1. answer[s] # "none"
  BY DEF Verifying
<1>2. CASE s = "go"
  BY <1>1, <1>2, GoShows DEF IInv, AnswerInv
<1>3. CASE s = "ts"
  BY <1>1, <1>3, TsShows DEF IInv, AnswerInv
<1>4. CASE s = "py"
  BY <1>1, <1>4, PyShows DEF IInv, AnswerInv
<1> QED
  BY <1>2, <1>3, <1>4 DEF SDKs

------------------------------------------------------------------------------
\* What two signables have in common, all their members have.
LEMMA SameSignableV2 ==
  ASSUME NEW c, NEW h, NEW t, NEW u, V2(c, t) = V2(h, u)
  PROVE  /\ c.id = h.id /\ c.request = h.request /\ c.keyId = h.keyId /\ t = u
         /\ ClaimIds(c.claims) = ClaimIds(h.claims)
         /\ VerdictShort[c.verdict] = VerdictShort[h.verdict]
BY DEF V2

LEMMA SameSignableV3 ==
  ASSUME NEW c, NEW t, NEW client, NEW apiKey, NEW byok, NEW hash,
         NEW h, NEW u, NEW client2, NEW apiKey2, NEW byok2, NEW hash2,
         V3(c, t, client, apiKey, byok, hash) = V3(h, u, client2, apiKey2, byok2, hash2)
  PROVE  /\ V2(c, t) = V2(h, u)
         /\ client = client2 /\ apiKey = apiKey2 /\ byok = byok2
         /\ \A key \in HashKeys : hash[key] = hash2[key]
<1>1. /\ c.id = h.id /\ c.request = h.request /\ c.keyId = h.keyId /\ t = u
      /\ ClaimIds(c.claims) = ClaimIds(h.claims)
      /\ VerdictShort[c.verdict] = VerdictShort[h.verdict]
  BY DEF V3
<1>2. client = client2 /\ apiKey = apiKey2 /\ byok = byok2
  BY DEF V3
<1>3. \A key \in HashKeys : hash[key] = hash2[key]
  BY DEF V3, HashKeys
<1> QED
  BY <1>1, <1>2, <1>3 DEF V2

\* A v2 signable is no v3 signable.
LEMMA SignablesDiffer ==
  ASSUME NEW s, NEW c, NEW h
  PROVE  DerivedV3(s, c) # SignedV2(h) /\ DerivedV2(s, c) # SignedV3(h)
<1>1. "client_id" \in DOMAIN DerivedV3(s, c) /\ "client_id" \in DOMAIN SignedV3(h)
  BY DEF DerivedV3, V3, SignedV3
<1>2. "client_id" \notin DOMAIN DerivedV2(s, c) /\ "client_id" \notin DOMAIN SignedV2(h)
  BY DEF DerivedV2, V2, SignedV2
<1> QED
  BY <1>1, <1>2

\* The gateway's verdicts have different short forms.
LEMMA ShortFormsDiffer ==
  ASSUME NEW v \in DOMAIN VerdictShort, NEW w \in DOMAIN VerdictShort,
         VerdictShort[v] = VerdictShort[w]
  PROVE  v = w
BY DEF VerdictShort

\* Whoever prints or reads a time keeps its instant.
LEMMA InstantsStay ==
  ASSUME NEW s \in SDKs, NEW c, c.issued \in Held("issued") \ NoString
  PROVE  Time(s, c).instant = c.issued.instant /\ SignedV2(c).issued_at.instant = c.issued.instant
<1>1. PICK n \in Nat, f \in {"nano", "padded", "offset", "comma", "unreadable"} :
        c.issued = [instant |-> n, form |-> f]
  BY DataAssumption
<1>2. [c.issued EXCEPT !.form = "nano"].instant = n /\ c.issued.instant = n
  BY <1>1
<1>3. Time(s, c) \in {c.issued, [c.issued EXCEPT !.form = "nano"]}
  BY DEF Time, SDKs, Go!normalizeIssuedAt, Ts!normalizeIssuedAt, Py!normalize_issued_at
<1>4. SignedV2(c).issued_at \in {c.issued, [c.issued EXCEPT !.form = "nano"]}
  BY DEF SignedV2
<1> QED
  BY <1>2, <1>3, <1>4

\* A certificate with the signable of an issued one has its core.
LEMMA SameCores ==
  ASSUME TypeInv, NEW s \in SDKs, NEW h \in Issued, cert.issued \notin NoString,
         cert.verdict \in DOMAIN VerdictShort,
         DerivedV2(s, cert) = SignedV2(h)
  PROVE  SameCore(h)
<1>1. V2(cert, Time(s, cert)) = V2(h, SignedV2(h).issued_at)
  BY WitnessSigns DEF DerivedV2
<1>2. /\ cert.id = h.id /\ cert.request = h.request /\ cert.keyId = h.keyId
      /\ Time(s, cert) = SignedV2(h).issued_at
      /\ ClaimIds(cert.claims) = ClaimIds(h.claims)
      /\ VerdictShort[cert.verdict] = VerdictShort[h.verdict]
  BY <1>1, SameSignableV2
<1>3. cert.issued \in Held("issued") /\ h.issued \in Held("issued") /\ h.issued \notin NoString
  BY IssuedAssumption DEF TypeInv, Members, Held
<1>4. cert.issued.instant = h.issued.instant
  BY <1>2, <1>3, InstantsStay
<1>5. cert.verdict = h.verdict
  BY <1>2, IssuedAssumption, ShortFormsDiffer
<1> QED
  BY <1>2, <1>4, <1>5 DEF SameCore

------------------------------------------------------------------------------
\* A set of positions has a first one.
LEMMA FirstExists ==
  ASSUME NEW S \in SUBSET Nat, S # {}
  PROVE  \E k \in S : \A j \in S : k <= j
<1>1. S \subseteq Nat
  OBVIOUS
<1>2. PICK k \in S : \A j \in S : ~ (<<j, k>> \in OpToRel(<, Nat))
  BY <1>1, NatLessThanWellFounded, WFMin
<1>3. \A j \in S : ~ (j < k)
  BY <1>1, <1>2 DEF OpToRel
<1> QED
  BY <1>1, <1>3

\* The first claim of the sanitizer, if there is one, is a claim of that service.
LEMMA SanitizerClaimIsOne ==
  ASSUME NEW claims, DOMAIN claims \in SUBSET Nat, SanitizerClaim(claims) # 0
  PROVE  LET i == SanitizerClaim(claims)
         IN i \in DOMAIN claims /\ claims[i] # Other /\ claims[i].service_id = "dsa-sanitizer"
<1> DEFINE S == {k \in DOMAIN claims : claims[k] # Other /\ claims[k].service_id = "dsa-sanitizer"}
<1>1. SanitizerClaim(claims) = IF S = {} THEN 0 ELSE CHOOSE k \in S : \A j \in S : k <= j
  BY DEF SanitizerClaim
<1>2. S # {} /\ SanitizerClaim(claims) = CHOOSE k \in S : \A j \in S : k <= j
  BY <1>1
<1>3. S \in SUBSET Nat
  OBVIOUS
<1> HIDE DEF S
<1>4. \E k \in S : \A j \in S : k <= j
  BY <1>2, <1>3, FirstExists
<1>5. SanitizerClaim(claims) \in S
  BY <1>2, <1>4
<1> QED
  BY <1>5 DEF S

\* The claims that can be served are sequences, and empty or with a first one.
LEMMA ClaimsAreSequences ==
  ASSUME NEW claims \in Held("claims") \ {Other}
  PROVE  /\ DOMAIN claims \in SUBSET Nat
         /\ claims # <<>> => 1 \in DOMAIN claims
<1>1. PICK S : claims \in Seq(S)
  BY DataAssumption
<1>2. Len(claims) \in Nat /\ DOMAIN claims = 1..Len(claims)
  BY <1>1
<1>3. claims # <<>> => Len(claims) # 0
  BY <1>1
<1> QED
  BY <1>2, <1>3

\* The document of the sanitizer's claim has one of the forms of the module
\* Certificate.
LEMMA SanitizerDocForms ==
  ASSUME NEW claims \in Held("claims") \ {Other}, SanitizerClaim(claims) # 0,
         claims[SanitizerClaim(claims)].canonical_payload \notin NoString
  PROVE  LET p == claims[SanitizerClaim(claims)].canonical_payload
         IN /\ p.base64 \in {"canonical", "loose", "garbled"}
            /\ p.json \in {"object", "other", "garbled"}
<1> DEFINE i == SanitizerClaim(claims)
<1>1. i \in DOMAIN claims /\ claims[i] # Other /\ claims[i].service_id = "dsa-sanitizer"
  BY ClaimsAreSequences, SanitizerClaimIsOne
<1>2. SanitizerDoc(claims[i])
  BY <1>1 DEF SanitizerDoc
<1> HIDE DEF i
<1>3. /\ claims[i].canonical_payload.base64 \in {"canonical", "loose", "garbled"}
      /\ claims[i].canonical_payload.json \in {"object", "other", "garbled"}
  BY <1>1, <1>2, DataAssumption
<1> QED
  BY <1>3 DEF i

\* Of a canonical document, each SDK reads the hashes that the witness reads.
LEMMA HashesAreRead ==
  ASSUME NEW s \in SDKs, NEW c, c.claims \in Held("claims") \ {Other}, NEW key,
         s = "py" => ~Py!PayloadHasNoGet(c),
         LET i == SanitizerClaim(c.claims)
             p == c.claims[i].canonical_payload
         IN i # 0 => p \notin NoString /\ p.base64 = "canonical" /\ p.payload # List
  PROVE  Hash(s, c, key) = PayloadHash(c, key)
<1> DEFINE i == SanitizerClaim(c.claims)
           p == c.claims[i].canonical_payload
<1>1. i # 0 => p \notin NoString /\ p.base64 = "canonical" /\ p.payload # List
  OBVIOUS
<1>2. PayloadHash(c, key) = IF i = 0 \/ p.json # "object" THEN Null
        ELSE NonEmpty((IF p.payload \in NoString \cup {List} THEN p.flat ELSE p.payload)[key])
  BY DEF PayloadHash
<1>3. CASE s = "go"
  <2>1. Hash(s, c, key) = IF i = 0 THEN Null
          ELSE IF p \in NoString \/ p.base64 # "canonical" \/ p.json # "object" THEN Null
          ELSE NonEmpty((IF p.payload \in NoString \cup {List} THEN p.flat ELSE p.payload)[key])
    BY <1>3, GoHelpers DEF Hash, Go!ExtractSanitizerPayloadHash
  <2> HIDE DEF i, p
  <2> QED
    BY <1>1, <1>2, <2>1
<1>4. CASE s = "ts"
  <2>1. Hash(s, c, key) = IF i = 0 THEN Null
          ELSE IF p \in NoString \/ p.base64 = "garbled" \/ p.json # "object" \/ p.payload = List
               THEN Null
          ELSE NonEmpty((IF p.payload \in NoString THEN p.flat ELSE p.payload)[key])
    BY <1>4, TsHelpers DEF Hash, Ts!sanitizerHashField
  <2> HIDE DEF i, p
  <2> QED
    BY <1>1, <1>2, <2>1
<1>5. CASE s = "py"
  <2>1. Hash(s, c, key) = IF i = 0 THEN Null
          ELSE IF p.base64 = "garbled" \/ p.json = "garbled" THEN Null
          ELSE NonEmpty((IF p.payload \in NoString \cup {List} THEN p.flat ELSE p.payload)[key])
    BY <1>5, PyHelpers DEF Hash, Py!_sanitizer_canonical_payload_string
  <2>2. i # 0 /\ p.base64 # "garbled" => p.json # "other"
    BY <1>5, PyHelpers DEF Py!PayloadHasNoGet
  <2>3. i # 0 => p.json \in {"object", "other", "garbled"}
    BY <1>1, SanitizerDocForms
  <2> HIDE DEF i, p
  <2> QED
    BY <1>1, <1>2, <2>1, <2>2, <2>3
<1> QED
  BY <1>3, <1>4, <1>5 DEF SDKs

------------------------------------------------------------------------------
LEMMA NoMember ==
  ASSUME NEW v, NEW S, v \notin S
  PROVE  (v \in S) = FALSE
BY SMT

\* All three read a boolean alike.
LEMMA ReadBoolean ==
  ASSUME NEW s \in SDKs, NEW v \in BOOLEAN
  PROVE  Byok(s, v) = v
<1>1. {Absent, Null, Truthy} \cap BOOLEAN = {}
  BY KindsAssumption DEF NoString
<1>2. v # Absent /\ v # Null /\ v # Truthy
  BY <1>1
<1>3. CASE s = "go"
  BY <1>3, Zenon DEF Byok
<1>4. CASE s = "ts"
  BY <1>2, <1>4 DEF Byok
<1>5. CASE s = "py"
  <2>1. Byok(s, v) = (v \in {TRUE, Truthy})
    BY <1>5, Zenon DEF Byok
  <2>2. CASE v = TRUE
    BY <2>1, <2>2
  <2>3. CASE v = FALSE
    <3>1. v \notin {TRUE, Truthy}
      BY <1>2, <2>3
    <3> QED
      BY <2>1, <2>3, <3>1, NoMember, Zenon
  <2> QED
    BY <2>2, <2>3
<1> QED
  BY <1>3, <1>4, <1>5 DEF SDKs

\* All three read a missing member as false.
LEMMA ReadAbsent ==
  ASSUME NEW s \in SDKs
  PROVE  Byok(s, Absent) = FALSE
<1>1. Absent # TRUE /\ Absent \notin {TRUE, Truthy}
  BY KindsAssumption DEF NoString
<1>2. CASE s = "go"
  BY <1>1, <1>2, Zenon DEF Byok
<1>3. CASE s = "ts"
  BY <1>3 DEF Byok
<1>4. CASE s = "py"
  BY <1>1, <1>4, NoMember, Zenon DEF Byok
<1> QED
  BY <1>2, <1>3, <1>4 DEF SDKs

\* What an SDK derives for v3, of members of the right type, is what the witness
\* does.
LEMMA SameV3s ==
  ASSUME TypeInv, NEW s \in SDKs, NEW h \in Issued, cert.claims # Other,
         DerivedV3(s, cert) = SignedV3(h),
         s # "go" => cert.client # Other /\ cert.apiKey # Other,
         s = "py" => ~Py!PayloadHasNoGet(cert)
  PROVE  SameV3(h) /\ DerivedV2(s, cert) = SignedV2(h)
<1>1. V3(cert, Time(s, cert), Text(s, cert.client), Text(s, cert.apiKey), Byok(s, cert.byok),
         [key \in HashKeys |-> Hash(s, cert, key)])
      = V3(h, SignedV2(h).issued_at, Said(h.client), Said(h.apiKey), (h.byok = TRUE),
           [key \in HashKeys |-> PayloadHash(h, key)])
  BY WitnessSigns DEF DerivedV3
<1>2. /\ V2(cert, Time(s, cert)) = V2(h, SignedV2(h).issued_at)
      /\ Text(s, cert.client) = Said(h.client) /\ Text(s, cert.apiKey) = Said(h.apiKey)
      /\ Byok(s, cert.byok) = (h.byok = TRUE)
      /\ \A key \in HashKeys : [k \in HashKeys |-> Hash(s, cert, k)][key]
                                = [k \in HashKeys |-> PayloadHash(h, k)][key]
  BY <1>1, SameSignableV3
<1>3. Text(s, cert.client) = Said(cert.client) /\ Text(s, cert.apiKey) = Said(cert.apiKey)
  BY DEF Text, Said, SDKs, NoString
<1>4. cert.byok \in BOOLEAN => Byok(s, cert.byok) = cert.byok
  BY ReadBoolean
<1>5. ASSUME NEW key \in HashKeys,
             LET i == SanitizerClaim(cert.claims)
                 p == cert.claims[i].canonical_payload
             IN i # 0 => p \notin NoString /\ p.base64 = "canonical" /\ p.payload # List
      PROVE  PayloadHash(cert, key) = PayloadHash(h, key)
  <2>1. cert.claims \in Held("claims") \ {Other}
    BY DEF TypeInv, Members
  <2>2. Hash(s, cert, key) = PayloadHash(cert, key)
    BY <1>5, <2>1, HashesAreRead
  <2> QED
    BY <1>2, <1>5, <2>2
<1>6. SameV3(h)
  BY <1>2, <1>3, <1>4, <1>5 DEF SameV3
<1> QED
  BY <1>2, <1>6, WitnessSigns DEF DerivedV2

(* A valid signature is one of the witness, over one of the certificates it  *)
(* issued, and the one it made of this kind: the member that is verified     *)
(* says which of the two signables it is over.                               *)
LEMMA ShownIsSigned ==
  ASSUME TypeInv, NEW s \in SDKs, NEW a, Shown(s, cert, opts, a)
  PROVE  /\ opts.key = WitnessKey
         /\ \E h \in Issued : SameCore(h) /\ (Path(s, cert) => h.v3sig # Absent /\ SameV3(h))
<1>1. /\ cert.sig \in Held("sig") /\ cert.v3sig \in Held("v3sig") /\ opts \in Options
      /\ cert.sig \notin NoString /\ cert.issued \notin NoString
      /\ cert.verdict \in DOMAIN VerdictShort
  BY DEF TypeInv, Members, Shown
<1>2. CASE Path(s, cert)
  <2>1. /\ cert.v3sig \notin NoString
        /\ cert.v3sig.by = opts.key /\ cert.v3sig.over = DerivedV3(s, cert)
        /\ s # "go" => cert.client # Other /\ cert.apiKey # Other
        /\ s = "py" => ~Py!PayloadHasNoGet(cert)
        /\ cert.claims # Other
    BY <1>2 DEF Shown
  <2>2. opts.key = WitnessKey
    BY <1>1, <2>1, WitnessAssumption
  <2>3. PICK h \in Issued : \/ cert.v3sig.over = SignedV2(h)
                            \/ h.v3sig # Absent /\ cert.v3sig.over = SignedV3(h)
    BY <1>1, <2>1, WitnessAssumption
  <2>4. DerivedV3(s, cert) # SignedV2(h)
    BY SignablesDiffer
  <2>5. h.v3sig # Absent /\ DerivedV3(s, cert) = SignedV3(h)
    BY <2>1, <2>3, <2>4
  <2>6. SameV3(h) /\ DerivedV2(s, cert) = SignedV2(h)
    BY <2>1, <2>5, SameV3s
  <2> QED
    BY <1>1, <2>2, <2>5, <2>6, SameCores
<1>3. CASE ~Path(s, cert)
  <2>1. cert.sig.by = opts.key /\ cert.sig.over = DerivedV2(s, cert)
    BY <1>3 DEF Shown
  <2>2. opts.key = WitnessKey
    BY <1>1, <2>1, WitnessAssumption
  <2>3. PICK h \in Issued : \/ cert.sig.over = SignedV2(h)
                            \/ h.v3sig # Absent /\ cert.sig.over = SignedV3(h)
    BY <1>1, <2>1, WitnessAssumption
  <2>4. DerivedV2(s, cert) # SignedV3(h)
    BY SignablesDiffer
  <2> QED
    BY <1>1, <1>3, <2>1, <2>2, <2>3, <2>4, SameCores
<1> QED
  BY <1>2, <1>3

(* Whatever an SDK accepts, the witness the caller pinned signed for one     *)
(* certificate, whatever was changed on the way and however often.           *)
THEOREM AcceptanceIsSigned == Spec => []AcceptedIsSigned
<1>1. IInv => AcceptedIsSigned
  <2> SUFFICES ASSUME IInv, NEW s \in SDKs, Accepts(s)
               PROVE  opts.key = WitnessKey /\ \E h \in Issued : SameCore(h)
    BY DEF AcceptedIsSigned
  <2>1. Shown(s, cert, opts, answer[s])
    BY AnswersShow DEF Accepts, Verifying
  <2> QED
    BY <2>1, ShownIsSigned DEF IInv
<1> QED
  BY <1>1, AnswersStand, PTL

(* With the v3 signature, the six members that it alone covers are those of  *)
(* the same issued certificate.                                              *)
THEOREM V3AcceptanceIsSigned == Spec => []V3MembersAreSigned
<1>1. IInv => V3MembersAreSigned
  <2> SUFFICES ASSUME IInv, NEW s \in SDKs, Accepts(s), answer[s] = "v3" \/ opts.minimum = "v3"
               PROVE  \E h \in Issued : h.v3sig # Absent /\ SameCore(h) /\ SameV3(h)
    BY DEF V3MembersAreSigned
  <2>1. Shown(s, cert, opts, answer[s])
    BY AnswersShow DEF Accepts, Verifying
  <2>2. Path(s, cert)
    BY <2>1 DEF Shown, Accepts
  <2> QED
    BY <2>1, <2>2, ShownIsSigned DEF IInv
<1> QED
  BY <1>1, AnswersStand, PTL

(* The policy reason is for genuine certificates alone.                      *)
THEOREM PolicyComesLast == Spec => []PolicyDoesNotMaskTampering
<1>1. IInv => PolicyDoesNotMaskTampering
  <2> SUFFICES ASSUME IInv, NEW s \in SDKs, answer[s] = "signable_version_insufficient"
               PROVE  \E h \in Issued : SameCore(h)
    BY DEF PolicyDoesNotMaskTampering
  <2>1. Shown(s, cert, opts, answer[s])
    BY AnswersShow DEF Verifying
  <2> QED
    BY <2>1, ShownIsSigned DEF IInv
<1> QED
  BY <1>1, AnswersStand, PTL

------------------------------------------------------------------------------
\* The signatures of an issued certificate, by whether it has the newer one.
LEMMA IssuedWithV3 ==
  ASSUME NEW h \in Issued, h.v3sig # Absent
  PROVE  /\ h.sig = Signature(WitnessKey, SignedV2(h))
         /\ h.v3sig = Signature(WitnessKey, SignedV3(h)) /\ h.v3sig \notin NoString \cup {Blank}
         /\ h.emitted = [value |-> 3, token |-> "integer"] /\ h.emitted \notin NoNumber
<1>1. DOMAIN h = Members
  BY DataAssumption
<1>2. h # IssueV2(h, WitnessKey)
  BY <1>1 DEF IssueV2, Members
<1>3. h = IssueV3(h, WitnessKey) /\ h.v3sig \notin NoString \cup {Blank} /\ h.emitted \notin NoNumber
  BY <1>2, IssuedAssumption
<1> QED
  BY <1>1, <1>3 DEF IssueV3, Members

LEMMA IssuedWithV2 ==
  ASSUME NEW h \in Issued, h.v3sig = Absent
  PROVE  h.sig = Signature(WitnessKey, SignedV2(h)) /\ h.emitted = Absent
<1>1. DOMAIN h = Members
  BY DataAssumption
<1>2. h = IssueV2(h, WitnessKey)
  BY IssuedAssumption DEF NoString
<1> QED
  BY <1>1, <1>2 DEF IssueV2, Members

(* A certificate with both signatures is accepted on its older one only when *)
(* two members have changed: one of the signature and the version number     *)
(* says that there was a newer signature.                                    *)
THEOREM StrippingIsNoticed == Spec => []HalfAStripIsNoticed
<1>1. IInv => HalfAStripIsNoticed
  <2> SUFFICES ASSUME IInv, NEW s \in SDKs, answer[s] = "v2", served.v3sig # Absent
               PROVE  edits >= 2
    BY DEF HalfAStripIsNoticed
  <2>1. Shown(s, cert, opts, answer[s])
    BY AnswersShow DEF Verifying
  <2>2. ~Path(s, cert) /\ cert.v3sig \in NoString \cup {Blank}
    BY <2>1 DEF Shown
  <2>3. /\ served.v3sig \notin NoString \cup {Blank}
        /\ served.emitted \notin {Absent, Null} /\ served.emitted.value >= 3
    BY IssuedWithV3 DEF IInv, TypeInv, NoNumber
  <2>4. cert.v3sig # served.v3sig
    BY <2>2, <2>3
  <2>5. cert.emitted # served.emitted
    <3>1. Path(s, cert) = (cert.emitted \notin {Absent, Null} /\ cert.emitted.value >= 3)
      BY DEF Path, SDKs, Go!useV3, Ts!useV3, Py!use_v3, Ts!V3_SIGNABLE_VERSION_THRESHOLD,
             Py!_V3_SIGNABLE_MIN_VERSION
    <3> QED
      BY <2>2, <2>3, <3>1
  <2>6. edits # 0 /\ edits # 1
    BY <2>4, <2>5 DEF IInv, EditInv, Members
  <2>7. edits \in Nat
    BY DEF IInv, TypeInv
  <2> QED
    BY <2>6, <2>7
<1> QED
  BY <1>1, AnswersStand, PTL

------------------------------------------------------------------------------
\* A genuine certificate, under the key and the minimum it was issued for.
Genuine ==
  /\ cert.issued \notin NoString /\ Untouched
  /\ opts.key = WitnessKey /\ opts.keyId = served.keyId
  /\ opts.minimum = "v3" => served.v3sig # Absent

\* Each SDK reads of its time, its texts and its claims what the witness signed.
LEMMA GenuineTime ==
  ASSUME TypeInv, Genuine, NEW s \in SDKs
  PROVE  Time(s, cert) = SignedV2(served).issued_at
<1>1. /\ cert.issued \in Held("issued") \ NoString
      /\ served.issued \in Held("issued") \ NoString
  BY IssuedAssumption DEF TypeInv, Members, Held, Genuine
<1>2. /\ cert.issued.form \in {"nano", "padded", "offset"}
      /\ cert.issued.instant = served.issued.instant
  BY DEF Genuine, Untouched
<1>3. served.issued.form # "unreadable"
  BY <1>1, <1>2, UnreadableAssumption
<1>4. PICK n \in Nat, f \in {"nano", "padded", "offset", "comma", "unreadable"} :
        cert.issued = [instant |-> n, form |-> f]
  BY <1>1, DataAssumption
<1>5. PICK m \in Nat, g \in {"nano", "padded", "offset", "comma", "unreadable"} :
        served.issued = [instant |-> m, form |-> g]
  BY <1>1, DataAssumption
<1>6. n = m
  BY <1>2, <1>4, <1>5
<1>7. Time(s, cert) = [cert.issued EXCEPT !.form = "nano"]
  BY <1>2 DEF Time, SDKs, Go!normalizeIssuedAt, Ts!normalizeIssuedAt, Py!normalize_issued_at
<1>8. SignedV2(served).issued_at = [served.issued EXCEPT !.form = "nano"]
  BY <1>3 DEF SignedV2
<1>9. [cert.issued EXCEPT !.form = "nano"] = [instant |-> n, form |-> "nano"]
  BY <1>4
<1>10. [served.issued EXCEPT !.form = "nano"] = [instant |-> n, form |-> "nano"]
  BY <1>5, <1>6
<1> QED
  BY <1>7, <1>8, <1>9, <1>10

LEMMA GenuineMembers ==
  ASSUME TypeInv, Genuine
  PROVE  /\ cert.id = served.id /\ cert.request = served.request /\ cert.keyId = served.keyId
         /\ cert.sig = served.sig /\ cert.v3sig = served.v3sig
         /\ cert.protocol = served.protocol /\ cert.emitted = served.emitted
         /\ cert.claims = served.claims /\ cert.verdict = served.verdict
         /\ cert.byok = served.byok /\ cert.client = served.client
         /\ cert.apiKey = served.apiKey /\ cert.rest = served.rest
         /\ cert.claims \in Held("claims") \ {Other} /\ served \in Issued
<1>1. served \in Issued /\ cert.claims \in Held("claims")
  BY DEF TypeInv, Members
<1>2. \A member \in Members \ {"issued"} : cert[member] = served[member]
  BY DEF TypeInv, Genuine, Untouched
<1>3. served.claims # Other
  BY <1>1, IssuedAssumption
<1> QED
  BY <1>1, <1>2, <1>3 DEF Members

LEMMA GenuineClaims ==
  ASSUME TypeInv, Genuine
  PROVE  LET i == SanitizerClaim(cert.claims)
             p == cert.claims[i].canonical_payload
         IN i # 0 => /\ p \notin NoString /\ p.base64 = "canonical"
                     /\ p.json = "object" /\ p.payload # List
<1> DEFINE i == SanitizerClaim(cert.claims)
           claim == cert.claims[i]
<1>1. cert.claims = served.claims /\ cert.claims \in Held("claims") \ {Other} /\ served \in Issued
  BY GenuineMembers
<1>2. i # 0 => i \in DOMAIN cert.claims /\ claim.service_id = "dsa-sanitizer"
  BY <1>1, ClaimsAreSequences, SanitizerClaimIsOne
<1>3. \A j \in DOMAIN served.claims :
        /\ served.claims[j].canonical_payload \notin NoString
        /\ SanitizerDoc(served.claims[j]) =>
             LET doc == served.claims[j].canonical_payload
             IN doc.base64 = "canonical" /\ doc.json = "object" /\ doc.payload # List
  BY <1>1, IssuedAssumption
<1> HIDE DEF i
<1>4. i # 0 => /\ claim.canonical_payload \notin NoString
               /\ claim.canonical_payload.base64 = "canonical"
               /\ claim.canonical_payload.json = "object"
               /\ claim.canonical_payload.payload # List
  BY <1>1, <1>2, <1>3 DEF SanitizerDoc
<1> QED
  BY <1>4 DEF i

LEMMA GenuineSignables ==
  ASSUME TypeInv, Genuine, NEW s \in SDKs
  PROVE  DerivedV2(s, cert) = SignedV2(served) /\ DerivedV3(s, cert) = SignedV3(served)
<1> DEFINE t == SignedV2(served).issued_at
<1>1. Time(s, cert) = t
  BY GenuineTime
<1>2. served \in Issued
  BY DEF TypeInv
<1>3. /\ Text(s, cert.client) = Said(served.client)
      /\ Text(s, cert.apiKey) = Said(served.apiKey)
  BY <1>2, GenuineMembers, IssuedAssumption DEF Text, Said, SDKs, NoString
<1>4. Byok(s, cert.byok) = (served.byok = TRUE)
  <2>1. cert.byok = served.byok /\ cert.byok \in BOOLEAN \cup {Absent}
    BY <1>2, GenuineMembers, IssuedAssumption
  <2>2. CASE cert.byok \in BOOLEAN
    <3>1. Byok(s, cert.byok) = cert.byok
      BY <2>2, ReadBoolean
    <3>2. cert.byok = (cert.byok = TRUE)
      BY <2>2, Zenon
    <3> QED
      BY <2>1, <3>1, <3>2, Zenon
  <2>3. CASE cert.byok = Absent
    <3>1. Absent # TRUE
      BY KindsAssumption DEF NoString
    <3>2. (served.byok = TRUE) = FALSE
      BY <2>1, <2>3, <3>1, Zenon
    <3> QED
      BY <2>3, <3>2, ReadAbsent
  <2> QED
    BY <2>1, <2>2, <2>3
<1>5. ASSUME NEW key
      PROVE  Hash(s, cert, key) = PayloadHash(served, key)
  <2>1. s = "py" => ~Py!PayloadHasNoGet(cert)
    BY GenuineClaims, PyHelpers DEF Py!PayloadHasNoGet
  <2>2. Hash(s, cert, key) = PayloadHash(cert, key)
    BY <2>1, GenuineMembers, GenuineClaims, HashesAreRead
  <2>3. PayloadHash(cert, key) = PayloadHash(served, key)
    BY GenuineMembers DEF PayloadHash
  <2> QED
    BY <2>2, <2>3
<1>6. V2(cert, t) = V2(served, t)
  BY GenuineMembers DEF V2
<1>7. [key \in HashKeys |-> Hash(s, cert, key)] = [key \in HashKeys |-> PayloadHash(served, key)]
  BY <1>5
<1>8. DerivedV3(s, cert) = V3(cert, t, Said(served.client), Said(served.apiKey),
                              (served.byok = TRUE),
                              [key \in HashKeys |-> PayloadHash(served, key)])
  BY <1>1, <1>3, <1>4, <1>7, Zenon DEF DerivedV3
<1> HIDE DEF t
<1>9. DerivedV3(s, cert) = V3(served, t, Said(served.client), Said(served.apiKey),
                              (served.byok = TRUE),
                              [key \in HashKeys |-> PayloadHash(served, key)])
  BY <1>8, GenuineMembers, Zenon DEF V3
<1> QED
  BY <1>1, <1>6, <1>9, WitnessSigns DEF DerivedV2, t

------------------------------------------------------------------------------
\* What the parsers of the three ask for, a genuine certificate has.
LEMMA GenuineIsWellFormed ==
  ASSUME TypeInv, Genuine
  PROVE  /\ {cert.id, cert.request, cert.keyId, cert.sig, cert.issued, cert.verdict} \cap NoString = {}
         /\ cert.id # "" /\ cert.sig # Blank
         /\ cert.protocol \notin NoNumber /\ cert.protocol.value = 2
         /\ cert.protocol.token = "integer" /\ cert.protocol.value # MaxUint64
         /\ cert.claims # Other /\ cert.claims # <<>>
         /\ 1 \in DOMAIN cert.claims /\ cert.claims[1].request_id = cert.request
         /\ \A i \in DOMAIN cert.claims :
              LET claim == cert.claims[i]
              IN /\ claim # Other
                 /\ claim.claim_id \notin NoString /\ claim.request_id \notin NoString
                 /\ claim.service_id \notin NoString /\ claim.canonical_payload \notin NoString
         /\ cert.verdict \in DOMAIN VerdictShort
         /\ cert.byok \notin {Null, Other} /\ cert.client # Other /\ cert.apiKey # Other
         /\ cert.rest
<1>1. served \in Issued /\ cert.issued \notin NoString
  BY GenuineMembers DEF Genuine
<1>2. /\ {served.id, served.request, served.keyId} \cap NoString = {} /\ served.id # ""
      /\ served.sig \notin NoString \cup {Blank}
      /\ served.protocol = [value |-> 2, token |-> "integer"] /\ served.protocol \notin NoNumber
      /\ served.claims \notin {Other, <<>>} /\ served.claims[1].request_id = served.request
      /\ served.verdict \in DOMAIN VerdictShort /\ served.byok \in BOOLEAN \cup {Absent}
      /\ served.client # Other /\ served.apiKey # Other /\ served.rest
  BY <1>1, IssuedAssumption
<1>3. served.byok \notin {Null, Other} /\ served.verdict \notin NoString
  <2>1. \A v \in BOOLEAN \cup DOMAIN VerdictShort : v \notin NoString
    BY KindsAssumption
  <2> QED
    BY <1>2, <2>1, KindsAssumption DEF NoString
<1>4. /\ served.protocol.value = 2 /\ served.protocol.token = "integer"
      /\ served.protocol.value # MaxUint64
  <2>1. served.protocol = [value |-> 2, token |-> "integer"]
    BY <1>2
  <2>2. served.protocol.value = 2 /\ served.protocol.token = "integer"
    BY <2>1
  <2> QED
    BY <2>2, MaxUint64Assumption
<1>5. \A i \in DOMAIN served.claims :
        LET claim == served.claims[i]
        IN /\ claim # Other
           /\ {claim.claim_id, claim.request_id, claim.service_id, claim.canonical_payload}
                \cap NoString = {}
  BY <1>1, IssuedAssumption
<1>6. 1 \in DOMAIN cert.claims
  BY <1>2, GenuineMembers, ClaimsAreSequences
<1>7. /\ {cert.id, cert.request, cert.keyId, cert.sig, cert.issued, cert.verdict} \cap NoString = {}
      /\ cert.id # "" /\ cert.sig # Blank
  BY <1>1, <1>2, <1>3, GenuineMembers
<1>8. /\ cert.protocol \notin NoNumber /\ cert.protocol.value = 2
      /\ cert.protocol.token = "integer" /\ cert.protocol.value # MaxUint64
  BY <1>2, <1>4, GenuineMembers
<1>9. /\ cert.claims # Other /\ cert.claims # <<>> /\ cert.claims[1].request_id = cert.request
      /\ \A i \in DOMAIN cert.claims :
           LET claim == cert.claims[i]
           IN /\ claim # Other
              /\ claim.claim_id \notin NoString /\ claim.request_id \notin NoString
              /\ claim.service_id \notin NoString /\ claim.canonical_payload \notin NoString
  BY <1>2, <1>5, GenuineMembers
<1>10. /\ cert.verdict \in DOMAIN VerdictShort
       /\ cert.byok \notin {Null, Other} /\ cert.client # Other /\ cert.apiKey # Other
       /\ cert.rest
  BY <1>2, <1>3, GenuineMembers
<1> QED
  BY <1>6, <1>7, <1>8, <1>9, <1>10

\* So has its version number, and its signatures verify.
LEMMA GenuineVerifies ==
  ASSUME TypeInv, Genuine, NEW s \in SDKs
  PROVE  /\ cert.sig.canonical /\ cert.sig.by = opts.key /\ cert.sig.over = DerivedV2(s, cert)
         /\ IF served.v3sig = Absent
            THEN cert.emitted = Absent /\ cert.v3sig = Absent /\ opts.minimum # "v3"
            ELSE /\ cert.emitted \notin NoNumber /\ cert.emitted.value = 3
                 /\ cert.emitted.token = "integer" /\ cert.emitted.value # MaxUint64
                 /\ cert.v3sig \notin NoString \cup {Blank}
                 /\ cert.v3sig.canonical /\ cert.v3sig.by = opts.key
                 /\ cert.v3sig.over = DerivedV3(s, cert)
<1>1. served \in Issued /\ opts.key = WitnessKey
  BY GenuineMembers DEF Genuine
<1>2. cert.sig = Signature(opts.key, DerivedV2(s, cert))
  BY <1>1, GenuineMembers, GenuineSignables, IssuedWithV2, IssuedWithV3
<1>3. cert.sig.canonical /\ cert.sig.by = opts.key /\ cert.sig.over = DerivedV2(s, cert)
  BY <1>2 DEF Signature
<1>4. CASE served.v3sig = Absent
  BY <1>1, <1>3, <1>4, GenuineMembers, IssuedWithV2 DEF Genuine
<1>5. CASE served.v3sig # Absent
  <2>1. /\ cert.emitted = [value |-> 3, token |-> "integer"] /\ cert.emitted \notin NoNumber
        /\ cert.v3sig = Signature(opts.key, DerivedV3(s, cert))
        /\ cert.v3sig \notin NoString \cup {Blank}
    BY <1>1, <1>5, GenuineMembers, GenuineSignables, IssuedWithV3
  <2>2. cert.v3sig.canonical /\ cert.v3sig.by = opts.key /\ cert.v3sig.over = DerivedV3(s, cert)
    BY <2>1 DEF Signature
  <2>3. cert.emitted.value = 3 /\ cert.emitted.token = "integer" /\ 3 # MaxUint64
    BY <2>1, MaxUint64Assumption
  <2> QED
    BY <1>3, <1>5, <2>1, <2>2, <2>3
<1> QED
  BY <1>4, <1>5

\* The best signature of the certificate that was served.
Best == IF served.v3sig = Absent THEN "v2" ELSE "v3"

LEMMA GoAccepts ==
  ASSUME TypeInv, Genuine
  PROVE  Go!Run(cert, opts) = Best
<1>1. Go!useV3(cert) = (served.v3sig # Absent) /\ Go!v3SigPresent(cert) = Go!useV3(cert)
  BY GenuineVerifies, GoHelpers
  DEF SDKs, Go!useV3, Go!v3SigPresent, NoNumber, NoString
<1>2. Go!Parse(cert, opts.text)
  <2>1. Go!versionValue(cert.protocol, opts.text)
    BY GenuineIsWellFormed, GoHelpers DEF Go!versionValue
  <2>2. cert.emitted \in {Absent, Null} \/ Go!versionValue(cert.emitted, opts.text)
    BY GenuineVerifies, GoHelpers DEF SDKs, Go!versionValue
  <2> QED
    BY <2>1, <2>2, GenuineIsWellFormed, GoHelpers DEF Go!Parse, Go!WellFormedClaim
<1>3. Go!Derivable(cert)
  BY GenuineIsWellFormed, GoHelpers DEF Go!Derivable
<1>4. Go!Verified(cert, opts.key)
  BY <1>1, GenuineVerifies, Derivations DEF SDKs, Go!Verified, Go!VerifyEd25519
<1>5. cert.protocol.value = Go!SupportedProtocolVersion /\ cert.keyId = opts.keyId /\ cert.sig # Blank
  BY GenuineIsWellFormed, GenuineMembers DEF Go!SupportedProtocolVersion, Genuine
<1>6. ~(opts.minimum = "v3" /\ ~Go!useV3(cert))
  BY <1>1 DEF Genuine
<1> QED
  BY <1>1, <1>2, <1>3, <1>4, <1>5, <1>6 DEF Go!Run, Best

LEMMA TsAccepts ==
  ASSUME TypeInv, Genuine
  PROVE  Ts!verifyCertificate(cert, opts) = Best
<1>1. Ts!useV3(cert) = (served.v3sig # Absent) /\ Ts!v3SigPresent(cert) = Ts!useV3(cert)
  BY GenuineVerifies, TsHelpers
  DEF SDKs, Ts!useV3, Ts!V3_SIGNABLE_VERSION_THRESHOLD, Ts!v3SigPresent, NoNumber, NoString
<1>2. Ts!parseCertificate(cert)
  <2>1. Ts!isUint64(cert.protocol)
    BY GenuineIsWellFormed, TsHelpers DEF Ts!isUint64
  <2>2. cert.emitted \in {Absent, Null} \/ Ts!isUint64(cert.emitted)
    BY GenuineVerifies, TsHelpers DEF SDKs, Ts!isUint64
  <2> QED
    BY <2>1, <2>2, GenuineIsWellFormed, TsHelpers DEF Ts!parseCertificate
<1>3. Ts!Derivable(cert)
  BY GenuineIsWellFormed, TsHelpers
  DEF Ts!Derivable, Ts!extractValidatedClaimIds, Ts!validateAndMapVerdict, Ts!canonicalJson
<1>4. CASE served.v3sig # Absent
  BY <1>1, <1>3, <1>4, GenuineVerifies, Derivations, GenuineIsWellFormed, GenuineMembers, <1>2
  DEF SDKs, Ts!verifyCertificate, Ts!SUPPORTED_PROTOCOL_VERSION, Ts!verifyV3, Ts!verifyEd25519,
      Best, Genuine
<1>5. CASE served.v3sig = Absent
  BY <1>1, <1>3, <1>5, GenuineVerifies, Derivations, GenuineIsWellFormed, GenuineMembers, <1>2
  DEF SDKs, Ts!verifyCertificate, Ts!SUPPORTED_PROTOCOL_VERSION, Ts!verifyV2, Ts!verifyEd25519,
      Best, Genuine
<1> QED
  BY <1>4, <1>5

LEMMA PyAccepts ==
  ASSUME TypeInv, Genuine
  PROVE  Py!verify_certificate(cert, opts) = Best
<1>1. Py!use_v3(cert) = (served.v3sig # Absent) /\ Py!v3_sig_present(cert) = Py!use_v3(cert)
  BY GenuineVerifies, PyHelpers
  DEF SDKs, Py!use_v3, Py!_V3_SIGNABLE_MIN_VERSION, Py!v3_sig_present, NoNumber, NoString
<1>2. Py!parse_certificate(cert)
  <2>1. Py!WithinU64(cert.protocol)
    BY GenuineIsWellFormed, PyHelpers DEF Py!WithinU64
  <2>2. cert.emitted \in {Absent, Null} \/ Py!WithinU64(cert.emitted)
    BY GenuineVerifies, PyHelpers DEF SDKs, Py!WithinU64
  <2>3. cert.v3sig # Other
    BY GenuineVerifies, KindsAssumption DEF SDKs, NoString
  <2>4. Py!VeilCertificate(cert)
    BY <2>3, GenuineIsWellFormed, PyHelpers DEF Py!VeilCertificate, Py!VeilClaim
  <2> QED
    BY <2>1, <2>2, <2>4, GenuineIsWellFormed, PyHelpers DEF Py!parse_certificate
<1>3. Py!_validate_claims(cert) /\ ~Py!PayloadHasNoGet(cert)
  BY GenuineIsWellFormed, GenuineClaims, PyHelpers DEF Py!_validate_claims, Py!PayloadHasNoGet
<1>4. Py!Verified(cert, opts.key)
  BY <1>1, GenuineVerifies, Derivations DEF SDKs, Py!Verified, Py!verify_ed25519
<1>5. /\ cert.protocol.value = Py!SIGNABLE_PROTOCOL_VERSION /\ cert.keyId = opts.keyId
      /\ cert.sig # Blank
  BY GenuineIsWellFormed, GenuineMembers DEF Py!SIGNABLE_PROTOCOL_VERSION, Genuine
<1>6. ~(opts.minimum = "v3" /\ ~Py!use_v3(cert)) /\ Py!_parse_iso(cert.issued)
  BY <1>1 DEF Genuine, Untouched, Py!_parse_iso
<1> QED
  BY <1>1, <1>2, <1>3, <1>4, <1>5, <1>6 DEF Py!verify_certificate, Best

(* No false alarm: a certificate that is as the witness issued it, whatever  *)
(* it says, is accepted by all three on its best signature.                  *)
THEOREM GenuineIsAlwaysAccepted == Spec => []GenuineIsAccepted
<1>1. IInv => GenuineIsAccepted
  <2> SUFFICES ASSUME IInv, Answered, Genuine, NEW s \in SDKs
               PROVE  answer[s] = Best
    BY DEF GenuineIsAccepted, Genuine, Best
  <2>1. /\ Go!Run(cert, opts) = Best /\ Ts!verifyCertificate(cert, opts) = Best
        /\ Py!verify_certificate(cert, opts) = Best
    BY GoAccepts, TsAccepts, PyAccepts DEF IInv
  <2> QED
    BY <2>1 DEF IInv, AnswerInv, Answered, SDKs
<1> QED
  BY <1>1, AnswersStand, PTL

------------------------------------------------------------------------------
\* A certificate outside of the classes in which the SDKs are known to differ,
\* and not refused by an earlier check of one of them.
Plain == ~KnownLimit /\ ~OtherDifference /\ ~EarlyRefusal

\* What the three parsers, derivations and verifications of a plain certificate
\* come to.
Parses ==
  /\ {cert.id, cert.request, cert.keyId, cert.sig, cert.issued, cert.verdict} \cap NoString = {}
  /\ cert.claims # Other /\ cert.protocol \notin NoNumber /\ cert.emitted # Other

Newer == cert.emitted \notin {Absent, Null} /\ cert.emitted.value >= 3
HasNewer == cert.v3sig \notin NoString \cup {Blank}
Derives == cert.claims # <<>> /\ cert.claims[1].request_id = cert.request
Verifies ==
  /\ cert.sig.canonical
  /\ IF Newer THEN /\ cert.v3sig.canonical /\ cert.v3sig.by = opts.key
                   /\ cert.v3sig.over = DerivedV3("go", cert)
     ELSE cert.sig.by = opts.key /\ cert.sig.over = DerivedV2("go", cert)

CommonAnswer ==
  IF ~Parses THEN "malformed"
  ELSE IF cert.protocol.value # 2 THEN "unsupported_protocol_version"
  ELSE IF cert.keyId # opts.keyId THEN "witness_mismatch"
  ELSE IF cert.sig = Blank THEN "witness_signature_missing"
  ELSE IF Newer # HasNewer THEN "version_downgrade_detected"
  ELSE IF ~Derives THEN "malformed"
  ELSE IF ~Verifies THEN "invalid_signature"
  ELSE IF opts.minimum = "v3" /\ ~Newer THEN "signable_version_insufficient"
  ELSE IF Newer THEN "v3" ELSE "v2"

LEMMA PlainClaims ==
  ASSUME Plain, cert.claims # Other, NEW i \in DOMAIN cert.claims
  PROVE  LET claim == cert.claims[i]
         IN /\ claim # Other
            /\ claim.claim_id \notin NoString /\ claim.request_id \notin NoString
            /\ claim.service_id \notin NoString /\ claim.canonical_payload \notin NoString
            /\ claim.service_id = "dsa-sanitizer" =>
                 /\ claim.canonical_payload.base64 # "loose"
                 /\ claim.canonical_payload.json # "other"
                 /\ claim.canonical_payload.payload # List
BY DEF Plain, KnownLimit, OddClaim

LEMMA PlainMembers ==
  ASSUME TypeInv, Plain
  PROVE  /\ cert.protocol \notin NoNumber =>
              cert.protocol.token = "integer" /\ cert.protocol.value # MaxUint64
         /\ cert.emitted \notin NoNumber =>
              cert.emitted.token = "integer" /\ cert.emitted.value # MaxUint64
         /\ cert.v3sig # Other /\ cert.id # "" /\ cert.verdict \in DOMAIN VerdictShort
         /\ cert.byok \in BOOLEAN \cup {Absent}
         /\ cert.client # Other /\ cert.apiKey # Other /\ cert.rest
         /\ cert.issued \notin NoString => cert.issued.form \in {"nano", "padded", "offset"}
<1>1. /\ cert.byok \in BOOLEAN \cup {Absent, Null, Other, Truthy}
      /\ cert.issued \in Held("issued")
  BY DataAssumption DEF TypeInv, Members
<1>2. cert.issued \notin NoString =>
        cert.issued.form \in {"nano", "padded", "offset", "comma", "unreadable"}
  BY <1>1, DataAssumption
<1> QED
  BY <1>1, <1>2 DEF Plain, KnownLimit, OtherDifference, EarlyRefusal, OddNumber

\* What they derive of it is the same.
LEMMA PlainHashes ==
  ASSUME TypeInv, Plain, cert.claims # Other, NEW s \in SDKs, NEW key
  PROVE  Hash(s, cert, key) = Hash("go", cert, key)
<1> DEFINE i == SanitizerClaim(cert.claims)
           p == cert.claims[i].canonical_payload
<1>1. cert.claims \in Held("claims") \ {Other}
  BY DEF TypeInv, Members
<1>2. i # 0 => i \in DOMAIN cert.claims /\ cert.claims[i].service_id = "dsa-sanitizer"
  BY <1>1, ClaimsAreSequences, SanitizerClaimIsOne
<1> HIDE DEF i
<1>3. i # 0 => /\ p \notin NoString /\ p.base64 # "loose" /\ p.json # "other" /\ p.payload # List
  BY <1>2, PlainClaims
<1> USE DEF i
<1>4. i # 0 => /\ p.base64 \in {"canonical", "garbled"}
               /\ p.json \in {"object", "garbled"}
  BY <1>1, <1>3, SanitizerDocForms
<1>5. Hash("go", cert, key) = IF i = 0 THEN Null
        ELSE IF p \in NoString \/ p.base64 # "canonical" \/ p.json # "object" THEN Null
        ELSE NonEmpty((IF p.payload \in NoString \cup {List} THEN p.flat ELSE p.payload)[key])
  BY GoHelpers DEF Hash, Go!ExtractSanitizerPayloadHash
<1>6. Hash("ts", cert, key) = IF i = 0 THEN Null
        ELSE IF p \in NoString \/ p.base64 = "garbled" \/ p.json # "object" \/ p.payload = List
             THEN Null
        ELSE NonEmpty((IF p.payload \in NoString THEN p.flat ELSE p.payload)[key])
  BY TsHelpers DEF Hash, Ts!sanitizerHashField
<1>7. Hash("py", cert, key) = IF i = 0 THEN Null
        ELSE IF p.base64 = "garbled" \/ p.json = "garbled" THEN Null
        ELSE NonEmpty((IF p.payload \in NoString \cup {List} THEN p.flat ELSE p.payload)[key])
  BY PyHelpers DEF Hash, Py!_sanitizer_canonical_payload_string
<1> HIDE DEF i, p
<1> QED
  BY <1>3, <1>4, <1>5, <1>6, <1>7 DEF SDKs

LEMMA PlainSignables ==
  ASSUME TypeInv, Plain, Parses, NEW s \in SDKs
  PROVE  DerivedV2(s, cert) = DerivedV2("go", cert) /\ DerivedV3(s, cert) = DerivedV3("go", cert)
<1>1. Time(s, cert) = Time("go", cert)
  BY PlainMembers
  DEF Parses, Time, SDKs, Go!normalizeIssuedAt, Ts!normalizeIssuedAt, Py!normalize_issued_at
<1>2. Text(s, cert.client) = Text("go", cert.client) /\ Text(s, cert.apiKey) = Text("go", cert.apiKey)
  BY PlainMembers DEF Text, SDKs, NoString
<1>3. Byok(s, cert.byok) = Byok("go", cert.byok)
  <2>1. cert.byok \in BOOLEAN \cup {Absent} /\ "go" \in SDKs
    BY PlainMembers DEF SDKs
  <2>2. CASE cert.byok \in BOOLEAN
    BY <2>1, <2>2, ReadBoolean
  <2>3. CASE cert.byok = Absent
    BY <2>3, ReadAbsent, <2>1
  <2> QED
    BY <2>1, <2>2, <2>3
<1>4. [key \in HashKeys |-> Hash(s, cert, key)] = [key \in HashKeys |-> Hash("go", cert, key)]
  BY PlainHashes DEF Parses
<1> QED
  BY <1>1, <1>2, <1>3, <1>4, Zenon DEF DerivedV2, DerivedV3

------------------------------------------------------------------------------
\* The first claim of claims is one of them.
LEMMA PlainDerives ==
  ASSUME TypeInv, cert.claims # Other
  PROVE  Derives => 1 \in DOMAIN cert.claims
BY ClaimsAreSequences DEF Derives, TypeInv, Members

LEMMA GoIsCommon ==
  ASSUME TypeInv, Plain
  PROVE  Go!Run(cert, opts) = CommonAnswer
<1>1. Go!Parse(cert, opts.text) <=> Parses
  <2>1. Go!versionValue(cert.protocol, opts.text) <=> cert.protocol \notin NoNumber
    BY PlainMembers, GoHelpers DEF Go!versionValue
  <2>2. cert.emitted \in {Absent, Null} \/ Go!versionValue(cert.emitted, opts.text)
          <=> cert.emitted # Other
    BY PlainMembers, GoHelpers, KindsAssumption DEF Go!versionValue, NoNumber, NoString
  <2>3. cert.claims # Other => \A i \in DOMAIN cert.claims : Go!WellFormedClaim(cert.claims[i])
    BY PlainClaims, GoHelpers DEF Go!WellFormedClaim
  <2> QED
    BY <2>1, <2>2, <2>3, PlainMembers, GoHelpers DEF Go!Parse, Parses
<1>2. (Go!useV3(cert) <=> Newer) /\ (Go!v3SigPresent(cert) <=> HasNewer)
  BY GoHelpers DEF Go!useV3, Go!v3SigPresent, Newer, HasNewer
<1>3. Go!Derivable(cert) <=> Derives
  BY PlainMembers, GoHelpers DEF Go!Derivable, Derives
<1>4. Go!Verified(cert, opts.key) <=> Verifies
  BY <1>2, Derivations, Zenon DEF Go!Verified, Go!VerifyEd25519, Verifies
<1>5. Go!SupportedProtocolVersion = 2
  BY DEF Go!SupportedProtocolVersion
<1>6. (Go!v3SigPresent(cert) # Go!useV3(cert)) <=> (Newer # HasNewer)
  BY <1>2, Zenon DEF Go!v3SigPresent, Go!useV3, Newer, HasNewer
<1> QED
  BY <1>1, <1>2, <1>3, <1>4, <1>5, <1>6 DEF Go!Run, CommonAnswer

LEMMA TsIsCommon ==
  ASSUME TypeInv, Plain
  PROVE  Ts!verifyCertificate(cert, opts) = CommonAnswer
<1>1. Ts!parseCertificate(cert) <=> Parses
  <2>1. Ts!isUint64(cert.protocol) <=> cert.protocol \notin NoNumber
    BY PlainMembers, TsHelpers DEF Ts!isUint64
  <2>2. cert.emitted \in {Absent, Null} \/ Ts!isUint64(cert.emitted) <=> cert.emitted # Other
    BY PlainMembers, TsHelpers, KindsAssumption DEF Ts!isUint64, NoNumber, NoString
  <2> QED
    BY <2>1, <2>2, TsHelpers DEF Ts!parseCertificate, Parses
<1>2. (Ts!useV3(cert) <=> Newer) /\ (Ts!v3SigPresent(cert) <=> HasNewer)
  BY TsHelpers
  DEF Ts!useV3, Ts!V3_SIGNABLE_VERSION_THRESHOLD, Ts!v3SigPresent, Newer, HasNewer
<1>3. Parses => (Ts!Derivable(cert) <=> Derives)
  <2> SUFFICES ASSUME Parses
               PROVE  Ts!Derivable(cert) <=> Derives
    OBVIOUS
  <2>1. cert.claims # Other
    BY DEF Parses
  <2>2. \A i \in DOMAIN cert.claims : cert.claims[i] # Other /\ cert.claims[i].claim_id \notin NoString
    BY <2>1, PlainClaims
  <2>3. Ts!extractValidatedClaimIds(cert.claims, cert.request) <=> Derives
    BY <2>1, <2>2, PlainDerives, TsHelpers DEF Ts!extractValidatedClaimIds, Derives
  <2>4. Ts!validateAndMapVerdict(cert.verdict) /\ Ts!canonicalJson(cert)
    BY PlainMembers, TsHelpers, KindsAssumption
    DEF Ts!validateAndMapVerdict, Ts!canonicalJson, NoString
  <2> QED
    BY <2>3, <2>4 DEF Ts!Derivable
<1>4. Parses => /\ Ts!deriveWitnessSignedBytes(cert) = DerivedV2("go", cert)
                /\ Ts!deriveWitnessSignedBytesV3(cert) = DerivedV3("go", cert)
  BY PlainSignables, Derivations DEF SDKs
<1>5. CASE Newer
  <2>1. Ts!verifyV3(cert, opts) = IF ~Ts!Derivable(cert) THEN "malformed"
          ELSE IF ~(/\ cert.sig.canonical /\ cert.v3sig.canonical /\ cert.v3sig.by = opts.key
                    /\ cert.v3sig.over = Ts!deriveWitnessSignedBytesV3(cert))
               THEN "invalid_signature" ELSE "v3"
    BY DEF Ts!verifyV3, Ts!verifyEd25519
  <2>2. Parses => Ts!verifyV3(cert, opts) = IF ~Derives THEN "malformed"
                    ELSE IF ~Verifies THEN "invalid_signature" ELSE "v3"
    BY <1>3, <1>4, <1>5, <2>1, Zenon DEF Verifies
  <2>3. Ts!useV3(cert) /\ ((Ts!useV3(cert) # Ts!v3SigPresent(cert)) <=> (Newer # HasNewer))
    BY <1>2, <1>5 DEF HasNewer, Newer, Ts!v3SigPresent, Ts!useV3
  <2> QED
    BY <1>1, <1>5, <2>2, <2>3
    DEF Ts!verifyCertificate, Ts!SUPPORTED_PROTOCOL_VERSION, CommonAnswer
<1>6. CASE ~Newer
  <2>1. Ts!verifyV2(cert, opts) = IF ~Ts!Derivable(cert) THEN "malformed"
          ELSE IF ~(/\ cert.sig.canonical /\ cert.sig.by = opts.key
                    /\ cert.sig.over = Ts!deriveWitnessSignedBytes(cert))
               THEN "invalid_signature"
          ELSE IF opts.minimum = "v3" THEN "signable_version_insufficient" ELSE "v2"
    BY DEF Ts!verifyV2, Ts!verifyEd25519
  <2>2. Parses => Ts!verifyV2(cert, opts) = IF ~Derives THEN "malformed"
                    ELSE IF ~Verifies THEN "invalid_signature"
                    ELSE IF opts.minimum = "v3" THEN "signable_version_insufficient" ELSE "v2"
    BY <1>3, <1>4, <1>6, <2>1, Zenon DEF Verifies
  <2>3. ~Ts!useV3(cert) /\ ((Ts!useV3(cert) # Ts!v3SigPresent(cert)) <=> (Newer # HasNewer))
    BY <1>2, <1>6 DEF HasNewer, Newer, Ts!v3SigPresent, Ts!useV3
  <2> QED
    BY <1>1, <1>6, <2>2, <2>3
    DEF Ts!verifyCertificate, Ts!SUPPORTED_PROTOCOL_VERSION, CommonAnswer
<1> QED
  BY <1>5, <1>6

LEMMA PyIsCommon ==
  ASSUME TypeInv, Plain
  PROVE  Py!verify_certificate(cert, opts) = CommonAnswer
<1>1. Py!parse_certificate(cert) <=> Parses
  <2>1. Py!WithinU64(cert.protocol) <=> cert.protocol \notin NoNumber
    BY PlainMembers, PyHelpers DEF Py!WithinU64
  <2>2. cert.emitted \in {Absent, Null} \/ Py!WithinU64(cert.emitted) <=> cert.emitted # Other
    BY PlainMembers, PyHelpers, KindsAssumption DEF Py!WithinU64, NoNumber, NoString
  <2>3. cert.byok \notin {Null, Other}
    BY PlainMembers, KindsAssumption DEF NoString
  <2>4. cert.claims # Other => Py!VeilCertificate(cert)
    BY <2>3, PlainClaims, PlainMembers, PyHelpers DEF Py!VeilCertificate, Py!VeilClaim
  <2> QED
    BY <2>1, <2>2, <2>4, PyHelpers DEF Py!parse_certificate, Parses
<1>2. (Py!use_v3(cert) <=> Newer) /\ (Py!v3_sig_present(cert) <=> HasNewer)
  BY PyHelpers DEF Py!use_v3, Py!_V3_SIGNABLE_MIN_VERSION, Py!v3_sig_present, Newer, HasNewer
<1>3. Py!_validate_claims(cert) <=> Derives
  BY DEF Py!_validate_claims, Derives
<1>4. Parses => ~Py!PayloadHasNoGet(cert)
  <2> SUFFICES ASSUME Parses
               PROVE  ~Py!PayloadHasNoGet(cert)
    OBVIOUS
  <2> DEFINE i == SanitizerClaim(cert.claims)
  <2>1. cert.claims \in Held("claims") \ {Other}
    BY DEF Parses, TypeInv, Members
  <2>2. i # 0 => i \in DOMAIN cert.claims /\ cert.claims[i].service_id = "dsa-sanitizer"
    BY <2>1, ClaimsAreSequences, SanitizerClaimIsOne
  <2> HIDE DEF i
  <2>3. i # 0 => cert.claims[i].canonical_payload.json # "other"
    BY <2>1, <2>2, PlainClaims
  <2> QED
    BY <2>3, PyHelpers DEF Py!PayloadHasNoGet, i
<1>5. Parses => (Py!Verified(cert, opts.key) <=> Verifies)
  <2>1. Parses => /\ Py!derive_witness_signed_bytes(cert) = DerivedV2("go", cert)
                  /\ Py!derive_v3_signed_bytes(cert) = DerivedV3("go", cert)
    BY PlainSignables, Derivations DEF SDKs
  <2> QED
    BY <1>2, <2>1, Zenon DEF Py!Verified, Py!verify_ed25519, Verifies
<1>6. Parses => Py!_parse_iso(cert.issued)
  BY PlainMembers DEF Parses, Py!_parse_iso
<1>7. (Py!use_v3(cert) # Py!v3_sig_present(cert)) <=> (Newer # HasNewer)
  BY <1>2 DEF HasNewer, Newer, Py!v3_sig_present, Py!use_v3
<1> QED
  BY <1>1, <1>2, <1>3, <1>4, <1>5, <1>6, <1>7
  DEF Py!verify_certificate, Py!SIGNABLE_PROTOCOL_VERSION, CommonAnswer

(* Outside of the classes that the module names, the three SDKs give every   *)
(* certificate and every caller the same answer with the same reason.        *)
THEOREM SdksAlwaysAgree == Spec => []SdksAgree
<1>1. IInv => SdksAgree
  <2> SUFFICES ASSUME IInv, Answered, ~KnownLimit, ~OtherDifference
               PROVE  \/ answer["go"] = answer["ts"] /\ answer["ts"] = answer["py"]
                      \/ EarlyRefusal /\ \A s \in SDKs : ~Accepts(s)
    BY DEF SdksAgree
  <2>1. CASE ~EarlyRefusal
    <3>1. /\ Go!Run(cert, opts) = CommonAnswer /\ Ts!verifyCertificate(cert, opts) = CommonAnswer
          /\ Py!verify_certificate(cert, opts) = CommonAnswer
      BY <2>1, GoIsCommon, TsIsCommon, PyIsCommon DEF IInv, Plain
    <3> QED
      BY <3>1 DEF IInv, AnswerInv, Answered, SDKs
  <2>2. CASE EarlyRefusal
    <3>1. SUFFICES ASSUME NEW s \in SDKs, Accepts(s)
                   PROVE  FALSE
      BY <2>2
    <3>2. Shown(s, cert, opts, answer[s])
      BY <3>1, AnswersShow DEF Accepts, Verifying
    <3>3. cert.id = ""
      BY <2>2, <3>2 DEF Shown, EarlyRefusal
    <3>4. PICK h \in Issued : SameCore(h)
      BY <3>2, ShownIsSigned DEF IInv
    <3>5. h.id # ""
      BY IssuedAssumption
    <3> QED
      BY <3>3, <3>4, <3>5 DEF SameCore
  <2> QED
    BY <2>1, <2>2
<1> QED
  BY <1>1, AnswersStand, PTL
==============================================================================
