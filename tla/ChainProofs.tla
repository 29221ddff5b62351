------------------------------ MODULE ChainProofs ------------------------------
(***************************************************************************)
(* Proofs about Chain, for every set of certificates, changes, keys and    *)
(* callers: what the run MCChain.cfg checks of three of its invariants.    *)
(*                                                                         *)
(* IInv is inductive.  It says what the checks that are done have shown:   *)
(* the certificate does not change after the first of them, the loop keeps *)
(* what holds of the claims behind it, and only the last action, with all  *)
(* of that at hand, writes a result that is not FAILED.                    *)
(***************************************************************************)
EXTENDS Chain, FiniteSetTheorems, SequenceTheorems, WellFoundedInduction, TLAPS

\* What the steps 1 to 6 have shown.
WitnessChecked(c, a) ==
  /\ Shape(c) /\ c.protocol.value = 2 /\ c.keyId = WitnessKeyID
  /\ (c.emitted \notin {Absent, Null} /\ c.emitted.value >= 3) = v3present(c)
  /\ ChainIssuedAt(c.issued)
  /\ WitnessV2(c) /\ WitnessV3(c)
  /\ a.minV3 => v3present(c)
  /\ Bound(c, a)
  /\ c.verdict \in {"VERDICT_VERIFIED", "VERDICT_PARTIAL"}

\* What step 7 has shown of one claim.
ClaimChecked(c, claim) ==
  LET doc == claim.canonical_payload
  IN /\ claim.service_id \in DOMAIN Services
     /\ chainB64(doc, doc.base64 = "canonical")
     /\ chainB64(claim.signature, claim.signature.canonical)
     /\ OwnSignature(claim)
     /\ doc.json = "object" /\ doc.strict
     /\ ~doc.variant
     /\ Rebuilt(claim)
     /\ doc.request_id = c.request
     /\ chainTypedBound(claim)

\* What the steps 8a to 8d have shown.
EgressChecked(c) ==
  /\ \A j \in DigestClaims(c) :
       /\ WellFormedDigests(SignedDigests(c.claims[j]))
       /\ bodiesOf(c.claims[j]) \in {<<>>, SignedDigests(c.claims[j])}
  /\ ~BodiesUnbound(c)
  /\ chainCertTier(c.claims, Label(c.tier), c.verdict).passes

AllChecked ==
  /\ WitnessChecked(cert, ask) /\ EgressChecked(cert)
  /\ i \in Nat /\ DOMAIN cert.claims = 1..i
  /\ \A j \in DOMAIN cert.claims : ClaimChecked(cert, cert.claims[j])

IInv ==
  /\ at \in {"input", "claims", "ceilings", "done"}
  /\ i \in Nat
  /\ at = "input" => i = 0
  /\ at # "done" => result = NoResult
  /\ at = "claims" => /\ WitnessChecked(cert, ask)
                      /\ \A j \in 1..i : ClaimChecked(cert, cert.claims[j])
  /\ at = "ceilings" => AllChecked
  /\ at = "done" => \/ result.verdict = "FAILED"
                    \/ result = Passed(cert, ask) /\ AllChecked

------------------------------------------------------------------------------
\* Steps 1 to 6 pass only what they have checked.
LEMMA WitnessStepsPass ==
  ASSUME NEW c, NEW a, WitnessSteps(c, a) = "pass"
  PROVE  WitnessChecked(c, a)
BY DEF WitnessSteps, WitnessChecked

\* Step 7 passes only what it has checked, whatever the pointers so far.
LEMMA ClaimStepsPass ==
  ASSUME NEW c, NEW claim, NEW sofar, ClaimSteps(c, claim, sofar) = "pass"
  PROVE  ClaimChecked(c, claim)
BY DEF ClaimSteps, ClaimChecked, StrictDocument

\* Steps 8a to 8d pass only what they have checked.
LEMMA EgressStepsPass ==
  ASSUME NEW c, EgressSteps(c) = "pass"
  PROVE  EgressChecked(c)
BY DEF EgressSteps, EgressChecked

\* A failed check returns FAILED, a passed one a value with the verdict of its step.
LEMMA Verdicts ==
  /\ NoResult.verdict = "none"
  /\ \A step : Failed(step).verdict = "FAILED"
BY DEF NoResult, Failed

\* The verdict of a result that passed is that of its ceiling.
LEMMA PassedVerdict ==
  ASSUME NEW c, NEW a
  PROVE  Passed(c, a).verdict \in {"PARTIAL", "EGRESS_UNATTESTED", "VERIFIED"}
BY DEF Passed, Ceiling, ChainSteps

------------------------------------------------------------------------------
\* The invariant holds at first, and no change and no check breaks it.
LEMMA InvInductive == IInv /\ [Next]_vars => IInv'
<1> SUFFICES ASSUME IInv, [Next]_vars
             PROVE  IInv'
  OBVIOUS
<1>1. ASSUME NEW c, Edit(c)
      PROVE  IInv'
  BY <1>1 DEF Edit, IInv
<1>2. CASE CheckWitness
  <2>1. at = "input" /\ i' = 0 /\ cert' = cert
    BY <1>2 DEF CheckWitness, IInv
  <2>2. CASE WitnessSteps(cert, ask') = "pass"
    <3>1. WitnessChecked(cert', ask')
      BY <2>1, <2>2, WitnessStepsPass
    <3>2. at' = "claims" /\ result' = NoResult
      BY <1>2, <2>2 DEF CheckWitness, Decide, IInv
    <3> QED
      BY <2>1, <3>1, <3>2 DEF IInv
  <2>3. CASE WitnessSteps(cert, ask') # "pass"
    BY <1>2, <2>1, <2>3, Verdicts DEF CheckWitness, Decide, IInv
  <2> QED
    BY <2>2, <2>3
<1>3. CASE CheckClaim
  <2> DEFINE claim == cert.claims[i + 1]
             step == ClaimSteps(cert, claim, pointers)
  <2>1. at = "claims" /\ UNCHANGED <<cert, ask>> /\ i \in Nat
    BY <1>3 DEF CheckClaim, IInv
  <2>2. CASE step = "pass"
    <3>1. ClaimChecked(cert, claim)
      BY <2>2, ClaimStepsPass
    <3>2. at' = "claims" /\ result' = NoResult /\ i' = i + 1
      BY <1>3, <2>1, <2>2 DEF CheckClaim, Decide, IInv
    <3>3. \A j \in 1..i' : ClaimChecked(cert, cert.claims[j])
      <4>1. \A j \in 1..i' : j \in 1..i \/ j = i + 1
        BY <2>1, <3>2
      <4> QED
        BY <2>1, <3>1, <4>1 DEF IInv
    <3>4. WitnessChecked(cert, ask)
      BY <2>1 DEF IInv
    <3> HIDE DEF claim, step
    <3> QED
      BY <2>1, <3>2, <3>3, <3>4 DEF IInv
  <2>3. CASE step # "pass"
    BY <1>3, <2>1, <2>3, Verdicts DEF CheckClaim, Decide, IInv
  <2> QED
    BY <2>2, <2>3
<1>4. CASE CheckEgress
  <2>1. at = "claims" /\ DOMAIN cert.claims = 1..i /\ UNCHANGED <<cert, ask, i>>
    BY <1>4 DEF CheckEgress
  <2>2. CASE EgressSteps(cert) = "pass"
    <3>1. AllChecked
      BY <2>1, <2>2, EgressStepsPass DEF AllChecked, IInv
    <3>2. at' = "ceilings" /\ result' = NoResult
      BY <1>4, <2>2 DEF CheckEgress, Decide, IInv
    <3>3. AllChecked'
      BY <2>1, <3>1 DEF AllChecked
    <3> QED
      BY <2>1, <3>2, <3>3 DEF IInv
  <2>3. CASE EgressSteps(cert) # "pass"
    BY <1>4, <2>1, <2>3, Verdicts DEF CheckEgress, Decide, IInv
  <2> QED
    BY <2>2, <2>3
<1>5. CASE Ceilings
  <2>1. AllChecked'
    BY <1>5 DEF Ceilings, IInv, AllChecked
  <2> QED
    BY <1>5, <2>1 DEF Ceilings, IInv
<1>6. CASE UNCHANGED vars
  <2>1. AllChecked => AllChecked'
    BY <1>6 DEF vars, AllChecked
  <2> QED
    BY <1>6, <2>1 DEF vars, IInv
<1> QED
  BY <1>1, <1>2, <1>3, <1>4, <1>5, <1>6 DEF Next, Change, ChangeClaim, ReplaceClaim

\* What the checks have shown is an invariant of the recipe.
THEOREM ChecksHold == Spec => []IInv
<1>1. Init => IInv
  BY DEF Init, IInv
<1> QED
  BY <1>1, InvInductive, PTL DEF Spec

\* An accepted result is the one of a certificate that passed all the checks.
LEMMA AcceptedIsChecked == IInv /\ Accepted => result = Passed(cert, ask) /\ AllChecked
BY Verdicts DEF IInv, Accepted

------------------------------------------------------------------------------
\* A signature that is verified is there, and is over the message.
LEMMA SignatureIsOver ==
  ASSUME NEW key, NEW message, NEW text, chainStrictVerify(key, message, text)
  PROVE  text \notin NoString /\ text # Blank /\ text.canonical
         /\ text.by = key /\ text.over = message
BY DEF chainStrictVerify

(* Whatever verdict but FAILED the caller reads, witness and services signed *)
(* what the caller takes for signed: RunChain in chain.go has no path around *)
(* the steps 5b, 5e and 7a to 7h.                                            *)
THEOREM AcceptedClaimsAreSigned == Spec => []ClaimsAreSigned
<1>1. IInv => ClaimsAreSigned
  <2> SUFFICES ASSUME IInv, Accepted
               PROVE  /\ cert.sig.by = Witness
                      /\ ask.request \in {Null, cert.sig.over.request_id}
                      /\ ask.certificate \in {Null, cert.sig.over.certificate_id}
                      /\ \A j \in DOMAIN cert.claims :
                           LET claim == cert.claims[j]
                               doc == claim.signature.over
                           IN /\ claim.service_id \in DOMAIN Services
                              /\ claim.signature.by = Services[claim.service_id]
                              /\ doc.service_id = claim.service_id
                              /\ doc.claim_id = cert.sig.over.claim_ids[j]
                              /\ doc.request_id = cert.sig.over.request_id
    BY DEF ClaimsAreSigned
  <2>1. AllChecked
    BY AcceptedIsChecked
  <2>2. cert.sig.by = Witness /\ cert.sig.over = v2(cert)
    BY <2>1, SignatureIsOver DEF AllChecked, WitnessChecked, WitnessV2
  <2>3. /\ cert.sig.over.request_id = cert.request
        /\ cert.sig.over.certificate_id = cert.id
        /\ cert.sig.over.claim_ids = ClaimIds(cert.claims)
    BY <2>2 DEF v2
  <2>4. ASSUME NEW j \in DOMAIN cert.claims
        PROVE  LET claim == cert.claims[j]
                   doc == claim.signature.over
               IN /\ claim.service_id \in DOMAIN Services
                  /\ claim.signature.by = Services[claim.service_id]
                  /\ doc.service_id = claim.service_id
                  /\ doc.claim_id = cert.sig.over.claim_ids[j]
                  /\ doc.request_id = cert.sig.over.request_id
    <3> DEFINE claim == cert.claims[j]
    <3>1. ClaimChecked(cert, claim)
      BY <2>1 DEF AllChecked
    <3>2. claim.service_id \in DOMAIN Services
      BY <3>1 DEF ClaimChecked
    <3>3. /\ claim.signature.by = Services[claim.service_id]
          /\ claim.signature.over = claim.canonical_payload
      BY <3>1, SignatureIsOver DEF ClaimChecked, OwnSignature, SignedBy
    <3>4. /\ claim.canonical_payload.service_id = claim.service_id
          /\ claim.canonical_payload.claim_id = claim.claim_id
          /\ claim.canonical_payload.request_id = cert.request
      BY <3>1 DEF ClaimChecked, Rebuilt
    <3>5. cert.sig.over.claim_ids[j] = claim.claim_id
      BY <2>3 DEF ClaimIds
    <3> QED
      BY <2>3, <3>2, <3>3, <3>4, <3>5
  <2> QED
    BY <2>1, <2>2, <2>3, <2>4 DEF AllChecked, WitnessChecked, Bound
<1> QED
  BY <1>1, ChecksHold, PTL

(* A body that is stored beside an accepted chain hashes, in its place, to   *)
(* the digest that the ai service signed: the steps 8a to 8c of chain.go     *)
(* leave no claim on which a body would go unchecked.                        *)
THEOREM AcceptedBodiesAreAttested == Spec => []StoredBodiesAreAttested
<1>1. IInv => StoredBodiesAreAttested
  <2> SUFFICES ASSUME IInv, Accepted, NEW j \in DOMAIN cert.claims,
                      bodiesOf(cert.claims[j]) # <<>>
               PROVE  /\ cert.claims[j].service_id = "dsa-ai"
                      /\ SignedDigests(cert.claims[j]) = bodiesOf(cert.claims[j])
                      /\ result.egress = "signed_digests"
    BY DEF StoredBodiesAreAttested
  <2>1. EgressChecked(cert) /\ result = Passed(cert, ask)
    BY AcceptedIsChecked DEF AllChecked
  <2>2. j \in DigestClaims(cert)
    BY <2>1 DEF EgressChecked, BodiesUnbound
  <2>3. cert.claims[j].service_id = "dsa-ai"
    BY <2>2 DEF DigestClaims, Of
  <2>4. bodiesOf(cert.claims[j]) = SignedDigests(cert.claims[j])
    BY <2>1, <2>2 DEF EgressChecked
  <2>5. result.egress = "signed_digests"
    BY <2>1, <2>2 DEF Passed
  <2> QED
    BY <2>3, <2>4, <2>5
<1> QED
  BY <1>1, ChecksHold, PTL

------------------------------------------------------------------------------
\* A set of positions that is not empty has a first.
LEMMA FirstExists ==
  ASSUME NEW n \in Nat, NEW S \in SUBSET (1..n), S # {}
  PROVE  \E k \in S : \A j \in S : k <= j
<1>1. S \in SUBSET Nat
  OBVIOUS
<1>2. PICK k \in S : \A j \in S : ~ (<<j, k>> \in OpToRel(<, Nat))
  BY <1>1, NatLessThanWellFounded, WFMin
<1>3. \A j \in S : ~ (j < k)
  BY <1>1, <1>2 DEF OpToRel
<1> QED
  BY <1>1, <1>3

\* The first claim of the sanitizer, if there is one, is a claim.
LEMMA SanitizerClaimIsOne ==
  ASSUME NEW c, NEW n \in Nat, DOMAIN c.claims = 1..n, SanitizerClaim(c.claims) # 0
  PROVE  SanitizerClaim(c.claims) \in DOMAIN c.claims
<1> DEFINE S == {k \in DOMAIN c.claims :
                   c.claims[k] # Other /\ c.claims[k].service_id = "dsa-sanitizer"}
<1>1. SanitizerClaim(c.claims) = IF S = {} THEN 0 ELSE CHOOSE k \in S : \A j \in S : k <= j
  BY DEF SanitizerClaim
<1>2. S # {} /\ SanitizerClaim(c.claims) = CHOOSE k \in S : \A j \in S : k <= j
  BY <1>1
<1>3. S \in SUBSET (1..n)
  OBVIOUS
<1> HIDE DEF S
<1>4. \E k \in S : \A j \in S : k <= j
  BY <1>2, <1>3, FirstExists
<1>5. SanitizerClaim(c.claims) \in S
  BY <1>2, <1>4
<1> QED
  BY <1>5 DEF S

\* The helpers are the same in both instances of module Certificate.
LEMMA SameHelpers ==
  /\ Go!NoString = NoString /\ Go!NoNumber = NoNumber /\ Go!VerdictShort = VerdictShort
  /\ \A claims : /\ Go!ClaimIds(claims) = ClaimIds(claims)
                 /\ Go!SanitizerClaim(claims) = SanitizerClaim(claims)
  /\ \A v : Go!NonEmpty(v) = NonEmpty(v)
BY DEF Go!NoString, NoString, Go!NoNumber, NoNumber, Go!VerdictShort, VerdictShort, Go!ClaimIds, ClaimIds,
       Go!SanitizerClaim, SanitizerClaim, Go!NonEmpty, NonEmpty

\* Of a chain that passed, both functions derive the same signables.
LEMMA SameSignables ==
  ASSUME AllChecked
  PROVE  /\ Go!DeriveSignedBytes(cert) = v2(cert)
         /\ Go!DeriveV3SignedBytes(cert) = v3(cert)
<1>1. WitnessChecked(cert, ask)
  BY DEF AllChecked
<1>2. Go!normalizeIssuedAt(cert.issued) = [cert.issued EXCEPT !.form = "nano"]
  BY <1>1 DEF WitnessChecked, ChainIssuedAt, Go!normalizeIssuedAt
<1>3. cert.verdict \in DOMAIN VerdictShort
  BY <1>1 DEF WitnessChecked, VerdictShort
<1>4. Go!DeriveSignedBytes(cert) = v2(cert)
  BY <1>2, <1>3, SameHelpers DEF Go!DeriveSignedBytes, v2
<1>5. ASSUME NEW key
      PROVE  Go!ExtractSanitizerPayloadHash(cert, key) = chainSanitizerHash(cert, key)
  <2> DEFINE n == SanitizerClaim(cert.claims)
             p == cert.claims[n].canonical_payload
  <2>1. CASE n = 0
    BY <2>1, SameHelpers DEF Go!ExtractSanitizerPayloadHash, chainSanitizerHash
  <2>2. CASE n # 0
    <3>1. n \in DOMAIN cert.claims
      BY <2>2, SanitizerClaimIsOne DEF AllChecked
    <3>2. ClaimChecked(cert, cert.claims[n])
      BY <3>1 DEF AllChecked
    <3>3. p \notin NoString /\ p.base64 = "canonical" /\ p.json = "object" /\ p.strict
      BY <3>2 DEF ClaimChecked, OwnSignature, SignedBy, chainB64, NoString
    <3> QED
      BY <2>2, <3>3, SameHelpers DEF Go!ExtractSanitizerPayloadHash, chainSanitizerHash
  <2> QED
    BY <2>1, <2>2
<1>6. cert.client # Other /\ cert.apiKey # Other
  BY <1>1 DEF WitnessChecked, Shape
<1> QED
  BY <1>4, <1>5, <1>6, SameHelpers DEF Go!DeriveV3SignedBytes, v3, v2, NoString

LEMMA NoGapAtOne ==
  ASSUME NEW n \in Nat, 1..n # {}
  PROVE  1 \in 1..n
<1>1. PICK k : k \in 1..n
  BY Zenon
<1>2. k \in Int /\ 1 <= k /\ k <= n
  BY <1>1
<1> QED
  BY <1>2

LEMMA EmptyHasNone == 1 \notin DOMAIN <<>>
<1> DEFINE s == <<>>
<1>1. s \in Seq({}) /\ Len(s) = 0
  BY EmptySeq
<1>2. DOMAIN s = 1..0
  BY <1>1, LenProperties
<1> QED
  BY <1>2

\* A chain that passed has what the parser of verifyCertificate asks for.
LEMMA CheckedParses ==
  ASSUME AllChecked, "" \notin {cert.id, cert.request}
  PROVE  Go!Parse(cert, TRUE) /\ Go!Derivable(cert)
<1>1. WitnessChecked(cert, ask) /\ Shape(cert)
  BY DEF AllChecked, WitnessChecked
<1>2. cert.sig \notin NoString
  BY <1>1, SignatureIsOver DEF WitnessChecked, WitnessV2
<1>3. /\ Go!versionValue(cert.protocol, TRUE)
      /\ cert.emitted \in {Absent, Null} \/ Go!versionValue(cert.emitted, TRUE)
  BY <1>1, SameHelpers DEF Shape, ChainInteger, Go!versionValue
<1>4. ASSUME NEW j \in DOMAIN cert.claims
      PROVE  /\ Go!WellFormedClaim(cert.claims[j])
             /\ cert.claims[j].request_id = cert.request
  <2> DEFINE claim == cert.claims[j]
  <2>1. claim # Other /\ claim.claim_id \notin NoString
    BY <1>1 DEF Shape, WellShaped
  <2>2. /\ claim.request_id # Other
        /\ chainOptString(claim.request_id) = cert.request
    BY DEF AllChecked, ClaimChecked, Rebuilt
  <2>3. claim.request_id \notin NoString /\ claim.request_id = cert.request
    BY <2>2 DEF chainOptString, NoString
  <2> QED
    BY <2>1, <2>3, SameHelpers DEF Go!WellFormedClaim
<1>5. 1 \in DOMAIN cert.claims /\ cert.claims # Other
  <2>1. i \in Nat /\ DOMAIN cert.claims = 1..i
    BY DEF AllChecked
  <2>2. DOMAIN cert.claims # {}
    BY <1>1 DEF Shape
  <2>3. cert.claims # Other
    BY <1>1 DEF Shape
  <2>4. 1..i # {}
    BY <2>1, <2>2, Zenon
  <2>5. 1 \in 1..i
    BY <2>1, <2>4, NoGapAtOne, Zenon
  <2> QED
    BY <2>1, <2>3, <2>5, Zenon
<1>6. cert.claims # <<>>
  BY <1>5, EmptyHasNone, Zenon
<1>7. Go!Derivable(cert)
  BY <1>1, <1>4, <1>5, <1>6, SameHelpers DEF Go!Derivable, WitnessChecked, VerdictShort
<1> QED
  BY <1>1, <1>2, <1>3, <1>4, <1>5, <1>7, SameHelpers DEF Go!Parse, Shape

(* Checking the chain adds to checking the witness: what RunChain accepts,   *)
(* Run of pipeline.go accepts on the same signature, for every certificate   *)
(* with ids.                                                                 *)
THEOREM ChainIsStricterAlways == Spec => []ChainIsStricter
<1>1. IInv => ChainIsStricter
  <2> SUFFICES ASSUME IInv, Accepted, "" \notin {cert.id, cert.request}
               PROVE  Go!Run(cert, options) = result.version
    BY DEF ChainIsStricter
  <2>1. AllChecked /\ WitnessChecked(cert, ask)
    BY AcceptedIsChecked DEF AllChecked
  <2>2. result.version = IF v3present(cert) THEN "v3" ELSE "v2"
    <3>1. result = Passed(cert, ask)
      BY AcceptedIsChecked
    <3> QED
      BY <3>1, Zenon DEF Passed
  <2>3. Go!Parse(cert, options.text) /\ Go!Derivable(cert)
    BY <2>1, CheckedParses DEF options
  <2>4. cert.sig # Blank /\ cert.sig.canonical /\ cert.sig.by = Witness /\ cert.sig.over = v2(cert)
    <3>1. chainStrictVerify(Witness, v2(cert), cert.sig)
      BY <2>1 DEF WitnessChecked, WitnessV2
    <3> QED
      BY <3>1, Zenon DEF chainStrictVerify
  <2>5. Go!v3SigPresent(cert) = v3present(cert) /\ Go!useV3(cert) = v3present(cert)
    BY <2>1, SameHelpers DEF WitnessChecked, Go!v3SigPresent, v3present, Go!useV3
  <2>6. Go!Verified(cert, options.key)
    <3>1. v3present(cert) => chainStrictVerify(Witness, v3(cert), cert.v3sig)
      BY <2>1 DEF WitnessChecked, WitnessV3
    <3>2. v3present(cert) => /\ cert.v3sig.canonical /\ cert.v3sig.by = Witness
                             /\ cert.v3sig.over = v3(cert)
      BY <3>1, Zenon DEF chainStrictVerify
    <3>3. options.key = Witness
      BY DEF options
    <3> QED
      BY <2>1, <2>4, <2>5, <3>2, <3>3, SameSignables, Zenon DEF Go!Verified, Go!VerifyEd25519
  <2>7. options.minimum = "v3" => v3present(cert)
    BY <2>1 DEF WitnessChecked, options
  <2>8. cert.protocol.value = Go!SupportedProtocolVersion /\ cert.keyId = options.keyId
    BY <2>1 DEF WitnessChecked, Go!SupportedProtocolVersion, options
  <2> QED
    BY <2>2, <2>3, <2>4, <2>5, <2>6, <2>7, <2>8 DEF Go!Run
<1> QED
  BY <1>1, ChecksHold, PTL

------------------------------------------------------------------------------
\* The one claim of a service that signs a copy of the tier signs this one.
Signing(claims, service, tier) ==
  \E j \in DOMAIN claims :
    Carriers(claims) \cap Of(claims, service) = {j} /\ SignedCopy(claims[j]) = tier

LEMMA SigningIsCarrier ==
  ASSUME NEW claims, NEW service, NEW tier, Signing(claims, service, tier)
  PROVE  \E j \in Carriers(claims) : claims[j].service_id = service /\ SignedCopy(claims[j]) = tier
BY DEF Signing, Of

\* The tier of step 8d that is signed, whatever the label.
Sealed(claims) ==
  IF Cardinality(Carriers(claims)) = 0 THEN "absent"
  ELSE IF /\ Cardinality(Carriers(claims)) = 2
          /\ Signing(claims, "dsa-gateway", "input-shield") /\ Signing(claims, "dsa-ai", "input-shield")
  THEN "input_shield" ELSE "inconsistent"

\* The cases in which step 8d passes.
LEMMA RulePasses ==
  ASSUME NEW claims, NEW label, NEW sealed, chainCertTier(claims, label, sealed).passes
  PROVE  LET tier == chainCertTier(claims, label, sealed).tier
             n == Cardinality(Carriers(claims))
         IN \/ /\ label = "input_shield_two_signer" /\ tier = label /\ n = 1
               /\ Signing(claims, "dsa-gateway", "input-shield") /\ Of(claims, "dsa-ai") = {}
            \/ /\ tier = "audit_only" /\ n = 1
               /\ \E j \in DOMAIN claims : SignedCopy(claims[j]) = "audit-only"
            \/ /\ ~markerSigned(claims) /\ tier = Sealed(claims)
               /\ tier = "inconsistent" => sealed = "VERDICT_PARTIAL"
<1> DEFINE n == Cardinality(Carriers(claims))
           two == /\ n = 1 /\ Signing(claims, "dsa-gateway", "input-shield")
                  /\ Of(claims, "dsa-ai") = {} /\ Of(claims, "dsa-sanitizer") # {}
           marked == \E j \in Of(claims, "dsa-ai") :
                       SignedCopy(claims[j]) = "audit-only" /\ Inference(claims[j])
           audit == label = "audit_only" /\ n = 1 /\ Cardinality(Of(claims, "dsa-ai")) = 1 /\ marked
           signed == Sealed(claims)
           rule == chainCertTier(claims, label, sealed)
<1>1. rule =
        IF label = "input_shield_two_signer"
        THEN IF two THEN Rule(label, TRUE, FALSE) ELSE Rule(signed, FALSE, FALSE)
        ELSE IF label = "audit_only" \/ markerSigned(claims)
        THEN IF audit THEN Rule("audit_only", TRUE, FALSE) ELSE Rule(signed, FALSE, FALSE)
        ELSE IF label \notin {"", "full_chain", "input_shield"} THEN Rule(signed, FALSE, FALSE)
        ELSE IF \/ signed = "absent" /\ label \in {"", "full_chain"}
                \/ signed = "input_shield" /\ label = "input_shield"
        THEN Rule(signed, TRUE, FALSE)
        ELSE IF signed = "input_shield" /\ label = "" THEN Rule(signed, TRUE, TRUE)
        ELSE Rule(signed, sealed = "VERDICT_PARTIAL", FALSE)
  BY DEF chainCertTier, Sealed, Signing
<1>2. rule.passes
  OBVIOUS
<1>3. marked => \E j \in DOMAIN claims : SignedCopy(claims[j]) = "audit-only"
  BY DEF Of
<1> HIDE DEF n, two, marked, audit, signed, rule
<1>4. CASE label = "input_shield_two_signer"
  <2>1. two /\ rule.tier = label
    BY <1>1, <1>2, <1>4 DEF Rule
  <2> QED
    BY <1>4, <2>1 DEF two, n, rule
<1>5. CASE label # "input_shield_two_signer" /\ (label = "audit_only" \/ markerSigned(claims))
  <2>1. audit /\ rule.tier = "audit_only"
    BY <1>1, <1>2, <1>5 DEF Rule
  <2> QED
    BY <1>3, <2>1 DEF audit, n, rule
<1>6. CASE /\ label # "input_shield_two_signer" /\ label # "audit_only"
           /\ ~markerSigned(claims)
  <2>1. rule.tier = signed
    BY <1>1, <1>2, <1>6 DEF Rule
  <2>2. signed = "inconsistent" => rule.passes = (sealed = "VERDICT_PARTIAL")
    <3>1. CASE label \notin {"", "full_chain", "input_shield"}
      BY <1>1, <1>2, <1>6, <3>1 DEF Rule
    <3>2. CASE label \in {"", "full_chain", "input_shield"}
      BY <1>1, <1>2, <1>6, <3>2 DEF Rule
    <3> QED
      BY <3>1, <3>2
  <2> QED
    BY <1>6, <2>1, <2>2 DEF signed, rule
<1> QED
  BY <1>4, <1>5, <1>6

\* A set of two has no other members.
LEMMA TwoAreAll ==
  ASSUME NEW S, IsFiniteSet(S), Cardinality(S) = 2, NEW j \in S, NEW k \in S, j # k
  PROVE  S = {j, k}
<1>1. IsFiniteSet({j}) /\ Cardinality({j}) = 1
  BY FS_Singleton
<1>2. IsFiniteSet({j} \cup {k}) /\ Cardinality({j} \cup {k}) = 2
  <2>1. k \notin {j}
    OBVIOUS
  <2>2. Cardinality({j} \cup {k}) = Cardinality({j}) + 1 /\ IsFiniteSet({j} \cup {k})
    BY <1>1, <2>1, FS_AddElement
  <2> QED
    BY <1>1, <2>2
<1>3. {j} \cup {k} \in SUBSET S
  OBVIOUS
<1>4. {j} \cup {k} = S
  BY <1>2, <1>3, FS_Subset
<1> QED
  BY <1>4

\* What a tier that passed says of the copies.
LEMMA TierOfCopies ==
  ASSUME NEW claims, IsFiniteSet(DOMAIN claims), NEW label, NEW sealed,
         chainCertTier(claims, label, sealed).passes
  PROVE  LET tier == chainCertTier(claims, label, sealed).tier
             C == Carriers(claims)
         IN /\ tier = "audit_only" <=> \E j \in C : SignedCopy(claims[j]) = "audit-only"
            /\ tier = "absent" <=> C = {}
            /\ tier = "input_shield" => \E j, k \in C :
                 /\ C = {j, k} /\ claims[j].service_id = "dsa-gateway" /\ claims[k].service_id = "dsa-ai"
                 /\ SignedCopy(claims[j]) = "input-shield" /\ SignedCopy(claims[k]) = "input-shield"
            /\ tier = "input_shield_two_signer" =>
                 /\ Of(claims, "dsa-ai") = {}
                 /\ \E j \in C : /\ C = {j} /\ claims[j].service_id = "dsa-gateway"
                                 /\ SignedCopy(claims[j]) = "input-shield"
            /\ tier = "inconsistent" => sealed = "VERDICT_PARTIAL"
            /\ tier \in Tiers
<1> DEFINE tier == chainCertTier(claims, label, sealed).tier
           C == Carriers(claims)
<1>1. IsFiniteSet(C)
  <2>1. C \in SUBSET DOMAIN claims
    BY DEF Carriers
  <2> QED
    BY <2>1, FS_Subset
<1>2. /\ Cardinality(C) = 0 <=> C = {}
      /\ Cardinality(C) = 1 <=> \E x : C = {x}
  BY <1>1, FS_EmptySet, FS_Singleton
<1>3. \A j \in DOMAIN claims : SignedCopy(claims[j]) = "audit-only" => j \in C
  <2>1. Absent # "audit-only"
    BY KindsAssumption DEF NoString
  <2> QED
    BY <2>1 DEF Carriers
<1> HIDE DEF C
<1>4. CASE /\ label = "input_shield_two_signer" /\ tier = label /\ Cardinality(C) = 1
           /\ Signing(claims, "dsa-gateway", "input-shield") /\ Of(claims, "dsa-ai") = {}
  <2>1. PICK j \in C : claims[j].service_id = "dsa-gateway" /\ SignedCopy(claims[j]) = "input-shield"
    BY <1>4, SigningIsCarrier DEF C
  <2>2. C = {j}
    BY <1>2, <1>4, <2>1
  <2> QED
    BY <1>4, <2>1, <2>2 DEF C, Tiers
<1>5. CASE /\ tier = "audit_only" /\ Cardinality(C) = 1
           /\ \E j \in DOMAIN claims : SignedCopy(claims[j]) = "audit-only"
  BY <1>3, <1>5 DEF C, Tiers
<1>6. CASE /\ ~markerSigned(claims) /\ tier = Sealed(claims)
           /\ tier = "inconsistent" => sealed = "VERDICT_PARTIAL"
  <2>1. \A j \in C : SignedCopy(claims[j]) # "audit-only"
    BY <1>6 DEF markerSigned, C
  <2>2. tier \in {"absent", "input_shield", "inconsistent"} /\ (tier = "absent" <=> C = {})
    BY <1>2, <1>6 DEF Sealed, C
  <2>3. ASSUME tier = "input_shield"
        PROVE  \E j, k \in C :
                 /\ C = {j, k} /\ claims[j].service_id = "dsa-gateway" /\ claims[k].service_id = "dsa-ai"
                 /\ SignedCopy(claims[j]) = "input-shield" /\ SignedCopy(claims[k]) = "input-shield"
    <3>1. /\ Cardinality(C) = 2
          /\ Signing(claims, "dsa-gateway", "input-shield") /\ Signing(claims, "dsa-ai", "input-shield")
      BY <1>6, <2>3 DEF Sealed, C
    <3>2. PICK j \in C : claims[j].service_id = "dsa-gateway" /\ SignedCopy(claims[j]) = "input-shield"
      BY <3>1, SigningIsCarrier DEF C
    <3>3. PICK k \in C : claims[k].service_id = "dsa-ai" /\ SignedCopy(claims[k]) = "input-shield"
      BY <3>1, SigningIsCarrier DEF C
    <3>4. j # k
      BY <3>2, <3>3
    <3>5. C = {j, k}
      BY <1>1, <3>1, <3>4, TwoAreAll
    <3> QED
      BY <3>2, <3>3, <3>5
  <2> QED
    BY <1>6, <2>1, <2>2, <2>3 DEF C, Tiers
<1>7. \/ /\ label = "input_shield_two_signer" /\ tier = label /\ Cardinality(C) = 1
         /\ Signing(claims, "dsa-gateway", "input-shield") /\ Of(claims, "dsa-ai") = {}
      \/ /\ tier = "audit_only" /\ Cardinality(C) = 1
         /\ \E j \in DOMAIN claims : SignedCopy(claims[j]) = "audit-only"
      \/ /\ ~markerSigned(claims) /\ tier = Sealed(claims)
         /\ tier = "inconsistent" => sealed = "VERDICT_PARTIAL"
  BY RulePasses DEF C
<1> QED
  BY <1>4, <1>5, <1>6, <1>7

\* The values of a result are the documents of the claims, with their services.
LEMMA VerifiedDocuments ==
  ASSUME AllChecked, result = Passed(cert, ask)
  PROVE  /\ result.verified.claims = Documents(cert)
         /\ DOMAIN Documents(cert) = DOMAIN cert.claims
         /\ \A j \in DOMAIN cert.claims :
              /\ Documents(cert)[j] = cert.claims[j].canonical_payload
              /\ Documents(cert)[j].service_id = cert.claims[j].service_id
              /\ cert.claims[j].service_id \in DOMAIN Services
              /\ \A key \in PayloadKeys :
                   Says(Documents(cert)[j], key) = chainSignedPayload(cert.claims[j])[key]
<1>1. result.verified.claims = Documents(cert)
  BY DEF Passed, ChainVerified, Documents
<1>2. ASSUME NEW j \in DOMAIN cert.claims
      PROVE  /\ Documents(cert)[j] = cert.claims[j].canonical_payload
             /\ Documents(cert)[j].service_id = cert.claims[j].service_id
             /\ cert.claims[j].service_id \in DOMAIN Services
  BY DEF AllChecked, ClaimChecked, Rebuilt, Documents
<1>3. ASSUME NEW j \in DOMAIN cert.claims, NEW key \in PayloadKeys
      PROVE  Says(Documents(cert)[j], key) = chainSignedPayload(cert.claims[j])[key]
  BY <1>2 DEF Says, chainSignedPayload
<1>4. DOMAIN Documents(cert) = DOMAIN cert.claims
  BY DEF Documents
<1> QED
  BY <1>1, <1>2, <1>3, <1>4

(* The tier that a caller reads is that of the copies the services signed:   *)
(* the unsigned label can only fail the chain, at step 8d.                   *)
THEOREM AcceptedTierIsSigned == Spec => []TierIsSigned
<1>1. IInv => TierIsSigned
  <2> SUFFICES ASSUME IInv, Accepted
               PROVE  TierIsSigned
    BY DEF TierIsSigned
  <2> DEFINE claims == cert.claims
             C == Carriers(claims)
             docs == Documents(cert)
             tier == chainCertTier(claims, Label(cert.tier), cert.verdict).tier
  <2>1. AllChecked /\ EgressChecked(cert) /\ result = Passed(cert, ask)
    BY AcceptedIsChecked DEF AllChecked
  <2>2. IsFiniteSet(DOMAIN claims)
    BY <2>1, FS_Interval DEF AllChecked
  <2>3. chainCertTier(claims, Label(cert.tier), cert.verdict).passes
    BY <2>1 DEF EgressChecked
  <2>4. result.tier = tier /\ result.verified.claims = docs
    BY <2>1, VerifiedDocuments DEF Passed
  <2>5. /\ DOMAIN docs = DOMAIN claims
        /\ \A j \in DOMAIN claims : /\ docs[j].service_id = claims[j].service_id
                                    /\ Says(docs[j], "cert_tier") = SignedCopy(claims[j])
    BY <2>1, VerifiedDocuments DEF SignedCopy, PayloadKeys
  <2>6. Copies = {<<claims[j].service_id, SignedCopy(claims[j])>> : j \in C}
    BY <2>4, <2>5 DEF Copies, Carriers
  <2>7. /\ tier = "audit_only" <=> \E j \in C : SignedCopy(claims[j]) = "audit-only"
        /\ tier = "absent" <=> C = {}
        /\ tier = "input_shield" => \E j, k \in C :
             /\ C = {j, k} /\ claims[j].service_id = "dsa-gateway" /\ claims[k].service_id = "dsa-ai"
             /\ SignedCopy(claims[j]) = "input-shield" /\ SignedCopy(claims[k]) = "input-shield"
        /\ tier = "input_shield_two_signer" =>
             /\ Of(claims, "dsa-ai") = {}
             /\ \E j \in C : /\ C = {j} /\ claims[j].service_id = "dsa-gateway"
                             /\ SignedCopy(claims[j]) = "input-shield"
        /\ tier = "inconsistent" => cert.verdict = "VERDICT_PARTIAL"
    BY <2>2, <2>3, TierOfCopies
  <2>8. cert.verdict = "VERDICT_PARTIAL" => result.verdict = "PARTIAL"
    BY <2>1 DEF Passed, Ceiling, ChainSteps
  <2>9. \A j \in DOMAIN docs : docs[j].service_id = "dsa-ai" => j \in Of(claims, "dsa-ai")
    BY <2>5 DEF Of
  <2> HIDE DEF C, docs, tier, claims
  <2>10. result.tier = "audit_only" <=> \E copy \in Copies : copy[2] = "audit-only"
    <3>1. ASSUME NEW copy \in Copies, copy[2] = "audit-only"
          PROVE  \E j \in C : SignedCopy(claims[j]) = "audit-only"
      BY <2>6, <3>1
    <3>2. ASSUME NEW j \in C, SignedCopy(claims[j]) = "audit-only"
          PROVE  \E copy \in Copies : copy[2] = "audit-only"
      <4> DEFINE copy == <<claims[j].service_id, SignedCopy(claims[j])>>
      <4>1. copy \in Copies /\ copy[2] = "audit-only"
        BY <2>6, <3>2
      <4> QED
        BY <4>1
    <3> QED
      BY <2>4, <2>7, <3>1, <3>2
  <2>11. result.tier = "absent" <=> Copies = {}
    BY <2>4, <2>6, <2>7
  <2>12. ASSUME result.tier = "input_shield"
         PROVE  Copies = {<<"dsa-gateway", "input-shield">>, <<"dsa-ai", "input-shield">>}
    <3>1. PICK j \in C, k \in C :
             /\ C = {j, k} /\ claims[j].service_id = "dsa-gateway" /\ claims[k].service_id = "dsa-ai"
             /\ SignedCopy(claims[j]) = "input-shield" /\ SignedCopy(claims[k]) = "input-shield"
      BY <2>4, <2>7, <2>12
    <3> QED
      BY <2>6, <3>1
  <2>13. ASSUME result.tier = "input_shield_two_signer"
         PROVE  /\ Copies = {<<"dsa-gateway", "input-shield">>}
                /\ \A j \in DOMAIN docs : docs[j].service_id # "dsa-ai"
    <3>1. PICK j \in C : /\ C = {j} /\ claims[j].service_id = "dsa-gateway"
                         /\ SignedCopy(claims[j]) = "input-shield"
      BY <2>4, <2>7, <2>13
    <3> QED
      BY <2>4, <2>6, <2>7, <2>9, <2>13, <3>1
  <2> QED
    BY <2>4, <2>7, <2>8, <2>10, <2>11, <2>12, <2>13 DEF TierIsSigned
<1> QED
  BY <1>1, ChecksHold, PTL


------------------------------------------------------------------------------
(* Step 8d, in the three ways it is written.                                 *)

\* Induction, for a set of numbers.
LEMMA NumbersByStep ==
  ASSUME NEW S \in SUBSET Nat, 0 \in S, \A n \in S : n + 1 \in S
  PROVE  S = Nat
<1> SUFFICES ASSUME Nat \ S # {}
             PROVE  FALSE
  OBVIOUS
<1>1. PICK n \in Nat \ S : \A m \in Nat \ S : ~ (<<m, n>> \in OpToRel(<, Nat))
  BY NatLessThanWellFounded, WFMin
<1>2. \A m \in Nat \ S : ~ (m < n)
  BY <1>1 DEF OpToRel
<1>3. n # 0 /\ n - 1 \in Nat /\ n - 1 < n
  <2>1. n \in Nat /\ n # 0
    OBVIOUS
  <2> QED
    BY <2>1
<1>4. n - 1 \in S
  BY <1>2, <1>3
<1>5. n \in S
  BY <1>3, <1>4
<1> QED
  BY <1>1, <1>5

\* The copy that a claim signs, with its service.
Copy(claims, k) == <<claims[k].service_id, SignedCopy(claims[k])>>

\* What carriersOf collects, up to the nth claim.
Collects(claims, n, f) ==
  f = [k \in 0..n |->
         IF k = 0 THEN <<>>
         ELSE IF k \in Carriers(claims)
         THEN Append(f[k - 1], <<claims[k].service_id, SignedCopy(claims[k])>>)
         ELSE f[k - 1]]

LEMMA CollectsExists ==
  ASSUME NEW claims, NEW n \in Nat
  PROVE  \E f : Collects(claims, n, f)
<1> DEFINE S == {m \in Nat : \E f : Collects(claims, m, f)}
<1>1. 0 \in S
  <2> DEFINE f == [k \in 0..0 |-> <<>>]
  <2>1. \A k \in 0..0 : k = 0
    OBVIOUS
  <2>2. Collects(claims, 0, f)
    BY <2>1 DEF Collects
  <2> QED
    BY <2>2
<1>2. ASSUME NEW m \in S
      PROVE  m + 1 \in S
  <2>1. PICK f : Collects(claims, m, f)
    OBVIOUS
  <2> DEFINE last == IF m + 1 \in Carriers(claims) THEN Append(f[m], Copy(claims, m + 1)) ELSE f[m]
             g == [k \in 0..(m + 1) |-> IF k <= m THEN f[k] ELSE last]
             body(k) == IF k = 0 THEN <<>>
                        ELSE IF k \in Carriers(claims)
                        THEN Append(g[k - 1], <<claims[k].service_id, SignedCopy(claims[k])>>)
                        ELSE g[k - 1]
  <2>2. \A k \in 0..m : g[k] = f[k]
    OBVIOUS
  <2>3. ASSUME NEW k \in 0..(m + 1)
        PROVE  g[k] = body(k)
    <3>1. CASE k = m + 1
      <4>1. k # 0 /\ k - 1 = m /\ m \in 0..m /\ ~ (k <= m)
        BY <3>1
      <4>2. g[k] = last /\ g[k - 1] = f[m]
        BY <2>2, <4>1
      <4> HIDE DEF g
      <4> QED
        BY <3>1, <4>1, <4>2 DEF Copy
    <3>2. CASE k \in 0..m /\ k # 0
      <4>1. k - 1 \in 0..m
        BY <3>2
      <4>2. f[k] = IF k \in Carriers(claims)
                   THEN Append(f[k - 1], <<claims[k].service_id, SignedCopy(claims[k])>>)
                   ELSE f[k - 1]
        BY <2>1, <3>2 DEF Collects
      <4> HIDE DEF g
      <4> QED
        BY <2>2, <3>2, <4>1, <4>2
    <3>3. CASE k = 0
      <4>1. f[0] = <<>> /\ 0 \in 0..m
        BY <2>1 DEF Collects
      <4> HIDE DEF g
      <4> QED
        BY <2>2, <3>3, <4>1
    <3> QED
      BY <3>1, <3>2, <3>3
  <2>4. g = [k \in 0..(m + 1) |-> g[k]]
    OBVIOUS
  <2> HIDE DEF g
  <2>5. Collects(claims, m + 1, g)
    BY <2>3, <2>4 DEF Collects
  <2> QED
    BY <2>5
<1>3. S = Nat
  <2> HIDE DEF S
  <2>1. S \in SUBSET Nat
    BY DEF S
  <2> QED
    BY <1>1, <1>2, <2>1, NumbersByStep
<1> QED
  BY <1>3

\* carriersOf has every copy, and one entry for each claim that carries one.
LEMMA CarriersCollected ==
  ASSUME NEW T, NEW claims \in Seq(T)
  PROVE  LET C == Carriers(claims)
             all == {Copy(claims, j) : j \in C}
             s == carriersOf(claims)
         IN /\ s \in Seq(all) /\ Len(s) = Cardinality(C)
            /\ all = {s[j] : j \in 1..Len(s)}
<1> DEFINE C == Carriers(claims)
           N == Len(claims)
           f == CHOOSE g : Collects(claims, N, g)
           C0(k) == {j \in C : j <= k}
           all(k) == {Copy(claims, j) : j \in C0(k)}
           Good(k) == /\ f[k] \in Seq(all(k)) /\ Len(f[k]) = Cardinality(C0(k))
                      /\ all(k) = {f[k][j] : j \in 1..Len(f[k])}
           S == {k \in Nat : k <= N => Good(k)}
<1>1. N \in Nat /\ DOMAIN claims = 1..N
  BY LenProperties
<1>2. Collects(claims, N, f)
  <2>1. \E g : Collects(claims, N, g)
    BY <1>1, CollectsExists
  <2> QED
    BY <2>1, Zenon
<1>3. carriersOf(claims) = f[N]
  BY Zenon DEF carriersOf, Collects
<1>4. \A j \in C : j \in Int /\ 1 <= j /\ j <= N
  BY <1>1 DEF Carriers
<1> HIDE DEF f
<1>5. f[0] = <<>>
  BY <1>1, <1>2 DEF Collects
<1>6. ASSUME NEW k \in 1..N
      PROVE  f[k] = IF k \in C THEN Append(f[k - 1], Copy(claims, k)) ELSE f[k - 1]
  <2>1. k \in 0..N /\ k # 0
    BY <1>1
  <2>2. f[k] = IF k = 0 THEN <<>>
               ELSE IF k \in Carriers(claims)
               THEN Append(f[k - 1], <<claims[k].service_id, SignedCopy(claims[k])>>)
               ELSE f[k - 1]
    BY <1>2, <2>1 DEF Collects
  <2> QED
    BY <2>1, <2>2 DEF Copy
<1> HIDE DEF C, N
<1>7. 0 \in S
  <2>1. C0(0) = {}
    BY <1>1, <1>4
  <2>2. all(0) = {} /\ Cardinality(C0(0)) = 0
    BY <2>1, FS_EmptySet
  <2>3. f[0] \in Seq(all(0)) /\ Len(f[0]) = 0
    BY <1>5, EmptySeq
  <2>4. 1..Len(f[0]) = {}
    BY <2>3
  <2> QED
    BY <2>2, <2>3, <2>4
<1>8. ASSUME NEW m \in S
      PROVE  m + 1 \in S
  <2> SUFFICES ASSUME m + 1 <= N
               PROVE  Good(m + 1)
    OBVIOUS
  <2> DEFINE k == m + 1
             r == f[m]
  <2>1. k \in 1..N /\ k - 1 = m /\ m \in Nat
    BY <1>1
  <2>2. Good(m)
    <3> HIDE DEF Good
    <3> QED
      BY <1>1, <2>1
  <2>3. CASE k \notin C
    <3>1. C0(k) = C0(m)
      BY <1>1, <1>4, <2>1, <2>3
    <3>2. f[k] = f[m]
      BY <1>6, <2>1, <2>3
    <3> QED
      BY <2>2, <3>1, <3>2
  <2>4. CASE k \in C
    <3> DEFINE e == Copy(claims, k)
    <3>1. C0(k) = C0(m) \cup {k} /\ k \notin C0(m)
      BY <1>1, <1>4, <2>1, <2>4
    <3>2. all(k) = all(m) \cup {e}
      BY <3>1
    <3>3. f[k] = Append(r, e)
      BY <1>6, <2>1, <2>4
    <3>4. r \in Seq(all(k)) /\ e \in all(k)
      <4>1. r \in Seq(all(m)) /\ all(m) \subseteq all(k)
        BY <2>2, <3>2
      <4> HIDE DEF all
      <4>2. DOMAIN r = 1..Len(r) /\ Len(r) \in Nat /\ r \in [1..Len(r) -> all(m)]
        BY <4>1, LenProperties
      <4>3. r \in [1..Len(r) -> all(k)]
        BY <4>1, <4>2
      <4> QED
        BY <3>2, <4>2, <4>3, SeqDef
    <3>5. Len(r) \in Nat
      BY <3>4, LenProperties
    <3> HIDE DEF e, r, all
    <3>6. /\ Append(r, e) \in Seq(all(k)) /\ Len(Append(r, e)) = Len(r) + 1
          /\ \A j \in 1..Len(r) : Append(r, e)[j] = r[j]
          /\ Append(r, e)[Len(r) + 1] = e
      BY <3>4, AppendProperties
    <3>7. Cardinality(C0(k)) = Cardinality(C0(m)) + 1
      <4>1. IsFiniteSet(C0(m))
        <5>1. C0(m) \in SUBSET (1..N)
          BY <1>4, <1>1
        <5>2. IsFiniteSet(1..N)
          BY <1>1, FS_Interval
        <5> QED
          BY <5>1, <5>2, FS_Subset
      <4> QED
        BY <3>1, <4>1, FS_AddElement
    <3>8. all(k) = {Append(r, e)[j] : j \in 1..(Len(r) + 1)}
      <4>1. \A j \in 1..(Len(r) + 1) : j \in 1..Len(r) \/ j = Len(r) + 1
        BY <3>5
      <4>2. Len(r) + 1 \in 1..(Len(r) + 1) /\ \A j \in 1..Len(r) : j \in 1..(Len(r) + 1)
        BY <3>5
      <4>3. all(m) = {r[j] : j \in 1..Len(r)}
        BY <2>2 DEF r
      <4> QED
        BY <3>2, <3>6, <4>1, <4>2, <4>3
    <3>9. Len(r) = Cardinality(C0(m))
      BY <2>2 DEF r
    <3> QED
      BY <3>3, <3>6, <3>7, <3>8, <3>9
  <2> QED
    BY <2>3, <2>4
<1>9. S = Nat
  <2> HIDE DEF S
  <2>1. S \in SUBSET Nat
    BY DEF S
  <2> QED
    BY <1>7, <1>8, <2>1, NumbersByStep
<1>10. Good(N)
  <2> HIDE DEF Good
  <2> QED
    BY <1>1, <1>9
<1>11. C0(N) = C
  BY <1>1, <1>4
<1> QED
  BY <1>3, <1>10, <1>11 DEF C


\* The rule of step 8d, and what its three forms have in common.
Twofold(claims) ==
  /\ Cardinality(Carriers(claims)) = 1 /\ Signing(claims, "dsa-gateway", "input-shield")
  /\ Of(claims, "dsa-ai") = {} /\ Of(claims, "dsa-sanitizer") # {}
Marked(claims) ==
  /\ Cardinality(Carriers(claims)) = 1 /\ Cardinality(Of(claims, "dsa-ai")) = 1
  /\ \E j \in Of(claims, "dsa-ai") : SignedCopy(claims[j]) = "audit-only" /\ Inference(claims[j])
TierRule(claims, label, sealed, misfit) ==
  LET signed == Sealed(claims)
  IN IF label = "input_shield_two_signer"
     THEN IF Twofold(claims) THEN Rule(label, TRUE, FALSE) ELSE Rule(misfit, FALSE, FALSE)
     ELSE IF label = "audit_only" \/ markerSigned(claims)
     THEN IF label = "audit_only" /\ Marked(claims)
          THEN Rule("audit_only", TRUE, FALSE) ELSE Rule(signed, FALSE, FALSE)
     ELSE IF label \notin {"", "full_chain", "input_shield"} THEN Rule(signed, FALSE, FALSE)
     ELSE IF \/ signed = "absent" /\ label \in {"", "full_chain"}
             \/ signed = "input_shield" /\ label = "input_shield"
     THEN Rule(signed, TRUE, FALSE)
     ELSE IF signed = "input_shield" /\ label = "" THEN Rule(signed, TRUE, TRUE)
     ELSE Rule(signed, sealed = "VERDICT_PARTIAL", FALSE)

LEMMA GoTierRule ==
  ASSUME NEW claims, NEW label, NEW sealed
  PROVE  chainCertTier(claims, label, sealed) = TierRule(claims, label, sealed, Sealed(claims))
<1> DEFINE n == Cardinality(Carriers(claims))
           two == /\ n = 1 /\ Signing(claims, "dsa-gateway", "input-shield")
                  /\ Of(claims, "dsa-ai") = {} /\ Of(claims, "dsa-sanitizer") # {}
           marked == \E j \in Of(claims, "dsa-ai") :
                       SignedCopy(claims[j]) = "audit-only" /\ Inference(claims[j])
           audit == label = "audit_only" /\ n = 1 /\ Cardinality(Of(claims, "dsa-ai")) = 1 /\ marked
           signed == Sealed(claims)
           rule == chainCertTier(claims, label, sealed)
<1>1. rule =
        IF label = "input_shield_two_signer"
        THEN IF two THEN Rule(label, TRUE, FALSE) ELSE Rule(signed, FALSE, FALSE)
        ELSE IF label = "audit_only" \/ markerSigned(claims)
        THEN IF audit THEN Rule("audit_only", TRUE, FALSE) ELSE Rule(signed, FALSE, FALSE)
        ELSE IF label \notin {"", "full_chain", "input_shield"} THEN Rule(signed, FALSE, FALSE)
        ELSE IF \/ signed = "absent" /\ label \in {"", "full_chain"}
                \/ signed = "input_shield" /\ label = "input_shield"
        THEN Rule(signed, TRUE, FALSE)
        ELSE IF signed = "input_shield" /\ label = "" THEN Rule(signed, TRUE, TRUE)
        ELSE Rule(signed, sealed = "VERDICT_PARTIAL", FALSE)
  BY DEF chainCertTier, Sealed, Signing
<1>2. (two <=> Twofold(claims)) /\ (audit <=> label = "audit_only" /\ Marked(claims))
  BY DEF Twofold, Marked
<1> HIDE DEF two, audit, signed, rule
<1>3. rule = TierRule(claims, label, sealed, signed)
  BY <1>1, <1>2 DEF TierRule, signed
<1> QED
  BY <1>3 DEF rule, signed

\* What the list of the copies says of the claims.
LEMMA CopiesSay ==
  ASSUME NEW T, NEW claims \in Seq(T)
  PROVE  LET s == carriersOf(claims)
             C == Carriers(claims)
             ai == Of(claims, "dsa-ai")
             pair == {<<"dsa-ai", "input-shield">>, <<"dsa-gateway", "input-shield">>}
         IN /\ Len(s) = Cardinality(C) /\ Len(s) \in Nat /\ DOMAIN s = 1..Len(s)
            /\ s = <<>> <=> Cardinality(C) = 0
            /\ Cardinality(C) = 2 =>
                 ({s[j] : j \in 1..2} = pair <=> /\ Signing(claims, "dsa-gateway", "input-shield")
                                                 /\ Signing(claims, "dsa-ai", "input-shield"))
            /\ Cardinality(C) = 1 =>
                 /\ s[1] = <<"dsa-gateway", "input-shield">>
                      <=> Signing(claims, "dsa-gateway", "input-shield")
                 /\ s[1] = <<"dsa-ai", "audit-only">>
                      <=> \E j \in ai : SignedCopy(claims[j]) = "audit-only"
            /\ markerSigned(claims) <=> \E j \in DOMAIN s : s[j][2] = "audit-only"
            /\ Cardinality(ai) = 1 <=> \E j : ai = {j}
<1> DEFINE s == carriersOf(claims)
           C == Carriers(claims)
           all == {Copy(claims, j) : j \in C}
           ai == Of(claims, "dsa-ai")
           pair == {<<"dsa-ai", "input-shield">>, <<"dsa-gateway", "input-shield">>}
<1>1. s \in Seq(all) /\ Len(s) = Cardinality(C) /\ all = {s[j] : j \in 1..Len(s)}
  BY CarriersCollected
<1>2. Len(s) \in Nat /\ DOMAIN s = 1..Len(s)
  BY <1>1, LenProperties
<1>3. C \subseteq DOMAIN claims /\ ai \subseteq DOMAIN claims
  BY DEF Carriers, Of
<1>4. IsFiniteSet(C) /\ IsFiniteSet(ai)
  <2>1. IsFiniteSet(DOMAIN claims)
    BY LenProperties, FS_Interval
  <2> HIDE DEF C, ai
  <2> QED
    BY <1>3, <2>1, FS_Subset
<1>5. /\ Cardinality(C) = 1 <=> \E j : C = {j}
      /\ Cardinality(ai) = 1 <=> \E j : ai = {j}
  BY <1>4, FS_Singleton
<1>6. s = <<>> <=> Cardinality(C) = 0
  <2>1. s = <<>> <=> Len(s) = 0
    BY <1>1, EmptySeq
  <2> QED
    BY <1>1, <2>1
<1>7. \A j \in C : Copy(claims, j) = <<claims[j].service_id, SignedCopy(claims[j])>>
  BY DEF Copy
<1>8. \A j \in DOMAIN claims : SignedCopy(claims[j]) \in {"input-shield", "audit-only"} /\ SignedCopy(claims[j]) # Absent
        => j \in C
  BY DEF Carriers
<1> HIDE DEF s, C
<1>9. markerSigned(claims) <=> \E j \in DOMAIN s : s[j][2] = "audit-only"
  <2>1. markerSigned(claims) <=> \E j \in C : SignedCopy(claims[j]) = "audit-only"
    BY DEF markerSigned, C
  <2>2. (\E j \in C : SignedCopy(claims[j]) = "audit-only") <=> \E e \in all : e[2] = "audit-only"
    BY <1>7
  <2>3. (\E e \in all : e[2] = "audit-only") <=> \E j \in DOMAIN s : s[j][2] = "audit-only"
    <3> HIDE DEF all
    <3> QED
      BY <1>1, <1>2
  <2> QED
    BY <2>1, <2>2, <2>3
<1>10. ASSUME Cardinality(C) = 1
       PROVE  /\ s[1] = <<"dsa-gateway", "input-shield">>
                   <=> Signing(claims, "dsa-gateway", "input-shield")
              /\ s[1] = <<"dsa-ai", "audit-only">>
                   <=> \E j \in ai : SignedCopy(claims[j]) = "audit-only"
  <2>1. PICK j : C = {j}
    BY <1>5, <1>10
  <2>2. s[1] = <<claims[j].service_id, SignedCopy(claims[j])>>
    <3>1. all = {Copy(claims, j)}
      BY <2>1
    <3>2. all = {s[k] : k \in 1..1}
      BY <1>1, <1>10
    <3>3. s[1] \in all
      BY <3>2
    <3> QED
      BY <1>7, <2>1, <3>1, <3>3
  <2>3. s[1] = <<"dsa-gateway", "input-shield">>
          <=> claims[j].service_id = "dsa-gateway" /\ SignedCopy(claims[j]) = "input-shield"
    BY <2>2
  <2>4. Signing(claims, "dsa-gateway", "input-shield")
          <=> claims[j].service_id = "dsa-gateway" /\ SignedCopy(claims[j]) = "input-shield"
    <3>1. ASSUME Signing(claims, "dsa-gateway", "input-shield")
          PROVE  claims[j].service_id = "dsa-gateway" /\ SignedCopy(claims[j]) = "input-shield"
      <4>1. PICK k \in C : claims[k].service_id = "dsa-gateway" /\ SignedCopy(claims[k]) = "input-shield"
        BY <3>1, SigningIsCarrier DEF C
      <4> QED
        BY <2>1, <4>1
    <3>2. ASSUME claims[j].service_id = "dsa-gateway", SignedCopy(claims[j]) = "input-shield"
          PROVE  Signing(claims, "dsa-gateway", "input-shield")
      <4>1. j \in DOMAIN claims /\ C \cap Of(claims, "dsa-gateway") = {j}
        BY <1>3, <2>1, <3>2 DEF Of
      <4> QED
        BY <3>2, <4>1 DEF Signing, C
    <3> QED
      BY <3>1, <3>2
  <2>5. s[1] = <<"dsa-ai", "audit-only">>
          <=> claims[j].service_id = "dsa-ai" /\ SignedCopy(claims[j]) = "audit-only"
    BY <2>2
  <2>6. (\E k \in ai : SignedCopy(claims[k]) = "audit-only")
          <=> claims[j].service_id = "dsa-ai" /\ SignedCopy(claims[j]) = "audit-only"
    <3>1. Absent # "audit-only"
      BY KindsAssumption DEF NoString
    <3>2. \A k \in ai : SignedCopy(claims[k]) = "audit-only" => k = j
      BY <1>3, <1>8, <2>1, <3>1
    <3>3. j \in ai <=> claims[j].service_id = "dsa-ai"
      BY <1>3, <2>1 DEF Of
    <3>4. \A k \in ai : claims[k].service_id = "dsa-ai"
      BY DEF Of
    <3> HIDE DEF ai
    <3> QED
      BY <3>2, <3>3, <3>4
  <2> QED
    BY <2>3, <2>4, <2>5, <2>6
<1>11. ASSUME Cardinality(C) = 2
       PROVE  {s[j] : j \in 1..2} = pair <=> /\ Signing(claims, "dsa-gateway", "input-shield")
                                             /\ Signing(claims, "dsa-ai", "input-shield")
  <2>1. {s[j] : j \in 1..2} = all
    BY <1>1, <1>11
  <2>2. ASSUME all = pair
        PROVE  /\ Signing(claims, "dsa-gateway", "input-shield")
               /\ Signing(claims, "dsa-ai", "input-shield")
    <3>1. PICK j \in C : Copy(claims, j) = <<"dsa-gateway", "input-shield">>
      <4>1. <<"dsa-gateway", "input-shield">> \in all
        BY <2>2
      <4> QED
        BY <4>1
    <3>2. PICK k \in C : Copy(claims, k) = <<"dsa-ai", "input-shield">>
      <4>1. <<"dsa-ai", "input-shield">> \in all
        BY <2>2
      <4> QED
        BY <4>1
    <3>3. /\ claims[j].service_id = "dsa-gateway" /\ SignedCopy(claims[j]) = "input-shield"
          /\ claims[k].service_id = "dsa-ai" /\ SignedCopy(claims[k]) = "input-shield"
      BY <1>7, <3>1, <3>2
    <3>4. C = {j, k}
      BY <1>4, <1>11, <3>3, TwoAreAll
    <3>5. C \cap Of(claims, "dsa-gateway") = {j} /\ C \cap Of(claims, "dsa-ai") = {k}
      BY <1>3, <3>3, <3>4 DEF Of
    <3> QED
      BY <1>3, <3>3, <3>5 DEF Signing, C
  <2>3. ASSUME Signing(claims, "dsa-gateway", "input-shield"), Signing(claims, "dsa-ai", "input-shield")
        PROVE  all = pair
    <3>1. PICK j \in C : claims[j].service_id = "dsa-gateway" /\ SignedCopy(claims[j]) = "input-shield"
      BY <2>3, SigningIsCarrier DEF C
    <3>2. PICK k \in C : claims[k].service_id = "dsa-ai" /\ SignedCopy(claims[k]) = "input-shield"
      BY <2>3, SigningIsCarrier DEF C
    <3>3. j # k
      BY <3>1, <3>2
    <3>4. C = {j, k}
      BY <1>4, <1>11, <3>3, TwoAreAll
    <3>5. all = {Copy(claims, j), Copy(claims, k)}
      BY <3>4
    <3> QED
      BY <1>7, <3>1, <3>2, <3>5
  <2> QED
    BY <2>1, <2>2, <2>3
<1>12. Len(s) = Cardinality(C)
  BY <1>1
<1> QED
  BY <1>12, <1>2, <1>5, <1>6, <1>9, <1>10, <1>11, Zenon DEF s, C


LEMMA TypeScriptTierRule ==
  ASSUME NEW T, NEW claims \in Seq(T), NEW label, NEW sealed
  PROVE  certTierCheck(claims, label, sealed) = TierRule(claims, label, sealed, Sealed(claims))
<1> DEFINE s == carriersOf(claims)
           n == Cardinality(Carriers(claims))
           signed == IF s = <<>> THEN "absent"
                     ELSE IF inputShield(s) THEN "input_shield" ELSE "inconsistent"
           ai == Of(claims, "dsa-ai")
           twoSigner == /\ Len(s) = 1 /\ s[1] = <<"dsa-gateway", "input-shield">>
                        /\ Of(claims, "dsa-sanitizer") # {} /\ ai = {}
           auditOnly == /\ Len(s) = 1
                        /\ \E i_1 \in ai : /\ ai = {i_1} /\ Inference(claims[i_1])
                                           /\ SignedCopy(claims[i_1]) = "audit-only"
           marker == \E j \in DOMAIN s : s[j][2] = "audit-only"
           rule == certTierCheck(claims, label, sealed)
<1>1. rule =
        IF label = "input_shield_two_signer"
        THEN IF twoSigner THEN Rule(label, TRUE, FALSE) ELSE Rule(signed, FALSE, FALSE)
        ELSE IF label = "audit_only" \/ marker
        THEN IF label = "audit_only" /\ auditOnly
             THEN Rule(label, TRUE, FALSE) ELSE Rule(signed, FALSE, FALSE)
        ELSE IF label \notin {"", "full_chain", "input_shield"} THEN Rule(signed, FALSE, FALSE)
        ELSE IF <<signed, label>> \in {<<"absent", "">>, <<"absent", "full_chain">>,
                                       <<"input_shield", "input_shield">>}
        THEN Rule(signed, TRUE, FALSE)
        ELSE IF <<signed, label>> = <<"input_shield", "">> THEN Rule(signed, TRUE, TRUE)
        ELSE Rule(signed, sealed = "VERDICT_PARTIAL", FALSE)
  BY Zenon DEF certTierCheck
<1>2. /\ Len(s) = n /\ (s = <<>> <=> n = 0)
      /\ n = 2 => ({s[j] : j \in 1..2} = {<<"dsa-ai", "input-shield">>, <<"dsa-gateway", "input-shield">>}
                     <=> /\ Signing(claims, "dsa-gateway", "input-shield")
                         /\ Signing(claims, "dsa-ai", "input-shield"))
      /\ n = 1 => (s[1] = <<"dsa-gateway", "input-shield">>
                     <=> Signing(claims, "dsa-gateway", "input-shield"))
      /\ marker <=> markerSigned(claims)
      /\ Cardinality(ai) = 1 <=> \E j : ai = {j}
  BY CopiesSay
<1> HIDE DEF s, n
<1>3. signed = Sealed(claims)
  <2>1. {s[j] : j \in 1..2} = {s[1], s[2]}
    OBVIOUS
  <2>2. inputShield(s) <=> /\ n = 2 /\ Signing(claims, "dsa-gateway", "input-shield")
                           /\ Signing(claims, "dsa-ai", "input-shield")
    BY <1>2, <2>1 DEF inputShield
  <2> QED
    BY <1>2, <2>2 DEF Sealed, n
<1>4. twoSigner <=> Twofold(claims)
  BY <1>2 DEF Twofold, n
<1>5. auditOnly <=> Marked(claims)
  <2>1. \A j \in ai : Cardinality(ai) = 1 <=> ai = {j}
    BY <1>2
  <2> HIDE DEF ai
  <2> QED
    BY <1>2, <2>1 DEF Marked, n, ai
<1> HIDE DEF signed, twoSigner, auditOnly, marker, rule
<1>6. rule = TierRule(claims, label, sealed, Sealed(claims))
  <2>1. <<signed, label>> \in {<<"absent", "">>, <<"absent", "full_chain">>,
                               <<"input_shield", "input_shield">>}
          <=> \/ signed = "absent" /\ label \in {"", "full_chain"}
              \/ signed = "input_shield" /\ label = "input_shield"
    OBVIOUS
  <2>2. <<signed, label>> = <<"input_shield", "">> <=> signed = "input_shield" /\ label = ""
    OBVIOUS
  <2> QED
    BY <1>1, <1>2, <1>3, <1>4, <1>5, <2>1, <2>2 DEF TierRule
<1> QED
  BY <1>6 DEF rule

LEMMA PythonTierRule ==
  ASSUME NEW T, NEW claims \in Seq(T), NEW label, NEW sealed
  PROVE  _cert_tier_check(claims, label, sealed) = TierRule(claims, label, sealed, "not_evaluated")
<1> DEFINE s == carriersOf(claims)
           n == Cardinality(Carriers(claims))
           services == {claims[k].service_id : k \in DOMAIN claims}
           pair == {<<"dsa-ai", "input-shield">>, <<"dsa-gateway", "input-shield">>}
           signed == IF s = <<>> THEN "absent"
                     ELSE IF Len(s) = 2 /\ {s[j] : j \in 1..2} = pair
                     THEN "input_shield" ELSE "inconsistent"
           ai == Of(claims, "dsa-ai")
           two_signer == /\ s = << <<"dsa-gateway", "input-shield">> >>
                         /\ "dsa-sanitizer" \in services /\ "dsa-ai" \notin services
           audit_only == /\ Len(s) = 1 /\ s[1] = <<"dsa-ai", "audit-only">>
                         /\ Cardinality(ai) = 1 /\ \A k \in ai : Inference(claims[k])
           marker == \E j \in DOMAIN s : s[j][2] = "audit-only"
           rule == _cert_tier_check(claims, label, sealed)
<1>1. rule =
        IF label = "input_shield_two_signer"
        THEN IF two_signer THEN Rule(label, TRUE, FALSE) ELSE Rule("not_evaluated", FALSE, FALSE)
        ELSE IF label = "audit_only" \/ marker
        THEN IF label = "audit_only" /\ audit_only
             THEN Rule(label, TRUE, FALSE) ELSE Rule(signed, FALSE, FALSE)
        ELSE IF label \notin {"", "full_chain", "input_shield"} THEN Rule(signed, FALSE, FALSE)
        ELSE IF \/ signed = "absent" /\ label \in {"", "full_chain"}
                \/ signed = "input_shield" /\ label = "input_shield"
        THEN Rule(signed, TRUE, FALSE)
        ELSE IF signed = "input_shield" /\ label = "" THEN Rule(signed, TRUE, TRUE)
        ELSE Rule(signed, sealed = "VERDICT_PARTIAL", FALSE)
  BY Zenon DEF _cert_tier_check
<1>2. /\ Len(s) = n /\ DOMAIN s = 1..Len(s) /\ (s = <<>> <=> n = 0)
      /\ n = 2 => ({s[j] : j \in 1..2} = pair
                     <=> /\ Signing(claims, "dsa-gateway", "input-shield")
                         /\ Signing(claims, "dsa-ai", "input-shield"))
      /\ n = 1 => /\ s[1] = <<"dsa-gateway", "input-shield">>
                       <=> Signing(claims, "dsa-gateway", "input-shield")
                  /\ s[1] = <<"dsa-ai", "audit-only">>
                       <=> \E j \in ai : SignedCopy(claims[j]) = "audit-only"
      /\ marker <=> markerSigned(claims)
      /\ Cardinality(ai) = 1 <=> \E j : ai = {j}
  BY CopiesSay
<1>3. s \in Seq({Copy(claims, j) : j \in Carriers(claims)})
  BY CarriersCollected
<1> HIDE DEF s, n, pair
<1>4. signed = Sealed(claims)
  BY <1>2 DEF Sealed, n
<1>5. two_signer <=> Twofold(claims)
  <2>1. s = << <<"dsa-gateway", "input-shield">> >>
          <=> n = 1 /\ s[1] = <<"dsa-gateway", "input-shield">>
    <3> DEFINE e == <<"dsa-gateway", "input-shield">>
               all == {Copy(claims, j) : j \in Carriers(claims)}
    <3>1. s = <<e>> => n = 1 /\ s[1] = e
      BY <1>2
    <3>2. ASSUME n = 1, s[1] = e
          PROVE  s = <<e>>
      <4> HIDE DEF e, all
      <4>1. s \in Seq(all) /\ Len(s) = 1
        BY <1>2, <1>3, <3>2 DEF all
      <4>2. e \in all
        BY <3>2, <4>1
      <4>3. <<e>> \in Seq(all) /\ Len(<<e>>) = 1 /\ <<e>>[1] = e
        BY <4>2
      <4>4. \A j \in 1..Len(s) : s[j] = <<e>>[j]
        BY <3>2, <4>1, <4>3
      <4> QED
        BY <4>1, <4>3, <4>4, SeqEqual
    <3> QED
      BY <3>1, <3>2
  <2>2. /\ "dsa-sanitizer" \in services <=> Of(claims, "dsa-sanitizer") # {}
        /\ "dsa-ai" \notin services <=> Of(claims, "dsa-ai") = {}
    BY DEF Of
  <2> HIDE DEF services, ai
  <2> QED
    BY <1>2, <2>1, <2>2 DEF Twofold, n
<1>6. audit_only <=> Marked(claims)
  <2> HIDE DEF ai
  <2>1. Cardinality(ai) = 1 =>
          ((\E j \in ai : SignedCopy(claims[j]) = "audit-only") /\ (\A k \in ai : Inference(claims[k]))
           <=> \E j \in ai : SignedCopy(claims[j]) = "audit-only" /\ Inference(claims[j]))
    BY <1>2
  <2> QED
    BY <1>2, <2>1 DEF Marked, n, ai
<1> HIDE DEF signed, two_signer, audit_only, marker, rule
<1>7. rule = TierRule(claims, label, sealed, "not_evaluated")
  BY <1>1, <1>2, <1>4, <1>5, <1>6 DEF TierRule
<1> QED
  BY <1>7 DEF rule

\* The three forms of step 8d are one rule, but for the tier of a misfit.
LEMMA TierRulesAreOne ==
  ASSUME NEW T, NEW claims \in Seq(T), NEW label, NEW sealed
  PROVE  LET go == chainCertTier(claims, label, sealed)
             py == _cert_tier_check(claims, label, sealed)
         IN /\ certTierCheck(claims, label, sealed) = go
            /\ py.passes = go.passes /\ py.capped = go.capped
            /\ py.tier = go.tier \/ (label = "input_shield_two_signer" /\ ~go.passes)
<1> DEFINE rule(misfit) == TierRule(claims, label, sealed, misfit)
           go == chainCertTier(claims, label, sealed)
           py == _cert_tier_check(claims, label, sealed)
<1>1. go = rule(Sealed(claims)) /\ certTierCheck(claims, label, sealed) = rule(Sealed(claims))
      /\ py = rule("not_evaluated")
  BY GoTierRule, TypeScriptTierRule, PythonTierRule
<1>2. CASE label # "input_shield_two_signer" \/ Twofold(claims)
  <2>1. rule("not_evaluated") = rule(Sealed(claims))
    BY <1>2 DEF TierRule
  <2> QED
    BY <1>1, <2>1
<1>3. CASE label = "input_shield_two_signer" /\ ~Twofold(claims)
  <2>1. \A misfit : rule(misfit) = Rule(misfit, FALSE, FALSE)
    BY <1>3 DEF TierRule
  <2>2. \A misfit : ~rule(misfit).passes /\ rule(misfit).passes = FALSE /\ rule(misfit).capped = FALSE
    BY <2>1 DEF Rule
  <2> HIDE DEF rule
  <2> QED
    BY <1>1, <1>3, <2>2
<1> QED
  BY <1>2, <1>3
==============================================================================
