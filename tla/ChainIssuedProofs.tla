--------------------------- MODULE ChainIssuedProofs ---------------------------
(***************************************************************************)
(* Proofs about Chain, continued: what the signatures that pass say of the *)
(* certificates that were issued, and that a certificate as it was issued  *)
(* passes.                                                                 *)
(*                                                                         *)
(* DInv adds to IInv where the members of a certificate come from, and     *)
(* that one that nobody changed is one that was issued.                    *)
(***************************************************************************)
EXTENDS ChainProofs

\* A claim whose members are among those that there are.
ClaimHeld(claim) ==
  DOMAIN claim = ClaimMembers /\ \A member \in ClaimMembers : claim[member] \in HeldInClaims(member)

\* A certificate whose members are among those that there are.
CertHeld(c) ==
  /\ DOMAIN c = Members
  /\ \A member \in Members \ {"claims"} : c[member] \in Held(member)
  /\ c.claims # Other =>
       /\ c.claims \in Seq({c.claims[j] : j \in DOMAIN c.claims})
       /\ \A j \in DOMAIN c.claims : c.claims[j] = Other \/ ClaimHeld(c.claims[j])

DInv ==
  /\ CertHeld(cert)
  /\ edits = 0 => cert \in Issued
  /\ edits \in 0..MaxEdits
  /\ ask \in IF at = "input" THEN {Null} ELSE Asks
  /\ pointers \in 0..MaxChainValuesPointerBytes
  /\ at = "done" => \/ \E step \in Steps : result = Failed(step)
                    \/ result = Passed(cert, ask) /\ AllChecked
  /\ at \in {"claims", "ceilings"} => WitnessSteps(cert, ask) = "pass"

------------------------------------------------------------------------------
(* Where the members come from.                                              *)

\* The claims of a list that there is are claims that there are.
LEMMA ListHeld ==
  ASSUME NEW list \in Lists
  PROVE  /\ list \in Seq({list[j] : j \in DOMAIN list})
         /\ \E n \in Nat : DOMAIN list = 1..n
         /\ \A j \in DOMAIN list : list[j] = Other \/ ClaimHeld(list[j])
<1>1. list \in Seq({list[j] : j \in DOMAIN list})
  BY DataAssumption
<1>2. Len(list) \in Nat /\ DOMAIN list = 1..Len(list)
  BY <1>1, LenProperties
<1>3. ASSUME NEW j \in DOMAIN list, list[j] # Other
      PROVE  ClaimHeld(list[j])
  <2>1. list[j] \in AllClaims
    BY <1>3 DEF AllClaims
  <2>2. DOMAIN list[j] = ClaimMembers
    BY <2>1, DataAssumption
  <2>3. \A member : list[j][member] \in HeldInClaims(member)
    BY <2>1 DEF HeldInClaims
  <2> QED
    BY <2>2, <2>3 DEF ClaimHeld
<1> QED
  BY <1>1, <1>2, <1>3

\* A certificate that was issued has the members that there are.
LEMMA IssuedHeld ==
  ASSUME NEW h \in Issued
  PROVE  CertHeld(h)
<1>1. DOMAIN h = Members
  BY DataAssumption
<1>2. \A member : h[member] \in Held(member)
  BY DEF Held
<1>3. h.claims \in Lists
  BY DEF Lists
<1>4. /\ h.claims \in Seq({h.claims[j] : j \in DOMAIN h.claims})
      /\ \A j \in DOMAIN h.claims : h.claims[j] = Other \/ ClaimHeld(h.claims[j])
  BY <1>3, ListHeld
<1> QED
  BY <1>1, <1>2, <1>4 DEF CertHeld

\* A change of a member leaves the certificate such a one.
LEMMA ChangeHeld ==
  ASSUME NEW c, CertHeld(c), NEW member \in DOMAIN Values, NEW v \in Values[member]
  PROVE  CertHeld([c EXCEPT ![member] = v])
<1> DEFINE d == [c EXCEPT ![member] = v]
<1>1. member \in Members /\ DOMAIN c = Members
  BY DataAssumption DEF CertHeld
<1>2. DOMAIN d = Members /\ d[member] = v /\ \A m \in Members \ {member} : d[m] = c[m]
  BY <1>1
<1>3. "claims" \in Members
  BY DEF Members
<1>4. v \in Held(member)
  BY DEF Held
<1> HIDE DEF d
<1>5. CASE member # "claims"
  <2>1. d.claims = c.claims
    BY <1>2, <1>3, <1>5
  <2>2. \A m \in Members \ {"claims"} : d[m] \in Held(m)
    BY <1>2, <1>4 DEF CertHeld
  <2>3. CertHeld(d)
    BY <1>2, <2>1, <2>2 DEF CertHeld
  <2> QED
    BY <2>3 DEF d
<1>6. CASE member = "claims"
  <2>1. d.claims = v
    BY <1>2, <1>6
  <2>2. \A m \in Members \ {"claims"} : d[m] \in Held(m)
    BY <1>2, <1>6 DEF CertHeld
  <2>3. v # Other => v \in Lists
    BY <1>6 DEF Lists
  <2>4. v # Other => /\ v \in Seq({v[j] : j \in DOMAIN v})
                     /\ \A j \in DOMAIN v : v[j] = Other \/ ClaimHeld(v[j])
    BY <2>3, ListHeld
  <2>5. CertHeld(d)
    BY <1>2, <2>1, <2>2, <2>4 DEF CertHeld
  <2> QED
    BY <2>5 DEF d
<1> QED
  BY <1>5, <1>6

\* So does a claim that is put in the place of another one.
LEMMA PutClaimHeld ==
  ASSUME NEW c, CertHeld(c), c.claims # Other, NEW j \in DOMAIN c.claims, NEW claim,
         claim = Other \/ ClaimHeld(claim)
  PROVE  CertHeld([c EXCEPT !.claims[j] = claim])
<1> DEFINE list == [c.claims EXCEPT ![j] = claim]
           d == [c EXCEPT !.claims = list]
<1>1. "claims" \in Members /\ DOMAIN c = Members
  BY DEF Members, CertHeld
<1>2. DOMAIN d = Members /\ d.claims = list /\ \A m \in Members \ {"claims"} : d[m] = c[m]
  BY <1>1
<1>3. DOMAIN list = DOMAIN c.claims
  OBVIOUS
<1>4. \A k \in DOMAIN list : list[k] = IF k = j THEN claim ELSE c.claims[k]
  OBVIOUS
<1>5. list \in Seq({list[k] : k \in DOMAIN list})
  <2> DEFINE T == {list[k] : k \in DOMAIN list}
             n == Len(c.claims)
  <2>1. n \in Nat /\ DOMAIN c.claims = 1..n
    <3>1. c.claims \in Seq({c.claims[k] : k \in DOMAIN c.claims})
      BY DEF CertHeld
    <3> QED
      BY <3>1, LenProperties
  <2>2. list = [k \in 1..n |-> list[k]]
    BY <1>3, <2>1
  <2>3. \A k \in 1..n : list[k] \in T
    BY <1>3, <2>1
  <2> HIDE DEF list, T, n
  <2>4. list \in [1..n -> T]
    BY <2>2, <2>3
  <2>5. list \in Seq(T)
    BY <2>1, <2>4, SeqDef
  <2> QED
    BY <2>5 DEF T
<1>6. \A k \in DOMAIN list : list[k] = Other \/ ClaimHeld(list[k])
  BY <1>3, <1>4 DEF CertHeld
<1> HIDE DEF list
<1>7. CertHeld(d)
  BY <1>2, <1>5, <1>6 DEF CertHeld
<1> QED
  BY <1>7 DEF list

\* And a member of a claim that changes leaves the claim such a one.
LEMMA ChangeClaimHeld ==
  ASSUME NEW claim, ClaimHeld(claim), NEW member \in DOMAIN ClaimValues, NEW v \in ClaimValues[member]
  PROVE  ClaimHeld([claim EXCEPT ![member] = v])
<1>1. member \in ClaimMembers
  BY DataAssumption
<1>2. v \in HeldInClaims(member)
  BY DEF HeldInClaims
<1> QED
  BY <1>1, <1>2 DEF ClaimHeld

LEMMA ClaimsHeld ==
  ASSUME NEW claim \in Claims
  PROVE  claim = Other \/ ClaimHeld(claim)
<1>1. CASE claim # Other
  <2>1. claim \in AllClaims
    BY <1>1 DEF AllClaims
  <2>2. DOMAIN claim = ClaimMembers
    BY <2>1, DataAssumption
  <2>3. \A member : claim[member] \in HeldInClaims(member)
    BY <2>1 DEF HeldInClaims
  <2> QED
    BY <2>2, <2>3 DEF ClaimHeld
<1> QED
  BY <1>1

\* Every change is of one of these kinds.
LEMMA EditHeld ==
  ASSUME CertHeld(cert),
         \/ \E member \in DOMAIN Values : Change(member)
         \/ \E member \in DOMAIN ClaimValues : ChangeClaim(member)
         \/ ReplaceClaim
  PROVE  \E c : CertHeld(c) /\ Edit(c)
<1>1. ASSUME NEW member \in DOMAIN Values, Change(member)
      PROVE  \E c : CertHeld(c) /\ Edit(c)
  <2>1. PICK v \in Values[member] : Edit([cert EXCEPT ![member] = v])
    BY <1>1 DEF Change
  <2>2. CertHeld([cert EXCEPT ![member] = v])
    BY ChangeHeld
  <2> QED
    BY <2>1, <2>2
<1>2. ASSUME NEW member \in DOMAIN ClaimValues, ChangeClaim(member)
      PROVE  \E c : CertHeld(c) /\ Edit(c)
  <2>1. cert.claims # Other
    BY <1>2 DEF ChangeClaim
  <2>2. PICK j \in DOMAIN cert.claims, v \in ClaimValues[member] :
           cert.claims[j] # Other /\ Edit([cert EXCEPT !.claims[j][member] = v])
    BY <1>2 DEF ChangeClaim
  <2> DEFINE claim == [cert.claims[j] EXCEPT ![member] = v]
             new == [cert EXCEPT !.claims[j] = claim]
  <2>3. ClaimHeld(cert.claims[j])
    BY <2>1, <2>2 DEF CertHeld
  <2>4. ClaimHeld(claim)
    BY <2>3, ChangeClaimHeld
  <2>5. CertHeld(new)
    <3> HIDE DEF claim
    <3> QED
      BY <2>1, <2>4, PutClaimHeld
  <2>6. Edit(new)
    BY <2>2
  <2> QED
    BY <2>5, <2>6
<1>3. ASSUME ReplaceClaim
      PROVE  \E c : CertHeld(c) /\ Edit(c)
  <2>1. cert.claims # Other
    BY <1>3 DEF ReplaceClaim
  <2>2. PICK j \in DOMAIN cert.claims, claim \in Claims : Edit([cert EXCEPT !.claims[j] = claim])
    BY <1>3 DEF ReplaceClaim
  <2>3. CertHeld([cert EXCEPT !.claims[j] = claim])
    BY <2>1, ClaimsHeld, PutClaimHeld
  <2> QED
    BY <2>2, <2>3
<1> QED
  BY <1>1, <1>2, <1>3


------------------------------------------------------------------------------
(* What the steps decide.                                                    *)

LEMMA StepsDecide ==
  /\ \A c, a : WitnessSteps(c, a) \in Steps \cup {"pass"}
  /\ \A c, claim, sofar : ClaimSteps(c, claim, sofar) \in Steps \cup {"pass"}
  /\ \A c : EgressSteps(c) \in Steps \cup {"pass"}
<1>1. \A c, a : WitnessSteps(c, a) \in Steps \cup {"pass"}
  BY DEF WitnessSteps, Steps
<1>2. \A c, claim, sofar : ClaimSteps(c, claim, sofar) \in Steps \cup {"pass"}
  BY DEF ClaimSteps, Steps
<1>3. \A c : EgressSteps(c) \in Steps \cup {"pass"}
  BY DEF EgressSteps, Steps
<1> QED
  BY <1>1, <1>2, <1>3

\* A claim that passed has pointers, and they are within the bound.
LEMMA PointersCounted ==
  ASSUME NEW c, NEW claim, ClaimHeld(claim), NEW sofar \in Nat,
         ClaimSteps(c, claim, sofar) = "pass"
  PROVE  /\ claim.canonical_payload.pointers \in Nat
         /\ sofar + claim.canonical_payload.pointers <= MaxChainValuesPointerBytes
<1> DEFINE doc == claim.canonical_payload
<1>1. OwnSignature(claim) /\ StrictDocument(doc, sofar)
  BY DEF ClaimSteps
<1>2. doc \notin NoString
  BY <1>1 DEF OwnSignature, SignedBy
<1>3. doc \in HeldInClaims("canonical_payload")
  BY DEF ClaimHeld, ClaimMembers
<1>4. doc.pointers \in Nat
  BY <1>2, <1>3, DataAssumption
<1> QED
  BY <1>1, <1>4 DEF StrictDocument

\* The claims behind a check that passed are claims.
LEMMA ClaimsThere ==
  ASSUME CertHeld(cert), WitnessChecked(cert, ask), NEW j \in DOMAIN cert.claims
  PROVE  cert.claims # Other /\ ClaimHeld(cert.claims[j])
<1>1. cert.claims # Other /\ cert.claims[j] # Other
  BY DEF WitnessChecked, Shape, WellShaped
<1> QED
  BY <1>1 DEF CertHeld

\* DInv is inductive, given IInv.
LEMMA DataInductive == IInv /\ DInv /\ [Next]_vars => DInv'
<1> SUFFICES ASSUME IInv, DInv, [Next]_vars
             PROVE  DInv'
  OBVIOUS
<1>0. MaxEdits \in Nat /\ MaxChainValuesPointerBytes \in Nat /\ pointers \in Nat
  BY MaxEditsAssumption, PointersAssumption DEF DInv
<1>1. ASSUME NEW c, CertHeld(c), Edit(c)
      PROVE  DInv'
  <2>1. at = "input" /\ UNCHANGED <<ask, at, pointers>> /\ cert' = c /\ edits' = edits + 1
    BY <1>1 DEF Edit
  <2>2. edits' \in 0..MaxEdits /\ edits' # 0
    BY <1>0, <1>1, <2>1 DEF Edit, DInv
  <2> QED
    BY <1>1, <2>1, <2>2 DEF DInv
<1>2. CASE CheckWitness
  <2>1. at = "input" /\ ask' \in Asks /\ UNCHANGED <<cert, edits, pointers>>
    BY <1>2 DEF CheckWitness
  <2>2. CASE WitnessSteps(cert, ask') = "pass"
    <3>1. at' = "claims"
      BY <1>2, <2>2 DEF CheckWitness, Decide
    <3> QED
      BY <2>1, <2>2, <3>1 DEF DInv
  <2>3. CASE WitnessSteps(cert, ask') # "pass"
    <3>1. at' = "done" /\ result' = Failed(WitnessSteps(cert, ask'))
      BY <1>2, <2>3 DEF CheckWitness, Decide
    <3>2. WitnessSteps(cert, ask') \in Steps
      BY <2>3, StepsDecide
    <3> QED
      BY <2>1, <3>1, <3>2 DEF DInv
  <2> QED
    BY <2>2, <2>3
<1>3. CASE CheckClaim
  <2> DEFINE claim == cert.claims[i + 1]
             step == ClaimSteps(cert, claim, pointers)
  <2>1. /\ at = "claims" /\ i + 1 \in DOMAIN cert.claims /\ UNCHANGED <<cert, edits, ask>>
        /\ Decide(step, "claims")
    BY <1>3 DEF CheckClaim
  <2>2. CASE step = "pass"
    <3>1. WitnessChecked(cert, ask) /\ CertHeld(cert)
      BY <2>1 DEF IInv, DInv
    <3>2. ClaimHeld(claim)
      BY <2>1, <3>1, ClaimsThere
    <3>3. /\ claim.canonical_payload.pointers \in Nat
          /\ pointers + claim.canonical_payload.pointers <= MaxChainValuesPointerBytes
      BY <1>0, <2>2, <3>2, PointersCounted
    <3>4. at' = "claims" /\ pointers' = pointers + claim.canonical_payload.pointers
      BY <1>3, <2>1, <2>2 DEF CheckClaim, Decide
    <3> HIDE DEF claim, step
    <3>5. pointers' \in 0..MaxChainValuesPointerBytes
      BY <1>0, <3>3, <3>4
    <3> QED
      BY <2>1, <3>4, <3>5 DEF DInv
  <2>3. CASE step # "pass"
    <3>1. at' = "done" /\ result' = Failed(step) /\ UNCHANGED pointers
      BY <1>3, <2>1, <2>3 DEF CheckClaim, Decide
    <3>2. step \in Steps
      BY <2>3, StepsDecide
    <3> HIDE DEF step
    <3> QED
      BY <2>1, <3>1, <3>2 DEF DInv
  <2> QED
    BY <2>2, <2>3
<1>4. CASE CheckEgress
  <2>1. at = "claims" /\ UNCHANGED <<cert, edits, ask, pointers>> /\ Decide(EgressSteps(cert), "ceilings")
    BY <1>4 DEF CheckEgress
  <2>2. CASE EgressSteps(cert) = "pass"
    BY <2>1, <2>2 DEF Decide, DInv
  <2>3. CASE EgressSteps(cert) # "pass"
    <3>1. at' = "done" /\ result' = Failed(EgressSteps(cert))
      BY <2>1, <2>3 DEF Decide
    <3>2. EgressSteps(cert) \in Steps
      BY <2>3, StepsDecide
    <3> QED
      BY <2>1, <3>1, <3>2 DEF DInv
  <2> QED
    BY <2>2, <2>3
<1>5. CASE Ceilings
  <2>1. /\ at = "ceilings" /\ at' = "done" /\ result' = Passed(cert, ask)
        /\ UNCHANGED <<cert, edits, ask, i, pointers>>
    BY <1>5 DEF Ceilings
  <2>2. AllChecked'
    BY <2>1 DEF IInv, AllChecked
  <2>3. result' = Passed(cert', ask')
    BY <2>1
  <2> QED
    BY <2>1, <2>2, <2>3 DEF DInv
<1>6. CASE UNCHANGED vars
  <2>1. AllChecked => AllChecked'
    BY <1>6 DEF vars, AllChecked
  <2>2. result = Passed(cert, ask) => result' = Passed(cert', ask')
    BY <1>6 DEF vars
  <2> QED
    BY <1>6, <2>1, <2>2 DEF vars, DInv
<1>7. CASE \/ \E member \in DOMAIN Values : Change(member)
           \/ \E member \in DOMAIN ClaimValues : ChangeClaim(member)
           \/ ReplaceClaim
  <2>1. PICK c : CertHeld(c) /\ Edit(c)
    BY <1>7, EditHeld DEF DInv
  <2> QED
    BY <1>1, <2>1
<1> QED
  BY <1>2, <1>3, <1>4, <1>5, <1>6, <1>7 DEF Next

\* Where the members come from is an invariant of the recipe.
THEOREM DataHold == Spec => [](IInv /\ DInv)
<1>1. Init => IInv /\ DInv
  <2> SUFFICES ASSUME Init
               PROVE  IInv /\ DInv
    OBVIOUS
  <2>1. IInv
    BY DEF Init, IInv
  <2>2. CertHeld(cert)
    BY IssuedHeld DEF Init
  <2> QED
    BY <2>1, <2>2, MaxEditsAssumption, PointersAssumption DEF Init, DInv
<1> QED
  BY <1>1, InvInductive, DataInductive, PTL DEF Spec

(* Every result is one of a decided step, the tier of one that is accepted   *)
(* is one that the code knows, and the pointers of the values that RunChain  *)
(* keeps never pass maxChainValuesPointerBytes, whatever the claims.         *)
THEOREM RecipeTypes == Spec => []TypeOK
<1>1. IInv /\ DInv => TypeOK
  <2> SUFFICES ASSUME IInv, DInv
               PROVE  TypeOK
    OBVIOUS
  <2>1. ASSUME at = "done", result = Passed(cert, ask), AllChecked
        PROVE  /\ result.verdict = ChainSteps(result.step) /\ result.verdict # "FAILED"
               /\ result.tier \in Tiers
    <3>1. IsFiniteSet(DOMAIN cert.claims)
      BY <2>1, FS_Interval DEF AllChecked
    <3>2. chainCertTier(cert.claims, Label(cert.tier), cert.verdict).passes
      BY <2>1 DEF AllChecked, EgressChecked
    <3>3. chainCertTier(cert.claims, Label(cert.tier), cert.verdict).tier \in Tiers
      BY <3>1, <3>2, TierOfCopies
    <3>4. result.tier = chainCertTier(cert.claims, Label(cert.tier), cert.verdict).tier
      BY <2>1 DEF Passed
    <3>5. result.verdict = ChainSteps(result.step)
      BY <2>1 DEF Passed
    <3>6. result.verdict # "FAILED"
      BY <2>1, PassedVerdict
    <3> QED
      BY <3>3, <3>4, <3>5, <3>6
  <2>2. at = "done" =>
          \/ result \in {Failed(step) : step \in Steps} /\ result.verdict = "FAILED"
          \/ /\ result = Passed(cert, ask)
             /\ result.verdict = ChainSteps(result.step) /\ result.verdict # "FAILED"
             /\ result.tier \in Tiers
    BY <2>1, Verdicts DEF DInv
  <2>3. at # "done" => result = NoResult
    BY DEF IInv
  <2> QED
    BY <2>2, <2>3 DEF TypeOK, IInv, DInv, CertHeld
<1> QED
  BY <1>1, DataHold, PTL


------------------------------------------------------------------------------
(* What the signatures say of the certificates that were issued.             *)

\* The two signables have other members.
LEMMA SignablesDiffer ==
  /\ \A c : "client_id" \notin DOMAIN v2(c)
  /\ \A h : "client_id" \notin DOMAIN SignedV2(h)
  /\ \A c : "client_id" \in DOMAIN v3(c)
  /\ \A h : "client_id" \in DOMAIN SignedV3(h)
BY DEF v2, v3, SignedV2, SignedV3

LEMMA ShortForms ==
  /\ VerdictShort["VERDICT_VERIFIED"] = "VERIFIED" /\ VerdictShort["VERDICT_PARTIAL"] = "PARTIAL"
  /\ VerdictShort["VERDICT_FAILED"] = "FAILED"
  /\ {"VERDICT_VERIFIED", "VERDICT_PARTIAL", "VERDICT_FAILED"} \subseteq DOMAIN VerdictShort
BY DEF VerdictShort

\* What both signables have in common.
Same(c, h) ==
  /\ ClaimIds(c.claims) = ClaimIds(h.claims)
  /\ c.request = h.request /\ c.verdict = h.verdict

LEMMA SameOfSignable ==
  ASSUME NEW c, c.verdict \in {"VERDICT_VERIFIED", "VERDICT_PARTIAL"}, NEW h \in Issued,
         v2(c) = SignedV2(h) \/ v3(c) = SignedV3(h)
  PROVE  Same(c, h)
<1>1. h.verdict \in {"VERDICT_VERIFIED", "VERDICT_PARTIAL", "VERDICT_FAILED"}
  BY IssuedAssumption
<1>2. /\ ClaimIds(c.claims) = ClaimIds(h.claims) /\ c.request = h.request
      /\ v2(c).overall_verdict = VerdictShort[h.verdict]
  <2>1. CASE v2(c) = SignedV2(h)
    <3>1. v2(c).claim_ids = SignedV2(h).claim_ids /\ v2(c).request_id = SignedV2(h).request_id
          /\ v2(c).overall_verdict = SignedV2(h).overall_verdict
      BY <2>1
    <3> QED
      BY <3>1 DEF v2, SignedV2
  <2>2. CASE v3(c) = SignedV3(h)
    <3>1. v3(c).claim_ids = SignedV3(h).claim_ids /\ v3(c).request_id = SignedV3(h).request_id
          /\ v3(c).overall_verdict = SignedV3(h).overall_verdict
      BY <2>2
    <3>2. v3(c).overall_verdict = v2(c).overall_verdict
      BY DEF v3
    <3>3. /\ v3(c).claim_ids = ClaimIds(c.claims) /\ v3(c).request_id = c.request
          /\ SignedV3(h).claim_ids = ClaimIds(h.claims) /\ SignedV3(h).request_id = h.request
          /\ SignedV3(h).overall_verdict = VerdictShort[h.verdict]
      BY DEF v3, SignedV3
    <3> QED
      BY <3>1, <3>2, <3>3
  <2> QED
    BY <2>1, <2>2
<1>3. v2(c).overall_verdict = VerdictShort[c.verdict]
  BY ShortForms DEF v2
<1>4. c.verdict = h.verdict
  BY <1>1, <1>2, <1>3, ShortForms
<1> QED
  BY <1>2, <1>4 DEF Same

\* The witness signed the certificate of the result for one that was issued.
LEMMA WitnessSigned ==
  ASSUME CertHeld(cert), WitnessChecked(cert, ask)
  PROVE  \E h \in Issued :
           /\ Same(cert, h)
           /\ \/ ChainVerified(cert).certificate = SignedV2(h)
              \/ h.v3sig # Absent /\ ChainVerified(cert).certificate = SignedV3(h)
<1>1. cert.verdict \in {"VERDICT_VERIFIED", "VERDICT_PARTIAL"}
  BY DEF WitnessChecked
<1>2. cert.sig \in Held("sig") /\ cert.v3sig \in Held("v3sig")
  BY DEF CertHeld, Members
<1>3. CASE v3present(cert)
  <2>1. chainStrictVerify(Witness, v3(cert), cert.v3sig)
    BY <1>3 DEF WitnessChecked, WitnessV3
  <2>2. cert.v3sig \notin NoString /\ cert.v3sig.by = Witness /\ cert.v3sig.over = v3(cert)
    BY <2>1, SignatureIsOver
  <2>3. PICK h \in Issued : \/ v3(cert) = SignedV2(h)
                            \/ h.v3sig # Absent /\ v3(cert) = SignedV3(h)
    BY <1>2, <2>2, WitnessAssumption
  <2>4. h.v3sig # Absent /\ v3(cert) = SignedV3(h)
    BY <2>3, SignablesDiffer
  <2>5. ChainVerified(cert).certificate = v3(cert)
    BY <1>3 DEF ChainVerified
  <2>6. Same(cert, h)
    BY <1>1, <2>4, SameOfSignable
  <2> QED
    BY <2>4, <2>5, <2>6
<1>4. CASE ~v3present(cert)
  <2>1. chainStrictVerify(Witness, v2(cert), cert.sig)
    BY DEF WitnessChecked, WitnessV2
  <2>2. cert.sig \notin NoString /\ cert.sig.by = Witness /\ cert.sig.over = v2(cert)
    BY <2>1, SignatureIsOver
  <2>3. PICK h \in Issued : \/ v2(cert) = SignedV2(h)
                            \/ h.v3sig # Absent /\ v2(cert) = SignedV3(h)
    BY <1>2, <2>2, WitnessAssumption
  <2>4. v2(cert) = SignedV2(h)
    BY <2>3, SignablesDiffer
  <2>5. ChainVerified(cert).certificate = v2(cert)
    BY <1>4 DEF ChainVerified
  <2>6. Same(cert, h)
    BY <1>1, <2>4, SameOfSignable
  <2> QED
    BY <2>4, <2>5, <2>6
<1> QED
  BY <1>3, <1>4

\* A member that a claim signs is the same for all readers.
LEMMA PayloadSays ==
  ASSUME NEW claim, NEW key \in PayloadKeys
  PROVE  Says(claim.canonical_payload, key) = chainSignedPayload(claim)[key]
BY DEF Says, chainSignedPayload

LEMMA KeysThere ==
  {"layers_active", "upstream_body_sha256", "inference_outcome", "cert_tier", "isolation_probe",
   "model_used", "response_hash", "qi_score"} \subseteq PayloadKeys
BY DEF PayloadKeys

\* A claim type that is signed is the one that stands beside it.
LEMMA TypeSigned ==
  ASSUME NEW claim, TypeName(claim) # ""
  PROVE  TypeName(claim) = claim.claim_type /\ claim.claim_type \in chainClaimTypeNames
BY DEF TypeName

LEMMA MirrorKeys ==
  /\ \A type \in chainClaimTypeNames :
       /\ chainTypedKinds[type].key \in {"bridge", "sanitizer", "inference", "audit"}
       /\ chainTypedKinds[type].key = "sanitizer" <=> type = "CLAIM_TYPE_PII_SANITIZED"
       /\ chainTypedKinds[type].key = "inference" <=> type = "CLAIM_TYPE_INFERENCE_COMPLETED"
BY DEF chainClaimTypeNames, chainTypedKinds

\* A document that passed is sound.
LEMMA CheckedIsSound ==
  ASSUME AllChecked, NEW j \in DOMAIN cert.claims
  PROVE  Sound(cert.claims[j].canonical_payload)
<1> DEFINE claim == cert.claims[j]
           doc == claim.canonical_payload
           p == chainSignedPayload(claim)
<1>1. /\ doc.json = "object" /\ doc.strict /\ ~doc.variant /\ Rebuilt(claim)
      /\ chainTypedBound(claim)
  BY DEF AllChecked, ClaimChecked
<1>2. doc.exact /\ doc.service_id = claim.service_id /\ doc.claim_type = TypeName(claim)
  BY <1>1 DEF Rebuilt
<1>3. \A key \in PayloadKeys : Says(doc, key) = p[key]
  BY PayloadSays
<1>4. ASSUME HasToken(p["layers_active"])
      PROVE  doc.claim_type = "CLAIM_TYPE_PII_SANITIZED"
  <2>1. claim.kinds = {"sanitizer"}
    BY <1>1, <1>4 DEF chainTypedBound
  <2>2. TypeName(claim) # "" /\ claim.kinds = {chainTypedKinds[claim.claim_type].key}
    BY <1>1, <2>1 DEF chainTypedBound
  <2>3. chainTypedKinds[claim.claim_type].key = "sanitizer"
    BY <2>1, <2>2
  <2> QED
    BY <1>2, <2>2, <2>3, TypeSigned, MirrorKeys
<1>5. ASSUME doc.service_id = "dsa-ai", doc.claim_type = "CLAIM_TYPE_INFERENCE_COMPLETED",
             p["upstream_body_sha256"] # Absent
      PROVE  WellFormedDigests(p["upstream_body_sha256"])
  <2>1. claim.claim_type = "CLAIM_TYPE_INFERENCE_COMPLETED"
    BY <1>2, <1>5, TypeSigned
  <2>2. j \in DigestClaims(cert)
    BY <1>2, <1>5, <2>1 DEF DigestClaims, Of, Inference
  <2> QED
    BY <2>2 DEF AllChecked, EgressChecked, SignedDigests
<1>6. /\ Says(doc, "layers_active") = p["layers_active"]
      /\ Says(doc, "upstream_body_sha256") = p["upstream_body_sha256"]
  BY <1>3, KeysThere
<1> HIDE DEF doc, p
<1>7. Sound(doc)
  <2>1. HasToken(Says(doc, "layers_active")) => doc.claim_type = "CLAIM_TYPE_PII_SANITIZED"
    BY <1>4, <1>6
  <2>2. doc.service_id = "dsa-ai" /\ doc.claim_type = "CLAIM_TYPE_INFERENCE_COMPLETED"
        /\ Says(doc, "upstream_body_sha256") # Absent
        => WellFormedDigests(Says(doc, "upstream_body_sha256"))
    BY <1>5, <1>6
  <2> QED
    BY <1>1, <1>2, <2>1, <2>2, Zenon DEF Sound, Says
<1> QED
  BY <1>7 DEF doc

\* The claims of a chain that passed are those of the certificate that was issued.
LEMMA DocumentsSigned ==
  ASSUME CertHeld(cert), AllChecked, NEW h \in Issued, Same(cert, h)
  PROVE  Documents(cert) = Documents(h)
<1>1. DOMAIN cert.claims = DOMAIN h.claims
      /\ \A j \in DOMAIN cert.claims : cert.claims[j].claim_id = h.claims[j].claim_id
  <2>1. /\ DOMAIN ClaimIds(cert.claims) = DOMAIN cert.claims
        /\ DOMAIN ClaimIds(h.claims) = DOMAIN h.claims
        /\ \A j \in DOMAIN cert.claims : ClaimIds(cert.claims)[j] = cert.claims[j].claim_id
        /\ \A j \in DOMAIN h.claims : ClaimIds(h.claims)[j] = h.claims[j].claim_id
    BY DEF ClaimIds
  <2> QED
    BY <2>1 DEF Same
<1>2. ASSUME NEW j \in DOMAIN cert.claims
      PROVE  cert.claims[j].canonical_payload = h.claims[j].canonical_payload
  <2> DEFINE claim == cert.claims[j]
             doc == claim.canonical_payload
  <2>1. ClaimHeld(claim)
    BY ClaimsThere DEF AllChecked
  <2>2. /\ claim.service_id \in DOMAIN Services /\ OwnSignature(claim) /\ Rebuilt(claim)
        /\ doc.request_id = cert.request
    BY DEF AllChecked, ClaimChecked
  <2>3. /\ claim.signature \notin NoString /\ claim.signature.over = doc
        /\ claim.signature.by = Services[claim.service_id]
    BY <2>2, SignatureIsOver DEF OwnSignature, SignedBy
  <2>4. claim.signature \in HeldInClaims("signature")
    BY <2>1 DEF ClaimHeld, ClaimMembers
  <2>5. doc.service_id = claim.service_id /\ doc.claim_id = claim.claim_id
    BY <2>2 DEF Rebuilt
  <2>6. Sound(doc)
    BY CheckedIsSound
  <2>7. h.claims[j].claim_id = doc.claim_id /\ h.request = doc.request_id /\ j \in DOMAIN h.claims
    BY <1>1, <2>2, <2>5 DEF Same
  <2> HIDE DEF doc, claim
  <2>8. \A g \in Issued : \A k \in DOMAIN g.claims :
          g.claims[k].claim_id = doc.claim_id /\ g.request = doc.request_id
          => doc = g.claims[k].canonical_payload
    BY <2>2, <2>3, <2>4, <2>5, <2>6, ServicesAssumption
  <2>9. doc = h.claims[j].canonical_payload
    BY <2>7, <2>8
  <2> QED
    BY <2>9 DEF doc, claim
<1> QED
  BY <1>1, <1>2 DEF Documents

\* The ceiling of a chain that passed is what its documents deserve, at most.
LEMMA CeilingDeserved ==
  ASSUME AllChecked, NEW h, Documents(cert) = Documents(h), cert.verdict = h.verdict
  PROVE  Rank[ChainSteps(Ceiling(cert))] <= Rank[Deserved(h)]
<1>1. /\ DOMAIN Documents(cert) = DOMAIN cert.claims
      /\ \A j \in DOMAIN cert.claims : Documents(cert)[j] = cert.claims[j].canonical_payload
      /\ DOMAIN Documents(h) = DOMAIN h.claims
  BY DEF Documents
<1>2. ASSUME NEW j \in DOMAIN h.claims
      PROVE  /\ j \in DOMAIN cert.claims
             /\ Documents(h)[j].service_id = cert.claims[j].service_id
             /\ \A key \in PayloadKeys :
                  Says(Documents(h)[j], key) = chainSignedPayload(cert.claims[j])[key]
  <2>1. j \in DOMAIN cert.claims /\ Documents(h)[j] = cert.claims[j].canonical_payload
    BY <1>1
  <2>2. Rebuilt(cert.claims[j])
    BY <2>1 DEF AllChecked, ClaimChecked
  <2> QED
    BY <2>1, <2>2, PayloadSays DEF Rebuilt
<1>3. Signs(h, DOMAIN Services, "inference_outcome") => Unfinished(cert)
  BY <1>2, KeysThere DEF Signs, Unfinished
<1>4. SignsToken(h) => userUnredacted(cert)
  BY <1>2, KeysThere DEF SignsToken, userUnredacted, Of
<1>5. DigestClaims(cert) # {} => Signs(h, {"dsa-ai"}, "upstream_body_sha256")
  <2> SUFFICES ASSUME NEW j \in DigestClaims(cert)
               PROVE  Signs(h, {"dsa-ai"}, "upstream_body_sha256")
    OBVIOUS
  <2>1. /\ j \in DOMAIN cert.claims /\ cert.claims[j].service_id = "dsa-ai"
        /\ chainSignedPayload(cert.claims[j])["upstream_body_sha256"] # Absent
    BY DEF DigestClaims, Of
  <2>2. j \in DOMAIN h.claims
    BY <1>1, <2>1
  <2> QED
    BY <1>2, <2>1, <2>2, KeysThere DEF Signs
<1>6. CASE Unfinished(cert) \/ userUnredacted(cert) \/ cert.verdict = "VERDICT_PARTIAL"
  <2>1. ChainSteps(Ceiling(cert)) = "PARTIAL"
    BY <1>6 DEF ChainSteps, Ceiling
  <2>2. Rank[Deserved(h)] \in {1, 2, 3}
    BY DEF Rank, Deserved
  <2> QED
    BY <2>1, <2>2 DEF Rank
<1>7. CASE ~Unfinished(cert) /\ ~userUnredacted(cert) /\ cert.verdict # "VERDICT_PARTIAL"
  <2>1. /\ ~Signs(h, DOMAIN Services, "inference_outcome") /\ ~SignsToken(h)
        /\ h.verdict # "VERDICT_PARTIAL"
    BY <1>3, <1>4, <1>7
  <2>2. Deserved(h) = IF ~Signs(h, {"dsa-ai"}, "upstream_body_sha256") THEN "EGRESS_UNATTESTED"
                      ELSE "VERIFIED"
    BY <2>1 DEF Deserved
  <2>3. CASE DigestClaims(cert) = {}
    <3>1. ChainSteps(Ceiling(cert)) = "EGRESS_UNATTESTED"
      BY <1>7, <2>3 DEF ChainSteps, Ceiling
    <3> QED
      BY <2>2, <3>1 DEF Rank
  <2>4. CASE DigestClaims(cert) # {}
    <3>1. Deserved(h) = "VERIFIED"
      BY <1>5, <2>2, <2>4
    <3>2. ChainSteps(Ceiling(cert)) \in {"EGRESS_UNATTESTED", "VERIFIED"}
      BY <1>7 DEF ChainSteps, Ceiling
    <3> QED
      BY <3>1, <3>2 DEF Rank
  <2> QED
    BY <2>3, <2>4
<1> QED
  BY <1>6, <1>7

(* No unsigned value lifts a verdict: with Ed25519, an accepted result says  *)
(* what witness and services signed for one issued certificate, and its      *)
(* verdict, the first ceiling of RunChain that applies, is at most the one   *)
(* that those values deserve.                                                *)
THEOREM AcceptedVerdictIsSigned == Spec => []VerdictIsSigned
<1>1. IInv /\ DInv => VerdictIsSigned
  <2> SUFFICES ASSUME IInv, DInv, Accepted
               PROVE  \E h \in Issued : VerifiedOf(h) /\ Rank[result.verdict] <= Rank[Deserved(h)]
    BY DEF VerdictIsSigned
  <2>1. AllChecked /\ result = Passed(cert, ask) /\ CertHeld(cert)
    BY AcceptedIsChecked DEF DInv
  <2>2. PICK h \in Issued :
           /\ Same(cert, h)
           /\ \/ ChainVerified(cert).certificate = SignedV2(h)
              \/ h.v3sig # Absent /\ ChainVerified(cert).certificate = SignedV3(h)
    BY <2>1, WitnessSigned DEF AllChecked
  <2>3. Documents(cert) = Documents(h)
    BY <2>1, <2>2, DocumentsSigned
  <2>4. result.verified = ChainVerified(cert) /\ result.verdict = ChainSteps(Ceiling(cert))
    BY <2>1 DEF Passed
  <2>5. result.verified.claims = Documents(cert)
    BY <2>1, VerifiedDocuments
  <2>6. VerifiedOf(h)
    BY <2>2, <2>3, <2>4, <2>5 DEF VerifiedOf
  <2>7. Rank[result.verdict] <= Rank[Deserved(h)]
    BY <2>1, <2>2, <2>3, <2>4, CeilingDeserved DEF Same
  <2> QED
    BY <2>6, <2>7
<1> QED
  BY <1>1, DataHold, PTL


------------------------------------------------------------------------------
(* A certificate as it was issued passes.                                    *)

\* What the witness signed is what the verifier derives.
LEMMA IssuedSignables ==
  ASSUME NEW h \in Issued
  PROVE  v2(h) = SignedV2(h) /\ v3(h) = SignedV3(h)
<1>1. h.issued.form # "unreadable" /\ h.verdict \in DOMAIN VerdictShort
  BY IssuedAssumption, ShortForms
<1>2. v2(h) = SignedV2(h)
  BY <1>1 DEF v2, SignedV2
<1>3. h.client # Other /\ h.apiKey # Other
  BY IssuedAssumption
<1>4. ASSUME NEW key
      PROVE  chainSanitizerHash(h, key) = PayloadHash(h, key)
  <2> DEFINE n == SanitizerClaim(h.claims)
             p == h.claims[n].canonical_payload
  <2>1. CASE n = 0
    BY <2>1 DEF chainSanitizerHash, PayloadHash
  <2>2. CASE n # 0
    <3>1. PICK m \in Nat : DOMAIN h.claims = 1..m
      BY ListHeld DEF Lists
    <3>2. n \in DOMAIN h.claims
      BY <2>2, <3>1, SanitizerClaimIsOne
    <3>3. IssuedClaim(h, h.claims[n])
      BY <3>2, IssuedAssumption
    <3>4. p \notin NoString /\ p.base64 = "canonical" /\ Sound(p)
      BY <3>3 DEF IssuedClaim
    <3>5. p.json = "object" /\ p.strict
      BY <3>4 DEF Sound
    <3> QED
      BY <2>2, <3>4, <3>5 DEF chainSanitizerHash, PayloadHash
  <2> QED
    BY <2>1, <2>2
<1>5. /\ v2(h).issued_at = SignedV2(h).issued_at
      /\ v2(h).overall_verdict = VerdictShort[h.verdict]
  BY <1>2 DEF SignedV2
<1>6. /\ (IF h.client = Absent THEN Null ELSE h.client)
           = (IF h.client \in NoString THEN Null ELSE h.client)
      /\ (IF h.apiKey = Absent THEN Null ELSE h.apiKey)
           = (IF h.apiKey \in NoString THEN Null ELSE h.apiKey)
  BY <1>3 DEF NoString
<1>7. v3(h) = SignedV3(h)
  BY <1>4, <1>5, <1>6 DEF v3, SignedV3
<1> QED
  BY <1>2, <1>7

\* Both signatures verify, and the stamp of the version fits them.
LEMMA IssuedSigned ==
  ASSUME NEW h \in Issued
  PROVE  /\ WitnessV2(h) /\ WitnessV3(h)
         /\ v3present(h) <=> h.v3sig # Absent
         /\ (h.emitted \notin {Absent, Null} /\ h.emitted.value >= 3) = v3present(h)
         /\ h.emitted \in {Absent, Null} \/ ChainInteger(h.emitted)
         /\ Other \notin {h.sig, h.v3sig}
<1>1. /\ {"sig", "v3sig", "emitted"} \subseteq DOMAIN h
      /\ v2(h) = SignedV2(h) /\ v3(h) = SignedV3(h)
  BY DataAssumption, IssuedSignables DEF Members
<1>2. h.sig \notin NoString \cup {Blank}
  BY IssuedAssumption
<1>3. CASE h = IssueV2(h, Witness)
  <2>1. h.sig = Signature(Witness, SignedV2(h)) /\ h.v3sig = Absent /\ h.emitted = Absent
    <3> DEFINE d == IssueV2(h, Witness)
    <3>1. d.sig = Signature(Witness, SignedV2(h)) /\ d.v3sig = Absent /\ d.emitted = Absent
      BY <1>1 DEF IssueV2
    <3> HIDE DEF d
    <3> QED
      BY <1>3, <3>1 DEF d
  <2>2. h.sig.canonical /\ h.sig.by = Witness /\ h.sig.over = SignedV2(h)
    BY <2>1 DEF Signature
  <2>3. ~v3present(h)
    BY <2>1 DEF v3present, NoString
  <2>4. WitnessV2(h)
    BY <1>1, <1>2, <2>2 DEF WitnessV2, chainStrictVerify
  <2>5. ~ (h.emitted \notin {Absent, Null} /\ h.emitted.value >= 3)
    BY <2>1
  <2>6. (h.emitted \notin {Absent, Null} /\ h.emitted.value >= 3) = v3present(h)
    BY <2>3, <2>5, Zenon DEF v3present
  <2>7. Other \notin {h.sig, h.v3sig}
    BY <1>2, <2>1, KindsAssumption DEF NoString
  <2> QED
    BY <2>1, <2>3, <2>4, <2>6, <2>7 DEF WitnessV3
<1>4. CASE h = IssueV3(h, Witness) /\ h.v3sig \notin NoString \cup {Blank} /\ h.emitted \notin NoNumber
  <2>1. /\ h.sig = Signature(Witness, SignedV2(h)) /\ h.v3sig = Signature(Witness, SignedV3(h))
        /\ h.emitted = [value |-> 3, token |-> "integer"]
    <3> DEFINE d == IssueV3(h, Witness)
    <3>1. /\ d.sig = Signature(Witness, SignedV2(h)) /\ d.v3sig = Signature(Witness, SignedV3(h))
          /\ d.emitted = [value |-> 3, token |-> "integer"]
      BY <1>1 DEF IssueV3
    <3> HIDE DEF d
    <3> QED
      BY <1>4, <3>1 DEF d
  <2>2. /\ h.sig.canonical /\ h.sig.by = Witness /\ h.sig.over = SignedV2(h)
        /\ h.v3sig.canonical /\ h.v3sig.by = Witness /\ h.v3sig.over = SignedV3(h)
    BY <2>1 DEF Signature
  <2>3. v3present(h)
    BY <1>4 DEF v3present
  <2>4. WitnessV2(h) /\ WitnessV3(h)
    BY <1>1, <1>2, <1>4, <2>2 DEF WitnessV2, WitnessV3, chainStrictVerify
  <2>5. h.emitted.value = 3 /\ h.emitted.token = "integer" /\ 3 # MaxUint64 /\ 3 >= 3
    BY <2>1, MaxUint64Assumption
  <2>6. ChainInteger(h.emitted) /\ h.emitted \notin {Absent, Null}
    BY <1>4, <2>5 DEF ChainInteger, NoNumber
  <2>7. h.v3sig # Absent /\ Other \notin {h.sig, h.v3sig}
    BY <1>2, <1>4 DEF NoString
  <2> QED
    BY <2>3, <2>4, <2>5, <2>6, <2>7
<1> QED
  BY <1>3, <1>4, IssuedAssumption

\* The steps 1 to 6 turn away only what was sealed FAILED and an id twice.
LEMMA IssuedWitness ==
  ASSUME NEW h \in Issued, NEW a, Bound(h, a), a.minV3 => h.v3sig # Absent
  PROVE  WitnessSteps(h, a) = IF h.verdict = "VERDICT_FAILED" THEN "6a"
                              ELSE IF ~Unique(ClaimIds(h.claims)) THEN "6c" ELSE "pass"
<1>1. /\ WitnessV2(h) /\ WitnessV3(h)
      /\ v3present(h) <=> h.v3sig # Absent
      /\ (h.emitted \notin {Absent, Null} /\ h.emitted.value >= 3) = v3present(h)
      /\ h.emitted \in {Absent, Null} \/ ChainInteger(h.emitted)
      /\ Other \notin {h.sig, h.v3sig}
  BY IssuedSigned
<1>2. h.verdict \in {"VERDICT_VERIFIED", "VERDICT_PARTIAL", "VERDICT_FAILED"}
  BY IssuedAssumption
<1>3. h.verdict \notin NoString
  BY <1>2, ShortForms, KindsAssumption
<1>4. h.protocol.value = 2 /\ ChainInteger(h.protocol)
  <2>1. h.protocol \notin NoNumber /\ h.protocol = [value |-> 2, token |-> "integer"]
    BY IssuedAssumption
  <2>2. h.protocol.value = 2 /\ h.protocol.token = "integer"
    BY <2>1
  <2>3. 2 # MaxUint64
    BY MaxUint64Assumption
  <2> QED
    BY <2>1, <2>2, <2>3 DEF ChainInteger
<1>5. /\ h.id \notin NoString /\ h.request \notin NoString /\ h.keyId \notin NoString
      /\ h.issued \notin NoString /\ h.keyId = WitnessKeyID
      /\ h.byok \in {Absent, Null} \cup BOOLEAN
      /\ Other \notin {h.tier, h.client, h.apiKey, h.claims}
      /\ DOMAIN h.claims # {} /\ ChainIssuedAt(h.issued)
  BY IssuedAssumption DEF ChainIssuedAt
<1>6. \A j \in DOMAIN h.claims : WellShaped(h.claims[j])
  BY IssuedAssumption DEF IssuedClaim, WellShaped
<1>7. Shape(h)
  BY <1>1, <1>3, <1>4, <1>5, <1>6, Zenon DEF Shape
<1> QED
  BY <1>1, <1>2, <1>4, <1>5, <1>7 DEF WitnessSteps

\* The mirror of a claim that was issued is the payload, so it is bound.
LEMMA IssuedTyped ==
  ASSUME NEW h, NEW claim, IssuedClaim(h, claim)
  PROVE  chainTypedBound(claim)
<1> DEFINE p == chainSignedPayload(claim)
           doc == claim.canonical_payload
           named == TypeName(claim) # ""
           key == chainTypedKinds[claim.claim_type].key
<1>1. /\ claim.kinds = IF named THEN {key} ELSE {}
      /\ claim.typed = p /\ p # Other /\ Sound(doc) /\ doc.claim_type = TypeName(claim)
      /\ p["isolation_probe"] \in chainProbeEnum \cup {Absent}
      /\ Other \notin {p[k] : k \in {"layers_active", "qi_score", "response_hash", "model_used"}}
  BY DEF IssuedClaim
<1>2. Cardinality(claim.kinds) <= 1
  <2>1. Cardinality({}) = 0 /\ Cardinality({key}) = 1
    BY FS_EmptySet, FS_Singleton
  <2> HIDE DEF key
  <2>2. claim.kinds = {key} \/ claim.kinds = {}
    BY <1>1
  <2> QED
    BY <2>1, <2>2
<1>3. /\ claim.kinds # {} => named /\ claim.kinds = {key}
      /\ ~(claim.kinds = {} /\ named)
  BY <1>1
<1>4. HasToken(p["layers_active"]) => claim.kinds = {"sanitizer"}
  <2> SUFFICES ASSUME HasToken(p["layers_active"])
               PROVE  claim.kinds = {"sanitizer"}
    OBVIOUS
  <2>1. Says(doc, "layers_active") = p["layers_active"]
    BY PayloadSays, KeysThere
  <2>2. HasToken(Says(doc, "layers_active"))
    BY <2>1
  <2>3. doc.claim_type = "CLAIM_TYPE_PII_SANITIZED"
    BY <1>1, <2>2, Zenon DEF Sound, Says
  <2>4. named /\ claim.claim_type = "CLAIM_TYPE_PII_SANITIZED"
    BY <1>1, <2>3, TypeSigned
  <2> QED
    BY <1>1, <2>4, TypeSigned, MirrorKeys
<1>5. ASSUME NEW k \in claim.kinds
      PROVE  MirrorBound(k, p, p)
  <2>1. k \in {"bridge", "sanitizer", "inference", "audit"}
    BY <1>1, TypeSigned, MirrorKeys
  <2>2. \A m \in WhenSigned[k] : p[m] \notin NoString =>
          (IF p[m] \in {Absent, Null} THEN Zero[m] ELSE p[m]) = p[m]
    BY DEF NoString
  <2>3. \A m \in Both[k] :
          IF p[m] \in NoString THEN p[m] \in {Absent, Null} ELSE p[m] = p[m]
    <3>1. \A m \in Both[k] : m \in {"qi_score", "response_hash"}
      BY <2>1 DEF Both
    <3> QED
      BY <1>1, <3>1 DEF NoString
  <2>4. ProbeBound(p["isolation_probe"], p["isolation_probe"])
    <3> DEFINE probe == p["isolation_probe"]
    <3>1. CASE probe \in chainProbeEnum
      BY <3>1, ChainKindsAssumption DEF ProbeBound, NoString
    <3>2. CASE probe = Absent
      <4>1. probe \in NoString /\ probe \notin chainProbeEnum /\ probe # Other
        BY <3>2, ChainKindsAssumption, KindsAssumption DEF NoString
      <4>2. probe \notin {"VERIFIED", "BYOK_EXEMPT"}
        BY <4>1 DEF chainProbeEnum
      <4> QED
        BY <4>1, <4>2, Zenon DEF ProbeBound
    <3> QED
      BY <1>1, <3>1, <3>2
  <2>5. p["model_used"] # Other /\ p["layers_active"] # Other
    BY <1>1
  <2> HIDE DEF p
  <2> QED
    BY <2>2, <2>3, <2>4, <2>5 DEF MirrorBound
<1> HIDE DEF p
<1> QED
  BY <1>1, <1>2, <1>3, <1>4, <1>5 DEF chainTypedBound, p

\* Step 7 turns away only a claim whose pointers are too many.
LEMMA IssuedClaims ==
  ASSUME NEW h \in Issued, NEW j \in DOMAIN h.claims, NEW sofar
  PROVE  ClaimSteps(h, h.claims[j], sofar) =
           IF sofar + h.claims[j].canonical_payload.pointers <= MaxChainValuesPointerBytes
           THEN "pass" ELSE "7e"
<1> DEFINE claim == h.claims[j]
           doc == claim.canonical_payload
           sig == claim.signature
<1>1. IssuedClaim(h, claim) /\ h.request \notin NoString
  BY IssuedAssumption
<1>2. /\ claim.service_id \in DOMAIN Services
      /\ doc \notin NoString /\ doc.base64 = "canonical" /\ Sound(doc)
      /\ sig = Signature(Services[claim.service_id], doc)
      /\ sig \notin NoString \cup {Blank}
      /\ doc.claim_id = claim.claim_id /\ doc.service_id = claim.service_id
      /\ doc.request_id = h.request /\ claim.request_id = h.request
      /\ doc.data_seen = claim.data_seen /\ claim.data_seen \notin NoString
      /\ doc.claim_type = TypeName(claim)
  BY <1>1 DEF IssuedClaim
<1>3. doc.json = "object" /\ doc.strict /\ ~doc.variant /\ doc.exact
  BY <1>2 DEF Sound
<1>4. sig.canonical /\ sig.by = Services[claim.service_id] /\ sig.over = doc
  BY <1>2 DEF Signature
<1>5. chainTypedBound(claim)
  BY <1>1, IssuedTyped
<1> HIDE DEF sig
<1>6. OwnSignature(claim)
  BY <1>2, <1>4 DEF OwnSignature, SignedBy, chainStrictVerify, sig
<1>7. Rebuilt(claim)
  BY <1>1, <1>2, <1>3 DEF Rebuilt, chainOptString, chainStrList, NoString
<1>8. chainB64(doc, doc.base64 = "canonical") /\ chainB64(sig, sig.canonical)
  BY <1>2, <1>4 DEF chainB64, NoString
<1>9. StrictDocument(doc, sofar) <=> sofar + doc.pointers <= MaxChainValuesPointerBytes
  BY <1>3 DEF StrictDocument
<1>10. ~ \A k \in DOMAIN h.claims : doc.claim_id # h.claims[k].claim_id
  BY <1>2
<1> HIDE DEF claim, doc
<1>11. ClaimSteps(h, claim, sofar) = IF StrictDocument(doc, sofar) THEN "pass" ELSE "7e"
  BY <1>2, <1>5, <1>6, <1>7, <1>8, <1>10 DEF ClaimSteps, sig, doc
<1> QED
  BY <1>9, <1>11 DEF claim, doc


LEMMA PairIsTwo ==
  ASSUME NEW j, NEW k, j # k
  PROVE  Cardinality({j, k}) = 2
<1>1. IsFiniteSet({j}) /\ Cardinality({j}) = 1 /\ k \notin {j}
  BY FS_Singleton
<1>2. Cardinality({j} \cup {k}) = 2
  BY <1>1, FS_AddElement
<1>3. {j} \cup {k} = {j, k}
  OBVIOUS
<1> QED
  BY <1>2, <1>3

\* Step 8d lets the label of a certificate that was issued stand, and caps
\* only what is sealed as partial.
LEMMA IssuedTier ==
  ASSUME NEW h \in Issued
  PROVE  LET rule == chainCertTier(h.claims, Label(h.tier), h.verdict)
         IN rule.passes /\ (h.verdict # "VERDICT_PARTIAL" => ~rule.capped)
<1> DEFINE claims == h.claims
           label == Label(h.tier)
           sealed == h.verdict
           C == Carriers(claims)
           n == Cardinality(C)
           two == /\ n = 1 /\ Signing(claims, "dsa-gateway", "input-shield")
                  /\ Of(claims, "dsa-ai") = {} /\ Of(claims, "dsa-sanitizer") # {}
           marked == \E j \in Of(claims, "dsa-ai") :
                       SignedCopy(claims[j]) = "audit-only" /\ Inference(claims[j])
           audit == label = "audit_only" /\ n = 1 /\ Cardinality(Of(claims, "dsa-ai")) = 1 /\ marked
           signed == Sealed(claims)
           marker == markerSigned(claims)
           rule == chainCertTier(claims, label, sealed)
<1>1. rule =
        IF label = "input_shield_two_signer"
        THEN IF two THEN Rule(label, TRUE, FALSE) ELSE Rule(signed, FALSE, FALSE)
        ELSE IF label = "audit_only" \/ marker
        THEN IF audit THEN Rule("audit_only", TRUE, FALSE) ELSE Rule(signed, FALSE, FALSE)
        ELSE IF label \notin {"", "full_chain", "input_shield"} THEN Rule(signed, FALSE, FALSE)
        ELSE IF \/ signed = "absent" /\ label \in {"", "full_chain"}
                \/ signed = "input_shield" /\ label = "input_shield"
        THEN Rule(signed, TRUE, FALSE)
        ELSE IF signed = "input_shield" /\ label = "" THEN Rule(signed, TRUE, TRUE)
        ELSE Rule(signed, sealed = "VERDICT_PARTIAL", FALSE)
  BY DEF chainCertTier, Sealed, Signing
<1>2. \A service : \A j \in Of(claims, service) : claims[j].service_id = service /\ j \in DOMAIN claims
  BY DEF Of
<1>3. C \subseteq DOMAIN claims /\ (marker <=> \E j \in C : SignedCopy(claims[j]) = "audit-only")
  BY DEF Carriers, markerSigned
<1>4. ASSUME NEW j \in C, NEW service, NEW tier, claims[j].service_id = service,
             SignedCopy(claims[j]) = tier, \A k \in C : claims[k].service_id = service => k = j
      PROVE  Signing(claims, service, tier)
  <2>1. C \cap Of(claims, service) = {j}
    BY <1>3, <1>4 DEF Of
  <2> HIDE DEF C
  <2> QED
    BY <1>3, <1>4, <2>1 DEF Signing, C
<1>5. TierFits(h)
  BY IssuedAssumption
<1>6. /\ C = {} => n = 0
      /\ \A j : C = {j} => n = 1
      /\ \A j, k : C = {j, k} /\ j # k => n = 2
  <2> HIDE DEF C
  <2>1. C = {} => n = 0
    BY FS_EmptySet
  <2>2. \A j : C = {j} => n = 1
    BY FS_Singleton
  <2>3. \A j, k : C = {j, k} /\ j # k => n = 2
    BY PairIsTwo
  <2> QED
    BY <2>1, <2>2, <2>3
<1>7. /\ n = 0 => signed = "absent"
      /\ n = 2 /\ Signing(claims, "dsa-gateway", "input-shield")
               /\ Signing(claims, "dsa-ai", "input-shield") => signed = "input_shield"
  BY DEF Sealed
<1>8. \A j : Of(claims, "dsa-ai") = {j} => Cardinality(Of(claims, "dsa-ai")) = 1
  BY FS_Singleton
<1>9. \A j \in Of(claims, "dsa-ai") : Inference(claims[j])
  BY <1>2, IssuedAssumption DEF IssuedClaim
<1> HIDE DEF n, signed, marker, two, audit
<1>10. CASE C = {} /\ label \in {"", "full_chain"}
  <2>1. signed = "absent" /\ ~marker
    BY <1>3, <1>6, <1>7, <1>10
  <2>2. rule = Rule(signed, TRUE, FALSE)
    BY <1>1, <1>10, <2>1
  <2> QED
    BY <2>2 DEF Rule
<1>11. CASE /\ label = "input_shield"
            /\ \E j, k \in C :
                 /\ C = {j, k}
                 /\ claims[j].service_id = "dsa-gateway" /\ SignedCopy(claims[j]) = "input-shield"
                 /\ claims[k].service_id = "dsa-ai" /\ SignedCopy(claims[k]) = "input-shield"
  <2>1. PICK j \in C, k \in C :
               /\ C = {j, k}
               /\ claims[j].service_id = "dsa-gateway" /\ SignedCopy(claims[j]) = "input-shield"
               /\ claims[k].service_id = "dsa-ai" /\ SignedCopy(claims[k]) = "input-shield"
    BY <1>11
  <2>2. j # k
    BY <2>1
  <2>3. /\ Signing(claims, "dsa-gateway", "input-shield")
        /\ Signing(claims, "dsa-ai", "input-shield")
    <3> HIDE DEF C
    <3> QED
      BY <1>4, <2>1
  <2>4. signed = "input_shield" /\ ~marker
    <3>1. \A m \in C : SignedCopy(claims[m]) = "input-shield"
      BY <2>1
    <3> QED
      BY <1>3, <1>6, <1>7, <2>1, <2>2, <2>3, <3>1
  <2>5. rule = Rule(signed, TRUE, FALSE)
    BY <1>1, <1>11, <2>4
  <2> QED
    BY <2>5 DEF Rule
<1>12. CASE /\ label = "input_shield_two_signer"
            /\ \E j \in C : /\ C = {j} /\ claims[j].service_id = "dsa-gateway"
                            /\ SignedCopy(claims[j]) = "input-shield"
            /\ Of(claims, "dsa-ai") = {} /\ Of(claims, "dsa-sanitizer") # {}
  <2>1. PICK j \in C : /\ C = {j} /\ claims[j].service_id = "dsa-gateway"
                       /\ SignedCopy(claims[j]) = "input-shield"
    BY <1>12
  <2>2. Signing(claims, "dsa-gateway", "input-shield")
    <3> HIDE DEF C
    <3> QED
      BY <1>4, <2>1
  <2>3. two
    BY <1>6, <1>12, <2>1, <2>2 DEF two
  <2>4. rule = Rule(label, TRUE, FALSE)
    BY <1>1, <1>12, <2>3
  <2> QED
    BY <2>4 DEF Rule
<1>13. CASE /\ label = "audit_only"
            /\ \E j \in C : /\ C = {j} /\ Of(claims, "dsa-ai") = {j}
                            /\ SignedCopy(claims[j]) = "audit-only"
  <2>1. PICK j \in C : /\ C = {j} /\ Of(claims, "dsa-ai") = {j}
                       /\ SignedCopy(claims[j]) = "audit-only"
    BY <1>13
  <2>2. Inference(claims[j])
    BY <1>9, <2>1
  <2>3. audit
    BY <1>6, <1>8, <1>13, <2>1, <2>2 DEF audit
  <2>4. rule = Rule("audit_only", TRUE, FALSE)
    BY <1>1, <1>13, <2>3
  <2> QED
    BY <2>4 DEF Rule
<1>14. CASE /\ sealed = "VERDICT_PARTIAL" /\ label \in {"", "full_chain", "input_shield"}
            /\ \A j \in C : SignedCopy(claims[j]) # "audit-only"
  <2>1. ~marker
    BY <1>3, <1>14
  <2>2. \/ rule = Rule(signed, TRUE, FALSE)
        \/ rule = Rule(signed, TRUE, TRUE)
        \/ rule = Rule(signed, sealed = "VERDICT_PARTIAL", FALSE)
    BY <1>1, <1>14, <2>1
  <2>3. rule.passes
    <3> HIDE DEF rule
    <3>1. CASE rule = Rule(signed, TRUE, FALSE)
      BY <3>1 DEF Rule
    <3>2. CASE rule = Rule(signed, TRUE, TRUE)
      BY <3>2 DEF Rule
    <3>3. CASE rule = Rule(signed, sealed = "VERDICT_PARTIAL", FALSE)
      <4>1. rule = Rule(signed, TRUE, FALSE)
        BY <1>14, <3>3
      <4> QED
        BY <4>1 DEF Rule
    <3> QED
      BY <2>2, <3>1, <3>2, <3>3
  <2> QED
    BY <1>14, <2>3
<1> QED
  BY <1>5, <1>10, <1>11, <1>12, <1>13, <1>14 DEF TierFits


\* Of a chain that was issued, the claims with digests are those of the ai service.
LEMMA IssuedDigests ==
  ASSUME NEW h \in Issued, NEW j \in DOMAIN h.claims
  PROVE  /\ j \in DigestClaims(h) <=> /\ h.claims[j].service_id = "dsa-ai"
                                      /\ SignedDigests(h.claims[j]) # Absent
         /\ j \in DigestClaims(h) => WellFormedDigests(SignedDigests(h.claims[j]))
<1> DEFINE claim == h.claims[j]
           doc == claim.canonical_payload
<1>1. IssuedClaim(h, claim)
  BY IssuedAssumption
<1>2. claim.service_id = "dsa-ai" => Inference(claim)
  BY <1>1 DEF IssuedClaim
<1>3. j \in DigestClaims(h) <=> claim.service_id = "dsa-ai" /\ SignedDigests(claim) # Absent
  BY <1>2 DEF DigestClaims, Of, SignedDigests
<1>4. ASSUME claim.service_id = "dsa-ai", SignedDigests(claim) # Absent
      PROVE  WellFormedDigests(SignedDigests(claim))
  <2>1. Sound(doc) /\ doc.service_id = "dsa-ai" /\ doc.claim_type = TypeName(claim)
    BY <1>1, <1>4 DEF IssuedClaim
  <2>2. doc.claim_type = "CLAIM_TYPE_INFERENCE_COMPLETED"
    BY <1>2, <1>4, <2>1 DEF Inference, TypeName, chainClaimTypeNames
  <2>3. Says(doc, "upstream_body_sha256") = SignedDigests(claim)
    BY PayloadSays, KeysThere DEF SignedDigests
  <2> HIDE DEF doc, claim
  <2> QED
    BY <1>4, <2>1, <2>2, <2>3, Zenon DEF Sound, Says
<1> QED
  BY <1>3, <1>4

\* Step 8 passes.
LEMMA IssuedEgress ==
  ASSUME NEW h \in Issued
  PROVE  EgressSteps(h) = "pass"
<1>1. Cardinality(DigestClaims(h)) <= 1
  BY IssuedAssumption
<1>2. \A j \in DigestClaims(h) : j \in DOMAIN h.claims
  BY DEF DigestClaims, Of
<1>3. \A j \in DigestClaims(h) : WellFormedDigests(SignedDigests(h.claims[j]))
  BY <1>2, IssuedDigests
<1>4. ASSUME NEW j \in DOMAIN h.claims
      PROVE  \/ bodiesOf(h.claims[j]) = <<>>
             \/ j \in DigestClaims(h) /\ bodiesOf(h.claims[j]) = SignedDigests(h.claims[j])
  <2> DEFINE claim == h.claims[j]
  <2>1. IssuedClaim(h, claim)
    BY IssuedAssumption
  <2>2. \/ bodiesOf(claim) = <<>>
        \/ /\ claim.service_id = "dsa-ai" /\ SignedDigests(claim) # Absent
           /\ bodiesOf(claim) = SignedDigests(claim)
    BY <2>1 DEF IssuedClaim
  <2> QED
    BY <2>2, IssuedDigests
<1>5. <<>> # Other
  BY ChainKindsAssumption DEF NoString
<1>6. \A j \in DigestClaims(h) : SignedDigests(h.claims[j]) # Other
  BY <1>3 DEF WellFormedDigests, NoString
<1>7. ~BodiesUnbound(h)
  BY <1>4, <1>5, <1>6 DEF BodiesUnbound
<1>8. \A j \in DigestClaims(h) : bodiesOf(h.claims[j]) \in {<<>>, SignedDigests(h.claims[j])}
  BY <1>2, <1>4
<1>9. chainCertTier(h.claims, Label(h.tier), h.verdict).passes
  BY IssuedTier
<1>10. ~ (Cardinality(DigestClaims(h)) > 1)
  <2>1. \E n \in Nat : DOMAIN h.claims = 1..n
    BY ListHeld DEF Lists
  <2>2. IsFiniteSet(DOMAIN h.claims)
    BY <2>1, FS_Interval
  <2>3. IsFiniteSet(DigestClaims(h))
    <3>1. DigestClaims(h) \in SUBSET DOMAIN h.claims
      BY <1>2
    <3> QED
      BY <2>2, <3>1, FS_Subset
  <2>4. Cardinality(DigestClaims(h)) \in Nat
    BY <2>3, FS_CardinalityType
  <2> QED
    BY <1>1, <2>4
<1> QED
  BY <1>3, <1>7, <1>8, <1>9, <1>10 DEF EgressSteps

\* The result of a chain that was issued is what it deserves.
LEMMA IssuedResult ==
  ASSUME NEW h \in Issued, NEW a
  PROVE  /\ Passed(h, a).verdict = Deserved(h)
         /\ Passed(h, a).verified.claims = Documents(h)
         /\ \/ Passed(h, a).verified.certificate = SignedV2(h)
            \/ h.v3sig # Absent /\ Passed(h, a).verified.certificate = SignedV3(h)
<1>1. /\ DOMAIN Documents(h) = DOMAIN h.claims
      /\ \A j \in DOMAIN h.claims : Documents(h)[j] = h.claims[j].canonical_payload
  BY DEF Documents
<1>2. ASSUME NEW j \in DOMAIN h.claims
      PROVE  /\ Documents(h)[j].service_id = h.claims[j].service_id
             /\ h.claims[j].service_id \in DOMAIN Services
             /\ \A key \in PayloadKeys :
                  Says(Documents(h)[j], key) = chainSignedPayload(h.claims[j])[key]
  <2> DEFINE claim == h.claims[j]
  <2>1. IssuedClaim(h, claim)
    BY IssuedAssumption
  <2>2. claim.canonical_payload.service_id = claim.service_id /\ claim.service_id \in DOMAIN Services
    BY <2>1 DEF IssuedClaim
  <2>3. Documents(h)[j] = claim.canonical_payload
    BY <1>1
  <2>4. \A key \in PayloadKeys : Says(claim.canonical_payload, key) = chainSignedPayload(claim)[key]
    BY PayloadSays
  <2> QED
    BY <2>2, <2>3, <2>4
<1>3. Signs(h, DOMAIN Services, "inference_outcome") <=> Unfinished(h)
  BY <1>1, <1>2, KeysThere DEF Signs, Unfinished
<1>4. SignsToken(h) <=> userUnredacted(h)
  BY <1>1, <1>2, KeysThere DEF SignsToken, userUnredacted, Of
<1>5. Signs(h, {"dsa-ai"}, "upstream_body_sha256") <=> DigestClaims(h) # {}
  <2>1. \A j \in DigestClaims(h) : j \in DOMAIN h.claims
    BY DEF DigestClaims, Of
  <2>2. \A j \in DOMAIN h.claims :
          j \in DigestClaims(h) <=>
            /\ Documents(h)[j].service_id \in {"dsa-ai"}
            /\ Says(Documents(h)[j], "upstream_body_sha256") # Absent
    BY <1>2, IssuedDigests, KeysThere DEF SignedDigests
  <2> QED
    BY <2>1, <2>2 DEF Signs
<1>6. h.verdict # "VERDICT_PARTIAL" => ~chainCertTier(h.claims, Label(h.tier), h.verdict).capped
  BY IssuedTier
<1>7. ChainSteps(Ceiling(h)) = Deserved(h)
  <2>1. CASE Unfinished(h) \/ userUnredacted(h) \/ h.verdict = "VERDICT_PARTIAL"
    <3>1. ChainSteps(Ceiling(h)) = "PARTIAL"
      BY <2>1 DEF ChainSteps, Ceiling
    <3>2. Deserved(h) = "PARTIAL"
      BY <1>3, <1>4, <2>1 DEF Deserved
    <3> QED
      BY <3>1, <3>2
  <2>2. CASE ~Unfinished(h) /\ ~userUnredacted(h) /\ h.verdict # "VERDICT_PARTIAL"
    <3>1. ChainSteps(Ceiling(h)) = IF DigestClaims(h) = {} THEN "EGRESS_UNATTESTED" ELSE "VERIFIED"
      BY <1>6, <2>2 DEF ChainSteps, Ceiling
    <3>2. Deserved(h) = IF DigestClaims(h) = {} THEN "EGRESS_UNATTESTED" ELSE "VERIFIED"
      BY <1>3, <1>4, <1>5, <2>2 DEF Deserved
    <3> QED
      BY <3>1, <3>2
  <2> QED
    BY <2>1, <2>2
<1>8. /\ Passed(h, a).verdict = ChainSteps(Ceiling(h)) /\ Passed(h, a).verified = ChainVerified(h)
      /\ ChainVerified(h).claims = Documents(h)
      /\ ChainVerified(h).certificate = IF v3present(h) THEN v3(h) ELSE v2(h)
  BY DEF Passed, ChainVerified, Documents
<1> QED
  BY <1>7, <1>8, IssuedSignables, IssuedSigned

------------------------------------------------------------------------------
\* What becomes of a certificate that nobody changed, if it is what is asked for.
Undisturbed ==
  /\ edits = 0 /\ at = "done" /\ Bound(cert, ask) /\ (ask.minV3 => cert.v3sig # Absent)
  => \/ cert.verdict = "VERDICT_FAILED" /\ result = Failed("6a")
     \/ /\ cert.verdict # "VERDICT_FAILED" /\ ~Unique(ClaimIds(cert.claims))
        /\ result = Failed("6c")
     \/ /\ cert.verdict # "VERDICT_FAILED" /\ Unique(ClaimIds(cert.claims))
        /\ PointersExceeded /\ result = Failed("7e")
     \/ /\ cert.verdict # "VERDICT_FAILED" /\ Unique(ClaimIds(cert.claims))
        /\ ~PointersExceeded /\ result = Passed(cert, ask)

LEMMA UndisturbedInductive == IInv /\ DInv /\ Undisturbed /\ [Next]_vars => Undisturbed'
<1> SUFFICES ASSUME IInv, DInv, Undisturbed, [Next]_vars
             PROVE  Undisturbed'
  OBVIOUS
<1>1. ASSUME NEW c, Edit(c)
      PROVE  Undisturbed'
  <2>1. at' = "input"
    BY <1>1 DEF Edit
  <2> QED
    BY <2>1 DEF Undisturbed
<1>2. CASE CheckWitness
  <2> SUFFICES ASSUME edits' = 0, at' = "done", Bound(cert', ask'), ask'.minV3 => cert'.v3sig # Absent
               PROVE  \/ cert'.verdict = "VERDICT_FAILED" /\ result' = Failed("6a")
                      \/ /\ cert'.verdict # "VERDICT_FAILED" /\ ~Unique(ClaimIds(cert'.claims))
                         /\ result' = Failed("6c")
    BY DEF Undisturbed
  <2>1. cert' = cert /\ edits' = edits /\ Decide(WitnessSteps(cert, ask'), "claims")
    BY <1>2 DEF CheckWitness
  <2>2. cert \in Issued
    BY <2>1 DEF DInv
  <2>3. WitnessSteps(cert, ask') # "pass" /\ result' = Failed(WitnessSteps(cert, ask'))
    BY <2>1 DEF Decide
  <2>4. WitnessSteps(cert, ask') = IF cert.verdict = "VERDICT_FAILED" THEN "6a"
                                   ELSE IF ~Unique(ClaimIds(cert.claims)) THEN "6c" ELSE "pass"
    BY <2>1, <2>2, IssuedWitness
  <2> QED
    BY <2>1, <2>3, <2>4
<1>3. ASSUME at = "claims", edits = 0, Bound(cert, ask), ask.minV3 => cert.v3sig # Absent
      PROVE  /\ cert \in Issued /\ cert.verdict # "VERDICT_FAILED"
             /\ Unique(ClaimIds(cert.claims))
  <2>1. cert \in Issued /\ WitnessSteps(cert, ask) = "pass"
    BY <1>3 DEF DInv
  <2>2. WitnessSteps(cert, ask) = IF cert.verdict = "VERDICT_FAILED" THEN "6a"
                                  ELSE IF ~Unique(ClaimIds(cert.claims)) THEN "6c" ELSE "pass"
    BY <1>3, <2>1, IssuedWitness
  <2> QED
    BY <2>1, <2>2
<1>4. CASE CheckClaim
  <2> DEFINE claim == cert.claims[i + 1]
             step == ClaimSteps(cert, claim, pointers)
  <2>1. /\ at = "claims" /\ i + 1 \in DOMAIN cert.claims /\ UNCHANGED <<cert, edits, ask>>
        /\ Decide(step, "claims") /\ (step # "pass" => UNCHANGED <<i, pointers>>)
    BY <1>4 DEF CheckClaim
  <2> SUFFICES ASSUME edits' = 0, at' = "done", Bound(cert', ask'), ask'.minV3 => cert'.v3sig # Absent
               PROVE  /\ cert'.verdict # "VERDICT_FAILED" /\ Unique(ClaimIds(cert'.claims))
                      /\ PointersExceeded' /\ result' = Failed("7e")
    BY DEF Undisturbed
  <2>2. cert \in Issued /\ cert.verdict # "VERDICT_FAILED" /\ Unique(ClaimIds(cert.claims))
    BY <1>3, <2>1
  <2>3. step # "pass" /\ result' = Failed(step) /\ UNCHANGED <<i, pointers>>
    BY <2>1 DEF Decide
  <2>4. step = IF pointers + claim.canonical_payload.pointers <= MaxChainValuesPointerBytes
               THEN "pass" ELSE "7e"
    BY <2>1, <2>2, IssuedClaims
  <2>5. claim.canonical_payload.pointers \in Nat /\ pointers \in Nat /\ MaxChainValuesPointerBytes \in Nat
    <3>1. WitnessChecked(cert, ask) /\ CertHeld(cert)
      BY <2>1 DEF IInv, DInv
    <3>2. ClaimHeld(claim)
      BY <2>1, <3>1, ClaimsThere
    <3>3. IssuedClaim(cert, claim)
      BY <2>1, <2>2, IssuedAssumption
    <3>4. claim.canonical_payload \in HeldInClaims("canonical_payload") \ NoString
      BY <3>2, <3>3 DEF ClaimHeld, ClaimMembers, IssuedClaim
    <3>5. claim.canonical_payload.pointers \in Nat
      BY <3>4, DataAssumption
    <3> QED
      BY <3>5, PointersAssumption DEF DInv
  <2>6. step = "7e" /\ pointers + claim.canonical_payload.pointers > MaxChainValuesPointerBytes
    <3> HIDE DEF claim, step
    <3> QED
      BY <2>3, <2>4, <2>5
  <2>7. PointersExceeded'
    BY <2>1, <2>3, <2>6 DEF PointersExceeded
  <2> QED
    BY <2>1, <2>2, <2>3, <2>6, <2>7
<1>5. CASE CheckEgress
  <2> SUFFICES ASSUME edits' = 0, at' = "done", Bound(cert', ask'), ask'.minV3 => cert'.v3sig # Absent
               PROVE  FALSE
    BY DEF Undisturbed
  <2>1. at = "claims" /\ UNCHANGED <<cert, edits, ask>> /\ Decide(EgressSteps(cert), "ceilings")
    BY <1>5 DEF CheckEgress
  <2>2. cert \in Issued
    BY <1>3, <2>1
  <2>3. EgressSteps(cert) = "pass"
    BY <2>2, IssuedEgress
  <2> QED
    BY <2>1, <2>3 DEF Decide
<1>6. CASE Ceilings
  <2> SUFFICES ASSUME edits' = 0, at' = "done", Bound(cert', ask'), ask'.minV3 => cert'.v3sig # Absent
               PROVE  /\ cert'.verdict # "VERDICT_FAILED" /\ Unique(ClaimIds(cert'.claims))
                      /\ ~PointersExceeded' /\ result' = Passed(cert', ask')
    BY DEF Undisturbed
  <2>1. at = "ceilings" /\ result' = Passed(cert, ask) /\ UNCHANGED <<cert, edits, ask, i, pointers>>
    BY <1>6 DEF Ceilings
  <2>2. cert \in Issued /\ WitnessSteps(cert, ask) = "pass"
    BY <2>1 DEF DInv
  <2>3. WitnessSteps(cert, ask) = IF cert.verdict = "VERDICT_FAILED" THEN "6a"
                                  ELSE IF ~Unique(ClaimIds(cert.claims)) THEN "6c" ELSE "pass"
    BY <2>1, <2>2, IssuedWitness
  <2>4. i \in Nat /\ DOMAIN cert.claims = 1..i
    BY <2>1 DEF IInv, AllChecked
  <2>5. i + 1 \notin DOMAIN cert.claims
    BY <2>4
  <2>6. ~PointersExceeded'
    BY <2>1, <2>5 DEF PointersExceeded
  <2> QED
    BY <2>1, <2>2, <2>3, <2>6
<1>7. CASE UNCHANGED vars
  <2>1. PointersExceeded' <=> PointersExceeded
    BY <1>7 DEF vars, PointersExceeded
  <2> QED
    BY <1>7, <2>1 DEF vars, Undisturbed
<1> QED
  BY <1>1, <1>2, <1>4, <1>5, <1>6, <1>7 DEF Next, Change, ChangeClaim, ReplaceClaim

(* No false alarm: RunChain gives a chain as the gateway issued it, whatever *)
(* its claims and its tier, exactly the verdict that it deserves, and turns  *)
(* away only one sealed FAILED, with an id twice or with values too large.   *)
THEOREM IssuedChainsVerify == Spec => []GenuineChainsVerify
<1>1. Init => Undisturbed
  BY DEF Init, Undisturbed
<1>2. IInv /\ DInv /\ Undisturbed => GenuineChainsVerify
  <2> SUFFICES ASSUME DInv, Undisturbed, at = "done", edits = 0, Bound(cert, ask),
                      ask.minV3 => cert.v3sig # Absent
               PROVE  IF cert.verdict = "VERDICT_FAILED" THEN result.step = "6a"
                      ELSE IF ~Unique(ClaimIds(cert.claims)) THEN result.step = "6c"
                      ELSE IF PointersExceeded THEN result.step = "7e"
                      ELSE result.verdict = Deserved(cert) /\ VerifiedOf(cert)
    BY DEF GenuineChainsVerify
  <2>1. cert \in Issued
    BY DEF DInv
  <2>2. \A step : Failed(step).step = step
    BY DEF Failed
  <2>3. result = Passed(cert, ask) => result.verdict = Deserved(cert) /\ VerifiedOf(cert)
    BY <2>1, IssuedResult DEF VerifiedOf
  <2> QED
    BY <2>2, <2>3 DEF Undisturbed
<1> QED
  BY <1>1, <1>2, DataHold, UndisturbedInductive, PTL DEF Spec


(* Step 8d, written with a multiset in Go, with sorted pairs in TypeScript   *)
(* and with sets in Python, is one rule for every list of claims that comes  *)
(* to it, however long.                                                      *)
THEOREM TierRulesAlwaysAgree == Spec => []TierRulesAgree
<1>1. IInv /\ DInv => TierRulesAgree
  <2> SUFFICES ASSUME IInv, DInv, at = "claims"
               PROVE  TierRulesAgree
    BY DEF TierRulesAgree
  <2>1. cert.claims # Other
    BY DEF IInv, WitnessChecked, Shape
  <2>2. cert.claims \in Seq({cert.claims[j] : j \in DOMAIN cert.claims})
    BY <2>1 DEF DInv, CertHeld
  <2> QED
    BY <2>2, TierRulesAreOne DEF TierRulesAgree
<1> QED
  BY <1>1, DataHold, PTL
==============================================================================
