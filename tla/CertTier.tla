------------------------------- MODULE CertTier -------------------------------
(***************************************************************************)
(* Step 8d of verifyCertificateChain: whether the unsigned label           *)
(* verification.cert_tier may stand beside the copies that the claims      *)
(* sign.  The three SDKs write the rule differently, so it is here three   *)
(* times.  Each returns [tier, passes, capped]: the tier to report,        *)
(* whether the label passes, whether VERIFIED is out of reach.             *)
(***************************************************************************)
EXTENDS Certificate, FiniteSets

\* What the claims sign, each under a key that its document may lack.
PayloadKeys ==
  HashKeys \cup
  {"cert_tier", "layers_active", "inference_outcome", "upstream_body_sha256",
   "isolation_probe", "model_used", "response_hash", "pii_entities_found", "qi_score",
   "token_hash", "encryption_enabled", "chain_head_hash", "chain_length"}

\* A payload that is no object signs none of the keys.
chainSignedPayload(claim) ==
  LET p == claim.canonical_payload.payload
  IN IF p \in NoString \cup {List} THEN [k \in PayloadKeys |-> Absent] ELSE p

SignedCopy(claim) == chainSignedPayload(claim)["cert_tier"]
Carriers(claims) == {i \in DOMAIN claims : SignedCopy(claims[i]) # Absent}
Of(claims, service) == {i \in DOMAIN claims : claims[i].service_id = service}

Inference(claim) == claim.claim_type = "CLAIM_TYPE_INFERENCE_COMPLETED"

Label(unsigned) == IF unsigned \in {Absent, Null} THEN "" ELSE unsigned

Rule(tier, passes, capped) == [tier |-> tier, passes |-> passes, capped |-> capped]

------------------------------------------------------------------------------
\* Mutant: only the label makes a chain certificate-only.
markerSigned_Never(claims) == FALSE

markerSigned(claims) == \E i \in Carriers(claims) : SignedCopy(claims[i]) = "audit-only"

chainCertTier(claims, unsigned, sealed) ==
  LET carriers(service) == Carriers(claims) \cap Of(claims, service)
      signs(service, tier) ==
        \E i \in DOMAIN claims : carriers(service) = {i} /\ SignedCopy(claims[i]) = tier
      n == Cardinality(Carriers(claims))
      signed == IF n = 0 THEN "absent"
                ELSE IF n = 2 /\ signs("dsa-gateway", "input-shield")
                              /\ signs("dsa-ai", "input-shield")
                THEN "input_shield" ELSE "inconsistent"
      twoSigner == /\ n = 1 /\ signs("dsa-gateway", "input-shield")
                   /\ Of(claims, "dsa-ai") = {} /\ Of(claims, "dsa-sanitizer") # {}
      marked == \E i \in Of(claims, "dsa-ai") :
                  SignedCopy(claims[i]) = "audit-only" /\ Inference(claims[i])
      aiClaims == Cardinality(Of(claims, "dsa-ai"))
  IN IF unsigned = "input_shield_two_signer"
     THEN IF twoSigner THEN Rule(unsigned, TRUE, FALSE) ELSE Rule(signed, FALSE, FALSE)
     ELSE IF unsigned = "audit_only" \/ markerSigned(claims)
     THEN IF unsigned = "audit_only" /\ n = 1 /\ aiClaims = 1 /\ marked
          THEN Rule("audit_only", TRUE, FALSE) ELSE Rule(signed, FALSE, FALSE)
     ELSE IF unsigned \notin {"", "full_chain", "input_shield"} THEN Rule(signed, FALSE, FALSE)
     ELSE IF \/ signed = "absent" /\ unsigned \in {"", "full_chain"}
             \/ signed = "input_shield" /\ unsigned = "input_shield"
     THEN Rule(signed, TRUE, FALSE)
     ELSE IF signed = "input_shield" /\ unsigned = "" THEN Rule(signed, TRUE, TRUE)
     ELSE Rule(signed, sealed = "VERDICT_PARTIAL", FALSE)

------------------------------------------------------------------------------
\* The copies with their services, in the order of the claims.
carriersOf(claims) ==
  LET F[i \in 0..Len(claims)] ==
        IF i = 0 THEN <<>>
        ELSE IF i \in Carriers(claims)
        THEN Append(F[i - 1], <<claims[i].service_id, SignedCopy(claims[i])>>)
        ELSE F[i - 1]
  IN F[Len(claims)]

\* Mutant: the copies are compared in the order of the claims.
inputShield_Unsorted(carriers) ==
  carriers = << <<"dsa-ai", "input-shield">>, <<"dsa-gateway", "input-shield">> >>

\* The sorted copies are the two.
inputShield(carriers) ==
  /\ Len(carriers) = 2
  /\ {carriers[1], carriers[2]} = {<<"dsa-ai", "input-shield">>, <<"dsa-gateway", "input-shield">>}

certTierCheck(claims, unsigned, sealed) ==
  LET carriers == carriersOf(claims)
      signed == IF carriers = <<>> THEN "absent"
                ELSE IF inputShield(carriers) THEN "input_shield" ELSE "inconsistent"
      ai == Of(claims, "dsa-ai")
      twoSigner == /\ Len(carriers) = 1 /\ carriers[1] = <<"dsa-gateway", "input-shield">>
                   /\ Of(claims, "dsa-sanitizer") # {} /\ ai = {}
      auditOnly == /\ Len(carriers) = 1
                   /\ \E i \in ai : /\ ai = {i} /\ Inference(claims[i])
                                    /\ SignedCopy(claims[i]) = "audit-only"
      marker == \E j \in DOMAIN carriers : carriers[j][2] = "audit-only"
  IN IF unsigned = "input_shield_two_signer"
     THEN IF twoSigner THEN Rule(unsigned, TRUE, FALSE) ELSE Rule(signed, FALSE, FALSE)
     ELSE IF unsigned = "audit_only" \/ marker
     THEN IF unsigned = "audit_only" /\ auditOnly
          THEN Rule(unsigned, TRUE, FALSE) ELSE Rule(signed, FALSE, FALSE)
     ELSE IF unsigned \notin {"", "full_chain", "input_shield"} THEN Rule(signed, FALSE, FALSE)
     ELSE IF <<signed, unsigned>> \in {<<"absent", "">>, <<"absent", "full_chain">>,
                                       <<"input_shield", "input_shield">>}
     THEN Rule(signed, TRUE, FALSE)
     ELSE IF <<signed, unsigned>> = <<"input_shield", "">> THEN Rule(signed, TRUE, TRUE)
     ELSE Rule(signed, sealed = "VERDICT_PARTIAL", FALSE)

------------------------------------------------------------------------------
\* Python reports no tier for a two-signer label that does not fit.
_cert_tier_check(claims, unsigned, sealed) ==
  LET carriers == carriersOf(claims)
      services == {claims[i].service_id : i \in DOMAIN claims}
      pair == {<<"dsa-ai", "input-shield">>, <<"dsa-gateway", "input-shield">>}
      signed == IF carriers = <<>> THEN "absent"
                ELSE IF Len(carriers) = 2 /\ {carriers[j] : j \in 1..2} = pair
                THEN "input_shield" ELSE "inconsistent"
      two_signer == /\ carriers = << <<"dsa-gateway", "input-shield">> >>
                    /\ "dsa-sanitizer" \in services /\ "dsa-ai" \notin services
      audit_only == /\ Len(carriers) = 1 /\ carriers[1] = <<"dsa-ai", "audit-only">>
                    /\ Cardinality(Of(claims, "dsa-ai")) = 1
                    /\ \A i \in Of(claims, "dsa-ai") : Inference(claims[i])
      marker_signed == \E j \in DOMAIN carriers : carriers[j][2] = "audit-only"
  IN IF unsigned = "input_shield_two_signer"
     THEN IF two_signer THEN Rule(unsigned, TRUE, FALSE) ELSE Rule("not_evaluated", FALSE, FALSE)
     ELSE IF unsigned = "audit_only" \/ marker_signed
     THEN IF unsigned = "audit_only" /\ audit_only
          THEN Rule(unsigned, TRUE, FALSE) ELSE Rule(signed, FALSE, FALSE)
     ELSE IF unsigned \notin {"", "full_chain", "input_shield"} THEN Rule(signed, FALSE, FALSE)
     ELSE IF \/ signed = "absent" /\ unsigned \in {"", "full_chain"}
             \/ signed = "input_shield" /\ unsigned = "input_shield"
     THEN Rule(signed, TRUE, FALSE)
     ELSE IF signed = "input_shield" /\ unsigned = "" THEN Rule(signed, TRUE, TRUE)
     ELSE Rule(signed, sealed = "VERDICT_PARTIAL", FALSE)
==============================================================================
