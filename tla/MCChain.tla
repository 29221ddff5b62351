-------------------------------- MODULE MCChain --------------------------------
(***************************************************************************)
(* Instances of Chain for TLC: chains of every tier from one witness, and  *)
(* the changes that the tamper cases of the parity corpus try.             *)
(***************************************************************************)
EXTENDS Chain

CONSTANT OtherKey

MCServices ==
  [s \in {"dsa-bridge", "dsa-sanitizer", "dsa-sanitizer-streaming", "dsa-gateway", "dsa-ai"} |->
     "key of " \o s]

none == [k \in PayloadKeys |-> Absent]
noHashes == [k \in HashKeys |-> Absent]

document(service, id, req, type, payload) ==
  [base64 |-> "canonical", json |-> "object", strict |-> TRUE, variant |-> FALSE,
   exact |-> TRUE, pointers |-> 1, payload |-> payload, flat |-> noHashes, claim_id |-> id, request_id |-> req,
   service_id |-> service, claim_type |-> type, data_seen |-> <<"prompt">>]

\* The claim around a document, its mirror the payload it signs.
around(doc, key, kind, bodies) ==
  [claim_id |-> doc.claim_id, request_id |-> doc.request_id, service_id |-> doc.service_id,
   claim_type |-> doc.claim_type, data_seen |-> doc.data_seen, canonical_payload |-> doc,
   signature |-> Signature(key, doc), kinds |-> kind, typed |-> doc.payload, bodies |-> bodies]

signed(service, req, type, kind, payload, bodies) ==
  around(document(service, service \o " of " \o req, req, type, payload),
         MCServices[service], kind, bodies)

bridge(req) ==
  signed("dsa-bridge", req, "CLAIM_TYPE_TOKEN_GENERATED", {"bridge"},
         [none EXCEPT !["token_hash"] = "t", !["encryption_enabled"] = TRUE], Absent)
scanned(layers) ==
  [none EXCEPT !["layers_active"] = layers, !["pii_entities_found"] = 2, !["qi_score"] = "low",
               !["redaction_manifest_hash"] = "h"]
sanitizer(service, req, layers) ==
  signed(service, req, "CLAIM_TYPE_PII_SANITIZED", {"sanitizer"}, scanned(layers), Absent)
gateway(req, copy) ==
  signed("dsa-gateway", req, "", {}, [none EXCEPT !["cert_tier"] = copy], Absent)
answered(copy, digests, outcome) ==
  [none EXCEPT !["cert_tier"] = copy, !["upstream_body_sha256"] = digests,
               !["model_used"] = "m", !["response_hash"] = "a",
               !["isolation_probe"] = "VERIFIED", !["inference_outcome"] = outcome]
ai(req, copy, digests, outcome) ==
  signed("dsa-ai", req, "CLAIM_TYPE_INFERENCE_COMPLETED", {"inference"},
         answered(copy, digests, outcome), digests)

number(n) == [value |-> n, token |-> "integer"]
time(n, form) == [instant |-> n, form |-> form]

draft(id, req, claims, verdict, tier) ==
  [id |-> id, request |-> req, keyId |-> WitnessKeyID, sig |-> Absent, v3sig |-> Absent,
   emitted |-> Absent, issued |-> time(1, "padded"), protocol |-> number(2), claims |-> claims,
   verdict |-> verdict, byok |-> FALSE, client |-> "acme", apiKey |-> Absent, tier |-> tier]

Full ==
  draft("full", "r1", <<sanitizer("dsa-sanitizer", "r1", <<"ner">>),
                        ai("r1", Absent, <<"d1", "d2">>, Absent)>>,
        "VERDICT_VERIFIED", "full_chain")
\* Of the same request, with another client and other claims.
Again == [Full EXCEPT !.id = "again", !.client = Null, !.byok = TRUE,
                      !.claims = <<bridge("r1"), Full.claims[2]>>]
Shield ==
  draft("shield", "r3", <<gateway("r3", "input-shield"),
                          ai("r3", "input-shield", <<"d1">>, Absent)>>,
        "VERDICT_VERIFIED", "input_shield")
TwoSigner ==
  draft("two", "r4", <<sanitizer("dsa-sanitizer", "r4", <<"ner">>), gateway("r4", "input-shield")>>,
        "VERDICT_VERIFIED", "input_shield_two_signer")
Audit ==
  draft("audit", "r5", <<ai("r5", "audit-only", Absent, Absent)>>,
        "VERDICT_PARTIAL", "audit_only")
Odd == draft("odd", "r6", <<gateway("r6", "input-shield")>>, "VERDICT_PARTIAL", "full_chain")
Cut == draft("cut", "r7", <<ai("r7", Absent, <<"d1">>, "timeout")>>, "VERDICT_VERIFIED", Absent)
Raw ==
  draft("raw", "r8", <<sanitizer("dsa-sanitizer-streaming", "r8", <<chainUserUnredactedTok>>)>>,
        "VERDICT_VERIFIED", "full_chain")
Bad == draft("bad", "r9", <<bridge("r9")>>, "VERDICT_FAILED", Absent)
Twice == draft("twice", "r2", <<bridge("r2"), bridge("r2")>>, "VERDICT_VERIFIED", Absent)
\* Documents whose pointers are too many together.
large(c) ==
  around([c.canonical_payload EXCEPT !.pointers = 3], MCServices[c.service_id], c.kinds, c.bodies)
Long ==
  draft("long", "r10", <<large(sanitizer("dsa-sanitizer", "r10", <<"ner">>)),
                         large(ai("r10", Absent, <<"d1">>, Absent))>>,
        "VERDICT_VERIFIED", "full_chain")

MCIssued ==
  {IssueV3(c, Witness) : c \in {Full, Again, Long, Shield, TwoSigner, Audit, Cut, Raw}}
    \cup {IssueV2(c, Witness) : c \in {Odd, Bad, Twice}}

C1 == IssueV3(Full, Witness)
C2 == IssueV3(Again, Witness)
A1 == C1.claims[2]
D1 == A1.canonical_payload

\* Documents of a service that no claim should have: read in two ways, with keys
\* read in two ways, with a member too many, of another request, with the
\* token but no mirror for it.
rogue(doc) == around(doc, MCServices["dsa-ai"], {"inference"}, Absent)
MCClaims ==
  UNION {{c.claims[j] : j \in DOMAIN c.claims} : c \in {Again, Shield, Audit}}
    \cup {rogue([D1 EXCEPT !.strict = FALSE]), rogue([D1 EXCEPT !.variant = TRUE]),
          rogue([D1 EXCEPT !.exact = FALSE]), rogue([D1 EXCEPT !.request_id = "r2"]),
          rogue([D1 EXCEPT !.json = "other"]),
          rogue([D1 EXCEPT !.payload = [D1.payload EXCEPT !["layers_active"] =
                                          <<chainUserUnredactedTok>>]]),
          rogue([D1 EXCEPT !.payload = [D1.payload EXCEPT !["upstream_body_sha256"] = <<>>]]),
          around(D1, MCServices["dsa-gateway"], {"inference"}, Absent)}

MCBlank == [canonical |-> FALSE, by |-> Null, over |-> Null]
loose(text) == [text EXCEPT !.canonical = FALSE]

MCValues ==
  [id |-> {"again", Other}, request |-> {"r2"}, keyId |-> {"witness_v2"},
   sig |-> {Absent, Blank, loose(C1.sig), C2.sig, C1.v3sig},
   v3sig |-> {Absent, Other, Blank, loose(C1.v3sig), C2.v3sig, Signature(OtherKey, SignedV3(Full))},
   issued |-> {time(2, "nano"), time(1, "offset"), time(1, "comma")},
   protocol |-> {number(3), [value |-> 2, token |-> "fraction"]},
   emitted |-> {Absent, number(2), number(4)},
   claims |-> {<<>>, Other, <<Other>>, C2.claims, <<A1>>},
   verdict |-> {"VERIFIED", "VERDICT_VERIFIED", "VERDICT_PARTIAL", Other},
   byok |-> {TRUE, Other}, client |-> {"evil", Absent}, apiKey |-> {""},
   tier |-> {Absent, Other, "full_chain", "input_shield", "audit_only",
             "input_shield_two_signer", "gold"}]

MCClaimValues ==
  [claim_id |-> {"another"}, request_id |-> {"r2", Absent},
   service_id |-> {"dsa-gateway", "dsa-unpinned", Other},
   claim_type |-> {"CLAIM_TYPE_NEW", "CLAIM_TYPE_INFERENCE_COMPLETED"},
   data_seen |-> {<<"nothing">>, Other}, canonical_payload |-> {Absent, D1},
   signature |-> {Absent, Other, A1.signature, loose(A1.signature)},
   kinds |-> {{}, {"inference"}, {"bridge", "inference"}},
   typed |-> {none, Other, answered(Absent, Absent, Absent),
              [answered(Absent, Absent, Absent) EXCEPT !["model_used"] = "n"],
              scanned(<<"ner">>), scanned(<<"ner", "human">>)},
   bodies |-> {Absent, Other, <<"d1">>, <<"d1", "d2">>, <<"d2", "d1">>}]

asks(minV3, request, certificate) ==
  [minV3 |-> minV3, request |-> request, certificate |-> certificate]
MCAsks == {asks(FALSE, Null, Null), asks(TRUE, "r1", "full")}
==============================================================================
