----------------------------- MODULE MCPipelines -----------------------------
(***************************************************************************)
(* Instances of Pipelines for TLC: five certificates of one witness, and   *)
(* the changes that the tests of the three SDKs try, two at a time.        *)
(***************************************************************************)
EXTENDS Pipelines

CONSTANTS Key, OtherKey

none == [k \in HashKeys |-> Absent]
hashes(h) == [none EXCEPT !["redaction_manifest_hash"] = h, !["sanitized_fields_hash"] = h]
wrapped(h) == [base64 |-> "canonical", json |-> "object", payload |-> hashes(h), flat |-> none]
flat(h) == [wrapped(h) EXCEPT !.payload = Absent, !.flat = hashes(h)]
plain == [base64 |-> "canonical", json |-> "object", payload |-> Absent, flat |-> none]

claim(id, req, service, p) ==
  [claim_id |-> id, request_id |-> req, service_id |-> service, canonical_payload |-> p]
bridge(req) == claim("bridge of " \o req, req, "dsa-bridge", plain)
sanitizer(req, p) == claim("sanitizer of " \o req, req, "dsa-sanitizer", p)

number(n) == [value |-> n, token |-> "integer"]
fraction(n) == [value |-> n, token |-> "fraction"]
time(n, form) == [instant |-> n, form |-> form]

draft(n, req, claims, byok, client) ==
  [id |-> "cert of " \o req, request |-> req, keyId |-> "witness_v1",
   sig |-> Absent, v3sig |-> Absent, emitted |-> Absent,
   issued |-> time(n, "nano"), protocol |-> number(2), claims |-> claims,
   verdict |-> "VERDICT_VERIFIED", byok |-> byok, client |-> client, apiKey |-> Absent,
   rest |-> TRUE]

D1 == draft(1, "r1", <<bridge("r1"), sanitizer("r1", wrapped("h1"))>>, FALSE, "acme")
D2 == draft(2, "r2", <<sanitizer("r2", flat("h2"))>>, TRUE, Null)
D3 == draft(3, "r3", <<bridge("r3")>>, Absent, Absent)
\* Two certificates of one request, which differ in what v2 leaves unsigned.
D4 == [D1 EXCEPT !.id = "cert of r1 again", !.client = "", !.byok = TRUE,
                 !.claims = <<bridge("r1"), sanitizer("r1", wrapped("h2"))>>]

C1 == IssueV3(D1, Key)
C2 == IssueV3(D2, Key)
C3 == IssueV2(D3, Key)
C4 == IssueV3(D4, Key)
\* A time that no verifier can read, signed all the same.
C5 == IssueV2([D3 EXCEPT !.id = "cert of r5", !.issued = time(0, "unreadable")], Key)
MCIssued == {C1, C2, C3, C4, C5}

MCBlank == [canonical |-> FALSE, by |-> Null, over |-> Null]
loose(text) == [text EXCEPT !.canonical = FALSE]
forged(c) == Signature(OtherKey, SignedV3(c))

MCValues ==
  [id |-> {"", C4.id, Other},
   request |-> {C2.request, Other},
   keyId |-> {"witness_v2", Absent},
   sig |-> {Blank, Other, loose(C1.sig), C2.sig, C1.v3sig},
   v3sig |-> {Absent, Other, Blank, loose(C1.v3sig), C4.v3sig, C1.sig, forged(D1)},
   issued |-> {Other, time(2, "nano"), time(0, "unreadable")}
                \cup {time(1, f) : f \in {"padded", "offset", "comma"}},
   protocol |-> {number(3), number(MaxUint64), fraction(2), Other},
   emitted |-> {Absent, Null, Other, number(2), number(4), number(MaxUint64), fraction(3)},
   claims |-> {<<>>, Other, <<Other>>, C2.claims, C4.claims,
               <<[C2.claims[1] EXCEPT !.canonical_payload.payload = List]>>}
                \cup {<<C1.claims[1], x>> :
                       x \in {Other, [C1.claims[2] EXCEPT !.request_id = Other],
                              [C1.claims[2] EXCEPT !.claim_id = Other],
                              [C1.claims[2] EXCEPT !.service_id = Other],
                              [C1.claims[2] EXCEPT !.canonical_payload = Absent],
                              [C1.claims[2] EXCEPT !.canonical_payload.base64 = "loose"],
                              [C1.claims[2] EXCEPT !.canonical_payload.base64 = "garbled"],
                              [C1.claims[2] EXCEPT !.canonical_payload.json = "other"],
                              [C1.claims[2] EXCEPT !.canonical_payload.payload = List]}},
   verdict |-> {"VERDICT_FAILED", "VERDICT_UNKNOWN", Other},
   byok |-> {TRUE, Absent, Null, Other, Truthy},
   client |-> {"evil", Absent, Other},
   apiKey |-> {"", Other},
   rest |-> {FALSE}]

options(keyId, key, minimum, text) ==
  [keyId |-> keyId, key |-> key, minimum |-> minimum, text |-> text]
MCOptions ==
  {options("witness_v1", Key, minimum, text) : minimum \in {"any", "v3"}, text \in BOOLEAN}
    \cup {options("witness_v1", "malformed", "any", TRUE)}
==============================================================================
