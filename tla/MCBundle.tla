------------------------------- MODULE MCBundle -------------------------------
(***************************************************************************)
(* Bundles for TLC: the bundle a service exports for a conversation of two *)
(* requests, and what is left of it after edits of one or two of its       *)
(* parts.  Each family of edits reaches one group of checks.               *)
(***************************************************************************)
EXTENDS Command, SequencesExt

MCNoDigest == <<>>

Path(i) == <<"certificates/1.json", "certificates/2.json">>[i]
Req(i) == <<"r1", "r2", "r3">>[i]
Raw(i) == <<<<"d1">>, <<"d2">>>>[i]

(* The honest conversation: request i was counted as i, at leaf i - 1.       *)

Row(i) == [seq |-> i, conv |-> "v", req |-> Req(i), type |-> "PROXY", leaf |-> i - 1,
           root |-> 7, hash |-> <<"v", i, Req(i), "PROXY">>]
Claim(i) == [req |-> Req(i), conv |-> "v", seq |-> i, hash |-> Row(i).hash,
             malformed |-> FALSE]

\* Leaf 0 and leaf 1 have paths of one shape in a tree of two leaves.
Proof(i) == [seq |-> i, leaf |-> i - 1, size |-> 2,
             path |-> [leaf |-> i - 1, sizes |-> {2}, hash |-> Row(i).hash, root |-> "R"]]
Root == [id |-> 7, size |-> 2, root |-> "R", signed |-> [size |-> 2, root |-> "R"],
         genuine |-> TRUE, stored |-> TRUE, log |-> "confirms"]
Audit == [shape |-> TRUE, events |-> <<Row(1), Row(2)>>, proofs |-> <<Proof(1), Proof(2)>>,
          roots |-> <<Root>>]
NoAudit == [shape |-> TRUE, events |-> <<>>, proofs |-> <<>>, roots |-> <<>>]

NoToken == [kind |-> "none", imprint |-> NoDigest, time |-> 0, trusted |-> FALSE]
Token(d) == [kind |-> "token", imprint |-> d, time |-> 5, trusted |-> TRUE]
NoEntry == [kind |-> "none", index |-> 0, logged |-> NoDigest, time |-> 0,
            genuine |-> FALSE, stored |-> FALSE, log |-> "refuses"]
Entry(i, d) == [kind |-> "entry", index |-> i, logged |-> d, time |-> 5,
                genuine |-> TRUE, stored |-> TRUE, log |-> "confirms"]

\* A certificate without anchors, and the same with bound ones.
Plain(i) ==
  [object |-> TRUE, pinned |-> TRUE, signature |-> TRUE, req |-> Req(i), id |-> "id",
   content |-> Req(i), issued |-> 4, recovered |-> TRUE, chain |-> "ok",
   convs |-> {"v"}, custs |-> {"u"}, claims |-> {Claim(i)},
   signers |-> [gateway |-> 1, sanitizer |-> 1, other |-> 1],
   marker |-> FALSE, twoSigner |-> FALSE, gatewayConv |-> "v",
   claimsAnchored |-> FALSE, form |-> "legacy", certHash |-> Raw(i),
   token |-> NoToken, superseded |-> FALSE, rekor |-> NoEntry]
Bound(i) ==
  [Plain(i) EXCEPT !.form = "v1", !.claimsAnchored = TRUE,
     !.token = Token(<<"v1", Raw(i), Req(i)>>), !.rekor = Entry(i, <<"v1", Raw(i), Req(i)>>)]
Cleaning(i) ==
  [Plain(i) EXCEPT !.claims = {}, !.signers = [gateway |-> 1, sanitizer |-> 1, other |-> 0],
     !.marker = TRUE, !.twoSigner = TRUE]

FileEntry(p, s) == [name |-> p, regular |-> TRUE, declared |-> 1, size |-> 1,
                    opens |-> TRUE, sha |-> s]

\* The bundle with these certificates; format 1 has no audit folder.
Export(version, certs, audit) ==
  LET paths == [i \in DOMAIN certs |-> Path(i)] \o <<"README.txt", "report-external.pdf">> \o
                 IF version = 2 THEN SetToSeq(AuditPaths) ELSE <<>> IN
  [zip |-> "zip", bytes |-> 1,
   entries |-> <<FileEntry(Manifest, Manifest)>> \o
                 [i \in DOMAIN paths |-> FileEntry(paths[i], paths[i])],
   manifest |->
     [strict |-> TRUE, keys |-> TRUE, format |-> TRUE, version |-> version,
      decodes |-> TRUE, kind |-> TRUE, conv |-> "v", cust |-> "u", listing |-> "exhausted",
      certs |-> [i \in DOMAIN certs |-> [path |-> Path(i), req |-> certs[i].req, id |-> "id"]],
      digest |-> {<<certs[i].req, Path(i)>> : i \in DOMAIN certs},
      files |-> [i \in DOMAIN paths |-> [path |-> paths[i], sha |-> paths[i], size |-> 1]]],
   cert |-> [p \in {Path(i) : i \in DOMAIN certs} |->
               certs[CHOOSE i \in DOMAIN certs : Path(i) = p]],
   audit |-> audit]

(* Edits of the archive and the manifest.                                    *)

EntryEdits(s) ==
  {RemoveAt(s, i) : i \in DOMAIN s} \cup {s \o <<s[i]>> : i \in DOMAIN s} \cup
  {s \o <<FileEntry(p, p)>> : p \in {"extra.txt", "report-internal.pdf", Path(2)}} \cup
  {[s EXCEPT ![i] = e] : i \in DOMAIN s, e \in
     {[FileEntry("README.txt", "README.txt") EXCEPT !.regular = FALSE],
      [FileEntry("README.txt", "README.txt") EXCEPT !.opens = FALSE]}} \cup
  {[s EXCEPT ![i].sha = "other"] : i \in DOMAIN s} \cup
  {[s EXCEPT ![i].size = n] : i \in DOMAIN s, n \in {2, 3}} \cup
  {[s EXCEPT ![i].declared = 3] : i \in DOMAIN s} \cup
  {[s EXCEPT ![1].size = 2, ![2].size = 2, ![3].size = 2]} \cup
  {s \o s}

ListEdits(s) ==
  {RemoveAt(s, i) : i \in DOMAIN s} \cup {s \o <<s[i]>> : i \in DOMAIN s} \cup
  {[s EXCEPT ![i].path = p] : i \in DOMAIN s, p \in {Manifest, Path(2), "extra.txt"}}

ManifestEdits(man) ==
  {[man EXCEPT !.strict = FALSE], [man EXCEPT !.keys = FALSE], [man EXCEPT !.format = FALSE],
   [man EXCEPT !.decodes = FALSE], [man EXCEPT !.kind = FALSE], [man EXCEPT !.conv = "w"],
   [man EXCEPT !.cust = ""], [man EXCEPT !.listing = "truncated"], [man EXCEPT !.digest = {}]}
  \cup {[man EXCEPT !.version = v] : v \in 1 .. 3}
  \cup {[man EXCEPT !.files = f] : f \in ListEdits(man.files)}
  \cup {[man EXCEPT !.certs = f] : f \in ListEdits(man.certs)}
  \cup {[man EXCEPT !.certs[1].req = r] : r \in {"", "r2"}} \cup {[man EXCEPT !.certs[1].id = ""]}

Honest2 == <<Bound(1), Bound(2)>>

LayoutBundles ==
  UNION {LET x == Export(v, certs, IF v = 2 THEN Audit ELSE NoAudit) IN
         {x, [x EXCEPT !.zip = "unsafe"], [x EXCEPT !.zip = "unreadable"], [x EXCEPT !.bytes = 12]}
           \cup {[x EXCEPT !.entries = e] : e \in EntryEdits(x.entries)}
           \cup {[x EXCEPT !.manifest = e] : e \in ManifestEdits(x.manifest)} :
         v \in {1, 2}, certs \in {<<Bound(1)>>, Honest2}}

(* Certificates whose signature or claims are not what they should be.       *)

SignedBundles ==
  {[Export(1, <<Plain(1)>>, NoAudit) EXCEPT !.cert[Path(1)] =
      [Plain(1) EXCEPT !.object = a, !.pinned = p, !.signature = s, !.req = r, !.id = n,
         !.recovered = q, !.issued = t, !.claims = {}]] :
     a \in BOOLEAN, p \in BOOLEAN, s \in BOOLEAN, r \in {"r1", "r2"}, n \in {"id", "other"},
     q \in BOOLEAN, t \in {0, 4, 8}}
ClaimBundles ==
  {Export(1, <<[Plain(1) EXCEPT !.chain = a, !.convs = v, !.custs = u, !.claims = {}]>>, NoAudit) :
     a \in {"ok", "failed", "sealed_failed", "refused"},
     v \in SUBSET {"v", "w"}, u \in SUBSET {"u", "x"}}

(* Anchors: the forms, digests and times one certificate may have, and two   *)
(* certificates that share some of their anchors.                            *)

Digests == {Raw(1), <<"v1", Raw(1), "r1">>, <<"v1", Raw(1), "r2">>}
Tokens == {NoToken, [NoToken EXCEPT !.kind = "garbled"]} \cup
          {[Token(d) EXCEPT !.time = t, !.trusted = g] : d \in Digests, t \in {2, 5}, g \in BOOLEAN}
Entries ==
  {NoEntry, [NoEntry EXCEPT !.kind = "garbled"]} \cup
  {[Entry(1, d) EXCEPT !.time = t] : d \in Digests, t \in {2, 5}} \cup
  {[Entry(1, d) EXCEPT !.genuine = g, !.stored = s, !.log = l] :
     d \in Digests, g \in BOOLEAN, s \in BOOLEAN, l \in {"confirms", "refuses"}}
Shapes == {[Bound(1) EXCEPT !.claims = {}, !.form = f, !.certHash = d, !.claimsAnchored = a,
              !.issued = t, !.recovered = q] :
             f \in {"legacy", "v1", "unknown"}, d \in {NoDigest, Raw(1)}, a \in BOOLEAN,
             t \in {4, 8}, q \in BOOLEAN}
AnchorBundles ==
  {Export(1, <<x>>, NoAudit) : x \in
     {[y EXCEPT !.token = k, !.superseded = g] : y \in Shapes, k \in Tokens, g \in BOOLEAN} \cup
     {[y EXCEPT !.rekor = e, !.token = k] : y \in Shapes, e \in Entries, k \in {NoToken, Token(Raw(1))}}}

SharedBundles ==
  LET Of(i) == {[Bound(i) EXCEPT !.claims = {}, !.form = f, !.certHash = d,
                   !.token = Token(IF f = "v1" THEN <<"v1", d, Req(i)>> ELSE d),
                   !.rekor = Entry(n, l)] :
                  f \in {"legacy", "v1"}, d \in {Raw(1), Raw(2)}, n \in {1, 2},
                  l \in {<<"v1", Raw(1), Req(i)>>, <<"v1", Raw(2), Req(i)>>, <<"other">>}} IN
  {Export(1, <<x, y>>, NoAudit) : x \in Of(1), y \in Of(2)}

(* The counter: rows, proofs and roots, and the claims they must match.      *)

RowEdits(i) ==
  {Row(i), [Row(i) EXCEPT !.seq = 3 - i], [Row(i) EXCEPT !.seq = 3 - i, !.hash[2] = 3 - i],
   [Row(i) EXCEPT !.seq = 0],
   [Row(i) EXCEPT !.conv = "w", !.hash[1] = "w"], [Row(i) EXCEPT !.req = "r3", !.hash[3] = "r3"],
   [Row(i) EXCEPT !.type = cleaningEventType, !.hash[4] = cleaningEventType],
   [Row(i) EXCEPT !.root = 0], [Row(i) EXCEPT !.root = 8]}
Events ==
  {<<>>, <<Row(2)>>, <<Row(2), Row(1)>>, <<Row(1), Row(1)>>} \cup {<<e>> : e \in RowEdits(1)}
  \cup {<<e, f>> : e \in RowEdits(1), f \in RowEdits(2)}

ClaimEdits(i) ==
  {{Claim(i)}, {}, {[Claim(i) EXCEPT !.seq = 0]}, {[Claim(i) EXCEPT !.seq = 3 - i]},
   {Claim(i), [Claim(i) EXCEPT !.seq = 3 - i]}, {[Claim(i) EXCEPT !.malformed = TRUE, !.seq = 0]},
   {[Claim(i) EXCEPT !.seq = 0, !.hash = <<"other">>]}}
Kinds(i) ==
  {[Plain(i) EXCEPT !.claims = k] : k \in ClaimEdits(i)} \cup
  {Cleaning(i), [Cleaning(i) EXCEPT !.issued = 1], [Cleaning(i) EXCEPT !.gatewayConv = ""],
   [Cleaning(i) EXCEPT !.twoSigner = FALSE], [Cleaning(i) EXCEPT !.marker = FALSE],
   [Plain(i) EXCEPT !.marker = TRUE], [Plain(i) EXCEPT !.chain = "failed"]}

Matching(rows) ==
  [i \in DOMAIN rows |-> [Proof(i) EXCEPT !.path.hash = rows[i].hash, !.seq = rows[i].seq]]
CounterBundles ==
  {Export(1, <<x>>, NoAudit) : x \in Kinds(1)} \cup
  {Export(2, certs, [Audit EXCEPT !.events = rows, !.proofs = Matching(rows)]) :
     rows \in Events,
     certs \in {<<x>> : x \in Kinds(1)} \cup {<<x, Plain(2)>> : x \in Kinds(1)} \cup
               {<<Cleaning(1), x>> : x \in Kinds(2)}}

ProofEdits(p) ==
  {p, [p EXCEPT !.seq = 3], [p EXCEPT !.leaf = 1], [p EXCEPT !.size = 3],
   [p EXCEPT !.size = 0, !.path = NoPath], [p EXCEPT !.size = 3, !.path.sizes = {2, 3}],
   [p EXCEPT !.path.root = "S"], [p EXCEPT !.path.leaf = 1]}
RootEdits ==
  {<<>>, <<Root, Root>>} \cup
  {<<r>> : r \in {Root, [Root EXCEPT !.id = 8], [Root EXCEPT !.genuine = FALSE],
                  [Root EXCEPT !.stored = FALSE],
                  [Root EXCEPT !.log = "refuses"], [Root EXCEPT !.size = 3],
                  [Root EXCEPT !.signed.size = 3], [Root EXCEPT !.root = "S"],
                  [Root EXCEPT !.size = 3, !.signed.size = 3]}}
RootBundles ==
  {Export(2, <<k, Plain(2)>>, [Audit EXCEPT
      !.events[1] = IF k.twoSigner
                    THEN [Row(1) EXCEPT !.type = cleaningEventType, !.hash[4] = cleaningEventType]
                    ELSE Row(1),
      !.proofs[1] = p, !.roots = r, !.shape = s]) :
     k \in {Plain(1), Cleaning(1)}, s \in BOOLEAN, p \in UNION {ProofEdits(q) : q \in
       {Proof(1), [Proof(1) EXCEPT !.path.hash[4] = cleaningEventType]}}, r \in RootEdits}

(* Runs: the hosted pins offline; online, with anchors optional; a self-hosted *)
(* deployment with all its keys; and one with no key but the witness's.       *)

Hosted ==
  [parses |-> TRUE, about |-> "", files |-> 1, witness |-> "none", service |-> "none",
   tsaRoot |-> "none", rekorKey |-> "none", requireAnchors |-> FALSE, allowUnanchored |-> FALSE,
   online |-> FALSE, json |-> FALSE, bindingAfter |-> NotGiven, cleaningFrom |-> NotGiven,
   readable |-> TRUE, written |-> TRUE]
SelfHosted == [Hosted EXCEPT !.witness = "own", !.service = "own"]
UsualRuns ==
  {Hosted, [Hosted EXCEPT !.allowUnanchored = TRUE, !.online = TRUE], SelfHosted,
   [Hosted EXCEPT !.witness = "own", !.bindingAfter = 6, !.cleaningFrom = 3]}

\* Every combination of the flags that change the roots; flags that are no use;
\* and what else may go wrong.
Flagged ==
  {[Hosted EXCEPT !.witness = w, !.service = s, !.requireAnchors = r, !.allowUnanchored = a,
      !.bindingAfter = b, !.cleaningFrom = k, !.online = o] :
     w \in {"none", "own"}, s \in {"none", "partial", "own"}, r \in BOOLEAN, a \in BOOLEAN,
     b \in {NotGiven, 6, 9}, k \in {NotGiven, 3, 5}, o \in BOOLEAN}
Mistaken ==
  UNION {{[f EXCEPT !.parses = FALSE, !.about = x] : x \in {"", "version"}} \cup
         {[f EXCEPT !.about = "version"], [f EXCEPT !.about = "trust roots", !.files = 0],
          [f EXCEPT !.files = 0], [f EXCEPT !.files = 2], [f EXCEPT !.witness = "unusable"],
          [f EXCEPT !.service = "unusable"], [f EXCEPT !.bindingAfter = 0],
          [f EXCEPT !.bindingAfter = NotATime], [f EXCEPT !.cleaningFrom = 0],
          [f EXCEPT !.cleaningFrom = NotATime], [f EXCEPT !.readable = FALSE]} \cup
         {[f EXCEPT !.tsaRoot = x, !.rekorKey = y] :
            x \in {"none", "own", "unusable"}, y \in {"none", "own", "unusable"}} \cup
         {[f EXCEPT !.json = TRUE, !.written = x] : x \in BOOLEAN} :
         f \in {Hosted, SelfHosted}}

\* Anchored or not, bound or not, cleaning steps before and after the start of
\* their counter, and one whose signature is bad.
FlagBundles ==
  LET legacy(i, t) == [Bound(i) EXCEPT !.form = "legacy", !.token = Token(Raw(i)), !.issued = t,
                         !.rekor = Entry(i, <<"other">>)]
      cleaning(t) == [Bound(1) EXCEPT !.claims = {}, !.issued = t, !.marker = TRUE,
                        !.signers = Cleaning(1).signers, !.twoSigner = TRUE] IN
  {Export(2, Honest2, Audit), Export(2, <<Plain(1), Plain(2)>>, Audit),
   Export(2, <<legacy(1, 4), legacy(2, 4)>>, Audit),
   Export(2, <<Bound(1), [legacy(2, 8) EXCEPT !.token.time = 8, !.rekor.time = 8]>>, Audit),
   Export(1, <<cleaning(2)>>, NoAudit), Export(1, <<cleaning(4)>>, NoAudit),
   Export(2, <<[Bound(1) EXCEPT !.signature = FALSE], Bound(2)>>, Audit)}

MCBundles ==
  <<LayoutBundles, SignedBundles, ClaimBundles, AnchorBundles, SharedBundles, CounterBundles,
    RootBundles, FlagBundles>>
MCRuns == [edit \in 1 .. 8 |-> IF edit = 8 THEN Flagged \cup Mistaken ELSE UsualRuns]
MCOptions == {trustRoots(f) : f \in Flagged \cup Mistaken \cup UsualRuns}
==============================================================================
