------------------------------- MODULE MCAnchors -------------------------------
(***************************************************************************)
(* Anchors for TLC: a transparency log of six statements, the entries that *)
(* parts of its entries can be put together to, and timestamp tokens.      *)
(***************************************************************************)
EXTENDS Anchors

Digest(x) == <<"sha512", x>>

\* Of the witness, of somebody else (the same digest), twice the same statement,
\* of the audit key, and of another kind.
MCLog ==
  LET first == rekorEntryBy(WitnessKey, Digest("1")) IN
  <<first, rekorEntryBy(OtherKey, Digest("1")), rekorEntryBy(WitnessKey, Digest("2")), first,
    rekorEntryBy(AuditKey, Digest("3")),
    [rekorEntryBy(WitnessKey, Digest("4")) EXCEPT !.kind = "rekord/0.0.1"]>>

MCRequests == <<"q1", "q2", "q3", "q4", "q5", "q6", "q7">>

Places == {<<i, n>> \in (1 .. 6) \X (1 .. 6) : i <= n}
HonestEntries == {logBody(MCLog, at[1], at[2]) : at \in Places}
Latest == {x \in HonestEntries : x.proof.size = 6}
Checkpoints == {x.proof.checkpoint : x \in HonestEntries}
Paths == {x.proof.hashes : x \in HonestEntries}

\* The statement of one entry, the path of a second, the place of a third and
\* the checkpoint of a fourth.
Mixed ==
  {[x EXCEPT !.proof.hashes = path, !.proof.index = at[1] - 1, !.proof.size = at[2],
             !.proof.root = cp.root, !.proof.checkpoint = cp] :
     x \in Latest, path \in Paths, at \in Places, cp \in Checkpoints}

\* One part of an entry is another's, or is spoiled.
Lines(cp, f) ==
  LET good == cp.lines[1]
      bad == [good EXCEPT !.signature.by = OtherKey]
      foreign == [hint |-> OtherKey, signature |-> bad.signature] IN
  [cp EXCEPT !.lines = IF f = "none" THEN <<>> ELSE IF f = "bad first" THEN <<bad, good>>
                       ELSE IF f = "foreign first" THEN <<foreign, good>> ELSE <<foreign>>]
Edited ==
  UNION {{[x EXCEPT !.time = y.time], [x EXCEPT !.index = y.index], [x EXCEPT !.set = y.set],
          [x EXCEPT !.body = y.body], [x EXCEPT !.proof = y.proof],
          [x EXCEPT !.set = y.set, !.index = y.index, !.time = y.time],
          [x EXCEPT !.body = NoBody], [x EXCEPT !.time = 0],
          [x EXCEPT !.body = NoBody, !.time = 0],
          [x EXCEPT !.set.by = OtherKey], [x EXCEPT !.proof.strict = FALSE],
          [x EXCEPT !.proof.root = y.proof.root], [x EXCEPT !.proof.root = Malformed],
          [x EXCEPT !.proof.index = x.proof.size],
          [x EXCEPT !.proof.hashes = Append(@, Malformed)],
          [x EXCEPT !.proof.checkpoint = y.proof.checkpoint],
          [x EXCEPT !.proof.checkpoint = Lines(@, "none")],
          [x EXCEPT !.proof.checkpoint = Lines(@, "bad first")],
          [x EXCEPT !.proof.checkpoint = Lines(@, "foreign first")],
          [x EXCEPT !.proof.checkpoint = Lines(@, "foreign")]} :
         x \in {h \in HonestEntries : h.proof.size \in {5, 6}}, y \in HonestEntries}
MCCertificates == Mixed \cup Edited

\* An answer plays no part in what is checked of a proof, so of those that are
\* verified online the proof is one of the log's, from when it was smaller.
MCQueried == {x \in Edited : x.proof.size = 5 /\ \E h \in HonestEntries : x.proof = h.proof}

\* What may be answered instead of the log's copy: parts of two entries, of which
\* 1 and 4 log the same statement, and a copy from when the log was smaller.
MCGarbled ==
  LET now == {logBody(MCLog, i, 6) : i \in {1, 3, 4}} IN
  UNION {{[x EXCEPT !.index = y.index], [x EXCEPT !.index = y.index, !.set = y.set, !.time = y.time],
          [x EXCEPT !.index = y.index, !.set = y.set, !.time = y.time, !.body = y.body],
          [x EXCEPT !.body = NoBody], [x EXCEPT !.time = 0]} : x \in now, y \in now}
  \cup {logBody(MCLog, 1, 3)}

(* Tokens.  Of two pinned roots the second came later.  Certified are the     *)
(* authority's certificate and its renewal, of one key; one for something     *)
(* else; and two that certificate authorities issued, one below the other.    *)
(* Anybody issues what names himself, for himself as an authority or under    *)
(* what was certified for something else, and signs with a key of his own.   *)

Cert(name, key, issuer, eku, from, to) ==
  [name |-> name, key |-> key, issuer |-> issuer, eku |-> eku, from |-> from, to |-> to]
Root == Cert("root", "root", "root", "ca", 1, 9)
Root2 == Cert("root 2", "root 2", "root 2", "ca", 4, 9)
Tsa1 == Cert("tsa", "k", "root", "time-stamping", 1, 4)
Tsa2 == Cert("tsa 2", "k", "root", "time-stamping", 3, 9)
Web == Cert("web", "w", "root", "server", 1, 9)
Ca == Cert("ca", "i", "root 2", "ca", 1, 9)
Ca2 == Cert("ca 2", "j", "i", "ca", 1, 9)
Tsa3 == Cert("tsa 3", "k3", "i", "time-stamping", 1, 9)
Tsa4 == Cert("tsa 4", "k4", "j", "time-stamping", 1, 9)
FakeCa == Cert("ca", "g", "g", "ca", 1, 9)
Fake == Cert("tsa", "f", "g", "time-stamping", 1, 9)
Fake2 == Cert("tsa", "v", "w", "time-stamping", 1, 9)
MCRoots == {Root, Root2}
MCCertified == {Root, Root2, Tsa1, Tsa2, Web, Ca, Ca2, Tsa3, Tsa4}

\* The serial numbers of different certificates' tokens differ.
Token(cert, more, imprint, time) ==
  LET tst == [algorithm |-> "sha256", imprint |-> imprint, serial |-> cert.name, time |-> time]
      attrs == [types |-> {"TSTInfo"}, digests |-> {T!digestOf(tst)},
                ess |-> {<<cert>> \o more}] IN
  [status |-> "granted", whole |-> TRUE, tst |-> tst, certs |-> <<cert>> \o more,
   sid |-> cert.name, signers |-> 1, attrs |-> attrs, hash |-> "sha256", fits |-> TRUE,
   signature |-> [by |-> cert.key, over |-> attrs]]

MCIssued ==
  {Token(Tsa1, <<>>, d, t) : d \in {"d1", "d2"}, t \in {2, 5, 8}}
  \cup {Token(Tsa2, <<Tsa1>>, d, t) : d \in {"d1", "d2"}, t \in {2, 5, 8}}
  \cup {Token(Tsa3, <<Ca>>, d, t) : d \in {"d1", "d2"}, t \in {2, 5}}
  \cup {Token(Tsa4, <<Ca, Ca2>>, d, 5) : d \in {"d1", "d2"}}
Made ==
  MCIssued \cup {Token(Web, <<>>, d, t) : d \in {"d1", "d2"}, t \in {2, 5}}
  \cup {Token(Fake, <<FakeCa>>, d, t) : d \in {"d1", "d2"}, t \in {2, 5, 8}}
  \cup {Token(Fake2, <<Web>>, d, 5) : d \in {"d1", "d2"}}
  \cup {[Token(Tsa2, <<>>, d, 6) EXCEPT !.signature.by = "f"] : d \in {"d1", "d2"}}

\* What is stamped, the attributes, the signature and the certificates may be of
\* different tokens, and any part may be spoiled.
Swapped(t) ==
  {[t EXCEPT !.tst = u.tst] : u \in Made} \cup {[t EXCEPT !.attrs = u.attrs] : u \in Made}
  \cup {[t EXCEPT !.signature = u.signature] : u \in Made}
  \cup {[t EXCEPT !.attrs = u.attrs, !.signature = u.signature] : u \in Made}
  \cup {[t EXCEPT !.certs = u.certs, !.sid = u.sid] : u \in Made}
  \cup {[t EXCEPT !.certs = Append(u.certs, t.certs[1])] : u \in Made}
Spoiled(t) ==
  {t, [t EXCEPT !.status = "bare"], [t EXCEPT !.status = "rejected"], [t EXCEPT !.whole = FALSE],
   [t EXCEPT !.tst.algorithm = "sha1"], [t EXCEPT !.tst.time = 0], [t EXCEPT !.signers = 2],
   [t EXCEPT !.hash = "sha1"], [t EXCEPT !.fits = FALSE], [t EXCEPT !.sid = "unknown"],
   [t EXCEPT !.attrs.ess = {}], [t EXCEPT !.attrs.ess = {<<>>}], [t EXCEPT !.attrs.types = {}],
   [t EXCEPT !.attrs.digests = {}], [t EXCEPT !.certs = SubSeq(@, 1, 1)]}
MCTokens ==
  {[token |-> x, expected |-> d] : x \in UNION {Swapped(t) \cup Spoiled(t) : t \in Made},
                                   d \in {"d1", "d2"}}
==============================================================================
