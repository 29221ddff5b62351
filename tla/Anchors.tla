-------------------------------- MODULE Anchors --------------------------------
(***************************************************************************)
(* The verification of one anchor by go/internal/anchor: a certificate's   *)
(* Rekor entry (VerifyRekor), a published audit root (VerifyAuditRoot), a  *)
(* row under a root that verified (AuditInclusionRoot), or a timestamp     *)
(* token (VerifyTimestamp).  With --online an entry is first confirmed by  *)
(* the log's current copy (confirmOnline), which arrives late, garbled, of *)
(* another entry or not at all.  What is verified is put together from parts   *)
(* that the services of AuditLog and the timestamp authority produced, of  *)
(* one anchor or of several.  The walk to the root takes one step per      *)
(* sibling, as the loop of rootFromInclusionProof does.                    *)
(***************************************************************************)
EXTENDS AuditLog

CONSTANTS
  WitnessKey,     \* the pinned key that logs certificates
  Certificates,   \* the entries stored for certificates
  Tokens,         \* the tokens stored for them: [token, expected], what it must stamp
  Queried,        \* the entries that are verified with --online too
  Garbled,        \* answers to a query of the log that are not what it holds
  Certified,      \* the certificates that the pinned roots issued, or authorities below them
  Issued,         \* the tokens that the timestamp authority issued
  TSARoots, Now, ClockSkew

T == INSTANCE Tsa

\* Entries are put together from what may come from anywhere, but what the log's key
\* signed is what the log signed.
ASSUME EntriesAssumption ==
  \A x \in Certificates :
    /\ x.index \in Int /\ x.proof.index \in Int /\ x.proof.size \in Nat
    /\ x.proof.hashes \in Seq(C!Elements(x.proof.hashes))
    /\ x.set.by = RekorKey => \E i \in DOMAIN Log : x.set = SETOf(Log, i)
    /\ \A line \in C!Elements(x.proof.checkpoint.lines) :
         line.signature.by = RekorKey =>
           \E n \in 1 .. Len(Log) :
             line.signature = Signature(RekorKey, NoteText(n, RekorRoot(Log, n)))

\* Tokens carry certificates of whatever origin, but what a pinned root signed is what it
\* issued, and so it is with the certificate authorities below it.  Anybody may
\* issue certificates under a key of his own.
IssuingKeys == {c.key : c \in TSARoots \cup {d \in Certified : d.eku = "ca"}}
ASSUME CertifiedAssumption ==
  \A x \in Tokens :
    /\ x.token.certs \in Seq(C!Elements(x.token.certs))
    /\ \A c \in C!Elements(x.token.certs) : c.issuer \in IssuingKeys => c \in Certified

\* The timestamp authority are those that were certified for that.  What their keys signed
\* was signed for a token that was issued, in the form that they give their tokens;
\* the keys of others sign what they like.
Authority == {c \in Certified : c.eku = "time-stamping"}
TokenIssued(t) == LET signer == T!findSigner(t) IN
  /\ t.status # "rejected" /\ t.whole /\ t.signers = 1 /\ t.hash \in T!hashFor /\ t.fits
  /\ t.tst.algorithm = "sha256" /\ t.tst.time # 0
  /\ signer.name # "none" /\ signer \in Authority
  /\ t.attrs.types = {"TSTInfo"} /\ t.attrs.digests = {T!digestOf(t.tst)}
  /\ t.attrs.ess # {} /\ \A named \in t.attrs.ess : named # <<>> /\ named[1] = signer
  /\ t.signature = Signature(signer.key, t.attrs)
ASSUME TokensAssumption ==
  /\ \A x \in Tokens : x.token.signature.by \in {c.key : c \in Authority} =>
       \E t \in Issued : x.token.signature = t.signature
  /\ \A t \in Issued : TokenIssued(t)

VARIABLES
  item,     \* what is verified
  pc,       \* what is checked next; "log" while the services work
  walk,     \* the walk to a root, and the siblings left
  left,
  verdict   \* "none", "accepted" or "rejected"

checkVars == <<item, pc, walk, left, verdict>>
vars == <<logVars, checkVars>>

Nothing == [kind |-> "nothing"]
NoWalk == Walk(0, 1, NoHash)

Init ==
  /\ LogInit
  /\ item = Nothing /\ pc = "log" /\ walk = NoWalk /\ left = <<>> /\ verdict = "none"

(* The services work.                                                        *)

Work ==
  /\ pc = "log"
  /\ \/ \E conv \in Conversations : Record(conv)
     \/ Filler
     \/ \E sigKey, logKey \in {AuditKey, OtherKey} : PublishBy(sigKey, logKey)
  /\ UNCHANGED checkVars

(* Something is presented to be verified.                                    *)

Present(x, step) ==
  /\ item' = x /\ pc' = step
  /\ UNCHANGED <<logVars, walk, left, verdict>>

\* Neither depends on the audit log, so both are verified before it has a row.
PresentCertificate ==
  pc = "log" /\ hashes = <<>> /\ \E x \in Certificates, online \in BOOLEAN :
    /\ online => x \in Queried
    /\ Present([kind |-> "certificate", entry |-> x, key |-> WitnessKey, copy |-> NoAnswer,
                online |-> online], IF online THEN "online" ELSE "entry")
PresentToken ==
  pc = "log" /\ hashes = <<>> /\ \E t \in Tokens :
    Present([kind |-> "token", token |-> t.token, expected |-> t.expected], "token")

\* A root, its signature and its entry, of one publication or of several; the
\* artifact may be respelled or claim another size.  (An answer is about the entry
\* alone, so online only the entry is another's.)  What the rows are plays no
\* part, so this and the next are done before a row is counted.
PresentRoot ==
  pc = "log" /\ Counted = 0 /\ \E i, j, k \in DOMAIN publications, online \in BOOLEAN :
    \E a \in {publications[i].artifact, [publications[i].artifact EXCEPT !.canonical = FALSE],
              [publications[i].artifact EXCEPT !.size = @ + 1]} :
      /\ online => i = j /\ a = publications[i].artifact
      /\ Present([kind |-> "root", artifact |-> a, signature |-> publications[j].signature,
                  entry |-> publications[k].entry, key |-> AuditKey, copy |-> NoAnswer,
                  online |-> online], IF online THEN "online" ELSE "root")

\* A path whole, cut or too long by one sibling.
EditedPath(path, cut) ==
  CASE cut = "too long" -> Append(path, leafHash(hashes[1]))
    [] cut = "too short" /\ path # <<>> -> Front(path)
    [] OTHER -> path

\* The row of a leaf or of the one opposite, at any leaf, with the path of any leaf
\* under any root.
PresentRow ==
  pc = "log" /\ Counted = 0 /\ \E r, s \in {x \in C!Elements(publications) : x.anchored} :
    \E of \in 0 .. s.artifact.size - 1, cut \in {"too long", "whole", "too short"} :
      \E leaf \in 0 .. r.artifact.size, row \in {of + 1, s.artifact.size - of} :
        Present([kind |-> "row", leaf |-> leaf, hash |-> hashes[row],
                 path |-> EditedPath(AuditTreePath(LevelsOf(s.artifact.size), of), cut),
                 size |-> r.artifact.size, root |-> r.artifact.root], "row")

(* The verification.                                                         *)

goto(step) == pc' = step /\ UNCHANGED verdict
end(v) == pc' = "done" /\ verdict' = v

\* A check that rejects what does not pass it.
Check(step, passes, next) ==
  /\ pc = step
  /\ IF passes THEN goto(next) ELSE end("rejected")
  /\ UNCHANGED <<logVars, item, walk, left>>

\* The stored entry is what is verified, a legacy one with what the log added.
e == Filled(item.entry, item.copy)
p == item.entry.proof

\* HTTPRekorFetcher asks once, and any entry may come back.
Answers == {logBody(rekor, i, Len(rekor)) : i \in DOMAIN rekor} \cup Garbled \cup {NoAnswer}

ConfirmOnline ==
  /\ pc = "online"
  /\ \E fe \in Answers :
       /\ item' = [item EXCEPT !.copy = fe]
       /\ IF confirmOnline(item.entry, fe, item.key)
          THEN goto(IF item.kind = "root" THEN "root" ELSE "entry") ELSE end("rejected")
  /\ UNCHANGED <<logVars, walk, left>>

CheckToken ==
  /\ pc = "token"
  /\ end(IF T!VerifyTimestamp(item.token, item.expected) THEN "accepted" ELSE "rejected")
  /\ UNCHANGED <<logVars, item, walk, left>>

CheckRoot ==
  Check("root", /\ ParsesArtifact(item.artifact)
                /\ item.signature = Signature(AuditKey, RootDigest(item.artifact)), "entry")

CheckEntry == Check("entry", Stored(e) /\ e.index >= 0 /\ VerifySET(e), "proof")

\* The walk starts where the proof says the entry is.
StartWalk(step, passes, start, siblings) ==
  /\ pc = step
  /\ IF passes THEN walk' = start /\ left' = siblings /\ goto("walk")
     ELSE end("rejected") /\ UNCHANGED <<walk, left>>
  /\ UNCHANGED <<logVars, item>>

CheckProof ==
  StartWalk("proof", ReadsProof(p), Walk(p.index, p.size, leafHash(e.body)), p.hashes)

CheckRow ==
  StartWalk("row", item.leaf < item.size /\ Len(item.path) <= MaxAuditProofHashes,
            Walk(item.leaf, item.size, AuditLeafHash(item.hash)), item.path)

\* Above the root there is no sibling.
ClimbOne ==
  /\ pc = "walk" /\ left # <<>>
  /\ walk' = Climb(walk, Head(left)) /\ left' = Tail(left)
  /\ IF walk.sn = 0 THEN end("rejected") ELSE goto("walk")
  /\ UNCHANGED <<logVars, item>>

\* Mutant: a path that ends below the root is followed to where it ends.
EndWalk_Short ==
  /\ pc = "walk" /\ left = <<>>
  /\ IF item.kind = "row" THEN end(IF walk.r = item.root THEN "accepted" ELSE "rejected")
     ELSE IF walk.r = p.root /\ SignedRoot(p) THEN goto("body") ELSE end("rejected")
  /\ UNCHANGED <<logVars, item, walk, left>>

\* The walk led to the root that was signed, at a signed size.
EndWalk ==
  /\ pc = "walk" /\ left = <<>>
  /\ IF item.kind = "row" THEN end(IF Reached(walk) = item.root THEN "accepted" ELSE "rejected")
     ELSE IF Reached(walk) = p.root /\ SignedRoot(p) THEN goto("body") ELSE end("rejected")
  /\ UNCHANGED <<logVars, item, walk, left>>

\* The pinned key logged it; an audit root's entry logs that very root.
CheckBody ==
  /\ pc = "body"
  /\ end(IF /\ p.index <= e.index
            /\ verifyHashedRekordBody(e.body, item.key)
            /\ item.kind = "root" => e.body.digest = RootDigest(item.artifact)
         THEN "accepted" ELSE "rejected")
  /\ UNCHANGED <<logVars, item, walk, left>>

Next ==
  \/ Work
  \/ PresentCertificate \/ PresentToken \/ PresentRoot \/ PresentRow
  \/ ConfirmOnline
  \/ CheckToken \/ CheckRoot \/ CheckEntry \/ CheckProof \/ CheckRow
  \/ ClimbOne \/ EndWalk \/ CheckBody

Spec == Init /\ [][Next]_vars

(* What an accepted anchor shows.                                            *)

Accepted(kind) == verdict = "accepted" /\ item.kind = kind

\* rekor.go:88 (VerifyRekor): the log holds the statement where the proof says,
\* it signed this time and this index for it, and the pinned key made it, whatever
\* an online query was answered.  (Of a statement that was logged twice, the two may
\* be of different positions.)
CertificatesAreLogged ==
  Accepted("certificate") =>
    /\ p.size \in 1 .. Len(Log) /\ p.index + 1 \in 1 .. p.size
    /\ Log[p.index + 1] = e.body
    /\ \E i \in DOMAIN Log :
         Log[i] = e.body /\ e.time = i /\ e.index = Offset + i - 1 /\ p.index <= e.index
    /\ e.body.signature = Signature(WitnessKey, e.body.digest)

\* auditroot.go:122 (VerifyAuditRoot) and :85 (AuditInclusionRoot): a root that is
\* accepted is that of the audit log at its size, in the transparency log at the
\* position it claims; and a row that is accepted is the row of its leaf.
AuditLogIsWhatItSays ==
  /\ Accepted("root") =>
       /\ item.artifact.size \in 1 .. Len(hashes)
       /\ item.artifact.root = AuditRoot(item.artifact.size)
       /\ \E i \in DOMAIN rekor :
            /\ rekor[i] = rekorEntryBy(AuditKey, RootDigest(item.artifact))
            /\ e.time = i /\ e.index = Offset + i - 1 /\ p.index = i - 1
  /\ Accepted("row") => hashes[item.leaf + 1] = item.hash

\* The pinned roots vouch for the certificate, by a chain of those given that were all in
\* force then: its issuer is in every set of keys that has the roots' and with an issuer
\* also those that it certified as authorities.
Vouched(cert, at, given) ==
  /\ T!InForce(cert, at)
  /\ \A keys \in SUBSET IssuingKeys :
       /\ \A r \in TSARoots : T!InForce(r, at) => r.key \in keys
       /\ \A c \in given :
            c.eku = "ca" /\ T!InForce(c, at) /\ c.issuer \in keys => c.key \in keys
       => cert.issuer \in keys
Stamped(t, given) == LET cert == T!findSigner(t) IN
  cert \in Authority /\ Vouched(cert, t.tst.time, given) /\ t.tst.time <= Now + ClockSkew

\* tsa.go:180 (VerifyTimestamp): what is accepted the authority stamped, at that time and
\* under the certificate that the token names, for which a pinned root vouched then; no
\* token is accepted that anybody else made, under whatever certificate, and none of the
\* future.
TokensAreStamped ==
  Accepted("token") => \E t \in Issued :
    /\ t.tst = item.token.tst /\ t.tst.imprint = item.expected
    /\ T!findSigner(t) = T!findSigner(item.token) /\ Stamped(t, Certified)

\* Parts of one anchor, as they were stored, and the log's copy if it is asked for.
GenuineEntry(x) ==
  /\ item.online => \E i \in DOMAIN rekor :
       item.copy = logBody(rekor, i, Len(rekor)) /\ item.copy.index = x.index
  /\ \E n \in 1 .. Len(rekor), i \in 1 .. Len(rekor) :
       i <= n /\ x.index = Offset + i - 1 /\ x.proof.size = n /\ x = logBody(rekor, i, n)
GenuineItem ==
  \/ /\ item.kind = "certificate"
     /\ GenuineEntry(e) /\ verifyHashedRekordBody(e.body, WitnessKey)
  \/ /\ item.kind = "root" /\ GenuineEntry(e)
     /\ \E r \in C!Elements(publications) :
          /\ r.anchored /\ e = r.entry
          /\ item.artifact = r.artifact /\ item.signature = r.signature
  \/ /\ item.kind = "row"
     /\ item.leaf < item.size /\ item.hash = hashes[item.leaf + 1]
     /\ item.path = inclusionPath(item.leaf, [i \in 1 .. item.size |-> leafHash(hashes[i])])
  \/ /\ item.kind = "token"
     /\ item.token \in Issued /\ item.token.tst.imprint = item.expected
     /\ Stamped(item.token, Certified \cap C!Elements(item.token.certs))

\* The trees are built in two ways and checked in a third: at every size and
\* every leaf they agree, and no anchor as it was stored is refused, also by what
\* the log answers when it has grown since, or for an entry that lacks its body.
GenuineAnchorsVerify == pc = "done" /\ GenuineItem => verdict = "accepted"

\* audit.go:228 of bundletest (Evidence) against audit_verify.go: an export taken
\* at any moment, between any rows and roots, fails no check of the counter, and
\* each of its rows is included as soon as a root covers it.
Verifier == [auditKey |-> TRUE, online |-> FALSE, requireAnchors |-> FALSE]
ExportsPass ==
  pc = "log" => \A conv \in Conversations : LET a == Evidence(conv) IN
    /\ \A s \in C!newAuditVerifier(a, [conv |-> conv], Verifier) : s.status # "FAIL"
    /\ \A i \in DOMAIN a.events :
         C!inclusion(a, a.events[i], Verifier, conv).status =
           IF \E r \in Roots : Covers(r, a.events[i]) THEN "PASS" ELSE "SKIPPED"
==============================================================================
