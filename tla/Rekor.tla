--------------------------------- MODULE Rekor ---------------------------------
(***************************************************************************)
(* What go/internal/anchor checks of a stored Rekor entry (rekor.go) and   *)
(* of a published audit root (auditroot.go), apart from the walk of the    *)
(* inclusion path, which is in Merkle.                                     *)
(*                                                                         *)
(* A signature is [by, over]: the key that made it and what it covers.     *)
(* An entry e as a bundle stores it is a record                            *)
(*   index    the log index; time: the integrated time, 0 for none         *)
(*   body     the logged statement, NoBody for none: [kind, algorithm,     *)
(*            digest, publicKey, signature]                                *)
(*   set      the signed entry timestamp                                   *)
(*   proof    the inclusion proof: [strict, index, size, root, hashes,     *)
(*            checkpoint]; strict: it is one JSON document of exactly the  *)
(*            known keys and types, and index, size and root are there     *)
(* and a checkpoint is [size, root, lines], its signature lines in order,  *)
(* each [hint, signature]; without lines there is no signed checkpoint.    *)
(* A published root r is [artifact, signature, entry], and an artifact is  *)
(* [canonical, size, root]: in the one spelling that is accepted, or not.  *)
(***************************************************************************)
EXTENDS Integers, Merkle

CONSTANT RekorKey     \* the pinned key of the log

Signature(key, x) == [by |-> key, over |-> x]
NoBody == [kind |-> "none"]
Malformed == <<"malformed">>   \* not 32 hex bytes

(* What the log signs.                                                       *)

SETPayload(body, time, index) ==
  [body |-> body, time |-> time, log |-> RekorKey, index |-> index]
NoteText(size, root) == [size |-> size, root |-> root]

(* An entry.                                                                 *)

Stored(e) == e.body # NoBody /\ e.time # 0

\* Mutant: the time is not part of what the log signed.
VerifySET_NoTime(e) ==
  /\ e.set.by = RekorKey
  /\ e.set.over.body = e.body /\ e.set.over.log = RekorKey /\ e.set.over.index = e.index

VerifySET(e) == e.set = Signature(RekorKey, SETPayload(e.body, e.time, e.index))

\* The proof is one strict document with an index in its tree and whole hashes.
ReadsProof(p) ==
  /\ p.strict
  /\ p.size > 0 /\ p.index \in 0 .. p.size - 1
  /\ p.root # Malformed
  /\ \A i \in DOMAIN p.hashes : p.hashes[i] # Malformed

\* Of the lines that carry our key's hint, the first decides.
VerifyCheckpoint(cp) ==
  \E i \in DOMAIN cp.lines :
    /\ cp.lines[i].hint = RekorKey
    /\ \A j \in 1 .. i - 1 : cp.lines[j].hint # RekorKey
    /\ cp.lines[i].signature = Signature(RekorKey, NoteText(cp.size, cp.root))

\* The root is one that the log signed, for a tree of this size.
SignedRoot(p) ==
  VerifyCheckpoint(p.checkpoint) /\ p.checkpoint.size = p.size /\ p.checkpoint.root = p.root

\* The pinned key itself logged this digest.
verifyHashedRekordBody(b, key) ==
  /\ b.kind = "hashedrekord/0.0.1" /\ b.algorithm = "sha512"
  /\ b.publicKey = key
  /\ b.signature = Signature(key, b.digest)

\* An entry as a whole; Anchors takes it one check at a time.
VerifyRekorBy(e, key) ==
  /\ Stored(e) /\ e.index >= 0 /\ VerifySET(e)
  /\ ReadsProof(e.proof)
  /\ rootFromInclusionProof(e.proof.index, e.proof.size, leafHash(e.body), e.proof.hashes)
       = e.proof.root
  /\ SignedRoot(e.proof)
  /\ e.proof.index <= e.index /\ verifyHashedRekordBody(e.body, key)

(* The log's current copy of an entry (--online), fe, or NoAnswer: no response, *)
(* one that is not 200, or not one entry that decodes.                       *)

NoAnswer == [index |-> -1]

\* The copy verifies by itself and agrees with what was stored.
confirmOnline(stored, fe, key) ==
  /\ fe # NoAnswer /\ fe.index = stored.index
  /\ stored.body \in {NoBody, fe.body} /\ stored.time \in {0, fe.time}
  /\ VerifyRekorBy(fe, key)

\* A legacy entry gets from it what it never stored, and nothing else.
Filled(stored, fe) ==
  IF fe = NoAnswer THEN stored
  ELSE [stored EXCEPT !.body = IF @ = NoBody THEN fe.body ELSE @,
                      !.time = IF @ = 0 THEN fe.time ELSE @]

(* An audit root.                                                            *)

AuditRootArtifact(size, root) == [canonical |-> TRUE, size |-> size, root |-> root]
ParsesArtifact(a) == a.canonical /\ a.size > 0 /\ a.root # Malformed

\* SHA-512 of the artifact, which is what is signed and logged.
RootDigest(a) == <<"sha512", "root", a>>

MaxAuditProofHashes == 64

AuditLeafHash(eventHash) == leafHash(eventHash)

\* The root that a row and its path imply, at this leaf of a tree of this size.
AuditInclusionRoot(leaf, size, eventHash, path) ==
  IF \/ size = 0 \/ leaf >= size \/ Len(path) > MaxAuditProofHashes
     \/ \E i \in DOMAIN path : path[i] = Malformed
  THEN NoHash
  ELSE rootFromInclusionProof(leaf, size, AuditLeafHash(eventHash), path)
==============================================================================
