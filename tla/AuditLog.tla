------------------------------- MODULE AuditLog -------------------------------
(***************************************************************************)
(* The services that anchor: the transparency log, and the audit service   *)
(* with its log of rows, its counter per conversation and its published    *)
(* roots, as go/internal/bundle/bundletest plays them (audit.go, world.go).*)
(* An export of a conversation (Evidence) may be taken at any moment.      *)
(***************************************************************************)
EXTENDS Rekor, FiniteSets

CONSTANTS
  Log,            \* what the transparency log holds before the first root
  Offset,         \* its shard's offset: global index = offset + tree index
  AuditKey, OtherKey,       \* the pinned dsa-audit key, and a key of no one known
  Conversations, Requests,  \* conversations; the request that row n would be of
  MaxRows, MaxCounted, MaxRoots   \* bounds of rows, counted rows and roots

ASSUME AuditLogAssumption ==
  /\ Log \in Seq({Log[i] : i \in DOMAIN Log})
  /\ Offset \in Nat
  /\ MaxRows \in Nat /\ MaxCounted \in Nat /\ MaxRoots \in Nat
  /\ ((MaxRows \div 65536) \div 65536) \div 65536 < 65536   \* sizes are of 64 bits
  /\ \A i, j \in 1 .. MaxRows : Requests[i] = Requests[j] => i = j   \* ids are used once

VARIABLES
  rekor,         \* the statements in the transparency log
  hashes,        \* the event hash of every row of the audit log, in order
  seqs,          \* the counter of each conversation
  rows,          \* the counted rows of each conversation
  publications   \* everything published as an audit root, by whatever keys

logVars == <<rekor, hashes, seqs, rows, publications>>

\* The checks that a bundle's audit folder meets, of which Evidence is one.
C == INSTANCE Counter WITH
       NoPath <- <<>>, NoRoot <- NoHash, NoDigest <- <<>>, ClockSkew <- 0

(* The transparency log.                                                     *)

LeavesOf(s) == [i \in DOMAIN s |-> leafHash(s[i])]

\* Statement i was logged at time i.
SETOf(log, i) == Signature(RekorKey, SETPayload(log[i], i, Offset + i - 1))

\* One tree over everything logged; bundletest plays a tree of its own per entry,
\* with other leaves around it.
RekorRoot(log, n) == mth(LeavesOf(SubSeq(log, 1, n)))
CheckpointOf(log, n) ==
  [size |-> n, root |-> RekorRoot(log, n),
   lines |-> <<[hint |-> RekorKey,
                signature |-> Signature(RekorKey, NoteText(n, RekorRoot(log, n)))]>>]

\* The entry of statement i, stored when the log held n.
logBody(log, i, n) ==
  [index |-> Offset + i - 1, time |-> i, body |-> log[i], set |-> SETOf(log, i),
   proof |-> [strict |-> TRUE, index |-> i - 1, size |-> n, root |-> RekorRoot(log, n),
              hashes |-> inclusionPath(i - 1, LeavesOf(SubSeq(log, 1, n))),
              checkpoint |-> CheckpointOf(log, n)]]

\* A public log accepts statements from anyone.
rekorEntryBy(key, digest) ==
  [kind |-> "hashedrekord/0.0.1", algorithm |-> "sha512", digest |-> digest,
   publicKey |-> key, signature |-> Signature(key, digest)]

(* The audit service.                                                        *)

Counted ==
  Cardinality(UNION {{<<c, i>> : i \in DOMAIN rows[c]} : c \in Conversations})

LogInit ==
  /\ rekor = Log
  /\ hashes = <<>> /\ publications = <<>>
  /\ seqs = [c \in Conversations |-> 0]
  /\ rows = [c \in Conversations |-> <<>>]

\* The row of a counted request: number n of its conversation, at this leaf.
CountedRow(conv, n, leaf) ==
  LET e == [seq |-> n, conv |-> conv, req |-> Requests[leaf + 1],
            type |-> "PROXY_INFERENCE_COMPLETED", root |-> 0, leaf |-> leaf, hash |-> NoHash]
  IN [e EXCEPT !.hash = C!EventHashV2(e)]

\* It gets the next number of its conversation, and the next leaf.
Record(conv) ==
  /\ Len(hashes) < MaxRows /\ Counted < MaxCounted
  /\ LET row == CountedRow(conv, seqs[conv] + 1, Len(hashes)) IN
     /\ seqs' = [seqs EXCEPT ![conv] = @ + 1]
     /\ hashes' = Append(hashes, row.hash)
     /\ rows' = [rows EXCEPT ![conv] = Append(@, row)]
  /\ UNCHANGED <<rekor, publications>>

\* Other traffic, and requests from before counting started.
Filler ==
  /\ Len(hashes) < MaxRows
  /\ hashes' = Append(hashes, <<"uncounted", Len(hashes)>>)
  /\ UNCHANGED <<rekor, seqs, rows, publications>>

LevelsOf(size) == AuditTreeLevels([i \in 1 .. size |-> AuditLeafHash(hashes[i])])
AuditRoot(size) == LET levels == LevelsOf(size) IN levels[Len(levels)][1]

\* The root of the rows so far is signed, and its digest is logged; the audit
\* service does both with its own key.
PublishBy(sigKey, logKey) ==
  /\ hashes # <<>> /\ Len(publications) < MaxRoots
  /\ LET size == Len(hashes)
         artifact == AuditRootArtifact(size, AuditRoot(size))
         log == Append(rekor, rekorEntryBy(logKey, RootDigest(artifact))) IN
     /\ rekor' = log
     /\ publications' = Append(publications,
          [id |-> Len(publications) + 1, anchored |-> sigKey = AuditKey /\ logKey = AuditKey,
           artifact |-> artifact, signature |-> Signature(sigKey, RootDigest(artifact)),
           entry |-> logBody(log, Len(log), Len(log))])
  /\ UNCHANGED <<hashes, seqs, rows>>

\* The roots under the right keys: an export has no others.
Roots == {r \in C!Elements(publications) : r.anchored}

(* An export.                                                                *)

\* Mutant: a root covers the row after its last one.
Covers_OneTooMany(r, e) == r.artifact.size >= e.leaf

Covers(r, e) == r.artifact.size > e.leaf

\* A row newer than the last root is left unanchored.
NoAuditRoot == [id |-> 0]
\* The first one that was published.  (Roots of one size cover the same rows, so no
\* export uses two of them, and the test for that decides nothing.)
EarliestRoot(e) ==
  LET covering == {r \in Roots : Covers(r, e)} IN
  IF covering = {} THEN NoAuditRoot
  ELSE CHOOSE r \in covering : \A s \in covering : r.id <= s.id

Used(conv) == {EarliestRoot(e) : e \in C!Elements(rows[conv])} \cap Roots

\* The proof of a row against a root that covers it.
ProofUnder(e, r) ==
  [seq |-> e.seq, leaf |-> e.leaf, size |-> r.artifact.size,
   path |-> AuditTreePath(LevelsOf(r.artifact.size), e.leaf)]

\* Counter keeps of a path what it shows, and of a root that it verifies.
Shown(e, p) ==
  [p EXCEPT !.path = [leaf |-> e.leaf, sizes |-> {p.size}, hash |-> e.hash,
                      root |-> AuditInclusionRoot(p.leaf, p.size, e.hash, @)]]
Listed(r) ==
  [id |-> r.id, size |-> r.artifact.size, root |-> r.artifact.root,
   signed |-> [size |-> r.artifact.size, root |-> r.artifact.root],
   genuine |-> TRUE, stored |-> TRUE, log |-> "confirms"]

\* Numbers in order: at each place the one with so many before it.
Sorted(S) ==
  [k \in 1 .. Cardinality(S) |->
     CHOOSE n \in S : Cardinality({m \in S : m < n}) = k - 1]

\* The folder of a conversation: its counted rows in order, each proven against
\* the earliest root that covers it, by number, and those roots, by size.
Evidence(conv) ==
  LET events == [i \in DOMAIN rows[conv] |->
                   [rows[conv][i] EXCEPT !.root = EarliestRoot(rows[conv][i]).id]]
      proven == Sorted({x.seq : x \in {y \in C!Elements(events) : C!Anchored(y)}})
      sizes == Sorted({r.artifact.size : r \in Used(conv)})
  IN [shape |-> TRUE, events |-> events,
      proofs |-> [i \in DOMAIN proven |->
                    LET x == rows[conv][proven[i]] IN Shown(x, ProofUnder(x, EarliestRoot(x)))],
      roots |-> [i \in DOMAIN sizes |->
                   Listed(CHOOSE r \in Used(conv) : r.artifact.size = sizes[i])]]
==============================================================================
