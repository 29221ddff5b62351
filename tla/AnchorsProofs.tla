----------------------------- MODULE AnchorsProofs -----------------------------
(***************************************************************************)
(* Proofs about Anchors, for logs of any length and any entries and tokens *)
(* in which the keys of the log and of the timestamp authority signed only *)
(* what these issued.  That a path leads only its own statement            *)
(* to the root follows from walking beside it along the log's own path:    *)
(* the two walks are at the same node at every step, so two hashes that    *)
(* differ at one of them differ at the root.  For the audit log that walk  *)
(* is found in the tree that it builds level by level (TreeWalks).         *)
(***************************************************************************)
EXTENDS Anchors, MerkleProofs, SequenceTheorems, FiniteSetTheorems

(* The transparency log.                                                     *)

\* The path of statement i when the log held n, and the walk along it.
OwnPath(i, n) == inclusionPath(i - 1, LeavesOf(SubSeq(Log, 1, n)))
OwnWalk(i, n) == Climbs(Walk(i - 1, n, leafHash(Log[i])), OwnPath(i, n))

\* What the log held is the leaves of a tree.
LEMMA LoggedLeaves ==
  ASSUME NEW log, NEW S, log \in Seq(S), NEW n \in 1 .. Len(log)
  PROVE  LET leaves == LeavesOf(SubSeq(log, 1, n)) IN
         IsLevel(leaves, n) /\ \A i \in 1 .. n : leaves[i] = leafHash(log[i])
<1> DEFINE held == SubSeq(log, 1, n)
           leaves == LeavesOf(held)
<1>1. /\ Len(log) \in Nat /\ n \in Nat \ {0}
      /\ held \in Seq(S) /\ Len(held) = n /\ \A i \in 1 .. n : held[i] = log[i]
  OBVIOUS
<1>2. DOMAIN held = 1 .. n
  BY <1>1
<1>3. leaves = [i \in 1 .. n |-> leafHash(held[i])]
  BY <1>2 DEF LeavesOf
<1> HIDE DEF held, leaves
<1>4. /\ \A i \in 1 .. n : leaves[i] = leafHash(log[i])
      /\ leaves = [i \in 1 .. n |-> leaves[i]]
  BY <1>1, <1>3
<1>5. Len(leaves) = n
  BY <1>1, <1>3
<1>6. QED
  BY <1>1, <1>4, <1>5 DEF IsLevel, held, leaves

\* The log's own paths lead to its roots.
LEMMA OwnPathsLead ==
  ASSUME NEW n \in 1 .. Len(Log), NEW i \in 1 .. n
  PROVE  /\ Len(OwnPath(i, n)) \in Nat
         /\ OwnWalk(i, n)[0] = Walk(i - 1, n, leafHash(Log[i]))
         /\ \A k \in 1 .. Len(OwnPath(i, n)) :
              /\ OwnWalk(i, n)[k - 1].sn # 0
              /\ OwnWalk(i, n)[k] = Climb(OwnWalk(i, n)[k - 1], OwnPath(i, n)[k])
         /\ OwnWalk(i, n)[Len(OwnPath(i, n))].sn = 0
         /\ OwnWalk(i, n)[Len(OwnPath(i, n))].r = RekorRoot(Log, n)
<1> DEFINE leaves == LeavesOf(SubSeq(Log, 1, n))
           path == OwnPath(i, n)
           start == Walk(i - 1, n, leafHash(Log[i]))
           W == Climbs(start, path)
<1>1. IsLevel(leaves, n) /\ leaves[i] = leafHash(Log[i])
  BY LoggedLeaves, AuditLogAssumption
<1>2. i - 1 \in 0 .. n - 1 /\ i - 1 + 1 = i
  OBVIOUS
<1>3. start = Walk(i - 1, n, leaves[i - 1 + 1])
  BY <1>1, <1>2
<1>4. path = inclusionPath(i - 1, leaves) /\ RekorRoot(Log, n) = mth(leaves)
  BY DEF OwnPath, RekorRoot
<1> HIDE DEF leaves, path, start
<1>5. /\ IsPath(path)
      /\ \A j \in 0 .. Len(path) - 1 : W[j].sn # 0
      /\ W[Len(path)].sn = 0 /\ W[Len(path)].r = mth(leaves)
  <2>1. PICK j \in 0 .. n - 1 : j = i - 1
    BY <1>2
  <2>2. QED
    BY <1>1, <1>3, <1>4, <2>1, TreesMeet
<1>6. Len(path) \in Nat
  BY <1>5 DEF IsPath
<1>7. W[0] = start /\ \A k \in 1 .. Len(path) : W[k] = Climb(W[k - 1], path[k])
  BY <1>6, ClimbsSteps
<1>8. W = OwnWalk(i, n)
  BY DEF OwnWalk, path, start
<1> HIDE DEF W
<1>9. \A k \in 1 .. Len(path) : k - 1 \in 0 .. Len(path) - 1
  BY <1>6
<1>10. QED
  BY <1>4, <1>5, <1>6, <1>7, <1>8, <1>9 DEF path, start

\* The same, by the index in the tree.
LEMMA OwnWalks ==
  ASSUME NEW n \in 1 .. Len(Log), NEW index \in Int, index + 1 \in 1 .. n
  PROVE  /\ Len(OwnPath(index + 1, n)) \in Nat
         /\ OwnWalk(index + 1, n)[0] = Walk(index, n, leafHash(Log[index + 1]))
         /\ \A k \in 1 .. Len(OwnPath(index + 1, n)) :
              /\ OwnWalk(index + 1, n)[k - 1].sn # 0
              /\ OwnWalk(index + 1, n)[k] =
                   Climb(OwnWalk(index + 1, n)[k - 1], OwnPath(index + 1, n)[k])
         /\ OwnWalk(index + 1, n)[Len(OwnPath(index + 1, n))].sn = 0
         /\ OwnWalk(index + 1, n)[Len(OwnPath(index + 1, n))].r = RekorRoot(Log, n)
<1>1. index + 1 - 1 = index
  OBVIOUS
<1>2. PICK i \in 1 .. n : i = index + 1
  OBVIOUS
<1>3. i - 1 = index
  BY <1>1, <1>2
<1>4. QED
  BY <1>2, <1>3, OwnPathsLead

\* A root is never the hash that stands for none.
LEMMA RootsAreHashes ==
  ASSUME NEW n \in 1 .. Len(Log), NEW i \in 1 .. n
  PROVE  RekorRoot(Log, n) # NoHash
<1> DEFINE path == OwnPath(i, n)
           W == OwnWalk(i, n)
<1>1. /\ Len(path) \in Nat
      /\ W[0] = Walk(i - 1, n, leafHash(Log[i]))
      /\ \A k \in 1 .. Len(path) : W[k - 1].sn # 0 /\ W[k] = Climb(W[k - 1], path[k])
      /\ W[Len(path)].r = RekorRoot(Log, n)
  BY OwnPathsLead
<1> HIDE DEF path, W
<1>2. CASE Len(path) = 0
  BY <1>1, <1>2 DEF Walk, leafHash, NoHash
<1>3. CASE Len(path) # 0
  <2>1. Len(path) \in 1 .. Len(path)
    BY <1>1, <1>3
  <2>2. PICK last : last = W[Len(path) - 1] /\ last.sn # 0
                    /\ W[Len(path)] = Climb(last, path[Len(path)])
    BY <1>1, <2>1
  <2>3. W[Len(path)].r \in {nodeHash(path[Len(path)], last.r), nodeHash(last.r, path[Len(path)])}
    BY <2>2 DEF Climb
  <2>4. QED
    BY <1>1, <2>3 DEF nodeHash, NoHash
<1>4. QED
  BY <1>2, <1>3

(* What is known of a certificate's entry while it is verified.              *)

SETChecked == Stored(e) /\ VerifySET(e)

\* Beside the log's own walk to the root of that size, at the same node.
OnTrack ==
  \E k \in 0 .. Len(OwnPath(p.index + 1, p.size)) :
    LET own == OwnWalk(p.index + 1, p.size)[k] IN
    /\ walk.fn = own.fn /\ walk.sn = own.sn
    /\ e.body # Log[p.index + 1] => walk.r # own.r

\* The root was signed, and if the log is what signed it, it holds the statement.
Led ==
  /\ SignedRoot(p)
  /\ p.size \in 1 .. Len(Log) /\ p.root = RekorRoot(Log, p.size) =>
       e.body = Log[p.index + 1]

CertificateInv ==
  /\ pc # "done" => verdict = "none"
  /\ item.kind = "certificate" =>
       /\ item.entry \in Certificates /\ item.key = WitnessKey
       /\ pc \in {"online", "entry", "proof", "walk", "body", "done"}
       /\ pc \in {"proof", "walk", "body"} \/ verdict = "accepted" => SETChecked
       /\ pc \in {"walk", "body"} \/ verdict = "accepted" => ReadsProof(p)
       /\ pc = "walk" /\ p.size \in 1 .. Len(Log) => OnTrack
       /\ pc = "body" \/ verdict = "accepted" => Led
       /\ verdict = "accepted" =>
            p.index <= e.index /\ verifyHashedRekordBody(e.body, WitnessKey)

LEMMA InitInv == ASSUME Init PROVE CertificateInv
BY DEF Init, CertificateInv, Nothing

\* The services work, or something is presented.
LEMMA PresentInv ==
  ASSUME CertificateInv,
         Work \/ PresentCertificate \/ PresentToken \/ PresentRoot \/ PresentRow
  PROVE  CertificateInv'
<1>1. CASE Work
  BY <1>1 DEF Work, checkVars, CertificateInv, SETChecked, OnTrack, Led, e, p
<1>2. CASE PresentCertificate
  BY <1>2 DEF PresentCertificate, Present, CertificateInv, e, p
<1>3. CASE PresentToken \/ PresentRoot \/ PresentRow
  <2>1. item'.kind # "certificate" /\ verdict' = "none"
    <3>1. pc = "log" /\ verdict' = verdict /\ verdict = "none"
      BY <1>3 DEF PresentToken, PresentRoot, PresentRow, Present, CertificateInv
    <3>2. CASE PresentToken
      BY <3>1, <3>2 DEF PresentToken, Present
    <3>3. CASE PresentRoot
      BY <3>1, <3>3 DEF PresentRoot, Present
    <3>4. CASE PresentRow
      <4>1. PICK leaf, hash, path, size, root :
              Present([kind |-> "row", leaf |-> leaf, hash |-> hash, path |-> path,
                       size |-> size, root |-> root], "row")
        BY <3>4, Zenon DEF PresentRow
      <4>2. QED
        BY <3>1, <4>1 DEF Present
    <3>5. QED
      BY <1>3, <3>1, <3>2, <3>3, <3>4
  <2>2. QED
    BY <2>1 DEF CertificateInv
<1>4. QED
  BY <1>1, <1>2, <1>3

\* The checks of other kinds of anchors.
LEMMA OtherKindsInv ==
  ASSUME CertificateInv, CheckToken \/ CheckRoot \/ CheckRow
  PROVE  CertificateInv'
<1>1. item.kind # "certificate" /\ item' = item
  BY DEF CertificateInv, CheckToken, CheckRoot, CheckRow, Check, StartWalk
<1>2. pc' # "done" => verdict' = "none"
  BY DEF CertificateInv, CheckToken, CheckRoot, CheckRow, Check, StartWalk, goto, end
<1>3. QED
  BY <1>1, <1>2 DEF CertificateInv

\* Whatever the log answers, the stored entry is what is verified next.
LEMMA ConfirmOnlineInv == ASSUME CertificateInv, ConfirmOnline PROVE CertificateInv'
<1>1. PICK fe \in Answers :
        /\ item' = [item EXCEPT !.copy = fe]
        /\ pc = "online" /\ pc' \in {"root", "entry", "done"}
        /\ item.kind # "root" => pc' \in {"entry", "done"}
        /\ pc' # "done" => verdict' = verdict
        /\ pc' = "done" => verdict' = "rejected"
  BY DEF ConfirmOnline, goto, end
<1>2. item'.kind = item.kind /\ item'.entry = item.entry /\ item'.key = item.key
  BY <1>1
<1>3. QED
  BY <1>1, <1>2 DEF CertificateInv

LEMMA CheckEntryInv == ASSUME CertificateInv, CheckEntry PROVE CertificateInv'
BY DEF CertificateInv, CheckEntry, Check, goto, end, SETChecked, e, p

\* The walk starts at the leaf, beside that of the log.
LEMMA CheckProofInv == ASSUME CertificateInv, CheckProof PROVE CertificateInv'
<1>1. item' = item /\ pc = "proof" /\ pc' \in {"walk", "done"}
  BY DEF CheckProof, StartWalk, goto, end
<1>2. CASE ~ReadsProof(p)
  BY <1>1, <1>2 DEF CertificateInv, CheckProof, StartWalk, end, SETChecked, e, p
<1>3. CASE ReadsProof(p)
  <2>1. walk' = Walk(p.index, p.size, leafHash(e.body)) /\ pc' = "walk" /\ verdict' = "none"
    BY <1>3, <1>1 DEF CertificateInv, CheckProof, StartWalk, goto
  <2>2. ASSUME item.kind = "certificate", p.size \in 1 .. Len(Log) PROVE OnTrack'
    <3>1. p.index \in Int /\ p.index + 1 \in 1 .. p.size
      BY <1>3, <2>2, EntriesAssumption DEF ReadsProof, CertificateInv, p, e
    <3>2. /\ Len(OwnPath(p.index + 1, p.size)) \in Nat
          /\ OwnWalk(p.index + 1, p.size)[0] = Walk(p.index, p.size, leafHash(Log[p.index + 1]))
      BY <2>2, <3>1, OwnWalks
    <3>3. /\ walk'.fn = OwnWalk(p.index + 1, p.size)[0].fn
          /\ walk'.sn = OwnWalk(p.index + 1, p.size)[0].sn
          /\ e.body # Log[p.index + 1] => walk'.r # OwnWalk(p.index + 1, p.size)[0].r
      BY <2>1, <3>2 DEF Walk, leafHash
    <3>4. 0 \in 0 .. Len(OwnPath(p.index + 1, p.size))
      BY <3>2
    <3>5. QED
      BY <1>1, <3>3, <3>4 DEF OnTrack, e, p
  <2>3. QED
    BY <1>1, <1>3, <2>1, <2>2 DEF CertificateInv, SETChecked, e, p
<1>4. QED
  BY <1>2, <1>3

\* One sibling further the two walks are at the same node again.
LEMMA ClimbOneInv == ASSUME CertificateInv, ClimbOne PROVE CertificateInv'
<1>1. /\ item' = item /\ pc = "walk" /\ walk' = Climb(walk, Head(left))
      /\ walk.sn = 0 => pc' = "done" /\ verdict' = "rejected"
      /\ walk.sn # 0 => pc' = "walk" /\ verdict' = verdict
  BY DEF ClimbOne, goto, end
<1>2. ASSUME item.kind = "certificate", p.size \in 1 .. Len(Log), walk.sn # 0 PROVE OnTrack'
  <2> DEFINE path == OwnPath(p.index + 1, p.size)
             W == OwnWalk(p.index + 1, p.size)
  <2>1. p.index \in Int /\ p.index + 1 \in 1 .. p.size
    BY <1>1, <1>2, EntriesAssumption DEF CertificateInv, ReadsProof, e, p
  <2>2. /\ Len(path) \in Nat /\ W[Len(path)].sn = 0
        /\ \A k \in 1 .. Len(path) : W[k] = Climb(W[k - 1], path[k])
    BY <1>2, <2>1, OwnWalks
  <2>3. PICK k \in 0 .. Len(path) :
          /\ walk.fn = W[k].fn /\ walk.sn = W[k].sn
          /\ e.body # Log[p.index + 1] => walk.r # W[k].r
    BY <1>1, <1>2 DEF CertificateInv, OnTrack
  <2> HIDE DEF path, W
  <2>4. k + 1 \in 1 .. Len(path) /\ W[k + 1] = Climb(W[k], path[k + 1])
    <3>1. k \in Nat /\ k + 1 \in 1 .. Len(path) /\ k + 1 - 1 = k
      BY <1>2, <2>2, <2>3
    <3>2. W[k + 1] = Climb(W[k + 1 - 1], path[k + 1])
      BY <3>1, <2>2
    <3>3. QED
      BY <3>1, <3>2
  <2>5. /\ walk'.fn = W[k + 1].fn /\ walk'.sn = W[k + 1].sn
        /\ walk.r # W[k].r => walk'.r # W[k + 1].r
    <3>1. W[k].sn # 0
      BY <1>2, <2>3
    <3>2. QED
      BY <1>1, <2>3, <2>4, <3>1, ClimbsAlike
  <2>6. k + 1 \in 0 .. Len(path)
    BY <2>2, <2>4
  <2> USE DEF path, W
  <2>7. QED
    BY <1>1, <2>3, <2>5, <2>6 DEF OnTrack, e, p
<1>3. CASE walk.sn = 0
  BY <1>1, <1>3 DEF CertificateInv, SETChecked, e, p
<1>4. CASE walk.sn # 0
  BY <1>1, <1>2, <1>4 DEF CertificateInv, SETChecked, e, p
<1>5. QED
  BY <1>3, <1>4

\* At the log's root the two walks have one hash, so they had one statement.
LEMMA EndWalkInv == ASSUME CertificateInv, EndWalk PROVE CertificateInv'
<1>1. /\ item' = item /\ pc = "walk" /\ pc' \in {"body", "done"}
      /\ pc' = "body" => verdict' = verdict
      /\ item.kind # "row" => /\ pc' = "body" => Reached(walk) = p.root /\ SignedRoot(p)
                              /\ pc' = "done" => verdict' = "rejected"
  BY DEF EndWalk, goto, end
<1>2. ASSUME item.kind = "certificate", pc' = "body" PROVE Led
  <2>1. Reached(walk) = p.root /\ SignedRoot(p)
    BY <1>1, <1>2
  <2>2. ASSUME p.size \in 1 .. Len(Log), p.root = RekorRoot(Log, p.size)
        PROVE  e.body = Log[p.index + 1]
    <3> DEFINE path == OwnPath(p.index + 1, p.size)
               W == OwnWalk(p.index + 1, p.size)
    <3>1. p.index \in Int /\ p.index + 1 \in 1 .. p.size
      BY <1>1, <1>2, EntriesAssumption DEF CertificateInv, ReadsProof, e, p
    <3>2. /\ Len(path) \in Nat /\ W[Len(path)].r = RekorRoot(Log, p.size)
          /\ \A k \in 1 .. Len(path) : W[k - 1].sn # 0
      BY <2>2, <3>1, OwnWalks
    <3>3. RekorRoot(Log, p.size) # NoHash
      BY <2>2, <3>1, RootsAreHashes
    <3>4. walk.sn = 0 /\ walk.r = RekorRoot(Log, p.size)
      BY <2>1, <2>2, <3>3 DEF Reached
    <3>5. PICK k \in 0 .. Len(path) :
            walk.sn = W[k].sn /\ (e.body # Log[p.index + 1] => walk.r # W[k].r)
      BY <1>1, <1>2, <2>2 DEF CertificateInv, OnTrack
    <3> HIDE DEF path, W
    <3>6. k = Len(path)
      <4>1. SUFFICES ASSUME k # Len(path) PROVE FALSE
        OBVIOUS
      <4>2. k + 1 \in 1 .. Len(path) /\ k + 1 - 1 = k
        BY <3>2, <4>1
      <4>3. W[k].sn # 0
        BY <3>2, <4>2
      <4>4. QED
        BY <3>4, <3>5, <4>3
    <3>7. QED
      BY <3>2, <3>4, <3>5, <3>6
  <2>3. QED
    BY <2>1, <2>2 DEF Led
<1>3. QED
  BY <1>1, <1>2 DEF CertificateInv, SETChecked, Led, e, p

LEMMA CheckBodyInv == ASSUME CertificateInv, CheckBody PROVE CertificateInv'
BY DEF CertificateInv, CheckBody, end, SETChecked, Led, e, p

(* What is proved.                                                           *)

\* The checks that an entry has passed, and that its walk is beside the log's own.
THEOREM Walked == Spec => []CertificateInv
<1>1. CertificateInv /\ [Next]_vars => CertificateInv'
  <2>1. SUFFICES ASSUME CertificateInv, [Next]_vars PROVE CertificateInv'
    OBVIOUS
  <2>2. CASE Work \/ PresentCertificate \/ PresentToken \/ PresentRoot \/ PresentRow
    BY <2>1, <2>2, PresentInv
  <2>3. CASE CheckToken \/ CheckRoot \/ CheckRow
    BY <2>1, <2>3, OtherKindsInv
  <2>4. CASE UNCHANGED vars
    BY <2>1, <2>4 DEF vars, checkVars, CertificateInv, SETChecked, OnTrack, Led, e, p
  <2>5. QED
    BY <2>1, <2>2, <2>3, <2>4, ConfirmOnlineInv, CheckEntryInv, CheckProofInv, ClimbOneInv,
       EndWalkInv, CheckBodyInv DEF Next
<1>2. QED
  BY InitInv, <1>1, PTL DEF Spec

\* A certificate's entry that is accepted is in the log: CertificatesAreLogged.
THEOREM AcceptedIsLogged == Spec => []CertificatesAreLogged
<1>1. ASSUME CertificateInv, Accepted("certificate")
      PROVE  /\ p.size \in 1 .. Len(Log) /\ p.index + 1 \in 1 .. p.size
             /\ Log[p.index + 1] = e.body
             /\ \E i \in DOMAIN Log :
                  Log[i] = e.body /\ e.time = i /\ e.index = Offset + i - 1 /\ p.index <= e.index
             /\ e.body.signature = Signature(WitnessKey, e.body.digest)
  <2>1. /\ item.entry \in Certificates /\ SETChecked /\ ReadsProof(p) /\ Led
        /\ p.index <= e.index /\ verifyHashedRekordBody(e.body, WitnessKey)
    BY <1>1 DEF CertificateInv, Accepted
  <2>2. PICK i \in DOMAIN Log : e.set = SETOf(Log, i)
    <3>1. item.entry.set = e.set /\ e.set.by = RekorKey
      BY <2>1 DEF SETChecked, VerifySET, Signature, e, Filled
    <3>2. QED
      BY <2>1, <3>1, EntriesAssumption
  <2>3. Log[i] = e.body /\ e.time = i /\ e.index = Offset + i - 1
    <3>1. SETPayload(e.body, e.time, e.index) = SETPayload(Log[i], i, Offset + i - 1)
      BY <2>1, <2>2 DEF SETChecked, VerifySET, SETOf, Signature
    <3>2. QED
      BY <3>1 DEF SETPayload
  <2>4. PICK line \in C!Elements(p.checkpoint.lines) :
          line.signature = Signature(RekorKey, NoteText(p.checkpoint.size, p.checkpoint.root))
    BY <2>1 DEF Led, SignedRoot, VerifyCheckpoint, C!Elements
  <2>5. PICK n \in 1 .. Len(Log) : line.signature = Signature(RekorKey, NoteText(n, RekorRoot(Log, n)))
    BY <2>1, <2>4, EntriesAssumption DEF Signature, p, e
  <2>6. p.checkpoint.size = n /\ p.checkpoint.root = RekorRoot(Log, n)
    <3>1. NoteText(p.checkpoint.size, p.checkpoint.root) = NoteText(n, RekorRoot(Log, n))
      BY <2>4, <2>5 DEF Signature
    <3>2. QED
      BY <3>1 DEF NoteText
  <2>7. p.size \in 1 .. Len(Log) /\ p.root = RekorRoot(Log, p.size)
    BY <2>1, <2>6 DEF Led, SignedRoot
  <2>8. p.index + 1 \in 1 .. p.size
    BY <2>1, <2>7, EntriesAssumption DEF ReadsProof, p, e
  <2>9. QED
    BY <2>1, <2>3, <2>7, <2>8 DEF Led, verifyHashedRekordBody
<1>2. CertificateInv => CertificatesAreLogged
  BY <1>1 DEF CertificatesAreLogged
<1>3. QED
  BY Walked, <1>2, PTL

(* Timestamp tokens.                                                         *)

TokenInv ==
  /\ pc \in {"log", "online", "token", "root", "row", "entry", "proof", "walk", "body"} => verdict = "none"
  /\ item.kind = "token" =>
       /\ pc \in {"token", "done"}
       /\ \E x \in Tokens : item.token = x.token /\ item.expected = x.expected
       /\ verdict = "accepted" => T!VerifyTimestamp(item.token, item.expected)

THEOREM Stamps == Spec => []TokenInv
<1>1. Init => TokenInv
  BY DEF Init, Nothing, TokenInv
<1>2. TokenInv /\ [Next]_vars => TokenInv'
  <2>1. SUFFICES ASSUME TokenInv, [Next]_vars PROVE TokenInv'
    OBVIOUS
  <2>2. CASE Work \/ UNCHANGED vars
    BY <2>1, <2>2 DEF Work, vars, checkVars, TokenInv
  <2>3. CASE PresentToken
    BY <2>1, <2>3 DEF PresentToken, Present, TokenInv
  <2>4. CASE PresentCertificate \/ PresentRoot \/ PresentRow
    <3>1. pc = "log" /\ verdict' = verdict /\ verdict = "none"
      BY <2>1, <2>4 DEF PresentCertificate, PresentRoot, PresentRow, Present, TokenInv
    <3>2. CASE PresentCertificate
      BY <3>1, <3>2 DEF PresentCertificate, Present, TokenInv
    <3>3. CASE PresentRoot
      BY <3>1, <3>3 DEF PresentRoot, Present, TokenInv
    <3>4. CASE PresentRow
      <4>1. PICK leaf, hash, path, size, root :
              Present([kind |-> "row", leaf |-> leaf, hash |-> hash, path |-> path,
                       size |-> size, root |-> root], "row")
        BY <3>4, Zenon DEF PresentRow
      <4>2. QED
        BY <3>1, <4>1 DEF Present, TokenInv
    <3>5. QED
      BY <2>4, <3>2, <3>3, <3>4
  <2>5. CASE CheckToken
    BY <2>1, <2>5 DEF CheckToken, end, TokenInv
  <2>6. CASE CheckRoot \/ CheckEntry \/ CheckProof \/ CheckRow \/ ClimbOne \/ EndWalk \/ CheckBody
    <3>1. item.kind # "token" /\ item' = item
      BY <2>1, <2>6 DEF CheckRoot, CheckEntry, Check, CheckProof, CheckRow, StartWalk, ClimbOne,
                        EndWalk, CheckBody, TokenInv
    <3>2. pc' \in {"entry", "proof", "walk", "body"} => verdict' = "none"
      BY <2>1, <2>6 DEF CheckRoot, CheckEntry, Check, CheckProof, CheckRow, StartWalk, ClimbOne,
                        EndWalk, CheckBody, TokenInv, goto, end
    <3>3. pc' \in {"entry", "proof", "walk", "body", "done"}
      BY <2>6 DEF CheckRoot, CheckEntry, Check, CheckProof, CheckRow, StartWalk, ClimbOne,
                  EndWalk, CheckBody, goto, end
    <3>4. QED
      BY <3>1, <3>2, <3>3 DEF TokenInv
  <2>7. CASE ConfirmOnline
    <3>1. PICK fe \in Answers : item' = [item EXCEPT !.copy = fe] /\ pc = "online"
      BY <2>7 DEF ConfirmOnline
    <3>2. item.kind # "token" /\ item'.kind = item.kind
      BY <2>1, <3>1 DEF TokenInv
    <3>3. pc' # "done" => verdict' = "none"
      BY <2>1, <2>7, <3>1 DEF ConfirmOnline, goto, end, TokenInv
    <3>4. pc' \in {"root", "entry", "done"}
      BY <2>7 DEF ConfirmOnline, goto, end
    <3>5. QED
      BY <3>2, <3>3, <3>4 DEF TokenInv
  <2>8. QED
    BY <2>1, <2>2, <2>3, <2>4, <2>5, <2>6, <2>7 DEF Next
<1>3. QED
  BY <1>1, <1>2, PTL DEF Spec

\* A signer is one of the certificates of its token.
LEMMA SignersAreCarried ==
  ASSUME NEW t, t.certs \in Seq(C!Elements(t.certs)), T!findSigner(t).name # "none"
  PROVE  T!findSigner(t) \in C!Elements(t.certs)
<1> DEFINE named == {i \in DOMAIN t.certs : t.certs[i].name = t.sid}
<1>1. named # {}
  BY Zenon DEF T!findSigner
<1>2. named \in SUBSET Nat
  OBVIOUS
<1>3. PICK i \in named : \A j \in named : i <= j
  BY <1>1, <1>2, Smallest
<1>4. T!Min(named) \in named
  BY <1>3 DEF T!Min
<1>5. T!findSigner(t) = t.certs[T!Min(named)]
  BY <1>1, Zenon DEF T!findSigner
<1>6. QED
  BY <1>4, <1>5 DEF C!Elements

\* A chain of a token is one of certificates that the pinned roots and the authorities
\* below them issued: a set of keys that no such certificate leads out of has the
\* issuer of what chains, and so has its part that the token speaks of.
LEMMA ChainsAreCertified ==
  ASSUME NEW x \in Tokens, NEW c \in C!Elements(x.token.certs), NEW at,
         T!ChainsAt(x.token, c, at)
  PROVE  c \in Certified /\ Vouched(c, at, Certified)
<1>1. ASSUME NEW keys \in SUBSET IssuingKeys,
             \A r \in TSARoots : T!InForce(r, at) => r.key \in keys,
             \A d \in Certified :
               d.eku = "ca" /\ T!InForce(d, at) /\ d.issuer \in keys => d.key \in keys
      PROVE  c.issuer \in keys
  <2> DEFINE part == keys \cap T!KeysOf(x.token)
  <2>1. \A r \in TSARoots : T!InForce(r, at) => r.key \in part
    BY <1>1 DEF T!KeysOf
  <2>2. ASSUME NEW i \in DOMAIN x.token.certs, x.token.certs[i].eku = "ca",
               T!InForce(x.token.certs[i], at), x.token.certs[i].issuer \in part
        PROVE  x.token.certs[i].key \in part
    <3>1. x.token.certs[i] \in Certified
      BY <2>2, CertifiedAssumption DEF C!Elements
    <3>2. QED
      BY <1>1, <2>2, <3>1 DEF T!KeysOf
  <2>3. T!VouchedFor(part, x.token, at)
    BY <2>1, <2>2, Zenon DEF T!VouchedFor
  <2>4. QED
    BY <2>3 DEF T!ChainsAt
<1>2. T!InForce(c, at)
  BY Zenon DEF T!ChainsAt
<1>3. Vouched(c, at, Certified)
  BY <1>1, <1>2, Zenon DEF Vouched
<1>4. c.issuer \in IssuingKeys
  BY <1>1 DEF IssuingKeys
<1>5. QED
  BY <1>3, <1>4, CertifiedAssumption

\* A token that is accepted was stamped by the authority: TokensAreStamped.
THEOREM AcceptedIsStamped == Spec => []TokensAreStamped
<1>1. ASSUME TokenInv, Accepted("token")
      PROVE  \E t \in Issued :
               /\ t.tst = item.token.tst /\ t.tst.imprint = item.expected
               /\ T!findSigner(t) = T!findSigner(item.token) /\ Stamped(t, Certified)
  <2> DEFINE signer == T!findSigner(item.token)
  <2>1. PICK x \in Tokens : item.token = x.token /\ item.expected = x.expected
    BY <1>1 DEF TokenInv, Accepted
  <2>2. T!VerifyTimestamp(item.token, item.expected)
    BY <1>1 DEF TokenInv, Accepted
  <2>3. /\ item.token.tst.imprint = item.expected /\ signer.name # "none"
        /\ T!checkSignedAttrs(item.token, signer) /\ T!checkCMSSignature(item.token, signer)
        /\ signer.eku = "time-stamping" /\ item.token.tst.time <= Now + ClockSkew
        /\ T!ChainsAt(item.token, signer, item.token.tst.time)
    BY <2>2, Zenon DEF T!VerifyTimestamp
  <2>4. signer \in Certified /\ Vouched(signer, item.token.tst.time, Certified)
    <3>1. signer \in C!Elements(x.token.certs)
      BY <2>1, <2>3, SignersAreCarried, CertifiedAssumption
    <3>2. QED
      BY <2>1, <2>3, <3>1, ChainsAreCertified
  <2>5. signer \in Authority
    BY <2>3, <2>4 DEF Authority
  <2>6. PICK t \in Issued : item.token.signature = t.signature
    <3>1. item.token.signature.by = signer.key
      BY <2>3 DEF T!checkCMSSignature
    <3>2. QED
      BY <2>1, <2>5, <3>1, TokensAssumption
  <2>7. t.attrs = item.token.attrs
    <3>1. t.signature.over = t.attrs
      <4>1. TokenIssued(t)
        BY TokensAssumption
      <4>2. t.signature = Signature(T!findSigner(t).key, t.attrs)
        BY <4>1, Zenon DEF TokenIssued
      <4>3. QED
        BY <4>2, SMT DEF Signature
    <3>2. item.token.signature.over = item.token.attrs
      BY <2>3 DEF T!checkCMSSignature
    <3>3. QED
      BY <2>6, <3>1, <3>2
  <2>8. {T!digestOf(t.tst)} = {T!digestOf(item.token.tst)}
    BY <2>3, <2>7, TokensAssumption DEF T!checkSignedAttrs, TokenIssued
  <2>9. T!findSigner(t) = signer
    <3>1. t.attrs.ess # {} /\ \A named \in t.attrs.ess : named[1] = T!findSigner(t)
      BY TokensAssumption, Zenon DEF TokenIssued
    <3>2. \A named \in t.attrs.ess : named[1] = signer
      BY <2>3, <2>7, Zenon DEF T!checkSignedAttrs
    <3>3. QED
      BY <3>1, <3>2
  <2>10. t.tst = item.token.tst
    <3> HIDE DEF signer
    <3>1. T!digestOf(t.tst) = T!digestOf(item.token.tst)
      BY <2>8, Zenon
    <3>2. QED
      BY <3>1, SMT DEF T!digestOf
  <2>11. Stamped(t, Certified)
    BY <2>3, <2>4, <2>5, <2>9, <2>10 DEF Stamped
  <2>12. QED
    BY <2>3, <2>9, <2>10, <2>11
<1>2. TokenInv => TokensAreStamped
  BY <1>1 DEF TokensAreStamped
<1>3. QED
  BY Stamps, <1>2, PTL

(* The audit log.                                                            *)

\* A published root is that of the rows so far, and its entry in the transparency log
\* is where and when it says.
Published(x) ==
  /\ x.artifact.size \in 1 .. Len(hashes)
  /\ x.artifact = AuditRootArtifact(x.artifact.size, AuditRoot(x.artifact.size))
  /\ \E n \in 1 .. Len(rekor) : \E log, key :
       /\ x.entry = logBody(log, n, n) /\ log[n] = rekor[n]
       /\ rekor[n] = rekorEntryBy(key, RootDigest(x.artifact))
       /\ x.anchored => key = AuditKey /\ x.signature = Signature(key, RootDigest(x.artifact))

LogInv ==
  /\ hashes \in Seq(C!Elements(hashes)) /\ Len(hashes) <= MaxRows
  /\ rekor \in Seq(C!Elements(rekor))
  /\ publications \in Seq(C!Elements(publications))
  /\ \A x \in C!Elements(publications) : Published(x)

\* The tree's own walk from the leaf of a row.
AuditWalk(leaf, size, W, m) ==
  /\ Walks(W, m, Walk(leaf, size, AuditLeafHash(hashes[leaf + 1])))
  /\ W[m].sn = 0 /\ W[m].r = AuditRoot(size)

\* Beside the tree's own walk to this root, at the same node.
BesideTheTree ==
  \E m \in Nat : \E W : \E k \in 0 .. m :
    /\ AuditWalk(item.leaf, item.size, W, m)
    /\ walk.fn = W[k].fn /\ walk.sn = W[k].sn
    /\ item.hash # hashes[item.leaf + 1] => walk.r # W[k].r

RowInv ==
  item.kind = "row" =>
    /\ pc \in {"row", "walk", "done"}
    /\ item.leaf \in Nat
    /\ item.size \in 1 .. Len(hashes) /\ item.root = AuditRoot(item.size)
    /\ pc = "walk" => item.leaf < item.size /\ BesideTheTree
    /\ verdict = "accepted" => hashes[item.leaf + 1] = item.hash

RootInv ==
  item.kind = "root" =>
    /\ pc \in {"online", "root", "entry", "proof", "walk", "body", "done"}
    /\ item.key = AuditKey
    /\ \E x \in C!Elements(publications) : item.entry = x.entry
    /\ verdict = "accepted" =>
         verifyHashedRekordBody(e.body, AuditKey) /\ e.body.digest = RootDigest(item.artifact)

AuditInv ==
  /\ pc # "done" => verdict = "none"
  /\ LogInv /\ RowInv /\ RootInv

\* A sequence grows by one.
LEMMA Grows ==
  ASSUME NEW s, s \in Seq(C!Elements(s)), NEW x
  PROVE  LET t == Append(s, x) IN
         /\ t \in Seq(C!Elements(t)) /\ Len(t) = Len(s) + 1 /\ Len(s) \in Nat
         /\ \A i \in 1 .. Len(s) : t[i] = s[i]
         /\ t[Len(s) + 1] = x
         /\ \A y \in C!Elements(t) : y \in C!Elements(s) \/ y = x
<1> DEFINE t == Append(s, x)
           S == C!Elements(s) \cup {x}
<1>1. s \in Seq(S) /\ x \in S
  BY SeqMonotonic
<1> HIDE DEF S
<1>2. /\ Len(t) = Len(s) + 1 /\ \A i \in 1 .. Len(s) : t[i] = s[i]
      /\ t[Len(s) + 1] = x /\ t \in Seq(S) /\ DOMAIN s = 1 .. Len(s) /\ Len(s) \in Nat
  BY <1>1, AppendProperties, LenProperties
<1> HIDE DEF t
<1>3. t \in Seq(C!Elements(t))
  <2>1. t \in [1 .. Len(t) -> S] /\ DOMAIN t = 1 .. Len(t) /\ Len(t) \in Nat
    BY <1>2, LenProperties
  <2>2. t \in [1 .. Len(t) -> C!Elements(t)]
    BY <2>1 DEF C!Elements
  <2>3. QED
    BY <2>1, <2>2
<1>4. ASSUME NEW y \in C!Elements(t) PROVE y \in C!Elements(s) \/ y = x
  <2>1. DOMAIN t = 1 .. Len(s) + 1
    BY <1>2, LenProperties
  <2>2. PICK i \in 1 .. Len(s) + 1 : y = t[i]
    BY <2>1 DEF C!Elements
  <2>3. QED
    BY <1>2, <2>2 DEF C!Elements
<1>5. QED
  BY <1>2, <1>3, <1>4 DEF t

\* The leaves up to a size are a level, and stand when rows are added.
LEMMA LeavesAreALevel ==
  ASSUME NEW size \in Nat \ {0}
  PROVE  IsLevel([i \in 1 .. size |-> AuditLeafHash(hashes[i])], size)
BY DEF IsLevel

LEMMA RootsStand ==
  ASSUME NEW size \in 1 .. Len(hashes), Len(hashes) \in Nat,
         \A i \in 1 .. Len(hashes) : hashes'[i] = hashes[i]
  PROVE  AuditRoot(size)' = AuditRoot(size)
<1>1. [i \in 1 .. size |-> AuditLeafHash(hashes'[i])] = [i \in 1 .. size |-> AuditLeafHash(hashes[i])]
  OBVIOUS
<1>2. QED
  BY <1>1, Zenon DEF AuditRoot, LevelsOf

\* Of every leaf the tree has a walk to its root, which is a hash.
LEMMA AuditWalks ==
  ASSUME NEW size \in Nat \ {0}, NEW leaf \in 0 .. size - 1
  PROVE  \E m \in Nat : \E W : AuditWalk(leaf, size, W, m)
<1> DEFINE leaves == [i \in 1 .. size |-> AuditLeafHash(hashes[i])]
<1>1. IsLevel(leaves, size)
  BY LeavesAreALevel
<1>2. leaves[leaf + 1] = AuditLeafHash(hashes[leaf + 1])
  OBVIOUS
<1>3. AuditRoot(size) = LET levels == AuditTreeLevels(leaves) IN levels[Len(levels)][1]
  BY Zenon DEF AuditRoot, LevelsOf
<1> HIDE DEF leaves
<1>4. PICK m \in Nat : \E W :
        /\ Walks(W, m, Walk(leaf, size, leaves[leaf + 1]))
        /\ W[m].sn = 0 /\ W[m].r = AuditRoot(size)
  BY <1>1, <1>3, TreeWalks
<1>5. QED
  BY <1>2, <1>4 DEF AuditWalk

LEMMA AuditRootsAreHashes ==
  ASSUME NEW size \in Nat \ {0}
  PROVE  AuditRoot(size) # NoHash
<1>1. PICK m \in Nat : \E W : AuditWalk(0, size, W, m)
  BY AuditWalks
<1>2. PICK W : AuditWalk(0, size, W, m)
  BY <1>1
<1>3. CASE m = 0
  BY <1>2, <1>3 DEF AuditWalk, Walks, Walk, AuditLeafHash, leafHash, NoHash
<1>4. CASE m # 0
  <2>1. PICK sibling : W[m] = Climb(W[m - 1], sibling) /\ W[m - 1].sn # 0
    <3>1. m \in 1 .. m
      BY <1>4
    <3>2. QED
      BY <1>2, <3>1 DEF AuditWalk, Walks
  <2>2. W[m].r \in {nodeHash(sibling, W[m - 1].r), nodeHash(W[m - 1].r, sibling)}
    BY <2>1 DEF Climb
  <2>3. QED
    BY <1>2, <2>2 DEF AuditWalk, nodeHash, NoHash
<1>5. QED
  BY <1>3, <1>4

(* The services.                                                             *)

LEMMA InitAuditInv == ASSUME Init PROVE AuditInv
BY AuditLogAssumption DEF Init, LogInit, AuditInv, LogInv, RowInv, RootInv, Nothing, C!Elements

\* Rows are added, and what was published stands.
LEMMA RowsAreAdded ==
  ASSUME LogInv, Len(hashes) < MaxRows, NEW x, hashes' = Append(hashes, x),
         rekor' = rekor, publications' = publications
  PROVE  LogInv'
<1>1. /\ hashes' \in Seq(C!Elements(hashes')) /\ Len(hashes') = Len(hashes) + 1
      /\ Len(hashes) \in Nat /\ \A i \in 1 .. Len(hashes) : hashes'[i] = hashes[i]
  BY Grows DEF LogInv
<1>2. ASSUME NEW y \in C!Elements(publications) PROVE Published(y)'
  <2>1. Published(y)
    BY DEF LogInv
  <2>2. y.artifact.size \in 1 .. Len(hashes) /\ y.artifact.size \in 1 .. Len(hashes')
    BY <1>1, <2>1 DEF Published
  <2>3. AuditRoot(y.artifact.size)' = AuditRoot(y.artifact.size)
    BY <1>1, <2>2, RootsStand
  <2>4. QED
    BY <2>1, <2>2, <2>3 DEF Published
<1>3. Len(hashes') <= MaxRows
  BY <1>1, AuditLogAssumption
<1>4. QED
  BY <1>1, <1>2, <1>3 DEF LogInv

\* A root is published, and its digest is logged.
LEMMA ARootIsPublished ==
  ASSUME LogInv, NEW sigKey, NEW logKey, PublishBy(sigKey, logKey)
  PROVE  LogInv'
<1>1. PICK size, artifact, entry, log, x :
        /\ size = Len(hashes) /\ artifact = AuditRootArtifact(size, AuditRoot(size))
        /\ entry = rekorEntryBy(logKey, RootDigest(artifact))
        /\ log = Append(rekor, entry)
        /\ x = [id |-> Len(publications) + 1,
                anchored |-> sigKey = AuditKey /\ logKey = AuditKey, artifact |-> artifact,
                signature |-> Signature(sigKey, RootDigest(artifact)),
                entry |-> logBody(log, Len(log), Len(log))]
        /\ hashes # <<>> /\ rekor' = log /\ publications' = Append(publications, x)
        /\ hashes' = hashes
  BY Zenon DEF PublishBy
<1>2. /\ log \in Seq(C!Elements(log)) /\ Len(log) = Len(rekor) + 1 /\ Len(rekor) \in Nat
      /\ \A i \in 1 .. Len(rekor) : log[i] = rekor[i]
      /\ log[Len(rekor) + 1] = entry
  BY <1>1, Grows DEF LogInv
<1>3. size \in Nat /\ size # 0
  BY <1>1 DEF LogInv
<1>4. artifact.size = size
  BY <1>1 DEF AuditRootArtifact
<1>5. /\ publications' \in Seq(C!Elements(publications'))
      /\ \A y \in C!Elements(publications') : y \in C!Elements(publications) \/ y = x
  BY <1>1, Grows DEF LogInv
<1>6. ASSUME NEW n PROVE AuditRoot(n)' = AuditRoot(n)
  BY <1>1, Zenon DEF AuditRoot, LevelsOf
<1>7. Published(x)'
  <2>1. x.artifact = artifact /\ x.entry = logBody(log, Len(log), Len(log))
    BY <1>1
  <2>2. x.artifact.size \in 1 .. Len(hashes') /\ x.artifact.size = size
    BY <1>1, <1>3, <1>4, <2>1
  <2>3. Len(log) \in 1 .. Len(rekor') /\ log[Len(log)] = rekor'[Len(log)]
        /\ rekor'[Len(log)] = rekorEntryBy(logKey, RootDigest(x.artifact))
    BY <1>1, <1>2, <2>1
  <2>4. x.artifact = AuditRootArtifact(x.artifact.size, AuditRoot(x.artifact.size)')
    BY <1>1, <1>6, <2>1, <2>2
  <2>5. x.anchored => logKey = AuditKey /\ x.signature = Signature(logKey, RootDigest(x.artifact))
    BY <1>1, <2>1
  <2>6. QED
    BY <2>1, <2>2, <2>3, <2>4, <2>5, Zenon DEF Published
<1>8. ASSUME NEW y \in C!Elements(publications) PROVE Published(y)'
  <2>1. Published(y)
    BY DEF LogInv
  <2>2. PICK n \in 1 .. Len(rekor) : \E l, key :
          /\ y.entry = logBody(l, n, n) /\ l[n] = rekor[n]
          /\ rekor[n] = rekorEntryBy(key, RootDigest(y.artifact))
          /\ y.anchored => key = AuditKey /\ y.signature = Signature(key, RootDigest(y.artifact))
    BY <2>1 DEF Published
  <2>3. n \in 1 .. Len(rekor') /\ rekor'[n] = rekor[n]
    BY <1>1, <1>2
  <2>4. QED
    BY <1>1, <1>6, <2>1, <2>2, <2>3 DEF Published
<1>9. QED
  BY <1>1, <1>2, <1>5, <1>7, <1>8 DEF LogInv

LEMMA WorkAuditInv == ASSUME AuditInv, Work PROVE AuditInv'
<1>1. UNCHANGED checkVars /\ pc = "log"
  BY DEF Work
<1>2. LogInv'
  <2>1. CASE \E conv \in Conversations : Record(conv)
    <3>1. /\ Len(hashes) < MaxRows
          /\ \E x : hashes' = Append(hashes, x) /\ rekor' = rekor /\ publications' = publications
      BY <2>1, Zenon DEF Record
    <3>2. QED
      BY <3>1, RowsAreAdded DEF AuditInv
  <2>2. CASE Filler
    <3>1. /\ Len(hashes) < MaxRows
          /\ \E x : hashes' = Append(hashes, x) /\ rekor' = rekor /\ publications' = publications
      BY <2>2, Zenon DEF Filler
    <3>2. QED
      BY <3>1, RowsAreAdded DEF AuditInv
  <2>3. CASE \E sigKey, logKey \in {AuditKey, OtherKey} : PublishBy(sigKey, logKey)
    BY <2>3, ARootIsPublished DEF AuditInv
  <2>4. QED
    BY <2>1, <2>2, <2>3 DEF Work
<1>3. RowInv' /\ RootInv'
  BY <1>1 DEF AuditInv, RowInv, RootInv, checkVars
<1>4. QED
  BY <1>1, <1>2, <1>3 DEF AuditInv, checkVars

\* When the services rest, what they have made stands.
LEMMA LogStands == ASSUME LogInv, UNCHANGED logVars PROVE LogInv'
<1>1. hashes' = hashes /\ rekor' = rekor /\ publications' = publications
  BY DEF logVars
<1>2. ASSUME NEW n PROVE AuditRoot(n)' = AuditRoot(n)
  BY <1>1, Zenon DEF AuditRoot, LevelsOf
<1>3. ASSUME NEW x \in C!Elements(publications) PROVE Published(x)'
  <2>1. Published(x)
    BY DEF LogInv
  <2>2. QED
    BY <1>1, <1>2, <2>1 DEF Published
<1>4. QED
  BY <1>1, <1>3 DEF LogInv

(* Something is presented.                                                   *)

LEMMA PresentAuditInv ==
  ASSUME AuditInv, PresentCertificate \/ PresentToken \/ PresentRoot \/ PresentRow
  PROVE  AuditInv'
<1>1. pc = "log" /\ verdict = "none" /\ UNCHANGED <<logVars, verdict>>
  BY DEF AuditInv, PresentCertificate, PresentToken, PresentRoot, PresentRow, Present
<1>2. LogInv' /\ publications' = publications /\ hashes' = hashes
  BY <1>1, LogStands DEF AuditInv, logVars
<1>3. CASE PresentCertificate \/ PresentToken
  <2>1. item'.kind \in {"certificate", "token"}
    BY <1>3 DEF PresentCertificate, PresentToken, Present
  <2>2. RowInv' /\ RootInv'
    BY <2>1 DEF RowInv, RootInv
  <2>3. QED
    BY <1>1, <1>2, <2>2 DEF AuditInv
<1>4. CASE PresentRoot
  <2>1. PICK k \in DOMAIN publications : \E a, signature, online :
          Present([kind |-> "root", artifact |-> a, signature |-> signature,
                   entry |-> publications[k].entry, key |-> AuditKey, copy |-> NoAnswer,
                   online |-> online], IF online THEN "online" ELSE "root")
    BY <1>4, Zenon DEF PresentRoot
  <2>2. /\ item'.kind = "root" /\ item'.key = AuditKey /\ item'.entry = publications[k].entry
        /\ pc' \in {"online", "root"}
    BY <2>1 DEF Present
  <2>3. publications[k] \in C!Elements(publications')
    BY <1>2 DEF C!Elements
  <2>4. RowInv' /\ RootInv'
    BY <1>1, <2>2, <2>3 DEF RowInv, RootInv
  <2>5. QED
    BY <1>1, <1>2, <2>4 DEF AuditInv
<1>5. CASE PresentRow
  <2>1. PICK r \in {x \in C!Elements(publications) : x.anchored} : \E leaf \in 0 .. r.artifact.size :
          \E hash, path :
            Present([kind |-> "row", leaf |-> leaf, hash |-> hash, path |-> path,
                     size |-> r.artifact.size, root |-> r.artifact.root], "row")
    BY <1>5, Zenon DEF PresentRow
  <2>2. Published(r)
    BY <2>1 DEF AuditInv, LogInv
  <2>3. /\ item'.kind = "row" /\ item'.size = r.artifact.size /\ item'.root = r.artifact.root
        /\ item'.leaf \in 0 .. r.artifact.size /\ pc' = "row"
    BY <2>1 DEF Present
  <2>4. r.artifact.root = AuditRoot(r.artifact.size)
    BY <2>2 DEF Published, AuditRootArtifact
  <2>5. AuditRoot(r.artifact.size)' = AuditRoot(r.artifact.size)
    BY <1>2, Zenon DEF AuditRoot, LevelsOf
  <2>6. item'.root = AuditRoot(item.size)'
    BY <1>2, <2>3, <2>4, Zenon DEF AuditRoot, LevelsOf
  <2>7. RowInv' /\ RootInv'
    BY <1>1, <1>2, <2>2, <2>3, <2>6 DEF RowInv, RootInv, Published
  <2>8. QED
    BY <1>1, <1>2, <2>7 DEF AuditInv
<1>6. QED
  BY <1>3, <1>4, <1>5

(* The verification of a root, and of a row.                                 *)

Verifies ==
  \/ ConfirmOnline \/ CheckToken \/ CheckRoot \/ CheckEntry \/ CheckProof \/ CheckRow
  \/ ClimbOne \/ EndWalk \/ CheckBody

\* What is verified stays, and a verdict ends it.
LEMMA VerifyingKeeps ==
  ASSUME AuditInv, Verifies
  PROVE  /\ UNCHANGED logVars /\ LogInv'
         /\ item'.kind = item.kind /\ item'.entry = item.entry /\ item'.key = item.key
         /\ item' = item \/ (ConfirmOnline /\ pc' # "walk")
         /\ pc' # "done" => verdict' = "none"
         /\ item.kind = "row" => CheckRow \/ ClimbOne \/ EndWalk
         /\ item.kind = "root" => pc' \in {"root", "entry", "proof", "walk", "body", "done"}
<1>1. UNCHANGED logVars
  BY DEF Verifies, ConfirmOnline, CheckToken, CheckRoot, CheckEntry, Check, CheckProof, CheckRow,
         StartWalk, ClimbOne, EndWalk, CheckBody
<1>2. pc # "done" /\ verdict = "none"
  BY DEF Verifies, ConfirmOnline, CheckToken, CheckRoot, CheckEntry, Check, CheckProof, CheckRow,
         StartWalk, ClimbOne, EndWalk, CheckBody, AuditInv
<1>3. pc' # "done" => verdict' = verdict
  BY DEF Verifies, ConfirmOnline, CheckToken, CheckRoot, CheckEntry, Check, CheckProof, CheckRow,
         StartWalk, ClimbOne, EndWalk, CheckBody, goto, end
<1>4. CASE ConfirmOnline
  <2>1. PICK fe \in Answers : item' = [item EXCEPT !.copy = fe]
    BY <1>4 DEF ConfirmOnline
  <2>2. item'.kind = item.kind /\ item'.entry = item.entry /\ item'.key = item.key
    BY <2>1
  <2>3. pc' \in {"root", "entry", "done"} /\ pc = "online"
    BY <1>4 DEF ConfirmOnline, goto, end
  <2>4. item.kind # "row"
    BY <2>3 DEF AuditInv, RowInv
  <2>5. QED
    BY <1>1, <1>2, <1>3, <1>4, <2>2, <2>3, <2>4, LogStands DEF AuditInv
<1>5. CASE ~ConfirmOnline
  <2>1. item' = item
    BY <1>5 DEF Verifies, CheckToken, CheckRoot, CheckEntry, Check, CheckProof, CheckRow,
                StartWalk, ClimbOne, EndWalk, CheckBody
  <2>2. pc' \in {"root", "entry", "proof", "walk", "body", "done"}
    BY <1>5 DEF Verifies, CheckToken, CheckRoot, CheckEntry, Check, CheckProof, CheckRow,
                StartWalk, ClimbOne, EndWalk, CheckBody, goto, end
  <2>3. item.kind = "row" => CheckRow \/ ClimbOne \/ EndWalk
    BY <1>5 DEF AuditInv, RowInv, Verifies, CheckToken, CheckRoot, CheckEntry, Check, CheckProof,
                StartWalk, CheckBody
  <2>4. QED
    BY <1>1, <1>2, <1>3, <2>1, <2>2, <2>3, LogStands DEF AuditInv
<1>6. QED
  BY <1>4, <1>5

\* A root that is accepted has passed the check of its body.
LEMMA VerifyRootInv == ASSUME AuditInv, Verifies PROVE RootInv'
<1>1. SUFFICES ASSUME item'.kind = "root" PROVE RootInv'
  BY DEF RootInv
<1>2. /\ item.kind = "root" /\ item'.key = item.key /\ item'.entry = item.entry
      /\ pc' \in {"root", "entry", "proof", "walk", "body", "done"}
      /\ publications' = publications
  BY <1>1, VerifyingKeeps DEF logVars
<1>3. ASSUME verdict' = "accepted"
      PROVE  /\ item' = item /\ verifyHashedRekordBody(e.body, AuditKey)
             /\ e.body.digest = RootDigest(item.artifact)
  <2>1. CheckBody
    BY <1>2, <1>3 DEF AuditInv, RootInv, Verifies, ConfirmOnline, CheckToken, CheckRoot,
      CheckEntry, Check, CheckProof, CheckRow, StartWalk, ClimbOne, EndWalk, goto, end
  <2>2. QED
    BY <1>2, <1>3, <2>1 DEF CheckBody, end, AuditInv, RootInv
<1>4. (item' = item) => e' = e
  BY DEF e
<1>5. QED
  BY <1>2, <1>3, <1>4 DEF AuditInv, RootInv

\* The walk of a row begins at its leaf, beside that of the tree.
LEMMA CheckRowInv == ASSUME AuditInv, CheckRow PROVE RowInv'
<1>1. SUFFICES ASSUME item'.kind = "row" PROVE RowInv'
  BY DEF RowInv
<1>2. /\ item' = item /\ hashes' = hashes /\ pc' \in {"walk", "done"}
      /\ pc' = "walk" => /\ item.leaf < item.size /\ verdict' = verdict
                         /\ walk' = Walk(item.leaf, item.size, AuditLeafHash(item.hash))
      /\ pc' = "done" => verdict' = "rejected"
  BY DEF CheckRow, StartWalk, goto, end, logVars
<1>3. /\ item.kind = "row" /\ item.leaf \in Nat
      /\ item.size \in 1 .. Len(hashes) /\ item.root = AuditRoot(item.size)
      /\ verdict # "accepted"
  BY <1>1, <1>2 DEF AuditInv, RowInv, CheckRow, StartWalk
<1>4. ASSUME pc' = "walk" PROVE BesideTheTree'
  <2>1. item.size \in Nat \ {0} /\ item.leaf \in 0 .. item.size - 1
    BY <1>2, <1>3, <1>4
  <2>2. PICK m \in Nat : \E W : AuditWalk(item.leaf, item.size, W, m)
    BY <2>1, AuditWalks
  <2>3. PICK W : AuditWalk(item.leaf, item.size, W, m)
    BY <2>2
  <2>4. AuditWalk(item.leaf, item.size, W, m)'
    BY <1>2, <2>3, Zenon DEF AuditWalk, AuditRoot, LevelsOf
  <2>5. /\ walk'.fn = W[0].fn /\ walk'.sn = W[0].sn
        /\ item.hash # hashes[item.leaf + 1] => walk'.r # W[0].r
    BY <1>2, <1>4, <2>3 DEF AuditWalk, Walks, Walk, AuditLeafHash, leafHash
  <2>6. 0 \in 0 .. m
    OBVIOUS
  <2>7. QED
    BY <1>2, <2>4, <2>5, <2>6 DEF BesideTheTree
<1>5. AuditRoot(item.size)' = AuditRoot(item.size)
  BY <1>2, Zenon DEF AuditRoot, LevelsOf
<1>6. QED
  BY <1>2, <1>3, <1>4, <1>5 DEF RowInv

\* One sibling further the two walks are at the same node again.
LEMMA ClimbRowInv == ASSUME AuditInv, ClimbOne PROVE RowInv'
<1>1. SUFFICES ASSUME item'.kind = "row" PROVE RowInv'
  BY DEF RowInv
<1>2. /\ item' = item /\ hashes' = hashes /\ pc = "walk" /\ walk' = Climb(walk, Head(left))
      /\ walk.sn = 0 => pc' = "done" /\ verdict' = "rejected"
      /\ walk.sn # 0 => pc' = "walk" /\ verdict' = verdict
  BY DEF ClimbOne, goto, end, logVars
<1>3. /\ item.kind = "row" /\ item.leaf \in Nat
      /\ item.size \in 1 .. Len(hashes) /\ item.root = AuditRoot(item.size)
      /\ verdict # "accepted" /\ item.leaf < item.size /\ BesideTheTree
  BY <1>1, <1>2 DEF AuditInv, RowInv
<1>4. ASSUME walk.sn # 0 PROVE BesideTheTree'
  <2>1. PICK m \in Nat : \E W : \E k \in 0 .. m :
          /\ AuditWalk(item.leaf, item.size, W, m)
          /\ walk.fn = W[k].fn /\ walk.sn = W[k].sn
          /\ item.hash # hashes[item.leaf + 1] => walk.r # W[k].r
    BY <1>3 DEF BesideTheTree
  <2>2. PICK W : \E k \in 0 .. m :
          /\ AuditWalk(item.leaf, item.size, W, m)
          /\ walk.fn = W[k].fn /\ walk.sn = W[k].sn
          /\ item.hash # hashes[item.leaf + 1] => walk.r # W[k].r
    BY <2>1
  <2>3. PICK k \in 0 .. m :
          /\ AuditWalk(item.leaf, item.size, W, m)
          /\ walk.fn = W[k].fn /\ walk.sn = W[k].sn
          /\ item.hash # hashes[item.leaf + 1] => walk.r # W[k].r
    BY <2>2
  <2>4. k + 1 \in 1 .. m /\ k + 1 \in 0 .. m /\ k + 1 - 1 = k
    BY <1>4, <2>3 DEF AuditWalk
  <2>5. PICK sibling : W[k + 1] = Climb(W[k], sibling)
    BY <2>3, <2>4, WalkStep DEF AuditWalk
  <2>6. /\ walk'.fn = W[k + 1].fn /\ walk'.sn = W[k + 1].sn
        /\ walk.r # W[k].r => walk'.r # W[k + 1].r
    <3>1. W[k].sn # 0
      BY <1>4, <2>3
    <3>2. QED
      BY <1>2, <2>3, <2>5, <3>1, ClimbsAlike
  <2>7. AuditWalk(item.leaf, item.size, W, m)'
    BY <1>2, <2>3, Zenon DEF AuditWalk, AuditRoot, LevelsOf
  <2>8. QED
    BY <1>2, <2>3, <2>4, <2>6, <2>7 DEF BesideTheTree
<1>5. AuditRoot(item.size)' = AuditRoot(item.size)
  BY <1>2, Zenon DEF AuditRoot, LevelsOf
<1>6. QED
  BY <1>2, <1>3, <1>4, <1>5 DEF RowInv

\* At the root the two walks have one hash, so they began with one row.
LEMMA EndRowInv == ASSUME AuditInv, EndWalk PROVE RowInv'
<1>1. SUFFICES ASSUME item'.kind = "row" PROVE RowInv'
  BY DEF RowInv
<1>2. /\ item' = item /\ hashes' = hashes /\ pc = "walk" /\ item.kind = "row" /\ pc' = "done"
      /\ verdict' = "accepted" => Reached(walk) = item.root
  BY <1>1 DEF EndWalk, goto, end, logVars
<1>3. /\ item.leaf \in Nat
      /\ item.size \in 1 .. Len(hashes) /\ item.root = AuditRoot(item.size)
      /\ BesideTheTree
  BY <1>2 DEF AuditInv, RowInv
<1>4. ASSUME verdict' = "accepted" PROVE hashes[item.leaf + 1] = item.hash
  <2>1. item.root # NoHash
    BY <1>3, AuditRootsAreHashes
  <2>2. walk.sn = 0 /\ walk.r = AuditRoot(item.size)
    BY <1>2, <1>3, <1>4, <2>1 DEF Reached
  <2>3. PICK m \in Nat : \E W : \E k \in 0 .. m :
          /\ AuditWalk(item.leaf, item.size, W, m)
          /\ walk.fn = W[k].fn /\ walk.sn = W[k].sn
          /\ item.hash # hashes[item.leaf + 1] => walk.r # W[k].r
    BY <1>3 DEF BesideTheTree
  <2>4. PICK W : \E k \in 0 .. m :
          /\ AuditWalk(item.leaf, item.size, W, m)
          /\ walk.fn = W[k].fn /\ walk.sn = W[k].sn
          /\ item.hash # hashes[item.leaf + 1] => walk.r # W[k].r
    BY <2>3
  <2>5. PICK k \in 0 .. m :
          /\ AuditWalk(item.leaf, item.size, W, m)
          /\ walk.fn = W[k].fn /\ walk.sn = W[k].sn
          /\ item.hash # hashes[item.leaf + 1] => walk.r # W[k].r
    BY <2>4
  <2>6. k = m
    <3>1. SUFFICES ASSUME k # m PROVE FALSE
      OBVIOUS
    <3>2. k + 1 \in 1 .. m /\ k + 1 - 1 = k
      BY <3>1
    <3>3. W[k].sn # 0
      BY <2>5, <3>2, WalkStep DEF AuditWalk
    <3>4. QED
      BY <2>2, <2>5, <3>3
  <2>7. QED
    BY <2>2, <2>5, <2>6 DEF AuditWalk
<1>5. AuditRoot(item.size)' = AuditRoot(item.size)
  BY <1>2, Zenon DEF AuditRoot, LevelsOf
<1>6. QED
  BY <1>2, <1>3, <1>4, <1>5 DEF RowInv

\* What is known of the audit log, and of the root or the row that is verified.
THEOREM AuditLogStands == Spec => []AuditInv
<1>1. AuditInv /\ [Next]_vars => AuditInv'
  <2>1. SUFFICES ASSUME AuditInv, [Next]_vars PROVE AuditInv'
    OBVIOUS
  <2>2. CASE Work
    BY <2>1, <2>2, WorkAuditInv
  <2>3. CASE PresentCertificate \/ PresentToken \/ PresentRoot \/ PresentRow
    BY <2>1, <2>3, PresentAuditInv
  <2>4. CASE Verifies
    <3>1. RowInv'
      <4>1. CASE item.kind = "row"
        BY <2>1, <2>4, <4>1, VerifyingKeeps, CheckRowInv, ClimbRowInv, EndRowInv
      <4>2. CASE item.kind # "row"
        BY <2>1, <2>4, <4>2, VerifyingKeeps DEF RowInv
      <4>3. QED
        BY <4>1, <4>2
    <3>2. QED
      BY <2>1, <2>4, <3>1, VerifyingKeeps, VerifyRootInv DEF AuditInv
  <2>5. CASE UNCHANGED vars
    <3>1. LogInv' /\ UNCHANGED checkVars /\ hashes' = hashes /\ publications' = publications
      BY <2>1, <2>5, LogStands DEF vars, logVars, AuditInv
    <3>2. AuditRoot(item.size)' = AuditRoot(item.size)
      BY <3>1, Zenon DEF AuditRoot, LevelsOf, checkVars
    <3>3. item.kind = "row" /\ pc = "walk" => BesideTheTree'
      <4>1. ASSUME BesideTheTree PROVE BesideTheTree'
        <5>1. ASSUME NEW W, NEW m, AuditWalk(item.leaf, item.size, W, m)
              PROVE  AuditWalk(item.leaf, item.size, W, m)'
          BY <3>1, <5>1, Zenon DEF AuditWalk, AuditRoot, LevelsOf, checkVars
        <5>2. QED
          BY <3>1, <4>1, <5>1 DEF BesideTheTree, checkVars
      <4>2. QED
        BY <2>1, <4>1 DEF AuditInv, RowInv
    <3>4. RowInv'
      BY <2>1, <3>1, <3>2, <3>3 DEF AuditInv, RowInv, checkVars
    <3>5. RootInv'
      BY <2>1, <3>1 DEF AuditInv, RootInv, checkVars, e
    <3>6. QED
      BY <2>1, <3>1, <3>4, <3>5 DEF AuditInv, checkVars
  <2>6. QED
    BY <2>1, <2>2, <2>3, <2>4, <2>5 DEF Next, Verifies
<1>2. QED
  BY InitAuditInv, <1>1, PTL DEF Spec

\* A root or a row that is accepted is the audit log's: AuditLogIsWhatItSays.
THEOREM AcceptedIsAudited == Spec => []AuditLogIsWhatItSays
<1>1. ASSUME AuditInv, Accepted("root")
      PROVE  /\ item.artifact.size \in 1 .. Len(hashes)
             /\ item.artifact.root = AuditRoot(item.artifact.size)
             /\ \E i \in DOMAIN rekor :
                  /\ rekor[i] = rekorEntryBy(AuditKey, RootDigest(item.artifact))
                  /\ e.time = i /\ e.index = Offset + i - 1 /\ p.index = i - 1
  <2>1. /\ \E x \in C!Elements(publications) : item.entry = x.entry
        /\ verifyHashedRekordBody(e.body, AuditKey) /\ e.body.digest = RootDigest(item.artifact)
    BY <1>1 DEF AuditInv, RootInv, Accepted
  <2>2. PICK x \in C!Elements(publications) : item.entry = x.entry
    BY <2>1
  <2>3. Published(x)
    BY <1>1 DEF AuditInv, LogInv
  <2>4. PICK n \in 1 .. Len(rekor) : \E log, key :
          /\ x.entry = logBody(log, n, n) /\ log[n] = rekor[n]
          /\ rekor[n] = rekorEntryBy(key, RootDigest(x.artifact))
    BY <2>3 DEF Published
  <2>5. PICK log, key : /\ x.entry = logBody(log, n, n) /\ log[n] = rekor[n]
                        /\ rekor[n] = rekorEntryBy(key, RootDigest(x.artifact))
    BY <2>4
  <2>6. /\ item.entry.body = rekor[n] /\ item.entry.time = n
        /\ item.entry.index = Offset + n - 1 /\ item.entry.proof.index = n - 1
    BY <2>2, <2>5 DEF logBody
  <2>7. e.body = rekor[n] /\ e.time = n /\ e.index = Offset + n - 1 /\ p.index = n - 1
    <3>1. item.entry.body # NoBody /\ item.entry.time # 0
      BY <2>5, <2>6 DEF rekorEntryBy, NoBody
    <3>2. item.entry = logBody(log, n, n)
      BY <2>2, <2>5
    <3>3. e.body = item.entry.body /\ e.time = item.entry.time /\ e.index = item.entry.index
      BY <3>1, <3>2 DEF e, Filled, logBody
    <3>4. QED
      BY <2>6, <3>3 DEF p
  <2>8. key = AuditKey /\ RootDigest(x.artifact) = RootDigest(item.artifact)
    BY <2>1, <2>5, <2>7 DEF rekorEntryBy, verifyHashedRekordBody
  <2>9. x.artifact = item.artifact
    BY <2>8 DEF RootDigest
  <2>10. item.artifact.size \in 1 .. Len(hashes) /\ item.artifact.root = AuditRoot(item.artifact.size)
    BY <2>3, <2>9 DEF Published, AuditRootArtifact
  <2>11. n \in DOMAIN rekor
    BY <1>1 DEF AuditInv, LogInv
  <2>12. QED
    BY <2>5, <2>7, <2>8, <2>9, <2>10, <2>11
<1>2. ASSUME AuditInv, Accepted("row") PROVE hashes[item.leaf + 1] = item.hash
  BY <1>2 DEF AuditInv, RowInv, Accepted
<1>3. AuditInv => AuditLogIsWhatItSays
  BY <1>1, <1>2 DEF AuditLogIsWhatItSays
<1>4. QED
  BY AuditLogStands, <1>3, PTL
(* What is genuine is accepted.                                              *)

\* A hash of a tree is one of 32 bytes.
LEMMA HashesAreWhole ==
  ASSUME NEW h, IsHash(h)
  PROVE  h # Malformed
BY DEF IsHash, leafHash, nodeHash, Malformed

\* What the log made of a statement and the pinned key signed verifies.
LEMMA LoggedEntriesVerify ==
  ASSUME NEW log, NEW S, log \in Seq(S), NEW n \in 1 .. Len(log), NEW i \in 1 .. n,
         NEW x, x = logBody(log, i, n), NEW key, verifyHashedRekordBody(x.body, key)
  PROVE  VerifyRekorBy(x, key)
<1> DEFINE leaves == LeavesOf(SubSeq(log, 1, n))
           path == inclusionPath(i - 1, leaves)
           root == RekorRoot(log, n)
<1>1. IsLevel(leaves, n) /\ \A j \in 1 .. n : leaves[j] = leafHash(log[j])
  BY LoggedLeaves
<1>2. \A h \in HashesIn(leaves) : h # Malformed
  <2>1. \A j \in 1 .. n : IsHash(leaves[j])
    BY <1>1 DEF IsHash
  <2>2. QED
    BY <1>1, <2>1, TreesAreOfHashes, HashesAreWhole
<1>3. path \in Seq(HashesIn(leaves)) /\ root \in HashesIn(leaves)
  <2>1. <<1, Len(leaves)>> \in Spans(leaves)
    BY <1>1 DEF Spans, IsLevel
  <2>2. path \in Seq(HashesIn(leaves))
    BY <1>1, <2>1, PathsAreOfHashes DEF inclusionPath
  <2>3. root \in HashesIn(leaves)
    BY <2>1 DEF RekorRoot, mth, HashesIn
  <2>4. QED
    BY <2>2, <2>3
<1>4. rootFromInclusionProof(i - 1, n, leafHash(log[i]), path) = root
  <2>1. PICK j \in 0 .. n - 1 : j = i - 1 /\ j + 1 = i
    OBVIOUS
  <2>2. rootFromInclusionProof(j, n, leaves[j + 1], inclusionPath(j, leaves)) = mth(leaves)
    BY <1>1, PathsLeadToTheRoot
  <2>3. QED
    BY <1>1, <2>1, <2>2 DEF RekorRoot
<1> HIDE DEF leaves, path, root
<1>5. /\ x.index = Offset + i - 1 /\ x.time = i /\ x.body = log[i] /\ x.set = SETOf(log, i)
      /\ x.proof.strict /\ x.proof.index = i - 1 /\ x.proof.size = n /\ x.proof.root = root
      /\ x.proof.hashes = path /\ x.proof.checkpoint = CheckpointOf(log, n)
  BY DEF logBody, path, root, leaves
<1>6. Stored(x) /\ x.index >= 0 /\ VerifySET(x)
  <2>1. x.body # NoBody
    BY DEF verifyHashedRekordBody, NoBody
  <2>2. x.index >= 0
    BY <1>5, AuditLogAssumption
  <2>3. QED
    BY <1>5, <2>1, <2>2 DEF Stored, VerifySET, SETOf
<1>7. ReadsProof(x.proof)
  <2>1. root # Malformed /\ \A j \in DOMAIN path : path[j] # Malformed
    BY <1>2, <1>3
  <2>2. QED
    BY <1>5, <2>1 DEF ReadsProof
<1>8. SignedRoot(x.proof)
  <2>1. x.proof.checkpoint =
          [size |-> n, root |-> root,
           lines |-> <<[hint |-> RekorKey,
                        signature |-> Signature(RekorKey, NoteText(n, root))]>>]
    BY <1>5 DEF CheckpointOf, root
  <2>2. QED
    BY <1>5, <2>1 DEF SignedRoot, VerifyCheckpoint
<1>9. x.proof.index <= x.index
  BY <1>5, AuditLogAssumption
<1>10. rootFromInclusionProof(x.proof.index, x.proof.size, leafHash(x.body), x.proof.hashes) = x.proof.root
  BY <1>4, <1>5
<1>11. QED
  BY <1>6, <1>7, <1>8, <1>9, <1>10 DEF VerifyRekorBy

\* An answer to a query changes of an entry its body and its time alone.
LEMMA FilledKeeps ==
  ASSUME NEW n, NEW i, NEW log, e = logBody(log, i, n)
  PROVE  /\ e.proof = p /\ e.index = item.entry.index
         /\ item.entry.body \in {NoBody, e.body} /\ item.entry.time \in {0, e.time}
BY DEF e, p, Filled, logBody

LEMMA AuditRootsAreWhole ==
  ASSUME NEW size \in Nat \ {0}
  PROVE  AuditRoot(size) # Malformed
<1> DEFINE leaves == [i \in 1 .. size |-> AuditLeafHash(hashes[i])]
<1>1. IsLevel(leaves, size)
  BY LeavesAreALevel
<1>2. AuditRoot(size) = mth(leaves)
  BY <1>1, LevelsAreTheTree DEF AuditRoot, LevelsOf
<1>3. \A i \in 1 .. size : IsHash(leaves[i])
  BY DEF IsHash, AuditLeafHash
<1> HIDE DEF leaves
<1>4. <<1, Len(leaves)>> \in Spans(leaves)
  BY <1>1 DEF Spans, IsLevel
<1>5. mth(leaves) \in HashesIn(leaves)
  BY <1>4 DEF mth, HashesIn
<1>6. QED
  BY <1>1, <1>2, <1>3, <1>5, TreesAreOfHashes, HashesAreWhole

\* The service's path for a row verifies under the root at its size.
LEMMA AuditPathsVerify ==
  ASSUME LogInv, NEW size \in 1 .. Len(hashes), NEW leaf \in 0 .. size - 1,
         NEW path, path = AuditTreePath(LevelsOf(size), leaf)
  PROVE  /\ path = inclusionPath(leaf, [i \in 1 .. size |-> AuditLeafHash(hashes[i])])
         /\ Len(path) <= MaxAuditProofHashes
         /\ AuditInclusionRoot(leaf, size, hashes[leaf + 1], path) = AuditRoot(size)
<1> DEFINE leaves == [i \in 1 .. size |-> AuditLeafHash(hashes[i])]
<1>1. size \in Nat \ {0} /\ size <= MaxRows /\ MaxRows \in Nat
  BY AuditLogAssumption DEF LogInv
<1>2. IsLevel(leaves, size)
  BY <1>1, LeavesAreALevel
<1>3. /\ leaves[leaf + 1] = AuditLeafHash(hashes[leaf + 1])
      /\ \A i \in 1 .. size : IsHash(leaves[i])
  BY DEF IsHash, AuditLeafHash
<1>4. path = inclusionPath(leaf, leaves) /\ AuditRoot(size) = mth(leaves)
  BY <1>2, LevelsAreTheTree DEF AuditRoot, LevelsOf
<1> HIDE DEF leaves
<1>5. ((size \div 65536) \div 65536) \div 65536 < 65536
  <2>1. ((MaxRows \div 65536) \div 65536) \div 65536 < 65536
    BY AuditLogAssumption
  <2>2. \A x \in Nat : x \div 65536 \in Nat
    OBVIOUS
  <2>3. \A x, y \in Nat : x <= y => x \div 65536 <= y \div 65536
    OBVIOUS
  <2>4. size \div 65536 \in Nat /\ MaxRows \div 65536 \in Nat
        /\ size \div 65536 <= MaxRows \div 65536
    BY <1>1, <2>2, <2>3
  <2>5. (size \div 65536) \div 65536 \in Nat /\ (MaxRows \div 65536) \div 65536 \in Nat
        /\ (size \div 65536) \div 65536 <= (MaxRows \div 65536) \div 65536
    BY <2>2, <2>3, <2>4
  <2>6. ((size \div 65536) \div 65536) \div 65536 <= ((MaxRows \div 65536) \div 65536) \div 65536
        /\ ((size \div 65536) \div 65536) \div 65536 \in Nat
        /\ ((MaxRows \div 65536) \div 65536) \div 65536 \in Nat
    BY <2>2, <2>3, <2>5
  <2>7. QED
    BY <2>1, <2>6
<1>6. Len(path) <= MaxAuditProofHashes
  BY <1>2, <1>4, <1>5, PathsAreShort DEF MaxAuditProofHashes
<1>7. path \in Seq(HashesIn(leaves))
  <2>1. <<1, Len(leaves)>> \in Spans(leaves)
    BY <1>2 DEF Spans, IsLevel
  <2>2. QED
    BY <1>2, <1>4, <2>1, PathsAreOfHashes DEF inclusionPath
<1>8. ~ \E i \in DOMAIN path : path[i] = Malformed
  <2>1. \A h \in HashesIn(leaves) : h # Malformed
    BY <1>2, <1>3, TreesAreOfHashes, HashesAreWhole
  <2>2. QED
    BY <1>7, <2>1
<1>9. rootFromInclusionProof(leaf, size, AuditLeafHash(hashes[leaf + 1]), path) = mth(leaves)
  BY <1>2, <1>3, <1>4, PathsLeadToTheRoot
<1>10. Len(path) \in Nat /\ ~(Len(path) > MaxAuditProofHashes) /\ size # 0 /\ ~(leaf >= size)
  BY <1>1, <1>6, <1>7 DEF MaxAuditProofHashes
<1>11. AuditInclusionRoot(leaf, size, hashes[leaf + 1], path) = AuditRoot(size)
  BY <1>4, <1>8, <1>9, <1>10 DEF AuditInclusionRoot
<1>12. QED
  BY <1>4, <1>6, <1>11 DEF leaves

\* What the walk to a root is along.
Path == IF item.kind = "row" THEN item.path ELSE p.hashes
Start == IF item.kind = "row" THEN Walk(item.leaf, item.size, AuditLeafHash(item.hash))
         ELSE Walk(p.index, p.size, leafHash(e.body))

\* It has climbed along a part of the path, and the rest is left.
Along ==
  IsPath(Path) =>
    /\ IsPath(left)
    /\ \E k \in 0 .. Len(Path) :
         /\ walk = Climbs(Start, Path)[k] /\ Len(left) = Len(Path) - k
         /\ \A j \in 1 .. Len(left) : left[j] = Path[k + j]

GenuineInv ==
  /\ pc = "online" => item.online /\ "copy" \in DOMAIN item
  /\ pc = "row" => item.kind = "row"
  /\ pc = "walk" => Along
  /\ pc = "done" /\ GenuineItem => verdict = "accepted"

\* The invariants proved so far.
Known == AuditInv /\ CertificateInv /\ TokenInv

\* By whatever anchor it is, the key that must have signed it is known.
GenuineKey == IF item.kind = "certificate" THEN WitnessKey ELSE AuditKey

\* An entry that is genuine is one that the log made, of what the pinned key signed.
LEMMA GenuineEntries ==
  ASSUME Known, GenuineItem, item.kind \in {"certificate", "root"}
  PROVE  /\ GenuineEntry(e) /\ item.key = GenuineKey
         /\ verifyHashedRekordBody(e.body, GenuineKey)
         /\ item.kind = "root" =>
              /\ e.body.digest = RootDigest(item.artifact) /\ ParsesArtifact(item.artifact)
              /\ item.signature = Signature(AuditKey, RootDigest(item.artifact))
<1>1. CASE item.kind = "certificate"
  BY <1>1 DEF GenuineItem, GenuineKey, Known, CertificateInv
<1>2. CASE item.kind = "root"
  <2>1. item.key = AuditKey /\ GenuineKey = AuditKey /\ GenuineEntry(e)
    BY <1>2 DEF GenuineItem, GenuineKey, Known, AuditInv, RootInv
  <2>2. PICK r \in C!Elements(publications) :
          r.anchored /\ e = r.entry /\ item.artifact = r.artifact /\ item.signature = r.signature
    BY <1>2 DEF GenuineItem
  <2>3. Published(r)
    BY DEF Known, AuditInv, LogInv
  <2>4. PICK n \in 1 .. Len(rekor) : \E log :
          /\ e = logBody(log, n, n) /\ log[n] = rekorEntryBy(AuditKey, RootDigest(item.artifact))
          /\ item.signature = Signature(AuditKey, RootDigest(item.artifact))
    BY <2>2, <2>3 DEF Published
  <2>5. e.body = rekorEntryBy(AuditKey, RootDigest(item.artifact))
    BY <2>4 DEF logBody
  <2>6. verifyHashedRekordBody(e.body, AuditKey) /\ e.body.digest = RootDigest(item.artifact)
    BY <2>5 DEF verifyHashedRekordBody, rekorEntryBy
  <2>7. ParsesArtifact(item.artifact)
    <3>1. /\ item.artifact.size \in 1 .. Len(hashes)
          /\ item.artifact = AuditRootArtifact(item.artifact.size, AuditRoot(item.artifact.size))
      BY <2>2, <2>3 DEF Published
    <3>2. item.artifact.canonical /\ item.artifact.root = AuditRoot(item.artifact.size)
      BY <3>1 DEF AuditRootArtifact
    <3>3. item.artifact.size \in Nat \ {0}
      BY <3>1 DEF Known, AuditInv, LogInv
    <3>4. AuditRoot(item.artifact.size) # Malformed
      BY <3>3, AuditRootsAreWhole
    <3>5. QED
      BY <3>2, <3>3, <3>4 DEF ParsesArtifact
  <2>8. QED
    BY <1>2, <2>1, <2>4, <2>6, <2>7
<1>3. QED
  BY <1>1, <1>2

\* So it verifies, and so does the log's copy of it.
LEMMA GenuineEntriesVerify ==
  ASSUME Known, GenuineItem, item.kind \in {"certificate", "root"}
  PROVE  /\ VerifyRekorBy(e, item.key) /\ e.proof = p
         /\ item.online => confirmOnline(item.entry, item.copy, item.key)
<1>1. rekor \in Seq(C!Elements(rekor))
  BY DEF Known, AuditInv, LogInv
<1>2. item.key = GenuineKey /\ GenuineEntry(e) /\ verifyHashedRekordBody(e.body, item.key)
  BY GenuineEntries
<1>3. PICK n \in 1 .. Len(rekor), i \in 1 .. Len(rekor) :
        i <= n /\ e.index = Offset + i - 1 /\ e = logBody(rekor, i, n)
  BY <1>2 DEF GenuineEntry
<1>4. i \in 1 .. n
  BY <1>1, <1>3
<1>5. VerifyRekorBy(e, item.key)
  BY <1>1, <1>2, <1>3, <1>4, LoggedEntriesVerify
<1>6. /\ e.proof = p /\ e.index = item.entry.index
      /\ item.entry.body \in {NoBody, e.body} /\ item.entry.time \in {0, e.time}
  BY <1>3, FilledKeeps
<1>7. ASSUME item.online PROVE confirmOnline(item.entry, item.copy, item.key)
  <2>1. PICK j \in DOMAIN rekor : item.copy = logBody(rekor, j, Len(rekor)) /\ item.copy.index = e.index
    BY <1>2, <1>7 DEF GenuineEntry
  <2>2. item.copy.index = Offset + j - 1 /\ item.copy.body = rekor[j] /\ item.copy.time = j
    BY <2>1 DEF logBody
  <2>3. j \in 1 .. Len(rekor) /\ Len(rekor) \in 1 .. Len(rekor)
    BY <1>1, <2>1
  <2>4. j = i
    BY <1>3, <2>1, <2>2, <2>3, AuditLogAssumption
  <2>5. e.body = rekor[j] /\ e.time = j
    BY <1>3, <2>4 DEF logBody
  <2>6. VerifyRekorBy(item.copy, item.key)
    BY <1>1, <1>2, <2>1, <2>2, <2>3, <2>5, LoggedEntriesVerify
  <2>7. item.copy # NoAnswer
    <3>1. item.copy.index >= 0
      BY <2>2, <2>3, AuditLogAssumption
    <3>2. NoAnswer.index = -1
      BY DEF NoAnswer
    <3>3. QED
      BY <3>1, <3>2
  <2>8. QED
    BY <1>6, <2>1, <2>2, <2>5, <2>6, <2>7 DEF confirmOnline
<1>8. QED
  BY <1>5, <1>6, <1>7

\* The path of what is genuine leads to the root, without an end before it.
LEMMA GenuinePaths ==
  ASSUME Known, GenuineItem, item.kind \in {"certificate", "root", "row"}
  PROVE  /\ IsPath(Path) /\ Len(Path) \in Nat
         /\ \A j \in 0 .. Len(Path) - 1 : Climbs(Start, Path)[j].sn # 0
         /\ Reached(Climbs(Start, Path)[Len(Path)]) =
              IF item.kind = "row" THEN item.root ELSE p.root
<1>1. CASE item.kind = "row"
  <2> DEFINE leaves == [i \in 1 .. item.size |-> AuditLeafHash(hashes[i])]
  <2>1. /\ item.leaf \in Nat /\ item.size \in Nat \ {0} /\ item.root = AuditRoot(item.size)
        /\ item.leaf < item.size /\ item.hash = hashes[item.leaf + 1]
        /\ item.path = inclusionPath(item.leaf, [i \in 1 .. item.size |-> leafHash(hashes[i])])
    BY <1>1 DEF GenuineItem, Known, AuditInv, RowInv, LogInv
  <2>2. IsLevel(leaves, item.size)
    BY <2>1, LeavesAreALevel
  <2>3. PICK index \in 0 .. item.size - 1 : index = item.leaf
    BY <2>1
  <2>4. item.root = mth(leaves)
    BY <2>1, <2>2, LevelsAreTheTree DEF AuditRoot, LevelsOf
  <2>5. leaves[index + 1] = AuditLeafHash(item.hash)
    BY <2>1, <2>3
  <2>6. item.path = inclusionPath(index, leaves)
    BY <2>1, <2>3 DEF AuditLeafHash
  <2> HIDE DEF leaves
  <2>7. Path = inclusionPath(index, leaves) /\ Start = Walk(index, item.size, leaves[index + 1])
    BY <1>1, <2>3, <2>5, <2>6 DEF Path, Start
  <2>8. /\ IsPath(Path)
        /\ \A j \in 0 .. Len(Path) - 1 : Climbs(Start, Path)[j].sn # 0
        /\ Climbs(Start, Path)[Len(Path)].sn = 0 /\ Climbs(Start, Path)[Len(Path)].r = mth(leaves)
    BY <2>2, <2>7, TreesMeet
  <2>9. QED
    BY <1>1, <2>4, <2>8 DEF IsPath, Reached
<1>2. CASE item.kind # "row"
  <2>1. rekor \in Seq(C!Elements(rekor))
    BY DEF Known, AuditInv, LogInv
  <2>2. GenuineEntry(e) /\ e.proof = p
    BY <1>2, GenuineEntries, GenuineEntriesVerify
  <2>3. PICK n \in 1 .. Len(rekor), i \in 1 .. Len(rekor) : i <= n /\ e = logBody(rekor, i, n)
    BY <2>2 DEF GenuineEntry
  <2> DEFINE leaves == LeavesOf(SubSeq(rekor, 1, n))
  <2>4. i \in 1 .. n
    BY <2>1, <2>3
  <2>5. IsLevel(leaves, n) /\ \A j \in 1 .. n : leaves[j] = leafHash(rekor[j])
    BY <2>1, LoggedLeaves
  <2>6. PICK index \in 0 .. n - 1 : index = i - 1 /\ index + 1 = i
    BY <2>4
  <2>7. /\ p.index = index /\ p.size = n /\ p.root = mth(leaves)
        /\ p.hashes = inclusionPath(index, leaves) /\ e.body = rekor[i]
    BY <2>2, <2>3, <2>6 DEF logBody, RekorRoot
  <2> HIDE DEF leaves
  <2>8. Path = inclusionPath(index, leaves) /\ Start = Walk(index, n, leaves[index + 1])
    BY <1>2, <2>4, <2>5, <2>6, <2>7 DEF Path, Start
  <2>9. /\ IsPath(Path)
        /\ \A j \in 0 .. Len(Path) - 1 : Climbs(Start, Path)[j].sn # 0
        /\ Climbs(Start, Path)[Len(Path)].sn = 0 /\ Climbs(Start, Path)[Len(Path)].r = mth(leaves)
    BY <2>5, <2>8, TreesMeet
  <2>10. QED
    BY <1>2, <2>7, <2>9 DEF IsPath, Reached
<1>3. QED
  BY <1>1, <1>2

\* What the roots vouch for by certificates that a token carries chains in that token.
LEMMA VouchedChains ==
  ASSUME NEW t, NEW c, NEW at, Vouched(c, at, Certified \cap C!Elements(t.certs))
  PROVE  T!ChainsAt(t, c, at)
<1>1. ASSUME NEW keys \in SUBSET T!KeysOf(t), T!VouchedFor(keys, t, at)
      PROVE  c.issuer \in keys
  <2> DEFINE part == keys \cap IssuingKeys
  <2>1. \A r \in TSARoots : T!InForce(r, at) => r.key \in part
    BY <1>1 DEF T!VouchedFor, IssuingKeys
  <2>2. ASSUME NEW d \in Certified \cap C!Elements(t.certs), d.eku = "ca", T!InForce(d, at),
               d.issuer \in part
        PROVE  d.key \in part
    BY <1>1, <2>2 DEF T!VouchedFor, IssuingKeys, C!Elements
  <2>3. QED
    BY <2>1, <2>2 DEF Vouched
<1>2. T!InForce(c, at)
  BY Zenon DEF Vouched
<1>3. QED
  BY <1>1, <1>2, Zenon DEF T!ChainsAt

\* What is verified is as genuine before a check as after it.
LEMMA GenuineBefore ==
  ASSUME item' = item, UNCHANGED logVars, GenuineItem'
  PROVE  GenuineItem
BY Zenon DEF GenuineItem, GenuineEntry, Stamped, Vouched, e, logVars

\* What each check is for.
LEMMA KindsOfChecks ==
  ASSUME Known, GenuineItem
  PROVE  /\ pc \in {"online", "entry", "proof", "body"} => item.kind \in {"certificate", "root"}
         /\ pc = "root" => item.kind = "root"
         /\ pc = "token" => item.kind = "token"
         /\ pc = "row" => item.kind = "row"
         /\ pc = "walk" => item.kind \in {"certificate", "root", "row"}
BY DEF GenuineItem, Known, CertificateInv, AuditInv, RootInv, RowInv, TokenInv

\* While the services work and when something is presented nothing is decided.
LEMMA PresentGenuineInv ==
  ASSUME Known, GenuineInv,
         Work \/ PresentCertificate \/ PresentToken \/ PresentRoot \/ PresentRow
  PROVE  GenuineInv'
<1>1. CASE Work
  BY <1>1 DEF Work, checkVars, GenuineInv
<1>2. CASE PresentCertificate \/ PresentToken \/ PresentRoot
  <2>1. pc' \in {"online", "entry", "token", "root"}
    BY <1>2 DEF PresentCertificate, PresentToken, PresentRoot, Present
  <2>2. CASE PresentCertificate
    BY <2>1, <2>2 DEF PresentCertificate, Present, GenuineInv
  <2>3. CASE PresentToken
    BY <2>1, <2>3 DEF PresentToken, Present, GenuineInv
  <2>4. CASE PresentRoot
    <3>1. PICK a, signature, entry, online :
            Present([kind |-> "root", artifact |-> a, signature |-> signature,
                     entry |-> entry, key |-> AuditKey, copy |-> NoAnswer,
                     online |-> online], IF online THEN "online" ELSE "root")
      BY <2>4, Zenon DEF PresentRoot
    <3>2. QED
      BY <2>1, <3>1 DEF Present, GenuineInv
  <2>5. QED
    BY <1>2, <2>2, <2>3, <2>4
<1>3. CASE PresentRow
  <2>1. PICK leaf, hash, path, size, root :
          Present([kind |-> "row", leaf |-> leaf, hash |-> hash, path |-> path,
                   size |-> size, root |-> root], "row")
    BY <1>3, Zenon DEF PresentRow
  <2>2. QED
    BY <2>1 DEF Present, GenuineInv
<1>4. QED
  BY <1>1, <1>2, <1>3

\* No check but that of an answer changes what is verified.
OfTheStored ==
  \/ CheckToken \/ CheckRoot \/ CheckEntry \/ CheckProof \/ CheckRow
  \/ ClimbOne \/ EndWalk \/ CheckBody

LEMMA OfTheStoredKeeps ==
  ASSUME OfTheStored
  PROVE  /\ item' = item /\ UNCHANGED logVars /\ pc' \notin {"online", "row"}
         /\ pc' = "walk" => CheckProof \/ CheckRow \/ ClimbOne
BY DEF OfTheStored, CheckToken, CheckRoot, CheckEntry, Check, CheckProof, CheckRow, StartWalk,
       ClimbOne, EndWalk, CheckBody, goto, end

\* A walk begins, and goes on by one sibling.
LEMMA WalksAlong ==
  ASSUME Known, GenuineInv, OfTheStored, pc' = "walk"
  PROVE  Along'
<1>1. item' = item /\ Path' = Path /\ Start' = Start
  BY OfTheStoredKeeps DEF Path, Start, p, e
<1>2. SUFFICES ASSUME IsPath(Path)
               PROVE  /\ IsPath(left')
                      /\ \E k \in 0 .. Len(Path) :
                           /\ walk' = Climbs(Start, Path)[k] /\ Len(left') = Len(Path) - k
                           /\ \A j \in 1 .. Len(left') : left'[j] = Path[k + j]
  BY <1>1 DEF Along
<1>3. /\ Len(Path) \in Nat /\ Climbs(Start, Path)[0] = Start
      /\ \A k \in 1 .. Len(Path) : Climbs(Start, Path)[k] = Climb(Climbs(Start, Path)[k - 1], Path[k])
  <2>1. Len(Path) \in Nat
    BY <1>2 DEF IsPath
  <2>2. QED
    BY <2>1, ClimbsSteps
<1>4. CASE CheckProof \/ CheckRow
  <2>1. walk' = Start /\ left' = Path
    <3>1. CASE CheckProof
      <4>1. pc = "proof" /\ walk' = Walk(p.index, p.size, leafHash(e.body)) /\ left' = p.hashes
        BY <3>1 DEF CheckProof, StartWalk, end
      <4>2. item.kind # "row"
        BY <4>1 DEF Known, AuditInv, RowInv
      <4>3. QED
        BY <4>1, <4>2 DEF Path, Start
    <3>2. CASE CheckRow
      BY <3>2 DEF CheckRow, StartWalk, end, GenuineInv, Path, Start
    <3>3. QED
      BY <1>4, <3>1, <3>2
  <2>2. 0 \in 0 .. Len(Path) /\ Len(left') = Len(Path) - 0
        /\ \A j \in 1 .. Len(left') : left'[j] = Path[0 + j]
    BY <1>3, <2>1
  <2>3. QED
    BY <1>2, <1>3, <2>1, <2>2
<1>5. CASE ClimbOne
  <2>1. /\ pc = "walk" /\ left # <<>> /\ walk' = Climb(walk, Head(left)) /\ left' = Tail(left)
    BY <1>5 DEF ClimbOne
  <2>2. IsPath(left)
    BY <1>2, <2>1 DEF GenuineInv, Along
  <2>3. PICK k \in 0 .. Len(Path) :
          /\ walk = Climbs(Start, Path)[k] /\ Len(left) = Len(Path) - k
          /\ \A j \in 1 .. Len(left) : left[j] = Path[k + j]
    BY <1>2, <2>1 DEF GenuineInv, Along
  <2>4. /\ Len(left) \in Nat \ {0} /\ Head(left) = left[1]
        /\ IsPath(left') /\ Len(left') = Len(left) - 1
        /\ \A j \in 1 .. Len(left') : left'[j] = left[j + 1]
    <3>1. PICK S : left \in Seq(S)
      BY <2>2 DEF IsPath
    <3>2. left' \in Seq(S)
      BY <2>1, <3>1
    <3>3. QED
      BY <2>1, <3>1, <3>2 DEF IsPath
  <2> HIDE DEF Path, Start
  <2>5. PICK i \in 1 .. Len(Path) : i = k + 1 /\ i - 1 = k
    BY <1>3, <2>3, <2>4
  <2>6. Head(left) = Path[i] /\ walk' = Climbs(Start, Path)[i]
    BY <1>3, <2>1, <2>3, <2>4, <2>5
  <2>7. Len(left') = Len(Path) - i
    BY <1>3, <2>3, <2>4, <2>5
  <2>8. ASSUME NEW j \in 1 .. Len(left') PROVE left'[j] = Path[i + j]
    <3>1. j + 1 \in 1 .. Len(left) /\ k + (j + 1) = i + j
      BY <1>3, <2>4, <2>5
    <3>2. QED
      BY <2>3, <2>4, <3>1
  <2>9. i \in 0 .. Len(Path)
    BY <1>3
  <2>10. QED
    BY <2>4, <2>6, <2>7, <2>8, <2>9
<1>6. QED
  BY <1>4, <1>5, OfTheStoredKeeps

\* At the end of the walk nothing is left of the path.
LEMMA WalkedAlong ==
  ASSUME Known, GenuineInv, GenuineItem, pc = "walk"
  PROVE  /\ left # <<>> => walk.sn # 0
         /\ left = <<>> => Reached(walk) = IF item.kind = "row" THEN item.root ELSE p.root
<1>1. item.kind \in {"certificate", "root", "row"}
  BY KindsOfChecks
<1>2. /\ IsPath(Path) /\ Len(Path) \in Nat
      /\ \A j \in 0 .. Len(Path) - 1 : Climbs(Start, Path)[j].sn # 0
      /\ Reached(Climbs(Start, Path)[Len(Path)]) = IF item.kind = "row" THEN item.root ELSE p.root
  BY <1>1, GenuinePaths
<1>3. IsPath(left)
  BY <1>2 DEF GenuineInv, Along
<1>4. PICK k \in 0 .. Len(Path) : walk = Climbs(Start, Path)[k] /\ Len(left) = Len(Path) - k
  BY <1>2 DEF GenuineInv, Along
<1> HIDE DEF Path, Start
<1>5. Len(left) \in Nat /\ (left = <<>> <=> Len(left) = 0)
  BY <1>3 DEF IsPath
<1>6. CASE left = <<>>
  <2>1. k = Len(Path)
    BY <1>2, <1>4, <1>5, <1>6
  <2>2. QED
    BY <1>2, <1>4, <1>6, <2>1
<1>7. CASE left # <<>>
  <2>1. k \in 0 .. Len(Path) - 1
    BY <1>2, <1>4, <1>5, <1>7
  <2>2. QED
    BY <1>2, <1>4, <1>7, <2>1
<1>8. QED
  BY <1>6, <1>7

\* No check rejects what is genuine.
LEMMA GenuinePasses ==
  ASSUME Known, GenuineInv, GenuineItem, OfTheStored, pc' = "done"
  PROVE  verdict' = "accepted"
<1>1. CASE item.kind \in {"certificate", "root"}
  <2>1. VerifyRekorBy(e, item.key) /\ e.proof = p
    BY <1>1, GenuineEntriesVerify
  <2>2. /\ Stored(e) /\ e.index >= 0 /\ VerifySET(e) /\ ReadsProof(p) /\ SignedRoot(p)
        /\ p.index <= e.index /\ verifyHashedRekordBody(e.body, item.key)
    BY <2>1 DEF VerifyRekorBy
  <2>3. item.kind = "root" =>
          /\ e.body.digest = RootDigest(item.artifact) /\ ParsesArtifact(item.artifact)
          /\ item.signature = Signature(AuditKey, RootDigest(item.artifact))
    BY <1>1, GenuineEntries
  <2>4. pc = "root" => item.kind = "root"
    BY KindsOfChecks
  <2>5. pc \notin {"token", "row"}
    BY <1>1, KindsOfChecks
  <2>6. CASE CheckRoot
    BY <2>3, <2>4, <2>6 DEF CheckRoot, Check, goto
  <2>7. CASE CheckEntry
    BY <2>2, <2>7 DEF CheckEntry, Check, goto
  <2>8. CASE CheckProof
    BY <2>2, <2>8 DEF CheckProof, StartWalk, goto
  <2>9. CASE ClimbOne
    BY <2>9, WalkedAlong DEF ClimbOne, goto
  <2>10. CASE EndWalk
    BY <1>1, <2>2, <2>10, WalkedAlong DEF EndWalk, goto
  <2>11. CASE CheckBody
    BY <2>2, <2>3, <2>11 DEF CheckBody, end
  <2>12. ~CheckToken /\ ~CheckRow
    BY <2>5 DEF CheckToken, CheckRow, StartWalk
  <2>13. QED
    BY <2>6, <2>7, <2>8, <2>9, <2>10, <2>11, <2>12 DEF OfTheStored
<1>2. CASE item.kind = "row"
  <2>1. pc \in {"row", "walk"}
    <3>1. pc \in {"row", "walk", "done"}
      BY <1>2 DEF Known, AuditInv, RowInv
    <3>2. pc # "done"
      BY DEF OfTheStored, CheckToken, CheckRoot, CheckEntry, Check, CheckProof, CheckRow, StartWalk,
             ClimbOne, EndWalk, CheckBody
    <3>3. QED
      BY <3>1, <3>2
  <2>2. CheckRow \/ ClimbOne \/ EndWalk
    BY <2>1 DEF OfTheStored, CheckToken, CheckRoot, CheckEntry, Check, CheckProof, StartWalk, CheckBody
  <2>3. CASE CheckRow
    <3>1. item.size \in 1 .. Len(hashes) /\ item.leaf \in 0 .. item.size - 1 /\ LogInv
      BY <1>2 DEF GenuineItem, Known, AuditInv, RowInv, LogInv
    <3>2. item.path = inclusionPath(item.leaf, [i \in 1 .. item.size |-> AuditLeafHash(hashes[i])])
      BY <1>2 DEF GenuineItem, AuditLeafHash
    <3>3. Len(item.path) <= MaxAuditProofHashes
      BY <3>1, <3>2, AuditPathsVerify
    <3>4. item.leaf < item.size
      BY <1>2 DEF GenuineItem
    <3>5. QED
      BY <2>3, <3>3, <3>4 DEF CheckRow, StartWalk, goto
  <2>4. CASE ClimbOne
    BY <2>4, WalkedAlong DEF ClimbOne, goto
  <2>5. CASE EndWalk
    BY <1>2, <2>5, WalkedAlong DEF EndWalk, end
  <2>6. QED
    BY <2>2, <2>3, <2>4, <2>5
<1>3. CASE item.kind = "token"
  <2>1. pc \in {"token", "done"}
    BY <1>3 DEF Known, TokenInv
  <2>2. CheckToken
    BY <2>1 DEF OfTheStored, CheckToken, CheckRoot, CheckEntry, Check, CheckProof, CheckRow,
                StartWalk, ClimbOne, EndWalk, CheckBody
  <2>3. T!VerifyTimestamp(item.token, item.expected)
    <3> DEFINE carried == Certified \cap C!Elements(item.token.certs)
               signer == T!findSigner(item.token)
    <3>1. /\ item.token \in Issued /\ item.token.tst.imprint = item.expected
          /\ Stamped(item.token, carried)
      BY <1>3, Zenon DEF GenuineItem
    <3>2. TokenIssued(item.token)
      BY <3>1, TokensAssumption
    <3>3. T!checkSignedAttrs(item.token, T!findSigner(item.token))
      BY <3>2 DEF TokenIssued, T!checkSignedAttrs
    <3>4. T!checkCMSSignature(item.token, T!findSigner(item.token))
      BY <3>2, Zenon DEF TokenIssued, T!checkCMSSignature, Signature
    <3>5. /\ signer.eku = "time-stamping" /\ item.token.tst.time <= Now + ClockSkew
          /\ Vouched(signer, item.token.tst.time, carried)
      BY <3>1, Zenon DEF Stamped, Authority
    <3>6. T!ChainsAt(item.token, signer, item.token.tst.time)
      BY <3>5, VouchedChains
    <3>7. QED
      BY <3>1, <3>2, <3>3, <3>4, <3>5, <3>6, Zenon DEF TokenIssued, T!VerifyTimestamp
  <2>4. QED
    BY <2>2, <2>3 DEF CheckToken, end
<1>4. QED
  BY <1>1, <1>2, <1>3 DEF GenuineItem

\* Nor does the log's copy, as it stands when it is asked for.
Confirms ==
  Known /\ GenuineItem /\ item.kind \in {"certificate", "root"} /\ item.online =>
    confirmOnline(item.entry, item.copy, item.key)

LEMMA CopiesConfirm == Confirms'
<1>1. Confirms
  BY GenuineEntriesVerify DEF Confirms
<1>2. QED
  BY <1>1, PTL

LEMMA ConfirmGenuineInv ==
  ASSUME Known, Known', GenuineInv, ConfirmOnline
  PROVE  GenuineInv'
<1>1. PICK fe \in Answers :
        /\ pc = "online" /\ item' = [item EXCEPT !.copy = fe]
        /\ pc' \in {"root", "entry", "done"}
        /\ pc' = "done" => ~confirmOnline(item.entry, fe, item.key)
  BY DEF ConfirmOnline, goto, end
<1>2. SUFFICES ASSUME pc' = "done", GenuineItem' PROVE FALSE
  BY <1>1 DEF GenuineInv
<1>3. /\ item'.kind = item.kind /\ item'.entry = item.entry /\ item'.key = item.key
      /\ item'.online = item.online /\ item'.copy = fe
  BY <1>1 DEF GenuineInv
<1>4. item.kind \in {"certificate", "root"}
  <2>1. item.kind \in {"certificate", "root", "row", "token"}
    BY <1>2, <1>3 DEF GenuineItem
  <2>2. QED
    BY <1>1, <2>1 DEF Known, AuditInv, RowInv, TokenInv
<1>5. item.online
  BY <1>1 DEF GenuineInv
<1>6. confirmOnline(item'.entry, item'.copy, item'.key)
  BY <1>2, <1>3, <1>4, <1>5, CopiesConfirm DEF Confirms
<1>7. QED
  BY <1>1, <1>2, <1>3, <1>6

\* At every point what is genuine may still be accepted, and nothing else is decided.
THEOREM GenuineGoesOn == Spec => []GenuineInv
<1>1. Init => GenuineInv
  BY DEF Init, GenuineInv
<1>2. Known /\ Known' /\ GenuineInv /\ [Next]_vars => GenuineInv'
  <2>1. SUFFICES ASSUME Known, Known', GenuineInv, [Next]_vars PROVE GenuineInv'
    OBVIOUS
  <2>2. CASE Work \/ PresentCertificate \/ PresentToken \/ PresentRoot \/ PresentRow
    BY <2>1, <2>2, PresentGenuineInv
  <2>3. CASE ConfirmOnline
    BY <2>1, <2>3, ConfirmGenuineInv
  <2>4. CASE OfTheStored
    <3>1. pc' = "done" /\ GenuineItem' => verdict' = "accepted"
      BY <2>1, <2>4, OfTheStoredKeeps, GenuineBefore, GenuinePasses
    <3>2. QED
      BY <2>1, <2>4, <3>1, OfTheStoredKeeps, WalksAlong DEF GenuineInv
  <2>5. CASE UNCHANGED vars
    <3>1. item' = item /\ UNCHANGED logVars /\ pc' = pc /\ verdict' = verdict
      BY <2>5 DEF vars, checkVars
    <3>2. GenuineItem' => GenuineItem
      BY <3>1, GenuineBefore
    <3>3. Along => Along'
      BY <2>5 DEF vars, checkVars, Along, Path, Start, p, e
    <3>4. QED
      BY <2>1, <3>1, <3>2, <3>3 DEF GenuineInv
  <2>6. QED
    BY <2>1, <2>2, <2>3, <2>4, <2>5 DEF Next, OfTheStored
<1>3. QED
  BY <1>1, <1>2, AuditLogStands, Walked, Stamps, PTL DEF Spec, Known

\* No anchor as it was stored is refused: GenuineAnchorsVerify.
THEOREM GenuineIsAccepted == Spec => []GenuineAnchorsVerify
<1>1. GenuineInv => GenuineAnchorsVerify
  BY DEF GenuineInv, GenuineAnchorsVerify
<1>2. QED
  BY GenuineGoesOn, <1>1, PTL

(* What the audit service proves of its rows.                                *)

\* A counted row is the one that the log has at its leaf.
RowsAreLogged ==
  /\ rows = [c \in Conversations |-> rows[c]]
  /\ \A c \in Conversations :
       /\ rows[c] \in Seq(C!Elements(rows[c]))
       /\ \A x \in C!Elements(rows[c]) :
            x.leaf \in 0 .. Len(hashes) - 1 /\ x.hash = hashes[x.leaf + 1]

\* audit.go:154 (AuditTreePath) against auditroot.go:85 (AuditInclusionRoot): of every
\* counted row, under every root that covers it, whichever keys published that, the
\* path that the service computes from all the rows leads to that root.
RowsAreProven ==
  \A c \in Conversations : \A x \in C!Elements(rows[c]), r \in C!Elements(publications) :
    Covers(r, x) =>
      AuditInclusionRoot(x.leaf, r.artifact.size, x.hash, ProofUnder(x, r).path) = r.artifact.root

LEMMA RecordKeepsRows ==
  ASSUME LogInv, RowsAreLogged, NEW conv \in Conversations, Record(conv)
  PROVE  RowsAreLogged'
<1>1. PICK row : /\ row.leaf = Len(hashes) /\ hashes' = Append(hashes, row.hash)
                 /\ rows' = [rows EXCEPT ![conv] = Append(@, row)]
  <2> DEFINE row == CountedRow(conv, seqs[conv] + 1, Len(hashes))
  <2>1. hashes' = Append(hashes, row.hash) /\ rows' = [rows EXCEPT ![conv] = Append(@, row)]
    BY Zenon DEF Record
  <2>2. row.leaf = Len(hashes)
    BY DEF CountedRow
  <2> HIDE DEF row
  <2>3. QED
    BY <2>1, <2>2
<1>2. /\ Len(hashes') = Len(hashes) + 1 /\ Len(hashes) \in Nat
      /\ \A i \in 1 .. Len(hashes) : hashes'[i] = hashes[i]
      /\ hashes'[Len(hashes) + 1] = row.hash
  BY <1>1, Grows DEF LogInv
<1>3. ASSUME NEW c \in Conversations
      PROVE  /\ rows'[c] \in Seq(C!Elements(rows'[c]))
             /\ \A x \in C!Elements(rows'[c]) : x \in C!Elements(rows[c]) \/ x = row
  <2>1. rows'[c] = rows[c] \/ rows'[c] = Append(rows[c], row)
    BY <1>1 DEF RowsAreLogged
  <2>2. rows[c] \in Seq(C!Elements(rows[c]))
    BY DEF RowsAreLogged
  <2>3. CASE rows'[c] = rows[c]
    BY <2>2, <2>3
  <2>4. CASE rows'[c] = Append(rows[c], row)
    <3> DEFINE t == Append(rows[c], row)
    <3>1. t \in Seq(C!Elements(t)) /\ \A y \in C!Elements(t) : y \in C!Elements(rows[c]) \/ y = row
      BY <2>2, Grows
    <3>2. QED
      BY <2>4, <3>1
  <2>5. QED
    BY <2>1, <2>3, <2>4
<1>4. rows' = [c \in Conversations |-> rows'[c]]
  BY <1>1 DEF RowsAreLogged
<1>5. ASSUME NEW c \in Conversations, NEW x \in C!Elements(rows'[c])
      PROVE  x.leaf \in 0 .. Len(hashes') - 1 /\ x.hash = hashes'[x.leaf + 1]
  <2>1. CASE x = row
    BY <1>1, <1>2, <2>1
  <2>2. CASE x \in C!Elements(rows[c])
    <3>1. x.leaf \in 0 .. Len(hashes) - 1 /\ x.hash = hashes[x.leaf + 1]
      BY <2>2 DEF RowsAreLogged
    <3>2. QED
      BY <1>2, <3>1
  <2>3. QED
    BY <1>3, <2>1, <2>2
<1>6. QED
  BY <1>3, <1>4, <1>5 DEF RowsAreLogged

\* The rows of a conversation have its numbers in order, and the order of the log.
RowsAreNumbered ==
  /\ seqs = [c \in Conversations |-> Len(rows[c])]
  /\ \A c \in Conversations : \A i \in 1 .. Len(rows[c]) :
       /\ rows[c][i] = CountedRow(c, i, rows[c][i].leaf)
       /\ \A j \in 1 .. i - 1 : rows[c][j].leaf < rows[c][i].leaf

\* And roots are numbered as they are published.
RootsAreNumbered == \A i \in 1 .. Len(publications) : publications[i].id = i

LEMMA RecordNumbersRows ==
  ASSUME LogInv, RowsAreLogged, RowsAreNumbered, NEW conv \in Conversations, Record(conv)
  PROVE  RowsAreNumbered'
<1> DEFINE row == CountedRow(conv, seqs[conv] + 1, Len(hashes))
<1>1. /\ seqs' = [seqs EXCEPT ![conv] = @ + 1]
      /\ rows' = [rows EXCEPT ![conv] = Append(@, row)]
  BY Zenon DEF Record
<1>2. row.leaf = Len(hashes) /\ seqs[conv] = Len(rows[conv])
  BY DEF RowsAreNumbered, CountedRow
<1>3. row = CountedRow(conv, Len(rows[conv]) + 1, row.leaf)
  BY <1>2, Zenon
<1> HIDE DEF row
<1>4. /\ rows[conv] \in Seq(C!Elements(rows[conv]))
      /\ Len(Append(rows[conv], row)) = Len(rows[conv]) + 1 /\ Len(rows[conv]) \in Nat
      /\ \A i \in 1 .. Len(rows[conv]) : Append(rows[conv], row)[i] = rows[conv][i]
      /\ Append(rows[conv], row)[Len(rows[conv]) + 1] = row
  BY Grows DEF RowsAreLogged
<1>5. /\ rows' = [c \in Conversations |-> IF c = conv THEN Append(rows[conv], row) ELSE rows[c]]
      /\ \A c \in Conversations : c # conv => rows'[c] = rows[c]
      /\ rows'[conv] = Append(rows[conv], row)
  BY <1>1 DEF RowsAreLogged
<1>6. seqs' = [c \in Conversations |-> Len(rows'[c])]
  <2>1. \A c \in Conversations :
          Len(rows'[c]) = IF c = conv THEN Len(rows[conv]) + 1 ELSE Len(rows[c])
    BY <1>4, <1>5
  <2>2. seqs' = [c \in Conversations |-> IF c = conv THEN Len(rows[conv]) + 1 ELSE Len(rows[c])]
    BY <1>1 DEF RowsAreNumbered
  <2>3. QED
    BY <2>1, <2>2
<1>7. ASSUME NEW i \in 1 .. Len(rows'[conv])
      PROVE  /\ rows'[conv][i] = CountedRow(conv, i, rows'[conv][i].leaf)
             /\ \A j \in 1 .. i - 1 : rows'[conv][j].leaf < rows'[conv][i].leaf
  <2>1. CASE i \in 1 .. Len(rows[conv])
    <3>1. \A j \in 1 .. i : j \in 1 .. Len(rows[conv])
      BY <1>4, <2>1
    <3>2. \A j \in 1 .. i : rows'[conv][j] = rows[conv][j]
      BY <1>4, <1>5, <3>1
    <3>3. i \in 1 .. i /\ \A j \in 1 .. i - 1 : j \in 1 .. i
      BY <1>4, <2>1
    <3>4. /\ rows[conv][i] = CountedRow(conv, i, rows[conv][i].leaf)
          /\ \A j \in 1 .. i - 1 : rows[conv][j].leaf < rows[conv][i].leaf
      BY <2>1 DEF RowsAreNumbered
    <3>5. QED
      BY <3>2, <3>3, <3>4
  <2>2. CASE i = Len(rows[conv]) + 1
    <3>1. rows'[conv][i] = row /\ \A j \in 1 .. i - 1 : rows'[conv][j] = rows[conv][j]
      BY <1>4, <1>5, <2>2
    <3>2. ASSUME NEW j \in 1 .. i - 1 PROVE rows[conv][j].leaf < Len(hashes)
      <4>1. rows[conv][j] \in C!Elements(rows[conv])
        BY <1>4, <2>2 DEF C!Elements
      <4>2. rows[conv][j].leaf \in 0 .. Len(hashes) - 1
        BY <4>1 DEF RowsAreLogged
      <4>3. QED
        BY <4>2 DEF LogInv
    <3>3. QED
      BY <1>2, <1>3, <2>2, <3>1, <3>2
  <2>3. QED
    BY <1>4, <1>5, <2>1, <2>2
<1>8. ASSUME NEW c \in Conversations, NEW i \in 1 .. Len(rows'[c])
      PROVE  /\ rows'[c][i] = CountedRow(c, i, rows'[c][i].leaf)
             /\ \A j \in 1 .. i - 1 : rows'[c][j].leaf < rows'[c][i].leaf
  <2>1. CASE c = conv
    BY <1>7, <2>1
  <2>2. CASE c # conv
    BY <1>5, <2>2 DEF RowsAreNumbered
  <2>3. QED
    BY <2>1, <2>2
<1>9. QED
  <2>1. ASSUME NEW c, NEW n, NEW leaf PROVE CountedRow(c, n, leaf)' = CountedRow(c, n, leaf)
    BY DEF CountedRow
  <2>2. QED
    BY <1>6, <1>8 DEF RowsAreNumbered

LEMMA PublishNumbersRoots ==
  ASSUME LogInv, RootsAreNumbered, NEW sigKey, NEW logKey, PublishBy(sigKey, logKey)
  PROVE  RootsAreNumbered'
<1>1. PICK x : x.id = Len(publications) + 1 /\ publications' = Append(publications, x)
  <2>1. \E anchored, artifact, signature, entry :
          publications' = Append(publications,
            [id |-> Len(publications) + 1, anchored |-> anchored, artifact |-> artifact,
             signature |-> signature, entry |-> entry])
    BY Zenon DEF PublishBy
  <2>2. QED
    BY <2>1
<1>2. /\ Len(publications') = Len(publications) + 1 /\ Len(publications) \in Nat
      /\ \A i \in 1 .. Len(publications) : publications'[i] = publications[i]
      /\ publications'[Len(publications) + 1] = x
  BY <1>1, Grows DEF LogInv
<1>3. QED
  BY <1>1, <1>2 DEF RootsAreNumbered

ExportInv == RowsAreLogged /\ RowsAreNumbered /\ RootsAreNumbered

\* What is counted and what is published stands where it is, while both grow.
THEOREM RowsStand == Spec => []ExportInv
<1>1. Init => ExportInv
  BY DEF Init, LogInit, ExportInv, RowsAreLogged, RowsAreNumbered, RootsAreNumbered, C!Elements
<1>2. ASSUME RowsAreNumbered, rows' = rows, seqs' = seqs PROVE RowsAreNumbered'
  <2>1. ASSUME NEW c, NEW n, NEW leaf PROVE CountedRow(c, n, leaf)' = CountedRow(c, n, leaf)
    BY DEF CountedRow
  <2>2. QED
    BY <1>2, <2>1 DEF RowsAreNumbered
<1>3. AuditInv /\ ExportInv /\ [Next]_vars => ExportInv'
  <2>1. SUFFICES ASSUME AuditInv, ExportInv, [Next]_vars PROVE ExportInv'
    OBVIOUS
  <2>2. CASE \E conv \in Conversations : Record(conv)
    <3>1. publications' = publications
      BY <2>2 DEF Record
    <3>2. RowsAreLogged' /\ RowsAreNumbered'
      BY <2>1, <2>2, RecordKeepsRows, RecordNumbersRows DEF AuditInv, ExportInv
    <3>3. QED
      BY <2>1, <3>1, <3>2 DEF ExportInv, RootsAreNumbered
  <2>3. CASE Filler
    <3>1. /\ \E x : hashes' = Append(hashes, x)
          /\ rows' = rows /\ seqs' = seqs /\ publications' = publications
      BY <2>3, Zenon DEF Filler
    <3>2. /\ Len(hashes') = Len(hashes) + 1 /\ Len(hashes) \in Nat
          /\ \A i \in 1 .. Len(hashes) : hashes'[i] = hashes[i]
      BY <2>1, <3>1, Grows DEF AuditInv, LogInv
    <3>3. \A x : x \in 0 .. Len(hashes) - 1 =>
                   x \in 0 .. Len(hashes') - 1 /\ hashes'[x + 1] = hashes[x + 1]
      BY <3>2
    <3>4. RowsAreLogged'
      BY <2>1, <3>1, <3>3 DEF ExportInv, RowsAreLogged
    <3>5. QED
      BY <1>2, <2>1, <3>1, <3>4 DEF ExportInv, RootsAreNumbered
  <2>4. CASE \E sigKey, logKey \in {AuditKey, OtherKey} : PublishBy(sigKey, logKey)
    <3>1. rows' = rows /\ seqs' = seqs /\ hashes' = hashes
      BY <2>4 DEF PublishBy
    <3>2. RootsAreNumbered'
      BY <2>1, <2>4, PublishNumbersRoots DEF AuditInv, ExportInv
    <3>3. QED
      BY <1>2, <2>1, <3>1, <3>2 DEF ExportInv, RowsAreLogged
  <2>5. CASE PresentCertificate \/ PresentToken \/ PresentRoot \/ PresentRow \/ Verifies
             \/ UNCHANGED vars
    <3>1. UNCHANGED logVars
      BY <2>1, <2>5, VerifyingKeeps DEF PresentCertificate, PresentToken, PresentRoot, PresentRow,
         Present, vars
    <3>2. rows' = rows /\ seqs' = seqs /\ hashes' = hashes /\ publications' = publications
      BY <3>1 DEF logVars
    <3>3. QED
      BY <1>2, <2>1, <3>2 DEF ExportInv, RowsAreLogged, RootsAreNumbered
  <2>6. QED
    BY <2>1, <2>2, <2>3, <2>4, <2>5 DEF Next, Work, Verifies
<1>4. QED
  BY <1>1, <1>3, AuditLogStands, PTL DEF Spec

\* Every path that the audit service hands out leads to the root it is for: RowsAreProven.
THEOREM PathsOfRowsVerify == Spec => []RowsAreProven
<1>1. AuditInv /\ RowsAreLogged => RowsAreProven
  <2>1. SUFFICES ASSUME AuditInv, RowsAreLogged, NEW c \in Conversations,
                        NEW x \in C!Elements(rows[c]), NEW r \in C!Elements(publications),
                        Covers(r, x)
                 PROVE  AuditInclusionRoot(x.leaf, r.artifact.size, x.hash, ProofUnder(x, r).path)
                          = r.artifact.root
    BY DEF RowsAreProven
  <2>2. Published(r) /\ LogInv
    BY <2>1 DEF AuditInv, LogInv
  <2>3. /\ r.artifact.size \in 1 .. Len(hashes)
        /\ r.artifact.root = AuditRoot(r.artifact.size)
    BY <2>2 DEF Published, AuditRootArtifact
  <2>4. x.leaf \in 0 .. r.artifact.size - 1 /\ x.hash = hashes[x.leaf + 1]
    BY <2>1, <2>2, <2>3 DEF RowsAreLogged, Covers, LogInv
  <2>5. ProofUnder(x, r).path = AuditTreePath(LevelsOf(r.artifact.size), x.leaf)
    BY DEF ProofUnder
  <2>6. QED
    BY <2>2, <2>3, <2>4, <2>5, AuditPathsVerify
<1>2. QED
  BY <1>1, AuditLogStands, RowsStand, PTL DEF ExportInv

(* Exports.                                                                  *)

\* How many numbers of a set are below one of them.
Rank(S, n) == Cardinality({m \in S : m < n})

LEMMA RanksAreDistinct ==
  ASSUME NEW S \in SUBSET Nat, IsFiniteSet(S)
  PROVE  /\ \A n \in S : Rank(S, n) \in 0 .. Cardinality(S) - 1
         /\ \A n, m \in S : m < n => Rank(S, m) < Rank(S, n)
<1> DEFINE below(n) == {m \in S : m < n}
<1>1. Cardinality(S) \in Nat
  BY FS_CardinalityType
<1>2. ASSUME NEW n \in S
      PROVE  IsFiniteSet(below(n)) /\ Rank(S, n) \in 0 .. Cardinality(S) - 1
  <2>1. IsFiniteSet(S \ {n}) /\ Cardinality(S \ {n}) = Cardinality(S) - 1
    BY FS_RemoveElement
  <2>2. below(n) \subseteq S \ {n}
    OBVIOUS
  <2>3. /\ IsFiniteSet(below(n)) /\ Cardinality(below(n)) <= Cardinality(S \ {n})
        /\ Cardinality(below(n)) \in Nat
    BY <2>1, <2>2, FS_Subset, FS_CardinalityType
  <2>4. QED
    BY <1>1, <2>1, <2>3 DEF Rank
<1>3. ASSUME NEW n \in S, NEW m \in S, m < n
      PROVE  Rank(S, m) < Rank(S, n)
  <2>1. m \notin below(m) /\ below(m) \cup {m} \subseteq below(n)
    <3>1. m \in Nat /\ n \in Nat
      OBVIOUS
    <3>2. ~(m < m) /\ \A k \in Nat : k < m => k < n
      BY <1>3, <3>1
    <3>3. QED
      BY <1>3, <3>2
  <2>2. IsFiniteSet(below(m)) /\ IsFiniteSet(below(n))
    BY <1>2
  <2>3. /\ IsFiniteSet(below(m) \cup {m})
        /\ Cardinality(below(m) \cup {m}) = Cardinality(below(m)) + 1
    BY <2>1, <2>2, FS_AddElement
  <2>4. Cardinality(below(m) \cup {m}) <= Cardinality(below(n))
    BY <2>1, <2>2, FS_Subset
  <2>5. Rank(S, m) \in Nat /\ Rank(S, n) \in Nat
    BY <2>2, FS_CardinalityType DEF Rank
  <2>6. QED
    BY <2>3, <2>4, <2>5 DEF Rank
<1>4. QED
  BY <1>2, <1>3

\* A sorted list has each number of its set at one place.
LEMMA SortedLists ==
  ASSUME NEW S \in SUBSET Nat, IsFiniteSet(S)
  PROVE  LET s == Sorted(S) IN
         /\ DOMAIN s = 1 .. Cardinality(S)
         /\ \A i \in DOMAIN s : s[i] \in S
         /\ \A n \in S : \E i \in DOMAIN s : s[i] = n
         /\ \A i, j \in DOMAIN s : s[i] = s[j] => i = j
<1> DEFINE s == Sorted(S)
           places == 1 .. Cardinality(S)
           f == [n \in S |-> Rank(S, n) + 1]
<1>1. Cardinality(S) \in Nat
  BY FS_CardinalityType
<1>2. /\ f \in [S -> places] /\ \A n \in S : f[n] = Rank(S, n) + 1
      /\ \A n, m \in S : m < n => f[m] # f[n]
  BY <1>1, RanksAreDistinct
<1>3. f \in Injection(S, places)
  <2>1. ASSUME NEW n \in S, NEW m \in S, f[n] = f[m] PROVE n = m
    BY <1>2, <2>1
  <2>2. QED
    BY <1>2, <2>1 DEF Injection, IsInjective
<1>4. IsFiniteSet(places) /\ Cardinality(places) = Cardinality(S)
  BY <1>1, FS_Interval
<1>5. f \in Surjection(S, places)
  BY <1>3, <1>4, FS_Injection
<1>6. DOMAIN s = places /\ \A k \in places : s[k] = CHOOSE n \in S : Rank(S, n) = k - 1
  BY DEF Sorted, Rank
<1>7. ASSUME NEW k \in places PROVE s[k] \in S /\ f[s[k]] = k
  <2>1. PICK n \in S : f[n] = k
    BY <1>5 DEF Surjection
  <2>2. Rank(S, n) = k - 1
    BY <1>1, <1>2, <2>1, RanksAreDistinct
  <2>3. s[k] \in S /\ Rank(S, s[k]) = k - 1
    BY <1>6, <2>2
  <2>4. QED
    BY <1>2, <2>3
<1> HIDE DEF s, f, places
<1>8. ASSUME NEW n \in S PROVE \E i \in DOMAIN s : s[i] = n
  <2>1. f[n] \in places
    BY <1>2
  <2>2. s[f[n]] \in S /\ f[s[f[n]]] = f[n]
    BY <1>7, <2>1
  <2>3. s[f[n]] = n
    BY <2>2, <1>3 DEF Injection, IsInjective
  <2>4. QED
    BY <1>6, <2>1, <2>3
<1>9. QED
  BY <1>6, <1>7, <1>8 DEF s, places

\* The root that a row is proven against, when one covers it, has the least number.
Covered(x) == \E r \in Roots : Covers(r, x)

LEMMA EarliestRoots ==
  ASSUME LogInv, RootsAreNumbered, NEW x
  PROVE  /\ Covered(x) =>
              /\ EarliestRoot(x) \in Roots /\ Covers(EarliestRoot(x), x)
              /\ \A r \in Roots : Covers(r, x) => EarliestRoot(x).id <= r.id
         /\ ~Covered(x) => EarliestRoot(x).id = 0
<1> DEFINE covering == {r \in Roots : Covers(r, x)}
           ids == {i \in 1 .. Len(publications) : publications[i] \in covering}
<1>1. Len(publications) \in Nat /\ DOMAIN publications = 1 .. Len(publications)
  BY DEF LogInv
<1>2. \A r \in Roots : r.id \in 1 .. Len(publications) /\ publications[r.id] = r
  BY <1>1 DEF Roots, C!Elements, RootsAreNumbered
<1>3. CASE Covered(x)
  <2>1. covering # {} /\ ids # {} /\ ids \in SUBSET Nat
    BY <1>2, <1>3 DEF Covered
  <2>2. PICK i \in ids : \A j \in ids : i <= j
    BY <2>1, Smallest
  <2>3. /\ publications[i] \in covering
        /\ \A s \in covering : publications[i].id <= s.id
    BY <1>2, <2>2 DEF RootsAreNumbered
  <2>4. EarliestRoot(x) = CHOOSE r \in covering : \A s \in covering : r.id <= s.id
    BY <2>1 DEF EarliestRoot
  <2>5. EarliestRoot(x) \in covering /\ \A s \in covering : EarliestRoot(x).id <= s.id
    BY <2>3, <2>4
  <2>6. QED
    BY <1>3, <2>5
<1>4. CASE ~Covered(x)
  <2>1. covering = {}
    BY <1>4 DEF Covered
  <2>2. QED
    BY <1>4, <2>1 DEF EarliestRoot, NoAuditRoot
<1>5. QED
  BY <1>3, <1>4

\* A number is one root's, and so is a size among the earliest ones.
LEMMA RootsDiffer ==
  ASSUME LogInv, RootsAreNumbered, NEW r \in Roots, NEW s \in Roots
  PROVE  /\ r.id \in Nat \ {0}
         /\ r.id = s.id => r = s
         /\ \A x, y : /\ r = EarliestRoot(x) /\ s = EarliestRoot(y)
                      /\ r.artifact.size = s.artifact.size
                      => r = s
<1>1. \A q \in Roots : q.id \in 1 .. Len(publications) /\ publications[q.id] = q
  BY DEF Roots, C!Elements, RootsAreNumbered, LogInv
<1>2. Len(publications) \in Nat
  BY DEF LogInv
<1>3. ASSUME NEW x, NEW y, r = EarliestRoot(x), s = EarliestRoot(y),
             r.artifact.size = s.artifact.size
      PROVE  r.id = s.id
  <2>1. Covered(x) /\ Covered(y)
    BY <1>1, <1>2, <1>3, EarliestRoots
  <2>2. Covers(r, x) /\ Covers(s, y)
    BY <1>3, <2>1, EarliestRoots
  <2>3. Covers(s, x) /\ Covers(r, y)
    BY <1>3, <2>2 DEF Covers
  <2>4. r.id <= s.id /\ s.id <= r.id
    BY <1>3, <2>1, <2>3, EarliestRoots
  <2>5. QED
    BY <1>1, <1>2, <2>4
<1>4. QED
  BY <1>1, <1>2, <1>3

(* What an export holds.                                                     *)

\* The members of a row, and its number in the log.
LEMMA RowsAre ==
  ASSUME LogInv, ExportInv, NEW conv \in Conversations, NEW n \in 1 .. Len(rows[conv])
  PROVE  LET x == rows[conv][n] IN
         /\ x = [seq |-> n, conv |-> conv, req |-> Requests[x.leaf + 1],
                 type |-> "PROXY_INFERENCE_COMPLETED", root |-> 0, leaf |-> x.leaf,
                 hash |-> <<conv, n, Requests[x.leaf + 1], "PROXY_INFERENCE_COMPLETED">>]
         /\ x.leaf \in Nat /\ x.leaf + 1 \in 1 .. MaxRows
         /\ x.seq = n /\ x \in C!Elements(rows[conv])
<1> DEFINE x == rows[conv][n]
<1>1. x = CountedRow(conv, n, x.leaf)
  BY DEF ExportInv, RowsAreNumbered
<1>2. x \in C!Elements(rows[conv])
  BY DEF ExportInv, RowsAreLogged, C!Elements
<1>3. x.leaf \in 0 .. Len(hashes) - 1
  BY <1>2 DEF ExportInv, RowsAreLogged
<1>4. Len(hashes) \in Nat /\ Len(hashes) <= MaxRows /\ MaxRows \in Nat
  BY AuditLogAssumption DEF LogInv
<1> HIDE DEF x
<1>5. x = [seq |-> n, conv |-> conv, req |-> Requests[x.leaf + 1],
           type |-> "PROXY_INFERENCE_COMPLETED", root |-> 0, leaf |-> x.leaf,
           hash |-> <<conv, n, Requests[x.leaf + 1], "PROXY_INFERENCE_COMPLETED">>]
  <2> DEFINE leaf == x.leaf
             ev == [seq |-> n, conv |-> conv, req |-> Requests[leaf + 1],
                    type |-> "PROXY_INFERENCE_COMPLETED", root |-> 0, leaf |-> leaf,
                    hash |-> NoHash]
  <2>1. CountedRow(conv, n, leaf) = [ev EXCEPT !.hash = C!EventHashV2(ev)]
    BY DEF CountedRow
  <2>2. C!EventHashV2(ev) = <<conv, n, Requests[leaf + 1], "PROXY_INFERENCE_COMPLETED">>
    BY DEF C!EventHashV2
  <2> HIDE DEF leaf
  <2>3. [ev EXCEPT !.hash = C!EventHashV2(ev)] =
          [seq |-> n, conv |-> conv, req |-> Requests[leaf + 1],
           type |-> "PROXY_INFERENCE_COMPLETED", root |-> 0, leaf |-> leaf,
           hash |-> C!EventHashV2(ev)]
    OBVIOUS
  <2>4. QED
    BY <1>1, <2>1, <2>2, <2>3 DEF leaf
<1>6. x.seq = n
  BY <1>5
<1>7. QED
  BY <1>2, <1>3, <1>4, <1>5, <1>6 DEF x

Root(conv, n) == EarliestRoot(rows[conv][n])
CoveredRows(conv) == {n \in 1 .. Len(rows[conv]) : Covered(rows[conv][n])}

\* What is exported for a row, and what for a row that a root covers.
EventOf(conv, n) ==
  LET x == rows[conv][n] IN
  [seq |-> n, conv |-> conv, req |-> Requests[x.leaf + 1],
   type |-> "PROXY_INFERENCE_COMPLETED", root |-> Root(conv, n).id, leaf |-> x.leaf,
   hash |-> <<conv, n, Requests[x.leaf + 1], "PROXY_INFERENCE_COMPLETED">>]
ProofOf(conv, n) ==
  LET x == rows[conv][n]
      r == Root(conv, n) IN
  [seq |-> n, leaf |-> x.leaf, size |-> r.artifact.size,
   path |-> [leaf |-> x.leaf, sizes |-> {r.artifact.size}, hash |-> x.hash,
             root |-> r.artifact.root]]

LEMMA ProofsShow ==
  ASSUME LogInv, ExportInv, RowsAreProven, NEW conv \in Conversations,
         NEW n \in CoveredRows(conv)
  PROVE  LET x == rows[conv][n] IN
         Shown(x, ProofUnder(x, EarliestRoot(x))) = ProofOf(conv, n)
<1> DEFINE x == rows[conv][n]
           r == EarliestRoot(x)
           path == AuditTreePath(LevelsOf(r.artifact.size), x.leaf)
<1>1. n \in 1 .. Len(rows[conv]) /\ Covered(x)
  BY DEF CoveredRows
<1>2. x.seq = n /\ x \in C!Elements(rows[conv])
  BY <1>1, RowsAre
<1>3. r \in C!Elements(publications) /\ Covers(r, x)
  BY <1>1, EarliestRoots DEF ExportInv, Roots
<1>4. ProofUnder(x, r) = [seq |-> n, leaf |-> x.leaf, size |-> r.artifact.size, path |-> path]
  BY <1>2 DEF ProofUnder
<1>5. AuditInclusionRoot(x.leaf, r.artifact.size, x.hash, path) = r.artifact.root
  <2>1. AuditInclusionRoot(x.leaf, r.artifact.size, x.hash, ProofUnder(x, r).path) = r.artifact.root
    BY <1>2, <1>3 DEF RowsAreProven
  <2>2. ProofUnder(x, r).path = path
    BY DEF ProofUnder
  <2>3. QED
    BY <2>1, <2>2
<1>6. ProofOf(conv, n) =
        [seq |-> n, leaf |-> x.leaf, size |-> r.artifact.size,
         path |-> [leaf |-> x.leaf, sizes |-> {r.artifact.size}, hash |-> x.hash,
                   root |-> r.artifact.root]]
  BY DEF ProofOf, Root
<1> HIDE DEF x, r, path
<1>7. Shown(x, ProofUnder(x, r)) =
        [seq |-> n, leaf |-> x.leaf, size |-> r.artifact.size,
         path |-> [leaf |-> x.leaf, sizes |-> {r.artifact.size}, hash |-> x.hash,
                   root |-> AuditInclusionRoot(x.leaf, r.artifact.size, x.hash, path)]]
  BY <1>4 DEF Shown
<1>8. Shown(x, ProofUnder(x, r)) = ProofOf(conv, n)
  BY <1>5, <1>6, <1>7, Zenon
<1>9. QED
  BY <1>8 DEF x, r

LEMMA ExportedEvents ==
  ASSUME LogInv, ExportInv, NEW conv \in Conversations
  PROVE  LET events == Evidence(conv).events IN
         /\ DOMAIN events = 1 .. Len(rows[conv])
         /\ \A n \in 1 .. Len(rows[conv]) : events[n] = EventOf(conv, n)
<1> DEFINE events == [i \in DOMAIN rows[conv] |->
                        [rows[conv][i] EXCEPT !.root = EarliestRoot(rows[conv][i]).id]]
<1>1. Evidence(conv).events = events
  BY DEF Evidence
<1>2. DOMAIN rows[conv] = 1 .. Len(rows[conv])
  BY DEF ExportInv, RowsAreLogged
<1>3. ASSUME NEW n \in 1 .. Len(rows[conv]) PROVE events[n] = EventOf(conv, n)
  <2> DEFINE x == rows[conv][n]
             id == EarliestRoot(x).id
             leaf == x.leaf
  <2>1. events[n] = [x EXCEPT !.root = id]
    BY <1>2
  <2>2. x = [seq |-> n, conv |-> conv, req |-> Requests[leaf + 1],
             type |-> "PROXY_INFERENCE_COMPLETED", root |-> 0, leaf |-> leaf,
             hash |-> <<conv, n, Requests[leaf + 1], "PROXY_INFERENCE_COMPLETED">>]
    BY RowsAre
  <2>3. EventOf(conv, n) =
          [seq |-> n, conv |-> conv, req |-> Requests[leaf + 1],
           type |-> "PROXY_INFERENCE_COMPLETED", root |-> id, leaf |-> leaf,
           hash |-> <<conv, n, Requests[leaf + 1], "PROXY_INFERENCE_COMPLETED">>]
    BY DEF EventOf, Root
  <2> HIDE DEF x, id, leaf, events
  <2>4. QED
    BY <2>1, <2>2, <2>3
<1>4. QED
  BY <1>1, <1>2, <1>3

\* The members of what is listed, each where the verifier looks for it.
LEMMA EventsAre ==
  ASSUME LogInv, ExportInv, NEW conv \in Conversations, NEW n \in 1 .. Len(rows[conv])
  PROVE  LET ev == EventOf(conv, n) IN
         /\ ev.seq = n /\ ev.conv = conv /\ ev.req = Requests[rows[conv][n].leaf + 1]
         /\ ev.leaf = rows[conv][n].leaf /\ ev.hash = C!EventHashV2(ev)
         /\ ev.hash = rows[conv][n].hash /\ ev.hash[2] = n
         /\ ev.root = Root(conv, n).id
         /\ C!Anchored(ev) <=> n \in CoveredRows(conv)
<1> DEFINE x == rows[conv][n]
           leaf == x.leaf
           id == Root(conv, n).id
           ev == EventOf(conv, n)
<1>1. x = [seq |-> n, conv |-> conv, req |-> Requests[leaf + 1],
           type |-> "PROXY_INFERENCE_COMPLETED", root |-> 0, leaf |-> leaf,
           hash |-> <<conv, n, Requests[leaf + 1], "PROXY_INFERENCE_COMPLETED">>]
  BY RowsAre
<1>2. ev = [seq |-> n, conv |-> conv, req |-> Requests[leaf + 1],
            type |-> "PROXY_INFERENCE_COMPLETED", root |-> id, leaf |-> leaf,
            hash |-> <<conv, n, Requests[leaf + 1], "PROXY_INFERENCE_COMPLETED">>]
  BY DEF EventOf
<1>3. id # 0 <=> n \in CoveredRows(conv)
  BY EarliestRoots, RootsDiffer DEF ExportInv, Root, CoveredRows
<1> HIDE DEF x, leaf, id, ev
<1>4. x.hash = <<conv, n, Requests[leaf + 1], "PROXY_INFERENCE_COMPLETED">>
  BY <1>1
<1>5. ev.hash = <<conv, n, Requests[leaf + 1], "PROXY_INFERENCE_COMPLETED">> /\ ev.hash[2] = n
  BY <1>2
<1>6. ev.seq = n /\ ev.conv = conv /\ ev.req = Requests[leaf + 1] /\ ev.leaf = leaf /\ ev.root = id
      /\ ev.type = "PROXY_INFERENCE_COMPLETED"
  BY <1>2
<1>7. QED
  BY <1>3, <1>4, <1>5, <1>6 DEF C!EventHashV2, C!Anchored, x, leaf, id, ev

\* One proof per row that a root covers.
LEMMA ExportedProofs ==
  ASSUME LogInv, ExportInv, RowsAreProven, NEW conv \in Conversations
  PROVE  LET proofs == Evidence(conv).proofs IN
         /\ \A i \in DOMAIN proofs : \E n \in CoveredRows(conv) : proofs[i] = ProofOf(conv, n)
         /\ \A n \in CoveredRows(conv) : \E i \in DOMAIN proofs : proofs[i] = ProofOf(conv, n)
         /\ \A i, j \in DOMAIN proofs : proofs[i].seq = proofs[j].seq => i = j
<1> DEFINE events == Evidence(conv).events
           S == {x.seq : x \in {y \in C!Elements(events) : C!Anchored(y)}}
           proven == Sorted(S)
           proofs == Evidence(conv).proofs
<1>1. /\ DOMAIN proofs = DOMAIN proven
      /\ \A i \in DOMAIN proven : proofs[i] =
           LET x == rows[conv][proven[i]] IN Shown(x, ProofUnder(x, EarliestRoot(x)))
  BY DEF Evidence
<1>2. Len(rows[conv]) \in Nat
  BY DEF ExportInv, RowsAreLogged
<1>3. S = CoveredRows(conv)
  <2>1. /\ DOMAIN events = 1 .. Len(rows[conv])
        /\ \A n \in 1 .. Len(rows[conv]) : events[n] = EventOf(conv, n)
    BY ExportedEvents
  <2> HIDE DEF events
  <2>2. ASSUME NEW n \in 1 .. Len(rows[conv])
        PROVE  events[n].seq = n /\ (C!Anchored(events[n]) <=> n \in CoveredRows(conv))
    BY <2>1, EventsAre
  <2>3. C!Elements(events) = {events[n] : n \in 1 .. Len(rows[conv])}
    BY <2>1 DEF C!Elements
  <2>4. CoveredRows(conv) \subseteq 1 .. Len(rows[conv])
    BY DEF CoveredRows
  <2>5. QED
    BY <2>2, <2>3, <2>4
<1>4. S \in SUBSET Nat /\ IsFiniteSet(S)
  <2>1. CoveredRows(conv) \subseteq 1 .. Len(rows[conv])
    BY DEF CoveredRows
  <2>2. IsFiniteSet(1 .. Len(rows[conv])) /\ 1 .. Len(rows[conv]) \subseteq Nat
    BY <1>2, FS_Interval
  <2> HIDE DEF S
  <2>3. QED
    BY <1>3, <2>1, <2>2, FS_Subset
<1> HIDE DEF S
<1>5. /\ \A i \in DOMAIN proven : proven[i] \in S
      /\ \A n \in S : \E i \in DOMAIN proven : proven[i] = n
      /\ \A i, j \in DOMAIN proven : proven[i] = proven[j] => i = j
  BY <1>4, SortedLists
<1> HIDE DEF proven, proofs
<1>6. ASSUME NEW i \in DOMAIN proven PROVE proofs[i] = ProofOf(conv, proven[i])
  BY <1>1, <1>3, <1>5, ProofsShow
<1>7. \A n : ProofOf(conv, n).seq = n
  BY DEF ProofOf
<1>8. QED
  BY <1>1, <1>3, <1>5, <1>6, <1>7 DEF proofs

\* One entry per root that a row is proven against.
LEMMA ExportedRoots ==
  ASSUME LogInv, ExportInv, NEW conv \in Conversations
  PROVE  LET roots == Evidence(conv).roots IN
         /\ \A i \in DOMAIN roots : \E n \in CoveredRows(conv) : roots[i] = Listed(Root(conv, n))
         /\ \A n \in CoveredRows(conv) : \E i \in DOMAIN roots : roots[i] = Listed(Root(conv, n))
         /\ \A i, j \in DOMAIN roots : roots[i].id = roots[j].id => i = j
<1> DEFINE used == Used(conv)
           S == {r.artifact.size : r \in used}
           sizes == Sorted(S)
           roots == Evidence(conv).roots
           of(size) == CHOOSE r \in used : r.artifact.size = size
<1>1. /\ DOMAIN roots = DOMAIN sizes
      /\ \A i \in DOMAIN sizes : roots[i] = Listed(of(sizes[i]))
  BY DEF Evidence
<1>2. used = {Root(conv, n) : n \in CoveredRows(conv)}
  <2>1. ASSUME NEW n \in 1 .. Len(rows[conv])
        PROVE  Root(conv, n) \in Roots <=> n \in CoveredRows(conv)
    <3>1. Covered(rows[conv][n]) => Root(conv, n) \in Roots
      BY EarliestRoots DEF ExportInv, Root
    <3>2. ~Covered(rows[conv][n]) => Root(conv, n).id = 0
      BY EarliestRoots DEF ExportInv, Root
    <3>3. Root(conv, n) \in Roots => Root(conv, n).id # 0
      BY RootsDiffer DEF ExportInv
    <3>4. QED
      BY <3>1, <3>2, <3>3 DEF CoveredRows
  <2>2. C!Elements(rows[conv]) = {rows[conv][n] : n \in 1 .. Len(rows[conv])}
    <3>1. DOMAIN rows[conv] = 1 .. Len(rows[conv])
      BY DEF ExportInv, RowsAreLogged
    <3>2. QED
      BY <3>1 DEF C!Elements
  <2>3. used = {Root(conv, n) : n \in 1 .. Len(rows[conv])} \cap Roots
    BY <2>2 DEF Used, Root
  <2>4. CoveredRows(conv) \subseteq 1 .. Len(rows[conv])
    BY DEF CoveredRows
  <2> HIDE DEF used
  <2>5. QED
    BY <2>1, <2>3, <2>4
<1>3. used \subseteq Roots
  BY DEF Used
<1>4. \A r, s \in used : r.artifact.size = s.artifact.size => r = s
  BY <1>2, <1>3, RootsDiffer DEF ExportInv, Root
<1> HIDE DEF used
<1>5. \A r \in used : r.artifact.size \in 1 .. Len(hashes)
  BY <1>3 DEF LogInv, Roots, Published
<1>6. S \in SUBSET Nat /\ IsFiniteSet(S)
  <2>1. S \subseteq 1 .. Len(hashes) /\ Len(hashes) \in Nat
    BY <1>5 DEF LogInv
  <2>2. IsFiniteSet(1 .. Len(hashes)) /\ 1 .. Len(hashes) \subseteq Nat
    BY <2>1, FS_Interval
  <2> HIDE DEF S
  <2>3. QED
    BY <2>1, <2>2, FS_Subset
<1>7. ASSUME NEW size \in S PROVE of(size) \in used /\ of(size).artifact.size = size
  OBVIOUS
<1>8. ASSUME NEW r \in used PROVE of(r.artifact.size) = r
  BY <1>4
<1>9. \A r \in used : r.artifact.size \in S
  OBVIOUS
<1> HIDE DEF S, of
<1>10. /\ \A i \in DOMAIN sizes : sizes[i] \in S
       /\ \A n \in S : \E i \in DOMAIN sizes : sizes[i] = n
       /\ \A i, j \in DOMAIN sizes : sizes[i] = sizes[j] => i = j
  BY <1>6, SortedLists
<1> HIDE DEF sizes, roots
<1>11. ASSUME NEW i \in DOMAIN sizes, NEW j \in DOMAIN sizes, roots[i].id = roots[j].id
       PROVE  i = j
  <2>1. /\ of(sizes[i]) \in used /\ of(sizes[i]).artifact.size = sizes[i]
        /\ of(sizes[j]) \in used /\ of(sizes[j]).artifact.size = sizes[j]
    BY <1>7, <1>10
  <2>2. of(sizes[i]).id = of(sizes[j]).id
    BY <1>1, <1>11 DEF Listed
  <2>3. of(sizes[i]) = of(sizes[j])
    BY <1>3, <2>1, <2>2, RootsDiffer DEF ExportInv
  <2>4. QED
    BY <1>10, <2>1, <2>3
<1>12. \A i \in DOMAIN roots : \E n \in CoveredRows(conv) : roots[i] = Listed(Root(conv, n))
  BY <1>1, <1>2, <1>7, <1>10
<1>13. \A n \in CoveredRows(conv) : \E i \in DOMAIN roots : roots[i] = Listed(Root(conv, n))
  <2>1. SUFFICES ASSUME NEW r \in used PROVE \E i \in DOMAIN roots : roots[i] = Listed(r)
    BY <1>2
  <2>2. PICK i \in DOMAIN sizes : sizes[i] = r.artifact.size
    BY <1>9, <1>10
  <2>3. QED
    BY <1>1, <1>8, <2>2
<1>14. QED
  BY <1>1, <1>11, <1>12, <1>13 DEF roots

\* The files have the form that is asked for, and refer to each other.
LEMMA ExportsParse ==
  ASSUME LogInv, ExportInv, RowsAreProven, NEW conv \in Conversations, NEW a, a = Evidence(conv)
  PROVE  C!parseAuditFiles(a)
<1>1. /\ DOMAIN a.events = 1 .. Len(rows[conv])
      /\ \A n \in 1 .. Len(rows[conv]) : a.events[n] = EventOf(conv, n)
  BY ExportedEvents
<1>2. \A i, j \in DOMAIN a.proofs : a.proofs[i].seq = a.proofs[j].seq => i = j
  BY ExportedProofs
<1>3. /\ \A i \in DOMAIN a.roots : \E n \in CoveredRows(conv) : a.roots[i] = Listed(Root(conv, n))
      /\ \A i, j \in DOMAIN a.roots : a.roots[i].id = a.roots[j].id => i = j
  BY ExportedRoots
<1>4. a.shape
  BY DEF Evidence
<1>5. Len(rows[conv]) \in Nat
  BY DEF ExportInv, RowsAreLogged
<1>6. \A x \in C!Elements(a.events) : x.seq >= 1
  BY <1>1, <1>5, EventsAre DEF C!Elements
<1>7. ASSUME NEW i \in DOMAIN a.events, NEW j \in DOMAIN a.events, i < j
      PROVE  a.events[i].hash # a.events[j].hash /\ a.events[i].req # a.events[j].req
  <2>1. i \in 1 .. Len(rows[conv]) /\ j \in 1 .. Len(rows[conv]) /\ i \in 1 .. j - 1
    BY <1>1, <1>5, <1>7
  <2>2. rows[conv][i].leaf < rows[conv][j].leaf
    BY <2>1 DEF ExportInv, RowsAreNumbered
  <2>3. /\ rows[conv][i].leaf \in Nat /\ rows[conv][i].leaf + 1 \in 1 .. MaxRows
        /\ rows[conv][j].leaf \in Nat /\ rows[conv][j].leaf + 1 \in 1 .. MaxRows
    BY <2>1, RowsAre
  <2>4. Requests[rows[conv][i].leaf + 1] # Requests[rows[conv][j].leaf + 1]
    <3>1. \A k, m \in 1 .. MaxRows : Requests[k] = Requests[m] => k = m
      BY AuditLogAssumption
    <3>2. rows[conv][i].leaf + 1 # rows[conv][j].leaf + 1
      BY <2>2, <2>3
    <3>3. QED
      BY <2>3, <3>1, <3>2, Zenon
  <2>5. a.events[i].hash[2] = i /\ a.events[j].hash[2] = j
    BY <1>1, <2>1, EventsAre
  <2>6. QED
    BY <1>1, <1>5, <1>7, <2>1, <2>4, <2>5, EventsAre
<1>8. ASSUME NEW r \in C!Elements(a.roots) PROVE r.id >= 1 /\ r.size >= 1
  <2>1. PICK n \in CoveredRows(conv) : r = Listed(Root(conv, n))
    BY <1>3 DEF C!Elements
  <2>2. Root(conv, n) \in Roots
    BY <2>1, EarliestRoots DEF CoveredRows, Root, ExportInv
  <2>3. Root(conv, n).id \in Nat \ {0} /\ Root(conv, n).artifact.size \in 1 .. Len(hashes)
    BY <2>2, RootsDiffer DEF ExportInv, Roots, LogInv, Published
  <2>4. QED
    BY <2>1, <2>3 DEF Listed, LogInv
<1>9. \A i, j \in DOMAIN a.proofs : i < j => a.proofs[i].seq # a.proofs[j].seq
  <2>1. DOMAIN a.proofs \subseteq Nat
    BY DEF Evidence, Sorted
  <2>2. QED
    BY <1>2, <2>1
<1>10. \A i, j \in DOMAIN a.roots : i < j => a.roots[i].id # a.roots[j].id
  <2>1. DOMAIN a.roots \subseteq Nat
    BY DEF Evidence, Sorted
  <2>2. QED
    BY <1>3, <2>1
<1>11. QED
  BY <1>4, <1>6, <1>7, <1>8, <1>9, <1>10 DEF C!parseAuditFiles, C!TwiceIn

\* What the verifier finds for a row that a root covers.
LEMMA ExportedRowsHave ==
  ASSUME LogInv, ExportInv, RowsAreProven, NEW conv \in Conversations, NEW a, a = Evidence(conv),
         NEW n \in CoveredRows(conv)
  PROVE  LET ev == EventOf(conv, n)
             r == Root(conv, n) IN
         /\ C!HasProof(a, n)
         /\ Listed(r) \in C!RootsOf(a, ev.root) /\ Listed(r) \in C!rootOK(a, Verifier)
         /\ C!Included(a, ev, Verifier)
<1> DEFINE x == rows[conv][n]
           ev == EventOf(conv, n)
           r == Root(conv, n)
           pf == ProofOf(conv, n)
           size == r.artifact.size
<1>1. n \in 1 .. Len(rows[conv]) /\ r \in Roots /\ Covers(r, x)
  BY EarliestRoots DEF CoveredRows, Root, ExportInv
<1>2. /\ pf.seq = n /\ pf.leaf = x.leaf /\ pf.size = size
      /\ pf.path = [leaf |-> x.leaf, sizes |-> {size}, hash |-> x.hash, root |-> r.artifact.root]
  BY DEF ProofOf
<1>3. pf \in C!Elements(a.proofs) /\ pf \in C!ProofsOf(a, n)
  <2>1. pf \in C!Elements(a.proofs)
    BY ExportedProofs DEF C!Elements
  <2>2. QED
    BY <1>2, <2>1 DEF C!ProofsOf
<1>4. Listed(r) \in C!Elements(a.roots)
  BY ExportedRoots DEF C!Elements
<1>5. /\ Listed(r).id = r.id /\ Listed(r).size = size /\ Listed(r).root = r.artifact.root
      /\ Listed(r).genuine /\ Listed(r).stored /\ Listed(r).log = "confirms"
      /\ Listed(r).signed = [size |-> size, root |-> r.artifact.root]
  BY DEF Listed
<1>6. ev.seq = n /\ ev.leaf = x.leaf /\ ev.hash = x.hash /\ ev.root = r.id
  BY <1>1, EventsAre
<1>7. size \in 1 .. Len(hashes) /\ x.leaf \in Nat /\ x.leaf < size
  BY <1>1, RowsAre DEF Roots, LogInv, Published, Covers
<1> HIDE DEF x, ev, r, pf, size
<1>8. Listed(r) \in C!RootsOf(a, ev.root)
  BY <1>4, <1>5, <1>6 DEF C!RootsOf
<1>9. Listed(r) \in C!rootOK(a, Verifier)
  BY <1>4, <1>5 DEF C!rootOK, C!RefusedRoot, Verifier
<1>10. C!HasProof(a, n)
  <2>1. pf.size # 0
    BY <1>2, <1>7 DEF LogInv
  <2>2. QED
    BY <1>3, <2>1 DEF C!HasProof, C!noProof
<1>11. C!AuditInclusionRoot(ev.leaf, size, ev.hash, pf.path) = r.artifact.root
  <2>1. pf.path # <<>>
    BY <1>2
  <2>2. /\ pf.path.leaf = x.leaf /\ pf.path.sizes = {size} /\ pf.path.hash = x.hash
        /\ pf.path.root = r.artifact.root
    BY <1>2
  <2>3. QED
    BY <1>6, <1>7, <2>1, <2>2 DEF C!AuditInclusionRoot
<1>12. C!Included(a, ev, Verifier)
  <2>1. pf \in C!ProofsOf(a, ev.seq)
    BY <1>3, <1>6
  <2>2. Listed(r).signed.size = size /\ Listed(r).signed.root = r.artifact.root
    BY <1>5
  <2>3. QED
    BY <1>2, <1>6, <1>8, <1>9, <1>11, <2>1, <2>2 DEF C!Included
<1>13. QED
  BY <1>8, <1>9, <1>10, <1>12 DEF ev, r

\* audit.go:228 of bundletest (Evidence) against audit_verify.go, whatever was counted
\* and published, by whom and in which order: ExportsPass.
THEOREM ExportsAlwaysPass == Spec => []ExportsPass
<1>1. ASSUME LogInv, ExportInv, RowsAreProven, NEW conv \in Conversations,
             NEW a, a = Evidence(conv)
      PROVE  /\ \A s \in C!newAuditVerifier(a, [conv |-> conv], Verifier) : s.status # "FAIL"
             /\ \A i \in DOMAIN a.events :
                  C!inclusion(a, a.events[i], Verifier, conv).status =
                    IF \E r \in Roots : Covers(r, a.events[i]) THEN "PASS" ELSE "SKIPPED"
  <2>1. /\ DOMAIN a.events = 1 .. Len(rows[conv]) /\ Len(rows[conv]) \in Nat
        /\ \A n \in 1 .. Len(rows[conv]) : a.events[n] = EventOf(conv, n)
    BY <1>1, ExportedEvents DEF ExportInv, RowsAreLogged
  <2>2. C!parseAuditFiles(a)
    BY <1>1, ExportsParse
  <2>3. ASSUME NEW n \in 1 .. Len(rows[conv])
        PROVE  /\ a.events[n].seq = n /\ a.events[n].conv = conv
               /\ a.events[n].hash = C!EventHashV2(a.events[n])
               /\ a.events[n].leaf = rows[conv][n].leaf
               /\ C!Anchored(a.events[n]) <=> n \in CoveredRows(conv)
    BY <1>1, <2>1, EventsAre
  <2>4. ASSUME NEW n \in CoveredRows(conv)
        PROVE  /\ n \in 1 .. Len(rows[conv]) /\ C!HasProof(a, n)
               /\ C!RootsOf(a, a.events[n].root) \cap C!rootOK(a, Verifier) # {}
               /\ C!Included(a, a.events[n], Verifier)
    <3>1. n \in 1 .. Len(rows[conv])
      BY DEF CoveredRows
    <3>2. a.events[n] = EventOf(conv, n)
      BY <2>1, <3>1
    <3>3. QED
      BY <1>1, <3>1, <3>2, ExportedRowsHave
  <2>5. ~C!auditReferenceProblems(a)
    <3>1. ASSUME NEW n \in 1 .. Len(rows[conv]), n \notin CoveredRows(conv)
          PROVE  ~C!HasProof(a, n)
      <4>1. SUFFICES ASSUME NEW pf \in C!Elements(a.proofs), pf.seq = n
                     PROVE  FALSE
        BY DEF C!HasProof, C!ProofsOf
      <4>2. PICK m \in CoveredRows(conv) : pf = ProofOf(conv, m)
        BY <1>1, ExportedProofs DEF C!Elements
      <4>3. pf.seq = m
        BY <4>2 DEF ProofOf
      <4>4. QED
        BY <3>1, <4>1, <4>3
    <3>2. ASSUME NEW n \in DOMAIN a.events
          PROVE  /\ C!Anchored(a.events[n]) <=> C!HasProof(a, a.events[n].seq)
                 /\ C!Anchored(a.events[n]) => C!RootsOf(a, a.events[n].root) # {}
      BY <2>1, <2>3, <2>4, <3>1
    <3>3. ASSUME NEW pf \in C!Elements(a.proofs)
          PROVE  \E x \in C!Elements(a.events) : x.seq = pf.seq
      <4>1. PICK m \in CoveredRows(conv) : pf = ProofOf(conv, m)
        BY <1>1, ExportedProofs DEF C!Elements
      <4>2. pf.seq = m
        BY <4>1 DEF ProofOf
      <4>3. m \in DOMAIN a.events /\ a.events[m].seq = m
        BY <2>1, <2>3, <2>4
      <4>4. QED
        BY <4>2, <4>3 DEF C!Elements
    <3>4. \A x : C!Anchored(x) \in BOOLEAN /\ \A n : C!HasProof(a, n) \in BOOLEAN
      BY DEF C!Anchored, C!HasProof
    <3>5. QED
      BY <3>2, <3>3, <3>4 DEF C!auditReferenceProblems
  <2>6. /\ \A x \in C!Elements(a.events) : x.conv = conv /\ x.hash = C!EventHashV2(x)
        /\ \A i \in DOMAIN a.events : a.events[i].seq = i
    BY <2>1, <2>3 DEF C!Elements
  <2>7. ASSUME NEW r \in C!Elements(a.roots) PROVE r \in C!rootOK(a, Verifier)
    <3>1. PICK n \in CoveredRows(conv) : r = Listed(Root(conv, n))
      BY <1>1, ExportedRoots DEF C!Elements
    <3>2. QED
      BY <1>1, <3>1, ExportedRowsHave
  <2>8. \A name : /\ C!skip(C!Bundle, name, FALSE).status # "FAIL"
                  /\ C!pass(C!Bundle, name).status # "FAIL"
    BY DEF C!skip, C!pass, C!add
  <2>9. ASSUME NEW s \in C!newAuditVerifier(a, [conv |-> conv], Verifier) PROVE s.status # "FAIL"
    <3>1. \A s2 \in C!roots(a, Verifier) : s2.status # "FAIL"
      BY <2>7, <2>8 DEF C!roots, Verifier
    <3>2. /\ C!conversation(a, [conv |-> conv]).status # "FAIL"
          /\ C!eventHashes(a).status # "FAIL" /\ C!continuity(a).status # "FAIL"
      BY <2>6, <2>8 DEF C!conversation, C!eventHashes, C!continuity, C!ofEvents
    <3>3. \/ s = C!pass(C!Bundle, "audit-files") \/ s = C!conversation(a, [conv |-> conv])
          \/ s = C!eventHashes(a) \/ s = C!continuity(a) \/ s \in C!roots(a, Verifier)
      BY <2>2, <2>5, <2>9 DEF C!newAuditVerifier
    <3>4. QED
      BY <2>8, <3>1, <3>2, <3>3
  <2>10. ASSUME NEW n \in DOMAIN a.events
         PROVE  C!inclusion(a, a.events[n], Verifier, conv).status =
                  IF \E r \in Roots : Covers(r, a.events[n]) THEN "PASS" ELSE "SKIPPED"
    <3>1. (\E r \in Roots : Covers(r, a.events[n])) <=> n \in CoveredRows(conv)
      BY <2>1, <2>3 DEF CoveredRows, Covered, Covers
    <3>2. CASE n \in CoveredRows(conv)
      <4>1. C!Anchored(a.events[n]) /\ a.events[n].seq = n
        BY <2>1, <2>3, <3>2
      <4>2. C!inclusion(a, a.events[n], Verifier, conv) = C!pass(conv, "audit-inclusion")
        BY <2>4, <3>2, <4>1 DEF C!inclusion
      <4>3. QED
        BY <3>1, <3>2, <4>2 DEF C!pass, C!add
    <3>3. CASE n \notin CoveredRows(conv)
      <4>1. ~C!Anchored(a.events[n])
        BY <2>1, <2>3, <3>3
      <4>2. C!inclusion(a, a.events[n], Verifier, conv) =
              C!skip(conv, "audit-inclusion", C!anchored(a) \/ Verifier.requireAnchors)
        BY <4>1 DEF C!inclusion
      <4>3. QED
        BY <3>1, <3>3, <4>2 DEF C!skip
    <3>4. QED
      BY <3>2, <3>3
  <2>11. QED
    BY <2>9, <2>10
<1>2. AuditInv /\ ExportInv /\ RowsAreProven => ExportsPass
  BY <1>1 DEF ExportsPass, AuditInv
<1>3. QED
  BY AuditLogStands, RowsStand, PathsOfRowsVerify, <1>2, PTL
==============================================================================
