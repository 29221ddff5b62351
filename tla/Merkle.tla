-------------------------------- MODULE Merkle --------------------------------
(***************************************************************************)
(* Hash trees: the walk from a leaf to a root by which the verifier checks *)
(* an inclusion path (go/internal/anchor/rekor.go), and the two ways in    *)
(* which the trees it meets are built: RFC 6962's recursion, and level by  *)
(* level as the audit service does (both in bundletest).  A hash is its    *)
(* tagged input, so hashing is free of collisions and a leaf is no node.   *)
(***************************************************************************)
EXTENDS Naturals, Sequences, SequencesExt

leafHash(x) == <<"leaf", x>>
nodeHash(l, r) == <<"node", l, r>>

\* No hash: what a path that does not fit the tree's shape leads to.
NoHash == <<"none">>

Odd(n) == n % 2 = 1

(* The walk: fn and sn are the positions, at the level reached, of the node   *)
(* on the path and of the last node; r is its hash.                          *)

Walk(index, size, leaf) == [fn |-> index, sn |-> size - 1, r |-> leaf]

\* The sibling stands to the left.
Rightmost(w) == Odd(w.fn) \/ w.fn = w.sn

\* At the right edge, levels in which the last node has no sibling are skipped.
WithSibling(n) ==
  LET up[k \in 0 .. n] == IF Odd(k) \/ k = 0 THEN k ELSE up[k \div 2] IN up[n]

\* One sibling; above the root there is none.
Climb(w, p) ==
  LET parent(n) == (IF w.fn = w.sn THEN WithSibling(n) ELSE n) \div 2 IN
  IF w.sn = 0 THEN [w EXCEPT !.r = NoHash]
  ELSE [fn |-> parent(w.fn), sn |-> parent(w.sn),
        r |-> IF Rightmost(w) THEN nodeHash(p, w.r) ELSE nodeHash(w.r, p)]

\* A path that ends below the root is too short.
Reached(w) == IF w.sn = 0 THEN w.r ELSE NoHash

\* The walk after each sibling of the path.
Climbs(start, path) ==
  LET w[k \in 0 .. Len(path)] == IF k = 0 THEN start ELSE Climb(w[k - 1], path[k]) IN w

rootFromInclusionProof(index, size, leaf, path) ==
  Reached(Climbs(Walk(index, size, leaf), path)[Len(path)])

(* RFC 6962: split at the largest power of two below the number of leaves.   *)

split(n) ==
  LET double[k \in 1 .. n] == IF 2 * k < n THEN double[2 * k] ELSE k IN double[1]

\* The parts of the leaves, each from its first leaf to its last one.
Spans(leaves) == (DOMAIN leaves) \X (DOMAIN leaves)
Mid(span) == span[1] + split(span[2] - span[1] + 1)
Left(span) == <<span[1], Mid(span) - 1>>
Right(span) == <<Mid(span), span[2]>>

\* The hash of a part.
subtree(leaves) ==
  LET T[span \in Spans(leaves)] ==
        IF span[1] >= span[2] THEN leaves[span[1]]
        ELSE nodeHash(T[Left(span)], T[Right(span)])
  IN T

mth(leaves) == subtree(leaves)[<<1, Len(leaves)>>]

\* The path, in each part, of the leaf at index, which counts from 0.
pathIn(index, leaves) ==
  LET T == subtree(leaves)
      P[span \in Spans(leaves)] ==
        IF span[1] >= span[2] THEN <<>>
        ELSE IF index + 1 < Mid(span) THEN Append(P[Left(span)], T[Right(span)])
        ELSE Append(P[Right(span)], T[Left(span)])
  IN P

inclusionPath(index, leaves) == pathIn(index, leaves)[<<1, Len(leaves)>>]

(* The audit service's tree, level by level.                                 *)

\* Mutant: an odd node is paired with itself.
NextLevel_Twice(level) ==
  [i \in 1 .. (Len(level) + 1) \div 2 |->
     nodeHash(level[2 * i - 1], IF 2 * i > Len(level) THEN Last(level) ELSE level[2 * i])]

\* An odd node is promoted unchanged.
NextLevel(level) ==
  [i \in 1 .. (Len(level) + 1) \div 2 |->
     IF 2 * i > Len(level) THEN Last(level) ELSE nodeHash(level[2 * i - 1], level[2 * i])]

\* Level 1 are the leaves; the last one is the root alone.
AuditTreeLevels(leaves) ==
  LET level[k \in 1 .. Len(leaves)] == IF k = 1 THEN leaves ELSE NextLevel(level[k - 1])
      top == CHOOSE k \in DOMAIN level :
               Len(level[k]) = 1 /\ \A j \in 1 .. k - 1 : Len(level[j]) > 1
  IN [k \in 1 .. top |-> level[k]]

\* One turn of the loop: the sibling, at a level that has one, and on to the parent.
Up(w, level) ==
  LET sib == IF Odd(w.index) THEN w.index - 1 ELSE w.index + 1 IN
  [index |-> w.index \div 2,
   path |-> IF sib < Len(level) THEN Append(w.path, level[sib + 1]) ELSE w.path]

\* The sibling at every level that has one, for the leaf at index.
AuditTreePath(levels, index) ==
  LET w[k \in 1 .. Len(levels)] ==
        IF k = 1 THEN [index |-> index, path |-> <<>>] ELSE Up(w[k - 1], levels[k - 1])
  IN w[Len(levels)].path
==============================================================================
