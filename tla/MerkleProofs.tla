----------------------------- MODULE MerkleProofs -----------------------------
(***************************************************************************)
(* Proofs about the trees of Merkle, of every size: a walk goes as its     *)
(* place says, whatever its hash; the levels of the audit service are the  *)
(* tree of RFC 6962; and the paths of both lead each leaf to its root.     *)
(***************************************************************************)
EXTENDS Merkle, NaturalsInduction, WellFoundedInduction, TLAPS

(* The walk.                                                                 *)

\* How a walk climbs depends on where it is and not on its hash.
LEMMA ClimbsAlike ==
  ASSUME NEW v, NEW w, v.fn = w.fn, v.sn = w.sn, w.sn # 0, NEW g, NEW h
  PROVE  /\ Climb(v, g).fn = Climb(w, h).fn /\ Climb(v, g).sn = Climb(w, h).sn
         /\ v.r # w.r => Climb(v, g).r # Climb(w, h).r
<1> DEFINE parent(n) == (IF w.fn = w.sn THEN WithSibling(n) ELSE n) \div 2
<1>1. Rightmost(v) <=> Rightmost(w)
  BY DEF Rightmost
<1>2. Climb(v, g) = [fn |-> parent(w.fn), sn |-> parent(w.sn),
                     r |-> IF Rightmost(w) THEN nodeHash(g, v.r) ELSE nodeHash(v.r, g)]
  BY <1>1 DEF Climb
<1>3. Climb(w, h) = [fn |-> parent(w.fn), sn |-> parent(w.sn),
                     r |-> IF Rightmost(w) THEN nodeHash(h, w.r) ELSE nodeHash(w.r, h)]
  BY DEF Climb
<1> HIDE DEF parent
<1>4. ASSUME v.r # w.r PROVE nodeHash(g, v.r) # nodeHash(h, w.r) /\ nodeHash(v.r, g) # nodeHash(w.r, h)
  BY <1>4 DEF nodeHash
<1> HIDE DEF nodeHash
<1>5. v.r # w.r => Climb(v, g).r # Climb(w, h).r
  BY <1>2, <1>3, <1>4
<1>6. QED
  BY <1>2, <1>3, <1>5

\* Induction, for a set of numbers.
LEMMA NumbersByStep ==
  ASSUME NEW S \in SUBSET Nat, 0 \in S, \A n \in S : n + 1 \in S
  PROVE  S = Nat
<1> SUFFICES ASSUME Nat \ S # {}
             PROVE  FALSE
  OBVIOUS
<1>1. PICK n \in Nat \ S : \A m \in Nat \ S : ~ (<<m, n>> \in OpToRel(<, Nat))
  BY NatLessThanWellFounded, WFMin
<1>2. \A m \in Nat \ S : ~ (m < n)
  BY <1>1 DEF OpToRel
<1>3. n # 0 /\ n - 1 \in Nat /\ n - 1 < n
  <2>1. n \in Nat /\ n # 0
    OBVIOUS
  <2> QED
    BY <2>1
<1>4. n - 1 \in S
  BY <1>2, <1>3
<1>5. n \in S
  BY <1>3, <1>4
<1> QED
  BY <1>1, <1>5

\* What the inner loop of the walk comes to from each position up to n.
Halves(n, f) == f = [k \in 0 .. n |-> IF Odd(k) \/ k = 0 THEN k ELSE f[k \div 2]]

LEMMA HalvesExist ==
  ASSUME NEW n \in Nat
  PROVE  \E f : Halves(n, f)
<1> DEFINE S == {m \in Nat : \E f : Halves(m, f)}
<1>1. 0 \in S
  <2>1. Halves(0, [k \in 0 .. 0 |-> 0])
    BY DEF Halves
  <2>2. QED
    BY <2>1
<1>2. ASSUME NEW m \in S
      PROVE  m + 1 \in S
  <2>1. PICK f : Halves(m, f)
    OBVIOUS
  <2> DEFINE g == [k \in 0 .. m + 1 |->
                     IF k <= m THEN f[k] ELSE IF Odd(k) \/ k = 0 THEN k ELSE f[k \div 2]]
  <2>2. ASSUME NEW k \in 0 .. m + 1
        PROVE  g[k] = IF Odd(k) \/ k = 0 THEN k ELSE g[k \div 2]
    <3>1. CASE k <= m
      <4>1. k \in 0 .. m /\ k \div 2 \in 0 .. m /\ k \div 2 <= m /\ k \div 2 \in 0 .. m + 1
        BY <3>1
      <4>2. f[k] = IF Odd(k) \/ k = 0 THEN k ELSE f[k \div 2]
        BY <2>1, <4>1 DEF Halves
      <4>3. QED
        BY <3>1, <4>1, <4>2
    <3>2. CASE k = m + 1
      <4>1. k \div 2 \in 0 .. m + 1 /\ k \div 2 <= m
        BY <3>2
      <4>2. QED
        BY <3>2, <4>1
    <3>3. QED
      BY <3>1, <3>2
  <2>3. Halves(m + 1, g)
    <3>1. g = [k \in 0 .. m + 1 |-> g[k]]
      OBVIOUS
    <3> HIDE DEF g
    <3>2. QED
      BY <2>2, <3>1 DEF Halves
  <2>4. QED
    BY <2>3
<1>3. S = Nat
  <2> HIDE DEF S
  <2>1. S \in SUBSET Nat
    BY DEF S
  <2>2. QED
    BY <1>1, <1>2, <2>1, NumbersByStep
<1>4. QED
  BY <1>3

\* It does not depend on how far the positions go.
LEMMA HalvesAgree ==
  ASSUME NEW n \in Nat, NEW m \in Nat, NEW f, NEW g, Halves(n, f), Halves(m, g), m <= n
  PROVE  f[m] = g[m]
<1> DEFINE S == {j \in Nat : \A k \in 0 .. j : k <= m => f[k] = g[k]}
<1>1. ASSUME NEW k \in 0 .. m
      PROVE  /\ f[k] = IF Odd(k) \/ k = 0 THEN k ELSE f[k \div 2]
             /\ g[k] = IF Odd(k) \/ k = 0 THEN k ELSE g[k \div 2]
  BY DEF Halves
<1>2. 0 \in S
  BY <1>1
<1>3. ASSUME NEW j \in S
      PROVE  j + 1 \in S
  <2>1. ASSUME j + 1 <= m, ~Odd(j + 1)
        PROVE  f[j + 1] = g[j + 1]
    <3>1. (j + 1) \div 2 \in 0 .. j
      OBVIOUS
    <3>2. QED
      BY <1>1, <2>1, <3>1
  <2>2. \A k \in 0 .. j + 1 : k \in 0 .. j \/ k = j + 1
    OBVIOUS
  <2>3. QED
    BY <1>1, <2>1, <2>2
<1>4. S = Nat
  <2> HIDE DEF S
  <2>1. S \in SUBSET Nat
    BY DEF S
  <2>2. QED
    BY <1>2, <1>3, <2>1, NumbersByStep
<1>5. QED
  BY <1>4

\* An odd position has a sibling; an even one of an edge is that above it.
LEMMA SiblingAbove ==
  ASSUME NEW n \in Nat
  PROVE  WithSibling(n) = IF Odd(n) \/ n = 0 THEN n ELSE WithSibling(n \div 2)
<1> DEFINE up(k) == CHOOSE f : Halves(k, f)
<1>1. \A k \in Nat : Halves(k, up(k))
  <2>1. \A k \in Nat : \E f : Halves(k, f)
    BY HalvesExist
  <2>2. QED
    BY <2>1, Zenon
<1>2. \A k : WithSibling(k) = up(k)[k]
  BY Zenon DEF WithSibling, Halves
<1> HIDE DEF up
<1>3. n \div 2 \in Nat /\ n \div 2 <= n
  OBVIOUS
<1>4. up(n)[n] = IF Odd(n) \/ n = 0 THEN n ELSE up(n)[n \div 2]
  BY <1>1 DEF Halves
<1>5. up(n)[n \div 2] = up(n \div 2)[n \div 2]
  BY <1>1, <1>3, HalvesAgree
<1>6. QED
  BY <1>2, <1>4, <1>5


\* The smallest of some numbers.
LEMMA Smallest ==
  ASSUME NEW S \in SUBSET Nat, S # {}
  PROVE  \E n \in S : \A m \in S : n <= m
<1>1. PICK n \in S : \A m \in S : ~ (<<m, n>> \in OpToRel(<, Nat))
  BY NatLessThanWellFounded, WFMin
<1>2. \A m \in S : ~ (m < n)
  BY <1>1 DEF OpToRel
<1>3. QED
  BY <1>2

(* The audit service's tree, level by level.                                 *)

IsLevel(s, n) == n \in Nat \ {0} /\ Len(s) = n /\ s = [i \in 1 .. n |-> s[i]]

LEMMA NextLevels ==
  ASSUME NEW s, NEW n, IsLevel(s, n)
  PROVE  /\ IsLevel(NextLevel(s), (n + 1) \div 2)
         /\ \A f \in 0 .. n - 1 :
              /\ f \div 2 \in 0 .. (n + 1) \div 2 - 1
              /\ NextLevel(s)[f \div 2 + 1] =
                   IF Odd(f) THEN nodeHash(s[f], s[f + 1])
                   ELSE IF f = n - 1 THEN s[f + 1] ELSE nodeHash(s[f + 1], s[f + 2])
<1> DEFINE half == (n + 1) \div 2
           up(i) == IF 2 * i > n THEN s[n] ELSE nodeHash(s[2 * i - 1], s[2 * i])
<1>1. n \in Nat \ {0} /\ half \in Nat \ {0}
  BY DEF IsLevel
<1>2. NextLevel(s) = [i \in 1 .. half |-> up(i)]
  BY DEF NextLevel, Last, IsLevel
<1> HIDE DEF nodeHash
<1>3. IsLevel(NextLevel(s), half)
  <2> HIDE DEF up, half
  <2>1. NextLevel(s) = [i \in 1 .. half |-> NextLevel(s)[i]]
    BY <1>2
  <2>2. Len(NextLevel(s)) = half
    BY <1>1, <1>2
  <2>3. QED
    BY <1>1, <2>1, <2>2 DEF IsLevel
<1>4. ASSUME NEW f \in 0 .. n - 1
      PROVE  /\ f \div 2 \in 0 .. half - 1
             /\ NextLevel(s)[f \div 2 + 1] =
                  IF Odd(f) THEN nodeHash(s[f], s[f + 1])
                  ELSE IF f = n - 1 THEN s[f + 1] ELSE nodeHash(s[f + 1], s[f + 2])
  <2>1. f \div 2 \in 0 .. half - 1 /\ f \div 2 + 1 \in 1 .. half
    BY <1>1
  <2>2. NextLevel(s)[f \div 2 + 1] = up(f \div 2 + 1)
    BY <1>2, <2>1
  <2>3. CASE Odd(f)
    <3>1. 2 * (f \div 2 + 1) = f + 1 /\ f + 1 <= n /\ 2 * (f \div 2 + 1) - 1 = f
      BY <1>1, <2>3 DEF Odd
    <3>2. QED
      BY <1>1, <2>1, <2>2, <2>3, <3>1
  <2>4. CASE ~Odd(f)
    <3>1. /\ 2 * (f \div 2 + 1) = f + 2 /\ 2 * (f \div 2 + 1) - 1 = f + 1
          /\ f + 2 > n <=> f = n - 1
      BY <1>1, <2>4 DEF Odd
    <3>2. up(f \div 2 + 1) = IF f = n - 1 THEN s[n] ELSE nodeHash(s[f + 1], s[f + 2])
      BY <3>1
    <3>3. f = n - 1 => s[n] = s[f + 1]
      BY <1>1
    <3> HIDE DEF up
    <3>4. QED
      BY <2>1, <2>2, <2>4, <3>2, <3>3
  <2>5. QED
    BY <2>3, <2>4
<1>5. QED
  BY <1>3, <1>4

\* The state of a walk at node f of a level, and walks that go on alike.
Node(s, n, f) == [fn |-> f, sn |-> n - 1, r |-> s[f + 1]]
GoOnAlike(w, v) ==
  /\ w.r = v.r /\ (w.sn = 0 <=> v.sn = 0)
  /\ v.sn # 0 => \A sibling : Climb(w, sibling) = Climb(v, sibling)

\* What stands beside node f of a level.
Sibling(s, f) == IF Odd(f) THEN s[f] ELSE s[f + 2]

\* A node with a sibling: one climb leads to the node above it.
LEMMA ClimbsToTheNext ==
  ASSUME NEW s, NEW n, IsLevel(s, n), NEW f \in 0 .. n - 1, n # 1, Odd(f) \/ f # n - 1
  PROVE  Climb(Node(s, n, f), Sibling(s, f)) = Node(NextLevel(s), (n + 1) \div 2, f \div 2)
<1>1. n \in Nat \ {0, 1}
  BY DEF IsLevel
<1>2. f \div 2 \in 0 .. (n + 1) \div 2 - 1 /\ (n - 1) \div 2 = (n + 1) \div 2 - 1
  BY <1>1
<1>3. Odd(f) => WithSibling(f) = f
  BY SiblingAbove
<1> DEFINE sibling == IF Odd(f) THEN s[f] ELSE s[f + 2]
<1>4. Climb(Node(s, n, f), sibling) =
        [fn |-> f \div 2, sn |-> (n - 1) \div 2,
         r |-> IF Odd(f) THEN nodeHash(s[f], s[f + 1]) ELSE nodeHash(s[f + 1], s[f + 2])]
  <2> HIDE DEF nodeHash, Odd
  <2>1. QED
    BY <1>1, <1>3 DEF Climb, Node, Rightmost
<1>5. NextLevel(s)[f \div 2 + 1] =
        IF Odd(f) THEN nodeHash(s[f], s[f + 1]) ELSE nodeHash(s[f + 1], s[f + 2])
  BY NextLevels
<1>6. QED
  <2> HIDE DEF sibling
  <2>1. Climb(Node(s, n, f), sibling) = Node(NextLevel(s), (n + 1) \div 2, f \div 2)
    BY <1>2, <1>4, <1>5 DEF Node
  <2>2. QED
    BY <2>1 DEF sibling, Sibling

\* The last node of an odd level: a walk goes on from it as from the one above.
LEMMA PromotedGoesOn ==
  ASSUME NEW s, NEW n, IsLevel(s, n), n # 1, ~Odd(n - 1)
  PROVE  GoOnAlike(Node(s, n, n - 1), Node(NextLevel(s), (n + 1) \div 2, (n - 1) \div 2))
<1> DEFINE f == n - 1
           g == f \div 2
<1>1. n \in Nat \ {0, 1} /\ f \in Nat \ {0} /\ f \in 0 .. n - 1 /\ g \in Nat \ {0}
      /\ (n + 1) \div 2 - 1 = g
  BY DEF IsLevel, Odd
<1>2. WithSibling(f) = WithSibling(g)
  BY <1>1, SiblingAbove
<1>3. NextLevel(s)[g + 1] = s[f + 1]
  BY <1>1, NextLevels
<1> HIDE DEF f, g
<1>4. Node(s, n, f) = [fn |-> f, sn |-> f, r |-> s[f + 1]]
  BY DEF Node, f
<1>5. Node(NextLevel(s), (n + 1) \div 2, g) = [fn |-> g, sn |-> g, r |-> s[f + 1]]
  BY <1>1, <1>3 DEF Node
<1>6. ASSUME NEW sibling
      PROVE  Climb([fn |-> f, sn |-> f, r |-> s[f + 1]], sibling) =
               Climb([fn |-> g, sn |-> g, r |-> s[f + 1]], sibling)
  BY <1>1, <1>2 DEF Climb, Rightmost
<1>7. GoOnAlike(Node(s, n, f), Node(NextLevel(s), (n + 1) \div 2, g))
  BY <1>1, <1>4, <1>5, <1>6 DEF GoOnAlike
<1>8. QED
  BY <1>7 DEF f, g

\* The levels as the loop makes them, up to the nth.
Levels(leaves, n, level) ==
  level = [k \in 1 .. n |-> IF k = 1 THEN leaves ELSE NextLevel(level[k - 1])]

LEMMA LevelsExist ==
  ASSUME NEW leaves, NEW n \in Nat
  PROVE  \E level : Levels(leaves, n, level)
<1> DEFINE S == {m \in Nat : \E level : Levels(leaves, m, level)}
<1>1. 0 \in S
  <2>1. \A k \in 1 .. 0 : FALSE
    OBVIOUS
  <2>2. Levels(leaves, 0, [k \in 1 .. 0 |-> leaves])
    BY <2>1 DEF Levels
  <2>3. QED
    BY <2>2
<1>2. ASSUME NEW m \in S
      PROVE  m + 1 \in S
  <2>1. PICK level : Levels(leaves, m, level)
    OBVIOUS
  <2> DEFINE new == [k \in 1 .. m + 1 |->
                       IF k <= m THEN level[k] ELSE IF k = 1 THEN leaves ELSE NextLevel(level[k - 1])]
  <2>2. ASSUME NEW k \in 1 .. m + 1
        PROVE  new[k] = IF k = 1 THEN leaves ELSE NextLevel(new[k - 1])
    <3>1. k # 1 => k - 1 \in 1 .. m + 1 /\ k - 1 <= m
      OBVIOUS
    <3>2. CASE k <= m
      <4>1. k \in 1 .. m
        BY <3>2
      <4>2. level[k] = IF k = 1 THEN leaves ELSE NextLevel(level[k - 1])
        BY <2>1, <4>1 DEF Levels
      <4>3. QED
        BY <3>1, <3>2, <4>2
    <3>3. CASE k = m + 1
      BY <3>1, <3>3
    <3>4. QED
      BY <3>2, <3>3
  <2>3. Levels(leaves, m + 1, new)
    <3>1. new = [k \in 1 .. m + 1 |-> new[k]]
      OBVIOUS
    <3> HIDE DEF new
    <3>2. QED
      BY <2>2, <3>1 DEF Levels
  <2>4. QED
    BY <2>3
<1>3. S = Nat
  <2> HIDE DEF S
  <2>1. S \in SUBSET Nat
    BY DEF S
  <2>2. QED
    BY <1>1, <1>2, <2>1, NumbersByStep
<1>4. QED
  BY <1>3

\* A level that is not the root alone has fewer nodes than the one below it.
LEMMA LevelsShrink ==
  ASSUME NEW leaves, NEW n, IsLevel(leaves, n), NEW level, Levels(leaves, n, level)
  PROVE  /\ level[1] = leaves
         /\ \A k \in 1 .. n : /\ IsLevel(level[k], Len(level[k]))
                              /\ Len(level[k]) = 1 \/ Len(level[k]) + k <= n + 1
                              /\ k # 1 => level[k] = NextLevel(level[k - 1])
<1> DEFINE Fits(k) == /\ IsLevel(level[k], Len(level[k]))
                      /\ Len(level[k]) = 1 \/ Len(level[k]) + k <= n + 1
           S == {k \in Nat : k \in 1 .. n => Fits(k)}
<1>1. n \in Nat \ {0}
  BY DEF IsLevel
<1>2. \A k \in 1 .. n : level[k] = IF k = 1 THEN leaves ELSE NextLevel(level[k - 1])
  BY DEF Levels
<1>3. 0 \in S
  OBVIOUS
<1>4. ASSUME NEW k \in S
      PROVE  k + 1 \in S
  <2>1. k \in Nat /\ (k \in 1 .. n => Fits(k))
    OBVIOUS
  <2>2. CASE k = 0
    <3>1. level[1] = leaves
      BY <1>1, <1>2
    <3>2. Fits(1)
      BY <3>1, <1>1 DEF IsLevel
    <3> HIDE DEF Fits
    <3>3. QED
      BY <2>2, <3>2
  <2>3. CASE k # 0
    <3>1. SUFFICES ASSUME k + 1 \in 1 .. n PROVE Fits(k + 1)
      <4> HIDE DEF Fits
      <4>1. QED
        BY <2>1
    <3>2. k \in 1 .. n /\ k + 1 # 1 /\ k + 1 - 1 = k
      BY <1>1, <2>1, <2>3, <3>1
    <3>3. level[k + 1] = NextLevel(level[k])
      BY <1>2, <3>1, <3>2
    <3> DEFINE m == Len(level[k])
    <3>4. IsLevel(level[k], m) /\ (m = 1 \/ m + k <= n + 1)
      BY <2>1, <3>2
    <3>5. IsLevel(NextLevel(level[k]), (m + 1) \div 2)
      BY <3>4, NextLevels
    <3>6. Len(level[k + 1]) = (m + 1) \div 2 /\ IsLevel(level[k + 1], (m + 1) \div 2)
      BY <3>3, <3>5 DEF IsLevel
    <3>7. m \in Nat \ {0}
      BY <3>4 DEF IsLevel
    <3> HIDE DEF m
    <3>8. (m + 1) \div 2 = 1 \/ (m + 1) \div 2 + (k + 1) <= n + 1
      BY <1>1, <2>1, <3>4, <3>7
    <3>9. QED
      BY <3>6, <3>8
  <2>4. QED
    BY <2>2, <2>3
<1>5. S = Nat
  <2> HIDE DEF S
  <2>1. S \in SUBSET Nat
    BY DEF S
  <2>2. QED
    BY <1>3, <1>4, <2>1, NumbersByStep
<1>6. ASSUME NEW k \in 1 .. n PROVE Fits(k)
  <2> HIDE DEF Fits
  <2>1. k \in S
    BY <1>1, <1>5
  <2>2. QED
    BY <2>1
<1>7. QED
  BY <1>1, <1>2, <1>6

\* So the levels that are kept end with the root.
LEMMA LevelsEndAtTheRoot ==
  ASSUME NEW leaves, NEW n, IsLevel(leaves, n)
  PROVE  \E level : \E top \in 1 .. n :
           /\ Levels(leaves, n, level)
           /\ Len(level[top]) = 1 /\ \A j \in 1 .. top - 1 : Len(level[j]) > 1
           /\ LET levels == AuditTreeLevels(leaves) IN
                Len(levels) = top /\ \A k \in 1 .. top : levels[k] = level[k]
<1> DEFINE level == CHOOSE f : Levels(leaves, Len(leaves), f)
           Top(k) == Len(level[k]) = 1 /\ \A j \in 1 .. k - 1 : Len(level[j]) > 1
           top == CHOOSE k \in 1 .. n : Top(k)
<1>1. n \in Nat \ {0} /\ Len(leaves) = n
  BY DEF IsLevel
<1>2. Levels(leaves, n, level)
  <2>1. \E f : Levels(leaves, Len(leaves), f)
    BY <1>1, LevelsExist
  <2>2. Levels(leaves, Len(leaves), level)
    BY <2>1, Zenon
  <2>3. QED
    BY <1>1, <2>2
<1>3. AuditTreeLevels(leaves) =
        [k \in 1 .. CHOOSE k \in DOMAIN level :
           Len(level[k]) = 1 /\ \A j \in 1 .. k - 1 : Len(level[j]) > 1 |-> level[k]]
  BY Zenon DEF AuditTreeLevels, Levels
<1> HIDE DEF level
<1>4. DOMAIN level = 1 .. n
  BY <1>2, Zenon DEF Levels
<1>5. AuditTreeLevels(leaves) = [k \in 1 .. top |-> level[k]]
  BY <1>3, <1>4, Zenon
<1>6. \A k \in 1 .. n : /\ Len(level[k]) \in Nat \ {0}
                        /\ Len(level[k]) = 1 \/ Len(level[k]) + k <= n + 1
  BY <1>2, LevelsShrink DEF IsLevel
<1>7. \E k \in 1 .. n : Top(k)
  <2> DEFINE size(k) == Len(level[k])
             S == {k \in Nat : k \in 1 .. n /\ size(k) = 1}
  <2>1. \A k \in 1 .. n : size(k) \in Nat \ {0} /\ (size(k) = 1 \/ size(k) + k <= n + 1)
    BY <1>6
  <2> SUFFICES \E k \in 1 .. n : size(k) = 1 /\ \A j \in 1 .. k - 1 : size(j) > 1
    OBVIOUS
  <2> HIDE DEF size
  <2>2. n \in S
    BY <1>1, <2>1
  <2>3. PICK k \in S : \A m \in S : k <= m
    BY <2>2, Smallest
  <2>4. ASSUME NEW j \in 1 .. k - 1 PROVE size(j) > 1
    <3>1. j \in 1 .. n /\ j \in Nat /\ ~(k <= j)
      BY <1>1
    <3>2. size(j) # 1
      BY <2>3, <3>1
    <3>3. QED
      BY <2>1, <3>1, <3>2
  <2>5. QED
    BY <2>4
<1>8. top \in 1 .. n /\ Top(top)
  <2> HIDE DEF Top
  <2>1. QED
    BY <1>7, Zenon
<1>9. /\ Len(AuditTreeLevels(leaves)) = top
      /\ \A k \in 1 .. top : AuditTreeLevels(leaves)[k] = level[k]
  <2> HIDE DEF top
  <2>1. QED
    BY <1>5, <1>8
<1>10. \A j \in 1 .. top - 1 : Len(level[j]) > 1
  BY <1>8
<1> HIDE DEF top
<1>11. QED
  BY <1>2, <1>8, <1>9, <1>10

(* The walk beside the tree.                                                 *)

\* A walk of m siblings.
Walks(W, m, start) ==
  /\ W[0] = start
  /\ \A k \in 1 .. m : W[k - 1].sn # 0 /\ \E sibling : W[k] = Climb(W[k - 1], sibling)

\* The next step of a walk.
LEMMA WalkStep ==
  ASSUME NEW m \in Nat, NEW W, NEW start, Walks(W, m, start), NEW k \in Nat, k + 1 \in 1 .. m
  PROVE  W[k].sn # 0 /\ \E sibling : W[k + 1] = Climb(W[k], sibling)
<1>1. PICK j \in 1 .. m : j = k + 1
  OBVIOUS
<1>2. j - 1 = k
  BY <1>1
<1>3. W[j - 1].sn # 0 /\ \E sibling : W[j] = Climb(W[j - 1], sibling)
  BY DEF Walks
<1>4. QED
  BY <1>1, <1>2, <1>3, Zenon

(* The walk along a path.                                                    *)

IsPath(path) == \E S : path \in Seq(S)

ClimbsBy(start, path, m, W) ==
  W = [k \in 0 .. m |-> IF k = 0 THEN start ELSE Climb(W[k - 1], path[k])]

LEMMA ClimbsExist ==
  ASSUME NEW start, NEW path, NEW n \in Nat
  PROVE  \E W : ClimbsBy(start, path, n, W)
<1> DEFINE S == {m \in Nat : \E W : ClimbsBy(start, path, m, W)}
<1>1. 0 \in S
  <2> DEFINE W == [k \in 0 .. 0 |-> start]
  <2>1. ClimbsBy(start, path, 0, W)
    <3>1. W = [k \in 0 .. 0 |-> IF k = 0 THEN start ELSE Climb(W[k - 1], path[k])]
      OBVIOUS
    <3>2. QED
      BY <3>1, Zenon DEF ClimbsBy
  <2>2. QED
    BY <2>1
<1>2. ASSUME NEW m \in S
      PROVE  m + 1 \in S
  <2>1. PICK W : ClimbsBy(start, path, m, W)
    OBVIOUS
  <2> DEFINE V == [k \in 0 .. m + 1 |-> IF k <= m THEN W[k] ELSE Climb(W[m], path[m + 1])]
  <2>2. ASSUME NEW k \in 0 .. m + 1
        PROVE  V[k] = IF k = 0 THEN start ELSE Climb(V[k - 1], path[k])
    <3>1. k # 0 => k - 1 \in 0 .. m + 1 /\ k - 1 <= m
      OBVIOUS
    <3>2. CASE k <= m
      <4>1. k \in 0 .. m
        BY <3>2
      <4>2. W[k] = IF k = 0 THEN start ELSE Climb(W[k - 1], path[k])
        BY <2>1, <4>1 DEF ClimbsBy
      <4>3. k # 0 => V[k - 1] = W[k - 1]
        BY <3>1
      <4>4. V[k] = W[k]
        BY <3>2
      <4> HIDE DEF V
      <4>5. QED
        BY <4>2, <4>3, <4>4
    <3>3. CASE k = m + 1
      <4>1. V[k] = Climb(W[m], path[m + 1]) /\ V[k - 1] = W[m] /\ k # 0
        BY <3>1, <3>3
      <4> HIDE DEF V
      <4>2. QED
        BY <3>3, <4>1
    <3>4. QED
      BY <3>2, <3>3
  <2>3. ClimbsBy(start, path, m + 1, V)
    <3>1. V = [k \in 0 .. m + 1 |-> V[k]]
      OBVIOUS
    <3> HIDE DEF V
    <3>2. QED
      BY <2>2, <3>1 DEF ClimbsBy
  <2>4. QED
    BY <2>3
<1>3. S = Nat
  <2> HIDE DEF S
  <2>1. S \in SUBSET Nat
    BY DEF S
  <2>2. QED
    BY <1>1, <1>2, <2>1, NumbersByStep
<1>4. QED
  BY <1>3

\* Each sibling is one climb.
LEMMA ClimbsSteps ==
  ASSUME NEW start, NEW path, Len(path) \in Nat
  PROVE  /\ Climbs(start, path)[0] = start
         /\ \A k \in 1 .. Len(path) : Climbs(start, path)[k] = Climb(Climbs(start, path)[k - 1], path[k])
<1> DEFINE W == CHOOSE f : ClimbsBy(start, path, Len(path), f)
<1>1. ClimbsBy(start, path, Len(path), W)
  BY ClimbsExist, Zenon
<1>2. Climbs(start, path) = W
  BY Zenon DEF Climbs, ClimbsBy
<1> HIDE DEF W
<1>3. W[0] = start /\ \A k \in 1 .. Len(path) : W[k] = Climb(W[k - 1], path[k])
  BY <1>1 DEF ClimbsBy
<1>4. QED
  BY <1>2, <1>3

\* A longer path goes the same way first.
LEMMA ClimbsOn ==
  ASSUME NEW start, NEW path, IsPath(path), NEW sibling
  PROVE  /\ IsPath(Append(path, sibling)) /\ Len(Append(path, sibling)) = Len(path) + 1
         /\ Len(path) \in Nat
         /\ \A k \in 0 .. Len(path) : Climbs(start, Append(path, sibling))[k] = Climbs(start, path)[k]
         /\ Climbs(start, Append(path, sibling))[Len(path) + 1] =
              Climb(Climbs(start, path)[Len(path)], sibling)
<1> DEFINE n == Len(path)
           longer == Append(path, sibling)
           W == Climbs(start, path)
           V == Climbs(start, longer)
<1>1. PICK S : path \in Seq(S)
  BY DEF IsPath
<1>2. /\ longer \in Seq(S \cup {sibling}) /\ Len(longer) = n + 1 /\ n \in Nat
      /\ \A k \in 1 .. n : longer[k] = path[k]
      /\ longer[n + 1] = sibling
  <2>1. path \in Seq(S \cup {sibling})
    BY <1>1
  <2>2. QED
    BY <2>1
<1> HIDE DEF n, longer
<1>3. W[0] = start /\ \A k \in 1 .. n : W[k] = Climb(W[k - 1], path[k])
  BY <1>2, ClimbsSteps DEF n
<1>4. V[0] = start /\ \A k \in 1 .. n + 1 : V[k] = Climb(V[k - 1], longer[k])
  BY <1>2, ClimbsSteps
<1> HIDE DEF W, V
<1> DEFINE A == {k \in Nat : k <= n => V[k] = W[k]}
<1>5. 0 \in A
  BY <1>3, <1>4
<1>6. ASSUME NEW k \in A PROVE k + 1 \in A
  <2> SUFFICES ASSUME k + 1 <= n PROVE V[k + 1] = W[k + 1]
    OBVIOUS
  <2>1. k + 1 \in 1 .. n /\ k + 1 \in 1 .. n + 1 /\ k + 1 - 1 = k /\ V[k] = W[k]
    BY <1>2
  <2>2. QED
    BY <1>2, <1>3, <1>4, <2>1
<1>7. A = Nat
  <2> HIDE DEF A
  <2>1. A \in SUBSET Nat
    BY DEF A
  <2>2. QED
    BY <1>5, <1>6, <2>1, NumbersByStep
<1>8. \A k \in 0 .. n : V[k] = W[k]
  BY <1>2, <1>7
<1>9. V[n + 1] = Climb(W[n], sibling)
  <2>1. n + 1 \in 1 .. n + 1 /\ n + 1 - 1 = n /\ n \in 0 .. n
    BY <1>2
  <2>2. QED
    BY <1>2, <1>4, <1>8, <2>1
<1>10. IsPath(longer)
  BY <1>2 DEF IsPath
<1>11. QED
  BY <1>2, <1>8, <1>9, <1>10 DEF n, longer, W, V

(* The split of RFC 6962.                                                    *)

\* What doubling comes to from each number on.
Doubles(n, f) == f = [k \in 1 .. n |-> IF 2 * k < n THEN f[2 * k] ELSE k]

LEMMA DoublesExist ==
  ASSUME NEW n \in Nat
  PROVE  \E f : Doubles(n, f)
<1> DEFINE next(f, k) == IF 2 * k < n THEN f[2 * k] ELSE k
           From(m, f) == /\ f = [k \in 1 .. n |-> f[k]]
                         /\ \A k \in 1 .. n : k + m >= n => f[k] = next(f, k)
           S == {m \in Nat : \E f : From(m, f)}
<1>1. 0 \in S
  <2> DEFINE g == [k \in 1 .. n |-> k]
  <2>1. From(0, g)
    OBVIOUS
  <2> HIDE DEF From
  <2>2. QED
    BY <2>1
<1>2. ASSUME NEW m \in S
      PROVE  m + 1 \in S
  <2>1. PICK f : From(m, f)
    OBVIOUS
  <2> DEFINE g == [k \in 1 .. n |-> IF k + m >= n THEN f[k] ELSE next(f, k)]
  <2>2. ASSUME NEW k \in 1 .. n, k + (m + 1) >= n
        PROVE  g[k] = next(g, k)
    <3>1. g[k] = next(f, k)
      BY <2>1
    <3>2. 2 * k < n => 2 * k \in 1 .. n /\ 2 * k + m >= n
      BY <2>2
    <3>3. 2 * k < n => g[2 * k] = f[2 * k]
      BY <3>2
    <3> HIDE DEF g
    <3>4. QED
      BY <3>1, <3>3
  <2>3. From(m + 1, g)
    <3>1. g = [k \in 1 .. n |-> g[k]]
      OBVIOUS
    <3> HIDE DEF g, next
    <3>2. QED
      BY <2>2, <3>1
  <2> HIDE DEF From
  <2>4. QED
    BY <2>3
<1>3. S = Nat
  <2> HIDE DEF S
  <2>1. S \in SUBSET Nat
    BY DEF S
  <2>2. QED
    BY <1>1, <1>2, <2>1, NumbersByStep
<1>4. PICK f : From(n, f)
  <2> HIDE DEF From
  <2>1. n \in S
    BY <1>3
  <2>2. QED
    BY <2>1
<1>5. Doubles(n, f)
  <2>1. \A k \in 1 .. n : f[k] = next(f, k)
    <3>1. \A k \in 1 .. n : k + n >= n
      OBVIOUS
    <3> HIDE DEF next
    <3>2. QED
      BY <1>4, <3>1
  <2>2. f = [k \in 1 .. n |-> next(f, k)]
    <3>1. f = [k \in 1 .. n |-> f[k]]
      BY <1>4
    <3> HIDE DEF next
    <3>2. QED
      BY <2>1, <3>1
  <2>3. QED
    BY <2>2 DEF Doubles
<1>6. QED
  BY <1>5

LEMMA SplitDoubles ==
  ASSUME NEW n \in Nat
  PROVE  \E f : /\ split(n) = f[1]
                /\ \A k \in 1 .. n : f[k] = IF 2 * k < n THEN f[2 * k] ELSE k
<1> DEFINE f == CHOOSE g : Doubles(n, g)
<1>1. Doubles(n, f)
  BY DoublesExist, Zenon
<1>2. split(n) = f[1]
  BY Zenon DEF split, Doubles
<1> HIDE DEF f
<1>3. \A k \in 1 .. n : f[k] = IF 2 * k < n THEN f[2 * k] ELSE k
  BY <1>1 DEF Doubles
<1>4. QED
  BY <1>2, <1>3

\* Both parts of a tree hold leaves.
LEMMA SplitInside ==
  ASSUME NEW n \in Nat, n > 1
  PROVE  split(n) \in 1 .. n - 1
<1>1. PICK f : /\ split(n) = f[1]
               /\ \A k \in 1 .. n : f[k] = IF 2 * k < n THEN f[2 * k] ELSE k
  BY SplitDoubles
<1> DEFINE S == {m \in Nat : \A k \in 1 .. n - 1 : k + m >= n => f[k] \in 1 .. n - 1}
<1>2. 0 \in S
  OBVIOUS
<1>3. ASSUME NEW m \in S
      PROVE  m + 1 \in S
  <2> SUFFICES ASSUME NEW k \in 1 .. n - 1, k + (m + 1) >= n PROVE f[k] \in 1 .. n - 1
    OBVIOUS
  <2>1. k \in 1 .. n /\ (2 * k < n => 2 * k \in 1 .. n - 1 /\ 2 * k + m >= n)
    OBVIOUS
  <2>2. 2 * k < n => f[2 * k] \in 1 .. n - 1
    BY <2>1
  <2>3. QED
    BY <1>1, <2>1, <2>2
<1>4. S = Nat
  <2> HIDE DEF S
  <2>1. S \in SUBSET Nat
    BY DEF S
  <2>2. QED
    BY <1>2, <1>3, <2>1, NumbersByStep
<1>5. f[1] \in 1 .. n - 1
  <2>1. \A k \in 1 .. n - 1 : k + n >= n => f[k] \in 1 .. n - 1
    <3>1. n \in S
      <4> HIDE DEF S
      <4>1. QED
        BY <1>4
    <3>2. QED
      BY <3>1
  <2>2. 1 \in 1 .. n - 1 /\ 1 + n >= n
    OBVIOUS
  <2>3. QED
    BY <2>1, <2>2
<1>6. QED
  BY <1>1, <1>5

\* The powers of two: what doubling 1 leads to.
PowerOfTwo(d) ==
  /\ d \in Nat \ {0}
  /\ \A S \in SUBSET Nat : 1 \in S /\ (\A x \in S : 2 * x \in S) => d \in S

LEMMA PowersDouble ==
  /\ PowerOfTwo(1)
  /\ \A d : PowerOfTwo(d) => PowerOfTwo(2 * d)
<1>1. PowerOfTwo(1)
  BY DEF PowerOfTwo
<1>2. ASSUME NEW d, PowerOfTwo(d) PROVE PowerOfTwo(2 * d)
  <2>1. d \in Nat \ {0} /\ 2 * d \in Nat \ {0}
    BY <1>2 DEF PowerOfTwo
  <2>2. \A S \in SUBSET Nat : 1 \in S /\ (\A x \in S : 2 * x \in S) => d \in S
    BY <1>2 DEF PowerOfTwo
  <2>3. QED
    BY <2>1, <2>2 DEF PowerOfTwo
<1>3. QED
  BY <1>1, <1>2

\* A tree splits at the largest power of two below its number of leaves.
LEMMA SplitsAtPowers ==
  ASSUME NEW n \in Nat, NEW d, PowerOfTwo(d), d < n, n <= 2 * d
  PROVE  split(n) = d
<1>1. PICK f : /\ split(n) = f[1]
               /\ \A k \in 1 .. n : f[k] = IF 2 * k < n THEN f[2 * k] ELSE k
  BY SplitDoubles
<1>2. d \in Nat \ {0}
  BY DEF PowerOfTwo
<1> DEFINE S == {k \in Nat : k \in Nat \ {0} /\ (k < n => f[k] = f[1])}
<1>3. 1 \in S
  OBVIOUS
<1>4. ASSUME NEW k \in S PROVE 2 * k \in S
  <2>1. 2 * k < n => k \in 1 .. n /\ f[k] = f[1]
    OBVIOUS
  <2>2. QED
    BY <1>1, <2>1
<1>5. d \in S
  <2> HIDE DEF S
  <2>1. S \in SUBSET Nat
    BY DEF S
  <2>2. QED
    BY <1>3, <1>4, <2>1 DEF PowerOfTwo
<1>6. f[d] = d /\ f[d] = f[1]
  <2>1. d \in 1 .. n /\ ~(2 * d < n)
    BY <1>2
  <2>2. QED
    BY <1>1, <1>5, <2>1
<1>7. QED
  BY <1>1, <1>6

(* The tree of RFC 6962, and the paths in it.                                *)

\* The parts of a part.
LEMMA Parts ==
  ASSUME NEW leaves, NEW n, IsLevel(leaves, n), NEW span \in Spans(leaves), span[1] < span[2]
  PROVE  /\ span[1] \in 1 .. n /\ span[2] \in 1 .. n
         /\ Mid(span) \in span[1] + 1 .. span[2]
         /\ Mid(span) = span[1] + split(span[2] - span[1] + 1)
         /\ Left(span) \in Spans(leaves) /\ Right(span) \in Spans(leaves)
         /\ Left(span)[1] = span[1] /\ Left(span)[2] = Mid(span) - 1
         /\ Right(span)[1] = Mid(span) /\ Right(span)[2] = span[2]
<1>1. DOMAIN leaves = 1 .. n /\ n \in Nat \ {0}
  BY DEF IsLevel
<1>2. span[1] \in 1 .. n /\ span[2] \in 1 .. n
  BY <1>1 DEF Spans
<1>3. span[2] - span[1] + 1 \in Nat /\ span[2] - span[1] + 1 > 1
  BY <1>1, <1>2
<1>4. split(span[2] - span[1] + 1) \in 1 .. (span[2] - span[1] + 1) - 1
  BY <1>3, SplitInside
<1>5. Mid(span) \in span[1] + 1 .. span[2]
  BY <1>2, <1>4 DEF Mid
<1>6. Mid(span) \in 1 .. n /\ Mid(span) - 1 \in 1 .. n
  BY <1>1, <1>2, <1>5
<1>7. Left(span) = <<span[1], Mid(span) - 1>> /\ Right(span) = <<Mid(span), span[2]>>
  BY DEF Left, Right
<1>8. Mid(span) = span[1] + split(span[2] - span[1] + 1)
  BY DEF Mid
<1>9. QED
  BY <1>1, <1>2, <1>5, <1>6, <1>7, <1>8 DEF Spans

Trees(leaves, T) ==
  T = [span \in Spans(leaves) |->
         IF span[1] >= span[2] THEN leaves[span[1]]
         ELSE nodeHash(T[Left(span)], T[Right(span)])]

LEMMA TreesExist ==
  ASSUME NEW leaves, NEW n, IsLevel(leaves, n)
  PROVE  \E T : Trees(leaves, T)
<1> DEFINE next(T, span) == IF span[1] >= span[2] THEN leaves[span[1]]
                            ELSE nodeHash(T[Left(span)], T[Right(span)])
           UpTo(m, T) == /\ T = [span \in Spans(leaves) |-> T[span]]
                         /\ \A span \in Spans(leaves) :
                              span[2] <= span[1] + m => T[span] = next(T, span)
           S == {m \in Nat : \E T : UpTo(m, T)}
<1>1. /\ n \in Nat
      /\ \A span \in Spans(leaves) : span[1] \in 1 .. n /\ span[2] \in 1 .. n
  BY DEF Spans, IsLevel
<1>2. 0 \in S
  <2> DEFINE T == [span \in Spans(leaves) |-> leaves[span[1]]]
  <2>1. \A span \in Spans(leaves) : span[2] <= span[1] + 0 => T[span] = next(T, span)
    BY <1>1
  <2>2. T = [span \in Spans(leaves) |-> T[span]]
    OBVIOUS
  <2> HIDE DEF T, next
  <2>3. UpTo(0, T)
    BY <2>1, <2>2
  <2> HIDE DEF UpTo
  <2>4. QED
    BY <2>3
<1>3. ASSUME NEW m \in S
      PROVE  m + 1 \in S
  <2>1. PICK T : UpTo(m, T)
    OBVIOUS
  <2> DEFINE U == [span \in Spans(leaves) |-> IF span[2] <= span[1] + m THEN T[span] ELSE next(T, span)]
  <2>2. ASSUME NEW span \in Spans(leaves), span[2] <= span[1] + (m + 1)
        PROVE  U[span] = next(U, span)
    <3>1. U[span] = next(T, span)
      <4> HIDE DEF next
      <4>1. QED
        BY <2>1
    <3>2. span[1] < span[2] => U[Left(span)] = T[Left(span)] /\ U[Right(span)] = T[Right(span)]
      <4> SUFFICES ASSUME span[1] < span[2]
                   PROVE  U[Left(span)] = T[Left(span)] /\ U[Right(span)] = T[Right(span)]
        OBVIOUS
      <4>1. /\ Left(span) \in Spans(leaves) /\ Right(span) \in Spans(leaves)
            /\ Left(span)[2] <= Left(span)[1] + m /\ Right(span)[2] <= Right(span)[1] + m
        BY <1>1, <2>2, Parts
      <4> HIDE DEF next
      <4>2. QED
        BY <4>1
    <3> HIDE DEF U
    <3>3. span[1] < span[2] \/ span[1] >= span[2]
      BY <1>1
    <3>4. QED
      BY <3>1, <3>2, <3>3
  <2>3. UpTo(m + 1, U)
    <3>1. U = [span \in Spans(leaves) |-> U[span]]
      OBVIOUS
    <3> HIDE DEF U, next
    <3>2. QED
      BY <2>2, <3>1
  <2> HIDE DEF UpTo
  <2>4. QED
    BY <2>3
<1>4. S = Nat
  <2> HIDE DEF S
  <2>1. S \in SUBSET Nat
    BY DEF S
  <2>2. QED
    BY <1>2, <1>3, <2>1, NumbersByStep
<1>5. PICK T : UpTo(n, T)
  <2> HIDE DEF UpTo
  <2>1. n \in S
    BY <1>1, <1>4
  <2>2. QED
    BY <2>1
<1>6. \A span \in Spans(leaves) : T[span] = next(T, span)
  <2>1. \A span \in Spans(leaves) : span[2] <= span[1] + n
    BY <1>1
  <2> HIDE DEF next
  <2>2. QED
    BY <1>5, <2>1
<1>7. T = [span \in Spans(leaves) |-> next(T, span)]
  <2>1. T = [span \in Spans(leaves) |-> T[span]]
    BY <1>5
  <2> HIDE DEF next
  <2>2. QED
    BY <1>6, <2>1
<1>8. Trees(leaves, T)
  BY <1>7, Zenon DEF Trees
<1>9. QED
  BY <1>8

LEMMA TreeIsBuilt ==
  ASSUME NEW leaves, NEW n, IsLevel(leaves, n), NEW span \in Spans(leaves)
  PROVE  subtree(leaves)[span] =
           IF span[1] >= span[2] THEN leaves[span[1]]
           ELSE nodeHash(subtree(leaves)[Left(span)], subtree(leaves)[Right(span)])
<1> DEFINE T == CHOOSE f : Trees(leaves, f)
<1>1. Trees(leaves, T)
  BY TreesExist, Zenon
<1>2. subtree(leaves) = T
  BY Zenon DEF subtree, Trees
<1> HIDE DEF T
<1>3. T[span] = IF span[1] >= span[2] THEN leaves[span[1]]
                ELSE nodeHash(T[Left(span)], T[Right(span)])
  <2> HIDE DEF Left, Right, nodeHash, Spans
  <2>1. QED
    BY <1>1 DEF Trees
<1>4. QED
  BY <1>2, <1>3

PathsTo(index, leaves, P) ==
  P = [span \in Spans(leaves) |->
         IF span[1] >= span[2] THEN <<>>
         ELSE IF index + 1 < Mid(span) THEN Append(P[Left(span)], subtree(leaves)[Right(span)])
         ELSE Append(P[Right(span)], subtree(leaves)[Left(span)])]

LEMMA PathsExist ==
  ASSUME NEW leaves, NEW n, IsLevel(leaves, n), NEW index
  PROVE  \E P : PathsTo(index, leaves, P)
<1> DEFINE next(P, span) ==
             IF span[1] >= span[2] THEN <<>>
             ELSE IF index + 1 < Mid(span) THEN Append(P[Left(span)], subtree(leaves)[Right(span)])
             ELSE Append(P[Right(span)], subtree(leaves)[Left(span)])
           UpTo(m, P) == /\ P = [span \in Spans(leaves) |-> P[span]]
                         /\ \A span \in Spans(leaves) :
                              span[2] <= span[1] + m => P[span] = next(P, span)
           S == {m \in Nat : \E P : UpTo(m, P)}
<1>1. /\ n \in Nat
      /\ \A span \in Spans(leaves) : span[1] \in 1 .. n /\ span[2] \in 1 .. n
  BY DEF Spans, IsLevel
<1>2. 0 \in S
  <2> DEFINE P == [span \in Spans(leaves) |-> <<>>]
  <2>1. \A span \in Spans(leaves) : span[2] <= span[1] + 0 => P[span] = next(P, span)
    BY <1>1
  <2>2. P = [span \in Spans(leaves) |-> P[span]]
    OBVIOUS
  <2> HIDE DEF P, next
  <2>3. UpTo(0, P)
    BY <2>1, <2>2
  <2> HIDE DEF UpTo
  <2>4. QED
    BY <2>3
<1>3. ASSUME NEW m \in S
      PROVE  m + 1 \in S
  <2>1. PICK P : UpTo(m, P)
    OBVIOUS
  <2> DEFINE Q == [span \in Spans(leaves) |-> IF span[2] <= span[1] + m THEN P[span] ELSE next(P, span)]
  <2>2. ASSUME NEW span \in Spans(leaves), span[2] <= span[1] + (m + 1)
        PROVE  Q[span] = next(Q, span)
    <3>1. Q[span] = next(P, span)
      <4> HIDE DEF next
      <4>1. QED
        BY <2>1
    <3>2. span[1] < span[2] => Q[Left(span)] = P[Left(span)] /\ Q[Right(span)] = P[Right(span)]
      <4> SUFFICES ASSUME span[1] < span[2]
                   PROVE  Q[Left(span)] = P[Left(span)] /\ Q[Right(span)] = P[Right(span)]
        OBVIOUS
      <4>1. /\ Left(span) \in Spans(leaves) /\ Right(span) \in Spans(leaves)
            /\ Left(span)[2] <= Left(span)[1] + m /\ Right(span)[2] <= Right(span)[1] + m
        BY <1>1, <2>2, Parts
      <4> HIDE DEF next
      <4>2. QED
        BY <4>1
    <3> HIDE DEF Q
    <3>3. span[1] < span[2] \/ span[1] >= span[2]
      BY <1>1
    <3>4. QED
      BY <3>1, <3>2, <3>3, Zenon
  <2>3. UpTo(m + 1, Q)
    <3>1. Q = [span \in Spans(leaves) |-> Q[span]]
      OBVIOUS
    <3> HIDE DEF Q, next
    <3>2. QED
      BY <2>2, <3>1
  <2> HIDE DEF UpTo
  <2>4. QED
    BY <2>3
<1>4. S = Nat
  <2> HIDE DEF S
  <2>1. S \in SUBSET Nat
    BY DEF S
  <2>2. QED
    BY <1>2, <1>3, <2>1, NumbersByStep
<1>5. PICK P : UpTo(n, P)
  <2> HIDE DEF UpTo
  <2>1. n \in S
    BY <1>1, <1>4
  <2>2. QED
    BY <2>1
<1>6. \A span \in Spans(leaves) : P[span] = next(P, span)
  <2>1. \A span \in Spans(leaves) : span[2] <= span[1] + n
    BY <1>1
  <2> HIDE DEF next
  <2>2. QED
    BY <1>5, <2>1
<1>7. P = [span \in Spans(leaves) |-> next(P, span)]
  <2>1. P = [span \in Spans(leaves) |-> P[span]]
    BY <1>5
  <2> HIDE DEF next
  <2>2. QED
    BY <1>6, <2>1
<1>8. PathsTo(index, leaves, P)
  BY <1>7, Zenon DEF PathsTo
<1>9. QED
  BY <1>8

LEMMA PathIsBuilt ==
  ASSUME NEW leaves, NEW n, IsLevel(leaves, n), NEW index, NEW span \in Spans(leaves)
  PROVE  pathIn(index, leaves)[span] =
           IF span[1] >= span[2] THEN <<>>
           ELSE IF index + 1 < Mid(span)
                THEN Append(pathIn(index, leaves)[Left(span)], subtree(leaves)[Right(span)])
           ELSE Append(pathIn(index, leaves)[Right(span)], subtree(leaves)[Left(span)])
<1> DEFINE P == CHOOSE f : PathsTo(index, leaves, f)
<1>1. PathsTo(index, leaves, P)
  BY PathsExist, Zenon
<1>2. pathIn(index, leaves) = P
  BY Zenon DEF pathIn, PathsTo
<1> HIDE DEF P
<1>3. P[span] = IF span[1] >= span[2] THEN <<>>
                ELSE IF index + 1 < Mid(span) THEN Append(P[Left(span)], subtree(leaves)[Right(span)])
                ELSE Append(P[Right(span)], subtree(leaves)[Left(span)])
  <2> HIDE DEF Left, Right, Mid, Spans
  <2>1. QED
    BY <1>1 DEF PathsTo
<1>4. QED
  BY <1>2, <1>3

(* What trees and paths are made of.                                         *)

IsHash(x) == (\E y : x = leafHash(y)) \/ (\E l, r : x = nodeHash(l, r))
HashesIn(leaves) == {subtree(leaves)[span] : span \in Spans(leaves)}

LEMMA TreesAreOfHashes ==
  ASSUME NEW leaves, NEW n, IsLevel(leaves, n), \A i \in 1 .. n : IsHash(leaves[i])
  PROVE  \A h \in HashesIn(leaves) : IsHash(h)
<1> SUFFICES ASSUME NEW span \in Spans(leaves)
             PROVE  IsHash(subtree(leaves)[span])
  BY DEF HashesIn
<1>1. span[1] \in 1 .. n
  BY DEF Spans, IsLevel
<1>2. CASE span[1] >= span[2]
  BY <1>1, <1>2, TreeIsBuilt
<1>3. CASE ~(span[1] >= span[2])
  <2>1. subtree(leaves)[span] = nodeHash(subtree(leaves)[Left(span)], subtree(leaves)[Right(span)])
    BY <1>3, TreeIsBuilt
  <2>2. QED
    BY <2>1, Zenon DEF IsHash
<1>4. QED
  BY <1>2, <1>3

LEMMA PathsAreOfHashes ==
  ASSUME NEW leaves, NEW n, IsLevel(leaves, n), NEW index
  PROVE  \A span \in Spans(leaves) : pathIn(index, leaves)[span] \in Seq(HashesIn(leaves))
<1> DEFINE P == pathIn(index, leaves)
           T == subtree(leaves)
           H == HashesIn(leaves)
           S == {m \in Nat : \A span \in Spans(leaves) : span[2] <= span[1] + m => P[span] \in Seq(H)}
<1>1. /\ n \in Nat
      /\ \A span \in Spans(leaves) : span[1] \in 1 .. n /\ span[2] \in 1 .. n
  BY DEF Spans, IsLevel
<1>2. \A span \in Spans(leaves) : T[span] \in H
  BY DEF HashesIn
<1>3. ASSUME NEW span \in Spans(leaves), span[1] >= span[2] PROVE P[span] \in Seq(H)
  <2>1. P[span] = <<>>
    BY <1>3, PathIsBuilt
  <2>2. QED
    BY <2>1
<1>4. ASSUME NEW span \in Spans(leaves), ~(span[1] >= span[2]),
             P[Left(span)] \in Seq(H), P[Right(span)] \in Seq(H),
             Left(span) \in Spans(leaves), Right(span) \in Spans(leaves)
      PROVE  P[span] \in Seq(H)
  <2>1. P[span] \in {Append(P[Left(span)], T[Right(span)]), Append(P[Right(span)], T[Left(span)])}
    BY <1>4, PathIsBuilt
  <2>2. T[Left(span)] \in H /\ T[Right(span)] \in H
    BY <1>2, <1>4
  <2> HIDE DEF P, T, H
  <2>3. \A s \in Seq(H), x \in H : Append(s, x) \in Seq(H)
    OBVIOUS
  <2>4. /\ Append(P[Left(span)], T[Right(span)]) \in Seq(H)
        /\ Append(P[Right(span)], T[Left(span)]) \in Seq(H)
    BY <1>4, <2>2, <2>3
  <2>5. QED
    BY <2>1, <2>4
<1> HIDE DEF P, T, H
<1>5. 0 \in S
  BY <1>1, <1>3
<1>6. ASSUME NEW m \in S PROVE m + 1 \in S
  <2>1. SUFFICES ASSUME NEW span \in Spans(leaves), span[2] <= span[1] + (m + 1)
                 PROVE  P[span] \in Seq(H)
    OBVIOUS
  <2>2. CASE span[1] >= span[2]
    BY <1>3, <2>2
  <2>3. CASE ~(span[1] >= span[2])
    <3>1. /\ Left(span) \in Spans(leaves) /\ Right(span) \in Spans(leaves)
          /\ Left(span)[2] <= Left(span)[1] + m /\ Right(span)[2] <= Right(span)[1] + m
      BY <1>1, <2>1, <2>3, Parts
    <3>2. P[Left(span)] \in Seq(H) /\ P[Right(span)] \in Seq(H)
      BY <3>1
    <3>3. QED
      BY <1>4, <2>3, <3>1, <3>2
  <2>4. QED
    BY <2>2, <2>3
<1>7. S = Nat
  <2> HIDE DEF S
  <2>1. S \in SUBSET Nat
    BY DEF S
  <2>2. QED
    BY <1>5, <1>6, <2>1, NumbersByStep
<1>8. \A span \in Spans(leaves) : span[2] <= span[1] + n
  BY <1>1
<1>9. QED
  BY <1>1, <1>7, <1>8 DEF P, H

(* The levels are parts of the tree.                                         *)

\* The leaves below node i of the level at which a node has d of them.
Block(n, d, i) == <<i * d + 1, IF (i + 1) * d <= n THEN (i + 1) * d ELSE n>>

LevelOfTree(leaves, n, s, d) ==
  /\ IsLevel(s, Len(s)) /\ PowerOfTwo(d)
  /\ (Len(s) - 1) * d < n /\ n <= Len(s) * d
  /\ \A i \in 0 .. Len(s) - 1 : s[i + 1] = subtree(leaves)[Block(n, d, i)]

LEMMA Products ==
  ASSUME NEW d \in Nat
  PROVE  /\ \A x, y \in Nat : x <= y => x * d <= y * d
         /\ \A x \in Int : /\ x * d \in Int /\ x * (2 * d) = (2 * x) * d
                           /\ (2 * x + 1) * d = (2 * x) * d + d
                           /\ (2 * x + 2) * d = (2 * x) * d + 2 * d
                           /\ (x + 1) * (2 * d) = (2 * x) * d + 2 * d
         /\ \A x \in Nat : x * d \in Nat
<1>1. \A x, y \in Nat : x <= y => x * d <= y * d
  <2> SUFFICES ASSUME NEW x \in Nat, NEW y \in Nat, x <= y PROVE x * d <= y * d
    OBVIOUS
  <2>1. PICK z \in Nat : y = x + z
    <3>1. y - x \in Nat /\ y = x + (y - x)
      OBVIOUS
    <3>2. QED
      BY <3>1
  <2>2. (x + z) * d = x * d + z * d /\ z * d \in Nat /\ x * d \in Nat
    OBVIOUS
  <2>3. QED
    BY <2>1, <2>2
<1>2. QED
  BY <1>1

\* The node above two nodes, or one, has their leaves.
LEMMA BlockAbove ==
  ASSUME NEW leaves, NEW n, IsLevel(leaves, n), NEW c \in Nat \ {0}, NEW d, PowerOfTwo(d),
         (c - 1) * d < n, n <= c * d, NEW g \in Nat, 2 * g <= c - 1
  PROVE  /\ Block(n, 2 * d, g) \in Spans(leaves)
         /\ 2 * g = c - 1 => Block(n, 2 * d, g) = Block(n, d, 2 * g)
         /\ 2 * g + 1 <= c - 1 =>
              /\ Block(n, 2 * d, g)[1] < Block(n, 2 * d, g)[2]
              /\ Mid(Block(n, 2 * d, g)) = (2 * g + 1) * d + 1
              /\ Left(Block(n, 2 * d, g)) = Block(n, d, 2 * g)
              /\ Right(Block(n, 2 * d, g)) = Block(n, d, 2 * g + 1)
<1> DEFINE a == (2 * g) * d
           last == IF a + 2 * d <= n THEN a + 2 * d ELSE n
<1>1. d \in Nat \ {0} /\ n \in Nat \ {0} /\ DOMAIN leaves = 1 .. n
  BY DEF PowerOfTwo, IsLevel
<1>2. /\ a \in Nat /\ g * (2 * d) = a /\ (g + 1) * (2 * d) = a + 2 * d
      /\ (2 * g + 1) * d = a + d /\ (2 * g + 2) * d = a + 2 * d
      /\ 2 * g + 1 + 1 = 2 * g + 2
  BY <1>1, Products
<1>3. a < n
  <2>1. 2 * g \in Nat /\ c - 1 \in Nat
    OBVIOUS
  <2>2. a <= (c - 1) * d /\ (c - 1) * d \in Nat
    BY <1>1, <2>1, Products
  <2> HIDE DEF a
  <2>3. QED
    BY <1>1, <1>2, <2>2
<1>4. 2 * g = c - 1 => n <= a + d
  <2>1. 2 * g = c - 1 => 2 * g + 1 = c
    OBVIOUS
  <2>2. QED
    BY <1>2, <2>1
<1>5. 2 * g + 1 <= c - 1 => a + d < n
  <2>1. 2 * g + 1 \in Nat /\ c - 1 \in Nat
    OBVIOUS
  <2>2. 2 * g + 1 <= c - 1 => (2 * g + 1) * d <= (c - 1) * d
    BY <1>1, <2>1, Products
  <2>3. (c - 1) * d \in Nat
    BY <1>1, <2>1, Products
  <2> HIDE DEF a
  <2>4. QED
    BY <1>1, <1>2, <2>2, <2>3
<1>6. /\ Block(n, 2 * d, g) = <<a + 1, last>>
      /\ Block(n, d, 2 * g) = <<a + 1, IF a + d <= n THEN a + d ELSE n>>
      /\ Block(n, d, 2 * g + 1) = <<a + d + 1, last>>
  BY <1>2 DEF Block
<1> HIDE DEF a
<1>7. Block(n, 2 * d, g) \in Spans(leaves)
  <2>1. a + 1 \in 1 .. n /\ last \in 1 .. n
    BY <1>1, <1>2, <1>3
  <2> HIDE DEF last
  <2>2. QED
    BY <1>1, <1>6, <2>1 DEF Spans
<1>8. ASSUME 2 * g = c - 1 PROVE Block(n, 2 * d, g) = Block(n, d, 2 * g)
  <2>1. last = IF a + d <= n THEN a + d ELSE n
    BY <1>1, <1>2, <1>4, <1>8
  <2> HIDE DEF last
  <2>2. QED
    BY <1>6, <2>1
<1>9. ASSUME 2 * g + 1 <= c - 1
      PROVE  /\ Block(n, 2 * d, g)[1] < Block(n, 2 * d, g)[2]
             /\ Mid(Block(n, 2 * d, g)) = (2 * g + 1) * d + 1
             /\ Left(Block(n, 2 * d, g)) = Block(n, d, 2 * g)
             /\ Right(Block(n, 2 * d, g)) = Block(n, d, 2 * g + 1)
  <2>1. /\ last \in Nat /\ a + 1 < last /\ last - (a + 1) + 1 \in Nat
        /\ d < last - (a + 1) + 1 /\ last - (a + 1) + 1 <= 2 * d
    BY <1>1, <1>2, <1>5, <1>9
  <2>2. split(last - (a + 1) + 1) = d
    BY <2>1, SplitsAtPowers
  <2> HIDE DEF last
  <2>3. Mid(Block(n, 2 * d, g)) = a + 1 + d
    BY <1>6, <2>2 DEF Mid
  <2>4. a + 1 + d = a + d + 1 /\ a + 1 + d - 1 = a + d /\ a + d <= n
    BY <1>1, <1>2, <1>5, <1>9
  <2>5. Left(Block(n, 2 * d, g)) = <<a + 1, a + d>> /\ Right(Block(n, 2 * d, g)) = <<a + d + 1, last>>
    <3>1. Block(n, 2 * d, g)[1] = a + 1 /\ Block(n, 2 * d, g)[2] = last
      BY <1>6
    <3>2. /\ Left(Block(n, 2 * d, g)) = <<a + 1, Mid(Block(n, 2 * d, g)) - 1>>
          /\ Right(Block(n, 2 * d, g)) = <<Mid(Block(n, 2 * d, g)), last>>
      BY <3>1, Zenon DEF Left, Right
    <3>3. Mid(Block(n, 2 * d, g)) - 1 = a + d /\ Mid(Block(n, 2 * d, g)) = a + d + 1
      BY <1>1, <1>2, <2>3
    <3>4. QED
      BY <3>2, <3>3, Zenon
  <2>6. QED
    BY <1>2, <1>6, <2>1, <2>3, <2>4, <2>5
<1>10. QED
  BY <1>7, <1>8, <1>9

\* The leaves are the lowest level.
LEMMA LeavesOfTree ==
  ASSUME NEW leaves, NEW n, IsLevel(leaves, n)
  PROVE  /\ LevelOfTree(leaves, n, leaves, 1)
         /\ \A i \in 0 .. n - 1 : Block(n, 1, i) = <<i + 1, i + 1>> /\ Block(n, 1, i) \in Spans(leaves)
<1>1. n \in Nat \ {0} /\ DOMAIN leaves = 1 .. n /\ Len(leaves) = n
  BY DEF IsLevel
<1>2. ASSUME NEW i \in 0 .. n - 1
      PROVE  /\ Block(n, 1, i) = <<i + 1, i + 1>> /\ Block(n, 1, i) \in Spans(leaves)
             /\ leaves[i + 1] = subtree(leaves)[Block(n, 1, i)]
  <2>1. Block(n, 1, i) = <<i + 1, i + 1>>
    BY <1>1 DEF Block
  <2>2. Block(n, 1, i) \in Spans(leaves)
    BY <1>1, <2>1 DEF Spans
  <2>3. Block(n, 1, i)[1] >= Block(n, 1, i)[2] /\ Block(n, 1, i)[1] = i + 1
    BY <1>1, <2>1
  <2>4. QED
    BY <2>1, <2>2, <2>3, TreeIsBuilt
<1>3. (Len(leaves) - 1) * 1 < n /\ n <= Len(leaves) * 1
  BY <1>1
<1>4. QED
  BY <1>1, <1>2, <1>3, PowersDouble DEF LevelOfTree

\* And what the audit service pairs is the next one.
LEMMA NextLevelOfTree ==
  ASSUME NEW leaves, NEW n, IsLevel(leaves, n), NEW s, NEW d, LevelOfTree(leaves, n, s, d), Len(s) # 1
  PROVE  LevelOfTree(leaves, n, NextLevel(s), 2 * d)
<1> DEFINE c == Len(s)
           h == (c + 1) \div 2
<1>1. /\ IsLevel(s, c) /\ PowerOfTwo(d) /\ (c - 1) * d < n /\ n <= c * d
      /\ \A i \in 0 .. c - 1 : s[i + 1] = subtree(leaves)[Block(n, d, i)]
  BY DEF LevelOfTree
<1>2. c \in Nat \ {0} /\ n \in Nat \ {0} /\ d \in Nat \ {0}
  BY <1>1 DEF IsLevel, PowerOfTwo
<1>3. /\ IsLevel(NextLevel(s), h)
      /\ \A f \in 0 .. c - 1 :
           /\ f \div 2 \in 0 .. h - 1
           /\ NextLevel(s)[f \div 2 + 1] =
                IF Odd(f) THEN nodeHash(s[f], s[f + 1])
                ELSE IF f = c - 1 THEN s[f + 1] ELSE nodeHash(s[f + 1], s[f + 2])
  BY <1>1, NextLevels
<1>10. Len(NextLevel(s)) = h
  BY <1>3 DEF IsLevel
<1> HIDE DEF c
<1>4. h \in Nat \ {0} /\ 2 * (h - 1) <= c - 1 /\ c <= 2 * h
  BY <1>2
<1>5. (h - 1) * (2 * d) < n
  <2>1. (h - 1) * (2 * d) = (2 * (h - 1)) * d
    BY <1>2, <1>4, Products
  <2>2. (2 * (h - 1)) * d <= (c - 1) * d
    <3>1. 2 * (h - 1) \in Nat /\ c - 1 \in Nat
      BY <1>2, <1>4
    <3> HIDE DEF h
    <3>2. QED
      BY <1>2, <1>4, <3>1, Products
  <2>3. (2 * (h - 1)) * d \in Int /\ (c - 1) * d \in Int
    BY <1>2, <1>4, Products
  <2> HIDE DEF h
  <2>4. QED
    BY <1>1, <1>2, <2>1, <2>2, <2>3
<1>6. n <= h * (2 * d)
  <2>1. h * (2 * d) = (2 * h) * d /\ 2 * h \in Nat /\ h \in Int
    BY <1>2, <1>4, Products
  <2>2. c * d <= (2 * h) * d
    BY <1>2, <1>4, <2>1, Products
  <2>3. c * d \in Int /\ (2 * h) * d \in Int
    BY <1>2, <2>1, Products
  <2> HIDE DEF h
  <2>4. QED
    BY <1>1, <1>2, <2>1, <2>2, <2>3
<1>7. ASSUME NEW g \in 0 .. h - 1
      PROVE  NextLevel(s)[g + 1] = subtree(leaves)[Block(n, 2 * d, g)]
  <2>1. g \in Nat /\ 2 * g \in 0 .. c - 1 /\ (2 * g) \div 2 = g /\ ~Odd(2 * g)
    BY <1>2, <1>4 DEF Odd
  <2>2. NextLevel(s)[g + 1] =
          IF 2 * g = c - 1 THEN s[2 * g + 1] ELSE nodeHash(s[2 * g + 1], s[2 * g + 2])
    <3>1. /\ (2 * g) \div 2 \in 0 .. h - 1
          /\ NextLevel(s)[(2 * g) \div 2 + 1] =
               IF Odd(2 * g) THEN nodeHash(s[2 * g], s[2 * g + 1])
               ELSE IF 2 * g = c - 1 THEN s[2 * g + 1] ELSE nodeHash(s[2 * g + 1], s[2 * g + 2])
      BY <1>3, <2>1
    <3> HIDE DEF h, nodeHash
    <3>2. QED
      BY <2>1, <3>1
  <2>3. s[2 * g + 1] = subtree(leaves)[Block(n, d, 2 * g)]
    BY <1>1, <2>1
  <2>4. CASE 2 * g = c - 1
    <3>1. Block(n, 2 * d, g) = Block(n, d, 2 * g)
      BY <1>1, <1>2, <2>1, <2>4, BlockAbove
    <3>2. QED
      BY <2>2, <2>3, <2>4, <3>1
  <2>5. CASE 2 * g # c - 1
    <3>1. 2 * g + 1 \in 0 .. c - 1 /\ 2 * g + 1 <= c - 1 /\ 2 * g <= c - 1 /\ 2 * g + 1 + 1 = 2 * g + 2
      BY <1>2, <2>1, <2>5
    <3>2. s[2 * g + 2] = subtree(leaves)[Block(n, d, 2 * g + 1)]
      <4>1. s[2 * g + 1 + 1] = subtree(leaves)[Block(n, d, 2 * g + 1)]
        BY <1>1, <3>1
      <4>2. QED
        BY <3>1, <4>1
    <3>3. /\ Block(n, 2 * d, g) \in Spans(leaves)
          /\ Block(n, 2 * d, g)[1] < Block(n, 2 * d, g)[2]
          /\ Left(Block(n, 2 * d, g)) = Block(n, d, 2 * g)
          /\ Right(Block(n, 2 * d, g)) = Block(n, d, 2 * g + 1)
      BY <1>1, <1>2, <2>1, <3>1, BlockAbove
    <3>4. ~(Block(n, 2 * d, g)[1] >= Block(n, 2 * d, g)[2])
      BY <3>3, <1>2, Parts
    <3>5. subtree(leaves)[Block(n, 2 * d, g)] =
            nodeHash(subtree(leaves)[Block(n, d, 2 * g)], subtree(leaves)[Block(n, d, 2 * g + 1)])
      BY <3>3, <3>4, TreeIsBuilt
    <3> HIDE DEF nodeHash
    <3>6. QED
      BY <2>2, <2>3, <2>5, <3>2, <3>5
  <2>6. QED
    BY <2>4, <2>5
<1>8. PowerOfTwo(2 * d)
  BY <1>1, PowersDouble
<1> HIDE DEF h
<1>9. QED
  BY <1>3, <1>10, <1>5, <1>6, <1>7, <1>8 DEF LevelOfTree

\* The leaf at index is below node f.
Below(index, d, f) == f * d <= index /\ index < (f + 1) * d

\* Its path in the node above is a sibling longer, or the same one.
LEMMA PathAbove ==
  ASSUME NEW leaves, NEW n, IsLevel(leaves, n), NEW s, NEW d, LevelOfTree(leaves, n, s, d), Len(s) # 1,
         NEW index \in 0 .. n - 1, NEW f \in 0 .. Len(s) - 1, Below(index, d, f)
  PROVE  /\ Below(index, 2 * d, f \div 2)
         /\ pathIn(index, leaves)[Block(n, 2 * d, f \div 2)] =
              LET path == pathIn(index, leaves)[Block(n, d, f)] IN
              IF Odd(f) \/ f # Len(s) - 1 THEN Append(path, Sibling(s, f)) ELSE path
<1> DEFINE c == Len(s)
           g == f \div 2
           path == pathIn(index, leaves)[Block(n, d, f)]
<1>1. /\ IsLevel(s, c) /\ PowerOfTwo(d) /\ (c - 1) * d < n /\ n <= c * d
      /\ \A i \in 0 .. c - 1 : s[i + 1] = subtree(leaves)[Block(n, d, i)]
  BY DEF LevelOfTree
<1>2. c \in Nat \ {0} /\ n \in Nat \ {0} /\ d \in Nat \ {0} /\ f \in Nat /\ f <= c - 1
  BY <1>1 DEF IsLevel, PowerOfTwo
<1> HIDE DEF c
<1>3. /\ g \in Nat /\ 2 * g <= c - 1 /\ 2 * g \in 0 .. c - 1
      /\ Odd(f) => f = 2 * g + 1
      /\ ~Odd(f) => f = 2 * g
  BY <1>2 DEF Odd
<1> HIDE DEF g
<1>4. /\ g * (2 * d) = (2 * g) * d /\ (g + 1) * (2 * d) = (2 * g) * d + 2 * d
      /\ (2 * g + 1) * d = (2 * g) * d + d /\ (2 * g + 2) * d = (2 * g) * d + 2 * d
      /\ (2 * g) * d \in Nat
  BY <1>2, <1>3, Products
<1>9. /\ Block(n, 2 * d, g) \in Spans(leaves)
      /\ 2 * g = c - 1 => Block(n, 2 * d, g) = Block(n, d, 2 * g)
      /\ 2 * g + 1 <= c - 1 =>
           /\ Block(n, 2 * d, g)[1] < Block(n, 2 * d, g)[2]
           /\ Mid(Block(n, 2 * d, g)) = (2 * g + 1) * d + 1
           /\ Left(Block(n, 2 * d, g)) = Block(n, d, 2 * g)
           /\ Right(Block(n, 2 * d, g)) = Block(n, d, 2 * g + 1)
  <2>1. /\ IsLevel(leaves, n) /\ c \in Nat \ {0} /\ PowerOfTwo(d) /\ (c - 1) * d < n
        /\ n <= c * d /\ g \in Nat /\ 2 * g <= c - 1
    BY <1>1, <1>2, <1>3
  <2>2. QED
    BY <2>1, BlockAbove
<1>5. Below(index, 2 * d, g)
  <2>1. CASE Odd(f)
    <3>1. f * d = (2 * g) * d + d /\ (f + 1) * d = (2 * g) * d + 2 * d
      <4>1. f = 2 * g + 1 /\ f + 1 = 2 * g + 2
        BY <1>3, <2>1
      <4>2. QED
        BY <1>4, <4>1
    <3>2. QED
      BY <1>2, <1>4, <3>1 DEF Below
  <2>2. CASE ~Odd(f)
    <3>1. f * d = (2 * g) * d /\ (f + 1) * d = (2 * g) * d + d
      BY <1>3, <1>4, <2>2
    <3>2. QED
      BY <1>2, <1>4, <3>1 DEF Below
  <2>3. QED
    BY <2>1, <2>2
<1>6. CASE 2 * g = c - 1
  <2>1. ~Odd(f) /\ f = c - 1 /\ f = 2 * g
    BY <1>2, <1>3, <1>6
  <2>2. Block(n, 2 * d, g) = Block(n, d, f)
    BY <1>6, <1>9, <2>1
  <2>3. pathIn(index, leaves)[Block(n, 2 * d, g)] = path
    BY <2>2
  <2>4. QED
    BY <1>5, <2>1, <2>3 DEF c, g
<1>7. CASE 2 * g # c - 1
  <2> DEFINE B == Block(n, 2 * d, g)
  <2>1. 2 * g + 1 \in 0 .. c - 1 /\ 2 * g + 1 <= c - 1
    BY <1>2, <1>3, <1>7
  <2>2. /\ B \in Spans(leaves) /\ B[1] < B[2] /\ Mid(B) = (2 * g + 1) * d + 1
        /\ Left(B) = Block(n, d, 2 * g) /\ Right(B) = Block(n, d, 2 * g + 1)
    BY <1>9, <2>1 DEF B
  <2> HIDE DEF B
  <2>3. ~(B[1] >= B[2])
    BY <2>2, Parts
  <2>4. pathIn(index, leaves)[B] =
          IF index + 1 < Mid(B)
          THEN Append(pathIn(index, leaves)[Left(B)], subtree(leaves)[Right(B)])
          ELSE Append(pathIn(index, leaves)[Right(B)], subtree(leaves)[Left(B)])
    <3> HIDE DEF Left, Right, Mid
    <3>1. QED
      BY <2>2, <2>3, PathIsBuilt
  <2>5. CASE Odd(f)
    <3>1. f = 2 * g + 1 /\ f - 1 = 2 * g
      BY <1>3, <2>5
    <3>2. ~(index + 1 < Mid(B))
      <4>1. Mid(B) = f * d + 1 /\ f * d <= index /\ f * d \in Nat
        BY <1>2, <2>2, <3>1, Products DEF Below
      <4> HIDE DEF Mid
      <4>2. QED
        BY <1>2, <4>1
    <3>3. s[f] = subtree(leaves)[Left(B)]
      BY <1>1, <1>3, <2>2, <3>1
    <3>4. pathIn(index, leaves)[B] = Append(path, s[f])
      BY <2>2, <2>4, <3>1, <3>2, <3>3
    <3>5. QED
      BY <1>5, <2>5, <3>4 DEF B, c, g, Sibling
  <2>6. CASE ~Odd(f)
    <3>1. f = 2 * g /\ f # c - 1 /\ 2 * g + 1 + 1 = f + 2 /\ 2 * g + 1 = f + 1
      BY <1>2, <1>3, <1>7, <2>6
    <3>2. index + 1 < Mid(B)
      <4>1. Mid(B) = (f + 1) * d + 1 /\ index < (f + 1) * d /\ (f + 1) * d \in Int
        BY <1>2, <2>2, <3>1, Products DEF Below
      <4> HIDE DEF Mid
      <4>2. QED
        BY <1>2, <4>1
    <3>3. s[f + 2] = subtree(leaves)[Right(B)]
      <4>1. s[2 * g + 1 + 1] = subtree(leaves)[Block(n, d, 2 * g + 1)]
        BY <1>1, <2>1
      <4>2. QED
        BY <2>2, <3>1, <4>1
    <3>4. pathIn(index, leaves)[B] = Append(path, s[f + 2])
      BY <2>2, <2>4, <3>1, <3>2, <3>3
    <3>5. QED
      BY <1>5, <2>6, <3>1, <3>4 DEF B, c, g, Sibling
  <2>7. QED
    BY <2>5, <2>6
<1>8. QED
  BY <1>6, <1>7

(* Up the levels along the path.                                             *)

\* Node f of level s, of which each has d leaves, is where the path of the leaf in
\* that part of the tree leads; u is what the audit service has come to there.
Leads(leaves, n, index, s, d, f, u) ==
  LET path == pathIn(index, leaves)[Block(n, d, f)]
      W == Climbs(Walk(index, n, leaves[index + 1]), path)
  IN /\ LevelOfTree(leaves, n, s, d) /\ Below(index, d, f)
     /\ u = [index |-> f, path |-> path]
     /\ IsPath(path)
     /\ \A j \in 0 .. Len(path) - 1 : W[j].sn # 0
     /\ GoOnAlike(W[Len(path)], Node(s, Len(s), f))

LEMMA LeafLeads ==
  ASSUME NEW leaves, NEW n, IsLevel(leaves, n), NEW index \in 0 .. n - 1
  PROVE  Leads(leaves, n, index, leaves, 1, index, [index |-> index, path |-> <<>>])
<1> DEFINE start == Walk(index, n, leaves[index + 1])
<1>1. n \in Nat \ {0} /\ Len(leaves) = n
  BY DEF IsLevel
<1>2. pathIn(index, leaves)[Block(n, 1, index)] = <<>>
  <2>1. Block(n, 1, index) = <<index + 1, index + 1>> /\ Block(n, 1, index) \in Spans(leaves)
    BY LeavesOfTree
  <2>2. Block(n, 1, index)[1] >= Block(n, 1, index)[2]
    BY <1>1, <2>1
  <2>3. QED
    BY <2>1, <2>2, PathIsBuilt
<1>3. Below(index, 1, index)
  BY <1>1 DEF Below
<1>4. IsPath(<<>>) /\ Len(<<>>) = 0
  <2>1. <<>> \in Seq({})
    OBVIOUS
  <2>2. QED
    BY <2>1 DEF IsPath
<1>5. Climbs(start, <<>>)[0] = Node(leaves, n, index)
  <2>1. Climbs(start, <<>>)[0] = start
    BY <1>4, ClimbsSteps
  <2>2. QED
    BY <2>1 DEF Walk, Node
<1>6. GoOnAlike(Climbs(start, <<>>)[0], Node(leaves, Len(leaves), index))
  BY <1>1, <1>5 DEF GoOnAlike
<1>7. LevelOfTree(leaves, n, leaves, 1)
  BY LeavesOfTree
<1>8. \A j \in 0 .. 0 - 1 : FALSE
  OBVIOUS
<1> HIDE DEF start
<1>9. QED
  BY <1>2, <1>3, <1>4, <1>6, <1>7, <1>8 DEF Leads, start

LEMMA LeadsOn ==
  ASSUME NEW leaves, NEW n, IsLevel(leaves, n), NEW index \in 0 .. n - 1,
         NEW s, NEW d, NEW f \in 0 .. Len(s) - 1, NEW u, Leads(leaves, n, index, s, d, f, u), Len(s) # 1
  PROVE  /\ f \div 2 \in 0 .. Len(NextLevel(s)) - 1
         /\ Leads(leaves, n, index, NextLevel(s), 2 * d, f \div 2, Up(u, s))
<1> DEFINE c == Len(s)
           g == f \div 2
           start == Walk(index, n, leaves[index + 1])
           path == pathIn(index, leaves)[Block(n, d, f)]
           above == pathIn(index, leaves)[Block(n, 2 * d, g)]
           W == Climbs(start, path)
           next == NextLevel(s)
<1>1. /\ LevelOfTree(leaves, n, s, d) /\ Below(index, d, f)
      /\ u = [index |-> f, path |-> path]
      /\ IsPath(path)
      /\ \A j \in 0 .. Len(path) - 1 : W[j].sn # 0
      /\ GoOnAlike(W[Len(path)], Node(s, c, f))
  BY DEF Leads
<1>2. IsLevel(s, c) /\ c \in Nat \ {0, 1}
  <2>1. IsLevel(s, c)
    BY <1>1 DEF LevelOfTree
  <2>2. QED
    BY <2>1 DEF IsLevel
<1>3. IsLevel(next, (c + 1) \div 2) /\ g \in 0 .. (c + 1) \div 2 - 1
  BY <1>2, NextLevels
<1>4. Len(next) = (c + 1) \div 2
  BY <1>3 DEF IsLevel
<1>5. LevelOfTree(leaves, n, next, 2 * d)
  BY <1>1, <1>2, NextLevelOfTree
<1>6. /\ Below(index, 2 * d, g)
      /\ above = IF Odd(f) \/ f # c - 1 THEN Append(path, Sibling(s, f)) ELSE path
  BY <1>1, <1>2, PathAbove
<1> HIDE DEF c, g, next, above
<1>7. Up(u, s) = [index |-> g, path |-> above]
  <2>1. (IF Odd(f) THEN f - 1 ELSE f + 1) < c <=> Odd(f) \/ f # c - 1
    BY <1>2 DEF c
  <2>2. (IF Odd(f) THEN f - 1 ELSE f + 1) + 1 = IF Odd(f) THEN f ELSE f + 2
    BY <1>2 DEF c
  <2>3. Up(u, s) = [index |-> f \div 2,
                    path |-> IF (IF Odd(f) THEN f - 1 ELSE f + 1) < c
                             THEN Append(path, s[(IF Odd(f) THEN f - 1 ELSE f + 1) + 1]) ELSE path]
    <3> HIDE DEF Odd, path
    <3>1. u.index = f /\ u.path = path
      BY <1>1
    <3>2. QED
      BY <3>1, Zenon DEF Up, c
  <2>4. s[(IF Odd(f) THEN f - 1 ELSE f + 1) + 1] = Sibling(s, f)
    BY <2>2 DEF Sibling
  <2> HIDE DEF path
  <2>5. QED
    BY <1>6, <2>1, <2>3, <2>4 DEF g
<1>8. CASE Odd(f) \/ f # c - 1
  <2> DEFINE V == Climbs(start, above)
             m == Len(path)
  <2>1. /\ IsPath(above) /\ Len(above) = m + 1 /\ m \in Nat
        /\ \A k \in 0 .. m : V[k] = W[k]
        /\ V[m + 1] = Climb(W[m], Sibling(s, f))
    BY <1>1, <1>6, <1>8, ClimbsOn
  <2>2. Climb(Node(s, c, f), Sibling(s, f)) = Node(next, (c + 1) \div 2, g)
    BY <1>2, <1>8, ClimbsToTheNext DEF c, g, next
  <2>3. Node(s, c, f).sn # 0
    BY <1>2 DEF Node
  <2> HIDE DEF V, W, m
  <2>4. W[m].sn # 0 /\ V[m + 1] = Node(next, Len(next), g)
    BY <1>1, <1>4, <2>1, <2>2, <2>3 DEF GoOnAlike, m
  <2>5. \A j \in 0 .. Len(above) - 1 : V[j].sn # 0
    <3>1. \A j \in 0 .. Len(above) - 1 : j \in 0 .. m /\ (j = m \/ j \in 0 .. m - 1)
      BY <2>1
    <3>2. QED
      BY <1>1, <2>1, <2>4, <3>1 DEF m
  <2>6. GoOnAlike(V[Len(above)], Node(next, Len(next), g))
    BY <2>1, <2>4 DEF GoOnAlike
  <2>7. QED
    BY <1>3, <1>4, <1>5, <1>6, <1>7, <2>1, <2>5, <2>6, Zenon DEF Leads, V, start, above, g, next
<1>9. CASE ~Odd(f) /\ f = c - 1
  <2>1. GoOnAlike(Node(s, c, f), Node(next, (c + 1) \div 2, g))
    BY <1>2, <1>9, PromotedGoesOn DEF next, g
  <2>2. GoOnAlike(W[Len(path)], Node(next, Len(next), g))
    BY <1>1, <1>4, <2>1, Zenon DEF GoOnAlike
  <2>3. above = path
    BY <1>6, <1>9
  <2> HIDE DEF path, W
  <2>4. QED
    BY <1>1, <1>3, <1>4, <1>5, <1>6, <1>7, <2>2, <2>3, Zenon DEF Leads, W, start, above, g, next
<1>10. QED
  BY <1>8, <1>9

\* What the audit service's loop has come to at each level.
UpTo(levels, n, start, w) ==
  w = [k \in 1 .. n |-> IF k = 1 THEN start ELSE Up(w[k - 1], levels[k - 1])]

LEMMA UpsExist ==
  ASSUME NEW levels, NEW n \in Nat, NEW start
  PROVE  \E w : UpTo(levels, n, start, w)
<1> DEFINE S == {m \in Nat : \E w : UpTo(levels, m, start, w)}
<1>1. 0 \in S
  <2>1. \A k \in 1 .. 0 : FALSE
    OBVIOUS
  <2>2. UpTo(levels, 0, start, [k \in 1 .. 0 |-> start])
    BY <2>1 DEF UpTo
  <2>3. QED
    BY <2>2
<1>2. ASSUME NEW m \in S
      PROVE  m + 1 \in S
  <2>1. PICK w : UpTo(levels, m, start, w)
    OBVIOUS
  <2> DEFINE new == [k \in 1 .. m + 1 |->
                       IF k <= m THEN w[k] ELSE IF k = 1 THEN start ELSE Up(w[k - 1], levels[k - 1])]
  <2>2. ASSUME NEW k \in 1 .. m + 1
        PROVE  new[k] = IF k = 1 THEN start ELSE Up(new[k - 1], levels[k - 1])
    <3>1. k # 1 => k - 1 \in 1 .. m + 1 /\ k - 1 <= m
      OBVIOUS
    <3>2. CASE k <= m
      <4>1. k \in 1 .. m
        BY <3>2
      <4>2. w[k] = IF k = 1 THEN start ELSE Up(w[k - 1], levels[k - 1])
        BY <2>1, <4>1 DEF UpTo
      <4>3. QED
        BY <3>1, <3>2, <4>2
    <3>3. CASE k = m + 1
      BY <3>1, <3>3
    <3>4. QED
      BY <3>2, <3>3
  <2>3. UpTo(levels, m + 1, start, new)
    <3>1. new = [k \in 1 .. m + 1 |-> new[k]]
      OBVIOUS
    <3> HIDE DEF new
    <3>2. QED
      BY <2>2, <3>1 DEF UpTo
  <2>4. QED
    BY <2>3
<1>3. S = Nat
  <2> HIDE DEF S
  <2>1. S \in SUBSET Nat
    BY DEF S
  <2>2. QED
    BY <1>1, <1>2, <2>1, NumbersByStep
<1>4. QED
  BY <1>3

\* At every level up to the root.
LEMMA LeadsToEachLevel ==
  ASSUME NEW leaves, NEW n, IsLevel(leaves, n), NEW level, Levels(leaves, n, level),
         NEW top \in 1 .. n, \A j \in 1 .. top - 1 : Len(level[j]) > 1, NEW index \in 0 .. n - 1,
         NEW w, w[1] = [index |-> index, path |-> <<>>],
         \A k \in 1 .. top : k # 1 => w[k] = Up(w[k - 1], level[k - 1])
  PROVE  \E d, f : f \in 0 .. Len(level[top]) - 1 /\ Leads(leaves, n, index, level[top], d, f, w[top])
<1> DEFINE To(k) == \E d, f : f \in 0 .. Len(level[k]) - 1 /\ Leads(leaves, n, index, level[k], d, f, w[k])
           S == {k \in Nat : k \in 1 .. top => To(k)}
<1>1. n \in Nat \ {0} /\ level[1] = leaves /\ Len(leaves) = n
  BY LevelsShrink DEF IsLevel
<1>2. \A k \in 1 .. top : k # 1 => level[k] = NextLevel(level[k - 1])
  BY <1>1, LevelsShrink
<1>3. To(1)
  BY <1>1, LeafLeads
<1>4. ASSUME NEW k \in 1 .. top, k + 1 \in 1 .. top, To(k)
      PROVE  To(k + 1)
  <2>1. k \in 1 .. top - 1 /\ k + 1 # 1 /\ k + 1 - 1 = k
    BY <1>1, <1>4
  <2>2. level[k + 1] = NextLevel(level[k]) /\ w[k + 1] = Up(w[k], level[k])
    BY <1>2, <1>4, <2>1
  <2>3. Len(level[k]) # 1
    <3> DEFINE c == Len(level[k])
    <3>1. c > 1
      BY <2>1
    <3>2. c \in Nat
      BY <1>1, LevelsShrink DEF IsLevel
    <3> HIDE DEF c
    <3>3. c # 1
      BY <3>1, <3>2
    <3>4. QED
      BY <3>3 DEF c
  <2>4. PICK d, f : f \in 0 .. Len(level[k]) - 1 /\ Leads(leaves, n, index, level[k], d, f, w[k])
    BY <1>4
  <2>5. /\ f \div 2 \in 0 .. Len(NextLevel(level[k])) - 1
        /\ Leads(leaves, n, index, NextLevel(level[k]), 2 * d, f \div 2, Up(w[k], level[k]))
    BY <2>3, <2>4, LeadsOn
  <2>6. QED
    BY <2>2, <2>5
<1>5. S = Nat
  <2> HIDE DEF To
  <2>1. 0 \in S
    OBVIOUS
  <2>2. ASSUME NEW k \in S PROVE k + 1 \in S
    <3>1. CASE k = 0
      BY <1>3, <3>1
    <3>2. CASE k # 0 /\ k + 1 \in 1 .. top
      <4>1. k \in 1 .. top
        BY <1>1, <3>2
      <4>2. QED
        BY <1>4, <3>2, <4>1
    <3>3. QED
      BY <3>1, <3>2
  <2> HIDE DEF S
  <2>3. S \in SUBSET Nat
    BY DEF S
  <2>4. QED
    BY <2>1, <2>2, <2>3, NumbersByStep
<1>6. To(top)
  <2> HIDE DEF To
  <2>1. QED
    BY <1>1, <1>5
<1>7. QED
  BY <1>6

\* The last level, which is the root alone, and the path to it.
LEMMA TreesMeet ==
  ASSUME NEW leaves, NEW n, IsLevel(leaves, n), NEW index \in 0 .. n - 1
  PROVE  LET levels == AuditTreeLevels(leaves)
             path == inclusionPath(index, leaves)
             W == Climbs(Walk(index, n, leaves[index + 1]), path)
         IN /\ levels[Len(levels)][1] = mth(leaves)
            /\ AuditTreePath(levels, index) = path
            /\ IsPath(path)
            /\ \A j \in 0 .. Len(path) - 1 : W[j].sn # 0
            /\ W[Len(path)].sn = 0 /\ W[Len(path)].r = mth(leaves)
<1> DEFINE levels == AuditTreeLevels(leaves)
           path == inclusionPath(index, leaves)
           W == Climbs(Walk(index, n, leaves[index + 1]), path)
           start == [index |-> index, path |-> <<>>]
           w == CHOOSE f : UpTo(levels, Len(levels), start, f)
<1>1. PICK level : \E top \in 1 .. n :
        /\ Levels(leaves, n, level)
        /\ Len(level[top]) = 1 /\ \A j \in 1 .. top - 1 : Len(level[j]) > 1
        /\ Len(levels) = top /\ \A k \in 1 .. top : levels[k] = level[k]
  BY LevelsEndAtTheRoot
<1>2. PICK top \in 1 .. n :
        /\ Levels(leaves, n, level)
        /\ Len(level[top]) = 1 /\ \A j \in 1 .. top - 1 : Len(level[j]) > 1
        /\ Len(levels) = top /\ \A k \in 1 .. top : levels[k] = level[k]
  BY <1>1
<1>3. n \in Nat \ {0} /\ Len(leaves) = n
  BY DEF IsLevel
<1> HIDE DEF levels
<1>4. AuditTreePath(levels, index) = w[Len(levels)].path
  BY Zenon DEF AuditTreePath, UpTo
<1>5. UpTo(levels, Len(levels), start, w)
  <2>1. \E f : UpTo(levels, Len(levels), start, f)
    <3>1. Len(levels) \in Nat
      <4>1. Len(levels) = top /\ top \in Nat
        BY <1>2, <1>3
      <4>2. QED
        BY <4>1
    <3>2. QED
      BY <3>1, UpsExist
  <2>2. QED
    BY <2>1, Zenon
<1> HIDE DEF w
<1>6. /\ w[1] = start
      /\ \A k \in 1 .. top : k # 1 => w[k] = Up(w[k - 1], level[k - 1])
  <2>1. 1 \in 1 .. top /\ \A k \in 1 .. top : k # 1 => k - 1 \in 1 .. top
    BY <1>3
  <2>2. \A k \in 1 .. top : w[k] = IF k = 1 THEN start ELSE Up(w[k - 1], levels[k - 1])
    BY <1>2, <1>5 DEF UpTo
  <2>3. QED
    BY <1>2, <2>1, <2>2
<1>7. PICK d, f : /\ f \in 0 .. Len(level[top]) - 1
                  /\ Leads(leaves, n, index, level[top], d, f, w[top])
  BY <1>2, <1>6, LeadsToEachLevel
<1>8. f = 0 /\ Len(level[top]) = 1
  BY <1>2, <1>7
<1>9. LevelOfTree(leaves, n, level[top], d)
  BY <1>7, Zenon DEF Leads
<1>10. Block(n, d, 0) = <<1, n>>
  <2>1. d \in Nat \ {0} /\ n <= d
    BY <1>8, <1>9 DEF LevelOfTree, PowerOfTwo
  <2>2. QED
    BY <1>3, <2>1 DEF Block
<1>11. pathIn(index, leaves)[Block(n, d, 0)] = path /\ subtree(leaves)[Block(n, d, 0)] = mth(leaves)
  BY <1>3, <1>10 DEF inclusionPath, mth
<1>12. level[top][1] = mth(leaves)
  <2>1. \A i \in 0 .. Len(level[top]) - 1 : level[top][i + 1] = subtree(leaves)[Block(n, d, i)]
    BY <1>9, Zenon DEF LevelOfTree
  <2>2. level[top][0 + 1] = subtree(leaves)[Block(n, d, 0)]
    BY <1>8, <2>1
  <2>3. QED
    BY <1>11, <2>2
<1> HIDE DEF path
<1>13. /\ w[top] = [index |-> 0, path |-> path]
       /\ IsPath(path)
       /\ \A j \in 0 .. Len(path) - 1 : W[j].sn # 0
       /\ GoOnAlike(W[Len(path)], Node(level[top], 1, 0))
  BY <1>7, <1>8, <1>11, Zenon DEF Leads
<1> HIDE DEF W
<1>14. W[Len(path)].sn = 0 /\ W[Len(path)].r = mth(leaves)
  BY <1>12, <1>13 DEF GoOnAlike, Node
<1>15. AuditTreePath(levels, index) = path
  BY <1>2, <1>4, <1>13
<1>16. levels[Len(levels)][1] = mth(leaves)
  BY <1>2, <1>12
<1>17. QED
  BY <1>13, <1>14, <1>15, <1>16 DEF levels, path, W

\* So from each leaf there is a walk of climbs to the root.
LEMMA TreeWalks ==
  ASSUME NEW leaves, NEW n, IsLevel(leaves, n), NEW index \in 0 .. n - 1
  PROVE  LET levels == AuditTreeLevels(leaves) IN
         \E m \in Nat : \E W :
           /\ Walks(W, m, Walk(index, n, leaves[index + 1]))
           /\ W[m].sn = 0 /\ W[m].r = levels[Len(levels)][1]
<1> DEFINE start == Walk(index, n, leaves[index + 1])
           path == inclusionPath(index, leaves)
           W == Climbs(start, path)
           m == Len(path)
<1>1. /\ IsPath(path)
      /\ \A j \in 0 .. m - 1 : W[j].sn # 0
      /\ W[m].sn = 0
      /\ LET levels == AuditTreeLevels(leaves) IN W[m].r = levels[Len(levels)][1]
  BY TreesMeet
<1>2. m \in Nat
  BY <1>1 DEF IsPath
<1>3. W[0] = start /\ \A k \in 1 .. m : W[k] = Climb(W[k - 1], path[k])
  BY <1>2, ClimbsSteps
<1> HIDE DEF W, m, path
<1>4. \A k \in 1 .. m : k - 1 \in 0 .. m - 1
  BY <1>2
<1>5. Walks(W, m, start)
  BY <1>1, <1>3, <1>4 DEF Walks
<1>6. QED
  BY <1>1, <1>2, <1>5

(* How long a path is.                                                       *)

\* Each climb at least halves the position of the last node.
LEMMA ClimbsHalve ==
  ASSUME NEW w, w.sn \in Nat, w.sn # 0, NEW g
  PROVE  Climb(w, g).sn \in Nat /\ 2 * Climb(w, g).sn <= w.sn
<1> DEFINE S == {m \in Nat : \A n \in 0 .. m : WithSibling(n) \in 0 .. n}
<1>1. 0 \in S
  BY SiblingAbove
<1>2. ASSUME NEW m \in S PROVE m + 1 \in S
  <2>1. WithSibling(m + 1) \in {m + 1, WithSibling((m + 1) \div 2)}
    BY SiblingAbove
  <2>2. (m + 1) \div 2 \in 0 .. m
    OBVIOUS
  <2>3. WithSibling((m + 1) \div 2) \in 0 .. (m + 1) \div 2
    BY <2>2
  <2>4. WithSibling(m + 1) \in 0 .. m + 1
    BY <2>1, <2>2, <2>3
  <2>5. QED
    BY <2>4
<1>3. S = Nat
  <2> HIDE DEF S
  <2>1. S \in SUBSET Nat
    BY DEF S
  <2>2. QED
    BY <1>1, <1>2, <2>1, NumbersByStep
<1>4. WithSibling(w.sn) \in 0 .. w.sn
  BY <1>3
<1>5. Climb(w, g).sn \in {WithSibling(w.sn) \div 2, w.sn \div 2}
  BY DEF Climb
<1>6. QED
  BY <1>4, <1>5

\* Sixteen of them divide it by 2^16.
LEMMA SixteenClimbs ==
  ASSUME NEW W, NEW m \in Nat,
         \A k \in 0 .. m : W[k].sn \in Nat,
         \A k \in 1 .. m : 2 * W[k].sn <= W[k - 1].sn,
         NEW k \in Nat, k + 16 <= m
  PROVE  65536 * W[k + 16].sn <= W[k].sn
<1> DEFINE sn(j) == W[j].sn
<1>1. \A j \in 0 .. 15 : sn(k + j) \in Nat /\ sn(k + j + 1) \in Nat /\ 2 * sn(k + j + 1) <= sn(k + j)
  <2> SUFFICES ASSUME NEW j \in 0 .. 15
               PROVE  sn(k + j) \in Nat /\ sn(k + j + 1) \in Nat /\ 2 * sn(k + j + 1) <= sn(k + j)
    OBVIOUS
  <2>1. PICK i \in 1 .. m : i = k + j + 1 /\ i - 1 = k + j /\ i - 1 \in 0 .. m
    OBVIOUS
  <2>2. 2 * W[i].sn <= W[i - 1].sn /\ W[i].sn \in Nat /\ W[i - 1].sn \in Nat
    BY <2>1
  <2>3. QED
    BY <2>1, <2>2
<1> HIDE DEF sn
<1>2. /\ sn(k) \in Nat /\ sn(k + 4) \in Nat /\ sn(k + 8) \in Nat /\ sn(k + 12) \in Nat /\ sn(k + 16) \in Nat
      /\ 16 * sn(k + 4) <= sn(k) /\ 16 * sn(k + 8) <= sn(k + 4)
      /\ 16 * sn(k + 12) <= sn(k + 8) /\ 16 * sn(k + 16) <= sn(k + 12)
  <2>1. ASSUME NEW j \in {0, 4, 8, 12}
        PROVE  sn(k + j) \in Nat /\ sn(k + j + 4) \in Nat /\ 16 * sn(k + j + 4) <= sn(k + j)
    <3>1. /\ sn(k + j) \in Nat /\ sn(k + j + 1) \in Nat /\ 2 * sn(k + j + 1) <= sn(k + j)
          /\ sn(k + (j + 1)) \in Nat /\ sn(k + (j + 1) + 1) \in Nat /\ 2 * sn(k + (j + 1) + 1) <= sn(k + (j + 1))
          /\ sn(k + (j + 2)) \in Nat /\ sn(k + (j + 2) + 1) \in Nat /\ 2 * sn(k + (j + 2) + 1) <= sn(k + (j + 2))
          /\ sn(k + (j + 3)) \in Nat /\ sn(k + (j + 3) + 1) \in Nat /\ 2 * sn(k + (j + 3) + 1) <= sn(k + (j + 3))
      BY <1>1
    <3>2. /\ k + (j + 1) = k + j + 1 /\ k + (j + 1) + 1 = k + (j + 2)
          /\ k + (j + 2) + 1 = k + (j + 3) /\ k + (j + 3) + 1 = k + j + 4
      OBVIOUS
    <3>3. QED
      BY <3>1, <3>2
  <2>2. /\ sn(k + 0) \in Nat /\ sn(k + 0 + 4) \in Nat /\ 16 * sn(k + 0 + 4) <= sn(k + 0)
        /\ sn(k + 4 + 4) \in Nat /\ 16 * sn(k + 4 + 4) <= sn(k + 4)
        /\ sn(k + 8 + 4) \in Nat /\ 16 * sn(k + 8 + 4) <= sn(k + 8)
        /\ sn(k + 12 + 4) \in Nat /\ 16 * sn(k + 12 + 4) <= sn(k + 12)
    BY <2>1
  <2>3. /\ k + 0 = k /\ k + 0 + 4 = k + 4 /\ k + 4 + 4 = k + 8 /\ k + 8 + 4 = k + 12
        /\ k + 12 + 4 = k + 16
    OBVIOUS
  <2>4. QED
    BY <2>2, <2>3
<1>3. 65536 * sn(k + 16) <= sn(k)
  BY <1>2
<1>4. QED
  BY <1>3 DEF sn

\* A tree with fewer than 2^64 leaves has no path of more than 64 siblings.
LEMMA PathsAreShort ==
  ASSUME NEW leaves, NEW n, IsLevel(leaves, n), NEW index \in 0 .. n - 1,
         ((n \div 65536) \div 65536) \div 65536 < 65536
  PROVE  Len(inclusionPath(index, leaves)) <= 64
<1> DEFINE path == inclusionPath(index, leaves)
           start == Walk(index, n, leaves[index + 1])
           W == Climbs(start, path)
           m == Len(path)
<1>1. IsPath(path) /\ \A j \in 0 .. m - 1 : W[j].sn # 0
  BY TreesMeet
<1>2. m \in Nat
  BY <1>1 DEF IsPath
<1>3. W[0] = start /\ \A k \in 1 .. m : W[k] = Climb(W[k - 1], path[k])
  BY <1>2, ClimbsSteps
<1>4. n \in Nat \ {0} /\ start.sn = n - 1
  BY DEF IsLevel, Walk
<1> HIDE DEF W, m, path, start
<1> DEFINE S == {k \in Nat : k <= m => /\ W[k].sn \in Nat
                                       /\ k # 0 => 2 * W[k].sn <= W[k - 1].sn}
<1>5. 0 \in S
  BY <1>3, <1>4
<1>6. ASSUME NEW k \in S PROVE k + 1 \in S
  <2>1. SUFFICES ASSUME k + 1 <= m
                 PROVE  W[k + 1].sn \in Nat /\ 2 * W[k + 1].sn <= W[k + 1 - 1].sn
    OBVIOUS
  <2>2. k \in Nat /\ W[k].sn \in Nat
    BY <1>2, <2>1
  <2>3. PICK i \in 1 .. m : i = k + 1 /\ i - 1 = k /\ i - 1 \in 0 .. m - 1
    BY <1>2, <2>1, <2>2
  <2>4. W[i] = Climb(W[k], path[i]) /\ W[k].sn # 0
    BY <1>1, <1>3, <2>3
  <2>5. W[i].sn \in Nat /\ 2 * W[i].sn <= W[k].sn
    BY <2>2, <2>4, ClimbsHalve
  <2>6. QED
    BY <2>3, <2>5
<1>7. S = Nat
  <2> HIDE DEF S
  <2>1. S \in SUBSET Nat
    BY DEF S
  <2>2. QED
    BY <1>5, <1>6, <2>1, NumbersByStep
<1>8. /\ \A k \in 0 .. m : W[k].sn \in Nat
      /\ \A k \in 1 .. m : 2 * W[k].sn <= W[k - 1].sn
  BY <1>2, <1>7
<1>9. SUFFICES ASSUME m > 64 PROVE FALSE
  BY <1>2 DEF m, path
<1>10. /\ 65536 * W[0 + 16].sn <= W[0].sn /\ 65536 * W[16 + 16].sn <= W[16].sn
       /\ 65536 * W[32 + 16].sn <= W[32].sn /\ 65536 * W[48 + 16].sn <= W[48].sn
  <2>1. \A k \in Nat : k + 16 <= m => 65536 * W[k + 16].sn <= W[k].sn
    BY <1>2, <1>8, SixteenClimbs
  <2>2. QED
    BY <1>2, <1>9, <2>1
<1>11. /\ W[0].sn = n - 1 /\ W[16].sn \in Nat /\ W[32].sn \in Nat /\ W[48].sn \in Nat
       /\ W[64].sn \in Nat /\ W[64].sn # 0
  BY <1>1, <1>2, <1>3, <1>4, <1>8, <1>9
<1> DEFINE a == W[16].sn
           b == W[32].sn
           c == W[48].sn
<1>12. a \in Nat /\ b \in Nat /\ c \in Nat /\ 65536 * a <= n - 1 /\ 65536 * b <= a /\ 65536 * c <= b
       /\ 65536 <= c
  BY <1>10, <1>11
<1> HIDE DEF a, b, c
<1>13. a <= n \div 65536
  BY <1>4, <1>12
<1>14. b <= (n \div 65536) \div 65536
  BY <1>4, <1>12, <1>13
<1>15. c <= ((n \div 65536) \div 65536) \div 65536
  BY <1>4, <1>12, <1>14
<1>16. QED
  BY <1>4, <1>12, <1>15

(* world.go:593 (inclusionPath) against rekor.go:304 (rootFromInclusionProof): in *)
(* trees of every size the path of every leaf leads to the root of RFC 6962.  *)
THEOREM PathsLeadToTheRoot ==
  ASSUME NEW leaves, NEW n, IsLevel(leaves, n), NEW index \in 0 .. n - 1
  PROVE  rootFromInclusionProof(index, n, leaves[index + 1], inclusionPath(index, leaves)) = mth(leaves)
BY TreesMeet DEF rootFromInclusionProof, Reached

(* audit.go:133 (AuditTreeLevels) and :154 (AuditTreePath) against world.go: the *)
(* tree of the audit service is that of RFC 6962, and so are its paths.      *)
THEOREM LevelsAreTheTree ==
  ASSUME NEW leaves, NEW n, IsLevel(leaves, n)
  PROVE  LET levels == AuditTreeLevels(leaves) IN
         /\ levels[Len(levels)][1] = mth(leaves)
         /\ \A index \in 0 .. n - 1 : AuditTreePath(levels, index) = inclusionPath(index, leaves)
<1>1. \A index \in 0 .. n - 1 :
        LET levels == AuditTreeLevels(leaves) IN
        /\ levels[Len(levels)][1] = mth(leaves)
        /\ AuditTreePath(levels, index) = inclusionPath(index, leaves)
  BY TreesMeet
<1>2. 0 \in 0 .. n - 1
  BY DEF IsLevel
<1>3. QED
  BY <1>1, <1>2
==============================================================================
