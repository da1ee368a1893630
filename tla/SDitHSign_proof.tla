--------------------------- MODULE SDitHSign_proof ---------------------------
(***************************************************************************)
(* Proofs about SDitHSign, for any number of parties, of opened parties    *)
(* and of executions, if there is room for the path of every opening.      *)
(***************************************************************************)
EXTENDS SDitHSignInv, FiniteSetTheorems, SequenceTheorems, TLAPS

(* Numbers *)

\* A set of numbers has a least one.
LEMMA Least ==
  ASSUME NEW S \in SUBSET Nat, S # {} PROVE \E n \in S : \A x \in S : ~(x < n)
<1>1. PICK n \in S : \A x \in S : ~(<<x, n>> \in OpToRel(<, Nat))
  BY WFMin, NatLessThanWellFounded
<1>2. ASSUME NEW x \in S, x < n PROVE FALSE
  <2>1. <<x, n>> \in OpToRel(<, Nat) BY <1>2 DEF OpToRel
  <2> QED BY <1>1, <2>1
<1> QED BY <1>2

\* There are twice as many sets with one element more to choose from.
LEMMA PowerOfTwo ==
  ASSUME NEW n \in Nat
  PROVE  2 ^ n \in Nat \ {0} /\ 2 ^ (n + 1) = 2 * 2 ^ n
<1> DEFINE A == SUBSET (1 .. n)
           B == {S \union {n + 1} : S \in A}
<1>1. /\ IsFiniteSet(1 .. n) /\ Cardinality(1 .. n) = n
      /\ IsFiniteSet(1 .. n + 1) /\ Cardinality(1 .. n + 1) = n + 1
  <2>1. 1 \in Int /\ n \in Int /\ n + 1 \in Int OBVIOUS
  <2>2. IsFiniteSet(1 .. n) /\ Cardinality(1 .. n) = IF 1 > n THEN 0 ELSE n - 1 + 1
    BY <2>1, FS_Interval
  <2>3. IsFiniteSet(1 .. n + 1) /\ Cardinality(1 .. n + 1) = IF 1 > n + 1 THEN 0 ELSE (n + 1) - 1 + 1
    BY <2>1, FS_Interval
  <2> QED BY <2>2, <2>3
<1>2. IsFiniteSet(A) /\ Cardinality(A) = 2 ^ n BY <1>1, FS_SUBSET
<1>3. Cardinality(SUBSET (1 .. n + 1)) = 2 ^ (n + 1) BY <1>1, FS_SUBSET
<1>4. \A S \in A : n + 1 \notin S OBVIOUS
<1>5. SUBSET (1 .. n + 1) = A \union B
  <2>1. ASSUME NEW S \in SUBSET (1 .. n + 1), S \notin A PROVE S \in B
    <3>1. n + 1 \in S /\ S \ {n + 1} \in A BY <2>1
    <3>2. S = (S \ {n + 1}) \union {n + 1} BY <3>1
    <3> QED BY <3>1, <3>2
  <2>2. A \subseteq SUBSET (1 .. n + 1) OBVIOUS
  <2>3. ASSUME NEW b \in B PROVE b \in SUBSET (1 .. n + 1)
    <3>1. PICK S \in A : b = S \union {n + 1} OBVIOUS
    <3>2. S \subseteq 1 .. n + 1 /\ n + 1 \in 1 .. n + 1 OBVIOUS
    <3> QED BY <3>1, <3>2
  <2> QED BY <2>1, <2>2, <2>3
<1>6. A \intersect B = {} BY <1>4
<1>7. IsFiniteSet(B) /\ Cardinality(B) = 2 ^ n
  <2> DEFINE f == [S \in A |-> S \union {n + 1}]
  <2>1. f \in Bijection(A, B)
    <3>1. \A S, R \in A : f[S] = f[R] => S = R
      <4> SUFFICES ASSUME NEW S \in A, NEW R \in A, S \union {n + 1} = R \union {n + 1}
                   PROVE  S = R
        OBVIOUS
      <4> QED BY <1>4
    <3>2. f \in [A -> B] OBVIOUS
    <3>3. \A b \in B : \E S \in A : f[S] = b OBVIOUS
    <3> HIDE DEF f, A, B
    <3>4. f \in Injection(A, B) BY <3>1, <3>2 DEF Injection, IsInjective
    <3>5. f \in Surjection(A, B) BY <3>2, <3>3 DEF Surjection
    <3> QED BY <3>4, <3>5 DEF Bijection
  <2>2. ExistsBijection(A, B) BY <2>1 DEF ExistsBijection
  <2> HIDE DEF A, B
  <2> QED BY <1>2, <2>2, FS_Bijection
<1> HIDE DEF A, B
<1>8. Cardinality(A \intersect B) = 0 BY <1>6, FS_EmptySet
<1>9. 2 ^ n \in Nat BY <1>2, FS_CardinalityType
<1>10. Cardinality(A \union B) = Cardinality(A) + Cardinality(B) - Cardinality(A \intersect B)
  BY <1>2, <1>7, FS_Union
<1>11. 2 ^ n # 0
  <2>1. {} \in A BY DEF A
  <2> QED BY <1>2, <2>1, FS_EmptySet
<1>12. 2 ^ (n + 1) = 2 ^ n + 2 ^ n - 0 BY <1>2, <1>3, <1>5, <1>7, <1>8, <1>10
<1> QED BY <1>9, <1>11, <1>12

\* Halving once more after going up n levels is going up n + 1.
LEMMA TwiceDivided ==
  ASSUME NEW k \in Nat, NEW n \in Nat \ {0}
  PROVE  /\ k \div (2 * n) = (k \div n) \div 2
         /\ k \div (2 * n) = (k \div 2) \div n
<1>0. ASSUME NEW a \in Nat, NEW b \in Nat \ {0}
      PROVE  a \div b \in Nat /\ b * (a \div b) <= a /\ a < b * (a \div b) + b
  BY <1>0
<1>1. ASSUME NEW a \in Nat, NEW b \in Nat \ {0}, NEW c \in Nat, b * c <= a, a < b * c + b
      PROVE  a \div b = c
  <2> DEFINE d == a \div b
  <2>1. d \in Nat /\ b * d <= a /\ a < b * d + b BY <1>0
  <2> HIDE DEF d
  <2>2. ASSUME NEW x \in Nat, NEW y \in Nat, x < y PROVE b * x + b <= b * y
    <3>1. y = (x + 1) + (y - (x + 1)) /\ y - (x + 1) \in Nat BY <2>2
    <3> DEFINE z == y - (x + 1)
    <3>2. b * ((x + 1) + z) = b * x + b + b * z /\ b * z \in Nat BY <3>1
    <3> QED BY <3>1, <3>2
  <2>3. ~(d < c)
    <3>1. SUFFICES ASSUME d < c PROVE FALSE OBVIOUS
    <3>2. b * d + b <= b * c BY <2>1, <2>2, <3>1
    <3>3. b * d \in Nat /\ b * c \in Nat BY <2>1
    <3> QED BY <1>1, <2>1, <3>2, <3>3
  <2>4. ~(c < d)
    <3>1. SUFFICES ASSUME c < d PROVE FALSE OBVIOUS
    <3>2. b * c + b <= b * d BY <2>1, <2>2, <3>1
    <3>3. b * d \in Nat /\ b * c \in Nat BY <2>1
    <3> QED BY <1>1, <2>1, <3>2, <3>3
  <2>5. d = c BY <2>1, <2>3, <2>4
  <2> QED BY <2>5 DEF d
<1>2. k \div (2 * n) = (k \div n) \div 2
  <2> DEFINE q == k \div n
             r == q \div 2
  <2>1. q \in Nat /\ n * q <= k /\ k < n * q + n BY <1>0
  <2>2. r \in Nat /\ q \in 2 * r .. 2 * r + 1 BY <2>1
  <2> HIDE DEF q, r
  <2>3. (2 * n) * r <= k /\ k < (2 * n) * r + 2 * n /\ 2 * n \in Nat \ {0}
    <3>1. CASE q = 2 * r
      <4>1. n * q = (2 * n) * r BY <2>2, <3>1
      <4> QED BY <2>1, <2>2, <4>1
    <3>2. CASE q = 2 * r + 1
      <4>1. n * q = (2 * n) * r + n /\ (2 * n) * r \in Nat BY <2>2, <3>2
      <4> QED BY <2>1, <2>2, <4>1
    <3> QED BY <2>2, <3>1, <3>2
  <2>4. k \div (2 * n) = r BY <1>1, <2>2, <2>3
  <2> QED BY <2>4 DEF q, r
<1>3. k \div (2 * n) = (k \div 2) \div n
  <2> DEFINE q == k \div 2
             r == q \div n
  <2>1. q \in Nat /\ k \in 2 * q .. 2 * q + 1 OBVIOUS
  <2>2. r \in Nat /\ n * r <= q /\ q < n * r + n BY <1>0, <2>1
  <2> HIDE DEF q, r
  <2>3. (2 * n) * r <= k /\ k < (2 * n) * r + 2 * n /\ 2 * n \in Nat \ {0}
    <3>1. (2 * n) * r = 2 * (n * r) /\ n * r \in Nat BY <2>2
    <3> QED BY <2>1, <2>2, <3>1
  <2>4. k \div (2 * n) = r BY <1>1, <2>2, <2>3
  <2> QED BY <2>4 DEF q, r
<1> QED BY <1>2, <1>3

LEMMA PowerZero == 2 ^ 0 = 1
<1>1. IsFiniteSet({}) /\ Cardinality({}) = 0 BY FS_EmptySet
<1>2. Cardinality(SUBSET {}) = 2 ^ 0 BY <1>1, FS_SUBSET
<1>3. SUBSET {} = {{}} OBVIOUS
<1>4. Cardinality({{}}) = 1 BY FS_Singleton
<1> QED BY <1>2, <1>3, <1>4

-----------------------------------------------------------------------------
(* Levels *)

\* The bounds of a level, from those of the next.
LEMMA LevelStep ==
  ASSUME NEW d \in 0 .. LOG_PARTIES - 1
  PROVE  /\ First(d) \in Nat \ {0} /\ First(d + 1) = 2 * First(d)
         /\ Last(d) = Last(d + 1) \div 2
<1>1. First(d) \in Nat \ {0} /\ First(d + 1) = 2 * First(d)
  BY PowerOfTwo, TreeAssumption DEF First
<1> DEFINE t == LOG_PARTIES - (d + 1)
<1>2. t \in Nat /\ LOG_PARTIES - d = t + 1 BY TreeAssumption
<1>3. LastLeaf \in Nat
  <2>1. 2 ^ LOG_PARTIES \in Nat /\ 2 ^ (LOG_PARTIES - 1) \in Nat BY PowerOfTwo, TreeAssumption
  <2> QED BY <2>1, TreeAssumption DEF LastLeaf, FirstLeaf
<1>4. 2 ^ t \in Nat \ {0} /\ 2 ^ (t + 1) = 2 * 2 ^ t BY <1>2, PowerOfTwo
<1>5. LastLeaf \div (2 * 2 ^ t) = (LastLeaf \div 2 ^ t) \div 2 BY <1>3, <1>4, TwiceDivided
<1>6. Last(d) = LastLeaf \div 2 ^ (t + 1) /\ Last(d + 1) = LastLeaf \div 2 ^ t
  BY <1>2 DEF Last
<1> QED BY <1>1, <1>4, <1>5, <1>6

LEMMA TopAndBottom ==
  /\ First(0) = 1 /\ First(LOG_PARTIES) = FirstLeaf /\ Last(LOG_PARTIES) = LastLeaf
  /\ FirstLeaf \in Nat \ {0} /\ LastLeaf \in Nat /\ FirstLeaf <= LastLeaf /\ LastLeaf < 2 * FirstLeaf
  /\ PARTIES \in Nat \ {0} /\ LastLeaf = FirstLeaf + PARTIES - 1
<1>1. First(0) = 1 BY PowerZero DEF First
<1>2. First(LOG_PARTIES) = FirstLeaf BY DEF First, FirstLeaf
<1>3. 2 ^ LOG_PARTIES \in Nat \ {0} /\ 2 ^ (LOG_PARTIES - 1) \in Nat \ {0}
  BY PowerOfTwo, TreeAssumption
<1>4. /\ FirstLeaf \in Nat \ {0} /\ LastLeaf \in Nat /\ FirstLeaf <= LastLeaf
      /\ LastLeaf < 2 * FirstLeaf /\ PARTIES \in Nat \ {0} /\ LastLeaf = FirstLeaf + PARTIES - 1
  BY <1>3, TreeAssumption DEF LastLeaf, FirstLeaf
<1>5. Last(LOG_PARTIES) = LastLeaf
  <2>1. LOG_PARTIES - LOG_PARTIES = 0 BY TreeAssumption
  <2>2. Last(LOG_PARTIES) = LastLeaf \div 1 BY <2>1, PowerZero DEF Last
  <2> QED BY <2>2, <1>4
<1> QED BY <1>1, <1>2, <1>4, <1>5

\* No level is empty or longer than that of a complete tree.
LEMMA LevelBounds ==
  \A d \in 0 .. LOG_PARTIES :
     /\ First(d) \in Nat \ {0} /\ Last(d) \in Nat /\ First(d) <= Last(d) /\ Last(d) < 2 * First(d)
<1> DEFINE P(d) == /\ First(d) \in Nat \ {0} /\ Last(d) \in Nat
                   /\ First(d) <= Last(d) /\ Last(d) < 2 * First(d)
           B == {t \in 0 .. LOG_PARTIES : ~P(LOG_PARTIES - t)}
<1>1. LOG_PARTIES \in Nat BY TreeAssumption
<1>2. B = {}
  <2> SUFFICES ASSUME B # {} PROVE FALSE OBVIOUS
  <2>0. B \in SUBSET Nat BY <1>1
  <2>1. PICK t \in B : \A x \in B : ~(x < t) BY <2>0, Least
  <2>2. t # 0
    <3>1. P(LOG_PARTIES) BY TopAndBottom
    <3> QED BY <1>1, <2>1, <3>1
  <2> DEFINE d == LOG_PARTIES - t
  <2>3. t - 1 \in 0 .. LOG_PARTIES /\ t - 1 < t /\ d \in 0 .. LOG_PARTIES - 1
        /\ LOG_PARTIES - (t - 1) = d + 1
    BY <1>1, <2>1, <2>2
  <2>4. P(d + 1)
    <3>1. t - 1 \notin B BY <2>1, <2>3
    <3> QED BY <2>3, <3>1
  <2>5. /\ First(d) \in Nat \ {0} /\ First(d + 1) = 2 * First(d)
        /\ Last(d) = Last(d + 1) \div 2
    BY <2>3, LevelStep
  <2> HIDE DEF d
  <2>6. P(d) BY <2>4, <2>5
  <2> QED BY <2>1, <2>6 DEF d
<1> QED
  <2> SUFFICES ASSUME NEW d \in 0 .. LOG_PARTIES PROVE P(d) OBVIOUS
  <2>1. LOG_PARTIES - d \in 0 .. LOG_PARTIES /\ LOG_PARTIES - (LOG_PARTIES - d) = d BY <1>1
  <2> QED BY <1>2, <2>1

\* Deeper levels have greater numbers.
LEMMA LevelOrder ==
  ASSUME NEW c \in 0 .. LOG_PARTIES, NEW d \in 0 .. LOG_PARTIES, c < d
  PROVE  2 * First(c) <= First(d)
<1> DEFINE B == {t \in Nat : c + 1 + t <= LOG_PARTIES /\ ~(2 * First(c) <= First(c + 1 + t))}
<1>1. LOG_PARTIES \in Nat BY TreeAssumption
<1>2. B = {}
  <2> SUFFICES ASSUME B # {} PROVE FALSE OBVIOUS
  <2>1. PICK t \in B : \A x \in B : ~(x < t) BY Least
  <2>2. t # 0
    <3>1. First(c + 1) = 2 * First(c) /\ First(c) \in Nat BY <1>1, LevelStep
    <3> QED BY <2>1, <3>1
  <2>3. t - 1 \in Nat /\ t - 1 < t /\ c + 1 + (t - 1) = c + t /\ c + t \in 0 .. LOG_PARTIES - 1
    BY <1>1, <2>1, <2>2
  <2>4. 2 * First(c) <= First(c + t)
    <3>1. t - 1 \notin B BY <2>1, <2>3
    <3> QED BY <1>1, <2>3, <3>1
  <2>5. First(c + t + 1) = 2 * First(c + t) /\ First(c + t) \in Nat BY <2>3, LevelStep
  <2>6. First(c) \in Nat BY LevelBounds
  <2>7. 2 * First(c) <= First(c + 1 + t) BY <2>1, <2>4, <2>5, <2>6
  <2> QED BY <2>1, <2>7
<1> QED
  <2> DEFINE t == d - c - 1
  <2>1. t \in Nat /\ c + 1 + t = d BY <1>1
  <2>2. t \notin B BY <1>2
  <2> HIDE DEF t
  <2> QED BY <2>1, <2>2

\* A node is of one level.
LEMMA DepthOf ==
  ASSUME NEW d \in 0 .. LOG_PARTIES, NEW n \in Level(d)
  PROVE  /\ n \in TreeNodes /\ Present(n) /\ Depth(n) = d /\ n \in Nat \ {0}
         /\ \A l \in 0 .. LOG_PARTIES : n \in Level(l) => l = d
<1>1. LOG_PARTIES \in Nat BY TreeAssumption
<1>2. /\ First(d) \in Nat \ {0} /\ Last(d) \in Nat /\ Last(d) < 2 * First(d)
      /\ n \in Nat /\ First(d) <= n /\ n <= Last(d)
  BY LevelBounds DEF Level
<1>3. ASSUME NEW l \in 0 .. LOG_PARTIES, n \in Level(l) PROVE l = d
  <2>1. /\ First(l) \in Nat \ {0} /\ Last(l) \in Nat /\ Last(l) < 2 * First(l)
        /\ First(l) <= n /\ n <= Last(l)
    BY <1>3, LevelBounds DEF Level
  <2>2. CASE l < d BY <1>2, <2>1, <2>2, LevelOrder
  <2>3. CASE d < l BY <1>2, <2>1, <2>3, LevelOrder
  <2> QED BY <1>1, <2>2, <2>3
<1>4. Depth(n) = d BY <1>3 DEF Depth
<1>5. n \in TreeNodes
  <2>1. CASE d = LOG_PARTIES BY <1>2, <2>1, TopAndBottom DEF TreeNodes
  <2>2. CASE d < LOG_PARTIES
    <3>1. 2 * First(d) <= First(LOG_PARTIES) BY <1>1, <2>2, LevelOrder
    <3> QED BY <1>2, <3>1, TopAndBottom DEF TreeNodes
  <2> QED BY <1>1, <2>1, <2>2
<1> QED BY <1>2, <1>3, <1>4, <1>5 DEF Present

\* The children of a node that are in the tree.
LEMMA ChildrenOf ==
  ASSUME NEW d \in 0 .. LOG_PARTIES - 1, NEW n \in Level(d)
  PROVE  /\ 2 * n \in Level(d + 1)
         /\ 2 * n + 1 \in Level(d + 1) <=> n < Last(d) \/ Last(d + 1) % 2 # 0
         /\ Present(2 * n + 1) <=> 2 * n + 1 \in Level(d + 1)
<1>1. LOG_PARTIES \in Nat BY TreeAssumption
<1>2. d \in 0 .. LOG_PARTIES /\ d + 1 \in 0 .. LOG_PARTIES BY <1>1
<1>3. /\ First(d + 1) = 2 * First(d) /\ Last(d) = Last(d + 1) \div 2
      /\ First(d) \in Nat \ {0} /\ Last(d) \in Nat /\ Last(d + 1) \in Nat
      /\ Last(d + 1) < 2 * First(d + 1)
  BY <1>2, LevelStep, LevelBounds
<1>4. n \in Nat /\ First(d) <= n /\ n <= Last(d) BY <1>3 DEF Level
<1>5. 2 * n \in Level(d + 1) BY <1>3, <1>4 DEF Level
<1>6. 2 * n + 1 \in Level(d + 1) <=> n < Last(d) \/ Last(d + 1) % 2 # 0
  BY <1>3, <1>4 DEF Level
<1>7. ASSUME NEW l \in 0 .. LOG_PARTIES, 2 * n + 1 \in Level(l) PROVE l = d + 1
  <2>1. /\ First(l) \in Nat \ {0} /\ Last(l) \in Nat /\ Last(l) < 2 * First(l)
        /\ First(l) <= 2 * n + 1 /\ 2 * n + 1 <= Last(l)
    BY <1>7, LevelBounds DEF Level
  <2>2. First(d + 1) <= 2 * n + 1 /\ 2 * n + 1 < 2 * First(d + 1) BY <1>3, <1>4
  <2>3. CASE l < d + 1
    <3>1. 2 * First(l) <= First(d + 1) BY <1>2, <2>3, LevelOrder
    <3> QED BY <1>3, <1>4, <2>1, <2>2, <3>1
  <2>4. CASE d + 1 < l
    <3>1. 2 * First(d + 1) <= First(l) BY <1>2, <2>4, LevelOrder
    <3> QED BY <1>3, <1>4, <2>1, <2>2, <3>1
  <2> QED BY <1>1, <1>2, <2>3, <2>4
<1>8. Present(2 * n + 1) <=> 2 * n + 1 \in Level(d + 1) BY <1>2, <1>7 DEF Present
<1> QED BY <1>5, <1>6, <1>8

\* The parent of a node.
LEMMA ParentOf ==
  ASSUME NEW d \in 1 .. LOG_PARTIES, NEW n \in Level(d)
  PROVE  n \div 2 \in Level(d - 1)
<1>1. LOG_PARTIES \in Nat BY TreeAssumption
<1>2. d \in 0 .. LOG_PARTIES /\ d - 1 \in 0 .. LOG_PARTIES - 1 /\ (d - 1) + 1 = d BY <1>1
<1>3. /\ First(d) = 2 * First(d - 1) /\ Last(d - 1) = Last(d) \div 2
      /\ First(d - 1) \in Nat \ {0} /\ Last(d) \in Nat
  BY <1>2, LevelStep, LevelBounds
<1>4. n \in Nat /\ First(d) <= n /\ n <= Last(d) BY <1>3 DEF Level
<1> QED BY <1>3, <1>4 DEF Level

-----------------------------------------------------------------------------
(* The nodes over a set of leaves *)

LEMMA OverStep ==
  ASSUME NEW S \in SUBSET Level(LOG_PARTIES), NEW d \in 0 .. LOG_PARTIES - 1
  PROVE  Over(S, d) = {y \div 2 : y \in Over(S, d + 1)}
<1> DEFINE t == LOG_PARTIES - (d + 1)
<1>1. t \in Nat /\ LOG_PARTIES - d = t + 1 BY TreeAssumption
<1>2. 2 ^ t \in Nat \ {0} /\ 2 ^ (t + 1) = 2 * 2 ^ t BY <1>1, PowerOfTwo
<1>3. \A leaf \in S : leaf \in Nat BY TopAndBottom DEF Level
<1>4. \A leaf \in S : leaf \div 2 ^ (t + 1) = (leaf \div 2 ^ t) \div 2
  BY <1>2, <1>3, TwiceDivided
<1>5. Over(S, d) = {leaf \div 2 ^ (t + 1) : leaf \in S} BY <1>1 DEF Over
<1>6. Over(S, d + 1) = {leaf \div 2 ^ t : leaf \in S} BY DEF Over
<1> HIDE DEF t
<1> QED BY <1>4, <1>5, <1>6

LEMMA OverLeaves ==
  ASSUME NEW S \in SUBSET Level(LOG_PARTIES)
  PROVE  Over(S, LOG_PARTIES) = S
<1>1. LOG_PARTIES - LOG_PARTIES = 0 BY TreeAssumption
<1>2. \A leaf \in S : leaf \in Nat BY TopAndBottom DEF Level
<1>3. 2 ^ (LOG_PARTIES - LOG_PARTIES) = 1 BY <1>1, PowerZero, Zenon
<1>4. \A leaf \in S : leaf \div 1 = leaf BY <1>2
<1> QED BY <1>3, <1>4 DEF Over

LEMMA OverLevel ==
  ASSUME NEW S \in SUBSET Level(LOG_PARTIES), NEW d \in 0 .. LOG_PARTIES
  PROVE  Over(S, d) \subseteq Level(d)
<1> DEFINE P(l) == Over(S, l) \subseteq Level(l)
           B == {t \in 0 .. LOG_PARTIES : ~P(LOG_PARTIES - t)}
<1>1. LOG_PARTIES \in Nat BY TreeAssumption
<1>2. B = {}
  <2> SUFFICES ASSUME B # {} PROVE FALSE OBVIOUS
  <2>0. B \in SUBSET Nat BY <1>1
  <2>1. PICK t \in B : \A x \in B : ~(x < t) BY <2>0, Least
  <2>2. t # 0
    <3>1. P(LOG_PARTIES) BY OverLeaves
    <3> QED BY <1>1, <2>1, <3>1
  <2> DEFINE l == LOG_PARTIES - t
  <2>3. t - 1 \in 0 .. LOG_PARTIES /\ t - 1 < t /\ l \in 0 .. LOG_PARTIES - 1
        /\ LOG_PARTIES - (t - 1) = l + 1
    BY <1>1, <2>1, <2>2
  <2>4. P(l + 1)
    <3>1. t - 1 \notin B BY <2>1, <2>3
    <3> QED BY <2>3, <3>1
  <2>5. l \in 0 .. LOG_PARTIES - 1 BY <2>3
  <2>6. ~P(l) BY <2>1
  <2> HIDE DEF l
  <2>7. P(l)
    <3>1. Over(S, l) = {y \div 2 : y \in Over(S, l + 1)} BY <2>5, OverStep
    <3>2. \A y \in Level(l + 1) : y \div 2 \in Level(l)
      <4>1. l + 1 \in 1 .. LOG_PARTIES /\ (l + 1) - 1 = l BY <1>1, <2>5
      <4> QED BY <4>1, ParentOf
    <3> QED BY <2>4, <3>1, <3>2
  <2> QED BY <2>6, <2>7
<1>3. LOG_PARTIES - d \in 0 .. LOG_PARTIES /\ LOG_PARTIES - (LOG_PARTIES - d) = d BY <1>1
<1> QED BY <1>2, <1>3

LEMMA AncestorOf ==
  ASSUME NEW S \in SUBSET Level(LOG_PARTIES), NEW d \in 0 .. LOG_PARTIES, NEW n \in Level(d)
  PROVE  \A leaf \in S : n \in Ancestors(leaf) <=> n = leaf \div 2 ^ (LOG_PARTIES - d)
<1> SUFFICES ASSUME NEW leaf \in S
             PROVE  n \in Ancestors(leaf) <=> n = leaf \div 2 ^ (LOG_PARTIES - d)
  OBVIOUS
<1>1. LOG_PARTIES \in Nat BY TreeAssumption
<1>2. Depth(leaf) = LOG_PARTIES BY <1>1, DepthOf
<1>3. Ancestors(leaf) = {leaf \div 2 ^ t : t \in 0 .. LOG_PARTIES} BY <1>2 DEF Ancestors
<1>4. ASSUME NEW t \in 0 .. LOG_PARTIES, n = leaf \div 2 ^ t PROVE t = LOG_PARTIES - d
  <2> DEFINE l == LOG_PARTIES - t
  <2>1. l \in 0 .. LOG_PARTIES /\ LOG_PARTIES - l = t BY <1>1
  <2>2. n \in Over(S, l) BY <1>4, <2>1 DEF Over
  <2>3. n \in Level(l) BY <2>1, <2>2, OverLevel
  <2>4. l = d BY <2>1, <2>3, DepthOf
  <2> QED BY <1>1, <2>4
<1>5. LOG_PARTIES - d \in 0 .. LOG_PARTIES BY <1>1
<1> QED BY <1>3, <1>4, <1>5

\* What a path has to hold is the siblings of the nodes over the leaves that are
\* over none themselves.
LEMMA NeededNodes ==
  ASSUME NEW S \in SUBSET Level(LOG_PARTIES), NEW z
  PROVE  z \in NeededBy(S) <=>
           \E d \in 1 .. LOG_PARTIES : /\ z \in Level(d) /\ z \notin Over(S, d)
                                       /\ \E y \in Over(S, d) : y \div 2 = z \div 2
<1>1. LOG_PARTIES \in Nat BY TreeAssumption
<1>2. ASSUME NEW d \in 0 .. LOG_PARTIES, NEW n \in Level(d)
      PROVE  (\E leaf \in S : n \in Ancestors(leaf)) <=> n \in Over(S, d)
  <2>1. \A leaf \in S : n \in Ancestors(leaf) <=> n = leaf \div 2 ^ (LOG_PARTIES - d)
    BY AncestorOf
  <2> QED BY <2>1 DEF Over
<1>3. ASSUME NEW d \in 1 .. LOG_PARTIES, z \in Level(d)
      PROVE  (\E leaf \in S : z \div 2 \in Ancestors(leaf))
               <=> \E y \in Over(S, d) : y \div 2 = z \div 2
  <2>1. d - 1 \in 0 .. LOG_PARTIES - 1 /\ d - 1 \in 0 .. LOG_PARTIES /\ (d - 1) + 1 = d BY <1>1
  <2>2. z \div 2 \in Level(d - 1) BY <1>3, ParentOf
  <2>3. (\E leaf \in S : z \div 2 \in Ancestors(leaf)) <=> z \div 2 \in Over(S, d - 1)
    BY <1>2, <2>1, <2>2
  <2>4. Over(S, d - 1) = {y \div 2 : y \in Over(S, d)} BY <2>1, OverStep
  <2> QED BY <2>3, <2>4
<1>4. ASSUME z \in NeededBy(S) PROVE \E d \in 1 .. LOG_PARTIES : z \in Level(d)
  <2>1. PICK d \in 0 .. LOG_PARTIES : z \in Level(d) BY <1>4 DEF NeededBy, Present
  <2>2. d # 0
    <3> SUFFICES ASSUME d = 0 PROVE FALSE OBVIOUS
    <3>1. z = 1
      <4>1. First(0) = 1 /\ Last(0) \in Nat /\ Last(0) < 2 * First(0) BY <1>1, LevelBounds, TopAndBottom
      <4> QED BY <2>1, <4>1 DEF Level
    <3>2. PICK leaf \in S : 0 \in Ancestors(leaf) BY <1>4, <3>1 DEF NeededBy
    <3>3. Depth(leaf) = LOG_PARTIES BY <1>1, DepthOf
    <3>4. PICK t \in 0 .. LOG_PARTIES : 0 = leaf \div 2 ^ t BY <3>2, <3>3 DEF Ancestors
    <3>5. LOG_PARTIES - t \in 0 .. LOG_PARTIES /\ LOG_PARTIES - (LOG_PARTIES - t) = t BY <1>1
    <3>6. 0 \in Over(S, LOG_PARTIES - t) BY <3>4, <3>5 DEF Over
    <3>7. 0 \in Level(LOG_PARTIES - t) BY <3>5, <3>6, OverLevel
    <3> QED BY <3>5, <3>7, DepthOf
  <2> QED BY <1>1, <2>1, <2>2
<1>5. ASSUME NEW d \in 1 .. LOG_PARTIES, z \in Level(d)
      PROVE  z \in NeededBy(S) <=> /\ z \notin Over(S, d)
                                   /\ \E y \in Over(S, d) : y \div 2 = z \div 2
  <2>1. d \in 0 .. LOG_PARTIES OBVIOUS
  <2>2. z \in TreeNodes /\ Present(z) BY <1>5, <2>1, DepthOf
  <2>3. (\E leaf \in S : z \in Ancestors(leaf)) <=> z \in Over(S, d) BY <1>2, <1>5, <2>1
  <2> QED BY <1>3, <1>5, <2>2, <2>3 DEF NeededBy
<1>6. ASSUME NEW d \in 1 .. LOG_PARTIES, z \in Level(d), z \notin Over(S, d),
             \E y \in Over(S, d) : y \div 2 = z \div 2
      PROVE  z \in NeededBy(S)
  BY <1>5, <1>6
<1> QED BY <1>4, <1>5, <1>6
-----------------------------------------------------------------------------
(* The queue *)

Taken(q) == IF ~NoSibling(q) /\ SiblingQueued(q) THEN 2 ELSE 1

\* Cells of the queue that are less than a round apart are different.
LEMMA CellsOf ==
  ASSUME NEW q \in Queues
  PROVE  /\ REVEALED \in Nat \ {0}
         /\ \A k \in 0 .. REVEALED : Cell(q, k) \in Cells
         /\ Cell(q, 0) = q.start /\ Cell(q, 1) = Following(q.start)
         /\ At(q, 0) = Index(q) /\ \A k \in 0 .. REVEALED : At(q, k) \in Nat
         /\ \A j, k \in 0 .. REVEALED : j < k /\ k - j < REVEALED => Cell(q, j) # Cell(q, k)
<1>1. REVEALED \in Nat \ {0} BY TreeAssumption, TopAndBottom
<1>2. q.start \in 0 .. REVEALED - 1 /\ q.index \in [Cells -> Nat] BY DEF Queues, Cells
<1>3. \A k \in 0 .. REVEALED : Cell(q, k) \in Cells BY <1>1, <1>2 DEF Cell, Cells
<1>4. Cell(q, 0) = q.start /\ Cell(q, 1) = Following(q.start)
  BY <1>1, <1>2 DEF Cell, Following
<1>5. \A j, k \in 0 .. REVEALED : j < k /\ k - j < REVEALED => Cell(q, j) # Cell(q, k)
  BY <1>1, <1>2 DEF Cell
<1>6. At(q, 0) = Index(q) /\ \A k \in 0 .. REVEALED : At(q, k) \in Nat
  BY <1>2, <1>3, <1>4 DEF At, Index
<1> QED BY <1>1, <1>3, <1>4, <1>5, <1>6

\* A step takes one or two nodes off the queue and puts their parent at its end.
LEMMA QueueStep ==
  ASSUME NEW q \in Queues, NEW n \in 1 .. REVEALED, q.stop = Cell(q, n)
  PROVE  /\ Taken(q) \in 1 .. n /\ Step(q) \in Queues
         /\ Step(q).stop = Cell(Step(q), n - Taken(q) + 1)
         /\ \A k \in 0 .. n - Taken(q) : Cell(Step(q), k) = Cell(q, k + Taken(q))
         /\ \A k \in 0 .. n - Taken(q) - 1 : At(Step(q), k) = At(q, k + Taken(q))
         /\ At(Step(q), n - Taken(q)) = Index(q) \div 2
<1> DEFINE r == Step(q)
           c == Taken(q)
<1>1. /\ REVEALED \in Nat \ {0} /\ \A k \in 0 .. REVEALED : Cell(q, k) \in Cells
      /\ Cell(q, 0) = q.start /\ Cell(q, 1) = Following(q.start)
      /\ At(q, 0) = Index(q) /\ \A k \in 0 .. REVEALED : At(q, k) \in Nat
      /\ \A j, k \in 0 .. REVEALED : j < k /\ k - j < REVEALED => Cell(q, j) # Cell(q, k)
  BY CellsOf
<1>2. q.start \in 0 .. REVEALED - 1 /\ q.stop \in 0 .. REVEALED - 1 /\ q.index \in [Cells -> Nat]
      /\ q.first \in Nat /\ q.last \in Nat
  BY DEF Queues, Cells
<1>3. c \in 1 .. n
  <2>1. CASE c = 2
    <3>1. Following(q.start) # q.stop BY <2>1 DEF Taken, SiblingQueued
    <3>2. n # 1 BY <1>1, <3>1
    <3> QED BY <1>1, <2>1, <3>2
  <2>2. CASE c # 2 BY <1>1, <2>2 DEF Taken
  <2> QED BY <2>1, <2>2
<1>4. r.start = Cell(q, c)
  <2>1. CASE c = 2
    <3>1. r.start = Following(Following(q.start)) BY <2>1 DEF Step, Taken
    <3> QED BY <1>1, <1>2, <1>3, <2>1, <3>1 DEF Following, Cell
  <2>2. CASE c # 2
    <3>1. r.start = Following(q.start) /\ c = 1 BY <2>2 DEF Step, Taken
    <3> QED BY <1>1, <3>1
  <2> QED BY <2>1, <2>2
<1>5. r.stop = Following(Cell(q, n)) /\ r.index = [q.index EXCEPT ![Cell(q, n)] = Index(q) \div 2]
  BY DEF Step, Parent
<1>6. Index(q) \div 2 \in Nat BY <1>1
<1>7. r \in Queues
  <2>1. r.start \in Cells /\ r.stop \in Cells
    <3>1. \A k \in Cells : Following(k) \in Cells BY <1>1 DEF Following, Cells
    <3> QED BY <1>1, <1>3, <1>4, <1>5, <3>1
  <2>2. r.index \in [Cells -> Nat] BY <1>2, <1>5, <1>6
  <2>3. r.first \in Nat /\ r.last \in Nat BY <1>2 DEF Step, LastOfLevel
  <2>4. r = [index |-> r.index, start |-> r.start, stop |-> r.stop, first |-> r.first,
             last |-> r.last]
    BY DEF Step
  <2> HIDE DEF r
  <2> QED BY <2>1, <2>2, <2>3, <2>4 DEF Queues
<1> HIDE DEF r, c
<1>8. \A k \in 0 .. n - c : Cell(r, k) = Cell(q, k + c)
  BY <1>1, <1>2, <1>3, <1>4 DEF Cell
<1>9. r.stop = Cell(r, n - c + 1)
  <2> DEFINE s == q.start
             k == n - c + 1
  <2>1. /\ s \in 0 .. REVEALED - 1 /\ n \in 1 .. REVEALED /\ c \in 1 .. n
        /\ k \in Nat /\ k = n - c + 1 /\ REVEALED \in Nat \ {0}
    BY <1>1, <1>2, <1>3
  <2>2. r.start = IF s + c < REVEALED THEN s + c ELSE s + c - REVEALED BY <1>4 DEF Cell
  <2>3. r.stop = Following(IF s + n < REVEALED THEN s + n ELSE s + n - REVEALED)
    BY <1>5 DEF Cell
  <2>4. r.start \in Nat BY <2>1, <2>2
  <2>6. Cell(r, k) = IF r.start + k < REVEALED THEN r.start + k ELSE r.start + k - REVEALED
    BY DEF Cell
  <2> HIDE DEF s, k
  <2>5. r.stop = Cell(r, k)
    <3>1. CASE s + n < REVEALED
      <4>1. s + c < REVEALED /\ r.start = s + c BY <2>1, <2>2, <3>1
      <4>2. r.start + k = s + n + 1 BY <2>1, <4>1
      <4>3. r.stop = Following(s + n) BY <2>3, <3>1
      <4> QED BY <2>1, <2>4, <2>6, <3>1, <4>2, <4>3 DEF Following
    <3>2. CASE ~(s + n < REVEALED)
      <4>1. r.stop = Following(s + n - REVEALED) BY <2>3, <3>2
      <4>2. CASE s + c < REVEALED
        <5>1. r.start + k = s + n + 1 BY <2>1, <2>2, <4>2
        <5> QED BY <2>1, <2>4, <2>6, <3>2, <4>1, <4>2, <5>1 DEF Following
      <4>3. CASE ~(s + c < REVEALED)
        <5>1. r.start + k = s + n + 1 - REVEALED BY <2>1, <2>2, <4>3
        <5> QED BY <2>1, <2>4, <2>6, <3>2, <4>1, <4>3, <5>1 DEF Following
      <4> QED BY <4>2, <4>3
    <3> QED BY <3>1, <3>2
  <2> QED BY <2>5 DEF k
<1>10. \A k \in 0 .. n - c - 1 : At(r, k) = At(q, k + c)
  <2> SUFFICES ASSUME NEW k \in 0 .. n - c - 1 PROVE At(r, k) = At(q, k + c) OBVIOUS
  <2>1. Cell(r, k) = Cell(q, k + c) BY <1>3, <1>8
  <2>2. k + c \in 0 .. REVEALED /\ n \in 0 .. REVEALED /\ k + c < n /\ n - (k + c) < REVEALED
    BY <1>1, <1>3
  <2>3. Cell(q, k + c) # Cell(q, n) /\ Cell(q, k + c) \in Cells BY <1>1, <2>2
  <2> QED BY <1>2, <1>5, <2>1, <2>3 DEF At
<1>11. At(r, n - c) = Index(q) \div 2
  <2>1. n - c \in 0 .. n - c /\ (n - c) + c = n /\ n \in 0 .. REVEALED BY <1>1, <1>3
  <2>2. Cell(r, n - c) = Cell(q, n) BY <1>8, <2>1
  <2> QED BY <1>1, <1>2, <1>5, <2>1, <2>2 DEF At
<1> QED BY <1>3, <1>7, <1>8, <1>9, <1>10, <1>11 DEF r, c

-----------------------------------------------------------------------------
(* A step of the walk *)

LEMMA Front ==
  ASSUME NEW S \in SUBSET Level(LOG_PARTIES), NEW q \in Queues, NEW d \in 0 .. LOG_PARTIES,
         NEW n \in 1 .. REVEALED, NEW m \in 1 .. n, WalkAt(q, S, d, n, m)
  PROVE  /\ Index(q) \in Over(S, d) /\ Index(q) \in Level(d) /\ Index(q) = At(q, 0)
         /\ Index(q) \in Nat
         /\ AtRoot(q) <=> d = 0
         /\ LastOfLevel(q) = Last(d) /\ BoundsOf(Step(q), d)
<1> DEFINE x == Index(q)
<1>1. x = At(q, 0) /\ x \in Nat BY CellsOf, TreeAssumption, TopAndBottom
<1>2. x \in Over(S, d) BY <1>1 DEF WalkAt
<1>3. x \in Level(d) BY <1>2, OverLevel
<1>4. First(d) <= x /\ x <= Last(d) BY <1>3 DEF Level
<1>5. /\ First(d) \in Nat \ {0} /\ Last(d) \in Nat /\ Last(d) < 2 * First(d)
  BY LevelBounds
<1>6. AtRoot(q) <=> d = 0
  <2>1. ASSUME d = 0 PROVE x = 1
    BY <1>1, <1>4, <1>5, <2>1, TopAndBottom
  <2>2. ASSUME x = 1 PROVE d = 0
    <3> SUFFICES ASSUME d # 0 PROVE FALSE OBVIOUS
    <3>1. 0 \in 0 .. LOG_PARTIES /\ 0 < d BY TreeAssumption
    <3>2. 2 * First(0) <= First(d) BY <3>1, LevelOrder
    <3> QED BY <1>4, <1>5, <2>2, <3>2, TopAndBottom
  <2> QED BY <2>1, <2>2 DEF AtRoot
<1>7. LastOfLevel(q) = Last(d) /\ BoundsOf(Step(q), d)
  <2>1. CASE BoundsOf(q, d)
    <3>1. q.first = First(d) /\ q.last = Last(d) BY <2>1 DEF BoundsOf
    <3>2. ~NewLevel(q) BY <1>1, <1>4, <1>5, <3>1 DEF NewLevel
    <3> QED BY <3>1, <3>2 DEF LastOfLevel, Step, BoundsOf
  <2>2. CASE d < LOG_PARTIES /\ BoundsOf(q, d + 1)
    <3>1. q.first = First(d + 1) /\ q.last = Last(d + 1) BY <2>2 DEF BoundsOf
    <3>2. d \in 0 .. LOG_PARTIES - 1 BY <2>2, TreeAssumption
    <3>3. First(d + 1) = 2 * First(d) /\ Last(d) = Last(d + 1) \div 2 BY <3>2, LevelStep
    <3>4. NewLevel(q) BY <1>1, <1>4, <1>5, <3>1, <3>3 DEF NewLevel
    <3>5. LastOfLevel(q) = Last(d) BY <3>1, <3>3, <3>4 DEF LastOfLevel
    <3>6. q.first \div 2 = First(d) BY <1>5, <3>1, <3>3
    <3>7. Step(q).first = q.first \div 2 /\ Step(q).last = LastOfLevel(q)
      BY <3>4 DEF Step
    <3> QED BY <3>5, <3>6, <3>7 DEF BoundsOf
  <2> QED BY <2>1, <2>2 DEF WalkAt
<1> QED BY <1>1, <1>2, <1>3, <1>6, <1>7

\* The sibling of the front is next in the queue if it is over a leaf at all.
LEMMA Siblings ==
  ASSUME NEW S \in SUBSET Level(LOG_PARTIES), NEW q \in Queues, NEW d \in 0 .. LOG_PARTIES,
         NEW n \in 1 .. REVEALED, NEW m \in 1 .. n, WalkAt(q, S, d, n, m)
  PROVE  /\ NoSibling(q) <=> Index(q) % 2 = 0 /\ Index(q) = Last(d)
         /\ SiblingQueued(q) <=> Index(q) % 2 = 0 /\ Index(q) + 1 \in Over(S, d)
         /\ SiblingQueued(q) => m >= 2 /\ At(q, 1) = Index(q) + 1 /\ ~NoSibling(q)
         /\ Taken(q) = (IF SiblingQueued(q) THEN 2 ELSE 1)
<1> DEFINE x == Index(q)
<1>1. /\ x \in Over(S, d) /\ x \in Level(d) /\ x = At(q, 0) /\ x \in Nat
      /\ LastOfLevel(q) = Last(d)
  BY Front
<1>2. /\ REVEALED \in Nat \ {0} /\ \A k \in 0 .. REVEALED : Cell(q, k) \in Cells
      /\ Cell(q, 1) = Following(q.start)
      /\ \A k \in 0 .. REVEALED : At(q, k) \in Nat
      /\ \A j, k \in 0 .. REVEALED : j < k /\ k - j < REVEALED => Cell(q, j) # Cell(q, k)
  BY CellsOf
<1>3. NoSibling(q) <=> x % 2 = 0 /\ x = Last(d) BY <1>1 DEF NoSibling, IsLeftChild
<1>4. q.stop = Cell(q, n) BY DEF WalkAt
<1>5. ASSUME SiblingQueued(q)
      PROVE  x % 2 = 0 /\ At(q, 1) = x + 1 /\ m >= 2 /\ x + 1 \in Over(S, d)
  <2>1. x % 2 = 0 /\ At(q, 1) = x + 1 /\ Cell(q, 1) # q.stop
    BY <1>2, <1>5 DEF SiblingQueued, IsLeftChild, At
  <2>2. n >= 2 BY <1>4, <2>1
  <2>3. m # 1
    <3> SUFFICES ASSUME m = 1 PROVE FALSE OBVIOUS
    <3>1. 1 \in m .. n - 1 BY <2>2
    <3>2. At(q, 1) < x \div 2 BY <3>1 DEF WalkAt
    <3> QED BY <1>1, <2>1, <3>2
  <2>4. m >= 2 BY <2>3
  <2>5. At(q, 1) \in Over(S, d) BY <2>4 DEF WalkAt
  <2> QED BY <2>1, <2>4, <2>5
<1>6. ASSUME x % 2 = 0, x + 1 \in Over(S, d) PROVE SiblingQueued(q)
  <2>1. PICK k \in 0 .. m - 1 : x + 1 = At(q, k) BY <1>1, <1>6 DEF WalkAt
  <2>2. k # 0 BY <1>1, <2>1
  <2>3. ~(k > 1)
    <3> SUFFICES ASSUME k > 1 PROVE FALSE OBVIOUS
    <3>1. At(q, 0) < At(q, 1) /\ At(q, 1) < At(q, k) BY <2>1 DEF WalkAt
    <3> QED BY <1>1, <1>2, <2>1, <3>1
  <2>4. k = 1 /\ n >= 2 BY <2>1, <2>2, <2>3
  <2>5. Cell(q, 1) # Cell(q, n) BY <1>2, <2>4
  <2> QED BY <1>2, <1>4, <1>6, <2>1, <2>4, <2>5 DEF SiblingQueued, IsLeftChild, At
<1>7. ASSUME SiblingQueued(q) PROVE ~NoSibling(q)
  <2>1. x + 1 \in Level(d) BY <1>5, <1>7, OverLevel
  <2>2. Last(d) \in Nat BY LevelBounds
  <2> QED BY <1>1, <1>3, <2>1, <2>2 DEF Level
<1>8. Taken(q) = (IF SiblingQueued(q) THEN 2 ELSE 1) BY <1>7 DEF Taken
<1> QED BY <1>3, <1>5, <1>6, <1>7, <1>8

\* What is taken off are the front and its sibling; what is left is beyond them.
LEMMA Left ==
  ASSUME NEW S \in SUBSET Level(LOG_PARTIES), NEW q \in Queues, NEW d \in 0 .. LOG_PARTIES,
         NEW n \in 1 .. REVEALED, NEW m \in 1 .. n, WalkAt(q, S, d, n, m)
  PROVE  /\ Taken(q) \in 1 .. m
         /\ \A k \in 0 .. Taken(q) - 1 : At(q, k) \div 2 = Index(q) \div 2
         /\ \A k \in Taken(q) .. m - 1 : /\ Index(q) < At(q, k)
                                         /\ Index(q) \div 2 < At(q, k) \div 2
         /\ \A y \in Over(S, d) : y \div 2 = Index(q) \div 2 =>
               \E k \in 0 .. Taken(q) - 1 : y = At(q, k)
<1> DEFINE x == Index(q)
           c == Taken(q)
<1>1. x \in Over(S, d) /\ x = At(q, 0) /\ x \in Nat
  BY Front
<1>2. REVEALED \in Nat \ {0} /\ \A k \in 0 .. REVEALED : At(q, k) \in Nat
  BY CellsOf
<1>3. /\ SiblingQueued(q) <=> x % 2 = 0 /\ x + 1 \in Over(S, d)
      /\ SiblingQueued(q) => m >= 2 /\ At(q, 1) = x + 1
      /\ c = (IF SiblingQueued(q) THEN 2 ELSE 1)
  BY Siblings
<1> HIDE DEF c, x
<1>4. c \in 1 .. m BY <1>3
<1>5. \A k \in 0 .. c - 1 : At(q, k) \div 2 = x \div 2
  <2>1. CASE SiblingQueued(q)
    <3>1. c = 2 /\ At(q, 1) = x + 1 /\ x % 2 = 0 BY <1>3, <2>1
    <3>2. (x + 1) \div 2 = x \div 2 BY <1>1, <3>1
    <3>3. \A k \in 0 .. c - 1 : k = 0 \/ k = 1 BY <3>1
    <3> QED BY <1>1, <3>1, <3>2, <3>3
  <2>2. CASE ~SiblingQueued(q)
    <3>1. c = 1 BY <1>3, <2>2
    <3>2. \A k \in 0 .. c - 1 : k = 0 BY <3>1
    <3> QED BY <1>1, <3>2
  <2> QED BY <2>1, <2>2
<1>6. ASSUME NEW k \in c .. m - 1 PROVE x < At(q, k) /\ x \div 2 < At(q, k) \div 2
  <2>1. k \in 0 .. m - 1 /\ 0 \in 0 .. m - 1 /\ 0 < k /\ k \in 0 .. REVEALED BY <1>2, <1>4
  <2>2. x < At(q, k) /\ At(q, k) \in Over(S, d) /\ At(q, k) \in Nat
    BY <1>1, <1>2, <2>1 DEF WalkAt
  <2>3. x \div 2 # At(q, k) \div 2
    <3> SUFFICES ASSUME x \div 2 = At(q, k) \div 2 PROVE FALSE OBVIOUS
    <3>1. x % 2 = 0 /\ At(q, k) = x + 1 BY <1>1, <2>2
    <3>2. c = 2 /\ At(q, 1) = x + 1 BY <1>3, <2>2, <3>1
    <3>3. 1 \in 0 .. m - 1 /\ 1 < k BY <1>4, <3>2
    <3>4. At(q, 1) < At(q, k) BY <2>1, <3>3 DEF WalkAt
    <3> QED BY <1>1, <3>1, <3>2, <3>4
  <2> QED BY <1>1, <2>2, <2>3
<1>7. ASSUME NEW y \in Over(S, d), y \div 2 = x \div 2
      PROVE  \E k \in 0 .. c - 1 : y = At(q, k)
  <2>0. y \in Nat
    <3>1. y \in Level(d) BY OverLevel
    <3> QED BY <3>1, DepthOf
  <2>1. ~(y < x)
    <3> SUFFICES ASSUME y < x PROVE FALSE OBVIOUS
    <3>1. PICK k \in m .. n - 1 : At(q, k) = y \div 2 BY DEF WalkAt, x
    <3>2. At(q, k) < x \div 2 BY DEF WalkAt, x
    <3> QED BY <1>1, <1>7, <2>0, <3>1, <3>2
  <2>2. PICK k \in 0 .. m - 1 : y = At(q, k) BY <1>1, <2>0, <2>1 DEF WalkAt, x
  <2>3. ~(k \in c .. m - 1) BY <1>1, <1>6, <1>7, <2>0, <2>2
  <2>4. k \in 0 .. c - 1 BY <1>4, <2>3
  <2> QED BY <2>2, <2>4
<1> QED BY <1>4, <1>5, <1>6, <1>7 DEF c, x

\* r is q after c of its nodes were taken off, all of the depth d of the front.
ParentsAt(S, q, d, n, m, c, r) ==
  /\ c \in 1 .. m /\ r \in Queues /\ r.stop = Cell(r, n - c + 1)
  /\ \A k \in 0 .. m - c - 1 : At(r, k) = At(q, k + c)
  /\ \A k \in m - c .. n - c : /\ At(r, k) <= Index(q) \div 2
                               /\ \E y \in Over(S, d) : y <= Index(q) /\ At(r, k) = y \div 2
  /\ \A k \in 0 .. c - 1, y \in Over(S, d) : y < Index(q) \/ y = At(q, k) =>
        \E j \in m - c .. n - c : At(r, j) = y \div 2
  /\ \A j, k \in m - c .. n - c : j < k => At(r, j) < At(r, k)
  /\ \A k \in 0 .. n - c : At(r, k) \in Nat

\* The parents that were put at the end, that of the front included, are in order.
LEMMA Parents ==
  ASSUME NEW S \in SUBSET Level(LOG_PARTIES), NEW q \in Queues, NEW d \in 0 .. LOG_PARTIES,
         NEW n \in 1 .. REVEALED, NEW m \in 1 .. n, WalkAt(q, S, d, n, m)
  PROVE  ParentsAt(S, q, d, n, m, Taken(q), Step(q))
<1> DEFINE c == Taken(q)
           r == Step(q)
           x == Index(q)
<1>1. /\ REVEALED \in Nat \ {0} /\ \A k \in 0 .. REVEALED : At(q, k) \in Nat
  BY CellsOf
<1>2. /\ c \in 1 .. n /\ r \in Queues /\ r.stop = Cell(r, n - c + 1)
      /\ \A k \in 0 .. n - c - 1 : At(r, k) = At(q, k + c)
      /\ At(r, n - c) = x \div 2
  <2>1. q.stop = Cell(q, n) BY DEF WalkAt
  <2> QED BY <2>1, QueueStep
<1>3. /\ c \in 1 .. m /\ \A k \in 0 .. c - 1 : At(q, k) \div 2 = x \div 2
      /\ x \in Over(S, d) /\ x \in Nat
  BY Left, Front
<1>4. /\ \A k \in m .. n - 1 : /\ At(q, k) < x \div 2
                               /\ \E y \in Over(S, d) : y < x /\ At(q, k) = y \div 2
      /\ \A y \in Over(S, d) : y < x => \E k \in m .. n - 1 : At(q, k) = y \div 2
      /\ \A j, k \in m .. n - 1 : j < k => At(q, j) < At(q, k)
  BY DEF WalkAt
<1>5. \A y \in Over(S, d) : y \in Nat
  <2>1. Over(S, d) \subseteq Level(d) BY OverLevel
  <2> QED BY <2>1, DepthOf
<1>6. n \in Nat /\ m \in Nat /\ m <= n /\ n <= REVEALED /\ c \in Nat BY <1>1, <1>2
<1> HIDE DEF c, r, x
<1>7. \A k \in m - c .. n - c : \/ k + c \in m .. n - 1 /\ At(r, k) = At(q, k + c)
                                \/ k = n - c /\ At(r, k) = x \div 2
  <2> SUFFICES ASSUME NEW k \in m - c .. n - c, k # n - c
               PROVE  k + c \in m .. n - 1 /\ At(r, k) = At(q, k + c)
    BY <1>2
  <2>1. k \in 0 .. n - c - 1 /\ k + c \in m .. n - 1 BY <1>3, <1>6
  <2> QED BY <1>2, <2>1
<1>8. \A k \in 0 .. m - c - 1 : At(r, k) = At(q, k + c)
  <2>1. \A k \in 0 .. m - c - 1 : k \in 0 .. n - c - 1 BY <1>6
  <2> QED BY <1>2, <2>1
<1>9. ASSUME NEW k \in m - c .. n - c
      PROVE  At(r, k) <= x \div 2 /\ \E y \in Over(S, d) : y <= x /\ At(r, k) = y \div 2
  <2>1. CASE k + c \in m .. n - 1 /\ At(r, k) = At(q, k + c)
    <3>1. PICK y \in Over(S, d) : y < x /\ At(q, k + c) = y \div 2 BY <1>4, <2>1
    <3>2. y \in Nat /\ y <= x /\ At(r, k) = y \div 2 BY <1>3, <1>5, <2>1, <3>1
    <3>3. At(r, k) <= x \div 2 BY <1>3, <3>2
    <3> QED BY <3>2, <3>3
  <2>2. CASE k = n - c /\ At(r, k) = x \div 2 BY <1>3, <2>2
  <2> QED BY <1>7, <2>1, <2>2
<1>10. ASSUME NEW k \in 0 .. c - 1, NEW y \in Over(S, d), y < x \/ y = At(q, k)
       PROVE  \E j \in m - c .. n - c : At(r, j) = y \div 2
  <2>1. CASE y < x
    <3>1. PICK l \in m .. n - 1 : At(q, l) = y \div 2 BY <1>4, <2>1
    <3>2. l - c \in m - c .. n - c /\ l - c \in 0 .. n - c - 1 /\ (l - c) + c = l BY <1>3, <1>6
    <3>3. At(r, l - c) = At(q, l) BY <1>2, <3>2
    <3> QED BY <3>1, <3>2, <3>3
  <2>2. CASE y = At(q, k)
    <3>1. y \div 2 = x \div 2 BY <1>3, <2>2
    <3>2. n - c \in m - c .. n - c BY <1>6
    <3> QED BY <1>2, <3>1, <3>2
  <2> QED BY <1>10, <2>1, <2>2
<1>11. ASSUME NEW j \in m - c .. n - c, NEW k \in m - c .. n - c, j < k
       PROVE  At(r, j) < At(r, k)
  <2>1. j # n - c BY <1>6, <1>11
  <2>2. j + c \in m .. n - 1 /\ At(r, j) = At(q, j + c) BY <1>7, <2>1
  <2>3. CASE k + c \in m .. n - 1 /\ At(r, k) = At(q, k + c)
    <3>1. j + c < k + c BY <1>6, <1>11
    <3> QED BY <1>4, <2>2, <2>3, <3>1
  <2>4. CASE k = n - c /\ At(r, k) = x \div 2 BY <1>4, <2>2, <2>4
  <2> QED BY <1>7, <2>3, <2>4
<1>12. ASSUME NEW k \in 0 .. n - c PROVE At(r, k) \in Nat
  <2>1. CASE k = n - c BY <1>2, <1>3, <2>1
  <2>2. CASE k # n - c
    <3>1. k \in 0 .. n - c - 1 /\ k + c \in 0 .. REVEALED BY <1>1, <1>3, <1>6, <2>2
    <3> QED BY <1>1, <1>2, <3>1
  <2> QED BY <2>1, <2>2
<1>13. c \in 1 .. m /\ r \in Queues /\ r.stop = Cell(r, n - c + 1) BY <1>2, <1>3
<1>14. ParentsAt(S, q, d, n, m, c, r)
  BY <1>8, <1>9, <1>10, <1>11, <1>12, <1>13 DEF ParentsAt, x
<1> QED BY <1>14 DEF c, r

\* A step on a level that is not left yet.
LEMMA StepAlong ==
  ASSUME NEW S \in SUBSET Level(LOG_PARTIES), NEW q \in Queues, NEW d \in 0 .. LOG_PARTIES,
         NEW n \in 1 .. REVEALED, NEW m \in 1 .. n, WalkAt(q, S, d, n, m), Taken(q) < m
  PROVE  /\ WalkAt(Step(q), S, d, n - Taken(q) + 1, m - Taken(q))
         /\ Index(Step(q)) = At(q, Taken(q))
<1> DEFINE c == Taken(q)
           r == Step(q)
           x == Index(q)
           v == At(q, c)
<1>1. /\ REVEALED \in Nat \ {0} /\ \A k \in 0 .. REVEALED : At(q, k) \in Nat
  BY CellsOf
<1>2. /\ c \in 1 .. m /\ r \in Queues /\ r.stop = Cell(r, n - c + 1)
      /\ \A k \in 0 .. m - c - 1 : At(r, k) = At(q, k + c)
      /\ \A k \in m - c .. n - c : /\ At(r, k) <= x \div 2
                                   /\ \E y \in Over(S, d) : y <= x /\ At(r, k) = y \div 2
      /\ \A k \in 0 .. c - 1, y \in Over(S, d) : y < x \/ y = At(q, k) =>
            \E j \in m - c .. n - c : At(r, j) = y \div 2
      /\ \A j, k \in m - c .. n - c : j < k => At(r, j) < At(r, k)
  <2>1. ParentsAt(S, q, d, n, m, c, r) BY Parents
  <2> QED BY <2>1 DEF ParentsAt
<1>3. /\ \A k \in 0 .. m - 1 : At(q, k) \in Over(S, d)
      /\ \A y \in Over(S, d) : y >= x => \E k \in 0 .. m - 1 : y = At(q, k)
      /\ \A j, k \in 0 .. m - 1 : j < k => At(q, j) < At(q, k)
  BY DEF WalkAt
<1>4. BoundsOf(r, d) /\ x \in Nat BY Front
<1>5. \A k \in c .. m - 1 : x < At(q, k) /\ x \div 2 < At(q, k) \div 2 BY Left
<1>6. n \in Nat /\ m \in Nat /\ m <= n /\ n <= REVEALED /\ c \in Nat /\ c < m BY <1>1, <1>2
<1>7. Index(r) = v
  <2>1. At(r, 0) = Index(r) BY <1>2, CellsOf
  <2>2. 0 \in 0 .. m - c - 1 /\ 0 + c = c BY <1>6
  <2> QED BY <1>2, <2>1, <2>2
<1>8. \A y \in Over(S, d) : y \in Nat
  <2>1. Over(S, d) \subseteq Level(d) BY OverLevel
  <2> QED BY <2>1, DepthOf
<1>9. v \in Nat /\ x < v /\ x \div 2 < v \div 2
  <2>1. c \in c .. m - 1 /\ c \in 0 .. REVEALED BY <1>1, <1>6
  <2> QED BY <1>1, <1>5, <2>1
<1> HIDE DEF c, r, x
<1>10. \A k \in 0 .. (m - c) - 1 : At(r, k) \in Over(S, d)
  <2>1. \A k \in 0 .. m - c - 1 : k + c \in 0 .. m - 1 BY <1>6
  <2> QED BY <1>2, <1>3, <2>1
<1>11. ASSUME NEW y \in Over(S, d) PROVE y >= v <=> \E k \in c .. m - 1 : y = At(q, k)
  <2>1. ASSUME y >= v PROVE \E k \in c .. m - 1 : y = At(q, k)
    <3>1. PICK k \in 0 .. m - 1 : y = At(q, k) BY <1>3, <1>4, <1>8, <1>9, <2>1
    <3>2. ~(k < c)
      <4> SUFFICES ASSUME k < c PROVE FALSE OBVIOUS
      <4>1. c \in 0 .. m - 1 BY <1>6
      <4>2. At(q, k) < v BY <1>3, <4>1
      <4> QED BY <1>8, <1>9, <2>1, <3>1, <4>2
    <3>3. k \in c .. m - 1 BY <1>6, <3>2
    <3> QED BY <3>1, <3>3
  <2>2. ASSUME NEW k \in c .. m - 1, y = At(q, k) PROVE y >= v
    <3>1. CASE k = c BY <1>9, <2>2, <3>1
    <3>2. CASE c < k
      <4>1. c \in 0 .. m - 1 /\ k \in 0 .. m - 1 BY <1>6
      <4>2. v < y BY <1>3, <2>2, <3>2, <4>1
      <4> QED BY <1>8, <1>9, <4>2
    <3> QED BY <1>6, <3>1, <3>2
  <2> QED BY <2>1, <2>2
<1>12. ASSUME NEW y \in Over(S, d), y >= v PROVE \E k \in 0 .. (m - c) - 1 : y = At(r, k)
  <2>1. PICK k \in c .. m - 1 : y = At(q, k) BY <1>11, <1>12
  <2>2. k - c \in 0 .. m - c - 1 /\ (k - c) + c = k BY <1>6
  <2>3. At(r, k - c) = At(q, k) BY <1>2, <2>2
  <2> QED BY <2>1, <2>2, <2>3
<1>13. ASSUME NEW k \in m - c .. (n - c + 1) - 1
       PROVE  At(r, k) < v \div 2 /\ \E y \in Over(S, d) : y < v /\ At(r, k) = y \div 2
  <2>1. k \in m - c .. n - c BY <1>6
  <2>2. PICK y \in Over(S, d) : y <= x /\ At(r, k) = y \div 2 BY <1>2, <2>1
  <2>3. y \in Nat /\ y < v BY <1>4, <1>8, <1>9, <2>2
  <2>4. At(r, k) < v \div 2 BY <1>4, <1>9, <2>2, <2>3
  <2> QED BY <2>2, <2>3, <2>4
<1>14. ASSUME NEW y \in Over(S, d), y < v
       PROVE  \E j \in m - c .. (n - c + 1) - 1 : At(r, j) = y \div 2
  <2>1. \E k \in 0 .. c - 1 : y < x \/ y = At(q, k)
    <3>1. CASE y < x
      <4>1. 0 \in 0 .. c - 1 BY <1>2
      <4> QED BY <3>1, <4>1
    <3>2. CASE y >= x
      <4>1. PICK k \in 0 .. m - 1 : y = At(q, k) BY <1>3, <3>2
      <4>2. k \notin c .. m - 1 BY <1>8, <1>9, <1>11, <1>14, <4>1
      <4>3. k \in 0 .. c - 1 BY <1>6, <4>2
      <4> QED BY <4>1, <4>3
    <3> QED BY <1>4, <1>8, <3>1, <3>2
  <2>2. PICK j \in m - c .. n - c : At(r, j) = y \div 2 BY <1>2, <2>1
  <2>3. j \in m - c .. (n - c + 1) - 1 BY <1>6
  <2> QED BY <2>2, <2>3
<1>15. ASSUME NEW j \in 0 .. (m - c) - 1, NEW k \in 0 .. (m - c) - 1, j < k
       PROVE  At(r, j) < At(r, k)
  <2>1. j + c \in 0 .. m - 1 /\ k + c \in 0 .. m - 1 /\ j + c < k + c BY <1>6, <1>15
  <2>2. At(r, j) = At(q, j + c) /\ At(r, k) = At(q, k + c) BY <1>2
  <2> QED BY <1>3, <2>1, <2>2
<1>16. \A j, k \in m - c .. (n - c + 1) - 1 : j < k => At(r, j) < At(r, k)
  <2>1. (n - c + 1) - 1 = n - c BY <1>6
  <2> QED BY <1>2, <2>1
<1>17. WalkAt(r, S, d, n - c + 1, m - c)
  BY <1>2, <1>4, <1>7, <1>10, <1>12, <1>13, <1>14, <1>15, <1>16 DEF WalkAt
<1> QED BY <1>7, <1>17 DEF c, r

\* A step that takes the last nodes of a level.
LEMMA StepUp ==
  ASSUME NEW S \in SUBSET Level(LOG_PARTIES), NEW q \in Queues, NEW d \in 1 .. LOG_PARTIES,
         NEW n \in 1 .. REVEALED, NEW m \in 1 .. n, WalkAt(q, S, d, n, m), Taken(q) = m
  PROVE  /\ WalkAt(Step(q), S, d - 1, n - m + 1, n - m + 1)
         /\ \A y \in Over(S, d) : y \div 2 <= Index(q) \div 2
         /\ \A y \in Over(S, d - 1) : y >= Index(Step(q))
<1> DEFINE r == Step(q)
           x == Index(q)
           w == n - m + 1
<1>1. /\ REVEALED \in Nat \ {0} /\ \A k \in 0 .. REVEALED : At(q, k) \in Nat
  BY CellsOf
<1>0. d \in 0 .. LOG_PARTIES /\ d - 1 \in 0 .. LOG_PARTIES - 1 /\ d - 1 \in 0 .. LOG_PARTIES
      /\ (d - 1) + 1 = d
  BY TreeAssumption
<1>2. /\ r \in Queues /\ r.stop = Cell(r, w)
      /\ \A k \in m - m .. n - m : /\ At(r, k) <= x \div 2
                                   /\ \E y \in Over(S, d) : y <= x /\ At(r, k) = y \div 2
      /\ \A k \in 0 .. m - 1, y \in Over(S, d) : y < x \/ y = At(q, k) =>
            \E j \in m - m .. n - m : At(r, j) = y \div 2
      /\ \A j, k \in m - m .. n - m : j < k => At(r, j) < At(r, k)
      /\ \A k \in 0 .. n - m : At(r, k) \in Nat
  <2>1. ParentsAt(S, q, d, n, m, Taken(q), r) BY <1>0, Parents
  <2>2. ParentsAt(S, q, d, n, m, m, r) BY <2>1
  <2> QED BY <2>2 DEF ParentsAt
<1>3. \A y \in Over(S, d) : y >= x => \E k \in 0 .. m - 1 : y = At(q, k)
  BY DEF WalkAt
<1>4. BoundsOf(r, d) /\ x \in Nat BY <1>0, Front
<1>5. n \in Nat /\ m \in Nat /\ m <= n /\ m >= 1 /\ n <= REVEALED /\ w \in 1 .. REVEALED /\ m - m = 0
      /\ w - 1 = n - m
  BY <1>1
<1>6. Over(S, d - 1) = {y \div 2 : y \in Over(S, d)} BY <1>0, OverStep
<1>7. \A y \in Over(S, d) : y \in Nat
  <2>1. Over(S, d) \subseteq Level(d) BY <1>0, OverLevel
  <2> QED BY <1>0, <2>1, DepthOf
<1> HIDE DEF r, x, w
<1>8. ASSUME NEW y \in Over(S, d) PROVE \E j \in 0 .. w - 1 : At(r, j) = y \div 2
  <2>1. \E k \in 0 .. m - 1 : y < x \/ y = At(q, k)
    <3>1. CASE y < x
      <4>1. 0 \in 0 .. m - 1 BY <1>5
      <4> QED BY <3>1, <4>1
    <3>2. CASE y >= x BY <1>3, <3>2
    <3> QED BY <1>4, <1>7, <3>1, <3>2
  <2> QED BY <1>2, <1>5, <2>1
<1>9. \A k \in 0 .. w - 1 : /\ At(r, k) \in Over(S, d - 1) /\ At(r, k) <= x \div 2
                            /\ At(r, k) \in Nat
  <2>1. ASSUME NEW k \in 0 .. w - 1
        PROVE  At(r, k) \in Over(S, d - 1) /\ At(r, k) <= x \div 2 /\ At(r, k) \in Nat
    <3>1. k \in m - m .. n - m BY <1>5
    <3>2. PICK y \in Over(S, d) : At(r, k) = y \div 2 BY <1>2, <3>1
    <3> QED BY <1>2, <1>5, <1>6, <3>1, <3>2
  <2> QED BY <2>1
<1>10. \A j, k \in 0 .. w - 1 : j < k => At(r, j) < At(r, k) BY <1>2, <1>5
<1>11. ASSUME NEW z \in Over(S, d - 1)
       PROVE  /\ \E k \in 0 .. w - 1 : z = At(r, k)
              /\ z >= Index(r)
  <2>1. PICK k \in 0 .. w - 1 : z = At(r, k) BY <1>6, <1>8
  <2>2. At(r, 0) = Index(r) BY <1>2, CellsOf
  <2>3. 0 \in 0 .. w - 1 BY <1>5
  <2>4. z >= Index(r)
    <3>1. CASE k = 0 BY <1>9, <2>1, <2>2, <3>1
    <3>2. CASE k # 0
      <4>1. 0 < k BY <3>2
      <4>2. At(r, 0) < At(r, k) BY <1>10, <2>3, <4>1
      <4> QED BY <1>9, <2>1, <2>2, <2>3, <4>2
    <3> QED BY <3>1, <3>2
  <2> QED BY <2>1, <2>4
<1>12. WalkAt(r, S, d - 1, w, w)
  <2>1. \A k \in w .. w - 1 : FALSE BY <1>5
  <2>2. \A y \in Over(S, d - 1) : ~(y < Index(r))
    <3>1. Over(S, d - 1) \subseteq Level(d - 1) BY <1>0, OverLevel
    <3>2. \A y \in Over(S, d - 1) : y \in Nat BY <1>0, <3>1, DepthOf
    <3>3. Index(r) \in Nat BY <1>2, CellsOf, <1>5, <1>9
    <3> QED BY <1>11, <3>2, <3>3
  <2>3. d - 1 < LOG_PARTIES BY <1>0, TreeAssumption
  <2>4. BoundsOf(r, (d - 1) + 1) BY <1>0, <1>4
  <2>5. \A k \in 0 .. w - 1 : At(r, k) \in Over(S, d - 1) BY <1>9
  <2> QED BY <1>2, <1>10, <1>11, <2>1, <2>2, <2>3, <2>4, <2>5 DEF WalkAt
<1>13. \A y \in Over(S, d) : y \div 2 <= x \div 2 BY <1>8, <1>9
<1> QED BY <1>11, <1>12, <1>13 DEF r, x, w

-----------------------------------------------------------------------------
(* The nodes of the path, in the order in which a walk finds them *)

LEMMA NeededAt ==
  ASSUME NEW S \in SUBSET Level(LOG_PARTIES)
  PROVE  /\ \A z \in NeededBy(S) : \E d \in 1 .. LOG_PARTIES : z \in Level(d)
         /\ \A d \in 0 .. LOG_PARTIES : \A z \in NeededBy(S) : z \in Level(d) =>
              d # 0 /\ z \notin Over(S, d) /\ \E y \in Over(S, d) : y \div 2 = z \div 2
<1>1. ASSUME NEW z \in NeededBy(S)
      PROVE  \E d \in 1 .. LOG_PARTIES : /\ z \in Level(d) /\ z \notin Over(S, d)
                                         /\ \E y \in Over(S, d) : y \div 2 = z \div 2
  BY NeededNodes
<1>2. ASSUME NEW d \in 0 .. LOG_PARTIES, NEW z \in NeededBy(S), z \in Level(d)
      PROVE  d # 0 /\ z \notin Over(S, d) /\ \E y \in Over(S, d) : y \div 2 = z \div 2
  <2>1. PICK l \in 1 .. LOG_PARTIES : /\ z \in Level(l) /\ z \notin Over(S, l)
                                      /\ \E y \in Over(S, l) : y \div 2 = z \div 2
    BY <1>1
  <2>2. l \in 0 .. LOG_PARTIES OBVIOUS
  <2>3. l = d BY <1>2, <2>1, <2>2, DepthOf
  <2> QED BY <2>1, <2>3
<1> QED BY <1>1, <1>2

\* The only node of the path next to the front is its sibling.
LEMMA NeededPair ==
  ASSUME NEW S \in SUBSET Level(LOG_PARTIES), NEW q \in Queues, NEW d \in 1 .. LOG_PARTIES,
         NEW n \in 1 .. REVEALED, NEW m \in 1 .. n, WalkAt(q, S, d, n, m)
  PROVE  /\ SiblingRevealed(q) =>
              /\ SiblingOf(q) \in NeededBy(S) /\ SiblingOf(q) \in Level(d)
              /\ SiblingOf(q) \div 2 = Index(q) \div 2
         /\ \A z \in NeededBy(S) : z \in Level(d) /\ z \div 2 = Index(q) \div 2 =>
              SiblingRevealed(q) /\ z = SiblingOf(q)
<1> DEFINE x == Index(q)
           y == SiblingOf(q)
<1>0. d \in 0 .. LOG_PARTIES /\ d - 1 \in 0 .. LOG_PARTIES - 1 /\ (d - 1) + 1 = d
  BY TreeAssumption
<1>1. x \in Over(S, d) /\ x \in Level(d) /\ x = At(q, 0) /\ x \in Nat BY <1>0, Front
<1>2. /\ NoSibling(q) <=> x % 2 = 0 /\ x = Last(d)
      /\ SiblingQueued(q) <=> x % 2 = 0 /\ x + 1 \in Over(S, d)
      /\ Taken(q) = (IF SiblingQueued(q) THEN 2 ELSE 1)
  BY <1>0, Siblings
<1>3. /\ First(d) = 2 * First(d - 1) /\ First(d - 1) \in Nat /\ Last(d) \in Nat
      /\ First(d) <= x /\ x <= Last(d)
  BY <1>0, <1>1, LevelStep, LevelBounds DEF Level
<1>4. \A v \in Over(S, d) : v \div 2 = x \div 2 => \E k \in 0 .. Taken(q) - 1 : v = At(q, k)
  BY <1>0, Left
<1>5. y = IF x % 2 = 0 THEN x + 1 ELSE x - 1 BY DEF SiblingOf, IsLeftChild
<1>6. SiblingRevealed(q) <=> ~NoSibling(q) /\ ~SiblingQueued(q) BY DEF SiblingRevealed
<1> HIDE DEF x, y
<1>7. ASSUME SiblingRevealed(q) PROVE y \in NeededBy(S) /\ y \in Level(d) /\ y \div 2 = x \div 2
  <2>1. y \in Level(d) /\ y \div 2 = x \div 2 /\ y # x
    <3>1. CASE x % 2 = 0
      <4>1. y = x + 1 /\ x < Last(d) BY <1>2, <1>3, <1>5, <1>6, <1>7, <3>1, <1>1
      <4>2. y \in First(d) .. Last(d) /\ y \div 2 = x \div 2 /\ y # x
        BY <1>1, <1>3, <3>1, <4>1
      <4> QED BY <4>2 DEF Level
    <3>2. CASE x % 2 # 0
      <4>1. y = x - 1 BY <1>5, <3>2
      <4>2. y \in First(d) .. Last(d) /\ y \div 2 = x \div 2 /\ y # x
        BY <1>1, <1>3, <3>2, <4>1
      <4> QED BY <4>2 DEF Level
    <3> QED BY <3>1, <3>2
  <2>2. y \notin Over(S, d)
    <3> SUFFICES ASSUME y \in Over(S, d) PROVE FALSE OBVIOUS
    <3>1. PICK k \in 0 .. Taken(q) - 1 : y = At(q, k) BY <1>4, <2>1
    <3>2. k = 0 BY <1>2, <1>6, <1>7, <3>1
    <3> QED BY <1>1, <2>1, <3>1, <3>2
  <2>3. y \in NeededBy(S) BY <1>1, <2>1, <2>2, NeededNodes
  <2> QED BY <2>1, <2>3
<1>8. ASSUME NEW z \in NeededBy(S), z \in Level(d), z \div 2 = x \div 2
      PROVE  SiblingRevealed(q) /\ z = y
  <2>1. z \notin Over(S, d) BY <1>0, <1>8, NeededAt
  <2>2. z \in Nat /\ z <= Last(d) BY <1>0, <1>3, <1>8, DepthOf DEF Level
  <2>3. z # x BY <1>1, <2>1
  <2>4. CASE x % 2 = 0
    <3>1. z = x + 1 BY <1>1, <1>8, <2>2, <2>3, <2>4
    <3>2. ~NoSibling(q) BY <1>1, <1>2, <1>3, <2>2, <3>1
    <3>3. ~SiblingQueued(q) BY <1>2, <2>1, <3>1
    <3> QED BY <1>5, <1>6, <2>4, <3>1, <3>2, <3>3
  <2>5. CASE x % 2 # 0
    <3>1. z = x - 1 BY <1>1, <1>8, <2>2, <2>3, <2>5
    <3> QED BY <1>2, <1>5, <1>6, <2>5, <3>1
  <2> QED BY <2>4, <2>5
<1> QED BY <1>7, <1>8 DEF x, y

\* The sibling comes after all nodes found before, and before all others.
LEMMA SiblingIsNext ==
  ASSUME NEW S \in SUBSET Level(LOG_PARTIES), NEW q \in Queues, NEW d \in 1 .. LOG_PARTIES,
         NEW n \in 1 .. REVEALED, NEW m \in 1 .. n, WalkAt(q, S, d, n, m), SiblingRevealed(q)
  PROVE  /\ SiblingOf(q) \in NeededBy(S) \ PathBefore(S, d, Index(q))
         /\ \A z \in PathBefore(S, d, Index(q)) : Precedes(z, SiblingOf(q))
         /\ \A z \in NeededBy(S) \ PathBefore(S, d, Index(q)) :
              z = SiblingOf(q) \/ Precedes(SiblingOf(q), z)
<1> DEFINE x == Index(q)
           y == SiblingOf(q)
<1>0. d \in 0 .. LOG_PARTIES /\ LOG_PARTIES \in Nat BY TreeAssumption
<1>1. /\ y \in NeededBy(S) /\ y \in Level(d) /\ y \div 2 = x \div 2
      /\ \A z \in NeededBy(S) : z \in Level(d) /\ z \div 2 = x \div 2 => z = y
  BY NeededPair
<1>2. x \in Nat BY <1>0, Front
<1>3. y \in Nat /\ Depth(y) = d /\ \A l \in 0 .. LOG_PARTIES : y \in Level(l) => l = d
  BY <1>0, <1>1, DepthOf
<1> HIDE DEF x, y
<1>4. y \notin PathBefore(S, d, x)
  <2>1. \A l \in d + 1 .. LOG_PARTIES : l \in 0 .. LOG_PARTIES /\ l # d BY <1>0
  <2>2. ~(y \div 2 < x \div 2) BY <1>1, <1>2
  <2> QED BY <1>3, <2>1, <2>2 DEF PathBefore
<1>5. ASSUME NEW z \in PathBefore(S, d, x) PROVE Precedes(z, y)
  <2>1. CASE \E l \in d + 1 .. LOG_PARTIES : z \in Level(l)
    <3>1. PICK l \in d + 1 .. LOG_PARTIES : z \in Level(l) BY <2>1
    <3>2. l \in 0 .. LOG_PARTIES /\ l > d BY <1>0
    <3>3. Depth(z) = l BY <3>1, <3>2, DepthOf
    <3> QED BY <1>3, <3>2, <3>3 DEF Precedes
  <2>2. CASE z \in Level(d) /\ z \div 2 < x \div 2
    <3>1. Depth(z) = d /\ z \in Nat BY <1>0, <2>2, DepthOf
    <3>2. z < y BY <1>1, <1>2, <1>3, <2>2, <3>1
    <3> QED BY <1>3, <3>1, <3>2 DEF Precedes
  <2> QED BY <2>1, <2>2 DEF PathBefore
<1>6. ASSUME NEW z \in NeededBy(S) \ PathBefore(S, d, x), z # y PROVE Precedes(y, z)
  <2>1. PICK l \in 1 .. LOG_PARTIES : z \in Level(l) BY NeededAt
  <2>2. l \in 0 .. LOG_PARTIES /\ l \in Nat OBVIOUS
  <2>3. Depth(z) = l /\ z \in Nat BY <2>1, <2>2, DepthOf
  <2>4. ~(l > d)
    <3> SUFFICES ASSUME l > d PROVE FALSE OBVIOUS
    <3>1. l \in d + 1 .. LOG_PARTIES BY <1>0
    <3> QED BY <1>6, <2>1, <3>1 DEF PathBefore
  <2>5. CASE l = d
    <3>1. ~(z \div 2 < x \div 2) BY <1>6, <2>1, <2>5 DEF PathBefore
    <3>2. z \div 2 # x \div 2 BY <1>1, <1>6, <2>1, <2>5
    <3>3. y < z BY <1>1, <1>2, <1>3, <2>3, <3>1, <3>2
    <3> QED BY <1>3, <2>3, <2>5, <3>3 DEF Precedes
  <2>6. CASE l < d BY <1>3, <2>3, <2>6 DEF Precedes
  <2> QED BY <1>0, <2>2, <2>4, <2>5, <2>6
<1> QED BY <1>1, <1>4, <1>5, <1>6 DEF x, y

\* A step is a step of the walk, and finds no node of the path but the sibling.
LEMMA WalkStep ==
  ASSUME NEW S \in SUBSET Level(LOG_PARTIES), NEW q \in Queues, NEW d \in 1 .. LOG_PARTIES,
         NEW n \in 1 .. REVEALED, NEW m \in 1 .. n, WalkAt(q, S, d, n, m)
  PROVE  \E l \in 0 .. LOG_PARTIES, k \in 1 .. n - Taken(q) + 1 :
           /\ WalkAt(Step(q), S, l, n - Taken(q) + 1, k)
           /\ PathBefore(S, l, Index(Step(q)))
                = PathBefore(S, d, Index(q))
                    \union (IF SiblingRevealed(q) THEN {SiblingOf(q)} ELSE {})
<1> DEFINE x == Index(q)
           r == Step(q)
           c == Taken(q)
           more == IF SiblingRevealed(q) THEN {SiblingOf(q)} ELSE {}
<1>0. /\ d \in 0 .. LOG_PARTIES /\ LOG_PARTIES \in Nat /\ REVEALED \in Nat
      /\ d - 1 \in 0 .. LOG_PARTIES
  BY TreeAssumption, TopAndBottom
<1>1. x \in Nat BY <1>0, Front
<1>2. /\ \A z \in more : z \in NeededBy(S) /\ z \in Level(d) /\ z \div 2 = x \div 2
      /\ \A z \in NeededBy(S) : z \in Level(d) /\ z \div 2 = x \div 2 => z \in more
  BY NeededPair
<1>3. ParentsAt(S, q, d, n, m, c, r) BY <1>0, Parents
<1>4. c \in 1 .. m BY <1>3 DEF ParentsAt
<1>5. \A z \in NeededBy(S) : z \in Level(d) => z \in Nat /\ \E y \in Over(S, d) : y \div 2 = z \div 2
  BY <1>0, NeededAt, DepthOf
<1>6. CASE c < m
  <2> DEFINE v == Index(r)
  <2>1. WalkAt(r, S, d, n - c + 1, m - c) BY <1>0, <1>6, StepAlong
  <2>2. v = At(q, c) /\ c \in c .. m - 1 BY <1>0, <1>4, <1>6, StepAlong
  <2>3. x \div 2 < v \div 2 /\ x < v
    <3>1. \A k \in c .. m - 1 : x < At(q, k) /\ x \div 2 < At(q, k) \div 2 BY <1>0, Left
    <3> HIDE DEF v, r, c, x
    <3> QED BY <2>2, <3>1
  <2>4. v \in Nat BY <1>3, CellsOf, <1>0 DEF ParentsAt
  <2>5. \A y \in Over(S, d) : y < v => y \div 2 <= x \div 2
    <3>1. \A y \in Over(S, d) : y < v => \E k \in m - c .. (n - c + 1) - 1 : At(r, k) = y \div 2
      BY <2>1 DEF WalkAt
    <3>2. \A k \in m - c .. n - c : At(r, k) <= x \div 2 BY <1>3 DEF ParentsAt
    <3>3. (n - c + 1) - 1 = n - c BY <1>0, <1>4
    <3> QED BY <3>1, <3>2, <3>3
  <2>6. \A y \in Over(S, d) : y \in Nat
    <3>1. Over(S, d) \subseteq Level(d) BY <1>0, OverLevel
    <3> QED BY <1>0, <3>1, DepthOf
  <2>7. m - c \in 1 .. n - c + 1 BY <1>0, <1>4, <1>6
  <2> HIDE DEF v, r, c, x, more
  <2>8. ASSUME NEW z \in NeededBy(S), z \in Level(d)
        PROVE  z \div 2 < v \div 2 <=> z \div 2 < x \div 2 \/ z \in more
    <3>1. PICK y \in Over(S, d) : y \div 2 = z \div 2 BY <1>5, <2>8
    <3>2. y \in Nat /\ z \in Nat BY <1>5, <2>6, <2>8
    <3>3. z \div 2 < v \div 2 => z \div 2 <= x \div 2
      <4> SUFFICES ASSUME z \div 2 < v \div 2 PROVE z \div 2 <= x \div 2 OBVIOUS
      <4>1. y < v BY <2>4, <3>1, <3>2
      <4> QED BY <2>5, <3>1, <4>1
    <3> QED BY <1>1, <1>2, <2>3, <2>4, <2>8, <3>2, <3>3
  <2>9. PathBefore(S, d, v) = PathBefore(S, d, x) \union more
    <3>1. \A z \in NeededBy(S) : z \in PathBefore(S, d, v) <=> z \in PathBefore(S, d, x) \/ z \in more
      BY <1>2, <2>8 DEF PathBefore
    <3>2. \A z \in more : z \in NeededBy(S) BY <1>2
    <3> QED BY <3>1, <3>2 DEF PathBefore
  <2>10. \E l \in 0 .. LOG_PARTIES, k \in 1 .. n - c + 1 :
           WalkAt(r, S, l, n - c + 1, k) /\ PathBefore(S, l, v) = PathBefore(S, d, x) \union more
    BY <1>0, <2>1, <2>7, <2>9
  <2> QED BY <2>10 DEF v, r, c, x, more
<1>7. CASE c = m
  <2> DEFINE v == Index(r)
  <2>1. /\ WalkAt(r, S, d - 1, n - m + 1, n - m + 1)
        /\ \A y \in Over(S, d) : y \div 2 <= x \div 2
        /\ \A y \in Over(S, d - 1) : y >= v
    BY <1>7, StepUp
  <2>2. v \in Nat BY <1>3, CellsOf, <1>0 DEF ParentsAt
  <2>3. n - c + 1 \in 1 .. n - c + 1 BY <1>0, <1>4
  <2> HIDE DEF v, r, c, x, more
  <2>4. ASSUME NEW z \in NeededBy(S) PROVE ~(z \in Level(d - 1) /\ z \div 2 < v \div 2)
    <3> SUFFICES ASSUME z \in Level(d - 1), z \div 2 < v \div 2 PROVE FALSE OBVIOUS
    <3>1. PICK y \in Over(S, d - 1) : y \div 2 = z \div 2 BY <1>0, NeededAt
    <3>2. Over(S, d - 1) \subseteq Level(d - 1) BY <1>0, OverLevel
    <3>3. y \in Nat BY <1>0, <3>2, DepthOf
    <3> QED BY <2>1, <2>2, <3>1, <3>3
  <2>5. ASSUME NEW z \in NeededBy(S)
        PROVE  z \in Level(d) => z \div 2 < x \div 2 \/ z \in more
    <3> SUFFICES ASSUME z \in Level(d) PROVE z \div 2 < x \div 2 \/ z \in more OBVIOUS
    <3>1. PICK y \in Over(S, d) : y \div 2 = z \div 2 BY <1>5
    <3>2. z \div 2 <= x \div 2 /\ z \in Nat BY <1>5, <2>1, <3>1
    <3> QED BY <1>1, <1>2, <3>2
  <2>6. ASSUME NEW z
        PROVE  (\E l \in (d - 1) + 1 .. LOG_PARTIES : z \in Level(l))
                 <=> z \in Level(d) \/ \E l \in d + 1 .. LOG_PARTIES : z \in Level(l)
    BY <1>0
  <2>7. PathBefore(S, d - 1, v) = PathBefore(S, d, x) \union more
    <3>1. \A z \in NeededBy(S) : z \in PathBefore(S, d - 1, v) <=> z \in PathBefore(S, d, x) \/ z \in more
      BY <1>2, <2>4, <2>5, <2>6 DEF PathBefore
    <3>2. \A z \in more : z \in NeededBy(S) BY <1>2
    <3> QED BY <3>1, <3>2 DEF PathBefore
  <2>8. WalkAt(r, S, d - 1, n - c + 1, n - c + 1) BY <1>7, <2>1
  <2>9. \E l \in 0 .. LOG_PARTIES, k \in 1 .. n - c + 1 :
           WalkAt(r, S, l, n - c + 1, k) /\ PathBefore(S, l, v) = PathBefore(S, d, x) \union more
    BY <1>0, <2>3, <2>7, <2>8
  <2> QED BY <2>9 DEF v, r, c, x, more
<1> QED BY <1>0, <1>4, <1>6, <1>7

-----------------------------------------------------------------------------
(* The ends of a walk *)

LEMMA OpenedLeaves ==
  ASSUME NEW views, \A c \in 1 .. REVEALED : views[c] \in Parties
  PROVE  OpenedBy(views) \in SUBSET Level(LOG_PARTIES)
<1>1. ASSUME NEW c \in 1 .. REVEALED PROVE FirstLeaf + views[c] \in Level(LOG_PARTIES)
  <2>1. views[c] \in 0 .. PARTIES - 1 BY DEF Parties
  <2> QED BY <2>1, TopAndBottom DEF Level
<1> QED BY <1>1 DEF OpenedBy

\* A walk starts with the leaves and without a node of the path.
LEMMA StartOfWalk ==
  ASSUME NEW views, \A c \in 1 .. REVEALED : views[c] \in Parties, Sorted(views)
  PROVE  /\ NewQueue(views) \in Queues
         /\ \A k \in 0 .. REVEALED - 1 : /\ Cell(NewQueue(views), k) = k
                                         /\ At(NewQueue(views), k) = FirstLeaf + views[k + 1]
         /\ WalkAt(NewQueue(views), OpenedBy(views), LOG_PARTIES, REVEALED, REVEALED)
         /\ PathBefore(OpenedBy(views), LOG_PARTIES, Index(NewQueue(views))) = {}
<1> DEFINE q == NewQueue(views)
           S == OpenedBy(views)
<1>0. /\ LOG_PARTIES \in Nat /\ LOG_PARTIES \in 0 .. LOG_PARTIES /\ REVEALED \in Nat \ {0}
      /\ FirstLeaf \in Nat /\ LastLeaf \in Nat
  BY TreeAssumption, TopAndBottom
<1>1. \A k \in 0 .. REVEALED - 1 : views[k + 1] \in 0 .. PARTIES - 1 /\ views[k + 1] \in Nat
  <2>1. \A k \in 0 .. REVEALED - 1 : k + 1 \in 1 .. REVEALED BY <1>0
  <2> QED BY <2>1, TopAndBottom DEF Parties
<1>2. /\ q.index = [c \in Cells |-> FirstLeaf + views[c + 1]]
      /\ q.start = 0 /\ q.stop = 0 /\ q.first = FirstLeaf /\ q.last = LastLeaf
  BY DEF NewQueue
<1>3. q \in Queues
  <2>1. 0 \in Cells BY <1>0 DEF Cells
  <2>2. [c \in Cells |-> FirstLeaf + views[c + 1]] \in [Cells -> Nat] BY <1>0, <1>1 DEF Cells
  <2> QED BY <1>0, <2>1, <2>2 DEF Queues, NewQueue
<1>4. S \in SUBSET Level(LOG_PARTIES) BY OpenedLeaves
<1>5. Over(S, LOG_PARTIES) = S BY <1>4, OverLeaves
<1> HIDE DEF q
<1>6. \A k \in 0 .. REVEALED - 1 : Cell(q, k) = k /\ At(q, k) = FirstLeaf + views[k + 1]
  BY <1>0, <1>2 DEF Cell, At, Cells
<1>7. S = {At(q, k) : k \in 0 .. REVEALED - 1}
  <2>1. \A c \in 1 .. REVEALED : c - 1 \in 0 .. REVEALED - 1 /\ (c - 1) + 1 = c BY <1>0
  <2>2. \A k \in 0 .. REVEALED - 1 : k + 1 \in 1 .. REVEALED BY <1>0
  <2> QED BY <1>6, <2>1, <2>2 DEF OpenedBy
<1> HIDE DEF S
<1>8. \A j, k \in 0 .. REVEALED - 1 : j < k => At(q, j) < At(q, k)
  <2> SUFFICES ASSUME NEW j \in 0 .. REVEALED - 1, NEW k \in 0 .. REVEALED - 1, j < k
               PROVE  At(q, j) < At(q, k)
    OBVIOUS
  <2>1. j + 1 \in 1 .. REVEALED /\ k + 1 \in 1 .. REVEALED /\ j + 1 < k + 1 BY <1>0
  <2>2. views[j + 1] < views[k + 1] BY <2>1 DEF Sorted
  <2> QED BY <1>0, <1>1, <1>6, <2>2
<1>9. Index(q) = At(q, 0) /\ 0 \in 0 .. REVEALED - 1 BY <1>0, <1>3, CellsOf
<1>10. \A k \in 0 .. REVEALED - 1 : At(q, k) \in Nat BY <1>0, <1>1, <1>6
<1>11. \A y \in S : y \in Nat /\ y >= Index(q)
  <2> SUFFICES ASSUME NEW k \in 0 .. REVEALED - 1
               PROVE  At(q, k) \in Nat /\ At(q, k) >= Index(q)
    BY <1>7
  <2>1. CASE k = 0 BY <1>9, <1>10, <2>1
  <2>2. CASE 0 < k BY <1>8, <1>9, <1>10, <2>2
  <2> QED BY <2>1, <2>2
<1>12. q.stop = Cell(q, REVEALED) BY <1>0, <1>2 DEF Cell
<1>13. BoundsOf(q, LOG_PARTIES) BY <1>2, TopAndBottom DEF BoundsOf
<1>14. WalkAt(q, S, LOG_PARTIES, REVEALED, REVEALED)
  <2>1. \A k \in REVEALED .. REVEALED - 1 : FALSE BY <1>0
  <2>2. \A y \in S : ~(y < Index(q)) BY <1>9, <1>10, <1>11
  <2>3. \A y \in S : \E k \in 0 .. REVEALED - 1 : y = At(q, k) BY <1>7
  <2>4. \A k \in 0 .. REVEALED - 1 : At(q, k) \in S BY <1>7
  <2> QED BY <1>5, <1>8, <1>12, <1>13, <2>1, <2>2, <2>3, <2>4 DEF WalkAt
<1>15. PathBefore(S, LOG_PARTIES, Index(q)) = {}
  <2> SUFFICES ASSUME NEW z \in PathBefore(S, LOG_PARTIES, Index(q)) PROVE FALSE OBVIOUS
  <2>1. \A l \in LOG_PARTIES + 1 .. LOG_PARTIES : FALSE BY <1>0
  <2>2. z \in NeededBy(S) /\ z \in Level(LOG_PARTIES) /\ z \div 2 < Index(q) \div 2
    BY <2>1 DEF PathBefore
  <2>3. PICK y \in S : y \div 2 = z \div 2 BY <1>0, <1>4, <1>5, <2>2, NeededAt
  <2> QED BY <1>9, <1>10, <1>11, <2>2, <2>3
<1> QED BY <1>3, <1>6, <1>14, <1>15 DEF q, S

\* A walk ends with the root alone, when all nodes of the path are found.
LEMMA EndOfWalk ==
  ASSUME NEW S \in SUBSET Level(LOG_PARTIES), NEW q \in Queues, NEW d \in 0 .. LOG_PARTIES,
         NEW n \in 1 .. REVEALED, NEW m \in 1 .. n, WalkAt(q, S, d, n, m), AtRoot(q)
  PROVE  d = 0 /\ n = 1 /\ PathBefore(S, d, Index(q)) = NeededBy(S)
<1>1. d = 0 BY Front
<1>2. Index(q) = 1 /\ LOG_PARTIES \in Nat BY TreeAssumption DEF AtRoot
<1>3. Over(S, 0) \subseteq {1}
  <2>1. 0 \in 0 .. LOG_PARTIES BY <1>2
  <2>2. Over(S, 0) \subseteq Level(0) BY <2>1, OverLevel
  <2>3. First(0) = 1 /\ Last(0) \in Nat /\ Last(0) < 2 * First(0)
    BY <2>1, LevelBounds, TopAndBottom
  <2> QED BY <2>2, <2>3 DEF Level
<1>4. m = 1
  <2> SUFFICES ASSUME m # 1 PROVE FALSE OBVIOUS
  <2>1. 0 \in 0 .. m - 1 /\ 1 \in 0 .. m - 1 BY TreeAssumption
  <2>2. At(q, 0) < At(q, 1) /\ At(q, 0) \in Over(S, 0) /\ At(q, 1) \in Over(S, 0)
    BY <1>1, <2>1 DEF WalkAt
  <2> QED BY <1>3, <2>2
<1>5. n = 1
  <2> SUFFICES ASSUME n # 1 PROVE FALSE OBVIOUS
  <2>1. 1 \in m .. n - 1 BY <1>4, TreeAssumption
  <2>2. \E y \in Over(S, 0) : y < 1 BY <1>1, <1>2, <2>1 DEF WalkAt
  <2> QED BY <1>3, <2>2
<1>6. PathBefore(S, 0, 1) = NeededBy(S)
  <2>1. \A z \in NeededBy(S) : \E l \in 0 + 1 .. LOG_PARTIES : z \in Level(l) BY NeededAt
  <2> QED BY <2>1 DEF PathBefore
<1> QED BY <1>1, <1>2, <1>5, <1>6

\* Pending, as the invariant sees it.
LEMMA PendingNodes ==
  ASSUME queue \in Queues, NEW n \in 1 .. REVEALED, queue.stop = Cell(queue, n)
  PROVE  Pending = [k \in 1 .. n |-> At(queue, k - 1)]
<1> DEFINE s == queue.start
           t == queue.stop
<1>1. REVEALED \in Nat \ {0} /\ s \in 0 .. REVEALED - 1 /\ t \in 0 .. REVEALED - 1
  BY TreeAssumption, TopAndBottom DEF Queues, Cells
<1>2. t = IF s + n < REVEALED THEN s + n ELSE s + n - REVEALED BY DEF Cell
<1>3. n = IF s < t THEN t - s ELSE t - s + REVEALED BY <1>1, <1>2
<1> QED BY <1>3 DEF Pending

LEMMA QueueInOrder ==
  ASSUME NEW S \in SUBSET Level(LOG_PARTIES), queue \in Queues, NEW d \in 0 .. LOG_PARTIES,
         NEW n \in 1 .. REVEALED, NEW m \in 1 .. n, WalkAt(queue, S, d, n, m)
  PROVE  /\ \A j, k \in DOMAIN Pending : j < k =>
              \/ Depth(Pending[j]) = Depth(Pending[k]) /\ Pending[j] < Pending[k]
              \/ Depth(Pending[j]) = Depth(Pending[k]) + 1
         /\ \A leaf \in S : \E j \in DOMAIN Pending :
              /\ Pending[j] \in Ancestors(leaf)
              /\ \A k \in DOMAIN Pending : Pending[k] \in Ancestors(leaf) => k = j
<1> DEFINE x == Index(queue)
           a(k) == At(queue, k)
<1>0. /\ LOG_PARTIES \in Nat /\ n \in Nat /\ m \in Nat /\ 1 <= m /\ m <= n BY TreeAssumption, TopAndBottom
<1>1. Pending = [k \in 1 .. n |-> a(k - 1)]
  <2>1. queue.stop = Cell(queue, n) BY DEF WalkAt
  <2> QED BY <2>1, PendingNodes
<1>2. /\ \A k \in 0 .. m - 1 : a(k) \in Over(S, d)
      /\ \A y \in Over(S, d) : y >= x => \E k \in 0 .. m - 1 : y = a(k)
      /\ \A k \in m .. n - 1 : /\ a(k) < x \div 2
                               /\ \E y \in Over(S, d) : y < x /\ a(k) = y \div 2
      /\ \A y \in Over(S, d) : y < x => \E k \in m .. n - 1 : a(k) = y \div 2
      /\ \A j, k \in 0 .. m - 1 : j < k => a(j) < a(k)
      /\ \A j, k \in m .. n - 1 : j < k => a(j) < a(k)
  BY DEF WalkAt
<1>3. x \in Nat /\ x = a(0) BY Front
<1>4. \A y \in Over(S, d) : y \in Level(d) /\ y \in Nat
  <2>1. Over(S, d) \subseteq Level(d) BY OverLevel
  <2> QED BY <2>1, DepthOf
<1>5. ASSUME NEW k \in m .. n - 1 PROVE d # 0 /\ d - 1 \in 0 .. LOG_PARTIES /\ a(k) \in Level(d - 1)
  <2>1. PICK y \in Over(S, d) : y < x /\ a(k) = y \div 2 BY <1>2
  <2>2. d # 0
    <3> SUFFICES ASSUME d = 0 PROVE FALSE OBVIOUS
    <3>1. First(0) = 1 /\ Last(0) \in Nat /\ Last(0) < 2 * First(0)
      BY <1>0, LevelBounds, TopAndBottom
    <3>2. x \in Over(S, d) BY Front
    <3> QED BY <1>4, <2>1, <3>1, <3>2 DEF Level
  <2>3. d \in 1 .. LOG_PARTIES /\ d - 1 \in 0 .. LOG_PARTIES BY <1>0, <2>2
  <2> QED BY <1>4, <2>1, <2>2, <2>3, ParentOf
<1> HIDE DEF x, a
<1>6. \A k \in 0 .. m - 1 : Depth(a(k)) = d /\ a(k) \in Level(d) /\ a(k) \in Nat
  BY <1>2, <1>4, DepthOf
<1>7. \A k \in m .. n - 1 : Depth(a(k)) = d - 1 /\ a(k) \in Nat BY <1>5, DepthOf
<1>8. ASSUME NEW j \in 0 .. n - 1, NEW k \in 0 .. n - 1, j < k
      PROVE  \/ Depth(a(j)) = Depth(a(k)) /\ a(j) < a(k)
             \/ Depth(a(j)) = Depth(a(k)) + 1
  <2>1. CASE k \in 0 .. m - 1
    <3>1. j \in 0 .. m - 1 BY <1>0, <1>8, <2>1
    <3> QED BY <1>2, <1>6, <1>8, <2>1, <3>1
  <2>2. CASE j \in m .. n - 1
    <3>1. k \in m .. n - 1 BY <1>0, <1>8, <2>2
    <3> QED BY <1>2, <1>7, <1>8, <2>2, <3>1
  <2>3. CASE j \in 0 .. m - 1 /\ k \in m .. n - 1
    <3>1. d = (d - 1) + 1 BY <1>0
    <3> QED BY <1>6, <1>7, <2>3, <3>1
  <2> QED BY <1>0, <2>1, <2>2, <2>3
<1>9. ASSUME NEW leaf \in S
      PROVE  \E j \in 0 .. n - 1 : /\ a(j) \in Ancestors(leaf)
                                   /\ \A k \in 0 .. n - 1 : a(k) \in Ancestors(leaf) => k = j
  <2> DEFINE y == leaf \div 2 ^ (LOG_PARTIES - d)
  <2>1. y \in Over(S, d) /\ y \in Nat BY <1>4 DEF Over
  <2>2. \A k \in 0 .. m - 1 : a(k) \in Ancestors(leaf) <=> a(k) = y
    BY <1>6, AncestorOf
  <2>3. \A k \in m .. n - 1 : a(k) \in Ancestors(leaf) <=> a(k) = y \div 2
    <3> SUFFICES ASSUME NEW k \in m .. n - 1 PROVE a(k) \in Ancestors(leaf) <=> a(k) = y \div 2
      OBVIOUS
    <3>1. a(k) \in Level(d - 1) /\ d # 0 /\ d - 1 \in 0 .. LOG_PARTIES BY <1>5
    <3>2. a(k) \in Ancestors(leaf) <=> a(k) = leaf \div 2 ^ (LOG_PARTIES - (d - 1))
      BY <3>1, AncestorOf
    <3> DEFINE t == LOG_PARTIES - d
    <3>3. t \in Nat /\ LOG_PARTIES - (d - 1) = t + 1 BY <1>0
    <3>4. 2 ^ t \in Nat \ {0} /\ 2 ^ (t + 1) = 2 * 2 ^ t BY <3>3, PowerOfTwo
    <3>5. leaf \in Nat BY <1>0, DepthOf
    <3>6. leaf \div (2 * 2 ^ t) = (leaf \div 2 ^ t) \div 2 BY <3>4, <3>5, TwiceDivided
    <3> QED BY <3>2, <3>3, <3>4, <3>6
  <2> HIDE DEF y
  <2>4. CASE y >= x
    <3>1. PICK j \in 0 .. m - 1 : y = a(j) BY <1>2, <2>1, <2>4
    <3>2. a(j) \in Ancestors(leaf) /\ j \in 0 .. n - 1 BY <1>0, <2>2, <3>1
    <3>3. ASSUME NEW k \in 0 .. n - 1, a(k) \in Ancestors(leaf) PROVE k = j
      <4>1. CASE k \in 0 .. m - 1
        <5>1. a(k) = a(j) BY <2>2, <3>1, <3>3, <4>1
        <5>2. ~(k < j) /\ ~(j < k) BY <1>2, <1>6, <3>1, <4>1, <5>1
        <5> QED BY <5>2
      <4>2. CASE k \in m .. n - 1
        <5>1. a(k) = y \div 2 /\ a(k) < x \div 2 BY <1>2, <2>3, <3>3, <4>2
        <5> QED BY <1>3, <2>1, <2>4, <5>1
      <4> QED BY <1>0, <4>1, <4>2
    <3> QED BY <3>2, <3>3
  <2>5. CASE y < x
    <3>1. PICK j \in m .. n - 1 : a(j) = y \div 2 BY <1>2, <2>1, <2>5
    <3>2. a(j) \in Ancestors(leaf) /\ j \in 0 .. n - 1 BY <1>0, <2>3, <3>1
    <3>3. ASSUME NEW k \in 0 .. n - 1, a(k) \in Ancestors(leaf) PROVE k = j
      <4>1. CASE k \in 0 .. m - 1
        <5>1. a(k) = y BY <2>2, <3>3, <4>1
        <5>2. 0 \in 0 .. m - 1 BY <1>0
        <5>3. k = 0 \/ 0 < k BY <4>1
        <5>4. a(0) <= a(k) BY <1>2, <1>6, <4>1, <5>2, <5>3
        <5> QED BY <1>3, <2>1, <2>5, <5>1, <5>4
      <4>2. CASE k \in m .. n - 1
        <5>1. a(k) = a(j) BY <2>3, <3>1, <3>3, <4>2
        <5>2. ~(k < j) /\ ~(j < k) BY <1>2, <1>7, <3>1, <4>2, <5>1
        <5> QED BY <5>2
      <4> QED BY <1>0, <4>1, <4>2
    <3> QED BY <3>2, <3>3
  <2> QED BY <1>3, <2>1, <2>4, <2>5
<1>10. ASSUME NEW j \in 1 .. n, NEW k \in 1 .. n, j < k
       PROVE  \/ Depth(Pending[j]) = Depth(Pending[k]) /\ Pending[j] < Pending[k]
              \/ Depth(Pending[j]) = Depth(Pending[k]) + 1
  <2>1. j - 1 \in 0 .. n - 1 /\ k - 1 \in 0 .. n - 1 /\ j - 1 < k - 1 BY <1>0, <1>10
  <2>2. Pending[j] = a(j - 1) /\ Pending[k] = a(k - 1) BY <1>1
  <2>3. \/ Depth(a(j - 1)) = Depth(a(k - 1)) /\ a(j - 1) < a(k - 1)
        \/ Depth(a(j - 1)) = Depth(a(k - 1)) + 1
    BY <1>8, <2>1
  <2> QED BY <2>2, <2>3
<1>11. ASSUME NEW leaf \in S
       PROVE  \E j \in 1 .. n : /\ Pending[j] \in Ancestors(leaf)
                                /\ \A k \in 1 .. n : Pending[k] \in Ancestors(leaf) => k = j
  <2>1. PICK j \in 0 .. n - 1 : /\ a(j) \in Ancestors(leaf)
                                /\ \A k \in 0 .. n - 1 : a(k) \in Ancestors(leaf) => k = j
    BY <1>9
  <2>2. j + 1 \in 1 .. n /\ Pending[j + 1] = a(j) BY <1>0, <1>1
  <2>3. ASSUME NEW k \in 1 .. n, Pending[k] \in Ancestors(leaf) PROVE k = j + 1
    <3>1. k - 1 \in 0 .. n - 1 /\ Pending[k] = a(k - 1) BY <1>0, <1>1
    <3>2. k - 1 = j BY <2>1, <2>3, <3>1
    <3> QED BY <1>0, <3>2
  <2> QED BY <2>1, <2>2, <2>3
<1>12. DOMAIN Pending = 1 .. n BY <1>1
<1> QED BY <1>10, <1>11, <1>12

-----------------------------------------------------------------------------
(* Paths *)

LEMMA PrecedesOrder ==
  ASSUME NEW S \in SUBSET Level(LOG_PARTIES)
  PROVE  /\ NeededBy(S) \subseteq TreeNodes
         /\ \A y, z \in NeededBy(S) : ~(Precedes(y, z) /\ Precedes(z, y))
         /\ \A z \in NeededBy(S) : ~Precedes(z, z)
<1>1. \A z \in NeededBy(S) : z \in Nat /\ Depth(z) \in Nat
  <2> SUFFICES ASSUME NEW z \in NeededBy(S) PROVE z \in Nat /\ Depth(z) \in Nat OBVIOUS
  <2>1. PICK d \in 1 .. LOG_PARTIES : z \in Level(d) BY NeededAt
  <2>2. d \in 0 .. LOG_PARTIES /\ d \in Nat OBVIOUS
  <2> QED BY <2>1, <2>2, DepthOf
<1> QED BY <1>1 DEF Precedes, NeededBy

\* A path has as many nodes as it has to hold.
LEMMA PathLength ==
  ASSUME NEW S \in SUBSET Level(LOG_PARTIES), NEW k \in Nat, NEW s \in [1 .. k -> NeededBy(S)],
         InOrder(s), \A z \in NeededBy(S) : \E j \in 1 .. k : s[j] = z
  PROVE  k = Cardinality(NeededBy(S)) /\ Len(s) = k
<1> DEFINE N == NeededBy(S)
<1>1. \A j, l \in 1 .. k : s[j] = s[l] => j = l
  <2> SUFFICES ASSUME NEW j \in 1 .. k, NEW l \in 1 .. k, s[j] = s[l], j # l PROVE FALSE
    OBVIOUS
  <2>1. s[j] \in N /\ s[l] \in N OBVIOUS
  <2>2. j < l \/ l < j OBVIOUS
  <2>3. Precedes(s[j], s[l]) \/ Precedes(s[l], s[j]) BY <2>2 DEF InOrder
  <2> QED BY <2>1, <2>3, PrecedesOrder
<1> HIDE DEF N
<1>2. s \in Bijection(1 .. k, N)
  <2>1. s \in Injection(1 .. k, N) BY <1>1 DEF Injection, IsInjective, N
  <2>2. s \in Surjection(1 .. k, N) BY DEF Surjection, N
  <2> QED BY <2>1, <2>2 DEF Bijection
<1>3. IsFiniteSet(1 .. k) /\ Cardinality(1 .. k) = k
  <2>1. 1 \in Int /\ k \in Int OBVIOUS
  <2>2. IsFiniteSet(1 .. k) /\ Cardinality(1 .. k) = IF 1 > k THEN 0 ELSE k - 1 + 1
    BY <2>1, FS_Interval
  <2> QED BY <2>2
<1>4. ExistsBijection(1 .. k, N) BY <1>2 DEF ExistsBijection
<1>5. k = Cardinality(N) BY <1>3, <1>4, FS_Bijection
<1>6. s \in Seq(N) /\ Len(s) = k BY DEF N
<1> QED BY <1>5, <1>6 DEF N

LEMMA PathFacts ==
  ASSUME NEW S \in SUBSET Level(LOG_PARTIES), NEW s \in PathsOf(S)
  PROVE  /\ s \in Seq(NeededBy(S)) /\ s \in [1 .. Len(s) -> NeededBy(S)] /\ Len(s) \in Nat
         /\ DOMAIN s = 1 .. Len(s) /\ s \in Seq(TreeNodes)
         /\ Len(s) = Cardinality(NeededBy(S)) /\ Len(s) <= MAX_OPEN_LEAVES /\ InOrder(s)
         /\ \A z \in NeededBy(S) : \E j \in 1 .. Len(s) : s[j] = z
<1>1. PICK k \in 0 .. MAX_OPEN_LEAVES :
        /\ s \in [1 .. k -> NeededBy(S)] /\ InOrder(s)
        /\ \A z \in NeededBy(S) : \E j \in 1 .. k : s[j] = z
  BY DEF PathsOf
<1>2. k \in Nat /\ k <= MAX_OPEN_LEAVES BY SignAssumption
<1>3. k = Cardinality(NeededBy(S)) /\ Len(s) = k BY <1>1, <1>2, PathLength
<1>4. s \in Seq(NeededBy(S)) BY <1>1, <1>2
<1>5. NeededBy(S) \subseteq TreeNodes BY PrecedesOrder
<1>6. s \in [1 .. k -> TreeNodes] BY <1>1, <1>5
<1>7. s \in Seq(TreeNodes) BY <1>2, <1>6
<1> QED BY <1>1, <1>2, <1>3, <1>4, <1>7

\* What the parties of an execution that are opened need, there is room for.
LEMMA RoomForPath ==
  ASSUME PathsFit, NEW x \in Executions, NEW views, Drawn(x, views), DOMAIN views = 1 .. REVEALED,
         Sorted(views), views \in Seq(Parties)
  PROVE  Cardinality(NeededBy(OpenedBy(views))) <= MAX_OPEN_LEAVES
<1>1. views \in [1 .. REVEALED -> Views[x]] BY DEF Drawn
<1> QED BY <1>1 DEF PathsFit, Sorted

\* The next node of a path, once those found before are used.
LEMMA NextOfPath ==
  ASSUME NEW S \in SUBSET Level(LOG_PARTIES), NEW q \in Queues, NEW d \in 1 .. LOG_PARTIES,
         NEW n \in 1 .. REVEALED, NEW m \in 1 .. n, WalkAt(q, S, d, n, m), SiblingRevealed(q),
         NEW s \in PathsOf(S), NEW u \in 0 .. Len(s),
         {s[k] : k \in 1 .. u} = PathBefore(S, d, Index(q))
  PROVE  /\ u < Len(s) /\ s[u + 1] = SiblingOf(q)
         /\ {s[k] : k \in 1 .. u + 1} = PathBefore(S, d, Index(q)) \union {SiblingOf(q)}
<1> DEFINE y == SiblingOf(q)
           B == PathBefore(S, d, Index(q))
<1>1. /\ s \in [1 .. Len(s) -> NeededBy(S)] /\ Len(s) \in Nat /\ DOMAIN s = 1 .. Len(s)
      /\ InOrder(s) /\ \A z \in NeededBy(S) : \E j \in 1 .. Len(s) : s[j] = z
  BY PathFacts
<1>2. y \in NeededBy(S) \ B /\ \A z \in NeededBy(S) \ B : z = y \/ Precedes(y, z)
  BY SiblingIsNext
<1>3. {s[k] : k \in 1 .. u} = B OBVIOUS
<1> HIDE DEF y, B
<1>4. PICK j \in 1 .. Len(s) : s[j] = y BY <1>1, <1>2
<1>5. ~(j \in 1 .. u) BY <1>2, <1>3, <1>4
<1>6. u < Len(s) /\ u + 1 \in 1 .. Len(s) /\ u + 1 <= j BY <1>1, <1>5
<1>7. s[u + 1] \in NeededBy(S) /\ s[u + 1] \notin B
  <2>1. s[u + 1] \in NeededBy(S) BY <1>1, <1>6
  <2>2. \A k \in 1 .. u : s[k] # s[u + 1]
    <3> SUFFICES ASSUME NEW k \in 1 .. u, s[k] = s[u + 1] PROVE FALSE OBVIOUS
    <3>1. k \in 1 .. Len(s) /\ k < u + 1 BY <1>1, <1>6
    <3>2. Precedes(s[k], s[u + 1]) BY <1>1, <1>6, <3>1 DEF InOrder
    <3> QED BY <2>1, <3>2, PrecedesOrder
  <2> QED BY <1>3, <2>1, <2>2
<1>8. s[u + 1] = y
  <2> SUFFICES ASSUME s[u + 1] # y PROVE FALSE OBVIOUS
  <2>1. Precedes(y, s[u + 1]) BY <1>2, <1>7
  <2>2. u + 1 < j BY <1>4, <1>6
  <2>3. Precedes(s[u + 1], y) BY <1>1, <1>4, <1>6, <2>2 DEF InOrder
  <2> QED BY <1>2, <1>7, <2>1, <2>3, PrecedesOrder
<1>9. {s[k] : k \in 1 .. u + 1} = B \union {y}
  <2>1. \A k : k \in 1 .. u + 1 <=> k \in 1 .. u \/ k = u + 1 OBVIOUS
  <2> QED BY <1>3, <1>8, <2>1
<1> QED BY <1>6, <1>8, <1>9 DEF y, B

-----------------------------------------------------------------------------
(* Digests *)

LEMMA HashOf ==
  ASSUME NEW d \in 0 .. LOG_PARTIES - 1, NEW n \in Level(d), NEW x \in Executions,
         NEW a \in {Garbage, <<x, 2 * n>>}, NEW b,
         2 * n + 1 \in Level(d + 1) => b \in {Garbage, <<x, 2 * n + 1>>},
         2 * n + 1 \notin Level(d + 1) => b = NULL
  PROVE  Hash(n, a, b) = IF a = Garbage \/ b = Garbage THEN Garbage ELSE <<x, n>>
<1>1. /\ 2 * n \in Level(d + 1)
      /\ Present(2 * n + 1) <=> 2 * n + 1 \in Level(d + 1)
  BY ChildrenOf
<1>2. /\ d + 1 \in 0 .. LOG_PARTIES /\ 2 * n \in TreeNodes
      /\ 2 * n + 1 \in Level(d + 1) => 2 * n + 1 \in TreeNodes
  <2>1. d + 1 \in 0 .. LOG_PARTIES BY TreeAssumption
  <2>2. \A k \in Level(d + 1) : k \in TreeNodes BY <2>1, DepthOf
  <2> QED BY <1>1, <2>1, <2>2
<1>3. /\ \A y \in Executions : Garbage # <<y, 2 * n>>
      /\ 2 * n + 1 \in Level(d + 1) => \A y \in Executions : Garbage # <<y, 2 * n + 1>>
      /\ Garbage # NULL
  BY <1>2, DigestAssumption DEF TreeNodes
<1>4. CASE a = Garbage BY <1>3, <1>4 DEF Hash
<1>5. CASE a = <<x, 2 * n>>
  <2>1. a # Garbage /\ a[1] = x BY <1>3, <1>5
  <2>2. \A y \in Executions : a = <<y, 2 * n>> => y = x BY <1>5
  <2>3. CASE b = Garbage
    <3>1. \A y \in Executions : a = <<y, 2 * n>> =>
            b # IF Present(2 * n + 1) THEN <<y, 2 * n + 1>> ELSE NULL
      BY <1>1, <1>3, <2>3
    <3> QED BY <2>3, <3>1 DEF Hash
  <2>4. CASE b # Garbage
    <3>1. b = IF Present(2 * n + 1) THEN <<x, 2 * n + 1>> ELSE NULL BY <1>1, <2>4
    <3>2. Hash(n, a, b) = <<a[1], n>> BY <1>5, <3>1 DEF Hash
    <3> QED BY <2>1, <2>4, <3>2
  <2> QED BY <2>3, <2>4
<1> QED BY <1>4, <1>5

LEMMA HashType ==
  ASSUME NEW n \in TreeNodes, NEW a, NEW b
  PROVE  Hash(n, a, b) \in Digests
<1>1. CASE Hash(n, a, b) = Garbage BY <1>1 DEF Digests
<1>2. CASE Hash(n, a, b) # Garbage
  <2>1. PICK x \in Executions : a = <<x, 2 * n>> BY <1>2 DEF Hash
  <2>2. Hash(n, a, b) = <<a[1], n>> BY <1>2 DEF Hash
  <2>3. a[1] = x BY <2>1
  <2> QED BY <2>2, <2>3 DEF Digests
<1> QED BY <1>1, <1>2

LEMMA LeafType ==
  ASSUME NEW x \in Executions, NEW k \in Parties
  PROVE  Leaf(x, k) \in Digests /\ Leaf(x, k) # Garbage
<1>1. FirstLeaf + k \in 1 .. LastLeaf BY TopAndBottom DEF Parties
<1>2. FirstLeaf + k \in 0 .. LastLeaf BY <1>1
<1> QED BY <1>1, <1>2, DigestAssumption DEF Leaf, Digests, TreeNodes

-----------------------------------------------------------------------------
(* The views, once they are drawn and sorted *)

LEMMA OpenedViews ==
  ASSUME TypeOK, ViewsInv
  PROVE  /\ pc \notin {"commit", "build", "draw"} => \A x \in Executions :
              /\ DOMAIN open_views[x] = 1 .. REVEALED
              /\ \A c \in 1 .. REVEALED : open_views[x][c] \in Parties
         /\ pc \notin {"commit", "build", "draw", "sort"} => \A x \in Executions :
              /\ Sorted(open_views[x])
              /\ OpenedBy(open_views[x]) \in SUBSET Level(LOG_PARTIES)
              /\ NewQueue(open_views[x]) \in Queues
<1>1. ASSUME pc \notin {"commit", "build", "draw"}, NEW x \in Executions
      PROVE  /\ DOMAIN open_views[x] = 1 .. REVEALED
             /\ \A c \in 1 .. REVEALED : open_views[x][c] \in Parties
  <2>1. open_views[x] \in Seq(Parties) /\ Len(open_views[x]) = REVEALED
    BY <1>1 DEF TypeOK, ViewsInv
  <2> QED BY <2>1
<1>2. ASSUME pc \notin {"commit", "build", "draw", "sort"}, NEW x \in Executions
      PROVE  /\ Sorted(open_views[x]) /\ OpenedBy(open_views[x]) \in SUBSET Level(LOG_PARTIES)
             /\ NewQueue(open_views[x]) \in Queues
  <2>1. Sorted(open_views[x]) BY <1>2 DEF ViewsInv
  <2>2. \A c \in 1 .. REVEALED : open_views[x][c] \in Parties BY <1>1, <1>2
  <2> QED BY <2>1, <2>2, OpenedLeaves, StartOfWalk
<1> QED BY <1>1, <1>2

LEMMA InitOK == Init => IInv
<1> SUFFICES ASSUME Init PROVE IInv OBVIOUS
<1> USE DEF Init
<1>1. TypeOK
  <2>1. 0 \in Executions BY TreeAssumption DEF Executions
  <2>2. queue \in Queues
    <3>0. REVEALED \in Nat \ {0} /\ FirstLeaf \in Nat /\ LastLeaf \in Nat BY TreeAssumption, TopAndBottom
    <3>1. [c \in Cells |-> FirstLeaf + [b \in 1 .. REVEALED |-> 0][c + 1]] \in [Cells -> Nat]
      <4> SUFFICES ASSUME NEW c \in Cells
                   PROVE  FirstLeaf + [b \in 1 .. REVEALED |-> 0][c + 1] \in Nat
        OBVIOUS
      <4>1. c + 1 \in 1 .. REVEALED BY <3>0 DEF Cells
      <4> QED BY <3>0, <4>1
    <3>2. 0 \in Cells BY <3>0 DEF Cells
    <3> QED BY <3>0, <3>1, <3>2 DEF Queues, NewQueue
  <2>3. Garbage \in Digests BY DEF Digests
  <2>4. <<>> \in Seq(Parties) /\ <<>> \in Seq(TreeNodes) /\ <<>> \in Seq(Digests)
        /\ <<>> \in Seq((Executions \X Parties) \union {Garbage})
    OBVIOUS
  <2> QED BY <2>1, <2>2, <2>3, <2>4 DEF TypeOK
<1>2. CommitInv
  <2>1. PARTIES \in Nat BY TopAndBottom
  <2> QED BY <2>1 DEF CommitInv
<1>3. BuildInv BY DEF BuildInv, Executions
<1>4. ViewsInv
  <2>1. \A x \in Executions : Drawn(x, open_views[x]) BY DEF Drawn
  <2> QED BY <2>1 DEF ViewsInv
<1>5. RevealInv /\ SignatureInv /\ WitInv /\ ParsedInv /\ RecommitInv /\ RootInv /\ RootsInv /\ Accepted
  BY DEF RevealInv, SignatureInv, WitInv, ParsedInv, RecommitInv, RootInv, RootsInv, Accepted
<1>6. FaultInv BY DEF FaultInv
<1> QED BY <1>1, <1>2, <1>3, <1>4, <1>5, <1>6 DEF IInv

-----------------------------------------------------------------------------
(* Commitments and trees *)

\* Until the first walk only the trees and the views matter.
LEMMA EarlyStep ==
  ASSUME IInv, pc \in {"commit", "build", "draw", "sort"}, pc' \in {"commit", "build", "draw", "sort"},
         UNCHANGED <<signature, bytes_required>>
  PROVE  /\ RevealInv' /\ SignatureInv' /\ WitInv' /\ FaultInv' /\ ParsedInv' /\ RecommitInv'
         /\ RootInv' /\ RootsInv' /\ Accepted'
<1>1. FaultInv BY DEF IInv
<1>2. FaultInv' BY <1>1 DEF FaultInv, signature
<1>3. /\ RevealInv' /\ SignatureInv' /\ WitInv' /\ ParsedInv' /\ RecommitInv'
      /\ RootInv' /\ RootsInv' /\ Accepted'
  BY DEF RevealInv, SignatureInv, WitInv, ParsedInv, RecommitInv, RootInv, RootsInv, Accepted
<1> QED BY <1>2, <1>3

\* The views are not drawn before the trees are built.
LEMMA UndrawnStep ==
  ASSUME IInv, pc \in {"commit", "build"}, pc' \in {"commit", "build"}, UNCHANGED drawing
  PROVE  ViewsInv'
BY DEF IInv, ViewsInv, Drawn, drawing

LEMMA CommitOK ==
  ASSUME IInv, pc = "commit", NEW n \in Nat, i + n <= PARTIES, Commit(n)
  PROVE  IInv'
<1>1. TypeOK /\ CommitInv /\ BuildInv BY DEF IInv
<1>2. i \in Nat /\ PARTIES \in Nat /\ e \in Executions BY <1>1, TopAndBottom DEF TypeOK
<1>3. i' = i + n /\ pc' = pc /\ e' = e BY DEF Commit
<1>4. TypeOK'
  <2>1. i' \in Nat BY <1>2, <1>3
  <2>2. share_commitments' \in [Parties -> Digests]
    <3>1. \A k \in Parties : Leaf(e, k) \in Digests BY <1>2, LeafType
    <3> QED BY <1>1, <3>1 DEF TypeOK, Commit
  <2> QED BY <1>1, <2>1, <2>2 DEF TypeOK, Commit, drawing, opening, signature, parsing, checking
<1>5. CommitInv'
  <2>1. i' \in 0 .. PARTIES BY <1>2, <1>3
  <2>2. ASSUME NEW k \in 0 .. i' - 1 PROVE share_commitments'[k] = Leaf(e, k)
    <3>1. k \in Parties BY <1>2, <1>3 DEF Parties
    <3>2. k \in i .. i + n - 1 \/ k \in 0 .. i - 1 BY <1>2, <1>3
    <3>3. \A j \in 0 .. i - 1 : share_commitments[j] = Leaf(e, j) BY <1>1 DEF CommitInv
    <3> QED BY <3>1, <3>2, <3>3 DEF Commit
  <2> QED BY <1>3, <2>1, <2>2 DEF CommitInv
<1>6. BuildInv' BY <1>1, <1>3 DEF BuildInv, Built, Commit
<1>7. ViewsInv' BY <1>3, UndrawnStep DEF Commit
<1>8. /\ RevealInv' /\ SignatureInv' /\ WitInv' /\ FaultInv' /\ ParsedInv' /\ RecommitInv'
      /\ RootInv' /\ RootsInv' /\ Accepted'
  BY <1>3, EarlyStep DEF Commit, parsing
<1> QED BY <1>4, <1>5, <1>6, <1>7, <1>8 DEF IInv

LEMMA PlaceLeavesOK ==
  ASSUME IInv, PlaceLeaves
  PROVE  IInv'
<1> DEFINE l == LOG_PARTIES - 1
<1>1. TypeOK /\ CommitInv /\ BuildInv BY DEF IInv
<1>2. pc = "commit" /\ pc' = "build" /\ e' = e /\ i' = i /\ h' = l /\ e \in Executions
      /\ tree \in [Executions -> [TreeNodes -> Digests]] /\ share_commitments \in [Parties -> Digests]
  BY <1>1 DEF PlaceLeaves, TypeOK
<1>3. /\ l \in 0 .. LOG_PARTIES - 1 /\ l + 1 = LOG_PARTIES /\ l \in Nat /\ l \in 0 .. LOG_PARTIES
      /\ LOG_PARTIES \in Nat
  BY TreeAssumption
<1>4. /\ First(l + 1) = FirstLeaf /\ Last(l + 1) = LastLeaf
      /\ FirstLeaf \in Nat /\ LastLeaf \in Nat /\ LastLeaf = FirstLeaf + PARTIES - 1 /\ PARTIES \in Nat
  BY <1>3, TopAndBottom
<1>5. /\ First(l) \in Nat /\ First(l + 1) = 2 * First(l) /\ Last(l) = Last(l + 1) \div 2
      /\ Last(l) \in Nat /\ First(l) <= Last(l)
  BY <1>3, LevelStep, LevelBounds
<1>6. /\ last_is_isolated' = (Last(l + 1) % 2 = 0) /\ last_is_isolated' \in BOOLEAN
      /\ first_index' = First(l) /\ last_index' = Last(l) /\ parent_index' = First(l)
  <2>1. /\ last_is_isolated' = (LastLeaf % 2 = 0) /\ first_index' = FirstLeaf \div 2
        /\ last_index' = LastLeaf \div 2 /\ parent_index' = FirstLeaf \div 2
    BY DEF PlaceLeaves, BeginLevel
  <2>2. FirstLeaf \div 2 = First(l) /\ LastLeaf \div 2 = Last(l) BY <1>4, <1>5
  <2> HIDE DEF l
  <2> QED BY <1>4, <2>1, <2>2
<1> HIDE DEF l
<1>7. /\ tree' \in [Executions -> [TreeNodes -> Digests]]
      /\ \A x \in Executions : x # e => tree'[x] = tree[x]
      /\ \A n \in TreeNodes : n >= FirstLeaf => tree'[e][n] = share_commitments[n - FirstLeaf]
  <2>1. \A n \in TreeNodes : n >= FirstLeaf => n - FirstLeaf \in Parties
    BY <1>4 DEF TreeNodes, Parties
  <2>2. [n \in TreeNodes |-> IF n >= FirstLeaf THEN share_commitments[n - FirstLeaf] ELSE tree[e][n]]
          \in [TreeNodes -> Digests]
    BY <1>2, <2>1
  <2>3. tree' = [tree EXCEPT ![e] =
          [n \in TreeNodes |-> IF n >= FirstLeaf THEN share_commitments[n - FirstLeaf] ELSE tree[e][n]]]
    BY DEF PlaceLeaves
  <2> QED BY <1>2, <2>2, <2>3
<1>8. TypeOK'
  BY <1>1, <1>2, <1>3, <1>5, <1>6, <1>7
  DEF TypeOK, PlaceLeaves, drawing, opening, signature, parsing, checking
<1>9. CommitInv' BY <1>2 DEF CommitInv
<1>10. BuildInv'
  <2>1. ASSUME NEW x \in Executions, x < e PROVE Built(x)'
    <3>1. Built(x) BY <1>1, <2>1 DEF BuildInv
    <3>2. tree'[x] = tree[x] BY <1>2, <1>7, <2>1 DEF Executions
    <3> QED BY <3>1, <3>2 DEF Built
  <2>2. ASSUME NEW n \in Level(LOG_PARTIES) PROVE tree'[e][n] = <<e, n>>
    <3>1. n \in FirstLeaf .. LastLeaf BY <1>3, <1>4 DEF Level
    <3>2. n \in TreeNodes /\ n - FirstLeaf \in 0 .. PARTIES - 1 /\ FirstLeaf + (n - FirstLeaf) = n
      BY <1>3, <1>4, <3>1, DepthOf
    <3>3. share_commitments[n - FirstLeaf] = Leaf(e, n - FirstLeaf)
      BY <1>1, <3>2 DEF CommitInv, PlaceLeaves
    <3> QED BY <1>4, <1>7, <3>1, <3>2, <3>3 DEF Leaf
  <2>3. \A k \in l + 1 .. LOG_PARTIES : k = LOG_PARTIES BY <1>3
  <2>4. \A n \in First(l) .. First(l) - 1 : FALSE BY <1>5
  <2>5. First(l) \in First(l) .. Last(l) + 1 BY <1>5
  <2> QED BY <1>2, <1>3, <1>6, <2>1, <2>2, <2>3, <2>4, <2>5 DEF BuildInv
<1>11. ViewsInv' BY <1>2, UndrawnStep DEF PlaceLeaves
<1>12. /\ RevealInv' /\ SignatureInv' /\ WitInv' /\ FaultInv' /\ ParsedInv' /\ RecommitInv'
       /\ RootInv' /\ RootsInv' /\ Accepted'
  BY <1>2, EarlyStep DEF PlaceLeaves, parsing
<1> QED BY <1>8, <1>9, <1>10, <1>11, <1>12 DEF IInv

LEMMA HashNodesOK ==
  ASSUME IInv, pc = "build", NEW w \in Nat, parent_index + w <= last_index + 1,
         HashNodes(parent_index .. parent_index + w - 1), parent_index' = parent_index + w
  PROVE  IInv'
<1> DEFINE nodes == parent_index .. parent_index + w - 1
<1>1. TypeOK /\ BuildInv BY DEF IInv
<1>2. pc' = pc /\ e' = e /\ i' = i /\ h' = h /\ e \in Executions /\ parent_index \in Nat
      /\ tree \in [Executions -> [TreeNodes -> Digests]]
      /\ first_index' = first_index /\ last_index' = last_index /\ last_is_isolated' = last_is_isolated
  BY <1>1 DEF HashNodes, TypeOK
<1>3. /\ h \in 0 .. LOG_PARTIES - 1 /\ first_index = First(h) /\ last_index = Last(h)
      /\ last_is_isolated = (Last(h + 1) % 2 = 0)
      /\ parent_index \in First(h) .. Last(h) + 1
      /\ \A l \in h + 1 .. LOG_PARTIES : \A n \in Level(l) : tree[e][n] = <<e, n>>
      /\ \A n \in First(h) .. parent_index - 1 : tree[e][n] = <<e, n>>
  BY <1>1 DEF BuildInv
<1>4. /\ h \in Nat /\ h \in 0 .. LOG_PARTIES /\ h + 1 \in 0 .. LOG_PARTIES /\ h + 1 \in h + 1 .. LOG_PARTIES
      /\ First(h) \in Nat /\ Last(h) \in Nat
  <2>1. h \in Nat /\ h \in 0 .. LOG_PARTIES /\ h + 1 \in 0 .. LOG_PARTIES /\ h + 1 \in h + 1 .. LOG_PARTIES
    BY <1>3, TreeAssumption
  <2> QED BY <2>1, LevelBounds
<1>5. \A n \in nodes : n \in Level(h) BY <1>3, <1>4 DEF Level
<1>6. \A n \in nodes : n \in TreeNodes BY <1>4, <1>5, DepthOf
<1>7. ASSUME NEW n \in nodes PROVE ParentDigest(n) = <<e, n>>
  <2>0. n \in Level(h) /\ n \in TreeNodes BY <1>5, <1>6
  <2>1. /\ 2 * n \in Level(h + 1)
        /\ 2 * n + 1 \in Level(h + 1) <=> n < Last(h) \/ Last(h + 1) % 2 # 0
    BY <1>3, <2>0, ChildrenOf
  <2>2. tree[e][2 * n] = <<e, 2 * n>> BY <1>3, <1>4, <2>1
  <2> DEFINE b == IF n < last_index \/ ~last_is_isolated THEN tree[e][2 * n + 1] ELSE NULL
  <2>3. 2 * n + 1 \in Level(h + 1) => b = <<e, 2 * n + 1>> BY <1>3, <1>4, <2>1
  <2>4. 2 * n + 1 \notin Level(h + 1) => b = NULL BY <1>3, <2>1
  <2>5. ParentDigest(n) = Hash(n, tree[e][2 * n], b) BY DEF ParentDigest
  <2> HIDE DEF b
  <2>6. Hash(n, tree[e][2 * n], b)
          = IF tree[e][2 * n] = Garbage \/ b = Garbage THEN Garbage ELSE <<e, n>>
    BY <1>2, <1>3, <2>0, <2>2, <2>3, <2>4, HashOf
  <2>7. <<e, 2 * n>> # Garbage
    <3>1. 2 * n \in TreeNodes BY <1>4, <2>1, DepthOf
    <3> QED BY <1>2, <3>1, DigestAssumption DEF TreeNodes
  <2>8. b # Garbage
    <3>1. CASE 2 * n + 1 \in Level(h + 1)
      <4>1. 2 * n + 1 \in TreeNodes BY <1>4, <3>1, DepthOf
      <4> QED BY <1>2, <2>3, <3>1, <4>1, DigestAssumption DEF TreeNodes
    <3>2. CASE 2 * n + 1 \notin Level(h + 1) BY <2>4, <3>2, DigestAssumption
    <3> QED BY <3>1, <3>2
  <2> QED BY <2>2, <2>5, <2>6, <2>7, <2>8
<1>8. tree' = [tree EXCEPT ![e] = [n \in TreeNodes |->
                 IF n \in nodes THEN ParentDigest(n) ELSE tree[e][n]]]
  BY DEF HashNodes
<1> HIDE DEF nodes
<1>9. /\ tree' \in [Executions -> [TreeNodes -> Digests]]
      /\ \A x \in Executions : x # e => tree'[x] = tree[x]
      /\ \A n \in TreeNodes : tree'[e][n] = IF n \in nodes THEN <<e, n>> ELSE tree[e][n]
  <2>1. \A n \in TreeNodes : <<e, n>> \in Digests BY <1>2 DEF Digests
  <2>2. \A n \in nodes : ParentDigest(n) = <<e, n>> BY <1>7
  <2>3. tree' = [tree EXCEPT ![e] = [n \in TreeNodes |-> IF n \in nodes THEN <<e, n>> ELSE tree[e][n]]]
    BY <1>8, <2>2
  <2>4. [n \in TreeNodes |-> IF n \in nodes THEN <<e, n>> ELSE tree[e][n]] \in [TreeNodes -> Digests]
    BY <1>2, <2>1
  <2> QED BY <1>2, <2>3, <2>4
<1>10. TypeOK'
  <2>1. parent_index' \in Nat BY <1>2
  <2> QED BY <1>1, <1>2, <1>9, <2>1
      DEF TypeOK, HashNodes, drawing, opening, signature, parsing, checking
<1>11. CommitInv' BY <1>2 DEF CommitInv
<1>12. BuildInv'
  <2>1. ASSUME NEW x \in Executions, x < e PROVE Built(x)'
    <3>1. Built(x) BY <1>1, <2>1 DEF BuildInv
    <3>2. tree'[x] = tree[x] BY <1>2, <1>9, <2>1 DEF Executions
    <3> QED BY <3>1, <3>2 DEF Built
  <2>2. ASSUME NEW l \in h + 1 .. LOG_PARTIES, NEW n \in Level(l) PROVE tree'[e][n] = <<e, n>>
    <3>1. l \in 0 .. LOG_PARTIES BY <1>4
    <3> QED BY <1>3, <1>9, <3>1, DepthOf
  <2>3. ASSUME NEW n \in First(h) .. parent_index' - 1 PROVE tree'[e][n] = <<e, n>>
    <3>1. n \in Level(h) BY <1>2, <1>3, <1>4 DEF Level
    <3>2. n \in TreeNodes BY <1>4, <3>1, DepthOf
    <3>3. n \in nodes \/ n \in First(h) .. parent_index - 1 BY <1>2, <1>3, <1>4 DEF nodes
    <3> QED BY <1>3, <1>9, <3>2, <3>3
  <2>4. parent_index' \in First(h) .. Last(h) + 1 BY <1>2, <1>3, <1>4
  <2> QED BY <1>2, <1>3, <2>1, <2>2, <2>3, <2>4 DEF BuildInv
<1>13. ViewsInv' BY <1>2, UndrawnStep DEF HashNodes
<1>14. /\ RevealInv' /\ SignatureInv' /\ WitInv' /\ FaultInv' /\ ParsedInv' /\ RecommitInv'
       /\ RootInv' /\ RootsInv' /\ Accepted'
  BY <1>2, EarlyStep DEF HashNodes, parsing
<1> QED BY <1>10, <1>11, <1>12, <1>13, <1>14 DEF IInv

LEMMA NextLevelOK ==
  ASSUME IInv, NextLevel
  PROVE  IInv'
<1> DEFINE l == h - 1
<1>1. TypeOK /\ BuildInv BY DEF IInv
<1>2. pc = "build" /\ pc' = pc /\ e' = e /\ i' = i /\ h' = l /\ h > 0 /\ parent_index > last_index
      /\ tree' = tree
  BY DEF NextLevel
<1>3. /\ h \in 0 .. LOG_PARTIES - 1 /\ first_index = First(h) /\ last_index = Last(h)
      /\ parent_index \in First(h) .. Last(h) + 1
      /\ \A k \in h + 1 .. LOG_PARTIES : \A n \in Level(k) : tree[e][n] = <<e, n>>
      /\ \A n \in First(h) .. parent_index - 1 : tree[e][n] = <<e, n>>
      /\ \A x \in Executions : x < e => Built(x)
  BY <1>1, <1>2 DEF BuildInv
<1>4. /\ l \in 0 .. LOG_PARTIES - 1 /\ l + 1 = h /\ l \in Nat /\ l \in 0 .. LOG_PARTIES
      /\ h \in 0 .. LOG_PARTIES /\ LOG_PARTIES \in Nat
  BY <1>2, <1>3, TreeAssumption
<1>5. /\ First(l) \in Nat /\ First(h) = 2 * First(l) /\ Last(l) = Last(h) \div 2
      /\ Last(l) \in Nat /\ First(l) <= Last(l) /\ First(h) \in Nat /\ Last(h) \in Nat
  <2>1. First(l + 1) = 2 * First(l) /\ Last(l) = Last(l + 1) \div 2 BY <1>4, LevelStep
  <2>2. First(l) \in Nat /\ Last(l) \in Nat /\ First(l) <= Last(l) /\ First(h) \in Nat /\ Last(h) \in Nat
    BY <1>4, LevelBounds
  <2> QED BY <1>4, <2>1, <2>2
<1>6. /\ last_is_isolated' = (Last(h) % 2 = 0) /\ last_is_isolated' \in BOOLEAN
      /\ first_index' = First(l) /\ last_index' = Last(l) /\ parent_index' = First(l)
  <2>1. /\ last_is_isolated' = (last_index % 2 = 0) /\ first_index' = first_index \div 2
        /\ last_index' = last_index \div 2 /\ parent_index' = first_index \div 2
    BY DEF NextLevel, BeginLevel
  <2> HIDE DEF l
  <2> QED BY <1>3, <1>5, <2>1
<1> HIDE DEF l
<1>7. TypeOK'
  BY <1>1, <1>2, <1>4, <1>5, <1>6
  DEF TypeOK, NextLevel, drawing, opening, signature, parsing, checking
<1>8. CommitInv' BY <1>2 DEF CommitInv
<1>9. BuildInv'
  <2>1. ASSUME NEW k \in l + 1 .. LOG_PARTIES, NEW n \in Level(k) PROVE tree[e][n] = <<e, n>>
    <3>1. CASE k = h
      <4>1. n \in First(h) .. parent_index - 1 BY <1>2, <1>3, <1>5, <3>1 DEF Level
      <4> QED BY <1>3, <4>1
    <3>2. CASE k # h
      <4>1. k \in h + 1 .. LOG_PARTIES BY <1>4, <3>2
      <4> QED BY <1>3, <4>1
    <3> QED BY <3>1, <3>2
  <2>2. \A n \in First(l) .. First(l) - 1 : FALSE BY <1>5
  <2>3. First(l) \in First(l) .. Last(l) + 1 BY <1>5
  <2>4. \A x \in Executions : x < e => Built(x)' BY <1>2, <1>3 DEF Built
  <2> QED BY <1>2, <1>4, <1>6, <2>1, <2>2, <2>3, <2>4 DEF BuildInv
<1>10. ViewsInv' BY <1>2, UndrawnStep DEF NextLevel
<1>11. /\ RevealInv' /\ SignatureInv' /\ WitInv' /\ FaultInv' /\ ParsedInv' /\ RecommitInv'
       /\ RootInv' /\ RootsInv' /\ Accepted'
  BY <1>2, EarlyStep DEF NextLevel, parsing
<1> QED BY <1>7, <1>8, <1>9, <1>10, <1>11 DEF IInv

LEMMA TreeDoneOK ==
  ASSUME IInv, TreeDone
  PROVE  IInv'
<1>1. TypeOK /\ BuildInv /\ ViewsInv BY DEF IInv
<1>2. /\ pc = "build" /\ i' = 0 /\ h = 0 /\ parent_index > last_index /\ tree' = tree
      /\ e \in Executions /\ EXECUTIONS \in Nat \ {0} /\ open_views' = open_views /\ p' = p
      /\ \/ e + 1 < EXECUTIONS /\ e' = e + 1 /\ pc' = "commit"
         \/ ~(e + 1 < EXECUTIONS) /\ e' = 0 /\ pc' = "draw"
  BY <1>1, TreeAssumption DEF TreeDone, TypeOK, building, drawing
<1>3. TypeOK'
  <2>1. e' \in Executions /\ i' \in Nat BY <1>2 DEF Executions
  <2> QED BY <1>1, <1>2, <2>1
      DEF TypeOK, TreeDone, building, drawing, opening, signature, parsing, checking
<1>4. CommitInv'
  <2>1. PARTIES \in Nat BY TopAndBottom
  <2> QED BY <1>2, <2>1 DEF CommitInv
<1>5. Built(e)
  <2> SUFFICES ASSUME NEW n \in TreeNodes, NEW l \in 0 .. LOG_PARTIES, n \in Level(l)
               PROVE  tree[e][n] = <<e, n>>
    BY DEF Built, Present
  <2>0. LOG_PARTIES \in Nat BY TreeAssumption
  <2>1. /\ parent_index \in First(0) .. Last(0) + 1 /\ last_index = Last(0)
        /\ \A k \in 0 + 1 .. LOG_PARTIES : \A m \in Level(k) : tree[e][m] = <<e, m>>
        /\ \A m \in First(0) .. parent_index - 1 : tree[e][m] = <<e, m>>
    BY <1>1, <1>2 DEF BuildInv
  <2>2. CASE l = 0
    <3>1. First(0) \in Nat /\ Last(0) \in Nat BY <2>0, LevelBounds
    <3>2. n \in First(0) .. parent_index - 1 BY <1>2, <2>1, <2>2, <3>1 DEF Level
    <3> QED BY <2>1, <3>2
  <2>3. CASE l # 0
    <3>1. l \in 0 + 1 .. LOG_PARTIES BY <2>0, <2>3
    <3> QED BY <2>1, <3>1
  <2> QED BY <2>2, <2>3
<1>6. BuildInv'
  <2>1. \A x \in Executions : x <= e => Built(x)
    <3>1. \A x \in Executions : x < e => Built(x) BY <1>1, <1>2 DEF BuildInv
    <3> QED BY <1>2, <1>5, <3>1 DEF Executions
  <2>2. \A x \in Executions : (pc' \in {"commit", "build"} => x < e') => x <= e
    BY <1>2 DEF Executions
  <2>3. \A x \in Executions : Built(x) => Built(x)' BY <1>2 DEF Built
  <2>4. pc' # "build" BY <1>2
  <2> QED BY <2>1, <2>2, <2>3, <2>4 DEF BuildInv
<1>7. ViewsInv'
  <2>1. \A x \in Executions : open_views'[x] = <<>> BY <1>1, <1>2 DEF ViewsInv
  <2>2. p' = 0 BY <1>1, <1>2 DEF ViewsInv
  <2>3. REVEALED \in Nat \ {0} /\ Len(<<>>) = 0 BY TreeAssumption, TopAndBottom
  <2>4. \A x \in Executions : Drawn(x, open_views'[x]) BY <2>1 DEF Drawn
  <2>5. \A x \in Executions : ~(x < 0) BY DEF Executions
  <2>6. pc' = "draw" => \A x \in Executions :
          /\ x < e' => Len(open_views'[x]) = REVEALED
          /\ x = e' => Len(open_views'[x]) < REVEALED
          /\ x > e' => open_views'[x] = <<>>
    BY <1>2, <2>1, <2>3, <2>5
  <2> QED BY <1>2, <2>1, <2>2, <2>4, <2>6 DEF ViewsInv
<1>8. /\ RevealInv' /\ SignatureInv' /\ WitInv' /\ FaultInv' /\ ParsedInv' /\ RecommitInv'
      /\ RootInv' /\ RootsInv' /\ Accepted'
  BY <1>2, EarlyStep DEF TreeDone, parsing
<1> QED BY <1>3, <1>4, <1>6, <1>7, <1>8 DEF IInv

-----------------------------------------------------------------------------
(* The views *)

\* The trees do not change any more.
LEMMA BuiltStep ==
  ASSUME IInv, pc \notin {"commit", "build"}, pc' \notin {"commit", "build"}, tree' = tree
  PROVE  CommitInv' /\ BuildInv'
<1>1. \A x \in Executions : Built(x) BY DEF IInv, BuildInv
<1>2. \A x \in Executions : Built(x)' BY <1>1 DEF Built
<1> QED BY <1>2 DEF CommitInv, BuildInv

LEMMA DrawViewOK ==
  ASSUME IInv, DrawView
  PROVE  IInv'
<1>1. TypeOK /\ ViewsInv BY DEF IInv
<1>2. /\ pc = "draw" /\ tree' = tree /\ e \in Executions /\ i = 0 /\ p = 0 /\ p' = p
      /\ REVEALED \in Nat \ {0} /\ EXECUTIONS \in Nat \ {0}
      /\ open_views \in [Executions -> Seq(Parties)]
  BY <1>1, TreeAssumption, TopAndBottom DEF DrawView, TypeOK, ViewsInv, building
<1>3. /\ \A x \in Executions : Drawn(x, open_views[x])
      /\ \A x \in Executions : /\ x < e => Len(open_views[x]) = REVEALED
                               /\ x = e => Len(open_views[x]) < REVEALED
                               /\ x > e => open_views[x] = <<>>
  BY <1>1, <1>2 DEF ViewsInv
<1>4. PICK value \in Views[e] \ {open_views[e][k] : k \in DOMAIN open_views[e]} :
        open_views' = [open_views EXCEPT ![e] = Append(open_views[e], value)]
  BY DEF DrawView
<1>5. value \in Parties BY <1>2, <1>4, SignAssumption
<1> DEFINE v == open_views[e]
           w == Append(v, value)
<1>6. /\ w \in Seq(Parties) /\ Len(w) = Len(v) + 1 /\ Len(v) \in Nat /\ DOMAIN v = 1 .. Len(v)
      /\ DOMAIN w = 1 .. Len(v) + 1 /\ w[Len(v) + 1] = value
      /\ \A k \in 1 .. Len(v) : w[k] = v[k]
  <2>1. v \in Seq(Parties) BY <1>2
  <2> HIDE DEF v
  <2> QED BY <1>5, <2>1
<1>7. /\ open_views' \in [Executions -> Seq(Parties)] /\ open_views'[e] = w
      /\ \A x \in Executions : x # e => open_views'[x] = open_views[x]
  BY <1>2, <1>4, <1>6
<1>8. Drawn(e, w)
  <2>1. \A k \in 1 .. Len(v) : v[k] \in Views[e] /\ v[k] # value BY <1>2, <1>3, <1>4, <1>6 DEF Drawn
  <2>2. \A a, b \in 1 .. Len(v) : a # b => v[a] # v[b] BY <1>2, <1>3, <1>6 DEF Drawn
  <2> HIDE DEF v, w
  <2>3. \A k \in 1 .. Len(v) + 1 : k \in 1 .. Len(v) \/ k = Len(v) + 1 BY <1>6
  <2>4. \A k \in DOMAIN w : w[k] \in Views[e] BY <1>4, <1>6, <2>1, <2>3
  <2>5. ASSUME NEW a \in DOMAIN w, NEW b \in DOMAIN w, a # b PROVE w[a] # w[b]
    BY <1>6, <2>1, <2>2, <2>3, <2>5
  <2> QED BY <2>4, <2>5 DEF Drawn
<1>9. \A x \in Executions : Drawn(x, open_views'[x]) BY <1>3, <1>7, <1>8
<1>10. Len(v) < REVEALED BY <1>2, <1>3
<1>11. \/ Len(w) < REVEALED /\ pc' = "draw" /\ e' = e /\ i' = 0
       \/ Len(w) = REVEALED /\ e + 1 < EXECUTIONS /\ pc' = "draw" /\ e' = e + 1 /\ i' = 0
       \/ Len(w) = REVEALED /\ ~(e + 1 < EXECUTIONS) /\ pc' = "sort" /\ e' = 0 /\ i' = 1
  <2>1. \/ Len(v) + 1 < REVEALED /\ UNCHANGED <<pc, e, i>>
        \/ ~(Len(v) + 1 < REVEALED) /\ e + 1 < EXECUTIONS /\ e' = e + 1 /\ UNCHANGED <<pc, i>>
        \/ ~(Len(v) + 1 < REVEALED) /\ ~(e + 1 < EXECUTIONS) /\ pc' = "sort" /\ e' = 0 /\ i' = 1
    BY DEF DrawView
  <2> HIDE DEF v, w
  <2> QED BY <1>2, <1>6, <1>10, <2>1
<1> HIDE DEF v, w
<1>12. TypeOK'
  <2>1. e' \in Executions /\ i' \in Nat BY <1>2, <1>11 DEF Executions
  <2> QED BY <1>1, <1>2, <1>7, <1>11, <2>1
      DEF TypeOK, DrawView, building, opening, signature, parsing, checking
<1>13. CommitInv' /\ BuildInv' BY <1>2, <1>11, BuiltStep
<1>14. ViewsInv'
  <2>0. Len(<<>>) = 0 /\ Len(w) \in Nat BY <1>6
  <2>1. CASE Len(w) < REVEALED /\ pc' = "draw" /\ e' = e /\ i' = 0
    <3>1. \A x \in Executions : /\ x < e' => Len(open_views'[x]) = REVEALED
                                /\ x = e' => Len(open_views'[x]) < REVEALED
                                /\ x > e' => open_views'[x] = <<>>
      BY <1>2, <1>3, <1>7, <2>1 DEF Executions
    <3> QED BY <1>2, <1>9, <2>1, <3>1 DEF ViewsInv
  <2>2. CASE Len(w) = REVEALED /\ e + 1 < EXECUTIONS /\ pc' = "draw" /\ e' = e + 1 /\ i' = 0
    <3>1. \A x \in Executions : /\ x < e + 1 => Len(open_views'[x]) = REVEALED
                                /\ x >= e + 1 => open_views'[x] = <<>>
      BY <1>2, <1>3, <1>7, <2>2 DEF Executions
    <3>2. \A x \in Executions : /\ x < e' => Len(open_views'[x]) = REVEALED
                                /\ x = e' => Len(open_views'[x]) < REVEALED
                                /\ x > e' => open_views'[x] = <<>>
      BY <1>2, <2>0, <2>2, <3>1 DEF Executions
    <3> QED BY <1>2, <1>9, <2>2, <3>2 DEF ViewsInv
  <2>3. CASE Len(w) = REVEALED /\ ~(e + 1 < EXECUTIONS) /\ pc' = "sort" /\ e' = 0 /\ i' = 1
    <3>1. ASSUME NEW x \in Executions PROVE Len(open_views'[x]) = REVEALED
      <4>1. x = e \/ x < e BY <1>2, <2>3 DEF Executions
      <4>2. ASSUME x < e PROVE x # e BY <1>2, <4>2 DEF Executions
      <4> QED BY <1>3, <1>7, <2>3, <4>1, <4>2
    <3>2. \A x \in Executions : ~(x < 0) BY DEF Executions
    <3>3. p' \in 0 .. REVEALED - 1 /\ i' \in p' + 1 .. REVEALED BY <1>2, <2>3
    <3>4. \A k \in 1 .. p' : FALSE BY <1>2
    <3>5. \A k \in p' + 2 .. i' : FALSE BY <1>2, <2>3
    <3> QED BY <1>9, <2>3, <3>1, <3>2, <3>3, <3>4, <3>5 DEF ViewsInv
  <2> QED BY <1>11, <2>1, <2>2, <2>3
<1>15. /\ RevealInv' /\ SignatureInv' /\ WitInv' /\ FaultInv' /\ ParsedInv' /\ RecommitInv'
       /\ RootInv' /\ RootsInv' /\ Accepted'
  BY <1>2, <1>11, EarlyStep DEF DrawView, parsing
<1> QED BY <1>12, <1>13, <1>14, <1>15 DEF IInv

\* What the sort of the views of an execution has come to.
LEMMA Sorting ==
  ASSUME IInv, pc = "sort"
  PROVE  /\ TypeOK /\ ViewsInv /\ e \in Executions /\ REVEALED \in Nat \ {0} /\ EXECUTIONS \in Nat \ {0}
         /\ open_views \in [Executions -> Seq(Parties)] /\ p \in Nat /\ i \in Nat
         /\ \A x \in Executions : /\ Drawn(x, open_views[x]) /\ Len(open_views[x]) = REVEALED
                                  /\ DOMAIN open_views[x] = 1 .. REVEALED
                                  /\ \A c \in 1 .. REVEALED : open_views[x][c] \in Nat
                                  /\ x < e => Sorted(open_views[x])
         /\ p \in 0 .. REVEALED - 1 /\ i \in p + 1 .. REVEALED
         /\ \A a \in 1 .. p : \A b \in a + 1 .. REVEALED : open_views[e][a] < open_views[e][b]
         /\ \A b \in p + 2 .. i : open_views[e][p + 1] < open_views[e][b]
<1>1. TypeOK /\ ViewsInv BY DEF IInv
<1>2. \A x \in Executions : /\ DOMAIN open_views[x] = 1 .. REVEALED
                            /\ \A c \in 1 .. REVEALED : open_views[x][c] \in Parties
  BY <1>1, OpenedViews
<1>3. Parties \subseteq Nat BY TopAndBottom DEF Parties
<1>4. /\ e \in Executions /\ REVEALED \in Nat \ {0} /\ EXECUTIONS \in Nat \ {0}
      /\ open_views \in [Executions -> Seq(Parties)] /\ p \in Nat /\ i \in Nat
  BY <1>1, TreeAssumption, TopAndBottom DEF TypeOK
<1>5. /\ \A x \in Executions : Drawn(x, open_views[x])
      /\ \A x \in Executions : Len(open_views[x]) = REVEALED
      /\ \A x \in Executions : x < e => Sorted(open_views[x])
      /\ p \in 0 .. REVEALED - 1 /\ i \in p + 1 .. REVEALED
      /\ \A a \in 1 .. p : \A b \in a + 1 .. REVEALED : open_views[e][a] < open_views[e][b]
      /\ \A b \in p + 2 .. i : open_views[e][p + 1] < open_views[e][b]
  BY <1>1 DEF ViewsInv
<1>6. \A x \in Executions : \A c \in 1 .. REVEALED : open_views[x][c] \in Nat BY <1>2, <1>3
<1> QED BY <1>1, <1>2, <1>4, <1>5, <1>6

LEMMA SortPairOK ==
  ASSUME IInv, SortPair
  PROVE  IInv'
<1> DEFINE v == open_views[e]
           w == open_views'[e]
<1>1. /\ pc = "sort" /\ pc' = pc /\ e' = e /\ p' = p /\ i' = i + 1 /\ tree' = tree
      /\ p < REVEALED - 1 /\ i < REVEALED
  BY DEF SortPair, building
<1>2. /\ TypeOK /\ ViewsInv /\ e \in Executions /\ REVEALED \in Nat \ {0}
      /\ open_views \in [Executions -> Seq(Parties)]
      /\ \A x \in Executions : /\ Drawn(x, open_views[x]) /\ Len(open_views[x]) = REVEALED
                               /\ x < e => Sorted(open_views[x])
      /\ Drawn(e, v) /\ Len(v) = REVEALED
      /\ DOMAIN v = 1 .. REVEALED /\ \A c \in 1 .. REVEALED : v[c] \in Nat
      /\ p \in 0 .. REVEALED - 1 /\ i \in p + 1 .. REVEALED /\ p \in Nat /\ i \in Nat
      /\ \A a \in 1 .. p : \A b \in a + 1 .. REVEALED : v[a] < v[b]
      /\ \A b \in p + 2 .. i : v[p + 1] < v[b]
  BY <1>1, Sorting
<1>3. p + 1 \in 1 .. REVEALED /\ i + 1 \in 1 .. REVEALED /\ p + 1 < i + 1 BY <1>1, <1>2
<1>4. v \in Seq(Parties) BY <1>2
<1>5. /\ open_views' \in [Executions -> Seq(Parties)]
      /\ \A x \in Executions : x # e => open_views'[x] = open_views[x]
      /\ Len(w) = REVEALED /\ DOMAIN w = 1 .. REVEALED
      /\ \A c \in 1 .. REVEALED : c # p + 1 /\ c # i + 1 => w[c] = v[c]
      /\ v[p + 1] > v[i + 1] => w[p + 1] = v[i + 1] /\ w[i + 1] = v[p + 1]
      /\ ~(v[p + 1] > v[i + 1]) => w = v
  <2>1. CASE v[p + 1] > v[i + 1]
    <3> DEFINE u == [v EXCEPT ![p + 1] = v[i + 1], ![i + 1] = v[p + 1]]
    <3>1. open_views' = [open_views EXCEPT ![e] = u] BY <2>1 DEF SortPair
    <3> HIDE DEF v
    <3>2. u \in Seq(Parties) /\ Len(u) = REVEALED /\ DOMAIN u = 1 .. REVEALED
          /\ u[p + 1] = v[i + 1] /\ u[i + 1] = v[p + 1]
          /\ \A c \in 1 .. REVEALED : c # p + 1 /\ c # i + 1 => u[c] = v[c]
      <4>1. v \in [1 .. REVEALED -> Parties] /\ v[p + 1] \in Parties /\ v[i + 1] \in Parties
        BY <1>2, <1>3, <1>4
      <4>2. u \in [1 .. REVEALED -> Parties] BY <4>1
      <4>3. u \in Seq(Parties) /\ Len(u) = REVEALED /\ DOMAIN u = 1 .. REVEALED
        <5> HIDE DEF u
        <5> QED BY <1>2, <4>2
      <4> QED BY <1>2, <1>3, <4>1, <4>3
    <3> HIDE DEF u
    <3> QED BY <1>2, <2>1, <3>1, <3>2
  <2>2. CASE ~(v[p + 1] > v[i + 1])
    <3>1. open_views' = open_views BY <2>2 DEF SortPair
    <3> QED BY <1>2, <2>2, <3>1
  <2> QED BY <2>1, <2>2
<1>6. \A c \in 1 .. REVEALED : v[c] \in Views[e] BY <1>2 DEF Drawn
<1>7. \A a, b \in 1 .. REVEALED : a # b => v[a] # v[b] BY <1>2 DEF Drawn
<1> HIDE DEF v, w
<1>8. Drawn(e, w)
  <2>1. CASE v[p + 1] > v[i + 1]
    <3>1. \A c \in 1 .. REVEALED : w[c] \in Views[e] BY <1>3, <1>5, <1>6, <2>1
    <3>2. ASSUME NEW a \in 1 .. REVEALED, NEW b \in 1 .. REVEALED, a # b PROVE w[a] # w[b]
      BY <1>3, <1>5, <1>7, <2>1, <3>2
    <3> QED BY <1>5, <3>1, <3>2 DEF Drawn
  <2>2. CASE ~(v[p + 1] > v[i + 1]) BY <1>2, <1>5, <2>2
  <2> QED BY <2>1, <2>2
<1>9. \A a \in 1 .. p : \A b \in a + 1 .. REVEALED : w[a] < w[b]
  <2> SUFFICES ASSUME NEW a \in 1 .. p, NEW b \in a + 1 .. REVEALED PROVE w[a] < w[b]
    OBVIOUS
  <2>1. a \in 1 .. REVEALED /\ b \in 1 .. REVEALED /\ a # p + 1 /\ a # i + 1
        /\ p + 1 \in a + 1 .. REVEALED /\ i + 1 \in a + 1 .. REVEALED
    BY <1>2, <1>3
  <2>2. w[a] = v[a] /\ \A c \in a + 1 .. REVEALED : v[a] < v[c] BY <1>2, <1>5, <2>1
  <2>3. w[b] \in {v[b], v[p + 1], v[i + 1]} BY <1>5, <2>1
  <2> QED BY <2>1, <2>2, <2>3
<1>10. \A b \in p + 2 .. i + 1 : w[p + 1] < w[b]
  <2> SUFFICES ASSUME NEW b \in p + 2 .. i + 1 PROVE w[p + 1] < w[b] OBVIOUS
  <2>1. b \in 1 .. REVEALED /\ b # p + 1 /\ (b = i + 1 \/ b \in p + 2 .. i)
    BY <1>1, <1>2
  <2>2. v[p + 1] \in Nat /\ v[i + 1] \in Nat /\ v[b] \in Nat BY <1>2, <1>3, <2>1
  <2>3. CASE v[p + 1] > v[i + 1]
    <3>1. CASE b = i + 1 BY <1>5, <2>2, <2>3, <3>1
    <3>2. CASE b # i + 1
      <4>1. v[p + 1] < v[b] /\ w[b] = v[b] BY <1>2, <1>5, <2>1, <3>2
      <4> QED BY <1>5, <2>2, <2>3, <4>1
    <3> QED BY <3>1, <3>2
  <2>4. CASE ~(v[p + 1] > v[i + 1])
    <3>1. CASE b = i + 1
      <4>1. v[p + 1] # v[i + 1] BY <1>3, <1>7
      <4> QED BY <1>5, <2>2, <2>4, <3>1, <4>1
    <3>2. CASE b # i + 1 BY <1>2, <1>5, <2>1, <2>4, <3>2
    <3> QED BY <3>1, <3>2
  <2> QED BY <2>3, <2>4
<1>11. TypeOK'
  <2>1. i' \in Nat BY <1>1, <1>2
  <2> QED BY <1>1, <1>2, <1>5, <2>1
      DEF TypeOK, SortPair, building, opening, signature, parsing, checking
<1>12. CommitInv' /\ BuildInv' BY <1>1, BuiltStep
<1>13. ViewsInv'
  <2>1. \A x \in Executions : /\ Drawn(x, open_views'[x]) /\ Len(open_views'[x]) = REVEALED
                              /\ x < e' => Sorted(open_views'[x])
    <3> SUFFICES ASSUME NEW x \in Executions
                 PROVE  /\ Drawn(x, open_views'[x]) /\ Len(open_views'[x]) = REVEALED
                        /\ x < e' => Sorted(open_views'[x])
      OBVIOUS
    <3>1. CASE x = e
      <4>1. ~(e < e) BY <1>2 DEF Executions
      <4> QED BY <1>1, <1>5, <1>8, <3>1, <4>1 DEF w
    <3>2. CASE x # e BY <1>1, <1>2, <1>5, <3>2
    <3> QED BY <3>1, <3>2
  <2>2. i' \in p + 1 .. REVEALED BY <1>1, <1>2
  <2>3. /\ \A a \in 1 .. p' : \A b \in a + 1 .. REVEALED : open_views'[e'][a] < open_views'[e'][b]
        /\ \A b \in p' + 2 .. i' : open_views'[e'][p' + 1] < open_views'[e'][b]
    BY <1>1, <1>9, <1>10 DEF w
  <2> QED BY <1>1, <1>2, <2>1, <2>2, <2>3 DEF ViewsInv
<1>14. /\ RevealInv' /\ SignatureInv' /\ WitInv' /\ FaultInv' /\ ParsedInv' /\ RecommitInv'
       /\ RootInv' /\ RootsInv' /\ Accepted'
  BY <1>1, EarlyStep DEF SortPair, parsing
<1> QED BY <1>11, <1>12, <1>13, <1>14 DEF IInv

LEMMA NextPlaceOK ==
  ASSUME IInv, NextPlace
  PROVE  IInv'
<1>1. /\ pc = "sort" /\ pc' = pc /\ e' = e /\ p' = p + 1 /\ i' = p + 2 /\ tree' = tree
      /\ open_views' = open_views /\ p < REVEALED - 1 /\ i = REVEALED
  BY DEF NextPlace, building
<1>2. /\ TypeOK /\ ViewsInv /\ e \in Executions /\ REVEALED \in Nat \ {0} /\ p \in Nat
      /\ \A x \in Executions : /\ Drawn(x, open_views[x]) /\ Len(open_views[x]) = REVEALED
                               /\ x < e => Sorted(open_views[x])
      /\ \A a \in 1 .. p : \A b \in a + 1 .. REVEALED : open_views[e][a] < open_views[e][b]
      /\ \A b \in p + 2 .. i : open_views[e][p + 1] < open_views[e][b]
  BY <1>1, Sorting
<1>3. TypeOK'
  <2>1. i' \in Nat /\ p' \in Nat BY <1>1, <1>2
  <2> QED BY <1>1, <1>2, <2>1
      DEF TypeOK, NextPlace, building, opening, signature, parsing, checking
<1>4. CommitInv' /\ BuildInv' BY <1>1, BuiltStep
<1>5. ViewsInv'
  <2>1. p' \in 0 .. REVEALED - 1 /\ i' \in p' + 1 .. REVEALED BY <1>1, <1>2
  <2>2. ASSUME NEW a \in 1 .. p', NEW b \in a + 1 .. REVEALED
        PROVE  open_views[e][a] < open_views[e][b]
    <3>1. CASE a \in 1 .. p BY <1>2, <3>1
    <3>2. CASE a \notin 1 .. p
      <4>1. a = p + 1 /\ b \in p + 2 .. i BY <1>1, <1>2, <3>2
      <4> QED BY <1>2, <4>1
    <3> QED BY <3>1, <3>2
  <2>3. \A b \in p' + 2 .. i' : FALSE BY <1>1, <1>2
  <2> QED BY <1>1, <1>2, <2>1, <2>2, <2>3 DEF ViewsInv
<1>6. /\ RevealInv' /\ SignatureInv' /\ WitInv' /\ FaultInv' /\ ParsedInv' /\ RecommitInv'
      /\ RootInv' /\ RootsInv' /\ Accepted'
  BY <1>1, EarlyStep DEF NextPlace, parsing
<1> QED BY <1>3, <1>4, <1>5, <1>6 DEF IInv

-----------------------------------------------------------------------------
(* The signer's walks *)

LEMMA WalkBegins ==
  ASSUME NEW views, \A c \in 1 .. REVEALED : views[c] \in Parties, Sorted(views)
  PROVE  Walks(NewQueue(views), OpenedBy(views), {}) /\ NewQueue(views) \in Queues
<1>1. /\ NewQueue(views) \in Queues
      /\ WalkAt(NewQueue(views), OpenedBy(views), LOG_PARTIES, REVEALED, REVEALED)
      /\ PathBefore(OpenedBy(views), LOG_PARTIES, Index(NewQueue(views))) = {}
  BY StartOfWalk
<1>2. LOG_PARTIES \in 0 .. LOG_PARTIES /\ REVEALED \in 1 .. REVEALED
  BY TreeAssumption, TopAndBottom
<1> QED BY <1>1, <1>2 DEF Walks

\* The views do not change any more.
LEMMA ViewsStep ==
  ASSUME IInv, pc \notin {"commit", "build", "draw", "sort"},
         pc' \notin {"commit", "build", "draw", "sort"}, drawing' = drawing
  PROVE  ViewsInv'
BY DEF IInv, ViewsInv, drawing

LEMMA ViewsSortedOK ==
  ASSUME IInv, ViewsSorted
  PROVE  IInv'
<1>1. /\ pc = "sort" /\ p >= REVEALED - 1 /\ p' = 0 /\ tree' = tree /\ open_views' = open_views
      /\ cv_info' = cv_info /\ wit' = wit /\ fault' = fault /\ bytes_required' = bytes_required
      /\ UNCHANGED <<building, signature, parsing, checking>>
      /\ \/ /\ e + 1 < EXECUTIONS /\ e' = e + 1 /\ i' = 1 /\ pc' = "sort"
            /\ queue' = queue /\ revealed' = revealed
         \/ /\ ~(e + 1 < EXECUTIONS) /\ e' = 0 /\ i' = 0 /\ pc' = "open"
            /\ queue' = NewQueue(open_views[0]) /\ revealed' = <<>>
  BY DEF ViewsSorted, Walk, building, signature, parsing, checking, opening
<1>2. /\ TypeOK /\ ViewsInv /\ e \in Executions /\ REVEALED \in Nat \ {0} /\ EXECUTIONS \in Nat \ {0}
      /\ p \in Nat
      /\ \A x \in Executions : /\ Drawn(x, open_views[x]) /\ Len(open_views[x]) = REVEALED
                               /\ x < e => Sorted(open_views[x])
      /\ p \in 0 .. REVEALED - 1
      /\ \A a \in 1 .. p : \A b \in a + 1 .. REVEALED : open_views[e][a] < open_views[e][b]
  BY <1>1, Sorting
<1>3. Sorted(open_views[e])
  <2> SUFFICES ASSUME NEW a \in 1 .. REVEALED, NEW b \in 1 .. REVEALED, a < b
               PROVE  open_views[e][a] < open_views[e][b]
    BY DEF Sorted
  <2>1. a \in 1 .. p /\ b \in a + 1 .. REVEALED BY <1>1, <1>2
  <2> QED BY <1>2, <2>1
<1>4. \A x \in Executions : x <= e => Sorted(open_views[x]) BY <1>2, <1>3 DEF Executions
<1>5. CommitInv' /\ BuildInv' BY <1>1, BuiltStep
<1>6. CASE e + 1 < EXECUTIONS /\ e' = e + 1 /\ i' = 1 /\ pc' = "sort"
           /\ queue' = queue /\ revealed' = revealed
  <2>1. TypeOK'
    <3>1. e' \in Executions /\ i' \in Nat /\ p' \in Nat BY <1>1, <1>2, <1>6 DEF Executions
    <3> QED BY <1>1, <1>2, <1>6, <3>1 DEF TypeOK, building, signature, parsing, checking
  <2>2. ViewsInv'
    <3>1. \A x \in Executions : x < e' => Sorted(open_views[x]) BY <1>2, <1>4, <1>6 DEF Executions
    <3>2. p' \in 0 .. REVEALED - 1 /\ i' \in p' + 1 .. REVEALED BY <1>1, <1>2, <1>6
    <3>3. \A a \in 1 .. p' : FALSE BY <1>1
    <3>4. \A b \in p' + 2 .. i' : FALSE BY <1>1, <1>6
    <3> QED BY <1>1, <1>2, <1>6, <3>1, <3>2, <3>3, <3>4 DEF ViewsInv
  <2>3. /\ RevealInv' /\ SignatureInv' /\ WitInv' /\ FaultInv' /\ ParsedInv' /\ RecommitInv'
        /\ RootInv' /\ RootsInv' /\ Accepted'
    BY <1>1, <1>6, EarlyStep DEF parsing
  <2> QED BY <1>5, <2>1, <2>2, <2>3 DEF IInv
<1>7. CASE ~(e + 1 < EXECUTIONS) /\ e' = 0 /\ i' = 0 /\ pc' = "open"
           /\ queue' = NewQueue(open_views[0]) /\ revealed' = <<>>
  <2>1. 0 \in Executions /\ \A x \in Executions : x <= e BY <1>2, <1>7 DEF Executions
  <2>2. \A x \in Executions : Sorted(open_views[x]) BY <1>4, <2>1
  <2>3. \A c \in 1 .. REVEALED : open_views[0][c] \in Parties BY <1>1, <1>2, <2>1, OpenedViews
  <2>4. Walks(queue', OpenedBy(open_views[0]), {}) /\ queue' \in Queues
    BY <1>7, <2>1, <2>2, <2>3, WalkBegins
  <2>5. TypeOK'
    <3>1. <<>> \in Seq(TreeNodes) OBVIOUS
    <3> QED BY <1>1, <1>2, <1>7, <2>1, <2>4, <3>1 DEF TypeOK, building, signature, parsing, checking
  <2>6. ViewsInv' BY <1>1, <1>2, <1>7, <2>2 DEF ViewsInv
  <2>7. RevealInv'
    <3>1. Opened' = OpenedBy(open_views[0]) BY <1>1, <1>7 DEF Opened
    <3>2. {revealed'[k] : k \in DOMAIN revealed'} = {} BY <1>7
    <3>3. InOrder(revealed') BY <1>7 DEF InOrder
    <3> QED BY <2>4, <3>1, <3>2, <3>3 DEF RevealInv
  <2>8. FaultInv /\ fault = "none" /\ cv_info = <<>> /\ bytes_required = 0 BY <1>1 DEF IInv, FaultInv
  <2>9. FaultInv' BY <1>1, <1>7, <2>8 DEF FaultInv
  <2>10. SignatureInv'
    <3> DEFINE o == [x \in 0 .. EXECUTIONS |-> 0]
    <3>1. Opens' = 0 BY <1>7 DEF Opens
    <3>2. EXECUTIONS * MAX_OPEN_LEAVES \in Nat /\ 0 * MAX_OPEN_LEAVES = 0
      BY <1>2, SignAssumption
    <3>3. o \in [0 .. EXECUTIONS -> 0 .. EXECUTIONS * MAX_OPEN_LEAVES]
      <4>1. 0 \in 0 .. EXECUTIONS * MAX_OPEN_LEAVES BY <3>2
      <4> QED BY <4>1
    <3>4. o[0] = 0 /\ \A x \in 0 .. 0 : o[x] <= x * MAX_OPEN_LEAVES
      <4>1. 0 \in 0 .. EXECUTIONS BY <1>2
      <4>2. \A x \in 0 .. 0 : x = 0 OBVIOUS
      <4> QED BY <3>2, <4>1, <4>2
    <3> HIDE DEF o
    <3>5. Len(cv_info') = o[0] BY <1>1, <2>8, <3>4
    <3>6. \A x \in 0 .. 0 - 1 : FALSE OBVIOUS
    <3> QED BY <1>1, <1>7, <2>8, <3>1, <3>3, <3>4, <3>5, <3>6 DEF SignatureInv
  <2>11. WitInv'
    <3>1. Opens' = 0 BY <1>7 DEF Opens
    <3>2. \A x \in 0 .. 0 - 1 : FALSE OBVIOUS
    <3> QED BY <3>1, <3>2 DEF WitInv
  <2>12. ParsedInv' /\ RecommitInv' /\ RootInv' /\ RootsInv' /\ Accepted'
    BY <1>7 DEF ParsedInv, RecommitInv, RootInv, RootsInv, Accepted
  <2> QED BY <1>5, <2>5, <2>6, <2>7, <2>9, <2>10, <2>11, <2>12 DEF IInv
<1> QED BY <1>1, <1>6, <1>7

\* What the parser knows depends on the views and the signature only.
LEMMA SignatureSame ==
  ASSUME SignatureInv, pc' = pc, e' = e, open_views' = open_views, cv_info' = cv_info,
         fault' = fault, cv_at' = cv_at, len_cv_info' = len_cv_info,
         bytes_required' = bytes_required
  PROVE  SignatureInv'
<1>1. Opens' = Opens BY DEF Opens
<1>2. \A x, a, s : HasPath(x, a, s)' <=> HasPath(x, a, s) BY DEF HasPath
<1> QED BY <1>1, <1>2 DEF SignatureInv

LEMMA RevealOK ==
  ASSUME IInv, Reveal
  PROVE  IInv'
<1> DEFINE S == Opened
           found == {revealed[k] : k \in DOMAIN revealed}
           more == IF SiblingRevealed(queue) THEN {SiblingOf(queue)} ELSE {}
<1>1. /\ pc \in {"open", "parse"} /\ ~AtRoot(queue) /\ pc' = pc /\ e' = e /\ i' = i /\ tree' = tree
      /\ drawing' = drawing /\ open_views' = open_views
      /\ cv_info' = cv_info /\ wit' = wit /\ fault' = fault
      /\ cv_at' = cv_at /\ len_cv_info' = len_cv_info /\ bytes_required' = bytes_required
      /\ queue' = Step(queue)
      /\ revealed' = IF SiblingRevealed(queue) THEN Append(revealed, SiblingOf(queue)) ELSE revealed
  BY DEF Reveal, building, drawing, signature, parsing
<1>2. TypeOK /\ ViewsInv /\ e \in Executions /\ queue \in Queues /\ revealed \in Seq(TreeNodes)
  BY DEF IInv, TypeOK
<1>3. S \in SUBSET Level(LOG_PARTIES) BY <1>1, <1>2, OpenedViews DEF Opened
<1>4. Walks(queue, S, found) /\ InOrder(revealed) BY <1>1 DEF IInv, RevealInv
<1> HIDE DEF S, found
<1>5. PICK d \in 0 .. LOG_PARTIES, n \in 1 .. REVEALED : \E m \in 1 .. n :
        WalkAt(queue, S, d, n, m) /\ found = PathBefore(S, d, Index(queue))
  BY <1>4 DEF Walks
<1>6. PICK m \in 1 .. n : WalkAt(queue, S, d, n, m) /\ found = PathBefore(S, d, Index(queue))
  BY <1>5
<1>7. d \in 1 .. LOG_PARTIES
  <2>1. d # 0 BY <1>1, <1>2, <1>3, <1>6, Front
  <2> QED BY <2>1, TreeAssumption
<1>8. queue' \in Queues /\ Taken(queue) \in 1 .. n
  <2>1. queue.stop = Cell(queue, n) BY <1>6 DEF WalkAt
  <2> QED BY <1>1, <1>2, <2>1, QueueStep
<1>9. Walks(queue', S, found \union more)
  <2>1. PICK l \in 0 .. LOG_PARTIES, k \in 1 .. n - Taken(queue) + 1 :
          /\ WalkAt(Step(queue), S, l, n - Taken(queue) + 1, k)
          /\ PathBefore(S, l, Index(Step(queue))) = PathBefore(S, d, Index(queue)) \union more
    BY <1>2, <1>3, <1>6, <1>7, WalkStep
  <2>2. n - Taken(queue) + 1 \in 1 .. REVEALED BY <1>8, TreeAssumption, TopAndBottom
  <2> HIDE DEF more
  <2> QED BY <1>1, <1>6, <2>1, <2>2 DEF Walks
<1>10. /\ SiblingRevealed(queue) => SiblingOf(queue) \in TreeNodes
       /\ SiblingRevealed(queue) => \A z \in found : Precedes(z, SiblingOf(queue))
  <2> SUFFICES ASSUME SiblingRevealed(queue)
               PROVE  /\ SiblingOf(queue) \in TreeNodes
                      /\ \A z \in found : Precedes(z, SiblingOf(queue))
    OBVIOUS
  <2>1. /\ SiblingOf(queue) \in NeededBy(S)
        /\ \A z \in PathBefore(S, d, Index(queue)) : Precedes(z, SiblingOf(queue))
    BY <1>2, <1>3, <1>6, <1>7, SiblingIsNext
  <2> QED BY <1>6, <2>1 DEF NeededBy
<1>11. /\ revealed' \in Seq(TreeNodes) /\ InOrder(revealed')
       /\ {revealed'[k] : k \in DOMAIN revealed'} = found \union more
  <2>1. CASE SiblingRevealed(queue)
    <3> DEFINE z == SiblingOf(queue)
               w == Append(revealed, z)
    <3>1. revealed' = w /\ z \in TreeNodes /\ more = {z} BY <1>1, <1>10, <2>1
    <3>2. \A k \in 1 .. Len(revealed) : Precedes(revealed[k], z)
      <4>1. \A k \in DOMAIN revealed : revealed[k] \in found BY DEF found
      <4> QED BY <1>2, <1>10, <2>1, <4>1
    <3> HIDE DEF z, more
    <3>3. /\ w \in Seq(TreeNodes) /\ DOMAIN w = 1 .. Len(revealed) + 1 /\ Len(revealed) \in Nat
          /\ DOMAIN revealed = 1 .. Len(revealed)
          /\ w[Len(revealed) + 1] = z /\ \A k \in 1 .. Len(revealed) : w[k] = revealed[k]
      BY <1>2, <3>1
    <3> HIDE DEF w
    <3>4. \A k \in DOMAIN w : k \in 1 .. Len(revealed) \/ k = Len(revealed) + 1 BY <3>3
    <3>5. InOrder(w)
      <4> SUFFICES ASSUME NEW j \in DOMAIN w, NEW k \in DOMAIN w, j < k
                   PROVE  Precedes(w[j], w[k])
        BY DEF InOrder
      <4>1. j \in 1 .. Len(revealed) BY <3>3
      <4>2. CASE k \in 1 .. Len(revealed) BY <1>4, <3>3, <4>1, <4>2 DEF InOrder
      <4>3. CASE k = Len(revealed) + 1 BY <3>2, <3>3, <4>1, <4>3
      <4> QED BY <3>4, <4>2, <4>3
    <3>6. {w[k] : k \in DOMAIN w} = found \union {z}
      <4>1. \A k \in 1 .. Len(revealed) : k \in DOMAIN w BY <3>3
      <4>2. Len(revealed) + 1 \in DOMAIN w BY <3>3
      <4> QED BY <3>3, <3>4, <4>1, <4>2 DEF found
    <3> QED BY <3>1, <3>3, <3>5, <3>6
  <2>2. CASE ~SiblingRevealed(queue) BY <1>1, <1>2, <1>4, <2>2 DEF found
  <2> QED BY <2>1, <2>2
<1>12. TypeOK'
  BY <1>1, <1>2, <1>8, <1>11 DEF TypeOK, Reveal, building, drawing, signature, parsing, checking
<1>13. CommitInv' /\ BuildInv' BY <1>1, BuiltStep
<1>14. ViewsInv' BY <1>1, ViewsStep
<1>15. RevealInv'
  <2>1. Opened' = S BY <1>1 DEF Opened, S
  <2> QED BY <1>9, <1>11, <2>1 DEF RevealInv
<1>16. SignatureInv'
  <2>1. SignatureInv BY DEF IInv
  <2>2. /\ e' = e /\ open_views' = open_views /\ cv_info' = cv_info /\ fault' = fault
        /\ cv_at' = cv_at /\ len_cv_info' = len_cv_info /\ bytes_required' = bytes_required
    BY <1>1 DEF drawing, signature, parsing
  <2> QED BY <1>1, <2>1, <2>2, SignatureSame
<1>17. WitInv'
  <2>1. WitInv BY DEF IInv
  <2> QED BY <1>1, <2>1 DEF WitInv, Opens, BadShare
<1>18. FaultInv'
  <2>1. FaultInv BY DEF IInv
  <2> QED BY <1>1, <2>1 DEF FaultInv
<1>19. ParsedInv' /\ RecommitInv' /\ RootInv' /\ RootsInv' /\ Accepted'
  BY <1>1 DEF ParsedInv, RecommitInv, RootInv, RootsInv, Accepted
<1> QED BY <1>12, <1>13, <1>14, <1>15, <1>16, <1>17, <1>18, <1>19 DEF IInv

-----------------------------------------------------------------------------
(* The signature *)

\* Numbers none of which is less than the one before it.
LEMMA Monotone ==
  ASSUME NEW n \in Nat, NEW o, \A x \in 0 .. n : o[x] \in Nat,
         \A x \in 0 .. n - 1 : o[x] <= o[x + 1]
  PROVE  \A a, b \in 0 .. n : a <= b => o[a] <= o[b]
<1> SUFFICES ASSUME NEW a \in 0 .. n PROVE \A b \in 0 .. n : a <= b => o[a] <= o[b]
  OBVIOUS
<1> DEFINE B == {b \in 0 .. n : a <= b /\ ~(o[a] <= o[b])}
<1>1. B = {}
  <2> SUFFICES ASSUME B # {} PROVE FALSE OBVIOUS
  <2>1. PICK b \in B : \A x \in B : ~(x < b)
    <3>1. B \in SUBSET Nat OBVIOUS
    <3> QED BY <3>1, Least
  <2>2. b # a BY <2>1
  <2>3. b - 1 \in 0 .. n - 1 /\ b - 1 \in 0 .. n /\ (b - 1) + 1 = b /\ a <= b - 1 /\ b - 1 < b
    BY <2>1, <2>2
  <2>4. o[a] <= o[b - 1]
    <3>1. b - 1 \notin B BY <2>1, <2>3
    <3> QED BY <2>3, <3>1
  <2>5. o[b - 1] <= o[b] BY <2>3
  <2>6. o[a] \in Nat /\ o[b - 1] \in Nat /\ o[b] \in Nat BY <2>1, <2>3
  <2> QED BY <2>1, <2>4, <2>5, <2>6
<1> QED BY <1>1

\* A walk that is at the root has found a path.
LEMMA FoundPath ==
  ASSUME PathsFit, IInv, pc \in {"open", "parse"}, AtRoot(queue)
  PROVE  /\ revealed \in PathsOf(Opened) /\ Opened \in SUBSET Level(LOG_PARTIES)
         /\ {revealed[k] : k \in DOMAIN revealed} = NeededBy(Opened) /\ InOrder(revealed)
         /\ Len(revealed) <= MAX_OPEN_LEAVES
<1> DEFINE S == Opened
           k == Len(revealed)
<1>1. /\ TypeOK /\ ViewsInv /\ e \in Executions /\ queue \in Queues /\ revealed \in Seq(TreeNodes)
      /\ open_views \in [Executions -> Seq(Parties)]
  BY DEF IInv, TypeOK
<1>2. /\ S \in SUBSET Level(LOG_PARTIES) /\ Sorted(open_views[e])
      /\ DOMAIN open_views[e] = 1 .. REVEALED
  BY <1>1, OpenedViews DEF Opened
<1>3. PICK d \in 0 .. LOG_PARTIES, n \in 1 .. REVEALED : \E m \in 1 .. n :
        /\ WalkAt(queue, S, d, n, m)
        /\ {revealed[j] : j \in DOMAIN revealed} = PathBefore(S, d, Index(queue))
  BY DEF IInv, RevealInv, Walks
<1>4. InOrder(revealed) BY DEF IInv, RevealInv
<1> HIDE DEF S
<1>5. {revealed[j] : j \in DOMAIN revealed} = NeededBy(S) BY <1>1, <1>2, <1>3, EndOfWalk
<1>6. k \in Nat /\ DOMAIN revealed = 1 .. k /\ revealed \in [1 .. k -> TreeNodes] BY <1>1
<1>7. revealed \in [1 .. k -> NeededBy(S)] /\ \A z \in NeededBy(S) : \E j \in 1 .. k : revealed[j] = z
  <2> HIDE DEF k
  <2> QED BY <1>5, <1>6
<1>8. k = Cardinality(NeededBy(S)) BY <1>2, <1>4, <1>6, <1>7, PathLength
<1>9. k <= MAX_OPEN_LEAVES
  <2>1. Drawn(e, open_views[e]) /\ open_views[e] \in Seq(Parties) BY <1>1 DEF ViewsInv
  <2>2. Cardinality(NeededBy(OpenedBy(open_views[e]))) <= MAX_OPEN_LEAVES
    BY <1>1, <1>2, <2>1, RoomForPath
  <2> QED BY <1>8, <2>2 DEF S, Opened
<1>10. revealed \in PathsOf(S)
  <2>1. k \in 0 .. MAX_OPEN_LEAVES BY <1>6, <1>9, SignAssumption
  <2> QED BY <1>4, <1>7, <2>1 DEF PathsOf
<1> QED BY <1>2, <1>4, <1>5, <1>9, <1>10 DEF S

\* Where the paths are in the signature.
LEMMA Offsets ==
  ASSUME IInv, pc \in {"open", "sent", "parse"}, NEW n \in 0 .. EXECUTIONS,
         NEW o \in [0 .. EXECUTIONS -> 0 .. EXECUTIONS * MAX_OPEN_LEAVES],
         \A x \in 0 .. n - 1 : \E s \in PathsOf(OpenedBy(open_views[x])) : o[x + 1] = o[x] + Len(s)
  PROVE  /\ \A x \in 0 .. n : o[x] \in Nat
         /\ \A a, b \in 0 .. n : a <= b => o[a] <= o[b]
<1>0. EXECUTIONS \in Nat \ {0} BY TreeAssumption
<1>1. \A x \in 0 .. n : o[x] \in Nat
  <2>1. \A x \in 0 .. n : x \in 0 .. EXECUTIONS BY <1>0
  <2>2. \A y \in 0 .. EXECUTIONS * MAX_OPEN_LEAVES : y \in Nat OBVIOUS
  <2> QED BY <2>1, <2>2
<1>2. \A x \in 0 .. n - 1 : o[x] <= o[x + 1]
  <2> SUFFICES ASSUME NEW x \in 0 .. n - 1 PROVE o[x] <= o[x + 1] OBVIOUS
  <2>1. x \in Executions /\ x \in 0 .. n BY <1>0 DEF Executions
  <2>2. OpenedBy(open_views[x]) \in SUBSET Level(LOG_PARTIES) BY <2>1, OpenedViews DEF IInv
  <2>3. PICK s \in PathsOf(OpenedBy(open_views[x])) : o[x + 1] = o[x] + Len(s) OBVIOUS
  <2>4. Len(s) \in Nat BY <2>2, PathFacts
  <2> QED BY <1>1, <2>1, <2>3, <2>4
<1>3. n \in Nat BY <1>0
<1> QED BY <1>1, <1>2, <1>3, Monotone

LEMMA OpenDoneOK ==
  ASSUME PathsFit, IInv, OpenDone
  PROVE  IInv'
<1> DEFINE S == Opened
           r == [k \in DOMAIN revealed |-> tree[e][revealed[k]]]
           next == IF e + 1 < EXECUTIONS THEN e + 1 ELSE 0
<1>1. /\ pc = "open" /\ AtRoot(queue) /\ i' = i /\ tree' = tree /\ fault' = fault
      /\ drawing' = drawing /\ open_views' = open_views /\ bytes_required' = bytes_required
      /\ cv_info' = cv_info \o r
      /\ wit' = [wit EXCEPT ![e] = [c \in 1 .. REVEALED |-> <<e, open_views[e][c]>>]]
      /\ e' = next /\ queue' = NewQueue(open_views[next]) /\ revealed' = <<>>
      /\ pc' = IF e + 1 < EXECUTIONS THEN "open"
               ELSE IF Len(cv_info') <= EXECUTIONS * MAX_OPEN_LEAVES THEN "sent" ELSE "returned"
  <2> HIDE DEF r
  <2>1. /\ pc = "open" /\ AtRoot(queue) /\ i' = i /\ tree' = tree /\ fault' = fault
        /\ drawing' = drawing /\ open_views' = open_views /\ bytes_required' = bytes_required
        /\ wit' = [wit EXCEPT ![e] = [c \in 1 .. REVEALED |-> <<e, open_views[e][c]>>]]
    BY DEF OpenDone, building, drawing, parsing
  <2>2. cv_info' = cv_info \o r BY DEF OpenDone, r
  <2>3. CASE e + 1 < EXECUTIONS BY <2>1, <2>2, <2>3 DEF OpenDone, Walk
  <2>4. CASE ~(e + 1 < EXECUTIONS) BY <2>1, <2>2, <2>4 DEF OpenDone, Walk
  <2> QED BY <2>3, <2>4
<1>2. /\ TypeOK /\ ViewsInv /\ e \in Executions /\ queue \in Queues /\ revealed \in Seq(TreeNodes)
      /\ tree \in [Executions -> [TreeNodes -> Digests]] /\ cv_info \in Seq(Digests)
      /\ wit \in [Executions -> Seq((Executions \X Parties) \union {Garbage})]
      /\ FaultInv /\ fault = "none" /\ i = 0 /\ bytes_required = 0
      /\ EXECUTIONS \in Nat \ {0} /\ MAX_OPEN_LEAVES \in Nat
  BY <1>1, TreeAssumption, SignAssumption DEF IInv, TypeOK, FaultInv
<1>3. /\ revealed \in PathsOf(S) /\ S \in SUBSET Level(LOG_PARTIES)
      /\ Len(revealed) <= MAX_OPEN_LEAVES
  BY <1>1, FoundPath
<1>4. next \in Executions BY <1>2 DEF Executions
<1>5. /\ r \in Seq(Digests) /\ Len(r) = Len(revealed) /\ Len(revealed) \in Nat
      /\ DOMAIN revealed = 1 .. Len(revealed)
      /\ \A k \in 1 .. Len(revealed) : r[k] = <<e, revealed[k]>>
  <2>1. DOMAIN revealed = 1 .. Len(revealed) /\ Len(revealed) \in Nat
        /\ \A k \in 1 .. Len(revealed) : revealed[k] \in TreeNodes
    BY <1>2
  <2>2. \A k \in 1 .. Len(revealed) : Present(revealed[k])
    <3>1. revealed \in [1 .. Len(revealed) -> NeededBy(S)] BY <1>3, PathFacts
    <3> QED BY <3>1 DEF NeededBy
  <2>3. Built(e) BY <1>1, <1>2 DEF IInv, BuildInv
  <2>4. \A k \in 1 .. Len(revealed) : r[k] = <<e, revealed[k]>> /\ r[k] \in Digests
    BY <1>2, <2>1, <2>2, <2>3 DEF Built
  <2>5. r \in [1 .. Len(revealed) -> Digests] BY <1>2, <2>1
  <2> HIDE DEF r
  <2>6. r \in Seq(Digests) /\ Len(r) = Len(revealed) BY <2>1, <2>5
  <2> QED BY <2>1, <2>4, <2>6
<1> HIDE DEF r, S, next
<1>6. /\ cv_info' \in Seq(Digests) /\ Len(cv_info') = Len(cv_info) + Len(revealed)
      /\ Len(cv_info) \in Nat
      /\ \A k \in 1 .. Len(cv_info) : cv_info'[k] = cv_info[k]
      /\ \A k \in 1 .. Len(revealed) : cv_info'[Len(cv_info) + k] = <<e, revealed[k]>>
  <2> DEFINE u == cv_info
             l == Len(cv_info)
  <2>1. u \in Seq(Digests) /\ l = Len(u) /\ l \in Nat BY <1>2
  <2> HIDE DEF u, l
  <2>2. /\ u \o r \in Seq(Digests) /\ Len(u \o r) = l + Len(r)
        /\ \A k \in 1 .. l + Len(r) : (u \o r)[k] = IF k <= l THEN u[k] ELSE r[k - l]
    <3>1. r \in Seq(Digests) BY <1>5
    <3>2. u \in Seq(Digests) BY <2>1
    <3>3. /\ u \o r \in Seq(Digests) /\ Len(u \o r) = Len(u) + Len(r)
          /\ \A k \in 1 .. Len(u) + Len(r) :
                (u \o r)[k] = IF k <= Len(u) THEN u[k] ELSE r[k - Len(u)]
      BY <3>1, <3>2, ConcatProperties
    <3> QED BY <2>1, <3>3
  <2>3. \A k \in 1 .. l : (u \o r)[k] = u[k] BY <1>5, <2>1, <2>2
  <2>4. ASSUME NEW k \in 1 .. Len(revealed) PROVE (u \o r)[l + k] = <<e, revealed[k]>>
    <3>1. l + k \in 1 .. l + Len(r) /\ ~(l + k <= l) /\ (l + k) - l = k BY <1>5, <2>1
    <3> QED BY <1>5, <2>2, <3>1
  <2> QED BY <1>1, <1>5, <2>1, <2>2, <2>3, <2>4 DEF u, l
<1>7. PICK o \in [0 .. EXECUTIONS -> 0 .. EXECUTIONS * MAX_OPEN_LEAVES] :
        /\ o[0] = 0 /\ \A x \in 0 .. e : o[x] <= x * MAX_OPEN_LEAVES
        /\ Len(cv_info) = o[e]
        /\ \A x \in 0 .. e - 1 : \E s \in PathsOf(OpenedBy(open_views[x])) :
              o[x + 1] = o[x] + Len(s) /\ HasPath(x, o[x], s)
  <2>1. Opens = e BY <1>1 DEF Opens
  <2>2. SignatureInv BY DEF IInv
  <2>3. fault \notin {"longer", "shorter"} BY <1>2
  <2> QED BY <1>1, <2>1, <2>2, <2>3 DEF SignatureInv
<1>8. /\ e \in 0 .. EXECUTIONS /\ e + 1 \in 0 .. EXECUTIONS /\ e \in Nat
      /\ \A x \in 0 .. e : x \in 0 .. EXECUTIONS
  BY <1>2 DEF Executions
<1>9. /\ \A x \in 0 .. e : o[x] \in Nat
      /\ \A a, b \in 0 .. e : a <= b => o[a] <= o[b]
  <2>1. \A x \in 0 .. e - 1 : \E s \in PathsOf(OpenedBy(open_views[x])) : o[x + 1] = o[x] + Len(s)
    BY <1>7
  <2> QED BY <1>1, <1>8, <2>1, Offsets
<1> DEFINE w == [o EXCEPT ![e + 1] = o[e] + Len(revealed)]
<1>10. /\ w[e + 1] = o[e] + Len(revealed) /\ \A x \in 0 .. e : w[x] = o[x]
       /\ DOMAIN w = 0 .. EXECUTIONS /\ \A x \in 0 .. EXECUTIONS : x # e + 1 => w[x] = o[x]
  BY <1>8
<1>11. w[e + 1] <= (e + 1) * MAX_OPEN_LEAVES /\ w[e + 1] <= EXECUTIONS * MAX_OPEN_LEAVES
       /\ w[e + 1] \in Nat
  <2>1. o[e] <= e * MAX_OPEN_LEAVES /\ o[e] \in Nat BY <1>7, <1>8, <1>9
  <2>2. (e + 1) * MAX_OPEN_LEAVES = e * MAX_OPEN_LEAVES + MAX_OPEN_LEAVES /\ e * MAX_OPEN_LEAVES \in Nat
    BY <1>2, <1>8
  <2> DEFINE t == EXECUTIONS - (e + 1)
  <2>3. t \in Nat /\ EXECUTIONS = (e + 1) + t BY <1>2, <1>8
  <2> HIDE DEF t
  <2>4. ((e + 1) + t) * MAX_OPEN_LEAVES = (e + 1) * MAX_OPEN_LEAVES + t * MAX_OPEN_LEAVES
        /\ t * MAX_OPEN_LEAVES \in Nat
    BY <1>2, <1>8, <2>3
  <2>5. w[e + 1] <= (e + 1) * MAX_OPEN_LEAVES /\ w[e + 1] \in Nat
    <3> DEFINE a == e * MAX_OPEN_LEAVES
               b == (e + 1) * MAX_OPEN_LEAVES
    <3>1. a \in Nat /\ b = a + MAX_OPEN_LEAVES /\ o[e] <= a /\ o[e] \in Nat BY <2>1, <2>2
    <3> DEFINE c == o[e]
               k == Len(revealed)
               v == w[e + 1]
    <3>2. c <= a /\ c \in Nat /\ k <= MAX_OPEN_LEAVES /\ k \in Nat /\ v = c + k
      BY <1>3, <1>5, <1>10, <3>1
    <3>3. MAX_OPEN_LEAVES \in Nat BY <1>2
    <3>4. a \in Nat /\ b = a + MAX_OPEN_LEAVES BY <3>1
    <3> HIDE DEF a, b, c, k, v
    <3>5. v <= b /\ v \in Nat BY <3>2, <3>3, <3>4
    <3> QED BY <3>5 DEF b, v
  <2>6. (e + 1) * MAX_OPEN_LEAVES <= EXECUTIONS * MAX_OPEN_LEAVES
    BY <1>2, <1>8, <2>2, <2>3, <2>4
  <2> QED BY <1>2, <2>2, <2>5, <2>6
<1> HIDE DEF w
<1>12. w \in [0 .. EXECUTIONS -> 0 .. EXECUTIONS * MAX_OPEN_LEAVES]
  <2>1. EXECUTIONS * MAX_OPEN_LEAVES \in Nat BY <1>2
  <2>2. w[e + 1] \in 0 .. EXECUTIONS * MAX_OPEN_LEAVES BY <1>11, <2>1
  <2>3. \A x \in 0 .. EXECUTIONS : w[x] \in 0 .. EXECUTIONS * MAX_OPEN_LEAVES BY <1>10, <2>2
  <2>4. w = [o EXCEPT ![e + 1] = w[e + 1]] BY <1>10 DEF w
  <2> QED BY <2>3, <2>4
<1>13. Len(cv_info') = w[e + 1] BY <1>6, <1>7, <1>10
<1>14. /\ pc' = IF e + 1 < EXECUTIONS THEN "open" ELSE "sent"
       /\ Opens' = e + 1 /\ (pc' = "sent" => e' = 0)
  <2>1. pc' = IF e + 1 < EXECUTIONS THEN "open" ELSE "sent" BY <1>1, <1>11, <1>13
  <2>2. CASE e + 1 < EXECUTIONS BY <1>1, <2>1, <2>2 DEF Opens, next
  <2>3. CASE ~(e + 1 < EXECUTIONS)
    <3>1. EXECUTIONS = e + 1 BY <1>2, <1>8, <2>3
    <3> QED BY <1>1, <2>1, <2>3, <3>1 DEF Opens, next
  <2> QED BY <2>1, <2>2, <2>3
<1>15. \A c \in 1 .. REVEALED : open_views[e][c] \in Parties BY <1>1, <1>2, OpenedViews
<1>16. queue' \in Queues /\ Walks(queue', OpenedBy(open_views[next]), {})
  <2>1. /\ \A c \in 1 .. REVEALED : open_views[next][c] \in Parties
        /\ Sorted(open_views[next])
    BY <1>1, <1>2, <1>4, OpenedViews
  <2> QED BY <1>1, <2>1, WalkBegins
<1>17. TypeOK'
  <2>1. <<>> \in Seq(TreeNodes) OBVIOUS
  <2>2. wit' \in [Executions -> Seq((Executions \X Parties) \union {Garbage})]
    <3> DEFINE v == [c \in 1 .. REVEALED |-> <<e, open_views[e][c]>>]
    <3>1. REVEALED \in Nat BY TreeAssumption, TopAndBottom
    <3>2. v \in [1 .. REVEALED -> (Executions \X Parties) \union {Garbage}] BY <1>2, <1>15
    <3>3. v \in Seq((Executions \X Parties) \union {Garbage})
      <4> HIDE DEF v
      <4> QED BY <3>1, <3>2
    <3> QED BY <1>1, <1>2, <3>3
  <2> QED BY <1>1, <1>2, <1>4, <1>6, <1>14, <1>16, <2>1, <2>2
      DEF TypeOK, OpenDone, building, drawing, parsing, checking
<1>18. CommitInv' /\ BuildInv' BY <1>1, <1>14, BuiltStep
<1>19. ViewsInv' BY <1>1, <1>14, ViewsStep
<1>20. RevealInv'
  <2>1. Opened' = OpenedBy(open_views[next]) BY <1>1 DEF Opened
  <2>2. {revealed'[k] : k \in DOMAIN revealed'} = {} BY <1>1
  <2>3. InOrder(revealed') BY <1>1 DEF InOrder
  <2> QED BY <1>16, <2>1, <2>2, <2>3 DEF RevealInv
<1>21. SignatureInv'
  <2>1. w[0] = 0 /\ \A x \in 0 .. e + 1 : w[x] <= x * MAX_OPEN_LEAVES
    <3>1. 0 \in 0 .. e BY <1>8
    <3>2. \A x \in 0 .. e + 1 : x \in 0 .. e \/ x = e + 1 BY <1>8
    <3> QED BY <1>7, <1>10, <1>11, <3>1, <3>2
  <2>2. ASSUME NEW x \in 0 .. (e + 1) - 1
        PROVE  \E s \in PathsOf(OpenedBy(open_views[x])) :
                   /\ w[x + 1] = w[x] + Len(s)
                   /\ \A k \in DOMAIN s : \/ cv_info'[w[x] + k] = <<x, s[k]>>
                                          \/ fault' = "path" /\ cv_info'[w[x] + k] = Garbage
    <3>1. CASE x = e
      <4>1. revealed \in PathsOf(OpenedBy(open_views[x])) BY <1>3, <3>1 DEF S, Opened
      <4>2. w[x] = Len(cv_info) /\ w[x + 1] = w[x] + Len(revealed) BY <1>7, <1>8, <1>10, <3>1
      <4>3. \A k \in DOMAIN revealed : cv_info'[w[x] + k] = <<x, revealed[k]>>
        BY <1>5, <1>6, <3>1, <4>2
      <4>4. \A k \in DOMAIN revealed : \/ cv_info'[w[x] + k] = <<x, revealed[k]>>
                                       \/ fault' = "path" /\ cv_info'[w[x] + k] = Garbage
        BY <4>3
      <4> QED BY <4>1, <4>2, <4>4
    <3>2. CASE x # e
      <4>1. x \in 0 .. e - 1 /\ x \in 0 .. e /\ x + 1 \in 0 .. e /\ e \in 0 .. e /\ x + 1 <= e
            /\ x \in Executions
        BY <1>2, <1>8, <3>2 DEF Executions
      <4>2. PICK s \in PathsOf(OpenedBy(open_views[x])) :
               o[x + 1] = o[x] + Len(s) /\ HasPath(x, o[x], s)
        BY <1>7, <4>1
      <4>3. w[x + 1] = w[x] + Len(s) /\ w[x] = o[x] BY <1>10, <4>1, <4>2
      <4>4. DOMAIN s = 1 .. Len(s) /\ Len(s) \in Nat
        <5>1. OpenedBy(open_views[x]) \in SUBSET Level(LOG_PARTIES) BY <1>1, <1>2, <4>1, OpenedViews
        <5> QED BY <5>1, PathFacts
      <4>5. ASSUME NEW k \in DOMAIN s PROVE cv_info'[o[x] + k] = <<x, s[k]>>
        <5>1. o[x + 1] <= o[e] /\ o[x] \in Nat /\ o[e] \in Nat BY <1>9, <4>1
        <5>2. o[x] + k \in 1 .. Len(cv_info)
          <6>1. k \in Nat /\ 1 <= k /\ k <= Len(s) BY <4>4
          <6>2. o[x] + k <= o[x + 1] /\ o[x + 1] <= o[e] /\ o[e] = Len(cv_info)
            BY <1>6, <1>7, <4>2, <4>4, <5>1, <6>1
          <6>3. o[x] + k \in Nat /\ 1 <= o[x] + k BY <5>1, <6>1
          <6>4. o[x + 1] \in Nat BY <4>2, <4>4, <5>1
          <6> QED BY <5>1, <6>2, <6>3, <6>4
        <5>3. cv_info[o[x] + k] = <<x, s[k]>> BY <1>2, <4>2 DEF HasPath
        <5> QED BY <1>6, <5>2, <5>3
      <4>6. \A k \in DOMAIN s : \/ cv_info'[w[x] + k] = <<x, s[k]>>
                                \/ fault' = "path" /\ cv_info'[w[x] + k] = Garbage
        BY <4>3, <4>5
      <4> QED BY <4>2, <4>3, <4>6
    <3> QED BY <3>1, <3>2
  <2>3. pc' # "parse" /\ fault' = "none" BY <1>1, <1>2, <1>14
  <2>4. Opens' = e + 1 /\ open_views' = open_views /\ Len(cv_info') = w[Opens'] BY <1>1, <1>13, <1>14
  <2> QED BY <1>12, <2>1, <2>2, <2>3, <2>4 DEF SignatureInv, HasPath
<1>22. WitInv'
  <2> SUFFICES ASSUME NEW x \in 0 .. (e + 1) - 1
               PROVE  wit'[x] = [c \in 1 .. REVEALED |->
                                   IF BadShare(x)' /\ c = REVEALED THEN Garbage
                                   ELSE <<x, open_views[x][c]>>]
    BY <1>1, <1>14 DEF WitInv
  <2>1. ~BadShare(x)' /\ ~BadShare(x) BY <1>1, <1>2 DEF BadShare
  <2>2. CASE x = e BY <1>1, <1>2, <2>1, <2>2
  <2>3. CASE x # e
    <3>1. x \in 0 .. Opens - 1 /\ x \in Executions BY <1>1, <1>2, <1>8, <2>3 DEF Opens, Executions
    <3>2. wit[x] = [c \in 1 .. REVEALED |-> IF BadShare(x) /\ c = REVEALED THEN Garbage
                                            ELSE <<x, open_views[x][c]>>]
      BY <1>1, <3>1 DEF IInv, WitInv
    <3>3. wit'[x] = wit[x] BY <1>1, <1>2, <2>3, <3>1
    <3> QED BY <2>1, <3>2, <3>3
  <2> QED BY <2>2, <2>3
<1>23. FaultInv' BY <1>1, <1>2, <1>14 DEF FaultInv
<1>24. ParsedInv' /\ RecommitInv' /\ RootInv' /\ RootsInv' /\ Accepted'
  BY <1>14 DEF ParsedInv, RecommitInv, RootInv, RootsInv, Accepted
<1> QED BY <1>17, <1>18, <1>19, <1>20, <1>21, <1>22, <1>23, <1>24 DEF IInv

\* What an execution has in the signature ends where the next begins.
LEMMA InSignature ==
  ASSUME IInv, pc \in {"open", "sent", "parse"}, NEW n \in 0 .. EXECUTIONS,
         NEW o \in [0 .. EXECUTIONS -> 0 .. EXECUTIONS * MAX_OPEN_LEAVES],
         \A x \in 0 .. n - 1 : \E s \in PathsOf(OpenedBy(open_views[x])) : o[x + 1] = o[x] + Len(s),
         NEW y \in 0 .. n - 1, NEW s \in PathsOf(OpenedBy(open_views[y])), o[y + 1] = o[y] + Len(s)
  PROVE  /\ o[y] \in Nat /\ o[y + 1] \in Nat /\ o[n] \in Nat /\ o[y + 1] <= o[n]
         /\ Len(s) \in Nat /\ DOMAIN s = 1 .. Len(s)
         /\ \A k \in 1 .. Len(s) : o[y] + k \in 1 .. o[n]
<1>1. EXECUTIONS \in Nat \ {0} BY TreeAssumption
<1>2. y \in Executions /\ y \in 0 .. n /\ y + 1 \in 0 .. n /\ n \in 0 .. n /\ y + 1 <= n
  BY <1>1 DEF Executions
<1>3. /\ \A x \in 0 .. n : o[x] \in Nat
      /\ \A a, b \in 0 .. n : a <= b => o[a] <= o[b]
  BY Offsets
<1>4. OpenedBy(open_views[y]) \in SUBSET Level(LOG_PARTIES) BY <1>2, OpenedViews DEF IInv
<1>5. Len(s) \in Nat /\ DOMAIN s = 1 .. Len(s) BY <1>4, PathFacts
<1> QED BY <1>2, <1>3, <1>5

\* What may happen to the signature.
LEMMA Delivered ==
  ASSUME IInv, Deliver
  PROVE  /\ cv_info' \in Seq(Digests) /\ Len(cv_info') \in Nat /\ Len(cv_info) \in Nat
         /\ fault' \in {"none", "longer", "shorter", "path", "share"}
         /\ fault' \in {"longer", "shorter"} => Len(cv_info') # Len(cv_info)
         /\ fault' \notin {"longer", "shorter"} =>
              /\ Len(cv_info') = Len(cv_info)
              /\ \A j \in 1 .. Len(cv_info) : \/ cv_info'[j] = cv_info[j]
                                              \/ fault' = "path" /\ cv_info'[j] = Garbage
         /\ fault' = "path" => \E k \in DOMAIN cv_info' : cv_info'[k] = Garbage
         /\ wit' = IF fault' = "share" THEN [wit EXCEPT ![EXECUTIONS - 1][REVEALED] = Garbage]
                   ELSE wit
<1>1. cv_info \in Seq(Digests) /\ Garbage \in Digests BY DEF IInv, TypeOK, Digests
<1>2. Len(cv_info) \in Nat /\ DOMAIN cv_info = 1 .. Len(cv_info) BY <1>1
<1>3. CASE fault' = "none" /\ UNCHANGED <<cv_info, wit>> BY <1>1, <1>2, <1>3
<1>4. CASE fault' = "longer" /\ cv_info' = Append(cv_info, Garbage) /\ UNCHANGED wit
  <2>1. cv_info' \in Seq(Digests) /\ Len(cv_info') = Len(cv_info) + 1
    BY <1>1, <1>4, AppendProperties
  <2>2. Len(cv_info') \in Nat /\ Len(cv_info') # Len(cv_info)
    <3> DEFINE l == Len(cv_info)
               k == Len(cv_info')
    <3>1. l \in Nat /\ k = l + 1 BY <1>2, <2>1
    <3> HIDE DEF l, k
    <3>2. k \in Nat /\ k # l BY <3>1
    <3> QED BY <3>2 DEF k, l
  <2>3. fault' = "longer" /\ wit' = wit BY <1>4
  <2> QED BY <1>2, <2>1, <2>2, <2>3
<1>5. CASE /\ fault' = "shorter" /\ cv_info # <<>>
           /\ cv_info' = SubSeq(cv_info, 1, Len(cv_info) - 1) /\ UNCHANGED wit
  <2>1. Len(cv_info) # 0 BY <1>1, <1>5, EmptySeq
  <2>2. cv_info' \in Seq(Digests) /\ Len(cv_info') = Len(cv_info) - 1
    BY <1>1, <1>2, <1>5, <2>1
  <2>3. Len(cv_info') \in Nat /\ Len(cv_info') # Len(cv_info)
    <3> DEFINE l == Len(cv_info)
               k == Len(cv_info')
    <3>1. l \in Nat /\ l # 0 /\ k = l - 1 BY <1>2, <2>1, <2>2
    <3> HIDE DEF l, k
    <3>2. k \in Nat /\ k # l BY <3>1
    <3> QED BY <3>2 DEF k, l
  <2>4. fault' = "shorter" /\ wit' = wit BY <1>5
  <2> QED BY <1>2, <2>2, <2>3, <2>4
<1>6. CASE /\ fault' = "path" /\ UNCHANGED wit
           /\ \E k \in {1, Len(cv_info)} \intersect DOMAIN cv_info :
                cv_info' = [cv_info EXCEPT ![k] = Garbage]
  <2>1. PICK k \in DOMAIN cv_info : cv_info' = [cv_info EXCEPT ![k] = Garbage] BY <1>6
  <2>2. cv_info' \in Seq(Digests) /\ Len(cv_info') = Len(cv_info)
    BY <1>1, <2>1
  <2>3. cv_info'[k] = Garbage /\ k \in DOMAIN cv_info' BY <1>1, <2>1
  <2>4. \A j \in 1 .. Len(cv_info) : cv_info'[j] = cv_info[j] \/ cv_info'[j] = Garbage
    BY <1>2, <2>1
  <2> QED BY <1>2, <1>6, <2>2, <2>3, <2>4
<1>7. CASE /\ fault' = "share" /\ UNCHANGED cv_info
           /\ wit' = [wit EXCEPT ![EXECUTIONS - 1][REVEALED] = Garbage]
  BY <1>1, <1>2, <1>7
<1> QED BY <1>3, <1>4, <1>5, <1>6, <1>7 DEF Deliver

LEMMA DeliverOK ==
  ASSUME IInv, Deliver
  PROVE  IInv'
<1>1. /\ pc = "sent" /\ pc' = "parse" /\ e' = e /\ i' = i /\ tree' = tree
      /\ drawing' = drawing /\ open_views' = open_views /\ queue' = queue /\ revealed' = revealed
      /\ bytes_required' = bytes_required
  BY DEF Deliver, building, drawing, opening, parsing
<1>2. /\ TypeOK /\ ViewsInv /\ fault = "none" /\ i = 0 /\ bytes_required = 0 /\ e = 0
      /\ wit \in [Executions -> Seq((Executions \X Parties) \union {Garbage})]
      /\ EXECUTIONS \in Nat \ {0} /\ REVEALED \in Nat \ {0}
  <2>1. TypeOK /\ ViewsInv /\ FaultInv BY DEF IInv
  <2>2. fault = "none" /\ i = 0 /\ bytes_required = 0 /\ e = 0 BY <1>1, <2>1 DEF FaultInv
  <2>3. wit \in [Executions -> Seq((Executions \X Parties) \union {Garbage})]
    BY <2>1 DEF TypeOK
  <2> QED BY <2>1, <2>2, <2>3, TreeAssumption, TopAndBottom
<1>3. Opens = EXECUTIONS /\ Opens' = EXECUTIONS BY <1>1 DEF Opens
<1>4. \A x \in Executions : wit[x] = [c \in 1 .. REVEALED |-> <<x, open_views[x][c]>>]
  <2>1. \A x \in Executions : ~BadShare(x) /\ x \in 0 .. EXECUTIONS - 1
    BY <1>2 DEF BadShare, Executions
  <2> QED BY <1>1, <1>3, <2>1 DEF IInv, WitInv
<1>5. EXECUTIONS - 1 \in Executions /\ REVEALED \in 1 .. REVEALED BY <1>2 DEF Executions
<1>6. \A x \in Executions : wit'[x] = [c \in 1 .. REVEALED |->
         IF BadShare(x)' /\ c = REVEALED THEN Garbage ELSE <<x, open_views[x][c]>>]
  <2> SUFFICES ASSUME NEW x \in Executions
               PROVE  wit'[x] = [c \in 1 .. REVEALED |->
                        IF BadShare(x)' /\ c = REVEALED THEN Garbage ELSE <<x, open_views[x][c]>>]
    OBVIOUS
  <2>1. BadShare(x)' <=> fault' = "share" /\ x = EXECUTIONS - 1 BY DEF BadShare
  <2>2. wit' = IF fault' = "share" THEN [wit EXCEPT ![EXECUTIONS - 1][REVEALED] = Garbage] ELSE wit
    BY Delivered
  <2>3. CASE fault' = "share" /\ x = EXECUTIONS - 1
    <3>1. wit'[x] = [wit[x] EXCEPT ![REVEALED] = Garbage] BY <1>2, <2>2, <2>3
    <3>2. wit[x] = [c \in 1 .. REVEALED |-> <<x, open_views[x][c]>>] BY <1>4
    <3>3. wit'[x] = [c \in 1 .. REVEALED |-> IF c = REVEALED THEN Garbage ELSE <<x, open_views[x][c]>>]
      BY <1>5, <3>1, <3>2
    <3> QED BY <2>1, <2>3, <3>3
  <2>4. CASE ~(fault' = "share" /\ x = EXECUTIONS - 1)
    <3>1. wit'[x] = wit[x] BY <1>2, <1>5, <2>2, <2>4
    <3> QED BY <1>4, <2>1, <2>4, <3>1
  <2> QED BY <2>3, <2>4
<1>7. TypeOK'
  <2>1. wit' \in [Executions -> Seq((Executions \X Parties) \union {Garbage})]
    <3>1. wit' \in [Executions -> Seq((Executions \X Parties) \union {Garbage})]
          \/ wit' = [wit EXCEPT ![EXECUTIONS - 1][REVEALED] = Garbage]
      BY <1>2, Delivered
    <3>2. ASSUME wit' = [wit EXCEPT ![EXECUTIONS - 1][REVEALED] = Garbage]
          PROVE  wit' \in [Executions -> Seq((Executions \X Parties) \union {Garbage})]
      <4> DEFINE G == (Executions \X Parties) \union {Garbage}
                 v == [wit[EXECUTIONS - 1] EXCEPT ![REVEALED] = Garbage]
      <4>1. wit[EXECUTIONS - 1] \in Seq(G) /\ Garbage \in G BY <1>2, <1>5
      <4>2. DOMAIN wit[EXECUTIONS - 1] = 1 .. REVEALED BY <1>4, <1>5
      <4>3. v \in Seq(G)
        <5> DEFINE t == wit[EXECUTIONS - 1]
        <5>1. t \in Seq(G) /\ Garbage \in G /\ DOMAIN t = 1 .. REVEALED BY <4>1, <4>2
        <5> HIDE DEF G, t
        <5>2. t \in [1 .. REVEALED -> G] BY <5>1, LenProperties
        <5> DEFINE z == [t EXCEPT ![REVEALED] = Garbage]
        <5>3. z \in [1 .. REVEALED -> G] BY <5>1, <5>2
        <5>4. REVEALED \in Nat BY <1>2
        <5> HIDE DEF z
        <5>5. z \in Seq(G) BY <5>3, <5>4
        <5> QED BY <5>5 DEF t, z
      <4> HIDE DEF G
      <4>4. wit' = [wit EXCEPT ![EXECUTIONS - 1] = v] BY <3>2
      <4>5. wit \in [Executions -> Seq(G)] BY <1>2 DEF G
      <4> HIDE DEF v
      <4>6. wit' \in [Executions -> Seq(G)] BY <1>5, <4>3, <4>4, <4>5
      <4> QED BY <4>6 DEF G
    <3> QED BY <3>1, <3>2
  <2>2. cv_info' \in Seq(Digests) /\ fault' \in {"none", "longer", "shorter", "path", "share"}
    BY Delivered
  <2> QED BY <1>1, <1>2, <2>1, <2>2
      DEF TypeOK, Deliver, building, drawing, opening, parsing, checking
<1>8. CommitInv' /\ BuildInv' BY <1>1, BuiltStep
<1>9. ViewsInv' BY <1>1, ViewsStep
<1>10. RevealInv'
  <2>1. RevealInv BY DEF IInv
  <2>2. Opened' = Opened BY <1>1 DEF Opened
  <2> QED BY <1>1, <2>1, <2>2 DEF RevealInv
<1>11. SignatureInv'
  <2>1. PICK o \in [0 .. EXECUTIONS -> 0 .. EXECUTIONS * MAX_OPEN_LEAVES] :
          /\ o[0] = 0 /\ \A x \in 0 .. EXECUTIONS : o[x] <= x * MAX_OPEN_LEAVES
          /\ Len(cv_info) = o[EXECUTIONS]
          /\ \A x \in 0 .. EXECUTIONS - 1 : \E s \in PathsOf(OpenedBy(open_views[x])) :
                o[x + 1] = o[x] + Len(s) /\ HasPath(x, o[x], s)
    <3>1. SignatureInv BY DEF IInv
    <3>2. fault \notin {"longer", "shorter"} BY <1>2
    <3> QED BY <1>1, <1>3, <3>1, <3>2 DEF SignatureInv
  <2>2. ASSUME NEW x \in 0 .. EXECUTIONS - 1
        PROVE  \E s \in PathsOf(OpenedBy(open_views[x])) :
                 /\ o[x + 1] = o[x] + Len(s)
                 /\ fault' \notin {"longer", "shorter"} =>
                      \A k \in DOMAIN s : \/ cv_info'[o[x] + k] = <<x, s[k]>>
                                          \/ fault' = "path" /\ cv_info'[o[x] + k] = Garbage
    <3>1. PICK s \in PathsOf(OpenedBy(open_views[x])) :
             o[x + 1] = o[x] + Len(s) /\ HasPath(x, o[x], s)
      BY <2>1
    <3>2. EXECUTIONS \in 0 .. EXECUTIONS BY <1>2
    <3>3. \A z \in 0 .. EXECUTIONS - 1 : \E t \in PathsOf(OpenedBy(open_views[z])) :
             o[z + 1] = o[z] + Len(t)
      BY <2>1
    <3>4. DOMAIN s = 1 .. Len(s) /\ \A k \in 1 .. Len(s) : o[x] + k \in 1 .. o[EXECUTIONS]
      BY <1>1, <3>1, <3>2, <3>3, InSignature
    <3>5. ASSUME fault' \notin {"longer", "shorter"}, NEW k \in DOMAIN s
          PROVE  \/ cv_info'[o[x] + k] = <<x, s[k]>>
                 \/ fault' = "path" /\ cv_info'[o[x] + k] = Garbage
      <4>1. cv_info[o[x] + k] = <<x, s[k]>> BY <1>2, <3>1 DEF HasPath
      <4>2. o[x] + k \in 1 .. Len(cv_info) BY <2>1, <3>4
      <4> QED BY <3>5, <4>1, <4>2, Delivered
    <3> QED BY <3>1, <3>5
  <2>3. /\ fault' \in {"longer", "shorter"} => Len(cv_info') # o[EXECUTIONS]
        /\ fault' \notin {"longer", "shorter"} => Len(cv_info') = o[EXECUTIONS]
    BY <2>1, Delivered
  <2>4. /\ bytes_required' = o[e'] /\ e' = 0
        /\ \A x \in 0 .. e' - 1 : cv_at'[x] = o[x] /\ len_cv_info'[x] = o[x + 1] - o[x]
    BY <1>1, <1>2, <2>1
  <2> QED BY <1>1, <1>3, <2>1, <2>2, <2>3, <2>4 DEF SignatureInv, HasPath
<1>12. WitInv'
  <2>1. \A x \in 0 .. EXECUTIONS - 1 : x \in Executions BY DEF Executions
  <2> QED BY <1>1, <1>3, <1>6, <2>1 DEF WitInv
<1>13. FaultInv'
  <2>1. fault' = "path" => \E k \in DOMAIN cv_info' : cv_info'[k] = Garbage BY Delivered
  <2> QED BY <1>1, <1>2, <2>1 DEF FaultInv
<1>14. ParsedInv' /\ RecommitInv' /\ RootInv' /\ RootsInv' /\ Accepted'
  BY <1>1 DEF ParsedInv, RecommitInv, RootInv, RootsInv, Accepted
<1> QED BY <1>7, <1>8, <1>9, <1>10, <1>11, <1>12, <1>13, <1>14 DEF IInv

\* A place in the signature belongs to the path of some execution.
LEMMA WhichPath ==
  ASSUME NEW n \in Nat, NEW o, \A x \in 0 .. n : o[x] \in Nat, o[0] = 0, NEW k \in 1 .. o[n]
  PROVE  \E x \in 0 .. n - 1 : o[x] < k /\ k <= o[x + 1]
<1> DEFINE B == {x \in 0 .. n : k <= o[x]}
<1>1. PICK x \in B : \A y \in B : ~(y < x)
  <2>1. B \in SUBSET Nat OBVIOUS
  <2>2. n \in B OBVIOUS
  <2> QED BY <2>1, <2>2, Least
<1>2. x # 0 BY <1>1
<1>3. x - 1 \in 0 .. n - 1 /\ x - 1 \in 0 .. n /\ (x - 1) + 1 = x /\ x - 1 < x BY <1>1, <1>2
<1>4. x - 1 \notin B BY <1>1, <1>3
<1>5. o[x - 1] \in Nat /\ k \in Nat /\ ~(k <= o[x - 1])
  <2>1. o[x - 1] \in Nat /\ ~(k <= o[x - 1]) BY <1>3, <1>4
  <2>2. o[n] \in Nat OBVIOUS
  <2> QED BY <2>1, <2>2
<1>6. o[x - 1] < k BY <1>5
<1>7. k <= o[(x - 1) + 1] BY <1>1, <1>3
<1> QED BY <1>3, <1>6, <1>7

\* What the parser finds out of the paths.
LEMMA Parsed ==
  ASSUME PathsFit, IInv, ParseDone
  PROVE  \E o \in [0 .. EXECUTIONS -> 0 .. EXECUTIONS * MAX_OPEN_LEAVES] :
    /\ o[0] = 0 /\ \A x \in 0 .. EXECUTIONS : o[x] <= x * MAX_OPEN_LEAVES
    /\ fault \in {"longer", "shorter"} => Len(cv_info) # o[EXECUTIONS]
    /\ fault \notin {"longer", "shorter"} => Len(cv_info) = o[EXECUTIONS]
    /\ \A x \in 0 .. EXECUTIONS - 1 :
         \E s \in PathsOf(OpenedBy(open_views[x])) :
            /\ o[x + 1] = o[x] + Len(s)
            /\ fault \notin {"longer", "shorter"} => HasPath(x, o[x], s)
    /\ bytes_required' = o[e + 1]
    /\ \A x \in 0 .. e : cv_at'[x] = o[x] /\ len_cv_info'[x] = o[x + 1] - o[x]
<1>1. /\ pc = "parse" /\ AtRoot(queue)
      /\ cv_at' = [cv_at EXCEPT ![e] = bytes_required]
      /\ len_cv_info' = [len_cv_info EXCEPT ![e] = Len(revealed)]
      /\ bytes_required' = bytes_required + Len(revealed)
  BY DEF ParseDone
<1>2. /\ TypeOK /\ ViewsInv /\ SignatureInv /\ e \in Executions /\ EXECUTIONS \in Nat \ {0}
      /\ cv_at \in [Executions -> Nat] /\ len_cv_info \in [Executions -> Nat]
      /\ bytes_required \in Nat
  BY TreeAssumption DEF IInv, TypeOK
<1>3. revealed \in PathsOf(Opened) /\ Opened \in SUBSET Level(LOG_PARTIES) BY <1>1, FoundPath
<1>4. Opens = EXECUTIONS BY <1>1 DEF Opens
<1>5. PICK o \in [0 .. EXECUTIONS -> 0 .. EXECUTIONS * MAX_OPEN_LEAVES] :
    /\ o[0] = 0 /\ \A x \in 0 .. EXECUTIONS : o[x] <= x * MAX_OPEN_LEAVES
    /\ fault \in {"longer", "shorter"} => Len(cv_info) # o[EXECUTIONS]
    /\ fault \notin {"longer", "shorter"} => Len(cv_info) = o[EXECUTIONS]
    /\ \A x \in 0 .. EXECUTIONS - 1 :
         \E s \in PathsOf(OpenedBy(open_views[x])) :
            /\ o[x + 1] = o[x] + Len(s)
            /\ fault \notin {"longer", "shorter"} => HasPath(x, o[x], s)
    /\ bytes_required = o[e]
    /\ \A x \in 0 .. e - 1 : cv_at[x] = o[x] /\ len_cv_info[x] = o[x + 1] - o[x]
  BY <1>1, <1>2, <1>4 DEF SignatureInv
<1>6. e \in 0 .. EXECUTIONS - 1 /\ e \in Nat BY <1>2 DEF Executions
<1>7. o[e + 1] = o[e] + Len(revealed)
  <2>1. PICK s \in PathsOf(Opened) : o[e + 1] = o[e] + Len(s) BY <1>5, <1>6 DEF Opened
  <2>2. Len(s) = Len(revealed) BY <1>3, PathFacts
  <2> QED BY <2>1, <2>2
<1>8. ASSUME NEW x \in 0 .. e PROVE cv_at'[x] = o[x] /\ len_cv_info'[x] = o[x + 1] - o[x]
  <2>1. CASE x = e
    <3>1. o[e] \in Nat /\ Len(revealed) \in Nat BY <1>2, <1>3, <1>5, PathFacts
    <3>2. len_cv_info'[x] = Len(revealed) /\ cv_at'[x] = o[x] BY <1>1, <1>2, <1>5, <2>1
    <3> QED BY <1>7, <2>1, <3>1, <3>2
  <2>2. CASE x # e
    <3>1. x \in 0 .. e - 1 /\ x \in Executions BY <1>2, <1>6, <2>2 DEF Executions
    <3>2. cv_at'[x] = cv_at[x] /\ len_cv_info'[x] = len_cv_info[x] BY <1>1, <1>2, <2>2, <3>1
    <3> QED BY <1>5, <3>1, <3>2
  <2> QED BY <2>1, <2>2
<1>9. bytes_required' = o[e + 1] BY <1>1, <1>5, <1>7
<1> QED BY <1>5, <1>8, <1>9

\* The next path is looked for.
LEMMA ParseNextOK ==
  ASSUME PathsFit, IInv, ParseDone, e + 1 < EXECUTIONS
  PROVE  IInv'
<1>1. /\ pc = "parse" /\ pc' = "parse" /\ e' = e + 1 /\ i' = i /\ tree' = tree /\ fault' = fault
      /\ drawing' = drawing /\ open_views' = open_views /\ cv_info' = cv_info /\ wit' = wit
      /\ queue' = NewQueue(open_views[e + 1]) /\ revealed' = <<>>
      /\ cv_at' = [cv_at EXCEPT ![e] = bytes_required]
      /\ len_cv_info' = [len_cv_info EXCEPT ![e] = Len(revealed)]
      /\ bytes_required' = bytes_required + Len(revealed)
  BY DEF ParseDone, Walk, building, drawing, signature
<1>2. TypeOK /\ ViewsInv /\ e \in Executions /\ EXECUTIONS \in Nat \ {0} /\ bytes_required \in Nat
      /\ Len(revealed) \in Nat
  BY TreeAssumption DEF IInv, TypeOK
<1>3. e + 1 \in Executions BY <1>2 DEF Executions
<1>4. queue' \in Queues /\ Walks(queue', OpenedBy(open_views[e + 1]), {})
  <2>1. /\ \A c \in 1 .. REVEALED : open_views[e + 1][c] \in Parties
        /\ Sorted(open_views[e + 1])
    BY <1>1, <1>2, <1>3, OpenedViews
  <2> QED BY <1>1, <2>1, WalkBegins
<1>5. TypeOK'
  <2>1. <<>> \in Seq(TreeNodes) OBVIOUS
  <2>2. bytes_required' \in Nat BY <1>1, <1>2
  <2> QED BY <1>1, <1>2, <1>3, <1>4, <2>1, <2>2
      DEF TypeOK, ParseDone, building, drawing, signature
<1>6. CommitInv' /\ BuildInv' BY <1>1, BuiltStep
<1>7. ViewsInv' BY <1>1, ViewsStep
<1>8. RevealInv'
  <2>1. Opened' = OpenedBy(open_views[e + 1]) BY <1>1 DEF Opened
  <2>2. {revealed'[k] : k \in DOMAIN revealed'} = {} BY <1>1
  <2>3. InOrder(revealed') BY <1>1 DEF InOrder
  <2> QED BY <1>4, <2>1, <2>2, <2>3 DEF RevealInv
<1>9. SignatureInv'
  <2>1. PICK o \in [0 .. EXECUTIONS -> 0 .. EXECUTIONS * MAX_OPEN_LEAVES] :
      /\ o[0] = 0 /\ \A x \in 0 .. EXECUTIONS : o[x] <= x * MAX_OPEN_LEAVES
      /\ fault \in {"longer", "shorter"} => Len(cv_info) # o[EXECUTIONS]
      /\ fault \notin {"longer", "shorter"} => Len(cv_info) = o[EXECUTIONS]
      /\ \A x \in 0 .. EXECUTIONS - 1 :
           \E s \in PathsOf(OpenedBy(open_views[x])) :
              /\ o[x + 1] = o[x] + Len(s)
              /\ fault \notin {"longer", "shorter"} => HasPath(x, o[x], s)
      /\ bytes_required' = o[e + 1]
      /\ \A x \in 0 .. e : cv_at'[x] = o[x] /\ len_cv_info'[x] = o[x + 1] - o[x]
    BY Parsed
  <2>2. Opens' = EXECUTIONS BY <1>1 DEF Opens
  <2>3. ASSUME NEW x \in 0 .. EXECUTIONS - 1
        PROVE  \E s \in PathsOf(OpenedBy(open_views[x])) :
                 /\ o[x + 1] = o[x] + Len(s)
                 /\ fault' \notin {"longer", "shorter"} =>
                      \A k \in DOMAIN s : \/ cv_info'[o[x] + k] = <<x, s[k]>>
                                          \/ fault' = "path" /\ cv_info'[o[x] + k] = Garbage
    BY <1>1, <2>1 DEF HasPath
  <2>4. /\ fault' \in {"longer", "shorter"} => Len(cv_info') # o[EXECUTIONS]
        /\ fault' \notin {"longer", "shorter"} => Len(cv_info') = o[EXECUTIONS]
    BY <1>1, <2>1
  <2>5. /\ bytes_required' = o[e']
        /\ \A x \in 0 .. e' - 1 : cv_at'[x] = o[x] /\ len_cv_info'[x] = o[x + 1] - o[x]
    <3>1. e' = e + 1 /\ (e + 1) - 1 = e BY <1>1, <1>2 DEF Executions
    <3> QED BY <2>1, <3>1
  <2>6. open_views' = open_views BY <1>1
  <2> QED BY <2>1, <2>2, <2>3, <2>4, <2>5, <2>6 DEF SignatureInv, HasPath
<1>10. WitInv'
  <2>1. WitInv /\ Opens' = Opens BY <1>1 DEF IInv, Opens
  <2>2. \A x : BadShare(x)' <=> BadShare(x) BY <1>1 DEF BadShare
  <2> QED BY <1>1, <2>1, <2>2 DEF WitInv
<1>11. FaultInv'
  <2>1. FaultInv BY DEF IInv
  <2> QED BY <1>1, <2>1 DEF FaultInv
<1>12. ParsedInv' /\ RecommitInv' /\ RootInv' /\ RootsInv' /\ Accepted'
  BY <1>1 DEF ParsedInv, RecommitInv, RootInv, RootsInv, Accepted
<1> QED BY <1>5, <1>6, <1>7, <1>8, <1>9, <1>10, <1>11, <1>12 DEF IInv

\* A path without a fault has no Garbage.
LEMMA NotGarbage ==
  ASSUME NEW S \in SUBSET Level(LOG_PARTIES), NEW s \in PathsOf(S), NEW x \in Executions,
         NEW k \in 1 .. Len(s)
  PROVE  Garbage # <<x, s[k]>> /\ s[k] \in TreeNodes
<1>1. s \in [1 .. Len(s) -> NeededBy(S)] BY PathFacts
<1>2. s[k] \in TreeNodes BY <1>1 DEF NeededBy
<1>3. LastLeaf \in Nat BY TopAndBottom
<1>4. s[k] \in 0 .. LastLeaf BY <1>2, <1>3 DEF TreeNodes
<1> QED BY <1>2, <1>4, DigestAssumption

\* The last path is found.
LEMMA ParseLastOK ==
  ASSUME PathsFit, IInv, ParseDone, ~(e + 1 < EXECUTIONS)
  PROVE  IInv'
<1>1. /\ pc = "parse" /\ e' = 0 /\ i' = i /\ tree' = tree /\ fault' = fault
      /\ drawing' = drawing /\ open_views' = open_views /\ cv_info' = cv_info /\ wit' = wit
      /\ queue' = queue /\ revealed' = revealed
      /\ cv_at' = [cv_at EXCEPT ![e] = bytes_required]
      /\ len_cv_info' = [len_cv_info EXCEPT ![e] = Len(revealed)]
      /\ bytes_required' = bytes_required + Len(revealed)
      /\ \/ Len(cv_info) = bytes_required' /\ pc' = "recommit" /\ ok' = ok
         \/ Len(cv_info) # bytes_required' /\ pc' = "returned" /\ ok' = FALSE
  BY DEF ParseDone, Return, building, drawing, opening, signature
<1>2. /\ TypeOK /\ ViewsInv /\ e \in Executions /\ EXECUTIONS \in Nat \ {0}
      /\ bytes_required \in Nat /\ Len(revealed) \in Nat /\ REVEALED \in Nat
      /\ fault \in {"none", "longer", "shorter", "path", "share"}
      /\ Len(cv_info) \in Nat /\ DOMAIN cv_info = 1 .. Len(cv_info) /\ i = 0
  <2>1. TypeOK /\ ViewsInv /\ FaultInv BY DEF IInv
  <2>2. /\ e \in Executions /\ bytes_required \in Nat /\ revealed \in Seq(TreeNodes)
        /\ fault \in {"none", "longer", "shorter", "path", "share"} /\ cv_info \in Seq(Digests)
    BY <2>1 DEF TypeOK
  <2>3. i = 0 BY <1>1, <2>1 DEF FaultInv
  <2>4. Len(revealed) \in Nat BY <2>2
  <2>5. Len(cv_info) \in Nat /\ DOMAIN cv_info = 1 .. Len(cv_info) BY <2>2
  <2> QED BY <2>1, <2>2, <2>3, <2>4, <2>5, TreeAssumption, TopAndBottom
<1>3. e + 1 = EXECUTIONS /\ e = EXECUTIONS - 1 /\ 0 \in Executions BY <1>2 DEF Executions
<1>4. PICK o \in [0 .. EXECUTIONS -> 0 .. EXECUTIONS * MAX_OPEN_LEAVES] :
    /\ o[0] = 0 /\ \A x \in 0 .. EXECUTIONS : o[x] <= x * MAX_OPEN_LEAVES
    /\ fault \in {"longer", "shorter"} => Len(cv_info) # o[EXECUTIONS]
    /\ fault \notin {"longer", "shorter"} => Len(cv_info) = o[EXECUTIONS]
    /\ \A x \in 0 .. EXECUTIONS - 1 :
         \E s \in PathsOf(OpenedBy(open_views[x])) :
            /\ o[x + 1] = o[x] + Len(s)
            /\ fault \notin {"longer", "shorter"} => HasPath(x, o[x], s)
    /\ bytes_required' = o[EXECUTIONS]
    /\ \A x \in 0 .. EXECUTIONS - 1 : cv_at'[x] = o[x] /\ len_cv_info'[x] = o[x + 1] - o[x]
  BY <1>3, Parsed
<1>5. TypeOK'
  <2>1. bytes_required' \in Nat
    <3>1. bytes_required' = bytes_required + Len(revealed) BY <1>1
    <3>2. bytes_required \in Nat /\ Len(revealed) \in Nat BY <1>2
    <3> QED BY <3>1, <3>2
  <2>2. pc' \in {"recommit", "returned"} /\ ok' \in BOOLEAN BY <1>1, <1>2 DEF TypeOK
  <2>3. /\ cv_at' \in [Executions -> Nat] /\ len_cv_info' \in [Executions -> Nat]
    BY <1>1, <1>2 DEF TypeOK
  <2>4. e' \in Executions /\ i' \in Nat BY <1>1, <1>2, <1>3
  <2>5. /\ UNCHANGED <<leaves, auth, auth_size, merkle_roots>>
        /\ UNCHANGED <<building, drawing, opening, signature>>
    BY <1>1, <1>3 DEF ParseDone, opening
  <2> QED BY <1>2, <2>1, <2>2, <2>3, <2>4, <2>5
      DEF TypeOK, building, drawing, opening, signature
<1>6. CommitInv' /\ BuildInv' BY <1>1, BuiltStep
<1>7. ViewsInv' BY <1>1, ViewsStep
<1>8. CASE Len(cv_info) # bytes_required'
  <2>1. pc' = "returned" /\ ok' = FALSE /\ fault' # "none" BY <1>1, <1>4, <1>8
  <2> QED BY <1>5, <1>6, <1>7, <2>1
      DEF IInv, RevealInv, SignatureInv, WitInv, FaultInv, ParsedInv, RecommitInv, RootInv, RootsInv,
          Accepted
<1>9. CASE Len(cv_info) = bytes_required'
  <2>1. pc' = "recommit" BY <1>1, <1>9
  <2>2. fault \notin {"longer", "shorter"} /\ Len(cv_info) = o[EXECUTIONS] BY <1>4, <1>9
  \* Where each path is, and what it is.
  <2>3. ASSUME NEW x \in Executions
        PROVE  \E s \in PathsOf(OpenedBy(open_views[x])) :
                 /\ Len(s) = len_cv_info'[x] /\ HasPath(x, o[x], s) /\ cv_at'[x] = o[x]
                 /\ o[x] + Len(s) <= Len(cv_info) /\ DOMAIN s = 1 .. Len(s)
                 /\ \A k \in 1 .. Len(s) : Garbage # <<x, s[k]>>
    <3>1. x \in 0 .. EXECUTIONS - 1 BY DEF Executions
    <3>2. PICK s \in PathsOf(OpenedBy(open_views[x])) : o[x + 1] = o[x] + Len(s) /\ HasPath(x, o[x], s)
      BY <1>4, <2>2, <3>1
    <3>3. \A z \in 0 .. EXECUTIONS - 1 : \E t \in PathsOf(OpenedBy(open_views[z])) :
             o[z + 1] = o[z] + Len(t)
      BY <1>4
    <3>4. EXECUTIONS \in 0 .. EXECUTIONS BY <1>2
    <3>5. /\ o[x] \in Nat /\ o[x + 1] <= o[EXECUTIONS] /\ Len(s) \in Nat /\ DOMAIN s = 1 .. Len(s)
      BY <1>1, <3>1, <3>2, <3>3, <3>4, InSignature
    <3>6. len_cv_info'[x] = Len(s) /\ cv_at'[x] = o[x] BY <1>4, <3>1, <3>2, <3>5
    <3>7. OpenedBy(open_views[x]) \in SUBSET Level(LOG_PARTIES) BY <1>1, <1>2, OpenedViews
    <3>8. \A k \in 1 .. Len(s) : Garbage # <<x, s[k]>> BY <3>7, NotGarbage
    <3>9. o[x] + Len(s) <= Len(cv_info) BY <2>2, <3>2, <3>5
    <3> QED BY <3>2, <3>5, <3>6, <3>8, <3>9
  <2>4. ParsedInv'
    <3> SUFFICES ASSUME NEW x \in Executions
                 PROVE  /\ cv_at'[x] + len_cv_info'[x] <= Len(cv_info')
                        /\ \E s \in PathsOf(OpenedBy(open_views'[x])) :
                             /\ Len(s) = len_cv_info'[x]
                             /\ \A k \in DOMAIN s :
                                  \/ cv_info'[cv_at'[x] + k] = <<x, s[k]>>
                                  \/ fault' = "path" /\ cv_info'[cv_at'[x] + k] = Garbage
      BY DEF ParsedInv, PathAt, HasPath
    <3>1. PICK s \in PathsOf(OpenedBy(open_views[x])) :
                 /\ Len(s) = len_cv_info'[x] /\ HasPath(x, o[x], s) /\ cv_at'[x] = o[x]
                 /\ o[x] + Len(s) <= Len(cv_info)
      BY <2>3
    <3> QED BY <1>1, <3>1 DEF HasPath
  <2>5. FaultInv'
    <3>1. fault' = "none" => \A x \in Executions : ~Spoilt(x)'
      <4> SUFFICES ASSUME fault' = "none", NEW x \in Executions, NEW k \in 1 .. len_cv_info'[x]
                   PROVE  cv_info'[cv_at'[x] + k] # Garbage
        BY DEF Spoilt, BadShare, BadPath
      <4>1. PICK s \in PathsOf(OpenedBy(open_views[x])) :
                   /\ Len(s) = len_cv_info'[x] /\ HasPath(x, o[x], s) /\ cv_at'[x] = o[x]
                   /\ DOMAIN s = 1 .. Len(s) /\ \A j \in 1 .. Len(s) : Garbage # <<x, s[j]>>
        BY <2>3
      <4>2. cv_info[o[x] + k] = <<x, s[k]>> BY <1>1, <4>1 DEF HasPath
      <4> QED BY <1>1, <4>1, <4>2
    <3>2. fault' = "share" => \E x \in Executions : Spoilt(x)'
      BY <1>2, <1>3 DEF Spoilt, BadShare
    <3>3. ASSUME fault' = "path" PROVE \E x \in Executions : Spoilt(x)'
      <4>1. PICK k \in 1 .. o[EXECUTIONS] : cv_info[k] = Garbage
        BY <1>1, <1>2, <2>2, <3>3 DEF IInv, FaultInv
      <4>2. \A x \in 0 .. EXECUTIONS : o[x] \in Nat
        <5>1. \A y \in 0 .. EXECUTIONS * MAX_OPEN_LEAVES : y \in Nat OBVIOUS
        <5> QED BY <5>1
      <4>3. PICK x \in 0 .. EXECUTIONS - 1 : o[x] < k /\ k <= o[x + 1]
        BY <1>2, <1>4, <4>2, WhichPath
      <4>4. x \in Executions /\ x \in 0 .. EXECUTIONS /\ x + 1 \in 0 .. EXECUTIONS
        BY <1>2 DEF Executions
      <4>5. o[x] \in Nat /\ o[x + 1] \in Nat /\ k \in Nat BY <1>2, <2>2, <4>2, <4>4
      <4>6. cv_at'[x] = o[x] /\ len_cv_info'[x] = o[x + 1] - o[x] BY <1>4
      <4>7. k - o[x] \in 1 .. len_cv_info'[x] /\ cv_at'[x] + (k - o[x]) = k
        BY <4>3, <4>5, <4>6
      <4>8. cv_info'[cv_at'[x] + (k - o[x])] = Garbage BY <1>1, <4>1, <4>7
      <4>9. BadPath(x)' BY <4>7, <4>8 DEF BadPath
      <4> QED BY <4>4, <4>9 DEF Spoilt
    <3>4. fault' # "none" => \E x \in Executions : Spoilt(x)'
      BY <1>1, <1>2, <2>2, <3>2, <3>3
    <3> QED BY <1>1, <1>2, <2>1, <2>2, <3>1, <3>4 DEF FaultInv
  <2>6. WitInv'
    <3>1. WitInv /\ Opens' = Opens BY <1>1, <2>1 DEF IInv, Opens
    <3>2. \A x : BadShare(x)' <=> BadShare(x) BY <1>1 DEF BadShare
    <3> QED BY <1>1, <2>1, <3>1, <3>2 DEF WitInv
  <2>7. RecommitInv' BY <1>1, <1>2, <2>1 DEF RecommitInv
  <2>8. RootsInv' BY <1>1, <2>1 DEF RootsInv
  <2>9. RevealInv' /\ SignatureInv' /\ RootInv' /\ Accepted'
    BY <2>1 DEF RevealInv, SignatureInv, RootInv, Accepted
  <2> QED BY <1>5, <1>6, <1>7, <2>4, <2>5, <2>6, <2>7, <2>8, <2>9 DEF IInv
<1> QED BY <1>8, <1>9

LEMMA ParseDoneOK ==
  ASSUME PathsFit, IInv, ParseDone
  PROVE  IInv'
BY ParseNextOK, ParseLastOK

-----------------------------------------------------------------------------
(* Verification *)

\* The verifier changes nothing of the signature nor of what was found in it.
LEMMA CheckStep ==
  ASSUME IInv, pc \in {"recommit", "root"}, pc' \in {"recommit", "root"},
         UNCHANGED <<tree, drawing, cv_info, wit, fault, cv_at, len_cv_info>>
  PROVE  /\ CommitInv' /\ BuildInv' /\ ViewsInv' /\ RevealInv' /\ SignatureInv' /\ WitInv'
         /\ FaultInv' /\ ParsedInv' /\ Accepted'
         /\ \A x : (BadShare(x)' <=> BadShare(x)) /\ (Spoilt(x)' <=> Spoilt(x))
<1>1. CommitInv' /\ BuildInv' BY BuiltStep
<1>2. ViewsInv' BY ViewsStep
<1>3. open_views' = open_views BY DEF drawing
<1>4. RevealInv' /\ SignatureInv' /\ Accepted' BY DEF RevealInv, SignatureInv, Accepted
<1>5. \A x : (BadShare(x)' <=> BadShare(x)) /\ (Spoilt(x)' <=> Spoilt(x))
  BY DEF BadShare, BadPath, Spoilt
<1>6. WitInv'
  <2>1. WitInv /\ Opens = EXECUTIONS /\ Opens' = EXECUTIONS BY DEF IInv, Opens
  <2> QED BY <1>3, <1>5, <2>1 DEF WitInv
<1>7. FaultInv'
  <2>1. FaultInv BY DEF IInv
  <2> QED BY <1>5, <2>1 DEF FaultInv
<1>8. ParsedInv'
  <2>1. ParsedInv BY DEF IInv
  <2> QED BY <1>3, <2>1 DEF ParsedInv, PathAt, HasPath
<1> QED BY <1>1, <1>2, <1>4, <1>5, <1>6, <1>7, <1>8

LEMMA RecommitOK ==
  ASSUME IInv, Recommit
  PROVE  IInv'
<1> DEFINE party == open_views[e][i + 1]
           leaf == IF wit[e][i + 1] = <<e, party>> THEN Leaf(e, party) ELSE Garbage
<1>1. /\ pc = "recommit" /\ i < REVEALED /\ pc' = pc /\ e' = e /\ i' = i + 1
      /\ leaves' = [leaves EXCEPT ![i] = leaf]
      /\ merkle_roots' = merkle_roots /\ open_views' = open_views
      /\ UNCHANGED <<tree, drawing, cv_info, wit, fault, cv_at, len_cv_info>>
  BY DEF Recommit, building, drawing, signature, parsing
<1>2. /\ TypeOK /\ ViewsInv /\ e \in Executions /\ i \in 0 .. REVEALED
      /\ leaves \in [Cells -> Digests] /\ RecommitInv
      /\ REVEALED \in Nat \ {0} /\ EXECUTIONS \in Nat \ {0}
  <2>1. TypeOK /\ ViewsInv /\ RecommitInv BY DEF IInv
  <2>2. e \in Executions /\ leaves \in [Cells -> Digests] BY <2>1 DEF TypeOK
  <2>3. i \in 0 .. REVEALED BY <1>1, <2>1 DEF RecommitInv
  <2> QED BY <2>1, <2>2, <2>3, TreeAssumption, TopAndBottom
<1>3. /\ CommitInv' /\ BuildInv' /\ ViewsInv' /\ RevealInv' /\ SignatureInv' /\ WitInv'
      /\ FaultInv' /\ ParsedInv' /\ Accepted'
      /\ \A x : (BadShare(x)' <=> BadShare(x)) /\ (Spoilt(x)' <=> Spoilt(x))
  BY <1>1, CheckStep
<1>4. i \in Cells /\ i + 1 \in 1 .. REVEALED BY <1>1, <1>2 DEF Cells
<1>5. party \in Parties BY <1>1, <1>2, <1>4, OpenedViews
<1>6. leaf = IF BadShare(e) /\ i = REVEALED - 1 THEN Garbage ELSE Leaf(e, party)
  <2>1. wit[e][i + 1] = IF BadShare(e) /\ i + 1 = REVEALED THEN Garbage ELSE <<e, party>>
    <3>1. e \in 0 .. Opens - 1 BY <1>1, <1>2 DEF Opens, Executions
    <3>2. wit[e] = [c \in 1 .. REVEALED |-> IF BadShare(e) /\ c = REVEALED THEN Garbage
                                            ELSE <<e, open_views[e][c]>>]
      BY <1>1, <3>1 DEF IInv, WitInv
    <3> QED BY <1>4, <3>2
  <2>2. Garbage # <<e, party>>
    <3>1. party \in 0 .. LastLeaf BY <1>5, TopAndBottom DEF Parties
    <3> QED BY <1>2, <3>1, DigestAssumption
  <2>3. i + 1 = REVEALED <=> i = REVEALED - 1 BY <1>2
  <2> QED BY <2>1, <2>2, <2>3
<1>7. leaf \in Digests BY <1>2, <1>5, LeafType DEF Digests
<1> HIDE DEF leaf
<1>8. TypeOK'
  <2>1. i' \in Nat /\ leaves' \in [Cells -> Digests]
    <3>1. i \in Nat /\ i' = i + 1 BY <1>1, <1>2
    <3>2. leaves' \in [Cells -> Digests] BY <1>1, <1>2, <1>7
    <3> QED BY <3>1, <3>2
  <2> QED BY <1>1, <1>2, <2>1
      DEF TypeOK, Recommit, building, drawing, opening, signature, parsing
<1>9. RecommitInv'
  <2>1. i + 1 \in 0 .. REVEALED BY <1>1, <1>2
  <2>2. ASSUME NEW c \in 0 .. i' - 1
        PROVE  leaves'[c] = IF BadShare(e) /\ c = REVEALED - 1 THEN Garbage
                            ELSE Leaf(e, open_views[e][c + 1])
    <3>1. CASE c = i BY <1>1, <1>2, <1>4, <1>6, <3>1
    <3>2. CASE c # i
      <4>1. c \in 0 .. i - 1 /\ c \in Cells BY <1>1, <1>2, <3>2 DEF Cells
      <4>2. leaves'[c] = leaves[c] BY <1>1, <1>2, <3>2, <4>1
      <4> QED BY <1>1, <1>2, <4>1, <4>2 DEF RecommitInv
    <3> QED BY <3>1, <3>2
  <2> QED BY <1>1, <1>3, <2>1, <2>2 DEF RecommitInv
<1>10. RootInv' BY <1>1 DEF RootInv
<1>11. RootsInv'
  <2>1. RootsInv BY DEF IInv
  <2> QED BY <1>1, <1>3, <2>1 DEF RootsInv
<1> QED BY <1>3, <1>8, <1>9, <1>10, <1>11 DEF IInv

LEMMA StartRootOK ==
  ASSUME IInv, StartRoot
  PROVE  IInv'
<1> DEFINE S == OpenedBy(open_views[e])
           q == NewQueue(open_views[e])
<1>1. /\ pc = "recommit" /\ i = REVEALED /\ pc' = "root" /\ e' = e /\ i' = 0
      /\ queue' = q /\ revealed' = <<>>
      /\ auth' = SubSeq(cv_info, cv_at[e] + 1, Len(cv_info)) /\ auth_size' = len_cv_info[e]
      /\ leaves' = leaves /\ merkle_roots' = merkle_roots /\ open_views' = open_views
      /\ UNCHANGED <<tree, drawing, cv_info, wit, fault, cv_at, len_cv_info>>
  BY DEF StartRoot, Walk, building, drawing, signature, parsing
<1>2. /\ TypeOK /\ ViewsInv /\ e \in Executions /\ cv_info \in Seq(Digests)
      /\ leaves \in [Cells -> Digests] /\ RecommitInv /\ ParsedInv /\ RootsInv
      /\ len_cv_info[e] \in Nat /\ cv_at[e] \in Nat
      /\ REVEALED \in Nat \ {0}
  <2>1. TypeOK /\ ViewsInv /\ RecommitInv /\ ParsedInv /\ RootsInv BY DEF IInv
  <2>2. /\ e \in Executions /\ cv_info \in Seq(Digests) /\ leaves \in [Cells -> Digests]
        /\ cv_at \in [Executions -> Nat] /\ len_cv_info \in [Executions -> Nat]
    BY <2>1 DEF TypeOK
  <2> QED BY <2>1, <2>2, TreeAssumption, TopAndBottom
<1>3. /\ CommitInv' /\ BuildInv' /\ ViewsInv' /\ RevealInv' /\ SignatureInv' /\ WitInv'
      /\ FaultInv' /\ ParsedInv' /\ Accepted'
      /\ \A x : (BadShare(x)' <=> BadShare(x)) /\ (Spoilt(x)' <=> Spoilt(x))
  BY <1>1, CheckStep
<1>4. /\ \A c \in 1 .. REVEALED : open_views[e][c] \in Parties
      /\ Sorted(open_views[e])
  BY <1>1, <1>2, OpenedViews
<1>5. /\ q \in Queues
      /\ \A k \in 0 .. REVEALED - 1 : Cell(q, k) = k /\ At(q, k) = FirstLeaf + open_views[e][k + 1]
      /\ WalkAt(q, S, LOG_PARTIES, REVEALED, REVEALED)
      /\ PathBefore(S, LOG_PARTIES, Index(q)) = {}
  BY <1>4, StartOfWalk
<1>6. Opened' = S BY <1>1 DEF Opened
<1> HIDE DEF S, q
<1>7. PICK s \in PathsOf(OpenedBy(open_views[e])) : PathAt(e, s) BY <1>1, <1>2 DEF ParsedInv
<1>8. Used' = 0 BY <1>1, <1>2 DEF Used
<1>9. \A k \in 0 .. REVEALED - 1 :
        leaves[k] = IF BadShare(e) /\ k = REVEALED - 1 THEN Garbage ELSE <<e, At(q, k)>>
  <2>1. \A k \in 0 .. REVEALED - 1 :
          leaves[k] = IF BadShare(e) /\ k = REVEALED - 1 THEN Garbage
                      ELSE Leaf(e, open_views[e][k + 1])
    BY <1>1, <1>2 DEF RecommitInv
  <2> QED BY <1>5, <2>1 DEF Leaf
<1>10. \A k \in 0 .. REVEALED - 1 : Garbage # <<e, At(q, k)>>
  <2>1. \A k \in 0 .. REVEALED - 1 : k + 1 \in 1 .. REVEALED BY <1>2
  <2>2. \A k \in 0 .. REVEALED - 1 : Leaf(e, open_views[e][k + 1]) # Garbage
    BY <1>2, <1>4, <2>1, LeafType
  <2> QED BY <1>5, <2>2 DEF Leaf
<1>11. TypeOK'
  <2>1. auth' \in Seq(Digests)
    <3>1. \A k \in cv_at[e] + 1 .. Len(cv_info) : cv_info[k] \in Digests BY <1>2
    <3> QED BY <1>1, <1>2, <3>1, SubSeqProperties
  <2>2. <<>> \in Seq(TreeNodes) OBVIOUS
  <2>3. /\ pc' = "root" /\ i' \in Nat /\ auth_size' \in Nat /\ queue' \in Queues
        /\ revealed' \in Seq(TreeNodes)
    BY <1>1, <1>2, <1>5, <2>2
  <2> QED BY <1>2, <2>1, <2>3
      DEF TypeOK, StartRoot, building, drawing, signature, parsing
<1>12. RecommitInv' BY <1>1 DEF RecommitInv
<1>13. RootInv'
  <2>1. auth_size' <= len_cv_info'[e'] BY <1>1, <1>2
  <2>2. auth' = SubSeq(cv_info', cv_at'[e'] + Used' + 1, Len(cv_info')) BY <1>1, <1>2, <1>8
  <2>3. PathAt(e, s)' BY <1>1, <1>7 DEF PathAt, HasPath
  <2>4. LOG_PARTIES \in 0 .. LOG_PARTIES /\ REVEALED \in 1 .. REVEALED BY <1>2, TreeAssumption
  <2>5. WalkAt(queue', Opened', LOG_PARTIES, REVEALED, REVEALED) BY <1>1, <1>5, <1>6
  <2>6. {s[k] : k \in 1 .. Used'} = PathBefore(Opened', LOG_PARTIES, Index(queue'))
    BY <1>1, <1>5, <1>6, <1>8
  <2>7. \A k \in 0 .. REVEALED - 1 :
          leaves'[Cell(queue', k)] \in {Garbage, <<e', At(queue', k)>>}
    BY <1>1, <1>5, <1>9
  <2>8. (\E k \in 0 .. REVEALED - 1 : leaves'[Cell(queue', k)] = Garbage)
          <=> (BadShare(e)' \/ \E k \in 1 .. Used' : cv_info'[cv_at'[e'] + k] = Garbage)
    <3>1. (\E k \in 0 .. REVEALED - 1 : leaves[k] = Garbage) <=> BadShare(e)
      <4>1. REVEALED - 1 \in 0 .. REVEALED - 1 BY <1>2
      <4> QED BY <1>9, <1>10, <4>1
    <3>2. \A k \in 0 .. REVEALED - 1 : leaves'[Cell(queue', k)] = leaves[k] BY <1>1, <1>5
    <3>3. BadShare(e)' <=> BadShare(e) BY <1>1 DEF BadShare
    <3>4. ~(\E k \in 1 .. Used' : cv_info'[cv_at'[e'] + k] = Garbage) BY <1>8
    <3> QED BY <3>1, <3>2, <3>3, <3>4
  <2> QED BY <1>1, <1>7, <2>1, <2>2, <2>3, <2>4, <2>5, <2>6, <2>7, <2>8 DEF RootInv
<1>14. RootsInv' BY <1>1, <1>2, <1>3 DEF RootsInv
<1> QED BY <1>3, <1>11, <1>12, <1>13, <1>14 DEF IInv

\* The same with the level of the children named.
LEMMA HashOfParent ==
  ASSUME NEW d \in 1 .. LOG_PARTIES, NEW n \in Level(d - 1), NEW x \in Executions,
         NEW a, NEW b, a = Garbage \/ a = <<x, 2 * n>>,
         2 * n + 1 \in Level(d) => b \in {Garbage, <<x, 2 * n + 1>>},
         2 * n + 1 \notin Level(d) => b = NULL
  PROVE  Hash(n, a, b) = IF a = Garbage \/ b = Garbage THEN Garbage ELSE <<x, n>>
<1>1. LOG_PARTIES \in Nat BY TreeAssumption
<1>2. d - 1 \in 0 .. LOG_PARTIES - 1 /\ (d - 1) + 1 = d BY <1>1
<1> DEFINE l == d - 1
<1>3. l \in 0 .. LOG_PARTIES - 1 /\ n \in Level(l) BY <1>2
<1>4. 2 * n + 1 \in Level(l + 1) => b \in {Garbage, <<x, 2 * n + 1>>} BY <1>2
<1>5. 2 * n + 1 \notin Level(l + 1) => b = NULL BY <1>2
<1> HIDE DEF l
<1>6. CASE a = Garbage
  <2>1. 2 * n \in Level(l + 1) /\ l + 1 \in 0 .. LOG_PARTIES BY <1>1, <1>3, ChildrenOf
  <2>2. 2 * n \in TreeNodes BY <2>1, DepthOf
  <2>3. \A y \in Executions : Garbage # <<y, 2 * n>> BY <2>2, DigestAssumption DEF TreeNodes
  <2> QED BY <1>6, <2>3 DEF Hash
<1>7. CASE a = <<x, 2 * n>> BY <1>3, <1>4, <1>5, <1>7, HashOf
<1> QED BY <1>6, <1>7

\* The digest that is computed is right if the one at the front and its sibling
\* are, wherever that comes from.
LEMMA DigestOfStep ==
  ASSUME NEW S \in SUBSET Level(LOG_PARTIES), queue \in Queues, e \in Executions,
         NEW d \in 1 .. LOG_PARTIES, NEW n \in 1 .. REVEALED, NEW m \in 1 .. n,
         WalkAt(queue, S, d, n, m),
         \A k \in 0 .. n - 1 : leaves[Cell(queue, k)] \in {Garbage, <<e, At(queue, k)>>},
         SiblingRevealed(queue) => auth[1] \in {Garbage, <<e, SiblingOf(queue)>>}
  PROVE  /\ Parent(queue) \in Level(d - 1)
         /\ Hash(Parent(queue), Pair[1], Pair[2])
              = IF \/ leaves[Cell(queue, 0)] = Garbage
                   \/ SiblingQueued(queue) /\ leaves[Cell(queue, 1)] = Garbage
                   \/ SiblingRevealed(queue) /\ auth[1] = Garbage
                THEN Garbage ELSE <<e, Parent(queue)>>
<1> DEFINE x == Index(queue)
           w == Parent(queue)
           node == leaves[queue.start]
           sibling == leaves[Following(queue.start)]
<1>1. LOG_PARTIES \in Nat /\ d - 1 \in 0 .. LOG_PARTIES - 1 /\ (d - 1) + 1 = d
      /\ d \in 0 .. LOG_PARTIES
  BY TreeAssumption
<1>2. x \in Level(d) /\ x \in Nat /\ x = At(queue, 0) BY <1>1, Front
<1>3. w \in Level(d - 1) /\ w = x \div 2 BY <1>2, ParentOf DEF Parent
<1>4. Cell(queue, 0) = queue.start /\ Cell(queue, 1) = Following(queue.start) BY CellsOf
<1>5. node \in {Garbage, <<e, x>>}
  <2>1. 0 \in 0 .. n - 1 OBVIOUS
  <2> QED BY <1>2, <1>4, <2>1
<1>6. /\ NoSibling(queue) <=> x % 2 = 0 /\ x = Last(d)
      /\ SiblingQueued(queue) <=> x % 2 = 0 /\ x + 1 \in Over(S, d)
      /\ SiblingQueued(queue) => m >= 2 /\ At(queue, 1) = x + 1 /\ ~NoSibling(queue)
  BY <1>1, Siblings
<1>7. x \in First(d) .. Last(d) /\ First(d) \in Nat /\ Last(d) \in Nat
  BY <1>1, <1>2, LevelBounds DEF Level
<1>8. Garbage # NULL BY DigestAssumption
<1>9. IsLeftChild(queue) <=> x % 2 = 0 BY DEF IsLeftChild
<1>10. \A a, b :
          /\ a \in {Garbage, <<e, 2 * w>>}
          /\ (2 * w + 1 \in Level(d) => b \in {Garbage, <<e, 2 * w + 1>>})
          /\ (2 * w + 1 \notin Level(d) => b = NULL)
          => Hash(w, a, b) = IF a = Garbage \/ b = Garbage THEN Garbage ELSE <<e, w>>
  <2> HIDE DEF w
  <2> SUFFICES ASSUME NEW a, NEW b, a = Garbage \/ a = <<e, 2 * w>>,
                      2 * w + 1 \in Level(d) => b \in {Garbage, <<e, 2 * w + 1>>},
                      2 * w + 1 \notin Level(d) => b = NULL
               PROVE  Hash(w, a, b) = IF a = Garbage \/ b = Garbage THEN Garbage ELSE <<e, w>>
    OBVIOUS
  <2> QED BY <1>3, HashOfParent
<1>11. SiblingRevealed(queue) <=> ~NoSibling(queue) /\ ~SiblingQueued(queue) BY DEF SiblingRevealed
<1>12. SiblingOf(queue) = IF x % 2 = 0 THEN x + 1 ELSE x - 1 BY <1>9 DEF SiblingOf
<1> HIDE DEF x, w, node, sibling
<1>13. (x % 2 = 0 => x = 2 * w) /\ (x % 2 # 0 => x = 2 * w + 1) BY <1>2, <1>3
<1>14. CASE NoSibling(queue)
  <2>1. x = 2 * w /\ 2 * w + 1 \notin Level(d)
    <3>1. x = 2 * w /\ x = Last(d) BY <1>6, <1>13, <1>14
    <3> QED BY <1>7, <3>1 DEF Level
  <2>2. Pair = <<node, NULL>> BY <1>14 DEF Pair, node
  <2>3. Hash(w, node, NULL) = IF node = Garbage \/ NULL = Garbage THEN Garbage ELSE <<e, w>>
    BY <1>5, <1>10, <2>1
  <2> QED BY <1>3, <1>4, <1>6, <1>8, <1>11, <1>14, <2>2, <2>3 DEF w, node
<1>15. CASE SiblingQueued(queue)
  <2>1. x = 2 * w /\ 2 * w + 1 \in Level(d) /\ x % 2 = 0 /\ ~NoSibling(queue)
    <3>1. x = 2 * w /\ x + 1 \in Over(S, d) /\ x % 2 = 0 BY <1>6, <1>13, <1>15
    <3>2. Over(S, d) \subseteq Level(d) BY <1>1, OverLevel
    <3> QED BY <1>6, <1>15, <3>1, <3>2
  <2>2. sibling \in {Garbage, <<e, 2 * w + 1>>}
    <3>1. 1 \in 0 .. n - 1 BY <1>6, <1>15
    <3> QED BY <1>4, <1>6, <1>15, <2>1, <3>1 DEF sibling
  <2>3. Pair = <<node, sibling>> BY <1>15, <2>1 DEF Pair, node, sibling
  <2>4. Hash(w, node, sibling) = IF node = Garbage \/ sibling = Garbage THEN Garbage ELSE <<e, w>>
    BY <1>5, <1>10, <2>1, <2>2
  <2> QED BY <1>3, <1>4, <1>11, <1>15, <2>3, <2>4 DEF w, node, sibling
<1>16. CASE SiblingRevealed(queue) /\ x % 2 = 0
  <2>1. x = 2 * w /\ 2 * w + 1 \in Level(d) /\ SiblingOf(queue) = 2 * w + 1
    <3>1. x = 2 * w /\ x # Last(d) /\ SiblingOf(queue) = x + 1 BY <1>6, <1>11, <1>12, <1>13, <1>16
    <3>2. x + 1 \in Level(d) BY <1>7, <3>1 DEF Level
    <3> QED BY <3>1, <3>2
  <2>2. Pair = <<node, auth[1]>> BY <1>9, <1>11, <1>16 DEF Pair, node
  <2>3. Hash(w, node, auth[1]) = IF node = Garbage \/ auth[1] = Garbage THEN Garbage ELSE <<e, w>>
    BY <1>5, <1>10, <1>16, <2>1
  <2> QED BY <1>3, <1>4, <1>11, <1>16, <2>2, <2>3 DEF w, node
<1>17. CASE SiblingRevealed(queue) /\ x % 2 # 0
  <2>1. x = 2 * w + 1 /\ 2 * w + 1 \in Level(d) /\ SiblingOf(queue) = 2 * w
    <3>1. x = 2 * w + 1 /\ SiblingOf(queue) = x - 1 BY <1>12, <1>13, <1>17
    <3>2. w \in Nat BY <1>2, <1>3
    <3> QED BY <1>2, <3>1, <3>2
  <2>2. Pair = <<auth[1], node>> BY <1>9, <1>11, <1>17 DEF Pair, node
  <2>3. Hash(w, auth[1], node) = IF auth[1] = Garbage \/ node = Garbage THEN Garbage ELSE <<e, w>>
    BY <1>5, <1>10, <1>17, <2>1
  <2> QED BY <1>3, <1>4, <1>11, <1>17, <2>2, <2>3 DEF w, node
<1> QED BY <1>11, <1>14, <1>15, <1>16, <1>17

\* What is left of a sequence without the first of it.
LEMMA TailOfRest ==
  ASSUME NEW T, NEW t \in Seq(T), NEW a \in 1 .. Len(t)
  PROVE  /\ SubSeq(t, a, Len(t)) \in Seq(T) /\ SubSeq(t, a, Len(t))[1] = t[a]
         /\ Tail(SubSeq(t, a, Len(t))) = SubSeq(t, a + 1, Len(t))
<1>1. Len(t) \in Nat /\ a \in Nat /\ a >= 1 /\ a <= Len(t) BY LenProperties
<1>2. /\ SubSeq(t, a, Len(t)) \in Seq(T) /\ SubSeq(t, a, Len(t))[1] = t[a + 1 - 1]
  <2>1. \A k \in a .. Len(t) : t[k] \in T BY <1>1
  <2>2. 1 \in 1 .. Len(t) - a + 1 /\ a \in Int /\ Len(t) \in Int BY <1>1
  <2> QED BY <2>1, <2>2, SubSeqProperties
<1>3. Tail(SubSeq(t, a, Len(t))) = SubSeq(t, a + 1, Len(t))
  <2>1. Len(t) \in a .. Len(t) BY <1>1
  <2> QED BY <2>1, HeadTailOfSubSeq
<1> QED BY <1>1, <1>2, <1>3

\* The first digests in a queue, up to a place in it, are right or Garbage; one
\* of them is Garbage.
RightOrGarbage(digests, q, k) ==
  \A j \in 0 .. k : digests[Cell(q, j)] \in {Garbage, <<e, At(q, j)>>}
SomeGarbage(digests, q, k) == \E j \in 0 .. k : digests[Cell(q, j)] = Garbage

\* The digests in the queue after a step.
LEMMA LeavesOfStep ==
  ASSUME NEW S \in SUBSET Level(LOG_PARTIES), queue \in Queues, e \in Executions,
         leaves \in [Cells -> Digests],
         NEW d \in 1 .. LOG_PARTIES, NEW n \in 1 .. REVEALED, NEW m \in 1 .. n,
         WalkAt(queue, S, d, n, m), RightOrGarbage(leaves, queue, n - 1),
         SiblingRevealed(queue) => auth[1] \in {Garbage, <<e, SiblingOf(queue)>>},
         NEW fresh, fresh = [leaves EXCEPT ![queue.stop] = Hash(Parent(queue), Pair[1], Pair[2])]
  PROVE  /\ fresh \in [Cells -> Digests]
         /\ RightOrGarbage(fresh, Step(queue), n - Taken(queue))
         /\ SomeGarbage(fresh, Step(queue), n - Taken(queue))
              <=> SomeGarbage(leaves, queue, n - 1) \/ (SiblingRevealed(queue) /\ auth[1] = Garbage)
<1> DEFINE r == Step(queue)
           c == Taken(queue)
           v == Hash(Parent(queue), Pair[1], Pair[2])
           w == Parent(queue)
           Bad(k) == leaves[Cell(queue, k)] = Garbage
           Lost == SiblingRevealed(queue) /\ auth[1] = Garbage
<1>1. queue.stop = Cell(queue, n) BY DEF WalkAt
<1>2. /\ c \in 1 .. n
      /\ \A k \in 0 .. n - c : Cell(r, k) = Cell(queue, k + c)
      /\ \A k \in 0 .. n - c - 1 : At(r, k) = At(queue, k + c)
      /\ At(r, n - c) = w
  BY <1>1, QueueStep DEF Parent
<1>3. /\ REVEALED \in Nat \ {0} /\ n \in Nat /\ n <= REVEALED /\ n \in 0 .. REVEALED
      /\ LOG_PARTIES \in Nat
  <2>1. REVEALED \in Nat \ {0} BY TreeAssumption, TopAndBottom
  <2> QED BY <2>1, TreeAssumption
<1>4. /\ \A k \in 0 .. REVEALED : Cell(queue, k) \in Cells
      /\ \A j, k \in 0 .. REVEALED : j < k /\ k - j < REVEALED => Cell(queue, j) # Cell(queue, k)
  BY CellsOf
<1>5. /\ w \in Level(d - 1)
      /\ v = IF Bad(0) \/ (SiblingQueued(queue) /\ Bad(1)) \/ Lost THEN Garbage ELSE <<e, w>>
  <2>1. \A k \in 0 .. n - 1 : leaves[Cell(queue, k)] \in {Garbage, <<e, At(queue, k)>>}
    BY DEF RightOrGarbage
  <2> QED BY <2>1, DigestOfStep
<1>6. c = (IF SiblingQueued(queue) THEN 2 ELSE 1) BY <1>3, Siblings
<1>7. v \in Digests /\ (<<e, w>> # Garbage)
  <2>1. d - 1 \in 0 .. LOG_PARTIES BY <1>3
  <2>2. w \in TreeNodes BY <1>5, <2>1, DepthOf
  <2>3. w \in 0 .. LastLeaf BY <2>2, TopAndBottom DEF TreeNodes
  <2> QED BY <2>2, <2>3, HashType, DigestAssumption
<1> HIDE DEF r, c, v, w, Bad, Lost
<1>8. fresh = [leaves EXCEPT ![Cell(queue, n)] = v] BY <1>1 DEF v
<1>9. Cell(queue, n) \in Cells BY <1>3, <1>4
<1>10. fresh \in [Cells -> Digests] BY <1>7, <1>8, <1>9
<1>11. Cell(r, n - c) = Cell(queue, n) /\ fresh[Cell(r, n - c)] = v /\ n - c \in 0 .. n - c
  <2>1. n - c \in 0 .. n - c /\ (n - c) + c = n BY <1>2, <1>3
  <2> QED BY <1>2, <1>8, <1>9, <2>1
<1>12. ASSUME NEW k \in 0 .. n - c - 1
       PROVE  /\ k + c \in c .. n - 1 /\ k + c \in 0 .. n - 1
              /\ fresh[Cell(r, k)] = leaves[Cell(queue, k + c)] /\ At(r, k) = At(queue, k + c)
  <2>1. /\ k + c \in c .. n - 1 /\ k + c \in 0 .. n - 1 /\ k \in 0 .. n - c
        /\ k + c \in 0 .. REVEALED /\ k + c < n /\ n - (k + c) < REVEALED
    BY <1>2, <1>3
  <2>2. Cell(r, k) = Cell(queue, k + c) /\ Cell(queue, k + c) # Cell(queue, n)
    BY <1>2, <1>3, <1>4, <2>1
  <2>3. Cell(queue, k + c) \in Cells BY <1>4, <2>1
  <2> QED BY <1>2, <1>8, <2>1, <2>2, <2>3
<1>13. \A k \in 0 .. n - c : k \in 0 .. n - c - 1 \/ k = n - c BY <1>2, <1>3
<1>14. ASSUME NEW k \in 0 .. n - c
       PROVE  fresh[Cell(r, k)] \in {Garbage, <<e, At(r, k)>>}
  <2>1. CASE k = n - c BY <1>2, <1>5, <1>11, <2>1
  <2>2. CASE k \in 0 .. n - c - 1
    <3>1. leaves[Cell(queue, k + c)] \in {Garbage, <<e, At(queue, k + c)>>}
      BY <1>12, <2>2 DEF RightOrGarbage
    <3> QED BY <1>12, <2>2, <3>1
  <2> QED BY <1>13, <2>1, <2>2
<1>15. (\E k \in 0 .. n - c : fresh[Cell(r, k)] = Garbage)
         <=> (\E k \in c .. n - 1 : Bad(k)) \/ v = Garbage
  <2>1. ASSUME NEW k \in 0 .. n - c, fresh[Cell(r, k)] = Garbage
        PROVE  (\E j \in c .. n - 1 : Bad(j)) \/ v = Garbage
    <3>1. CASE k = n - c BY <1>11, <2>1, <3>1
    <3>2. CASE k \in 0 .. n - c - 1
      <4>1. k + c \in c .. n - 1 /\ Bad(k + c) BY <1>12, <2>1, <3>2 DEF Bad
      <4> QED BY <4>1
    <3> QED BY <1>13, <3>1, <3>2
  <2>2. ASSUME NEW j \in c .. n - 1, Bad(j)
        PROVE  \E k \in 0 .. n - c : fresh[Cell(r, k)] = Garbage
    <3>1. j - c \in 0 .. n - c - 1 /\ j - c \in 0 .. n - c /\ (j - c) + c = j BY <1>2, <1>3
    <3>2. fresh[Cell(r, j - c)] = Garbage BY <1>12, <2>2, <3>1 DEF Bad
    <3> QED BY <3>1, <3>2
  <2>3. v = Garbage => \E k \in 0 .. n - c : fresh[Cell(r, k)] = Garbage BY <1>11
  <2> QED BY <2>1, <2>2, <2>3
<1>16. v = Garbage <=> Bad(0) \/ (c = 2 /\ Bad(1)) \/ Lost BY <1>5, <1>6, <1>7
<1>17. (\E k \in c .. n - 1 : Bad(k)) \/ Bad(0) \/ (c = 2 /\ Bad(1)) <=> \E k \in 0 .. n - 1 : Bad(k)
  <2>1. c = 1 \/ c = 2 BY <1>6
  <2>2. ASSUME NEW k \in 0 .. n - 1, Bad(k)
        PROVE  (\E j \in c .. n - 1 : Bad(j)) \/ Bad(0) \/ (c = 2 /\ Bad(1))
    <3>1. k = 0 \/ (c = 2 /\ k = 1) \/ k \in c .. n - 1 BY <1>3, <2>1
    <3> QED BY <2>2, <3>1
  <2>3. ASSUME NEW k \in c .. n - 1, Bad(k) PROVE \E j \in 0 .. n - 1 : Bad(j)
    <3>1. k \in 0 .. n - 1 BY <1>2, <1>3
    <3> QED BY <2>3, <3>1
  <2>4. 0 \in 0 .. n - 1 /\ (c = 2 => 1 \in 0 .. n - 1) BY <1>2, <1>3
  <2> QED BY <2>2, <2>3, <2>4
<1>18. (\E k \in 0 .. n - c : fresh[Cell(r, k)] = Garbage) <=> (\E k \in 0 .. n - 1 : Bad(k)) \/ Lost
  BY <1>15, <1>16, <1>17
<1>19. SomeGarbage(leaves, queue, n - 1) <=> \E k \in 0 .. n - 1 : Bad(k) BY DEF SomeGarbage, Bad
<1>20. SomeGarbage(fresh, r, n - c) <=> \E k \in 0 .. n - c : fresh[Cell(r, k)] = Garbage
  BY DEF SomeGarbage
<1>21. RightOrGarbage(fresh, r, n - c) BY <1>14 DEF RightOrGarbage
<1> QED BY <1>10, <1>18, <1>19, <1>20, <1>21 DEF r, c, Lost

LEMMA RootStepOK ==
  ASSUME IInv, RootStep
  PROVE  IInv'
<1> DEFINE S == Opened
           u == Used
           a == cv_at[e]
           some == SiblingRevealed(queue)
           v == Hash(Parent(queue), Pair[1], Pair[2])
<1>1. /\ pc = "root" /\ ~AtRoot(queue) /\ e' = e /\ i' = i /\ open_views' = open_views
      /\ merkle_roots' = merkle_roots /\ revealed' = revealed /\ bytes_required' = bytes_required
      /\ UNCHANGED <<tree, drawing, cv_info, wit, fault, cv_at, len_cv_info>>
  BY DEF RootStep, building, drawing, signature, parsing
<1>2. /\ TypeOK /\ ViewsInv /\ e \in Executions /\ queue \in Queues /\ cv_info \in Seq(Digests)
      /\ leaves \in [Cells -> Digests] /\ ParsedInv /\ RootsInv /\ RootInv
      /\ len_cv_info[e] \in Nat /\ a \in Nat /\ auth_size \in Nat /\ auth \in Seq(Digests)
      /\ REVEALED \in Nat \ {0} /\ LOG_PARTIES \in Nat
  BY <1>1, TreeAssumption, TopAndBottom DEF IInv, TypeOK
<1>3. /\ i = 0 /\ auth_size <= len_cv_info[e]
      /\ auth = SubSeq(cv_info, a + u + 1, Len(cv_info))
  BY <1>1, <1>2 DEF RootInv
<1>4. PICK s \in PathsOf(OpenedBy(open_views[e])) :
       /\ PathAt(e, s)
       /\ \E d \in 0 .. LOG_PARTIES, n \in 1 .. REVEALED : \E m \in 1 .. n :
            /\ WalkAt(queue, S, d, n, m)
            /\ {s[k] : k \in 1 .. u} = PathBefore(S, d, Index(queue))
            /\ \A k \in 0 .. n - 1 : leaves[Cell(queue, k)] \in {Garbage, <<e, At(queue, k)>>}
            /\ (\E k \in 0 .. n - 1 : leaves[Cell(queue, k)] = Garbage)
                 <=> (BadShare(e) \/ \E k \in 1 .. u : cv_info[a + k] = Garbage)
  BY <1>1, <1>2 DEF RootInv
<1>5. PICK d \in 0 .. LOG_PARTIES, n \in 1 .. REVEALED : \E m \in 1 .. n :
            /\ WalkAt(queue, S, d, n, m)
            /\ {s[k] : k \in 1 .. u} = PathBefore(S, d, Index(queue))
            /\ \A k \in 0 .. n - 1 : leaves[Cell(queue, k)] \in {Garbage, <<e, At(queue, k)>>}
            /\ (\E k \in 0 .. n - 1 : leaves[Cell(queue, k)] = Garbage)
                 <=> (BadShare(e) \/ \E k \in 1 .. u : cv_info[a + k] = Garbage)
  BY <1>4
<1>6. PICK m \in 1 .. n :
            /\ WalkAt(queue, S, d, n, m)
            /\ {s[k] : k \in 1 .. u} = PathBefore(S, d, Index(queue))
            /\ \A k \in 0 .. n - 1 : leaves[Cell(queue, k)] \in {Garbage, <<e, At(queue, k)>>}
            /\ (\E k \in 0 .. n - 1 : leaves[Cell(queue, k)] = Garbage)
                 <=> (BadShare(e) \/ \E k \in 1 .. u : cv_info[a + k] = Garbage)
  BY <1>5
<1>7. S \in SUBSET Level(LOG_PARTIES) /\ S = OpenedBy(open_views[e]) /\ Opened' = S
  BY <1>1, <1>2, OpenedViews DEF Opened
<1>8. /\ Len(s) = len_cv_info[e] /\ u \in 0 .. Len(s) /\ u = Len(s) - auth_size /\ DOMAIN s = 1 .. Len(s)
      /\ Len(s) \in Nat /\ \A k \in 1 .. Len(s) : cv_info[a + k] \in {Garbage, <<e, s[k]>>}
  <2>1. DOMAIN s = 1 .. Len(s) BY <1>4, <1>7, PathFacts
  <2>2. Len(s) = len_cv_info[e] BY <1>4 DEF PathAt
  <2>3. \A k \in 1 .. Len(s) : cv_info[a + k] \in {Garbage, <<e, s[k]>>}
    BY <1>4, <2>1 DEF PathAt, HasPath
  <2>4. u \in 0 .. Len(s) /\ u = Len(s) - auth_size BY <1>2, <1>3, <2>2 DEF Used
  <2> QED BY <1>2, <2>1, <2>2, <2>3, <2>4
<1>walk. WalkAt(queue, S, d, n, m) BY <1>6
<1>found. {s[k] : k \in 1 .. u} = PathBefore(S, d, Index(queue)) BY <1>6
<1>right. \A k \in 0 .. n - 1 : leaves[Cell(queue, k)] \in {Garbage, <<e, At(queue, k)>>} BY <1>6
<1>bad. (\E k \in 0 .. n - 1 : leaves[Cell(queue, k)] = Garbage)
          <=> (BadShare(e) \/ \E k \in 1 .. u : cv_info[a + k] = Garbage)
  BY <1>6
<1>path. s \in PathsOf(S) BY <1>4, <1>7
<1>queue. queue \in Queues /\ S \in SUBSET Level(LOG_PARTIES) BY <1>2, <1>7
<1>numbers. /\ u \in 0 .. Len(s) /\ u = Len(s) - auth_size /\ Len(s) \in Nat /\ auth_size \in Nat
            /\ a \in Nat
  BY <1>2, <1>8
<1> HIDE DEF S, u, a
<1>9. d \in 1 .. LOG_PARTIES
  <2>1. d # 0 BY <1>1, <1>2, <1>6, <1>7, Front
  <2> QED BY <1>2, <2>1
<1>10. some => /\ u < Len(s) /\ s[u + 1] = SiblingOf(queue)
               /\ {s[k] : k \in 1 .. u + 1} = PathBefore(S, d, Index(queue)) \union {SiblingOf(queue)}
  <2> SUFFICES ASSUME SiblingRevealed(queue)
               PROVE  /\ u < Len(s) /\ s[u + 1] = SiblingOf(queue)
                      /\ {s[k] : k \in 1 .. u + 1}
                           = PathBefore(S, d, Index(queue)) \union {SiblingOf(queue)}
    OBVIOUS
  <2>1. u \in 0 .. Len(s) BY <1>numbers
  <2> QED BY <1>walk, <1>found, <1>path, <1>queue, <1>9, <2>1, NextOfPath
<1>11. some => auth_size >= 1 BY <1>numbers, <1>10
<1>12. /\ pc' = pc /\ ok' = ok /\ queue' = Step(queue) /\ leaves' = [leaves EXCEPT ![queue.stop] = v]
       /\ auth' = IF some THEN Tail(auth) ELSE auth
       /\ auth_size' = IF some THEN auth_size - 1 ELSE auth_size
  <2>1. ~(some /\ auth_size < 1) BY <1>2, <1>11
  <2> QED BY <2>1 DEF RootStep
<1>13. some => /\ auth[1] = cv_info[a + u + 1] /\ auth[1] \in {Garbage, <<e, SiblingOf(queue)>>}
               /\ Tail(auth) = SubSeq(cv_info, a + (u + 1) + 1, Len(cv_info))
               /\ Tail(auth) \in Seq(Digests)
  <2> SUFFICES ASSUME some
               PROVE  /\ auth[1] = cv_info[a + u + 1] /\ auth[1] \in {Garbage, <<e, SiblingOf(queue)>>}
                      /\ Tail(auth) = SubSeq(cv_info, a + (u + 1) + 1, Len(cv_info))
                      /\ Tail(auth) \in Seq(Digests)
    OBVIOUS
  <2>1. a + len_cv_info[e] <= Len(cv_info) BY <1>1, <1>2 DEF ParsedInv, a
  <2>2. u + 1 \in 1 .. Len(s) /\ a + u + 1 \in 1 .. Len(cv_info) /\ a + u + 1 = a + (u + 1)
        /\ a + (u + 1) + 1 = (a + u + 1) + 1
    <3>1. Len(cv_info) \in Nat BY <1>2
    <3>2. u < Len(s) BY <1>10
    <3>3. a + Len(s) <= Len(cv_info) BY <1>8, <2>1
    <3> QED BY <1>numbers, <3>1, <3>2, <3>3
  <2>3. /\ auth[1] = cv_info[a + u + 1]
        /\ Tail(auth) = SubSeq(cv_info, (a + u + 1) + 1, Len(cv_info))
    BY <1>2, <1>3, <2>2, TailOfRest
  <2>4. auth[1] \in {Garbage, <<e, SiblingOf(queue)>>} BY <1>8, <1>10, <2>2, <2>3
  <2>5. Tail(auth) \in Seq(Digests)
    <3>1. \A k \in (a + u + 1) + 1 .. Len(cv_info) : cv_info[k] \in Digests BY <1>2, <2>2
    <3>2. (a + u + 1) + 1 \in Int /\ Len(cv_info) \in Int BY <1>2, <2>2
    <3> QED BY <2>3, <3>1, <3>2, SubSeqProperties
  <2> QED BY <2>2, <2>3, <2>4, <2>5
<1>14. /\ leaves' \in [Cells -> Digests]
       /\ \A k \in 0 .. n - Taken(queue) :
            leaves'[Cell(queue', k)] \in {Garbage, <<e, At(queue', k)>>}
       /\ (\E k \in 0 .. n - Taken(queue) : leaves'[Cell(queue', k)] = Garbage)
            <=> \/ \E k \in 0 .. n - 1 : leaves[Cell(queue, k)] = Garbage
                \/ some /\ auth[1] = Garbage
  <2>1. some => auth[1] \in {Garbage, <<e, SiblingOf(queue)>>} BY <1>13
  <2>2. e \in Executions /\ leaves \in [Cells -> Digests] BY <1>2
  <2>3. leaves' = [leaves EXCEPT ![queue.stop] = Hash(Parent(queue), Pair[1], Pair[2])] BY <1>12
  <2> DEFINE fresh == leaves'
  <2>4. fresh = [leaves EXCEPT ![queue.stop] = Hash(Parent(queue), Pair[1], Pair[2])] BY <2>3
  <2> HIDE DEF fresh
  <2>5. RightOrGarbage(leaves, queue, n - 1) BY <1>right DEF RightOrGarbage
  <2>6. /\ fresh \in [Cells -> Digests]
        /\ RightOrGarbage(fresh, Step(queue), n - Taken(queue))
        /\ SomeGarbage(fresh, Step(queue), n - Taken(queue))
             <=> SomeGarbage(leaves, queue, n - 1) \/ (SiblingRevealed(queue) /\ auth[1] = Garbage)
    BY <1>walk, <1>queue, <1>9, <2>1, <2>2, <2>4, <2>5, LeavesOfStep
  <2>7. queue' = Step(queue) BY <1>12
  <2>8. \A k \in 0 .. n - Taken(queue) : fresh[Cell(queue', k)] \in {Garbage, <<e, At(queue', k)>>}
    BY <2>6, <2>7 DEF RightOrGarbage
  <2>9. (\E k \in 0 .. n - Taken(queue) : fresh[Cell(queue', k)] = Garbage)
          <=> SomeGarbage(fresh, Step(queue), n - Taken(queue))
    BY <2>7 DEF SomeGarbage
  <2>10. (\E k \in 0 .. n - 1 : leaves[Cell(queue, k)] = Garbage) <=> SomeGarbage(leaves, queue, n - 1)
    BY DEF SomeGarbage
  <2> QED BY <2>6, <2>8, <2>9, <2>10 DEF fresh
<1>15. queue' \in Queues /\ Taken(queue) \in 1 .. n
  <2>1. queue.stop = Cell(queue, n) BY <1>walk DEF WalkAt
  <2> QED BY <1>2, <1>12, <2>1, QueueStep
<1>16. PICK l \in 0 .. LOG_PARTIES, j \in 1 .. n - Taken(queue) + 1 :
          /\ WalkAt(queue', S, l, n - Taken(queue) + 1, j)
          /\ PathBefore(S, l, Index(queue'))
               = PathBefore(S, d, Index(queue)) \union (IF some THEN {SiblingOf(queue)} ELSE {})
  <2>1. queue' = Step(queue) BY <1>12
  <2>2. \E l \in 0 .. LOG_PARTIES, j \in 1 .. n - Taken(queue) + 1 :
          /\ WalkAt(Step(queue), S, l, n - Taken(queue) + 1, j)
          /\ PathBefore(S, l, Index(Step(queue)))
               = PathBefore(S, d, Index(queue)) \union (IF some THEN {SiblingOf(queue)} ELSE {})
    BY <1>walk, <1>queue, <1>9, WalkStep
  <2> QED BY <2>1, <2>2
<1> DEFINE c == n - Taken(queue) + 1
           t == IF some THEN u + 1 ELSE u
<1>17. c \in 1 .. REVEALED /\ c - 1 = n - Taken(queue) BY <1>2, <1>15
<1>18. Used' = t /\ t \in 0 .. Len(s) /\ auth_size' \in Nat /\ auth_size' <= len_cv_info[e]
  <2>1. Used' = len_cv_info[e] - auth_size' BY <1>1 DEF Used
  <2>2. CASE some
    <3>1. Used' = Len(s) - auth_size' /\ auth_size' = auth_size - 1 /\ t = u + 1
      BY <1>8, <1>12, <2>1, <2>2
    <3>2. u < Len(s) /\ auth_size >= 1 /\ Len(s) = len_cv_info[e] BY <1>8, <1>10, <1>11, <2>2
    <3> HIDE DEF t
    <3>3. Used' = u + 1 BY <1>numbers, <1>8, <1>10, <1>11, <3>1, <3>2
    <3> QED BY <1>numbers, <3>1, <3>2, <3>3
  <2>3. CASE ~some
    <3>1. Used' = Len(s) - auth_size' /\ auth_size' = auth_size /\ t = u /\ Len(s) = len_cv_info[e]
      BY <1>8, <1>12, <2>1, <2>3
    <3> HIDE DEF t
    <3> QED BY <1>numbers, <3>1
  <2> QED BY <2>2, <2>3
<1>19. {s[k] : k \in 1 .. t} = PathBefore(S, l, Index(queue')) BY <1>found, <1>10, <1>16
<1>20. auth' = SubSeq(cv_info, a + t + 1, Len(cv_info)) /\ auth' \in Seq(Digests)
  BY <1>2, <1>3, <1>12, <1>13
<1>21. (\E k \in 0 .. c - 1 : leaves'[Cell(queue', k)] = Garbage)
         <=> (BadShare(e) \/ \E k \in 1 .. t : cv_info[a + k] = Garbage)
  <2>1. (\E k \in 1 .. t : cv_info[a + k] = Garbage)
          <=> (\E k \in 1 .. u : cv_info[a + k] = Garbage) \/ (some /\ auth[1] = Garbage)
    <3>1. CASE some
      <4>1. \A k : k \in 1 .. u + 1 <=> k \in 1 .. u \/ k = u + 1 BY <1>8
      <4>2. cv_info[a + (u + 1)] = auth[1]
        <5>1. a + u + 1 = a + (u + 1) BY <1>2, <1>8
        <5> QED BY <1>13, <3>1, <5>1
      <4> QED BY <3>1, <4>1, <4>2
    <3>2. CASE ~some BY <3>2
    <3> QED BY <3>1, <3>2
  <2> QED BY <1>bad, <1>14, <1>17, <2>1
<1> HIDE DEF some, v, c, t
<1>22. /\ CommitInv' /\ BuildInv' /\ ViewsInv' /\ RevealInv' /\ SignatureInv' /\ WitInv'
       /\ FaultInv' /\ ParsedInv' /\ Accepted'
       /\ \A x : (BadShare(x)' <=> BadShare(x)) /\ (Spoilt(x)' <=> Spoilt(x))
  BY <1>1, <1>12, CheckStep
<1>23. TypeOK'
  <2>1. /\ leaves' \in [Cells -> Digests] /\ auth' \in Seq(Digests) /\ auth_size' \in Nat
        /\ queue' \in Queues /\ pc' = pc
    BY <1>12, <1>14, <1>15, <1>18, <1>20
  <2> QED BY <1>1, <1>2, <1>12, <2>1
     DEF TypeOK, RootStep, building, drawing, signature, parsing
<1>24. RecommitInv' BY <1>1, <1>12 DEF RecommitInv
<1>25. RootInv'
  <2>1. i' = 0 /\ auth_size' <= len_cv_info'[e'] BY <1>1, <1>3, <1>18
  <2>2. auth' = SubSeq(cv_info', cv_at'[e'] + Used' + 1, Len(cv_info')) BY <1>1, <1>18, <1>20 DEF a
  <2>3. PathAt(e, s)' BY <1>1, <1>4 DEF PathAt, HasPath
  <2>4. WalkAt(queue', Opened', l, c, j) /\ j \in 1 .. c BY <1>7, <1>16 DEF c
  <2>5. {s[k] : k \in 1 .. Used'} = PathBefore(Opened', l, Index(queue')) BY <1>7, <1>18, <1>19
  <2>6. \A k \in 0 .. c - 1 : leaves'[Cell(queue', k)] \in {Garbage, <<e', At(queue', k)>>}
    BY <1>1, <1>14, <1>17
  <2>7. (\E k \in 0 .. c - 1 : leaves'[Cell(queue', k)] = Garbage)
          <=> (BadShare(e)' \/ \E k \in 1 .. Used' : cv_info'[cv_at'[e'] + k] = Garbage)
    BY <1>1, <1>18, <1>21, <1>22 DEF a
  <2>8. s \in PathsOf(OpenedBy(open_views'[e'])) BY <1>1
  <2> QED BY <1>17, <2>1, <2>2, <2>3, <2>4, <2>5, <2>6, <2>7, <2>8 DEF RootInv
<1>26. RootsInv' BY <1>1, <1>2, <1>12, <1>22 DEF RootsInv
<1> QED BY <1>22, <1>23, <1>24, <1>25, <1>26 DEF IInv

\* The walk ends when all of the path is used.
LEMMA PathUsed ==
  ASSUME NEW S \in SUBSET Level(LOG_PARTIES), NEW s \in PathsOf(S), NEW u \in 0 .. Len(s),
         {s[k] : k \in 1 .. u} = NeededBy(S)
  PROVE  u = Len(s)
<1>1. /\ s \in [1 .. Len(s) -> NeededBy(S)] /\ Len(s) \in Nat /\ DOMAIN s = 1 .. Len(s)
      /\ InOrder(s)
  BY PathFacts
<1> SUFFICES ASSUME u < Len(s) PROVE FALSE BY <1>1
<1>2. Len(s) \in 1 .. Len(s) /\ s[Len(s)] \in NeededBy(S) BY <1>1
<1>3. PICK k \in 1 .. u : s[k] = s[Len(s)] BY <1>2
<1>4. k \in 1 .. Len(s) /\ k < Len(s) BY <1>1
<1>5. Precedes(s[k], s[Len(s)]) BY <1>1, <1>2, <1>4 DEF InOrder
<1> QED BY <1>2, <1>3, <1>5, PrecedesOrder

\* The root that the verifier finds.
LEMMA RootFound ==
  ASSUME IInv, pc = "root", AtRoot(queue)
  PROVE  leaves[queue.start] = IF Spoilt(e) THEN Garbage ELSE <<e, 1>>
<1> DEFINE S == Opened
           u == Used
           a == cv_at[e]
<1>1. /\ TypeOK /\ ViewsInv /\ e \in Executions /\ queue \in Queues /\ RootInv
      /\ len_cv_info[e] \in Nat /\ auth_size \in Nat
  BY DEF IInv, TypeOK
<1>2. auth_size <= len_cv_info[e] BY <1>1 DEF RootInv
<1>3. PICK s \in PathsOf(OpenedBy(open_views[e])) :
       /\ PathAt(e, s)
       /\ \E d \in 0 .. LOG_PARTIES, n \in 1 .. REVEALED : \E m \in 1 .. n :
            /\ WalkAt(queue, S, d, n, m)
            /\ {s[k] : k \in 1 .. u} = PathBefore(S, d, Index(queue))
            /\ \A k \in 0 .. n - 1 : leaves[Cell(queue, k)] \in {Garbage, <<e, At(queue, k)>>}
            /\ (\E k \in 0 .. n - 1 : leaves[Cell(queue, k)] = Garbage)
                 <=> (BadShare(e) \/ \E k \in 1 .. u : cv_info[a + k] = Garbage)
  BY <1>1 DEF RootInv
<1>4. PICK d \in 0 .. LOG_PARTIES, n \in 1 .. REVEALED : \E m \in 1 .. n :
            /\ WalkAt(queue, S, d, n, m)
            /\ {s[k] : k \in 1 .. u} = PathBefore(S, d, Index(queue))
            /\ \A k \in 0 .. n - 1 : leaves[Cell(queue, k)] \in {Garbage, <<e, At(queue, k)>>}
            /\ (\E k \in 0 .. n - 1 : leaves[Cell(queue, k)] = Garbage)
                 <=> (BadShare(e) \/ \E k \in 1 .. u : cv_info[a + k] = Garbage)
  BY <1>3
<1>5. PICK m \in 1 .. n :
            /\ WalkAt(queue, S, d, n, m)
            /\ {s[k] : k \in 1 .. u} = PathBefore(S, d, Index(queue))
            /\ \A k \in 0 .. n - 1 : leaves[Cell(queue, k)] \in {Garbage, <<e, At(queue, k)>>}
            /\ (\E k \in 0 .. n - 1 : leaves[Cell(queue, k)] = Garbage)
                 <=> (BadShare(e) \/ \E k \in 1 .. u : cv_info[a + k] = Garbage)
  BY <1>4
<1>6. S \in SUBSET Level(LOG_PARTIES) /\ S = OpenedBy(open_views[e]) BY <1>1, OpenedViews DEF Opened
<1>7. Len(s) = len_cv_info[e] /\ u \in 0 .. Len(s)
  <2>1. Len(s) = len_cv_info[e] BY <1>3 DEF PathAt
  <2> QED BY <1>1, <1>2, <2>1 DEF Used
<1> HIDE DEF S, u, a
<1>8. WalkAt(queue, S, d, n, m) BY <1>5
<1>9. n = 1 /\ PathBefore(S, d, Index(queue)) = NeededBy(S) BY <1>1, <1>6, <1>8, EndOfWalk
<1>10. u = Len(s)
  <2>1. {s[k] : k \in 1 .. u} = NeededBy(S) BY <1>5, <1>9
  <2>2. s \in PathsOf(S) /\ S \in SUBSET Level(LOG_PARTIES) /\ u \in 0 .. Len(s) BY <1>3, <1>6, <1>7
  <2> QED BY <2>1, <2>2, PathUsed
<1>11. Cell(queue, 0) = queue.start /\ At(queue, 0) = 1
  <2>1. Cell(queue, 0) = queue.start /\ At(queue, 0) = Index(queue) BY <1>1, CellsOf
  <2> QED BY <2>1 DEF AtRoot
<1>12. \A k : k \in 0 .. n - 1 <=> k = 0 BY <1>9
<1>13. leaves[queue.start] \in {Garbage, <<e, 1>>} BY <1>5, <1>11, <1>12
<1>14. leaves[queue.start] = Garbage <=> BadShare(e) \/ \E k \in 1 .. u : cv_info[a + k] = Garbage
  <2>1. (\E k \in 0 .. n - 1 : leaves[Cell(queue, k)] = Garbage) <=> leaves[queue.start] = Garbage
    BY <1>11, <1>12
  <2> QED BY <1>5, <2>1
<1>15. leaves[queue.start] = Garbage <=> Spoilt(e)
  BY <1>7, <1>10, <1>14 DEF Spoilt, BadPath, a
<1> QED BY <1>13, <1>15

LEMMA RootDoneOK ==
  ASSUME IInv, RootDone
  PROVE  IInv'
<1> DEFINE root == IF Spoilt(e) THEN Garbage ELSE <<e, 1>>
<1>1. /\ pc = "root" /\ AtRoot(queue) /\ i' = i /\ open_views' = open_views
      /\ merkle_roots' = [merkle_roots EXCEPT ![e] = leaves[queue.start]]
      /\ UNCHANGED <<tree, drawing, cv_info, wit, fault, cv_at, len_cv_info>>
  BY DEF RootDone, building, drawing, signature, parsing
<1>2. /\ TypeOK /\ e \in Executions /\ RootInv /\ RootsInv /\ FaultInv
      /\ merkle_roots \in [Executions -> Digests]
      /\ REVEALED \in Nat \ {0} /\ EXECUTIONS \in Nat \ {0}
  BY TreeAssumption, TopAndBottom DEF IInv, TypeOK
<1>3. i = 0 BY <1>1, <1>2 DEF RootInv
<1>4. leaves[queue.start] = root BY <1>1, RootFound
<1>5. 1 \in 1 .. LastLeaf /\ 1 \in 0 .. LastLeaf /\ Present(1)
  <2>1. 1 \in Level(0) /\ 0 \in 0 .. LOG_PARTIES
    <3>1. 0 \in 0 .. LOG_PARTIES BY TreeAssumption
    <3>2. First(0) = 1 /\ First(0) <= Last(0) /\ Last(0) \in Nat BY <3>1, TopAndBottom, LevelBounds
    <3> QED BY <3>1, <3>2 DEF Level
  <2>2. 1 \in TreeNodes /\ Present(1) BY <2>1, DepthOf
  <2> QED BY <2>2, TopAndBottom DEF TreeNodes
<1>6. \A x \in Executions : <<x, 1>> # Garbage /\ <<x, 1>> \in Digests
  BY <1>5, DigestAssumption DEF Digests, TreeNodes
<1>7. merkle_roots' \in [Executions -> Digests]
  <2>1. root \in Digests BY <1>2, <1>6 DEF Digests
  <2> HIDE DEF root
  <2> QED BY <1>1, <1>2, <1>4, <2>1
<1>8. \A x \in 0 .. e : merkle_roots'[x] = IF Spoilt(x) THEN Garbage ELSE <<x, 1>>
  <2> SUFFICES ASSUME NEW x \in 0 .. e
               PROVE  merkle_roots'[x] = IF Spoilt(x) THEN Garbage ELSE <<x, 1>>
    OBVIOUS
  <2>1. CASE x = e BY <1>1, <1>2, <1>4, <2>1
  <2>2. CASE x # e
    <3>1. x \in 0 .. e - 1 /\ x \in Executions BY <1>2, <2>2 DEF Executions
    <3>2. merkle_roots'[x] = merkle_roots[x] BY <1>1, <1>2, <2>2, <3>1
    <3> QED BY <1>1, <1>2, <3>1, <3>2 DEF RootsInv
  <2> QED BY <2>1, <2>2
<1>9. CASE e + 1 < EXECUTIONS
  <2>1. e' = e + 1 /\ pc' = "recommit" /\ ok' = ok BY <1>9 DEF RootDone
  <2>2. /\ CommitInv' /\ BuildInv' /\ ViewsInv' /\ RevealInv' /\ SignatureInv' /\ WitInv'
        /\ FaultInv' /\ ParsedInv' /\ Accepted'
        /\ \A x : (BadShare(x)' <=> BadShare(x)) /\ (Spoilt(x)' <=> Spoilt(x))
    BY <1>1, <2>1, CheckStep
  <2>3. TypeOK'
    <3>1. e + 1 \in Executions BY <1>2, <1>9 DEF Executions
    <3> QED BY <1>2, <1>7, <2>1, <3>1
        DEF TypeOK, RootDone, building, drawing, opening, signature, parsing
  <2>4. RecommitInv' BY <1>1, <1>2, <1>3 DEF RecommitInv
  <2>5. RootInv' BY <2>1 DEF RootInv
  <2>6. RootsInv'
    <3>1. (e + 1) - 1 = e BY <1>2 DEF Executions
    <3> QED BY <1>8, <2>1, <2>2, <3>1 DEF RootsInv
  <2> QED BY <2>2, <2>3, <2>4, <2>5, <2>6 DEF IInv
<1>10. CASE ~(e + 1 < EXECUTIONS)
  <2>1. /\ e' = e /\ pc' = "returned"
        /\ ok' = \A x \in Executions : merkle_roots'[x] = tree[x][1]
    BY <1>10 DEF RootDone, Return
  <2>2. Executions = 0 .. e BY <1>2, <1>10 DEF Executions
  <2>3. \A x \in Executions : tree[x][1] = <<x, 1>>
    <3>1. \A x \in Executions : Built(x) BY <1>1 DEF IInv, BuildInv
    <3> QED BY <1>5, <3>1 DEF Built, TreeNodes
  <2>4. ok' <=> \A x \in Executions : ~Spoilt(x)
    <3>1. \A x \in Executions : merkle_roots'[x] = tree[x][1] <=> ~Spoilt(x)
      BY <1>6, <1>8, <2>2, <2>3
    <3> QED BY <2>1, <3>1
  <2>5. Accepted'
    <3>1. fault = "none" <=> \A x \in Executions : ~Spoilt(x) BY <1>1, <1>2 DEF FaultInv
    <3> QED BY <1>1, <2>4, <3>1 DEF Accepted
  <2>6. TypeOK'
    <3>1. ok' \in BOOLEAN BY <2>1
    <3> QED BY <1>2, <1>7, <2>1, <3>1
        DEF TypeOK, RootDone, building, drawing, opening, signature, parsing
  <2>7. CommitInv' /\ BuildInv' BY <1>1, <2>1, BuiltStep
  <2>8. ViewsInv' BY <1>1, <2>1, ViewsStep
  <2> QED BY <2>1, <2>5, <2>6, <2>7, <2>8
      DEF IInv, RevealInv, SignatureInv, WitInv, FaultInv, ParsedInv, RecommitInv, RootInv, RootsInv
<1> QED BY <1>9, <1>10

-----------------------------------------------------------------------------
(* The specification *)

LEMMA StepOK ==
  ASSUME PathsFit, IInv, [Next]_vars
  PROVE  IInv'
<1>1. CASE CommitFour
  <2>1. pc = "commit" /\ i + 3 < PARTIES /\ Commit(4) BY <1>1 DEF CommitFour
  <2>2. i \in Nat /\ PARTIES \in Nat BY TopAndBottom DEF IInv, TypeOK
  <2>3. i + 4 <= PARTIES BY <2>1, <2>2
  <2> QED BY <2>1, <2>3, CommitOK
<1>2. CASE CommitOne
  <2>1. pc = "commit" /\ i < PARTIES /\ Commit(1) BY <1>2 DEF CommitOne
  <2>2. i \in Nat /\ PARTIES \in Nat BY TopAndBottom DEF IInv, TypeOK
  <2>3. i + 1 <= PARTIES BY <2>1, <2>2
  <2> QED BY <2>1, <2>3, CommitOK
<1>3. CASE HashFour
  <2>1. /\ pc = "build" /\ parent_index + 4 <= last_index /\ parent_index' = parent_index + 4
        /\ HashNodes(parent_index .. parent_index + 3)
    BY <1>3 DEF HashFour, ByFour
  <2>2. parent_index \in Nat /\ last_index \in Nat BY DEF IInv, TypeOK
  <2>3. parent_index + 4 <= last_index + 1 /\ parent_index + 4 - 1 = parent_index + 3 BY <2>1, <2>2
  <2>4. HashNodes(parent_index .. parent_index + 4 - 1) BY <2>1, <2>3
  <2> QED BY <2>1, <2>3, <2>4, HashNodesOK
<1>4. CASE HashOne
  <2>1. /\ pc = "build" /\ parent_index <= last_index /\ parent_index' = parent_index + 1
        /\ HashNodes({parent_index})
    BY <1>4 DEF HashOne
  <2>2. parent_index \in Nat /\ last_index \in Nat BY DEF IInv, TypeOK
  <2>3. parent_index + 1 <= last_index + 1 BY <2>1, <2>2
  <2>4. parent_index .. parent_index + 1 - 1 = {parent_index} BY <2>2
  <2>5. HashNodes(parent_index .. parent_index + 1 - 1) BY <2>1, <2>4
  <2> QED BY <2>1, <2>3, <2>5, HashNodesOK
<1>5. CASE PlaceLeaves BY <1>5, PlaceLeavesOK
<1>6. CASE NextLevel BY <1>6, NextLevelOK
<1>7. CASE TreeDone BY <1>7, TreeDoneOK
<1>8. CASE DrawView BY <1>8, DrawViewOK
<1>9. CASE SortPair BY <1>9, SortPairOK
<1>10. CASE NextPlace BY <1>10, NextPlaceOK
<1>11. CASE ViewsSorted BY <1>11, ViewsSortedOK
<1>12. CASE Reveal BY <1>12, RevealOK
<1>13. CASE OpenDone BY <1>13, OpenDoneOK
<1>14. CASE Deliver BY <1>14, DeliverOK
<1>15. CASE ParseDone BY <1>15, ParseDoneOK
<1>16. CASE Recommit BY <1>16, RecommitOK
<1>17. CASE StartRoot BY <1>17, StartRootOK
<1>18. CASE RootStep BY <1>18, RootStepOK
<1>19. CASE RootDone BY <1>19, RootDoneOK
<1>20. CASE UNCHANGED vars
  <2>1. /\ pc' = pc /\ e' = e /\ i' = i /\ UNCHANGED <<building, drawing, opening, signature, parsing, checking>>
    BY <1>20 DEF vars
  <2>2. TypeOK'
    BY <2>1 DEF IInv, TypeOK, building, drawing, opening, signature, parsing, checking
  <2>3. CommitInv' /\ BuildInv'
    BY <2>1 DEF IInv, CommitInv, BuildInv, Built, building
  <2>4. ViewsInv' BY <2>1 DEF IInv, ViewsInv, drawing
  <2>5. RevealInv' BY <2>1 DEF IInv, RevealInv, Opened, opening, drawing
  <2>6. SignatureInv'
    <3>1. SignatureInv BY DEF IInv
    <3>2. /\ open_views' = open_views /\ cv_info' = cv_info /\ fault' = fault
          /\ cv_at' = cv_at /\ len_cv_info' = len_cv_info /\ bytes_required' = bytes_required
      BY <2>1 DEF drawing, signature, parsing
    <3> QED BY <2>1, <3>1, <3>2, SignatureSame
  <2>7. WitInv' BY <2>1 DEF IInv, WitInv, Opens, BadShare, signature, drawing
  <2>8. FaultInv'
    BY <2>1 DEF IInv, FaultInv, Spoilt, BadShare, BadPath, signature, parsing
  <2>9. ParsedInv' BY <2>1 DEF IInv, ParsedInv, PathAt, HasPath, signature, parsing, drawing
  <2>10. RecommitInv' BY <2>1 DEF IInv, RecommitInv, BadShare, signature, checking, drawing
  <2>11. RootInv'
    BY <2>1 DEF IInv, RootInv, PathAt, HasPath, Used, Opened, BadShare,
                signature, checking, parsing, drawing, opening
  <2>12. RootsInv' BY <2>1 DEF IInv, RootsInv, Spoilt, BadShare, BadPath, signature, parsing, checking
  <2>13. Accepted' BY <2>1 DEF IInv, Accepted, checking, signature
  <2> QED BY <2>2, <2>3, <2>4, <2>5, <2>6, <2>7, <2>8, <2>9, <2>10, <2>11, <2>12, <2>13 DEF IInv
<1> QED BY <1>1, <1>2, <1>3, <1>4, <1>5, <1>6, <1>7, <1>8, <1>9, <1>10, <1>11, <1>12, <1>13, <1>14,
           <1>15, <1>16, <1>17, <1>18, <1>19, <1>20 DEF Next

\* If there is room for the paths, IInv holds from the first commitment to the
\* last root, in the middle of every loop, whatever parties are opened and
\* whatever happens to the signature.
THEOREM Invariance ==
  ASSUME PathsFit
  PROVE  Spec => []IInv
<1>1. Init => IInv BY InitOK
<1>2. IInv /\ [Next]_vars => IInv' BY StepOK
<1> QED BY <1>1, <1>2, PTL DEF Spec

\* Every variable has its type: no loop over the parties, the levels or the
\* views, no walk with the queue and no path leaves its array
\* (sign-mpcith-threshold-nfpr.c, merkle-tree.c, views.c).
THEOREM TypeCorrect ==
  ASSUME PathsFit
  PROVE  Spec => []TypeOK
<1>1. IInv => TypeOK BY DEF IInv
<1> QED BY <1>1, Invariance, PTL

\* In all three walks over the tree the nodes in the queue are sorted, and each
\* opened leaf is under exactly one (merkle-tree.c, get_revealed_nodes and
\* get_merkle_root_from_auth).
THEOREM QueueIsSortedCorrect ==
  ASSUME PathsFit
  PROVE  Spec => []QueueIsSorted
<1>1. IInv => QueueIsSorted
  <2> SUFFICES ASSUME IInv, Walking
               PROVE  /\ \A j, k \in DOMAIN Pending : j < k =>
                           \/ Depth(Pending[j]) = Depth(Pending[k]) /\ Pending[j] < Pending[k]
                           \/ Depth(Pending[j]) = Depth(Pending[k]) + 1
                      /\ \A leaf \in Opened : \E j \in DOMAIN Pending :
                           /\ Pending[j] \in Ancestors(leaf)
                           /\ \A k \in DOMAIN Pending : Pending[k] \in Ancestors(leaf) => k = j
    BY DEF QueueIsSorted
  <2>1. TypeOK /\ ViewsInv /\ e \in Executions /\ queue \in Queues BY DEF IInv, TypeOK
  <2>2. Opened \in SUBSET Level(LOG_PARTIES) BY <2>1, OpenedViews DEF Walking, Opened
  <2>3. \E d \in 0 .. LOG_PARTIES, n \in 1 .. REVEALED : \E m \in 1 .. n : WalkAt(queue, Opened, d, n, m)
    <3>1. CASE pc \in {"open", "parse"} BY <3>1 DEF IInv, RevealInv, Walks
    <3>2. CASE pc = "root" BY <3>2 DEF IInv, RootInv
    <3> QED BY <3>1, <3>2 DEF Walking
  <2> QED BY <2>1, <2>2, <2>3, QueueInOrder
<1> QED BY <1>1, Invariance, PTL

\* The walk of the signer and that of the parser, which recompute it from the
\* views, end with the nodes that are needed, in the same order, and there is
\* room for them (sign-mpcith-threshold-nfpr.c, get_auth_size and build_signature).
THEOREM PathIsWhatIsNeededCorrect ==
  ASSUME PathsFit
  PROVE  Spec => []PathIsWhatIsNeeded
<1>1. IInv => PathIsWhatIsNeeded
  BY FoundPath DEF PathIsWhatIsNeeded, InOrder
<1> QED BY <1>1, Invariance, PTL

\* A signature that arrives as it was sent is accepted, and one that is longer or
\* shorter, or has a wrong digest or share, is not
\* (sdith_threshold_nfpr_sign_verify).
THEOREM AcceptedCorrect ==
  ASSUME PathsFit
  PROVE  Spec => []Accepted
<1>1. IInv => Accepted BY DEF IInv
<1> QED BY <1>1, Invariance, PTL
=============================================================================
