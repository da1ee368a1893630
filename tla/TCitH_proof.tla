----------------------------- MODULE TCitH_proof -----------------------------
(***************************************************************************)
(* Proofs about the list of TCitH, for any number of repetitions, any tree *)
(* and any views: the search in it is exact, and it has room for all nodes *)
(* if its capacity is the number of repetitions times the height of the    *)
(* tree.                                                                   *)
(***************************************************************************)
EXTENDS TCitHInv, FiniteSetTheorems, TLAPS

(* Nodes *)

LEMMA TreeSize ==
  /\ TREE_LEAVES \in Nat /\ TREE_LEAVES > 2
  /\ 0 \in TreeNodes
BY TreeAssumption DEF TREE_LEAVES, TreeNodes

LEMMA NodeTypes ==
  ASSUME NEW n \in TreeNodes \ {0}
  PROVE  sibling(n) \in TreeNodes /\ parent(n) \in TreeNodes
<1>1. n \in Nat /\ n > 0 /\ n <= 2 * TREE_LEAVES - 2 BY TreeSize DEF TreeNodes
<1>2. n % 2 = 1 => n + 1 <= 2 * TREE_LEAVES - 2 BY <1>1, TreeSize
<1>3. sibling(n) \in TreeNodes BY <1>1, <1>2, TreeSize DEF sibling, TreeNodes
<1>4. parent(n) \in TreeNodes BY <1>1, TreeSize DEF parent, TreeNodes
<1> QED BY <1>3, <1>4

LEMMA PsiType ==
  ASSUME NEW x \in 0 .. PARAM_N - 1, NEW rep \in Repetitions
  PROVE  psi(x, rep) \in TreeLeaves
<1>1. /\ TAU \in Nat /\ PARAM_N \in Nat /\ x \in Nat /\ rep \in Nat
      /\ x <= PARAM_N - 1 /\ rep <= TAU - 1
  BY TreeAssumption DEF Repetitions
<1>2. x * TAU <= (PARAM_N - 1) * TAU BY <1>1
<1>3. (PARAM_N - 1) * TAU = TAU * PARAM_N - TAU BY <1>1
<1>4. x * TAU \in Nat BY <1>1
<1> QED BY <1>1, <1>2, <1>3, <1>4, TreeSize DEF psi, TreeLeaves, TREE_LEAVES

LEMMA HiddenNode ==
  ASSUME NEW leaf \in TreeLeaves PROVE LEAVES_SEEDS_OFFSET + leaf \in TreeNodes
BY TreeSize DEF TreeLeaves, LEAVES_SEEDS_OFFSET, TreeNodes

(* Ancestors *)

Up(n) == {a \in TreeNodes : \A S \in SUBSET TreeNodes : n \in S /\ Closed(S) => a \in S}

LEMMA ParentBelow ==
  ASSUME NEW n \in TreeNodes \ {0} PROVE parent(n) \in TreeNodes /\ parent(n) < n
BY TreeSize DEF TreeNodes, parent

LEMMA UpRoot == Up(0) = {0}
<1>1. 0 \in Up(0) BY TreeSize DEF Up
<1>2. {0} \in SUBSET TreeNodes /\ Closed({0}) BY TreeSize DEF Closed
<1> QED BY <1>1, <1>2 DEF Up

LEMMA UpParent ==
  ASSUME NEW n \in TreeNodes \ {0} PROVE Up(n) = {n} \union Up(parent(n))
<1>1. parent(n) \in TreeNodes BY ParentBelow
<1>2. n \in Up(n) BY DEF Up
<1>3. Up(parent(n)) \subseteq Up(n) BY <1>1 DEF Up, Closed
<1>4. Up(n) \subseteq {n} \union Up(parent(n))
  <2> DEFINE S == {n} \union Up(parent(n))
  <2>1. S \in SUBSET TreeNodes BY DEF Up
  <2>2. parent(n) \in Up(parent(n)) BY <1>1 DEF Up
  <2>3. Closed(S)
    <3>1. ASSUME NEW b \in Up(parent(n)) \ {0} PROVE parent(b) \in Up(parent(n))
      <4>1. b \in TreeNodes /\ parent(b) \in TreeNodes BY ParentBelow DEF Up
      <4>2. ASSUME NEW R \in SUBSET TreeNodes, parent(n) \in R, Closed(R) PROVE parent(b) \in R
        <5>1. b \in R BY <4>2 DEF Up
        <5> QED BY <4>2, <5>1 DEF Closed
      <4> QED BY <4>1, <4>2 DEF Up
    <3> QED BY <2>2, <3>1 DEF Closed
  <2> QED BY <2>1, <2>3 DEF Up
<1> QED BY <1>2, <1>3, <1>4

LEMMA AncestorsDef ==
  \A n \in TreeNodes : Ancestors[n] = IF n = 0 THEN {0} ELSE {n} \union Ancestors[parent(n)]
<1> DEFINE F(f) == [m \in TreeNodes |-> IF m = 0 THEN {0} ELSE {m} \union f[parent(m)]]
           f0 == [m \in TreeNodes |-> Up(m)]
<1>1. f0 = F(f0) BY UpRoot, UpParent, ParentBelow
<1> DEFINE g == CHOOSE f : f = F(f)
<1>2. g = F(g) BY <1>1
<1>3. Ancestors = [n \in TreeNodes |-> g[n]] BY DEF Ancestors
<1> QED BY <1>2, <1>3, ParentBelow

\* Recursion over the tree has one result.
LEMMA AncestorsUp == \A n \in TreeNodes : Ancestors[n] = Up(n)
<1> DEFINE Bad == {n \in TreeNodes : Ancestors[n] # Up(n)}
<1>1. Bad \subseteq Nat BY TreeSize DEF TreeNodes
<1>2. SUFFICES ASSUME NEW b \in Bad PROVE FALSE OBVIOUS
<1>3. PICK n \in Bad : \A m \in Bad : ~(<<m, n>> \in OpToRel(<, Nat))
  BY <1>1, <1>2, WFMin, NatLessThanWellFounded
<1>4. n # 0 BY UpRoot, AncestorsDef
<1>5. parent(n) \in TreeNodes /\ parent(n) < n BY <1>4, ParentBelow
<1>6. parent(n) \notin Bad BY <1>1, <1>3, <1>5, TreeSize DEF OpToRel, TreeNodes
<1> QED BY <1>3, <1>4, <1>5, <1>6, UpParent, AncestorsDef

\* The ancestors of a node are the least set with the node and all parents.
LEMMA AncestorsLeast ==
  ASSUME NEW n \in TreeNodes
  PROVE  /\ Ancestors[n] \subseteq TreeNodes /\ n \in Ancestors[n] /\ Closed(Ancestors[n])
         /\ \A S \in SUBSET TreeNodes : n \in S /\ Closed(S) => Ancestors[n] \subseteq S
         /\ \A a \in Ancestors[n] : a <= n
         /\ 0 \in Ancestors[n]
<1>1. Ancestors[n] = Up(n) BY AncestorsUp
<1>2. Up(n) \subseteq TreeNodes /\ n \in Up(n) BY DEF Up
<1>3. \A S \in SUBSET TreeNodes : n \in S /\ Closed(S) => Up(n) \subseteq S BY DEF Up
<1>4. Closed(Up(n))
  <2> SUFFICES ASSUME NEW a \in Up(n) \ {0} PROVE parent(a) \in Up(n) BY DEF Closed
  <2>1. parent(a) \in TreeNodes BY <1>2, ParentBelow
  <2>2. ASSUME NEW S \in SUBSET TreeNodes, n \in S, Closed(S) PROVE parent(a) \in S
    <3>1. a \in S BY <1>3, <2>2
    <3> QED BY <2>2, <3>1 DEF Closed
  <2> QED BY <2>1, <2>2 DEF Up
<1>5. \A a \in Up(n) : a <= n
  <2> DEFINE S == {a \in TreeNodes : a <= n}
  <2>1. \A a \in S \ {0} : parent(a) \in S
    BY ParentBelow, TreeSize DEF TreeNodes
  <2>2. S \in SUBSET TreeNodes /\ n \in S /\ Closed(S) BY <2>1, TreeSize DEF TreeNodes, Closed
  <2> QED BY <1>3, <2>2
<1>6. 0 \in Up(n)
  <2>1. Up(n) \subseteq Nat BY <1>2, TreeSize DEF TreeNodes
  <2>2. PICK m \in Up(n) : \A a \in Up(n) : ~(<<a, m>> \in OpToRel(<, Nat))
    BY <1>2, <2>1, WFMin, NatLessThanWellFounded
  <2>3. m # 0 => parent(m) \in Up(n) /\ parent(m) < m BY <1>2, <1>4, ParentBelow DEF Closed
  <2> QED BY <2>1, <2>2, <2>3 DEF OpToRel
<1> QED BY <1>1, <1>2, <1>3, <1>4, <1>5, <1>6

LEMMA AncestorsOf ==
  ASSUME NEW n \in TreeNodes, NEW a \in Ancestors[n] PROVE Ancestors[a] \subseteq Ancestors[n]
BY AncestorsLeast

\* Below an ancestor there is another one, down to the node itself.
LEMMA AncestorChild ==
  ASSUME NEW n \in TreeNodes, NEW a \in Ancestors[n], a # n
  PROVE  \E c \in Ancestors[n] \ {0} : parent(c) = a
<1> SUFFICES ASSUME \A c \in Ancestors[n] \ {0} : parent(c) # a PROVE FALSE OBVIOUS
<1> DEFINE S == Ancestors[n] \ {a}
<1>1. S \in SUBSET TreeNodes /\ n \in S BY AncestorsLeast
<1>2. Closed(S) BY AncestorsLeast DEF Closed
<1> QED BY <1>1, <1>2, AncestorsLeast

\* Siblings have the same parent, and there are no other nodes with it.
LEMMA Siblings ==
  ASSUME NEW n \in TreeNodes \ {0}
  PROVE  /\ sibling(n) \in TreeNodes \ {0} /\ sibling(n) # n
         /\ parent(sibling(n)) = parent(n) /\ sibling(sibling(n)) = n
         /\ \A m \in TreeNodes \ {0} : parent(m) = parent(n) => m \in {n, sibling(n)}
<1>1. n \in Nat /\ n > 0 BY TreeSize DEF TreeNodes
<1>2. sibling(n) \in TreeNodes BY NodeTypes
<1>3. CASE n % 2 = 1
  <2>1. sibling(n) = n + 1 /\ (n + 1) % 2 = 0 BY <1>1, <1>3 DEF sibling
  <2>2. sibling(n + 1) = n /\ parent(n + 1) = parent(n) BY <1>1, <1>3, <2>1 DEF sibling, parent
  <2>3. ASSUME NEW m \in TreeNodes \ {0}, parent(m) = parent(n) PROVE m \in {n, n + 1}
    <3>1. m \in Nat /\ m > 0 BY TreeSize DEF TreeNodes
    <3> QED BY <1>1, <1>3, <2>3, <3>1 DEF parent
  <2> QED BY <1>1, <1>2, <2>1, <2>2, <2>3
<1>4. CASE n % 2 # 1
  <2>1. sibling(n) = n - 1 /\ (n - 1) % 2 = 1 /\ n > 1 BY <1>1, <1>4 DEF sibling
  <2>2. sibling(n - 1) = n /\ parent(n - 1) = parent(n) BY <1>1, <1>4, <2>1 DEF sibling, parent
  <2>3. ASSUME NEW m \in TreeNodes \ {0}, parent(m) = parent(n) PROVE m \in {n, n - 1}
    <3>1. m \in Nat /\ m > 0 BY TreeSize DEF TreeNodes
    <3> QED BY <1>1, <1>4, <2>3, <3>1 DEF parent
  <2> QED BY <1>1, <1>2, <2>1, <2>2, <2>3
<1> QED BY <1>3, <1>4

\* A node has no two ancestors that are siblings.
LEMMA OneOfSiblings ==
  ASSUME NEW v \in TreeNodes, NEW a \in Ancestors[v] \ {0} PROVE sibling(a) \notin Ancestors[v]
<1> DEFINE Bad == {n \in TreeNodes : \E b \in Ancestors[n] \ {0} : sibling(b) \in Ancestors[n]}
<1> SUFFICES ASSUME v \in Bad PROVE FALSE OBVIOUS
<1>1. Bad \subseteq Nat BY TreeSize DEF TreeNodes
<1>2. PICK n \in Bad : \A m \in Bad : ~(<<m, n>> \in OpToRel(<, Nat))
  BY <1>1, WFMin, NatLessThanWellFounded
<1> DEFINE q == parent(n)
<1>3. PICK b \in Ancestors[n] \ {0} : sibling(b) \in Ancestors[n] OBVIOUS
<1>4. n \in TreeNodes \ {0}
  <2>1. b \in TreeNodes /\ b <= n /\ b # 0 BY <1>3, AncestorsLeast
  <2> QED BY <2>1, TreeSize DEF TreeNodes
<1>5. q \in TreeNodes /\ q < n BY <1>4, ParentBelow
<1>6. q \notin Bad BY <1>1, <1>2, <1>5, TreeSize DEF OpToRel, TreeNodes
<1> HIDE DEF q
<1>7. Ancestors[n] = {n} \union Ancestors[q] BY <1>4, AncestorsDef DEF q
<1>8. b \in TreeNodes \ {0} BY <1>3, AncestorsLeast
<1>9. sibling(b) \in TreeNodes \ {0} /\ sibling(b) # b /\ parent(sibling(b)) = parent(b)
  BY <1>8, Siblings
<1>10. b = n \/ sibling(b) = n BY <1>3, <1>5, <1>6, <1>7
<1>11. PICK c \in {b, sibling(b)} : c # n /\ c \in Ancestors[q] /\ c \in TreeNodes \ {0} /\ parent(c) = q
  BY <1>3, <1>7, <1>8, <1>9, <1>10 DEF q
<1>12. c <= q BY <1>5, <1>11, AncestorsLeast
<1>13. q < c BY <1>11, ParentBelow
<1> QED BY <1>5, <1>11, <1>12, <1>13, TreeSize DEF TreeNodes

LEMMA LeafHasNoChild ==
  ASSUME NEW n \in TreeNodes \ {0} PROVE parent(n) < LEAVES_SEEDS_OFFSET
BY TreeSize DEF TreeNodes, parent, LEAVES_SEEDS_OFFSET

LEMMA ChildNodes ==
  ASSUME NEW n \in InnerNodes
  PROVE  /\ child_0(n) \in TreeNodes \ {0} /\ parent(child_0(n)) = n /\ 2 - (child_0(n) % 2) = 1
         /\ child_1(n) \in TreeNodes \ {0} /\ parent(child_1(n)) = n /\ 2 - (child_1(n) % 2) = 2
         /\ \A m \in TreeNodes \ {0} : parent(m) = n => m \in {child_0(n), child_1(n)}
<1>1. n \in Nat /\ n <= TREE_LEAVES - 2 BY TreeSize DEF InnerNodes
<1>2. child_0(n) \in TreeNodes \ {0} /\ child_1(n) \in TreeNodes \ {0}
  BY <1>1, TreeSize DEF child_0, child_1, TreeNodes
<1>3. parent(child_0(n)) = n /\ parent(child_1(n)) = n BY <1>1 DEF child_0, child_1, parent
<1>4. (2 * n + 1) % 2 = 1 /\ (2 * n + 2) % 2 = 0 BY <1>1
<1>5. \A m \in TreeNodes \ {0} : parent(m) = n => m \in {child_0(n), child_1(n)}
  BY <1>1, TreeSize DEF TreeNodes, parent, child_0, child_1
<1> QED BY <1>2, <1>3, <1>4, <1>5 DEF child_0, child_1

(* The cover *)

\* The nodes climbed from v to n: the parent of each is the next one.
LEMMA ClimbedNodes ==
  ASSUME NEW v \in TreeNodes, NEW n \in Ancestors[v]
  PROVE  /\ Climbed(v, n) \subseteq TreeNodes \ {0} /\ n \notin Climbed(v, n)
         /\ Ancestors[v] = Climbed(v, n) \union Ancestors[n]
         /\ \A p \in Climbed(v, n) : parent(p) \in Climbed(v, n) \union {n}
         /\ \A a \in Climbed(v, n) \union {n} :
              a = v \/ \E p \in Climbed(v, n) : parent(p) = a
<1>1. /\ n \in TreeNodes /\ n \in Ancestors[n] /\ Ancestors[n] \subseteq Ancestors[v]
      /\ Ancestors[v] \subseteq TreeNodes
  BY AncestorsLeast, AncestorsOf
<1>2. Climbed(v, n) \subseteq TreeNodes \ {0} BY <1>1, AncestorsLeast DEF Climbed
<1>3. ASSUME NEW a \in Climbed(v, n) \union {n}, a # v
      PROVE \E p \in Climbed(v, n) : parent(p) = a
  <2>1. a \in Ancestors[v] BY <1>3 DEF Climbed
  <2>2. PICK c \in Ancestors[v] \ {0} : parent(c) = a BY <1>3, <2>1, AncestorChild
  <2>3. c \in TreeNodes \ {0} /\ a < c BY <1>1, <2>2, ParentBelow
  <2>4. ASSUME c \in Ancestors[n] PROVE FALSE
    <3>1. a \in Ancestors[n] BY <1>1, <2>2, <2>4, AncestorsLeast DEF Closed
    <3>2. a = n BY <1>3, <3>1 DEF Climbed
    <3>3. c <= n BY <1>1, <2>4, AncestorsLeast
    <3> QED BY <1>1, <2>3, <3>2, <3>3, TreeSize DEF TreeNodes
  <2> QED BY <2>2, <2>4 DEF Climbed
<1>4. ASSUME NEW p \in Climbed(v, n) PROVE parent(p) \in Climbed(v, n) \union {n}
  <2>1. p \in TreeNodes \ {0} /\ p \in Ancestors[v] /\ parent(p) \in Ancestors[v]
    BY <1>2, AncestorsLeast DEF Climbed, Closed
  <2>2. ASSUME parent(p) \in Ancestors[n], parent(p) # n PROVE FALSE
    <3>1. PICK c \in Ancestors[n] \ {0} : parent(c) = parent(p) BY <1>1, <2>2, AncestorChild
    <3>2. c \in TreeNodes \ {0} /\ c \in Ancestors[v] /\ c # p BY <1>1, <3>1 DEF Climbed
    <3>3. c = sibling(p) BY <2>1, <3>1, <3>2, Siblings
    <3> QED BY <2>1, <3>2, <3>3, OneOfSiblings
  <2> QED BY <2>1, <2>2 DEF Climbed
<1> QED BY <1>1, <1>2, <1>3, <1>4 DEF Climbed

\* When the climb from a leaf has come to a node of the frontier, or to the
\* root for the first time, its place is taken by the siblings.
LEMMA FrontierStep ==
  ASSUME NEW D \in SUBSET TreeNodes, Closed(D),
         NEW v \in TreeNodes, v >= LEAVES_SEEDS_OFFSET, NEW n \in Ancestors[v],
         n \notin D, Climbed(v, n) \intersect D = {},
         IF n = 0 THEN D = {} ELSE parent(n) \in D
  PROVE  Frontier(D \union Ancestors[v])
           = (Frontier(D) \ {n}) \union SiblingsOf(Climbed(v, n))
<1> DEFINE P == Climbed(v, n)
           E == D \union Ancestors[v]
<1>1. /\ P \subseteq TreeNodes \ {0} /\ n \notin P /\ Ancestors[v] = P \union Ancestors[n]
      /\ \A p \in P : parent(p) \in P \union {n}
      /\ \A a \in P \union {n} : a = v \/ \E p \in P : parent(p) = a
  BY ClimbedNodes
<1>2. n \in TreeNodes BY AncestorsLeast
<1>3. E = D \union P \union {n}
  <2>1. CASE n = 0 BY <1>1, <2>1, AncestorsDef, TreeSize
  <2>2. CASE n # 0
    <3>1. parent(n) \in TreeNodes /\ Ancestors[n] = {n} \union Ancestors[parent(n)]
      BY <1>2, <2>2, AncestorsDef, ParentBelow
    <3>2. Ancestors[parent(n)] \subseteq D BY <2>2, <3>1, AncestorsLeast
    <3> QED BY <1>1, <3>1, <3>2
  <2> QED BY <2>1, <2>2
<1>4. ASSUME NEW m \in Frontier(E) PROVE m \in (Frontier(D) \ {n}) \union SiblingsOf(P)
  <2>1. m \in TreeNodes \ {0} /\ m \notin E /\ parent(m) \in E BY DEF Frontier
  <2>2. CASE parent(m) \in D BY <1>3, <2>1, <2>2 DEF Frontier
  <2>3. CASE parent(m) \in P \union {n}
    <3>1. parent(m) # v
      BY <2>1, LeafHasNoChild, ParentBelow, TreeSize DEF TreeNodes, LEAVES_SEEDS_OFFSET
    <3>2. PICK p \in P : parent(p) = parent(m) BY <1>1, <2>3, <3>1
    <3>3. p \in TreeNodes \ {0} /\ m # p BY <1>1, <1>3, <2>1
    <3>4. m = sibling(p) BY <2>1, <3>2, <3>3, Siblings
    <3> QED BY <3>4 DEF SiblingsOf
  <2> QED BY <1>3, <2>1, <2>2, <2>3
<1>5. ASSUME NEW m \in Frontier(D), m # n PROVE m \in Frontier(E)
  <2>1. m \in TreeNodes \ {0} /\ m \notin D /\ parent(m) \in D BY DEF Frontier
  <2>2. m \notin P
    <3> SUFFICES ASSUME m \in P PROVE FALSE OBVIOUS
    <3> QED BY <1>1, <2>1
  <2> QED BY <1>3, <1>5, <2>1, <2>2 DEF Frontier
<1>6. ASSUME NEW p \in P PROVE sibling(p) \in Frontier(E)
  <2>1. p \in TreeNodes \ {0} /\ p \in Ancestors[v] BY <1>1
  <2>2. sibling(p) \in TreeNodes \ {0} /\ parent(sibling(p)) = parent(p) BY <2>1, Siblings
  <2>3. sibling(p) \notin Ancestors[v] BY <2>1, OneOfSiblings
  <2>4. parent(p) \notin D /\ parent(p) \in E BY <1>1, <1>3
  <2>5. sibling(p) \notin D BY <2>2, <2>4 DEF Closed
  <2> QED BY <2>2, <2>3, <2>4, <2>5 DEF Frontier
<1> QED BY <1>4, <1>5, <1>6 DEF SiblingsOf

(* The list *)

\* The loop of insert_sorted stops at the place Rank describes.
LEMMA RankProperty ==
  ASSUME NEW s \in Seq(Int), NEW x \in Int
  PROVE  /\ Rank(s, x) \in 0 .. Len(s)
         /\ Rank(s, x) = 0 \/ s[Rank(s, x)] <= x
         /\ \A q \in Rank(s, x) + 1 .. Len(s) : s[q] > x
<1> DEFINE Dist == {n \in 0 .. Len(s) : Len(s) - n = 0 \/ s[Len(s) - n] <= x}
<1>0. Len(s) \in Nat OBVIOUS
<1>1. Dist \subseteq Nat /\ Len(s) \in Dist BY <1>0
<1>2. PICK n \in Dist : \A m \in Dist : ~(<<m, n>> \in OpToRel(<, Nat))
  BY <1>1, WFMin, NatLessThanWellFounded
<1>3. \A m \in Dist : ~(m < n)
  BY <1>1, <1>2 DEF OpToRel
<1> DEFINE p == Len(s) - n
<1>4. p \in 0 .. Len(s) /\ (p = 0 \/ s[p] <= x)
  <2>1. n \in 0 .. Len(s) BY <1>2
  <2>2. Len(s) - n = 0 \/ s[Len(s) - n] <= x BY <1>2
  <2>3. p \in 0 .. Len(s) BY ONLY <1>0, <2>1
  <2> QED BY <2>2, <2>3
<1>5. \A q \in p + 1 .. Len(s) : s[q] > x
  <2> SUFFICES ASSUME NEW q \in p + 1 .. Len(s), ~(s[q] > x) PROVE FALSE OBVIOUS
  <2>1. q \in 1 .. Len(s) /\ s[q] <= x BY <1>0, <1>4
  <2>2. Len(s) - q \in Dist BY <1>0, <2>1
  <2>3. n \in 0 .. Len(s) BY <1>2
  <2>4. Len(s) - q < n BY ONLY <1>0, <2>3, q \in p + 1 .. Len(s)
  <2> QED BY <1>3, <2>2, <2>4
<1>6. \E c \in 0 .. Len(s) : (c = 0 \/ s[c] <= x) /\ \A q \in c + 1 .. Len(s) : s[q] > x
  BY <1>4, <1>5
<1> QED BY <1>6 DEF Rank

LEMMA CatLength ==
  ASSUME NEW S, NEW v \in Seq(S), NEW w \in Seq(S) PROVE Len(v \o w) = Len(v) + Len(w)
OBVIOUS

LEMMA IncreasingIsSorted ==
  ASSUME NEW s \in Seq(TreeNodes)
  PROVE  Increasing(s) <=> /\ Sorted(s)
                           /\ \A p, q \in 1 .. Len(s) : p < q => s[p] # s[q]
<1>1. \A p \in 1 .. Len(s) : s[p] \in Int BY TreeSize DEF TreeNodes
<1>2. Increasing(s) => Sorted(s) /\ \A p, q \in 1 .. Len(s) : p < q => s[p] # s[q]
  BY <1>1 DEF Increasing, Sorted
<1>3. Sorted(s) /\ (\A p, q \in 1 .. Len(s) : p < q => s[p] # s[q]) => Increasing(s)
  BY <1>1 DEF Increasing, Sorted
<1> QED BY <1>2, <1>3

\* insert_sorted adds its argument, keeps the other elements and the order.
LEMMA InsertProperties ==
  ASSUME NEW s \in Seq(TreeNodes), NEW x \in TreeNodes, Len(s) < MAX_OPEN
  PROVE  /\ insert_sorted(s, x) \in Seq(TreeNodes)
         /\ Len(insert_sorted(s, x)) = Len(s) + 1
         /\ Sorted(s) => Sorted(insert_sorted(s, x))
         /\ ToSet(insert_sorted(s, x)) = ToSet(s) \union {x}
         /\ Increasing(s) /\ x \notin ToSet(s) => Increasing(insert_sorted(s, x))
<1> DEFINE c == Rank(s, x)
           t == insert_sorted(s, x)
<1>1. s \in Seq(Int) /\ x \in Int /\ Len(s) \in Nat BY TreeSize DEF TreeNodes
<1>2. /\ c \in 0 .. Len(s)
      /\ c = 0 \/ s[c] <= x
      /\ \A q \in c + 1 .. Len(s) : s[q] > x
  BY <1>1, RankProperty
<1> HIDE DEF c
<1>3. t = SubSeq(s, 1, c) \o <<x>> \o SubSeq(s, c + 1, Len(s))
  <2>1. t = InsertAt(s, c + 1, x) BY TreeAssumption, <1>1 DEF insert_sorted, c
  <2>2. (c + 1) - 1 = c BY <1>2
  <2>3. InsertAt(s, c + 1, x) = SubSeq(s, 1, c) \o <<x>> \o SubSeq(s, c + 1, Len(s))
    BY <2>2 DEF InsertAt
  <2> QED BY <2>1, <2>3
<1>4. /\ t \in Seq(TreeNodes)
      /\ Len(t) = Len(s) + 1
      /\ \A q \in 1 .. c : t[q] = s[q]
      /\ t[c + 1] = x
      /\ \A q \in c + 2 .. Len(s) + 1 : t[q] = s[q - 1]
  <2> DEFINE u == SubSeq(s, 1, c)
             w == SubSeq(s, c + 1, Len(s))
  <2>1. u \in Seq(TreeNodes) /\ Len(u) = c /\ \A q \in 1 .. c : u[q] = s[q]
    BY <1>1, <1>2
  <2>2. /\ w \in Seq(TreeNodes) /\ Len(w) = Len(s) - c
        /\ \A q \in 1 .. Len(s) - c : w[q] = s[q + c]
    BY <1>1, <1>2
  <2> HIDE DEF u, w
  <2>3. /\ u \o <<x>> \in Seq(TreeNodes) /\ Len(u \o <<x>>) = c + 1
        /\ \A q \in 1 .. c : (u \o <<x>>)[q] = s[q]
        /\ (u \o <<x>>)[c + 1] = x
    BY <1>2, <2>1
  <2> DEFINE v == u \o <<x>>
  <2> HIDE DEF v
  <2>4. t = v \o w BY <1>3 DEF u, v, w
  <2> HIDE DEF t
  <2>5. v \in Seq(TreeNodes) /\ Len(v) = c + 1 /\ \A q \in 1 .. c : v[q] = s[q]
    BY <2>3 DEF v
  <2>6. v[c + 1] = x BY <2>3 DEF v
  <2>7. t \in Seq(TreeNodes) /\ Len(t) = Len(s) + 1
    <3>1. t \in Seq(TreeNodes) BY <2>2, <2>4, <2>5
    <3>2. Len(t) = Len(v) + Len(w) BY <2>2, <2>4, <2>5, CatLength
    <3>3. (c + 1) + (Len(s) - c) = Len(s) + 1 BY <1>1, <1>2
    <3> QED BY <2>2, <2>5, <3>1, <3>2, <3>3
  <2>8. \A q \in 1 .. c + 1 : t[q] = v[q] BY <1>2, <2>2, <2>4, <2>5
  <2>9. ASSUME NEW q \in c + 2 .. Len(s) + 1 PROVE t[q] = w[q - (c + 1)]
    <3>1. q \in (c + 1) + 1 .. Len(v) + Len(w) /\ Len(v) = c + 1
      BY <1>1, <1>2, <2>2, <2>5
    <3>2. q \in Len(v) + 1 .. Len(v) + Len(w) BY <3>1
    <3> HIDE DEF c
    <3> QED BY <2>2, <2>4, <2>5, <3>1, <3>2
  <2>10. ASSUME NEW q \in c + 2 .. Len(s) + 1 PROVE t[q] = s[q - 1]
    <3>1. q - (c + 1) \in 1 .. Len(s) - c BY <1>1, <1>2
    <3>2. w[q - (c + 1)] = s[(q - (c + 1)) + c] BY <2>2, <3>1
    <3>3. (q - (c + 1)) + c = q - 1 BY <1>2
    <3> QED BY <2>9, <3>2, <3>3
  <2> QED BY <1>2, <2>5, <2>6, <2>7, <2>8, <2>10
<1> HIDE DEF t
<1>5. ASSUME Sorted(s) PROVE Sorted(t)
  <2> SUFFICES ASSUME NEW p \in 1 .. Len(s) + 1, NEW q \in 1 .. Len(s) + 1, p < q
               PROVE  t[p] <= t[q]
    <3>1. DOMAIN t = 1 .. Len(s) + 1 BY <1>4
    <3>2. \A p \in DOMAIN t : t[p] \in Int BY <1>4, TreeSize DEF TreeNodes
    <3> QED BY <3>1, <3>2 DEF Sorted
  <2>1. \A a, b \in 1 .. Len(s) : a <= b => s[a] <= s[b] BY <1>5 DEF Sorted
  <2>2. \A a \in 1 .. Len(s) : s[a] \in Int BY <1>1
  <2>3. \A a \in 1 .. c : s[a] <= x
    <3>1. \A a \in 1 .. c : s[a] <= s[c] BY <1>1, <1>2, <2>1
    <3> QED BY <1>1, <1>2, <2>2, <3>1
  <2>4. CASE q <= c
    <3>1. t[p] = s[p] /\ t[q] = s[q] BY <1>1, <1>2, <1>4, <2>4
    <3> QED BY <1>1, <1>2, <2>1, <2>4, <3>1
  <2>5. CASE q = c + 1
    BY <1>1, <1>2, <1>4, <2>3, <2>5
  <2>6. CASE q > c + 1
    <3>1. t[q] = s[q - 1] /\ q - 1 \in c + 1 .. Len(s) BY <1>1, <1>2, <1>4, <2>6
    <3>2. CASE p <= c
      <4>1. t[p] = s[p] BY <1>1, <1>2, <1>4, <3>2
      <4>2. p \in 1 .. Len(s) /\ q - 1 \in 1 .. Len(s) /\ p <= q - 1
        BY <1>1, <1>2, <3>1, <3>2
      <4> QED BY <2>1, <3>1, <4>1, <4>2
    <3>3. CASE p = c + 1
      <4>1. s[q - 1] > x BY <1>2, <3>1
      <4> QED BY <1>1, <1>4, <2>2, <3>1, <3>3, <4>1, <1>2
    <3>4. CASE p > c + 1
      <4>1. t[p] = s[p - 1] /\ p - 1 \in 1 .. Len(s) BY <1>1, <1>2, <1>4, <3>4
      <4>2. q - 1 \in 1 .. Len(s) /\ p - 1 <= q - 1 BY <1>1, <1>2, <3>1
      <4> QED BY <2>1, <3>1, <4>1, <4>2
    <3> QED BY <1>2, <3>2, <3>3, <3>4
  <2> QED BY <1>2, <2>4, <2>5, <2>6
<1>6. ToSet(t) = ToSet(s) \union {x}
  <2>1. DOMAIN s = 1 .. Len(s) /\ DOMAIN t = 1 .. Len(s) + 1 BY <1>1, <1>4
  <2>2. ASSUME NEW q \in DOMAIN t PROVE t[q] \in ToSet(s) \union {x}
    <3>1. q \in 1 .. c \/ q = c + 1 \/ q \in c + 2 .. Len(s) + 1 BY <1>1, <1>2, <2>1
    <3>2. CASE q \in 1 .. c
      <4>1. t[q] = s[q] /\ q \in DOMAIN s BY <1>1, <1>2, <1>4, <2>1, <3>2
      <4> QED BY <4>1 DEF ToSet
    <3>3. CASE q \in c + 2 .. Len(s) + 1
      <4>1. t[q] = s[q - 1] /\ q - 1 \in DOMAIN s BY <1>1, <1>2, <1>4, <2>1, <3>3
      <4> QED BY <4>1 DEF ToSet
    <3> QED BY <1>4, <3>1, <3>2, <3>3
  <2>3. ASSUME NEW q \in DOMAIN s PROVE s[q] \in ToSet(t)
    <3>1. CASE q <= c
      <4>1. t[q] = s[q] /\ q \in DOMAIN t BY <1>1, <1>2, <1>4, <2>1, <3>1
      <4> QED BY <4>1 DEF ToSet
    <3>2. CASE q > c
      <4>1. q + 1 \in c + 2 .. Len(s) + 1 /\ (q + 1) - 1 = q /\ q + 1 \in DOMAIN t
        BY <1>1, <1>2, <2>1, <3>2
      <4>2. t[q + 1] = s[q] BY <1>4, <4>1
      <4> QED BY <4>1, <4>2 DEF ToSet
    <3> QED BY <1>2, <2>1, <3>1, <3>2
  <2>4. x \in ToSet(t)
    <3>1. c + 1 \in DOMAIN t BY <1>1, <1>2, <2>1
    <3> QED BY <1>4, <3>1 DEF ToSet
  <2>5. ToSet(t) \subseteq ToSet(s) \union {x} BY <2>2 DEF ToSet
  <2>6. ToSet(s) \subseteq ToSet(t) BY <2>3 DEF ToSet
  <2> QED BY <2>4, <2>5, <2>6
<1>7. ASSUME Increasing(s), x \notin ToSet(s) PROVE Increasing(t)
  <2>1. Sorted(s) /\ \A p, q \in 1 .. Len(s) : p < q => s[p] # s[q]
    BY <1>7, IncreasingIsSorted
  <2>2. \A q \in 1 .. Len(s) : s[q] # x BY <1>7 DEF ToSet
  <2>3. ASSUME NEW p \in 1 .. Len(s) + 1, NEW q \in 1 .. Len(s) + 1, p < q PROVE t[p] # t[q]
    <3>1. CASE q <= c
      <4>1. t[p] = s[p] /\ t[q] = s[q] BY <1>1, <1>2, <1>4, <2>3, <3>1
      <4> QED BY <1>1, <1>2, <2>1, <2>3, <3>1, <4>1
    <3>2. CASE q = c + 1
      <4>1. t[p] = s[p] /\ p \in 1 .. Len(s) BY <1>1, <1>2, <1>4, <2>3, <3>2
      <4> QED BY <1>4, <2>2, <3>2, <4>1
    <3>3. CASE q > c + 1
      <4>1. t[q] = s[q - 1] /\ q - 1 \in c + 1 .. Len(s) /\ q - 1 \in 1 .. Len(s)
        BY <1>1, <1>2, <1>4, <3>3
      <4>2. CASE p <= c
        <5>1. t[p] = s[p] /\ p \in 1 .. Len(s) /\ p < q - 1 BY <1>1, <1>2, <1>4, <3>3, <4>2
        <5> QED BY <2>1, <4>1, <5>1
      <4>3. CASE p = c + 1 BY <1>4, <2>2, <4>1, <4>3
      <4>4. CASE p > c + 1
        <5>1. t[p] = s[p - 1] /\ p - 1 \in 1 .. Len(s) /\ p - 1 < q - 1
          BY <1>1, <1>2, <1>4, <2>3, <4>4
        <5> QED BY <2>1, <4>1, <5>1
      <4> QED BY <1>2, <4>2, <4>3, <4>4
    <3> QED BY <1>2, <3>1, <3>2, <3>3
  <2>4. Sorted(t) BY <1>5, <2>1
  <2>5. \A p, q \in 1 .. Len(t) : p < q => t[p] # t[q] BY <1>4, <2>3
  <2> QED BY <1>4, <2>4, <2>5, IncreasingIsSorted
<1> QED BY <1>4, <1>5, <1>6, <1>7 DEF t

LEMMA InsertFull ==
  ASSUME NEW s \in Seq(TreeNodes), NEW x \in TreeNodes, ~(Len(s) < MAX_OPEN)
  PROVE  insert_sorted(s, x) = s
BY TreeAssumption DEF insert_sorted

\* remove_from_list keeps the order.
LEMMA RemoveProperties ==
  ASSUME NEW s \in Seq(TreeNodes), NEW m \in 0 .. Len(s) - 1
  PROVE  /\ remove_from_list(s, m) \in Seq(TreeNodes)
         /\ Len(remove_from_list(s, m)) = Len(s) - 1
         /\ Sorted(s) => Sorted(remove_from_list(s, m))
         /\ Increasing(s) => /\ Increasing(remove_from_list(s, m))
                             /\ ToSet(remove_from_list(s, m)) = ToSet(s) \ {s[m + 1]}
<1> DEFINE t == remove_from_list(s, m)
           u == SubSeq(s, 1, m)
           w == SubSeq(s, m + 2, Len(s))
<1>1. Len(s) \in Nat /\ m \in Nat /\ m < Len(s) OBVIOUS
<1>2. u \in Seq(TreeNodes) /\ Len(u) = m /\ \A q \in 1 .. m : u[q] = s[q]
  BY <1>1
<1>3. /\ w \in Seq(TreeNodes) /\ Len(w) = Len(s) - m - 1
      /\ \A q \in 1 .. Len(s) - m - 1 : w[q] = s[q + m + 1]
  BY <1>1
<1>4. t = u \o w
  <2>1. (m + 1) - 1 = m /\ (m + 1) + 1 = m + 2 BY <1>1
  <2>2. RemoveAt(s, m + 1) = SubSeq(s, 1, m) \o SubSeq(s, m + 2, Len(s))
    BY <2>1 DEF RemoveAt
  <2> QED BY <2>2 DEF remove_from_list
<1> HIDE DEF t, u, w
<1>5. t \in Seq(TreeNodes) /\ Len(t) = Len(s) - 1
  <2>1. t \in Seq(TreeNodes) /\ Len(t) = Len(u) + Len(w) BY <1>2, <1>3, <1>4
  <2>2. m + (Len(s) - m - 1) = Len(s) - 1 BY <1>1
  <2> QED BY <1>2, <1>3, <2>1, <2>2
<1>6. \A q \in 1 .. m : t[q] = s[q] BY <1>1, <1>2, <1>3, <1>4
<1>7. ASSUME NEW q \in m + 1 .. Len(s) - 1 PROVE t[q] = s[q + 1]
  <2>1. t[q] = w[q - m] BY <1>1, <1>2, <1>3, <1>4
  <2>2. q - m \in 1 .. Len(s) - m - 1 /\ (q - m) + m + 1 = q + 1 BY <1>1
  <2> QED BY <1>3, <2>1, <2>2
<1>8. ASSUME Sorted(s) PROVE Sorted(t)
  <2>1. \A a, b \in 1 .. Len(s) : a <= b => s[a] <= s[b] BY <1>8 DEF Sorted
  <2> SUFFICES ASSUME NEW p \in 1 .. Len(s) - 1, NEW q \in 1 .. Len(s) - 1, p <= q
               PROVE  t[p] <= t[q]
    BY <1>5 DEF Sorted
  <2>2. CASE q <= m BY <1>1, <1>6, <2>1, <2>2
  <2>3. CASE p <= m /\ q > m
    <3>1. t[p] = s[p] /\ t[q] = s[q + 1] BY <1>1, <1>6, <1>7, <2>3
    <3> QED BY <1>1, <2>1, <3>1
  <2>4. CASE p > m
    <3>1. t[p] = s[p + 1] /\ t[q] = s[q + 1] BY <1>1, <1>7, <2>4
    <3> QED BY <1>1, <2>1, <3>1
  <2> QED BY <1>1, <2>2, <2>3, <2>4
<1>9. ASSUME Increasing(s) PROVE Increasing(t) /\ ToSet(t) = ToSet(s) \ {s[m + 1]}
  <2>1. Sorted(s) /\ \A p, q \in 1 .. Len(s) : p < q => s[p] # s[q]
    BY <1>9, IncreasingIsSorted
  <2>2. ASSUME NEW p \in 1 .. Len(s) - 1, NEW q \in 1 .. Len(s) - 1, p < q PROVE t[p] # t[q]
    <3>1. CASE q <= m
      <4>1. t[p] = s[p] /\ t[q] = s[q] BY <1>1, <1>6, <2>2, <3>1
      <4> QED BY <1>1, <2>1, <2>2, <4>1
    <3>2. CASE p <= m /\ q > m
      <4>1. t[p] = s[p] /\ t[q] = s[q + 1] BY <1>1, <1>6, <1>7, <3>2
      <4> QED BY <1>1, <2>1, <2>2, <4>1
    <3>3. CASE p > m
      <4>1. t[p] = s[p + 1] /\ t[q] = s[q + 1] BY <1>1, <1>7, <2>2, <3>3
      <4> QED BY <1>1, <2>1, <2>2, <4>1
    <3> QED BY <1>1, <3>1, <3>2, <3>3
  <2>3. Increasing(t) BY <1>5, <1>8, <2>1, <2>2, IncreasingIsSorted
  <2>4. DOMAIN s = 1 .. Len(s) /\ DOMAIN t = 1 .. Len(s) - 1 BY <1>1, <1>5
  <2>5. ASSUME NEW q \in DOMAIN t PROVE t[q] \in ToSet(s) \ {s[m + 1]}
    <3>1. CASE q <= m
      <4>1. t[q] = s[q] /\ q \in 1 .. Len(s) /\ m + 1 \in 1 .. Len(s) /\ q < m + 1
        BY <1>1, <1>6, <2>4, <3>1
      <4> QED BY <2>1, <2>4, <4>1 DEF ToSet
    <3>2. CASE q > m
      <4>1. t[q] = s[q + 1] /\ q + 1 \in 1 .. Len(s) /\ m + 1 \in 1 .. Len(s) /\ m + 1 < q + 1
        BY <1>1, <1>7, <2>4, <3>2
      <4> QED BY <2>1, <2>4, <4>1 DEF ToSet
    <3> QED BY <1>1, <2>4, <3>1, <3>2
  <2>6. ASSUME NEW q \in DOMAIN s, q # m + 1 PROVE s[q] \in ToSet(t)
    <3>1. CASE q <= m
      <4>1. t[q] = s[q] /\ q \in DOMAIN t BY <1>1, <1>6, <2>4, <3>1
      <4> QED BY <4>1 DEF ToSet
    <3>2. CASE q > m + 1
      <4>1. q - 1 \in m + 1 .. Len(s) - 1 /\ q - 1 \in DOMAIN t /\ (q - 1) + 1 = q
        BY <1>1, <2>4, <3>2
      <4>2. t[q - 1] = s[q] BY <1>7, <4>1
      <4> QED BY <4>1, <4>2 DEF ToSet
    <3> QED BY <1>1, <2>4, <2>6, <3>1, <3>2
  <2>7. ToSet(t) \subseteq ToSet(s) \ {s[m + 1]} BY <2>5 DEF ToSet
  <2>8. ToSet(s) \ {s[m + 1]} \subseteq ToSet(t) BY <2>6 DEF ToSet
  <2> QED BY <2>3, <2>7, <2>8
<1> QED BY <1>5, <1>8, <1>9 DEF t

\* A list in order has each of its elements once.
LEMMA IncreasingLength ==
  ASSUME NEW s \in Seq(TreeNodes), Increasing(s)
  PROVE  Cardinality(ToSet(s)) = Len(s)
<1>1. Len(s) \in Nat /\ DOMAIN s = 1 .. Len(s) OBVIOUS
<1>2. \A p, q \in 1 .. Len(s) : p < q => s[p] # s[q] BY IncreasingIsSorted
<1>3. \A p, q \in 1 .. Len(s) : s[p] = s[q] => p = q
  <2>1. \A p, q \in 1 .. Len(s) : p = q \/ p < q \/ q < p BY <1>1
  <2> QED BY <1>2, <2>1, Zenon
<1>4. s \in Bijection(1 .. Len(s), ToSet(s))
  BY <1>1, <1>3 DEF Bijection, Injection, IsInjective, Surjection, ToSet
<1>5. ExistsBijection(1 .. Len(s), ToSet(s)) BY <1>4 DEF ExistsBijection
<1> QED BY <1>1, <1>5, FS_CountingElements

\* A set has one list in order.
LEMMA IncreasingIsOne ==
  ASSUME NEW s \in Seq(TreeNodes), NEW t \in Seq(TreeNodes), Increasing(s), Increasing(t),
         ToSet(s) = ToSet(t)
  PROVE  s = t
<1>1. Len(s) \in Nat /\ Len(s) = Len(t) BY IncreasingLength
<1> DEFINE N == 1 .. Len(s)
           Bad == {p \in N : s[p] # t[p]}
<1>2. DOMAIN s = N /\ DOMAIN t = N BY <1>1
<1>3. SUFFICES ASSUME NEW b \in Bad PROVE FALSE BY <1>1, <1>2
<1>4. Bad \subseteq Nat OBVIOUS
<1>5. PICK p \in Bad : \A q \in Bad : ~(<<q, p>> \in OpToRel(<, Nat))
  BY <1>3, <1>4, WFMin, NatLessThanWellFounded
<1>6. \A q \in N : q < p => s[q] = t[q] BY <1>4, <1>5 DEF OpToRel
<1>7. p \in N /\ s[p] # t[p] /\ \A q \in N : s[q] \in Int /\ t[q] \in Int
  BY <1>2, TreeSize DEF TreeNodes
<1>8. /\ \A a, b1 \in N : a < b1 => s[a] < s[b1] /\ t[a] < t[b1]
  BY <1>2 DEF Increasing
<1>9. PICK q \in N : s[p] = t[q] BY <1>2, <1>7 DEF ToSet
<1>10. PICK u \in N : t[p] = s[u] BY <1>2, <1>7 DEF ToSet
<1>11. q < p \/ q = p \/ p < q BY <1>7
<1>12. u < p \/ u = p \/ p < u BY <1>7
<1>13. q > p BY <1>6, <1>7, <1>8, <1>9, <1>11
<1>14. u > p BY <1>6, <1>7, <1>8, <1>10, <1>12
<1>15. t[p] < t[q] /\ s[p] < s[u] BY <1>7, <1>8, <1>13, <1>14
<1> QED BY <1>7, <1>9, <1>10, <1>15

(* What hides the leaves *)

LEMMA HidingFacts ==
  ASSUME NEW H \in SUBSET TreeLeaves
  PROVE  /\ Hiding(H) \in SUBSET TreeNodes /\ Closed(Hiding(H))
         /\ Cover(H) = Frontier(Hiding(H))
         /\ H # {} => 0 \in Hiding(H)
         /\ \A leaf \in TreeLeaves : LEAVES_SEEDS_OFFSET + leaf \in Hiding(H) <=> leaf \in H
         /\ \A leaf \in TreeLeaves :
              Hiding(H \union {leaf}) = Hiding(H) \union Ancestors[LEAVES_SEEDS_OFFSET + leaf]
<1>1. Hiding(H) \in SUBSET TreeNodes /\ Closed(Hiding(H))
  BY HiddenNode, AncestorsLeast DEF Hiding, Closed
<1>2. Cover(H) = Frontier(Hiding(H)) BY DEF Cover, Frontier
<1>3. H # {} => 0 \in Hiding(H) BY HiddenNode, AncestorsLeast DEF Hiding
<1>4. ASSUME NEW leaf \in TreeLeaves
      PROVE  LEAVES_SEEDS_OFFSET + leaf \in Hiding(H) <=> leaf \in H
  <2> DEFINE v == LEAVES_SEEDS_OFFSET + leaf
  <2>1. leaf \in H => v \in Hiding(H) BY HiddenNode, AncestorsLeast DEF Hiding
  <2>2. ASSUME v \in Hiding(H) PROVE leaf \in H
    <3>1. PICK x \in H : v \in Ancestors[LEAVES_SEEDS_OFFSET + x] BY <2>2 DEF Hiding
    <3> DEFINE w == LEAVES_SEEDS_OFFSET + x
    <3>2. w \in TreeNodes BY HiddenNode
    <3>3. ASSUME v # w PROVE FALSE
      <4>1. PICK c \in Ancestors[w] \ {0} : parent(c) = v BY <3>1, <3>2, <3>3, AncestorChild
      <4>2. c \in TreeNodes \ {0} BY <3>2, <4>1, AncestorsLeast
      <4> QED BY <4>1, <4>2, LeafHasNoChild, TreeSize DEF LEAVES_SEEDS_OFFSET, TreeLeaves
    <3>4. leaf = x BY <3>3, TreeSize DEF LEAVES_SEEDS_OFFSET, TreeLeaves
    <3> QED BY <3>4
  <2> QED BY <2>1, <2>2
<1>5. \A leaf \in TreeLeaves :
        Hiding(H \union {leaf}) = Hiding(H) \union Ancestors[LEAVES_SEEDS_OFFSET + leaf]
  BY DEF Hiding
<1> QED BY <1>1, <1>2, <1>3, <1>4, <1>5

\* Leaves of two repetitions are not the same.
LEMMA PsiDistinct ==
  ASSUME NEW a \in 0 .. PARAM_N - 1, NEW b \in 0 .. PARAM_N - 1,
         NEW x \in Repetitions, NEW y \in Repetitions, psi(a, x) = psi(b, y)
  PROVE  x = y
<1>1. /\ a \in Nat /\ b \in Nat /\ TAU \in Nat /\ TAU > 0
      /\ x \in Nat /\ x < TAU /\ y \in Nat /\ y < TAU
  BY TreeAssumption DEF Repetitions
<1>2. a * TAU + x = b * TAU + y BY DEF psi
<1>3. a * TAU \in Nat /\ b * TAU \in Nat BY <1>1
<1>4. ASSUME a < b PROVE FALSE
  <2>1. (a + 1) * TAU = a * TAU + TAU /\ (a + 1) * TAU <= b * TAU BY <1>1, <1>4
  <2> QED BY <1>1, <1>2, <1>3, <2>1
<1>5. ASSUME b < a PROVE FALSE
  <2>1. (b + 1) * TAU = b * TAU + TAU /\ (b + 1) * TAU <= a * TAU BY <1>1, <1>5
  <2> QED BY <1>1, <1>2, <1>3, <2>1
<1>6. a = b BY <1>1, <1>4, <1>5
<1>7. a * TAU = b * TAU BY <1>6
<1> QED BY <1>1, <1>2, <1>3, <1>7

(* The inductive invariant *)

LEMMA ViewType ==
  ASSUME shake \in Oracles, NEW c \in Counters PROVE shake[c] \in Views
<1>1. PICK b \in 1 .. BATCHES : shake \in [0 .. b * SHAKE_STEP - 1 -> Views]
  BY TCitHAssumption
<1> QED BY <1>1 DEF Counters

\* The counters of a batch are all there, and so is the batch after it, if
\* one of its counters is.
LEMMA BatchCounters ==
  ASSUME NEW b \in Nat, NEW c \in Nat, c < b
  PROVE  /\ \A s \in 0 .. SHAKE_STEP - 1 : c * SHAKE_STEP + s \in 0 .. b * SHAKE_STEP - 1
         /\ c * SHAKE_STEP + SHAKE_STEP \in 0 .. b * SHAKE_STEP - 1 =>
              c * SHAKE_STEP + SHAKE_STEP = (c + 1) * SHAKE_STEP /\ c + 1 < b
<1> DEFINE S == SHAKE_STEP
<1>1. S \in Nat /\ S > 0 BY TCitHAssumption
<1> HIDE DEF S
<1>2. c * S \in Nat /\ b * S \in Nat /\ (c + 1) * S = c * S + S BY <1>1
<1>3. (c + 1) * S <= b * S BY <1>1
<1>4. c + 1 = b => (c + 1) * S = b * S OBVIOUS
<1>5. \A s \in 0 .. S - 1 : c * S + s \in 0 .. b * S - 1 BY <1>1, <1>2, <1>3
<1>6. c * S + S \in 0 .. b * S - 1 => c + 1 # b BY <1>1, <1>2, <1>4
<1>7. c * S + S \in 0 .. b * S - 1 => c * S + S = (c + 1) * S /\ c + 1 < b
  BY <1>2, <1>6
<1> QED BY <1>5, <1>7 DEF S

LEMMA NextLeafStep ==
  ASSUME ListInv, e < TAU, NextLeaf, psi_i_star' = psi_i_star,
         path_indexes' \in Seq(TreeNodes), Sorted(path_indexes')
  PROVE  ListInv' /\ l' = 0 /\ r' = Len(path_indexes') - 1
<1>1. /\ l' = 0 /\ r' = Len(path_indexes') - 1 /\ Len(path_indexes') \in Nat
      /\ l' \in 0 .. Len(path_indexes') /\ r' \in -1 .. Len(path_indexes') - 1
  BY DEF NextLeaf, StartSearch
<1>2. e \in Nat /\ e' = e + 1 /\ e' \in 0 .. TAU BY TreeAssumption DEF ListInv, NextLeaf
<1>3. node' \in TreeNodes
  <2>1. CASE e + 1 < TAU
    <3>1. e + 1 \in Repetitions BY <1>2, <2>1, TreeAssumption DEF Repetitions
    <3>2. psi_i_star[e + 1] \in TreeLeaves BY <3>1 DEF ListInv
    <3> QED BY <2>1, <3>2, HiddenNode DEF NextLeaf
  <2>2. CASE ~(e + 1 < TAU)
    BY <2>2, TreeSize DEF NextLeaf
  <2> QED BY <2>1, <2>2
<1> QED BY <1>1, <1>2, <1>3 DEF ListInv

LEMMA HideStep ==
  ASSUME NEW view \in Views, Hide(view)
  PROVE  /\ ListInv' /\ l' = 0 /\ r' = Len(path_indexes') - 1
         /\ path_indexes' = <<>> /\ e' = 0
<1>1. /\ path_indexes' = <<>> /\ e' = 0 /\ l' = 0 /\ r' = Len(path_indexes') - 1
      /\ node' = LEAVES_SEEDS_OFFSET + psi_i_star'[0]
      /\ psi_i_star' = [x \in Repetitions |-> psi(view.i_star[x], x)]
  BY DEF Hide, StartSearch
<1>2. \A x \in Repetitions : view.i_star[x] \in 0 .. PARAM_N - 1 BY DEF Views
<1>3. psi_i_star' \in [Repetitions -> TreeLeaves] BY <1>1, <1>2, PsiType
<1>4. 0 \in Repetitions BY TreeAssumption DEF Repetitions
<1>5. node' \in TreeNodes BY <1>1, <1>3, <1>4, HiddenNode
<1>6. path_indexes' \in Seq(TreeNodes) /\ Sorted(path_indexes') /\ Len(path_indexes') = 0
  BY <1>1 DEF Sorted
<1>7. e' \in 0 .. TAU /\ l' \in 0 .. Len(path_indexes') /\ r' \in -1 .. Len(path_indexes') - 1
  BY <1>1, <1>6, TreeAssumption
<1> QED BY <1>1, <1>3, <1>5, <1>6, <1>7 DEF ListInv

\* At the start of a search all of the list is before it.
LEMMA FreshSearch ==
  ASSUME ListInv', l' = 0, r' = Len(path_indexes') - 1 PROVE SearchInv'
BY DEF SearchInv, ListInv

LEMMA Initially == Init => Inv
<1> SUFFICES ASSUME Init PROVE Inv OBVIOUS
<1>1. PICK b \in 1 .. BATCHES : shake \in [0 .. b * SHAKE_STEP - 1 -> Views]
  BY TCitHAssumption DEF Init
<1>2. b \in Nat /\ b > 0 BY TCitHAssumption
<1>3. Counters = 0 .. b * SHAKE_STEP - 1 BY <1>1 DEF Counters
<1>4. ctr = 0 * SHAKE_STEP BY TCitHAssumption DEF Init
<1>5. AtBatch BY <1>2, <1>3, <1>4 DEF AtBatch
<1>6. ctr \in Counters
  <2>1. 0 * SHAKE_STEP + 0 \in 0 .. b * SHAKE_STEP - 1
    BY <1>2, BatchCounters, TCitHAssumption
  <2> QED BY <1>3, <1>4, <2>1, TCitHAssumption DEF Init
<1>7. ViewInv BY <1>5, <1>6, TCitHAssumption DEF Init, ViewInv
<1>8. ListInv
  <2>1. path_indexes \in Seq(TreeNodes) /\ Sorted(path_indexes) /\ Len(path_indexes) = 0
    BY DEF Init, Sorted
  <2>2. psi_i_star \in [Repetitions -> TreeLeaves] BY TreeSize DEF Init, TreeLeaves
  <2> QED BY <2>1, <2>2, TreeSize, TreeAssumption DEF Init, ListInv
<1>9. SearchInv BY DEF Init, SearchInv, Listing
<1>10. ChosenInv
  <2>1. 0 .. ctr + step - 1 = {} BY DEF Init
  <2> QED BY <2>1 DEF Init, ChosenInv, Signed
<1>11. CoverInv /\ SeedInv /\ PathInv /\ PartialInv
  BY DEF Init, CoverInv, SeedInv, PathInv, PartialInv, BlankLeaves, Signed
<1> QED BY <1>7, <1>8, <1>9, <1>10, <1>11 DEF Inv

(* Steps *)

LEMMA StayBatch ==
  ASSUME AtBatch, UNCHANGED <<shake, ctr>> PROVE AtBatch'
BY DEF AtBatch, Counters

\* The counters: every step but the ones over the list.
LEMMA ViewStep == Inv /\ [Next]_vars => ViewInv'
<1> SUFFICES ASSUME Inv, [Next]_vars PROVE ViewInv' OBVIOUS
<1>0. SHAKE_STEP \in Nat /\ SHAKE_STEP > 0 BY TCitHAssumption
<1>1. UNCHANGED shake BY DEF Next, Expand, RetryShake, Discard, GetSiblingPath, Search, Meet,
        Climb, AtRoot, RejectPath, Sign, CallVerify, PartialExpand, PlaceSeed, ExpandValid,
        SkipNode, Expanded, vars
<1>2. step \in Nat BY DEF Inv, ViewInv
<1>3. CASE RetryShake
  <2>1. PICK b, c \in Nat : Counters = 0 .. b * SHAKE_STEP - 1 /\ ctr = c * SHAKE_STEP /\ c < b
    BY <1>3 DEF Inv, ViewInv, AtBatch, RetryShake
  <2>2. ctr' = c * SHAKE_STEP + SHAKE_STEP /\ ctr' \in Counters BY <1>3, <2>1 DEF RetryShake
  <2>3. ctr' = (c + 1) * SHAKE_STEP /\ c + 1 < b BY <2>1, <2>2, BatchCounters
  <2>4. Counters' = Counters BY <1>1 DEF Counters
  <2>5. AtBatch' BY <2>1, <2>3, <2>4 DEF AtBatch
  <2> QED BY <1>0, <1>1, <1>3, <2>2, <2>4, <2>5 DEF Inv, ViewInv, RetryShake
<1>4. CASE Sign
  <2>1. PICK b, c \in Nat : Counters = 0 .. b * SHAKE_STEP - 1 /\ ctr = c * SHAKE_STEP /\ c < b
    BY <1>4 DEF Inv, ViewInv, AtBatch, Sign
  <2>2. step \in 0 .. SHAKE_STEP - 1 BY <1>0, <1>4 DEF Inv, ViewInv, Sign
  <2>3. ctr + step \in Counters BY <2>1, <2>2, BatchCounters
  <2> QED BY <1>1, <1>4, <2>3 DEF Inv, ViewInv, Sign, Counters
<1>5. CASE Discard \/ GetSiblingPath \/ RejectPath
  <2>1. UNCHANGED ctr /\ pc \in {"step", "sign_list"} /\ pc' \in {"step", "sign_list"}
    BY <1>5 DEF Discard, GetSiblingPath, RejectPath, signer
  <2>2. step < SHAKE_STEP BY <1>5 DEF Discard, GetSiblingPath, RejectPath, Inv, ViewInv
  <2>3. step' \in 0 .. SHAKE_STEP /\ (pc' = "sign_list" => step' < SHAKE_STEP)
    BY <1>0, <1>2, <1>5, <2>2 DEF Discard, GetSiblingPath, RejectPath, signer
  <2>4. AtBatch' BY <1>1, <2>1, StayBatch DEF Inv, ViewInv
  <2> QED BY <1>1, <2>1, <2>3, <2>4 DEF Inv, ViewInv, Counters
<1>6. CASE Expand \/ Search \/ Meet \/ Climb \/ AtRoot \/ UNCHANGED vars
  <2>1. /\ UNCHANGED <<ctr, step>>
        /\ pc' \in {"expand", "step", "sign_list"} => pc \in {"expand", "step", "sign_list"}
        /\ pc' = "sign_list" => pc = "sign_list"
    BY <1>6 DEF Expand, Search, Meet, Climb, AtRoot, vars, signer, Listing
  <2>2. pc' \in {"expand", "step", "sign_list"} => AtBatch'
    BY <1>1, <2>1, StayBatch DEF Inv, ViewInv
  <2> QED BY <1>1, <2>1, <2>2 DEF Inv, ViewInv, Counters
<1>7. CASE CallVerify \/ PartialExpand \/ PlaceSeed \/ ExpandValid \/ SkipNode \/ Expanded
  <2>1. UNCHANGED <<ctr, step>> /\ pc' \notin {"expand", "step", "sign_list"}
    BY <1>7 DEF CallVerify, PartialExpand, PlaceSeed, ExpandValid, SkipNode, Expanded, signer
  <2> QED BY <1>1, <2>1 DEF Inv, ViewInv, Counters
<1> QED BY <1>3, <1>4, <1>5, <1>6, <1>7 DEF Next

\* One half of the list is left, the one node is in if it is in the list.
LEMMA SearchStep == Inv /\ Search => ListInv' /\ SearchInv'
<1> SUFFICES ASSUME Inv, Search PROVE ListInv' /\ SearchInv' OBVIOUS
<1>1. /\ path_indexes \in Seq(TreeNodes) /\ Sorted(path_indexes) /\ Len(path_indexes) \in Nat
      /\ node \in Int /\ l \in 0 .. Len(path_indexes) /\ r \in -1 .. Len(path_indexes) - 1
  BY TreeSize DEF Inv, ListInv, TreeNodes
<1>2. Listing /\ l <= r /\ ~Found BY DEF Search
<1>3. UNCHANGED <<psi_i_star, path_indexes, e, node>> BY DEF Search
<1>4. Middle \in l .. r /\ Middle \in 0 .. Len(path_indexes) - 1 BY <1>1, <1>2 DEF Middle
<1>5. /\ path_indexes[Middle + 1] \in Int /\ path_indexes[Middle + 1] # node
      /\ Middle + 1 \in DOMAIN path_indexes
  BY <1>1, <1>2, <1>4, TreeSize DEF Found, TreeNodes
<1>6. \A p \in DOMAIN path_indexes : path_indexes[p] = node => p - 1 \in l .. r
  BY <1>2 DEF Inv, SearchInv
<1> DEFINE m == Middle
<1> HIDE DEF m
<1>7. CASE path_indexes[Middle + 1] < node
  <2>1. l' = m + 1 /\ r' = r BY <1>7 DEF Search, m
  <2>2. ASSUME NEW p \in DOMAIN path_indexes, path_indexes[p] = node PROVE p - 1 \in l' .. r'
    <3>1. p \in 1 .. Len(path_indexes) /\ p - 1 \in l .. r BY <1>1, <1>6, <2>2
    <3>2. ~(p <= m + 1)
      <4>1. p <= m + 1 => path_indexes[p] <= path_indexes[m + 1]
        BY <1>1, <1>5 DEF Sorted, m
      <4> QED BY <1>1, <1>5, <1>7, <2>2, <4>1 DEF m
    <3> QED BY <1>1, <1>4, <2>1, <3>1, <3>2 DEF m
  <2>3. l' \in 0 .. Len(path_indexes) /\ r' \in -1 .. Len(path_indexes) - 1
    BY <1>1, <1>4, <2>1 DEF m
  <2> QED BY <1>3, <2>2, <2>3 DEF Inv, ListInv, SearchInv
<1>8. CASE ~(path_indexes[Middle + 1] < node)
  <2>1. l' = l /\ r' = m - 1 BY <1>8 DEF Search, m
  <2>2. ASSUME NEW p \in DOMAIN path_indexes, path_indexes[p] = node PROVE p - 1 \in l' .. r'
    <3>1. p \in 1 .. Len(path_indexes) /\ p - 1 \in l .. r BY <1>1, <1>6, <2>2
    <3>2. ~(m + 1 <= p)
      <4>1. m + 1 <= p => path_indexes[m + 1] <= path_indexes[p]
        BY <1>1, <1>5 DEF Sorted, m
      <4> QED BY <1>1, <1>5, <1>8, <2>2, <4>1 DEF m
    <3> QED BY <1>1, <1>4, <2>1, <3>1, <3>2 DEF m
  <2>3. l' \in 0 .. Len(path_indexes) /\ r' \in -1 .. Len(path_indexes) - 1
    BY <1>1, <1>4, <2>1 DEF m
  <2> QED BY <1>3, <2>2, <2>3 DEF Inv, ListInv, SearchInv
<1> QED BY <1>7, <1>8

\* What the climb to the parent does to the list.
LEMMA ClimbList ==
  ASSUME Inv, Climb
  PROVE  /\ path_indexes' \in Seq(TreeNodes) /\ Sorted(path_indexes')
         /\ node \in TreeNodes \ {0} /\ node' = parent(node) /\ node' \in TreeNodes
         /\ IF Len(path_indexes) < MAX_OPEN
              THEN Len(path_indexes') = Len(path_indexes) + 1 /\ pc' = pc
              ELSE pc' = "full"
<1>1. node \in TreeNodes \ {0} BY TreeSize DEF Inv, ListInv, Climb, Listing, TreeNodes
<1>2. path_indexes' = insert_sorted(path_indexes, sibling(node)) /\ node' = parent(node)
  BY DEF Climb
<1>3. path_indexes \in Seq(TreeNodes) /\ Sorted(path_indexes) /\ Len(path_indexes) \in Nat
  BY DEF Inv, ListInv
<1>4. sibling(node) \in TreeNodes /\ node' \in TreeNodes BY <1>1, <1>2, NodeTypes
<1>5. CASE Len(path_indexes) < MAX_OPEN
  <2>1. /\ path_indexes' \in Seq(TreeNodes) /\ Sorted(path_indexes')
        /\ Len(path_indexes') = Len(path_indexes) + 1
    BY <1>2, <1>3, <1>4, <1>5, InsertProperties
  <2>2. Len(path_indexes') # Len(path_indexes) BY <1>3, <2>1
  <2>3. pc' = pc BY <2>2 DEF Climb
  <2> QED BY <1>1, <1>2, <1>4, <1>5, <2>1, <2>3
<1>6. CASE ~(Len(path_indexes) < MAX_OPEN)
  <2>1. path_indexes' = path_indexes BY <1>2, <1>3, <1>4, <1>6, InsertFull
  <2>2. pc' = "full" BY <2>1 DEF Climb
  <2> QED BY <1>1, <1>2, <1>3, <1>4, <1>6, <2>1, <2>2
<1> QED BY <1>5, <1>6

LEMMA ListStep == Inv /\ [Next]_vars => ListInv' /\ SearchInv'
<1> SUFFICES ASSUME Inv, [Next]_vars PROVE ListInv' /\ SearchInv' OBVIOUS
<1>1. CASE GetSiblingPath
  <2>1. ctr + step \in Counters
    <3>1. PICK b, c \in Nat : Counters = 0 .. b * SHAKE_STEP - 1 /\ ctr = c * SHAKE_STEP /\ c < b
      BY <1>1 DEF Inv, ViewInv, AtBatch, GetSiblingPath
    <3>2. step \in 0 .. SHAKE_STEP - 1 BY <1>1, TCitHAssumption DEF Inv, ViewInv, GetSiblingPath
    <3> QED BY <3>1, <3>2, BatchCounters
  <2>2. Candidate \in Views /\ Hide(Candidate)
    BY <1>1, <2>1, ViewType DEF Inv, ViewInv, Candidate, GetSiblingPath
  <2> QED BY <2>2, HideStep, FreshSearch
<1>2. CASE Search BY <1>2, SearchStep
<1>3. CASE Meet
  <2>1. Middle \in 0 .. Len(path_indexes) - 1
    BY <1>3, TreeSize DEF Meet, Middle, Inv, ListInv
  <2>2. path_indexes' \in Seq(TreeNodes) /\ Sorted(path_indexes')
    BY <1>3, <2>1, RemoveProperties DEF Meet, Inv, ListInv
  <2>3. e < TAU /\ NextLeaf /\ psi_i_star' = psi_i_star BY <1>3 DEF Meet, Listing
  <2> QED BY <2>2, <2>3, NextLeafStep, FreshSearch DEF Inv
<1>4. CASE Climb
  <2>1. path_indexes' \in Seq(TreeNodes) /\ Sorted(path_indexes') /\ node' \in TreeNodes
    BY <1>4, ClimbList
  <2>2. /\ l' = 0 /\ r' = Len(path_indexes') - 1 /\ UNCHANGED <<psi_i_star, e>>
        /\ Len(path_indexes') \in Nat
    BY <1>4, <2>1 DEF Climb, StartSearch
  <2>3. ListInv' BY <2>1, <2>2 DEF Inv, ListInv
  <2> QED BY <2>2, <2>3, FreshSearch
<1>5. CASE AtRoot
  <2>1. /\ e < TAU /\ NextLeaf /\ psi_i_star' = psi_i_star
        /\ path_indexes' \in Seq(TreeNodes) /\ Sorted(path_indexes')
    BY <1>5 DEF AtRoot, Inv, ListInv
  <2> QED BY <2>1, NextLeafStep, FreshSearch DEF Inv
<1>6. CASE CallVerify
  <2>1. shake[ctr] \in Views BY ViewType DEF Inv, ViewInv
  <2>2. Hide(shake[ctr]) BY <1>6 DEF CallVerify
  <2> QED BY <2>1, <2>2, HideStep, FreshSearch
<1>7. CASE \/ Expand \/ RetryShake \/ Discard \/ RejectPath \/ Sign \/ PartialExpand
           \/ PlaceSeed \/ ExpandValid \/ SkipNode \/ Expanded \/ UNCHANGED vars
  <2>1. UNCHANGED <<psi_i_star, list>> /\ (Listing' => Listing)
    BY <1>7 DEF Expand, RetryShake, Discard, RejectPath, Sign, PartialExpand, PlaceSeed,
         ExpandValid, SkipNode, Expanded, vars, list, Listing
  <2> QED BY <2>1 DEF Inv, ListInv, SearchInv, list
<1> QED BY <1>1, <1>2, <1>3, <1>4, <1>5, <1>6, <1>7 DEF Next

(* The cover, step by step *)

LEMMA EarlierFacts ==
  ASSUME ListInv, e < TAU
  PROVE  /\ e \in Repetitions /\ psi_i_star[e] \in TreeLeaves
         /\ LeafNode \in TreeNodes /\ LeafNode >= LEAVES_SEEDS_OFFSET
         /\ Earlier \in SUBSET TreeNodes /\ Closed(Earlier)
         /\ 0 \notin Earlier => Earlier = {}
         /\ Hiding({psi_i_star[x] : x \in 0 .. e}) = Earlier \union Ancestors[LeafNode]
<1> DEFINE H == {psi_i_star[x] : x \in 0 .. e - 1}
<1>1. e \in Nat /\ e \in Repetitions /\ \A x \in 0 .. e : x \in Repetitions
  BY TreeAssumption DEF ListInv, Repetitions
<1>2. \A x \in 0 .. e : psi_i_star[x] \in TreeLeaves BY <1>1 DEF ListInv
<1>3. H \in SUBSET TreeLeaves BY <1>1, <1>2
<1>4. {psi_i_star[x] : x \in 0 .. e} = H \union {psi_i_star[e]}
  <2>1. 0 .. e = (0 .. e - 1) \union {e} BY <1>1
  <2> QED BY <2>1
<1>5. psi_i_star[e] \in TreeLeaves BY <1>1, <1>2
<1>6. LeafNode \in TreeNodes /\ LeafNode >= LEAVES_SEEDS_OFFSET
  BY <1>5, HiddenNode, TreeSize DEF LeafNode, TreeLeaves, LEAVES_SEEDS_OFFSET
<1>7. Hiding(H \union {psi_i_star[e]}) = Hiding(H) \union Ancestors[LeafNode]
  BY <1>3, <1>5, HidingFacts DEF LeafNode
<1>8. Earlier = Hiding(H) BY DEF Earlier
<1>9. H = {} => Earlier = {} BY <1>8 DEF Hiding
<1> HIDE DEF H
<1>10. Earlier \in SUBSET TreeNodes /\ Closed(Earlier) /\ (H # {} => 0 \in Earlier)
  BY <1>3, <1>8, HidingFacts
<1> QED BY <1>1, <1>4, <1>5, <1>6, <1>7, <1>8, <1>9, <1>10

\* A new list begins.
LEMMA HideCover ==
  ASSUME NEW view \in Views, Hide(view), pc' \in {"sign_list", "verify_list"}, ListInv'
  PROVE  CoverInv'
<1>1. /\ path_indexes' = <<>> /\ e' = 0 /\ node' = LEAVES_SEEDS_OFFSET + psi_i_star'[0]
      /\ psi_i_star' = [x \in Repetitions |-> psi(view.i_star[x], x)]
  BY DEF Hide
<1>2. \A x \in Repetitions : view.i_star[x] \in 0 .. PARAM_N - 1 BY DEF Views
<1>3. \A x, y \in Repetitions : psi_i_star'[x] = psi_i_star'[y] => x = y
  BY <1>1, <1>2, PsiDistinct
<1>4. Increasing(path_indexes') /\ ToSet(path_indexes') = {}
  BY <1>1 DEF Increasing, ToSet
<1>5. Earlier' = {}
  <2>1. 0 .. e' - 1 = {} BY <1>1
  <2> QED BY <2>1 DEF Earlier, Hiding
<1>6. Frontier({}) = {} BY DEF Frontier
<1>7. node' = LeafNode' /\ node' \in TreeNodes BY <1>1 DEF LeafNode, ListInv
<1>8. node' \in Ancestors[LeafNode'] /\ Climbed(LeafNode', node') = {}
  BY <1>7, AncestorsLeast DEF Climbed
<1>9. SiblingsOf({}) = {} BY DEF SiblingsOf
<1>10. e' < TAU BY <1>1, TreeAssumption
<1> QED BY <1>3, <1>4, <1>5, <1>6, <1>8, <1>9, <1>10, TreeAssumption DEF CoverInv

\* A leaf is done.
LEMMA NextLeafCover ==
  ASSUME ListInv, ListInv', CoverInv, pc \in {"sign_list", "verify_list"}, e < TAU, NextLeaf,
         UNCHANGED <<pc, psi_i_star>>, Increasing(path_indexes'),
         ToSet(path_indexes') = Frontier(Earlier \union Ancestors[LeafNode])
  PROVE  CoverInv'
<1>1. e \in Nat /\ e' = e + 1 /\ e' <= TAU BY TreeAssumption DEF ListInv, NextLeaf
<1>2. 0 .. e' - 1 = 0 .. e BY <1>1
<1>3. Earlier' = Earlier \union Ancestors[LeafNode]
  <2>1. Earlier' = Hiding({psi_i_star[x] : x \in 0 .. e}) BY <1>2 DEF Earlier
  <2> QED BY <2>1, EarlierFacts
<1>4. ToSet(path_indexes') = Frontier(Earlier') BY <1>3
<1>5. \A x, y \in Repetitions : psi_i_star'[x] = psi_i_star'[y] => x = y BY DEF CoverInv
<1>6. ASSUME e' < TAU
      PROVE  /\ node' \in Ancestors[LeafNode'] /\ node' \notin Earlier'
             /\ Climbed(LeafNode', node') = {}
  <2>1. node' = LeafNode' BY <1>1, <1>6 DEF NextLeaf, LeafNode
  <2>2. e' \in Repetitions /\ psi_i_star'[e'] \in TreeLeaves
    BY <1>1, <1>6, TreeAssumption DEF Repetitions, ListInv
  <2>3. LeafNode' \in TreeNodes BY <2>2, HiddenNode DEF LeafNode
  <2>4. node' \in Ancestors[LeafNode'] /\ Climbed(LeafNode', node') = {}
    BY <2>1, <2>3, AncestorsLeast DEF Climbed
  <2> DEFINE H == {psi_i_star[x] : x \in 0 .. e}
  <2>5. \A x \in 0 .. e : x \in Repetitions /\ x # e'
    BY <1>1, TreeAssumption DEF Repetitions
  <2>6. H \in SUBSET TreeLeaves BY <2>5 DEF ListInv
  <2>7. psi_i_star'[e'] \notin H BY <1>5, <2>2, <2>5
  <2>8. Earlier' = Hiding(H) BY <1>2 DEF Earlier
  <2> HIDE DEF H
  <2>9. LeafNode' \notin Earlier' BY <2>2, <2>6, <2>7, <2>8, HidingFacts DEF LeafNode
  <2> QED BY <2>1, <2>4, <2>9
<1>7. SiblingsOf({}) = {} BY DEF SiblingsOf
<1> QED BY <1>1, <1>4, <1>5, <1>6, <1>7 DEF CoverInv

LEMMA MeetCover ==
  ASSUME Inv, ListInv', Meet
  PROVE  CoverInv'
<1>1. /\ pc \in {"sign_list", "verify_list"} /\ e < TAU /\ node > 0 /\ l <= r
      /\ path_indexes[Middle + 1] = node /\ NextLeaf /\ UNCHANGED <<pc, psi_i_star>>
      /\ path_indexes' = remove_from_list(path_indexes, Middle)
  BY DEF Meet, Listing, Found
<1>2. Middle \in 0 .. Len(path_indexes) - 1
  BY <1>1, TreeSize DEF Middle, Inv, ListInv
<1>3. /\ path_indexes \in Seq(TreeNodes) /\ Increasing(path_indexes)
      /\ node \in Ancestors[LeafNode] /\ node \notin Earlier
      /\ Climbed(LeafNode, node) \intersect Earlier = {}
      /\ ToSet(path_indexes) = Frontier(Earlier) \union SiblingsOf(Climbed(LeafNode, node))
  BY <1>1 DEF Inv, ListInv, CoverInv
<1>4. Increasing(path_indexes') /\ ToSet(path_indexes') = ToSet(path_indexes) \ {node}
  BY <1>1, <1>2, <1>3, RemoveProperties
<1>5. /\ LeafNode \in TreeNodes /\ LeafNode >= LEAVES_SEEDS_OFFSET
      /\ Earlier \in SUBSET TreeNodes /\ Closed(Earlier)
  BY <1>1, EarlierFacts DEF Inv
<1>6. node \notin SiblingsOf(Climbed(LeafNode, node))
  <2> SUFFICES ASSUME NEW p \in Climbed(LeafNode, node), node = sibling(p) PROVE FALSE
    BY DEF SiblingsOf
  <2>1. p \in Ancestors[LeafNode] \ {0} BY <1>3, <1>5, ClimbedNodes DEF Climbed
  <2> QED BY <1>3, <1>5, <2>1, OneOfSiblings
<1>7. node \in ToSet(path_indexes)
  <2>1. Middle + 1 \in DOMAIN path_indexes BY <1>2, <1>3
  <2> QED BY <1>1, <2>1 DEF ToSet
<1>8. node # 0 /\ parent(node) \in Earlier BY <1>3, <1>6, <1>7 DEF Frontier
<1>9. Frontier(Earlier \union Ancestors[LeafNode])
        = (Frontier(Earlier) \ {node}) \union SiblingsOf(Climbed(LeafNode, node))
  BY <1>3, <1>5, <1>8, FrontierStep
<1>10. ToSet(path_indexes') = Frontier(Earlier \union Ancestors[LeafNode])
  BY <1>3, <1>4, <1>6, <1>9
<1> QED BY <1>1, <1>4, <1>10, NextLeafCover DEF Inv

\* Only the first leaf is climbed from up to the root.
LEMMA AtRootCover ==
  ASSUME Inv, ListInv', AtRoot
  PROVE  CoverInv'
<1>1. /\ pc \in {"sign_list", "verify_list"} /\ e < TAU /\ node = 0
      /\ NextLeaf /\ UNCHANGED <<pc, psi_i_star, path_indexes>>
  BY DEF AtRoot
<1>2. /\ path_indexes \in Seq(TreeNodes) /\ Increasing(path_indexes)
      /\ node \in Ancestors[LeafNode] /\ node \notin Earlier
      /\ Climbed(LeafNode, node) \intersect Earlier = {}
      /\ ToSet(path_indexes) = Frontier(Earlier) \union SiblingsOf(Climbed(LeafNode, node))
  BY <1>1 DEF Inv, ListInv, CoverInv
<1>3. /\ LeafNode \in TreeNodes /\ LeafNode >= LEAVES_SEEDS_OFFSET
      /\ Earlier \in SUBSET TreeNodes /\ Closed(Earlier) /\ Earlier = {}
  BY <1>1, <1>2, EarlierFacts DEF Inv
<1>4. Frontier(Earlier \union Ancestors[LeafNode])
        = (Frontier(Earlier) \ {node}) \union SiblingsOf(Climbed(LeafNode, node))
  BY <1>1, <1>2, <1>3, FrontierStep
<1>5. Frontier(Earlier) = {} BY <1>3 DEF Frontier
<1>6. ToSet(path_indexes') = Frontier(Earlier \union Ancestors[LeafNode])
  BY <1>1, <1>2, <1>4, <1>5
<1> QED BY <1>1, <1>2, <1>6, NextLeafCover DEF Inv

LEMMA ClimbCover ==
  ASSUME Inv, Climb
  PROVE  CoverInv'
<1>1. /\ pc \in {"sign_list", "verify_list"} /\ e < TAU /\ l > r /\ Listing
      /\ UNCHANGED <<psi_i_star, e>> /\ node' = parent(node)
      /\ path_indexes' = insert_sorted(path_indexes, sibling(node))
  BY DEF Climb, Listing
<1>2. CASE ~(Len(path_indexes) < MAX_OPEN)
  <2>1. pc' = "full" BY <1>2, ClimbList
  <2> QED BY <2>1 DEF CoverInv
<1>3. CASE Len(path_indexes) < MAX_OPEN
  <2>1. node \in TreeNodes \ {0} /\ pc' = pc BY <1>3, ClimbList
  <2>2. /\ path_indexes \in Seq(TreeNodes) /\ Increasing(path_indexes)
        /\ node \in Ancestors[LeafNode] /\ node \notin Earlier
        /\ Climbed(LeafNode, node) \intersect Earlier = {}
        /\ ToSet(path_indexes) = Frontier(Earlier) \union SiblingsOf(Climbed(LeafNode, node))
        /\ \A x, y \in Repetitions : psi_i_star[x] = psi_i_star[y] => x = y
    BY <1>1 DEF Inv, ListInv, CoverInv
  <2>3. LeafNode' = LeafNode /\ Earlier' = Earlier BY <1>1 DEF LeafNode, Earlier
  <2>4. LeafNode \in TreeNodes BY <1>1, EarlierFacts DEF Inv
  <2>5. node \notin ToSet(path_indexes)
    <3> SUFFICES ASSUME NEW p \in DOMAIN path_indexes, path_indexes[p] = node PROVE FALSE
      BY DEF ToSet
    <3>1. p - 1 \in l .. r BY <1>1 DEF Inv, SearchInv
    <3>2. l \in Int /\ r \in Int /\ p \in Int BY DEF Inv, ListInv
    <3> QED BY <1>1, <3>1, <3>2
  <2>6. parent(node) \notin Earlier BY <2>1, <2>2, <2>5 DEF Frontier
  <2>7. node' \in Ancestors[LeafNode] BY <1>1, <2>1, <2>2, <2>4, AncestorsLeast DEF Closed
  <2>8. Climbed(LeafNode, node') = Climbed(LeafNode, node) \union {node}
    <3>1. parent(node) \in TreeNodes /\ parent(node) < node BY <2>1, ParentBelow
    <3>2. Ancestors[node] = {node} \union Ancestors[parent(node)] BY <2>1, AncestorsDef
    <3>3. node \notin Ancestors[parent(node)]
      <4>1. node \in Ancestors[parent(node)] => node <= parent(node) BY <3>1, AncestorsLeast
      <4> QED BY <2>1, <3>1, <4>1, TreeSize DEF TreeNodes
    <3> QED BY <1>1, <2>2, <3>2, <3>3 DEF Climbed
  <2>9. SiblingsOf(Climbed(LeafNode, node')) = SiblingsOf(Climbed(LeafNode, node)) \union {sibling(node)}
    BY <2>8 DEF SiblingsOf
  <2>10. sibling(node) \in TreeNodes \ {0} /\ parent(sibling(node)) = parent(node)
    BY <2>1, Siblings
  <2>11. sibling(node) \notin ToSet(path_indexes)
    <3>1. sibling(node) \notin Frontier(Earlier) BY <2>6, <2>10 DEF Frontier
    <3>2. ASSUME NEW p \in Climbed(LeafNode, node), sibling(node) = sibling(p) PROVE FALSE
      <4>1. p \in TreeNodes \ {0} BY <2>2, <2>4, ClimbedNodes
      <4>2. p = node BY <2>1, <3>2, <4>1, Siblings
      <4> QED BY <2>2, <2>4, <4>2, ClimbedNodes
    <3> QED BY <2>2, <3>1, <3>2 DEF SiblingsOf
  <2>12. /\ Increasing(path_indexes')
         /\ ToSet(path_indexes') = ToSet(path_indexes) \union {sibling(node)}
    BY <1>1, <1>3, <2>2, <2>10, <2>11, InsertProperties
  <2>13. node' \notin Earlier' /\ Climbed(LeafNode', node') \intersect Earlier' = {}
    BY <1>1, <2>2, <2>3, <2>6, <2>8
  <2>14. e' < TAU /\ e' # TAU BY <1>1, TreeAssumption DEF Inv, ListInv
  <2>15. ToSet(path_indexes') = Frontier(Earlier') \union SiblingsOf(Climbed(LeafNode', node'))
    BY <2>2, <2>3, <2>9, <2>12
  <2> QED BY <1>1, <2>1, <2>2, <2>3, <2>7, <2>12, <2>13, <2>14, <2>15 DEF CoverInv
<1> QED BY <1>2, <1>3

\* The view the signer looks at is one of its counters.
LEMMA CandidateView ==
  ASSUME ViewInv, pc \in {"expand", "step", "sign_list"}, step < SHAKE_STEP
  PROVE  ctr + step \in Counters /\ Candidate \in Views
<1>1. PICK b, c \in Nat : Counters = 0 .. b * SHAKE_STEP - 1 /\ ctr = c * SHAKE_STEP /\ c < b
  BY DEF ViewInv, AtBatch
<1>2. step \in 0 .. SHAKE_STEP - 1 BY TCitHAssumption DEF ViewInv
<1>3. ctr + step \in Counters BY <1>1, <1>2, BatchCounters
<1> QED BY <1>3, ViewType DEF ViewInv, Candidate

LEMMA CoverStep == Inv /\ ListInv' /\ [Next]_vars => CoverInv'
<1> SUFFICES ASSUME Inv, ListInv', [Next]_vars PROVE CoverInv' OBVIOUS
<1>1. CASE GetSiblingPath
  <2>1. Candidate \in Views BY <1>1, CandidateView DEF GetSiblingPath, Inv
  <2> QED BY <1>1, <2>1, HideCover DEF GetSiblingPath
<1>2. CASE CallVerify
  <2>1. shake[ctr] \in Views BY ViewType DEF Inv, ViewInv
  <2> QED BY <1>2, <2>1, HideCover DEF CallVerify
<1>3. CASE Meet BY <1>3, MeetCover
<1>4. CASE AtRoot BY <1>4, AtRootCover
<1>5. CASE Climb BY <1>5, ClimbCover
<1>6. CASE Search
  <2>1. UNCHANGED <<pc, psi_i_star, path_indexes, e, node>> BY <1>6 DEF Search
  <2> QED BY <2>1 DEF Inv, CoverInv, Earlier, LeafNode
<1>7. CASE Expand \/ RetryShake \/ Discard \/ RejectPath
  BY <1>7 DEF Expand, RetryShake, Discard, RejectPath, CoverInv
<1>8. CASE Sign \/ PartialExpand \/ PlaceSeed \/ ExpandValid \/ SkipNode \/ Expanded
  <2>1. /\ UNCHANGED <<psi_i_star, path_indexes, e, node>> /\ e = TAU
        /\ pc \notin {"expand", "step", "full"}
    BY <1>8 DEF Sign, PartialExpand, PlaceSeed, ExpandValid, SkipNode, Expanded, list, Inv, CoverInv
  <2>2. e' = TAU /\ ~(e' < TAU) BY <2>1, TreeAssumption
  <2> QED BY <2>1, <2>2 DEF Inv, CoverInv, Earlier, LeafNode
<1>9. CASE UNCHANGED vars
  <2>1. UNCHANGED <<pc, psi_i_star, path_indexes, e, node>> BY <1>9 DEF vars, list
  <2> QED BY <2>1 DEF Inv, CoverInv, Earlier, LeafNode
<1> QED BY <1>1, <1>2, <1>3, <1>4, <1>5, <1>6, <1>7, <1>8, <1>9 DEF Next

(* The view that is chosen *)

LEMMA CounterTypes ==
  ASSUME ViewInv
  PROVE  /\ ctr \in Nat /\ step \in Nat /\ ctr + step \in Nat
         /\ 0 .. (ctr + (step + 1)) - 1 = (0 .. ctr + step - 1) \union {ctr + step}
<1>1. PICK b \in 1 .. BATCHES : shake \in [0 .. b * SHAKE_STEP - 1 -> Views]
  BY TCitHAssumption DEF ViewInv
<1>2. ctr \in Nat /\ step \in Nat BY <1>1, TCitHAssumption DEF ViewInv, Counters
<1> QED BY <1>2

\* With all leaves in it, the list is the cover.
LEMMA WholeList ==
  ASSUME Inv, pc \notin {"expand", "step", "full"}, e = TAU
  PROVE  /\ path_indexes \in Seq(TreeNodes) /\ Increasing(path_indexes)
         /\ Hidden \in SUBSET TreeLeaves /\ Hidden # {}
         /\ Cover(Hidden) = Frontier(Hiding(Hidden))
         /\ ToSet(path_indexes) = Cover(Hidden)
         /\ Len(path_indexes) = Cardinality(Cover(Hidden))
<1>1. path_indexes \in Seq(TreeNodes) /\ Increasing(path_indexes)
  BY DEF Inv, ListInv, CoverInv
<1>2. Hidden \in SUBSET TreeLeaves BY DEF Inv, ListInv, Hidden
<1>3. Hidden # {}
  <2>1. 0 \in Repetitions BY TreeAssumption DEF Repetitions
  <2> QED BY <2>1 DEF Hidden
<1>4. Earlier = Hiding(Hidden) BY DEF Earlier, Hidden, Repetitions
<1>5. Cover(Hidden) = Frontier(Hiding(Hidden)) BY <1>2, HidingFacts
<1>6. ToSet(path_indexes) = Cover(Hidden) BY <1>4, <1>5 DEF Inv, CoverInv
<1>7. Len(path_indexes) = Cardinality(Cover(Hidden)) BY <1>1, <1>6, IncreasingLength
<1> QED BY <1>1, <1>2, <1>3, <1>5, <1>6, <1>7

LEMMA PsiOfHidden ==
  ASSUME NEW view, psi_i_star = PsiOf(view) PROVE Hidden = HiddenIn(view)
BY DEF Hidden, HiddenIn, PsiOf

LEMMA ChosenStep == Inv /\ [Next]_vars => ChosenInv'
<1> SUFFICES ASSUME Inv, [Next]_vars PROVE ChosenInv' OBVIOUS
<1>0. UNCHANGED shake BY DEF Next, Expand, RetryShake, Discard, GetSiblingPath, Search, Meet,
        Climb, AtRoot, RejectPath, Sign, CallVerify, PartialExpand, PlaceSeed, ExpandValid,
        SkipNode, Expanded, vars
<1> USE <1>0
<1>1. /\ ctr \in Nat /\ step \in Nat /\ ctr + step \in Nat
      /\ 0 .. (ctr + (step + 1)) - 1 = (0 .. ctr + step - 1) \union {ctr + step}
  BY CounterTypes DEF Inv
<1>2. ChosenInv BY DEF Inv
<1>3. CASE Expand
  BY <1>2, <1>3 DEF Expand, ChosenInv, Signed
<1>4. CASE RetryShake
  <2>1. 0 .. ctr' + step' - 1 = 0 .. ctr + step - 1 BY <1>1, <1>4 DEF RetryShake
  <2>2. pc = "step" /\ pc' = "step" BY <1>4 DEF RetryShake
  <2>3. \A c \in 0 .. ctr + step - 1 : ~Acceptable(shake[c]) BY <1>2, <2>2 DEF ChosenInv
  <2>4. \A c \in 0 .. ctr' + step' - 1 : ~Acceptable(shake'[c]) BY <2>1, <2>3, Zenon
  <2> QED BY <2>2, <2>4, Zenon DEF ChosenInv, Signed
<1>5. CASE Discard
  <2>1. ~Acceptable(shake[ctr + step]) BY <1>5 DEF Discard, Candidate, Acceptable
  <2>2. \A c \in 0 .. (ctr + (step + 1)) - 1 : ~Acceptable(shake[c])
    BY <1>1, <1>2, <1>5, <2>1 DEF Discard, ChosenInv
  <2>3. pc' = "step" /\ ctr' = ctr /\ step' = step + 1 BY <1>5 DEF Discard
  <2>4. 0 .. ctr' + step' - 1 = 0 .. (ctr + (step + 1)) - 1 BY <1>1, <2>3
  <2>5. \A c \in 0 .. ctr' + step' - 1 : ~Acceptable(shake'[c]) BY <2>2, <2>4, Zenon
  <2> QED BY <2>3, <2>5, Zenon DEF ChosenInv, Signed
<1>6. CASE GetSiblingPath
  <2>1. /\ UNCHANGED <<ctr, step>> /\ pc = "step" /\ pc' = "sign_list" /\ Candidate.v_grinding = "zero"
        /\ psi_i_star' = PsiOf(Candidate)
    BY <1>6 DEF GetSiblingPath, Hide, PsiOf, signer
  <2>2. Candidate' = Candidate BY <2>1 DEF Candidate
  <2> QED BY <1>2, <2>1, <2>2 DEF ChosenInv, Signed
<1>7. CASE Search \/ Meet \/ Climb \/ AtRoot
  <2>1. /\ UNCHANGED <<ctr, step, psi_i_star>> /\ pc' \in {pc, "full"}
        /\ pc \in {"sign_list", "verify_list"}
    BY <1>7 DEF Search, Meet, Climb, AtRoot, Listing, signer
  <2>2. Candidate' = Candidate BY <2>1 DEF Candidate
  <2> QED BY <1>2, <2>1, <2>2 DEF ChosenInv, Signed
<1>8. CASE RejectPath \/ Sign
  <2>1. /\ pc = "sign_list" /\ e = TAU /\ UNCHANGED psi_i_star
        /\ IF Len(path_indexes) > T_OPEN
             THEN pc' = "step" /\ ctr' = ctr /\ step' = step + 1
             ELSE pc' = "signed" /\ ctr' = ctr + step
    BY <1>8, TreeAssumption DEF RejectPath, Sign, Inv, ListInv
  <2>2. Candidate.v_grinding = "zero" /\ psi_i_star = PsiOf(Candidate)
    BY <1>2, <2>1 DEF ChosenInv
  <2>3. Len(path_indexes) = Cardinality(Cover(Hidden)) /\ Hidden = HiddenIn(Candidate)
    BY <2>1, <2>2, WholeList, PsiOfHidden
  <2>4. Len(path_indexes) \in Nat /\ T_OPEN \in Nat BY TreeAssumption DEF Inv, ListInv
  <2>5. Acceptable(Candidate) <=> ~(Len(path_indexes) > T_OPEN)
    BY <2>2, <2>3, <2>4 DEF Acceptable
  <2>6. \A c \in 0 .. ctr + step - 1 : ~Acceptable(shake[c]) BY <1>2, <2>1 DEF ChosenInv
  <2>7. CASE Len(path_indexes) > T_OPEN
    <3>1. \A c \in 0 .. (ctr + (step + 1)) - 1 : ~Acceptable(shake[c])
      BY <1>1, <2>5, <2>6, <2>7 DEF Candidate
    <3>2. 0 .. ctr' + step' - 1 = 0 .. (ctr + (step + 1)) - 1 BY <1>1, <2>1, <2>7
    <3>3. \A c \in 0 .. ctr' + step' - 1 : ~Acceptable(shake'[c]) BY <3>1, <3>2, Zenon
    <3>4. pc' = "step" BY <2>1, <2>7
    <3> QED BY <3>3, <3>4, Zenon DEF ChosenInv, Signed
  <2>8. CASE ~(Len(path_indexes) > T_OPEN)
    <3>1. pc' = "signed" /\ ctr' = ctr + step BY <2>1, <2>8
    <3>2. Acceptable(shake[ctr + step]) /\ psi_i_star' = PsiOf(shake[ctr + step])
      BY <2>1, <2>2, <2>5, <2>8 DEF Candidate
    <3>3. \A c \in 0 .. ctr' - 1 : ~Acceptable(shake'[c])
      <4>1. 0 .. ctr' - 1 = 0 .. ctr + step - 1 BY <1>1, <3>1
      <4> QED BY <2>6, <4>1, Zenon
    <3>4. Acceptable(shake'[ctr']) /\ psi_i_star' = PsiOf(shake'[ctr']) BY <3>1, <3>2, Zenon
    <3> QED BY <3>1, <3>3, <3>4, Zenon DEF ChosenInv, Signed
  <2> QED BY <2>7, <2>8
<1>9. CASE CallVerify
  <2>1. UNCHANGED ctr /\ pc = "signed" /\ pc' = "verify_list" /\ psi_i_star' = PsiOf(shake[ctr])
    BY <1>9 DEF CallVerify, Hide, PsiOf, signer
  <2> QED BY <1>2, <2>1 DEF ChosenInv, Signed
<1>10. CASE PartialExpand \/ PlaceSeed \/ ExpandValid \/ SkipNode \/ Expanded
  <2>1. UNCHANGED <<ctr, psi_i_star>> /\ Signed /\ pc' \in {"partial_expand", "verified", "rejected"}
    BY <1>10 DEF PartialExpand, PlaceSeed, ExpandValid, SkipNode, Expanded, signer, Signed
  <2> QED BY <1>2, <2>1 DEF ChosenInv, Signed
<1>11. CASE UNCHANGED vars
  <2>1. UNCHANGED <<pc, ctr, step, psi_i_star>> BY <1>11 DEF vars, signer
  <2> QED BY <1>2, <2>1 DEF ChosenInv, Candidate, Signed
<1> QED BY <1>3, <1>4, <1>5, <1>6, <1>7, <1>8, <1>9, <1>10, <1>11 DEF Next

(* The signer's tree *)

\* The seed of a node, from its parent's.
SeedOf(s, n) == ExpandSeed[<<s, parent(n)>>][2 - (n % 2)]

Grown(R) == /\ <<0, RootSeed>> \in R
            /\ \A n \in TreeNodes \ {0}, s \in Seed :
                 <<parent(n), s>> \in R => <<n, SeedOf(s, n)>> \in R

Values(n) == {s \in Seed : \A R \in SUBSET (TreeNodes \X Seed) : Grown(R) => <<n, s>> \in R}

LEMMA SeedOfType ==
  ASSUME NEW n \in TreeNodes \ {0}, NEW s \in Seed PROVE SeedOf(s, n) \in Seed
<1>1. parent(n) \in InnerNodes
  BY LeafHasNoChild, ParentBelow, TreeSize DEF LEAVES_SEEDS_OFFSET, InnerNodes, TreeNodes
<1>2. 2 - (n % 2) \in {1, 2} BY TreeSize DEF TreeNodes
<1>3. ExpandSeed[<<s, parent(n)>>] \in Seed \X Seed BY <1>1, TCitHAssumption
<1> QED BY <1>2, <1>3 DEF SeedOf

LEMMA RootValue == Values(0) = {RootSeed}
<1> DEFINE R == {<<0, RootSeed>>} \union ((TreeNodes \ {0}) \X Seed)
<1>1. R \in SUBSET (TreeNodes \X Seed) BY TCitHAssumption, TreeSize
<1>2. Grown(R) BY SeedOfType DEF Grown
<1>3. Values(0) \subseteq {RootSeed} BY <1>1, <1>2 DEF Values
<1>4. RootSeed \in Values(0) BY TCitHAssumption DEF Values, Grown
<1> QED BY <1>3, <1>4

LEMMA ChildValue ==
  ASSUME NEW n \in TreeNodes \ {0}, NEW s \in Seed, Values(parent(n)) = {s}
  PROVE  Values(n) = {SeedOf(s, n)}
<1> DEFINE R == {a \in TreeNodes \X Seed : /\ a[2] \in Values(a[1])
                                           /\ a[1] = n => a[2] = SeedOf(s, n)}
<1>1. R \in SUBSET (TreeNodes \X Seed) OBVIOUS
<1>2. ASSUME NEW m \in TreeNodes \ {0}, NEW x \in Values(parent(m))
      PROVE  SeedOf(x, m) \in Values(m)
  <2>1. x \in Seed BY DEF Values
  <2>2. SeedOf(x, m) \in Seed BY <2>1, SeedOfType
  <2>3. ASSUME NEW Q \in SUBSET (TreeNodes \X Seed), Grown(Q) PROVE <<m, SeedOf(x, m)>> \in Q
    <3>1. <<parent(m), x>> \in Q BY <2>3 DEF Values
    <3> QED BY <2>1, <2>3, <3>1 DEF Grown
  <2> QED BY <2>2, <2>3 DEF Values
<1>3. <<0, RootSeed>> \in R BY RootValue, TCitHAssumption, TreeSize
<1>4. ASSUME NEW m \in TreeNodes \ {0}, NEW x \in Seed, <<parent(m), x>> \in R
      PROVE  <<m, SeedOf(x, m)>> \in R
  <2>1. x \in Values(parent(m)) BY <1>4
  <2>2. SeedOf(x, m) \in Values(m) /\ SeedOf(x, m) \in Seed BY <1>2, <2>1, SeedOfType
  <2>3. m = n => SeedOf(x, m) = SeedOf(s, n) BY <2>1
  <2> QED BY <2>2, <2>3
<1>5. Grown(R) BY <1>3, <1>4 DEF Grown
<1>6. Values(n) \subseteq {SeedOf(s, n)}
  <2> SUFFICES ASSUME NEW x \in Values(n) PROVE x = SeedOf(s, n) OBVIOUS
  <2>1. <<n, x>> \in R BY <1>1, <1>5 DEF Values
  <2> QED BY <2>1
<1>7. SeedOf(s, n) \in Values(n) BY <1>2
<1> QED BY <1>6, <1>7

LEMMA OneValue == \A n \in TreeNodes : \E s \in Seed : Values(n) = {s}
<1> DEFINE Bad == {n \in TreeNodes : ~ \E s \in Seed : Values(n) = {s}}
<1>1. Bad \subseteq Nat BY TreeSize DEF TreeNodes
<1>2. SUFFICES ASSUME NEW b \in Bad PROVE FALSE OBVIOUS
<1>3. PICK n \in Bad : \A m \in Bad : ~(<<m, n>> \in OpToRel(<, Nat))
  BY <1>1, <1>2, WFMin, NatLessThanWellFounded
<1>4. n # 0 BY RootValue, TCitHAssumption
<1>5. parent(n) \in TreeNodes /\ parent(n) < n BY <1>4, ParentBelow
<1>6. parent(n) \notin Bad BY <1>1, <1>3, <1>5, TreeSize DEF OpToRel, TreeNodes
<1>7. PICK s \in Seed : Values(parent(n)) = {s} BY <1>5, <1>6
<1>8. Values(n) = {SeedOf(s, n)} BY <1>4, <1>7, ChildValue
<1>9. SeedOf(s, n) \in Seed BY <1>4, SeedOfType
<1> QED BY <1>8, <1>9

\* ggm_tree_expand gives every node the seed its parent's expands to.
LEMMA ExpandTree ==
  ASSUME Expand PROVE IsTree(tree')
<1> DEFINE F(f) == [n \in TreeNodes |->
                      IF n = 0 THEN RootSeed ELSE ExpandSeed[<<f[parent(n)], parent(n)>>][2 - (n % 2)]]
           f0 == [n \in TreeNodes |-> CHOOSE s \in Seed : Values(n) = {s}]
           t == CHOOSE f : f = F(f)
<1>1. \A n \in TreeNodes : f0[n] \in Seed /\ Values(n) = {f0[n]} BY OneValue
<1>2. f0[0] = RootSeed BY <1>1, RootValue, TreeSize
<1>3. ASSUME NEW n \in TreeNodes \ {0} PROVE f0[n] = SeedOf(f0[parent(n)], n)
  <2>1. parent(n) \in TreeNodes BY ParentBelow
  <2>2. Values(n) = {SeedOf(f0[parent(n)], n)} BY <1>1, <2>1, ChildValue
  <2> QED BY <1>1, <2>2
<1>4. f0 = F(f0)
  <2>1. f0 = [n \in TreeNodes |-> f0[n]] OBVIOUS
  <2> HIDE DEF f0
  <2> QED BY <1>2, <1>3, <2>1 DEF SeedOf
<1>5. t = F(t) BY <1>4
<1>6. tree' = [n \in TreeNodes |-> t[n]] BY DEF Expand
<1> HIDE DEF t, f0
<1>7. \A n \in TreeNodes : tree'[n] = IF n = 0 THEN RootSeed ELSE SeedOf(tree'[parent(n)], n)
  BY <1>5, <1>6, ParentBelow DEF SeedOf
<1>8. \A n \in TreeNodes : tree'[n] \in Seed
  <2> DEFINE Bad == {n \in TreeNodes : tree'[n] \notin Seed}
  <2>1. Bad \subseteq Nat BY TreeSize DEF TreeNodes
  <2>2. SUFFICES ASSUME NEW b \in Bad PROVE FALSE OBVIOUS
  <2>3. PICK n \in Bad : \A m \in Bad : ~(<<m, n>> \in OpToRel(<, Nat))
    BY <2>1, <2>2, WFMin, NatLessThanWellFounded
  <2>4. n # 0 BY <1>7, TCitHAssumption
  <2>5. parent(n) \in TreeNodes /\ parent(n) < n BY <2>4, ParentBelow
  <2>6. parent(n) \notin Bad BY <2>1, <2>3, <2>5, TreeSize DEF OpToRel, TreeNodes
  <2>7. tree'[n] = SeedOf(tree'[parent(n)], n) /\ tree'[parent(n)] \in Seed
    BY <1>7, <2>4, <2>5, <2>6
  <2> QED BY <2>4, <2>7, SeedOfType
<1>9. ASSUME NEW n \in InnerNodes
      PROVE  /\ tree'[child_0(n)] = ExpandSeed[<<tree'[n], n>>][1]
             /\ tree'[child_1(n)] = ExpandSeed[<<tree'[n], n>>][2]
  <2>1. /\ child_0(n) \in TreeNodes \ {0} /\ parent(child_0(n)) = n /\ 2 - (child_0(n) % 2) = 1
        /\ child_1(n) \in TreeNodes \ {0} /\ parent(child_1(n)) = n /\ 2 - (child_1(n) % 2) = 2
    BY ChildNodes
  <2> QED BY <1>7, <2>1 DEF SeedOf
<1> QED BY <1>6, <1>8, <1>9 DEF IsTree

LEMMA SeedStep == Inv /\ [Next]_vars => SeedInv'
<1> SUFFICES ASSUME Inv, [Next]_vars PROVE SeedInv' OBVIOUS
<1>1. CASE Expand
  BY <1>1, ExpandTree DEF Expand, SeedInv
<1>2. CASE ~Expand
  <2>1. UNCHANGED <<tree, seeds>> /\ (pc = "expand" <=> pc' = "expand")
    BY <1>2 DEF Next, RetryShake, Discard, GetSiblingPath, Search, Meet, Climb, AtRoot, RejectPath,
         Sign, CallVerify, PartialExpand, PlaceSeed, ExpandValid, SkipNode, Expanded, vars, signer,
         Listing
  <2> QED BY <2>1 DEF Inv, SeedInv, IsTree, get_leaves
<1> QED BY <1>1, <1>2

(* The path *)

LEMMA Slot == ASSUME NEW n \in 0 .. T_OPEN - 1 PROVE n \in Slots
BY TreeAssumption DEF Slots

LEMMA TreeSeed ==
  ASSUME SeedInv, pc # "expand", NEW n \in TreeNodes PROVE tree[n] \in Seed /\ tree[n] # NoSeed
BY TCitHAssumption DEF SeedInv, IsTree

\* Sign copies the seeds of the list to a path without other seeds.
LEMMA SignPath ==
  ASSUME Inv, Sign
  PROVE  PathInv'
<1>1. /\ pc = "sign_list" /\ pc' = "signed" /\ e = TAU /\ Len(path_indexes) <= T_OPEN
      /\ UNCHANGED <<psi_i_star, tree, path_indexes>>
      /\ path' = [s \in Slots |-> IF s < Len(path_indexes) THEN tree[path_indexes[s + 1]] ELSE path[s]]
  BY DEF Sign, list
<1>2. path = EmptyPath BY <1>1 DEF Inv, PathInv
<1>3. /\ path_indexes \in Seq(TreeNodes) /\ Increasing(path_indexes)
      /\ ToSet(path_indexes) = Cover(Hidden)
  BY <1>1, WholeList
<1>4. path' = PathOf(path_indexes) BY <1>1, <1>2 DEF PathOf, EmptyPath
<1>5. Hidden' = Hidden BY <1>1 DEF Hidden
<1>6. PathOf(path_indexes)' = PathOf(path_indexes) BY <1>1 DEF PathOf
<1>7. \E s \in Seq(TreeNodes) :
        /\ Increasing(s) /\ ToSet(s) = Cover(Hidden') /\ Len(s) <= T_OPEN
        /\ path' = [x \in Slots |-> IF x < Len(s) THEN tree'[s[x + 1]] ELSE NoSeed]
  BY <1>1, <1>3, <1>4, <1>5 DEF PathOf
<1> QED BY <1>1, <1>7 DEF PathInv, PathOf

\* The verifier counts the seeds of the path.
LEMMA CallVerifyPath ==
  ASSUME Inv, CallVerify
  PROVE  PathInv'
<1>1. /\ pc = "signed" /\ pc' = "verify_list" /\ psi_i_star' = PsiOf(shake[ctr]) /\ UNCHANGED tree
      /\ path' = [s \in Slots |-> IF s < T_OPEN THEN path[s] ELSE NoSeed]
      /\ path_length' = Cardinality({s \in 0 .. T_OPEN - 1 : path[s] # NoSeed})
  BY DEF CallVerify, Hide, PsiOf, signer
<1>2. psi_i_star' = psi_i_star BY <1>1 DEF Inv, ChosenInv, Signed
<1>3. PICK s \in Seq(TreeNodes) :
        Increasing(s) /\ ToSet(s) = Cover(Hidden) /\ Len(s) <= T_OPEN /\ path = PathOf(s)
  BY <1>1 DEF Inv, PathInv, Signed
<1>4. Len(s) \in Nat /\ T_OPEN \in Nat BY TreeAssumption
<1>5. path' = path
  <2>1. \A x \in Slots : ~(x < T_OPEN) => path[x] = NoSeed
    BY <1>3, <1>4, TreeAssumption DEF PathOf, Slots
  <2>2. path = [x \in Slots |-> path[x]] BY <1>3 DEF PathOf
  <2> QED BY <1>1, <2>1, <2>2
<1>6. ASSUME NEW x \in 0 .. T_OPEN - 1 PROVE path[x] # NoSeed <=> x < Len(s)
  <2>1. x \in Slots BY Slot
  <2>2. path[x] = IF x < Len(s) THEN tree[s[x + 1]] ELSE NoSeed BY <1>3, <2>1 DEF PathOf
  <2>3. x < Len(s) => s[x + 1] \in TreeNodes BY <1>4
  <2>4. x < Len(s) => tree[s[x + 1]] # NoSeed BY <1>1, <2>3, TreeSeed DEF Inv
  <2> QED BY <2>2, <2>4
<1>7. {x \in 0 .. T_OPEN - 1 : path[x] # NoSeed} = 0 .. Len(s) - 1
  BY <1>3, <1>4, <1>6
<1>8. path_length' = Len(s)
  <2>1. Cardinality(0 .. Len(s) - 1) = Len(s)
    <3> DEFINE b == Len(s) - 1
    <3>1. b \in Int /\ 0 \in Int BY <1>4
    <3>2. Cardinality(0 .. b) = IF 0 > b THEN 0 ELSE b - 0 + 1 BY <3>1, FS_Interval
    <3> QED BY <1>4, <3>2
  <2> QED BY <1>1, <1>7, <2>1
<1>9. Hidden' = Hidden BY <1>2 DEF Hidden
<1>10. path' = [x \in Slots |-> IF x < Len(s) THEN tree'[s[x + 1]] ELSE NoSeed]
  BY <1>1, <1>3, <1>5 DEF PathOf
<1>11. \E q \in Seq(TreeNodes) :
         /\ Increasing(q) /\ ToSet(q) = Cover(Hidden') /\ Len(q) <= T_OPEN
         /\ path' = [x \in Slots |-> IF x < Len(q) THEN tree'[q[x + 1]] ELSE NoSeed]
         /\ path_length' = Len(q)
  BY <1>3, <1>8, <1>9, <1>10
<1> QED BY <1>1, <1>11 DEF PathInv, PathOf

LEMMA PathStep == Inv /\ [Next]_vars => PathInv'
<1> SUFFICES ASSUME Inv, [Next]_vars PROVE PathInv' OBVIOUS
<1>1. CASE Sign BY <1>1, SignPath
<1>2. CASE CallVerify BY <1>2, CallVerifyPath
<1>3. CASE RejectPath
  <2>1. pc = "sign_list" /\ pc' = "step" BY <1>3 DEF RejectPath
  <2>2. path = EmptyPath BY <2>1 DEF Inv, PathInv
  <2>3. path' = EmptyPath BY <1>3, <2>2 DEF RejectPath, EmptyPath
  <2> QED BY <2>1, <2>3 DEF PathInv, Signed
<1>4. CASE Expand \/ RetryShake \/ Discard \/ GetSiblingPath
  <2>1. /\ pc \in {"expand", "step"} /\ pc' \in {"step", "sign_list"} /\ path' = path
    BY <1>4 DEF Expand, RetryShake, Discard, GetSiblingPath
  <2> QED BY <2>1 DEF Inv, PathInv, Signed
<1>5. CASE \/ Search \/ Meet \/ Climb \/ AtRoot \/ PartialExpand \/ PlaceSeed \/ ExpandValid
           \/ SkipNode \/ Expanded \/ UNCHANGED vars
  <2>1. /\ UNCHANGED <<path, path_length, tree, psi_i_star>>
        /\ pc' \in {"expand", "step", "sign_list"} => pc = pc'
        /\ Signed' => Signed
        /\ Signed' /\ pc' # "signed" => pc # "signed"
    BY <1>5 DEF Search, Meet, Climb, AtRoot, PartialExpand, PlaceSeed, ExpandValid, SkipNode,
         Expanded, vars, signer, Signed, Listing
  <2>2. Hidden' = Hidden BY <2>1 DEF Hidden
  <2>3. ASSUME Signed'
        PROVE  \E s \in Seq(TreeNodes) :
                 /\ Increasing(s) /\ ToSet(s) = Cover(Hidden') /\ Len(s) <= T_OPEN
                 /\ path' = [x \in Slots |-> IF x < Len(s) THEN tree'[s[x + 1]] ELSE NoSeed]
                 /\ pc' # "signed" => path_length' = Len(s)
    <3>1. PICK s \in Seq(TreeNodes) :
            /\ Increasing(s) /\ ToSet(s) = Cover(Hidden) /\ Len(s) <= T_OPEN /\ path = PathOf(s)
            /\ pc # "signed" => path_length = Len(s)
      BY <2>1, <2>3 DEF Inv, PathInv
    <3> QED BY <2>1, <2>2, <2>3, <3>1 DEF PathOf
  <2> QED BY <2>1, <2>3 DEF Inv, PathInv, PathOf
<1> QED BY <1>1, <1>2, <1>3, <1>4, <1>5 DEF Next

(* partial_expand *)

\* The sibling of a node of the cover hides a leaf.
LEMMA SiblingHides ==
  ASSUME NEW H \in SUBSET TreeLeaves, NEW m \in Frontier(Hiding(H))
  PROVE  sibling(m) \in Hiding(H)
<1>1. m \in TreeNodes \ {0} /\ m \notin Hiding(H) /\ parent(m) \in Hiding(H) BY DEF Frontier
<1>2. PICK leaf \in H : parent(m) \in Ancestors[LEAVES_SEEDS_OFFSET + leaf]
  BY <1>1 DEF Hiding
<1> DEFINE v == LEAVES_SEEDS_OFFSET + leaf
<1>3. v \in TreeNodes /\ v >= LEAVES_SEEDS_OFFSET
  <2>1. leaf \in TreeLeaves OBVIOUS
  <2>2. v >= LEAVES_SEEDS_OFFSET BY <2>1, TreeSize DEF LEAVES_SEEDS_OFFSET, TreeLeaves
  <2> QED BY <2>1, <2>2, HiddenNode
<1>4. parent(m) # v
  BY <1>1, <1>3, LeafHasNoChild, ParentBelow, TreeSize DEF TreeNodes, LEAVES_SEEDS_OFFSET
<1>5. PICK c \in Ancestors[v] \ {0} : parent(c) = parent(m) BY <1>2, <1>3, <1>4, AncestorChild
<1>6. c \in Hiding(H) /\ c \in TreeNodes \ {0}
  BY <1>3, <1>5, AncestorsLeast DEF Hiding
<1>7. c \in {m, sibling(m)} BY <1>1, <1>5, <1>6, Siblings
<1> QED BY <1>1, <1>6, <1>7

\* The parents of a list in order, one child of each.
LEMMA ParentOrder ==
  ASSUME NEW H \in SUBSET TreeLeaves, NEW s \in Seq(TreeNodes), Increasing(s),
         ToSet(s) = Frontier(Hiding(H)),
         NEW p \in 1 .. Len(s), NEW q \in 1 .. Len(s), p < q
  PROVE  parent(s[p]) < parent(s[q])
<1>1. s[p] \in Frontier(Hiding(H)) /\ s[q] \in Frontier(Hiding(H)) BY DEF ToSet
<1>2. s[p] \in TreeNodes \ {0} /\ s[q] \in TreeNodes \ {0} /\ s[q] \notin Hiding(H)
  BY <1>1 DEF Frontier
<1>3. s[p] < s[q] BY DEF Increasing
<1>4. s[p] \in Nat /\ s[q] \in Nat BY <1>2, TreeSize DEF TreeNodes
<1>5. parent(s[p]) <= parent(s[q]) BY <1>2, <1>3, <1>4 DEF parent
<1>6. parent(s[p]) # parent(s[q])
  <2> SUFFICES ASSUME parent(s[p]) = parent(s[q]) PROVE FALSE OBVIOUS
  <2>1. s[q] = sibling(s[p]) BY <1>2, <1>3, <1>4, Siblings
  <2> QED BY <1>1, <1>2, <2>1, SiblingHides
<1>7. parent(s[p]) \in Int /\ parent(s[q]) \in Int BY <1>4 DEF parent
<1> QED BY <1>5, <1>6, <1>7

\* What partial_expand is given.
LEMMA HonestPath ==
  ASSUME Inv, pc \in {"partial_expand", "verify_list"}, e = TAU
  PROVE  /\ path_indexes \in Seq(TreeNodes) /\ Increasing(path_indexes)
         /\ Len(path_indexes) \in Nat /\ DOMAIN path_indexes = 1 .. Len(path_indexes)
         /\ Hidden \in SUBSET TreeLeaves /\ Hidden # {}
         /\ Hiding(Hidden) \in SUBSET TreeNodes /\ Closed(Hiding(Hidden)) /\ 0 \in Hiding(Hidden)
         /\ ToSet(path_indexes) = Frontier(Hiding(Hidden))
         /\ path_length = Len(path_indexes)
         /\ \A x \in 0 .. Len(path_indexes) - 1 : path[x] = tree[path_indexes[x + 1]]
<1>1. /\ path_indexes \in Seq(TreeNodes) /\ Increasing(path_indexes)
      /\ Hidden \in SUBSET TreeLeaves /\ Hidden # {}
      /\ Cover(Hidden) = Frontier(Hiding(Hidden)) /\ ToSet(path_indexes) = Cover(Hidden)
  BY WholeList
<1>2. PICK s \in Seq(TreeNodes) :
        /\ Increasing(s) /\ ToSet(s) = Cover(Hidden) /\ Len(s) <= T_OPEN
        /\ path = PathOf(s) /\ path_length = Len(s)
  BY DEF Inv, PathInv, Signed
<1>3. s = path_indexes BY <1>1, <1>2, IncreasingIsOne
<1>4. Len(s) \in Nat BY <1>2
<1>5. ASSUME NEW x \in 0 .. Len(s) - 1 PROVE path[x] = tree[s[x + 1]]
  <2>1. x \in Slots /\ x < Len(s) BY <1>2, <1>4, TreeAssumption DEF Slots
  <2> QED BY <1>2, <2>1 DEF PathOf
<1> QED BY <1>1, <1>2, <1>3, <1>4, <1>5, HidingFacts

\* The state of the loop over the nodes, whoever takes the step.
PartialFacts ==
  /\ i \in 0 .. TREE_LEAVES - 1 /\ k \in 0 .. Len(path_indexes)
  /\ \A p \in DOMAIN path_indexes : p <= k <=> parent(path_indexes[p]) < i
  /\ IF k < Len(path_indexes) THEN parent_node = parent(path_indexes[k + 1])
                              ELSE parent_node \notin i .. TREE_LEAVES - 1
  /\ partial_tree \in [TreeNodes -> Seed \union {NoSeed}]
  /\ valid \subseteq TreeNodes \ Hiding(Hidden)
  /\ \A n \in Hiding(Hidden) : partial_tree[n] = NoSeed
  /\ \A n \in TreeNodes \ Hiding(Hidden) :
       parent(n) < i => /\ partial_tree[n] = tree[n]
                        /\ n \in InnerNodes => n \in valid

LEMMA PartialStart ==
  ASSUME Inv, PartialExpand
  PROVE  PartialInv'
<1>1. /\ pc = "verify_list" /\ pc' = "partial_expand" /\ e = TAU /\ parent_node' = ParentAt(0)
      /\ UNCHANGED <<psi_i_star, path_indexes, tree, partial_tree, valid, k, i, recovered>>
  BY DEF PartialExpand, signer, list
<1>2. /\ partial_tree = [n \in TreeNodes |-> NoSeed] /\ valid = {} /\ k = 0 /\ i = 0
      /\ recovered = BlankLeaves
  BY <1>1 DEF Inv, PartialInv
<1>3. /\ path_indexes \in Seq(TreeNodes)
      /\ Len(path_indexes) \in Nat /\ DOMAIN path_indexes = 1 .. Len(path_indexes)
      /\ Hiding(Hidden) \in SUBSET TreeNodes /\ 0 \in Hiding(Hidden)
      /\ ToSet(path_indexes) = Frontier(Hiding(Hidden))
  BY <1>1, HonestPath
<1>4. Hidden' = Hidden BY <1>1 DEF Hidden
<1>5. ASSUME NEW n \in TreeNodes \ {0} PROVE parent(n) \in Nat
  BY ParentBelow, TreeSize DEF TreeNodes
<1>6. \A p \in DOMAIN path_indexes : path_indexes[p] \in TreeNodes \ {0}
  BY <1>3 DEF ToSet, Frontier
<1>7. \A p \in DOMAIN path_indexes : p <= 0 <=> parent(path_indexes[p]) < 0
  BY <1>3, <1>5, <1>6
<1>8. IF 0 < Len(path_indexes) THEN parent_node' = parent(path_indexes[1])
                               ELSE parent_node' \notin 0 .. TREE_LEAVES - 1
  BY <1>1, <1>3, TreeSize DEF ParentAt
<1>9. \A n \in TreeNodes \ Hiding(Hidden) : ~(parent(n) < 0) BY <1>3, <1>5
<1>10. PartialFacts'
  BY <1>1, <1>2, <1>3, <1>4, <1>7, <1>8, <1>9, TreeSize DEF PartialFacts
<1> QED BY <1>1, <1>2, <1>10 DEF PartialInv, PartialFacts, BlankLeaves

\* What the three steps of the loop have in common.
LEMMA PartialState ==
  ASSUME Inv, pc = "partial_expand"
  PROVE  /\ PartialFacts /\ e = TAU /\ recovered = BlankLeaves
         /\ i \in Nat /\ k \in Nat
BY TreeSize DEF Inv, CoverInv, PartialInv, PartialFacts, ListInv

LEMMA InnerChild ==
  ASSUME NEW n \in TreeNodes \ {0}, n \in InnerNodes PROVE parent(n) < TREE_LEAVES \div 2
BY TreeSize DEF InnerNodes, parent

LEMMA PlaceSeedStep ==
  ASSUME Inv, PlaceSeed
  PROVE  PartialInv'
<1>1. /\ pc = "partial_expand" /\ pc' = pc /\ i < TREE_LEAVES - 1 /\ i = parent_node
      /\ partial_tree' = [partial_tree EXCEPT ![path_indexes[k + 1]] = path[k]]
      /\ valid' = IF i < TREE_LEAVES \div 2 THEN valid \union {path_indexes[k + 1]} ELSE valid
      /\ parent_node' = IF k + 1 < path_length THEN ParentAt(k + 1) ELSE parent_node
      /\ k' = k + 1 /\ i' = i + 1
      /\ UNCHANGED <<psi_i_star, path_indexes, tree, recovered>>
  BY DEF PlaceSeed, signer, list
<1>2. PartialFacts /\ e = TAU /\ recovered = BlankLeaves /\ i \in Nat /\ k \in Nat
  BY <1>1, PartialState
<1>3. /\ path_indexes \in Seq(TreeNodes) /\ Increasing(path_indexes)
      /\ Len(path_indexes) \in Nat /\ DOMAIN path_indexes = 1 .. Len(path_indexes)
      /\ Hidden \in SUBSET TreeLeaves
      /\ Hiding(Hidden) \in SUBSET TreeNodes /\ 0 \in Hiding(Hidden)
      /\ ToSet(path_indexes) = Frontier(Hiding(Hidden))
      /\ path_length = Len(path_indexes)
      /\ \A x \in 0 .. Len(path_indexes) - 1 : path[x] = tree[path_indexes[x + 1]]
  BY <1>1, <1>2, HonestPath
<1>4. k < Len(path_indexes) BY <1>1, <1>2, TreeSize DEF PartialFacts
<1> DEFINE m == path_indexes[k + 1]
<1>5. k + 1 \in 1 .. Len(path_indexes) /\ k \in 0 .. Len(path_indexes) - 1 BY <1>2, <1>3, <1>4
<1>6. m \in TreeNodes \ {0} /\ m \notin Hiding(Hidden) /\ parent(m) = i /\ m \in Frontier(Hiding(Hidden))
  <2>1. m \in ToSet(path_indexes) BY <1>3, <1>5 DEF ToSet
  <2>2. parent(m) = i BY <1>1, <1>2, <1>4 DEF PartialFacts
  <2> QED BY <1>3, <2>1, <2>2 DEF Frontier
<1>7. path[k] = tree[m] /\ tree[m] \in Seed BY <1>1, <1>3, <1>5, <1>6, TreeSeed DEF Inv
<1>8. /\ \A p \in 1 .. Len(path_indexes) : p < k + 1 => parent(path_indexes[p]) < i
      /\ \A p \in 1 .. Len(path_indexes) : k + 1 < p => i < parent(path_indexes[p])
  BY <1>3, <1>5, <1>6, ParentOrder
<1>9. \A p \in 1 .. Len(path_indexes) : parent(path_indexes[p]) \in Nat
  <2> SUFFICES ASSUME NEW p \in 1 .. Len(path_indexes) PROVE parent(path_indexes[p]) \in Nat
    OBVIOUS
  <2>1. path_indexes[p] \in TreeNodes \ {0} BY <1>3 DEF ToSet, Frontier
  <2> QED BY <2>1, ParentBelow, TreeSize DEF TreeNodes
<1>10. ASSUME NEW p \in 1 .. Len(path_indexes)
       PROVE  p <= k + 1 <=> parent(path_indexes[p]) < i + 1
  <2>1. CASE p < k + 1
    <3>1. parent(path_indexes[p]) < i BY <1>8, <2>1
    <3> QED BY <1>2, <1>9, <2>1, <3>1
  <2>2. CASE p = k + 1 BY <1>2, <1>6, <2>2
  <2>3. CASE k + 1 < p
    <3>1. i < parent(path_indexes[p]) BY <1>8, <2>3
    <3> QED BY <1>2, <1>9, <2>3, <3>1
  <2> QED BY <1>2, <2>1, <2>2, <2>3
<1>11. IF k + 1 < Len(path_indexes) THEN parent_node' = parent(path_indexes[(k + 1) + 1])
                                    ELSE parent_node' \notin i + 1 .. TREE_LEAVES - 1
  BY <1>1, <1>2, <1>3 DEF ParentAt
<1>12. Hidden' = Hidden BY <1>1 DEF Hidden
<1> HIDE DEF m
<1>13. /\ partial_tree' = [partial_tree EXCEPT ![m] = tree[m]]
       /\ valid' = IF i < TREE_LEAVES \div 2 THEN valid \union {m} ELSE valid
  BY <1>1, <1>7 DEF m
<1>14. partial_tree' \in [TreeNodes -> Seed \union {NoSeed}] BY <1>2, <1>7, <1>13 DEF PartialFacts
<1>15. valid' \subseteq TreeNodes \ Hiding(Hidden) BY <1>2, <1>6, <1>13 DEF PartialFacts
<1>16. \A n \in Hiding(Hidden) : partial_tree'[n] = NoSeed
  BY <1>2, <1>3, <1>6, <1>13 DEF PartialFacts
<1>17. ASSUME NEW n \in TreeNodes \ Hiding(Hidden), parent(n) < i + 1
       PROVE  partial_tree'[n] = tree[n] /\ (n \in InnerNodes => n \in valid')
  <2>1. n \in TreeNodes \ {0} /\ parent(n) \in Nat
    BY <1>3, ParentBelow, TreeSize DEF TreeNodes
  <2>2. CASE parent(n) < i
    BY <1>2, <1>6, <1>13, <2>2 DEF PartialFacts
  <2>3. CASE parent(n) = i
    <3>1. n \in {m, sibling(m)} BY <1>6, <2>1, <2>3, Siblings
    <3>2. n = m BY <1>3, <1>6, <3>1, SiblingHides
    <3>3. n \in InnerNodes => n \in valid' BY <1>6, <1>13, <3>2, InnerChild
    <3> QED BY <1>2, <1>13, <3>2, <3>3 DEF PartialFacts
  <2> QED BY <1>2, <1>17, <2>1, <2>2, <2>3
<1>18. i + 1 \in 0 .. TREE_LEAVES - 1 /\ k + 1 \in 0 .. Len(path_indexes)
  BY <1>1, <1>2, <1>3, <1>4, TreeSize
<1>19. PartialFacts'
  BY <1>1, <1>3, <1>10, <1>11, <1>12, <1>14, <1>15, <1>16, <1>17, <1>18 DEF PartialFacts
<1> QED BY <1>1, <1>2, <1>19 DEF PartialInv, PartialFacts, BlankLeaves

\* A node that is not in the path: below it is no node of the path either.
LEMMA NotInPath ==
  ASSUME Inv, pc = "partial_expand", i < TREE_LEAVES - 1, i # parent_node
  PROVE  \A p \in DOMAIN path_indexes : parent(path_indexes[p]) # i
<1> SUFFICES ASSUME NEW p \in DOMAIN path_indexes, parent(path_indexes[p]) = i PROVE FALSE
  OBVIOUS
<1>1. PartialFacts /\ e = TAU /\ i \in Nat /\ k \in Nat BY PartialState
<1>2. /\ path_indexes \in Seq(TreeNodes) /\ Increasing(path_indexes)
      /\ Len(path_indexes) \in Nat /\ DOMAIN path_indexes = 1 .. Len(path_indexes)
      /\ Hidden \in SUBSET TreeLeaves
      /\ ToSet(path_indexes) = Frontier(Hiding(Hidden))
  BY <1>1, HonestPath
<1>3. ~(p <= k) BY <1>1 DEF PartialFacts
<1>4. k < Len(path_indexes) /\ k + 1 \in 1 .. Len(path_indexes) /\ p \in 1 .. Len(path_indexes)
  BY <1>1, <1>2, <1>3
<1>5. parent_node = parent(path_indexes[k + 1]) BY <1>1, <1>4 DEF PartialFacts
<1>6. ~(parent(path_indexes[k + 1]) < i)
  BY <1>1, <1>2, <1>4 DEF PartialFacts
<1>7. CASE p = k + 1 BY <1>5, <1>7
<1>8. CASE k + 1 < p
  <2>1. parent(path_indexes[k + 1]) < parent(path_indexes[p]) BY <1>2, <1>4, <1>8, ParentOrder
  <2> QED BY <1>6, <2>1
<1> QED BY <1>1, <1>3, <1>4, <1>7, <1>8

\* The next node, with the same nodes of the path before it.
LEMMA SamePosition ==
  ASSUME Inv, pc = "partial_expand", i < TREE_LEAVES - 1, i # parent_node
  PROVE  /\ i + 1 \in 0 .. TREE_LEAVES - 1
         /\ \A p \in DOMAIN path_indexes : p <= k <=> parent(path_indexes[p]) < i + 1
         /\ IF k < Len(path_indexes) THEN parent_node = parent(path_indexes[k + 1])
                                     ELSE parent_node \notin i + 1 .. TREE_LEAVES - 1
<1>1. PartialFacts /\ e = TAU /\ i \in Nat /\ k \in Nat BY PartialState
<1>2. /\ path_indexes \in Seq(TreeNodes)
      /\ ToSet(path_indexes) = Frontier(Hiding(Hidden))
  BY <1>1, HonestPath
<1>3. ASSUME NEW p \in DOMAIN path_indexes
      PROVE  p <= k <=> parent(path_indexes[p]) < i + 1
  <2>1. path_indexes[p] \in TreeNodes \ {0} BY <1>2 DEF ToSet, Frontier
  <2>2. parent(path_indexes[p]) \in Nat BY <2>1, ParentBelow, TreeSize DEF TreeNodes
  <2>3. parent(path_indexes[p]) # i BY NotInPath
  <2>4. p <= k <=> parent(path_indexes[p]) < i BY <1>1 DEF PartialFacts
  <2> QED BY <1>1, <2>2, <2>3, <2>4
<1>4. i + 1 \in 0 .. TREE_LEAVES - 1 BY <1>1, TreeSize
<1>5. IF k < Len(path_indexes) THEN parent_node = parent(path_indexes[k + 1])
                               ELSE parent_node \notin i + 1 .. TREE_LEAVES - 1
  BY <1>1 DEF PartialFacts
<1> QED BY <1>3, <1>4, <1>5

LEMMA ExpandValidStep ==
  ASSUME Inv, ExpandValid
  PROVE  PartialInv'
<1> DEFINE c == Children(partial_tree[i], i)
<1>1. /\ pc = "partial_expand" /\ pc' = pc /\ i < TREE_LEAVES - 1 /\ i # parent_node /\ i \in valid
      /\ partial_tree' = [partial_tree EXCEPT ![child_0(i)] = c[1], ![child_1(i)] = c[2]]
      /\ valid' = IF i < TREE_LEAVES \div 2 THEN valid \union {child_0(i), child_1(i)} ELSE valid
      /\ i' = i + 1
      /\ UNCHANGED <<psi_i_star, path_indexes, tree, recovered, k, parent_node>>
  BY DEF ExpandValid, signer, list
<1>2. PartialFacts /\ e = TAU /\ recovered = BlankLeaves /\ i \in Nat /\ k \in Nat
  BY <1>1, PartialState
<1>3. /\ Hiding(Hidden) \in SUBSET TreeNodes /\ Closed(Hiding(Hidden)) /\ 0 \in Hiding(Hidden)
  BY <1>1, <1>2, HonestPath
<1>4. i \in TreeNodes \ Hiding(Hidden) /\ i # 0 /\ i \in InnerNodes
  BY <1>1, <1>2, <1>3, TreeSize DEF PartialFacts, InnerNodes
<1>5. partial_tree[i] = tree[i]
  <2>1. parent(i) < i BY <1>4, ParentBelow
  <2> QED BY <1>2, <1>4, <2>1 DEF PartialFacts
<1>6. IsTree(tree) /\ tree[i] # NoSeed BY <1>1, <1>4, TreeSeed DEF Inv, SeedInv
<1>7. c[1] = tree[child_0(i)] /\ c[2] = tree[child_1(i)]
  BY <1>4, <1>5, <1>6 DEF IsTree, Children
<1> DEFINE a == child_0(i)
           b == child_1(i)
<1>8. /\ a \in TreeNodes \ {0} /\ parent(a) = i
      /\ b \in TreeNodes \ {0} /\ parent(b) = i
      /\ \A n \in TreeNodes \ {0} : parent(n) = i => n \in {a, b}
  BY <1>4, ChildNodes
<1>9. a \notin Hiding(Hidden) /\ b \notin Hiding(Hidden) BY <1>3, <1>4, <1>8 DEF Closed
<1>10. partial_tree' = [partial_tree EXCEPT ![a] = tree[a], ![b] = tree[b]] BY <1>1, <1>7
<1>11. valid' = IF i < TREE_LEAVES \div 2 THEN valid \union {a, b} ELSE valid BY <1>1
<1> HIDE DEF a, b, c
<1>12. tree[a] \in Seed /\ tree[b] \in Seed BY <1>1, <1>8, TreeSeed DEF Inv
<1>13. partial_tree' \in [TreeNodes -> Seed \union {NoSeed}]
  BY <1>2, <1>10, <1>12 DEF PartialFacts
<1>14. valid' \subseteq TreeNodes \ Hiding(Hidden) BY <1>2, <1>8, <1>9, <1>11 DEF PartialFacts
<1>15. \A n \in Hiding(Hidden) : partial_tree'[n] = NoSeed
  BY <1>2, <1>3, <1>9, <1>10 DEF PartialFacts
<1>16. ASSUME NEW n \in TreeNodes \ Hiding(Hidden), parent(n) < i + 1
       PROVE  partial_tree'[n] = tree[n] /\ (n \in InnerNodes => n \in valid')
  <2>1. n \in TreeNodes \ {0} /\ parent(n) \in Nat
    BY <1>3, ParentBelow, TreeSize DEF TreeNodes
  <2>2. CASE parent(n) < i
    BY <1>2, <1>8, <1>10, <1>11, <2>2 DEF PartialFacts
  <2>3. CASE parent(n) = i
    <3>1. n \in {a, b} BY <1>8, <2>1, <2>3
    <3>2. n \in InnerNodes => n \in valid' BY <1>11, <2>1, <2>3, <3>1, InnerChild
    <3>3. partial_tree'[n] = tree[n] BY <1>2, <1>8, <1>10, <3>1 DEF PartialFacts
    <3> QED BY <3>2, <3>3
  <2> QED BY <1>2, <1>16, <2>1, <2>2, <2>3
<1>17. Hidden' = Hidden BY <1>1 DEF Hidden
<1>18. PartialFacts'
  <2>1. k \in 0 .. Len(path_indexes) BY <1>2 DEF PartialFacts
  <2> QED BY <1>1, <1>13, <1>14, <1>15, <1>16, <1>17, <2>1, SamePosition DEF PartialFacts
<1> QED BY <1>1, <1>2, <1>18 DEF PartialInv, PartialFacts, BlankLeaves

LEMMA SkipNodeStep ==
  ASSUME Inv, SkipNode
  PROVE  PartialInv'
<1>1. /\ pc = "partial_expand" /\ pc' = pc /\ i < TREE_LEAVES - 1 /\ i # parent_node /\ i \notin valid
      /\ i' = i + 1
      /\ UNCHANGED <<psi_i_star, path_indexes, tree, partial_tree, valid, recovered, k, parent_node>>
  BY DEF SkipNode, signer, list
<1>2. PartialFacts /\ e = TAU /\ recovered = BlankLeaves /\ i \in Nat /\ k \in Nat
  BY <1>1, PartialState
<1>3. /\ Hiding(Hidden) \in SUBSET TreeNodes /\ 0 \in Hiding(Hidden)
      /\ ToSet(path_indexes) = Frontier(Hiding(Hidden))
  BY <1>1, <1>2, HonestPath
<1>4. i \in Hiding(Hidden)
  <2> SUFFICES ASSUME i \notin Hiding(Hidden) PROVE FALSE OBVIOUS
  <2>1. i \in TreeNodes \ {0} /\ i \in InnerNodes
    BY <1>1, <1>2, <1>3, TreeSize DEF TreeNodes, InnerNodes
  <2>2. parent(i) < i BY <2>1, ParentBelow
  <2> QED BY <1>1, <1>2, <2>1, <2>2 DEF PartialFacts
<1>5. ASSUME NEW n \in TreeNodes \ Hiding(Hidden), parent(n) < i + 1 PROVE parent(n) < i
  <2>1. n \in TreeNodes \ {0} /\ parent(n) \in Nat
    BY <1>3, ParentBelow, TreeSize DEF TreeNodes
  <2>2. ASSUME parent(n) = i PROVE FALSE
    <3>1. n \in ToSet(path_indexes) BY <1>3, <1>4, <2>1, <2>2 DEF Frontier
    <3> QED BY <1>1, <2>2, <3>1, NotInPath DEF ToSet
  <2> QED BY <1>2, <1>5, <2>1, <2>2
<1>6. Hidden' = Hidden BY <1>1 DEF Hidden
<1>7. PartialFacts'
  <2>1. /\ k \in 0 .. Len(path_indexes) /\ partial_tree \in [TreeNodes -> Seed \union {NoSeed}]
        /\ valid \subseteq TreeNodes \ Hiding(Hidden)
        /\ \A n \in Hiding(Hidden) : partial_tree[n] = NoSeed
        /\ \A n \in TreeNodes \ Hiding(Hidden) :
             parent(n) < i + 1 => /\ partial_tree[n] = tree[n]
                                  /\ n \in InnerNodes => n \in valid
    BY <1>2, <1>5 DEF PartialFacts
  <2> QED BY <1>1, <1>6, <2>1, SamePosition DEF PartialFacts
<1> QED BY <1>1, <1>2, <1>7 DEF PartialInv, PartialFacts, BlankLeaves

\* All of the path is used up, and the leaves have their seeds.
LEMMA ExpandedStep ==
  ASSUME Inv, Expanded
  PROVE  /\ pc = "partial_expand" /\ pc' = "verified"
         /\ recovered' = [leaf \in TreeLeaves |-> IF leaf \in Hidden THEN NoSeed ELSE seeds[leaf]]
<1>1. /\ pc = "partial_expand" /\ i = TREE_LEAVES - 1
      /\ pc' = IF k = path_length THEN "verified" ELSE "rejected"
      /\ recovered' = IF k = path_length THEN get_leaves(partial_tree) ELSE recovered
  BY DEF Expanded
<1>2. PartialFacts /\ e = TAU /\ i \in Nat /\ k \in Nat BY <1>1, PartialState
<1>3. /\ path_indexes \in Seq(TreeNodes)
      /\ Len(path_indexes) \in Nat /\ DOMAIN path_indexes = 1 .. Len(path_indexes)
      /\ Hidden \in SUBSET TreeLeaves /\ 0 \in Hiding(Hidden)
      /\ ToSet(path_indexes) = Frontier(Hiding(Hidden)) /\ path_length = Len(path_indexes)
  BY <1>1, <1>2, HonestPath
<1>4. \A n \in TreeNodes \ {0} : parent(n) < i
  BY <1>1, LeafHasNoChild DEF LEAVES_SEEDS_OFFSET
<1>5. \A p \in DOMAIN path_indexes : p <= k
  <2> SUFFICES ASSUME NEW p \in DOMAIN path_indexes PROVE p <= k OBVIOUS
  <2>1. path_indexes[p] \in TreeNodes \ {0} BY <1>3 DEF ToSet, Frontier
  <2> QED BY <1>2, <1>4, <2>1 DEF PartialFacts
<1>6. k = Len(path_indexes)
  <2>1. k <= Len(path_indexes) BY <1>2, <1>3 DEF PartialFacts
  <2>2. CASE Len(path_indexes) = 0 BY <1>2, <2>1, <2>2
  <2>3. CASE Len(path_indexes) > 0
    <3> DEFINE n == Len(path_indexes)
    <3>1. n \in Nat /\ n > 0 /\ DOMAIN path_indexes = 1 .. n BY <1>3, <2>3
    <3> HIDE DEF n
    <3>2. n \in DOMAIN path_indexes BY <3>1
    <3>3. n \in Nat /\ k \in Nat /\ n <= k BY <1>2, <1>5, <3>1, <3>2
    <3>4. k <= n BY <2>1 DEF n
    <3>5. k = n BY <3>3, <3>4
    <3> QED BY <3>5 DEF n
  <2> QED BY <1>3, <2>2, <2>3
<1>7. ASSUME NEW leaf \in TreeLeaves
      PROVE  partial_tree[LEAVES_SEEDS_OFFSET + leaf] = IF leaf \in Hidden THEN NoSeed ELSE seeds[leaf]
  <2> DEFINE v == LEAVES_SEEDS_OFFSET + leaf
  <2>1. v \in TreeNodes BY HiddenNode
  <2>2. v \in Hiding(Hidden) <=> leaf \in Hidden BY <1>3, HidingFacts
  <2>3. seeds[leaf] = tree[v] BY <1>1 DEF Inv, SeedInv, get_leaves
  <2>4. CASE leaf \in Hidden BY <1>2, <2>2, <2>4 DEF PartialFacts
  <2>5. CASE leaf \notin Hidden
    <3>1. v \in TreeNodes \ {0} BY <1>3, <2>1, <2>2, <2>5
    <3>2. partial_tree[v] = tree[v] BY <1>2, <1>4, <2>2, <2>5, <3>1 DEF PartialFacts
    <3> QED BY <2>3, <2>5, <3>2
  <2> QED BY <2>4, <2>5
<1> QED BY <1>1, <1>3, <1>6, <1>7 DEF get_leaves

LEMMA PartialStep == Inv /\ [Next]_vars => PartialInv'
<1> SUFFICES ASSUME Inv, [Next]_vars PROVE PartialInv' OBVIOUS
<1>1. CASE PartialExpand BY <1>1, PartialStart
<1>2. CASE PlaceSeed BY <1>2, PlaceSeedStep
<1>3. CASE ExpandValid BY <1>3, ExpandValidStep
<1>4. CASE SkipNode BY <1>4, SkipNodeStep
<1>5. CASE Expanded
  <2>1. /\ pc = "partial_expand" /\ pc' = "verified"
        /\ recovered' = [leaf \in TreeLeaves |-> IF leaf \in Hidden THEN NoSeed ELSE seeds[leaf]]
    BY <1>5, ExpandedStep
  <2>2. UNCHANGED <<psi_i_star, seeds>> BY <1>5 DEF Expanded, signer
  <2>3. Hidden' = Hidden BY <2>2 DEF Hidden
  <2> QED BY <2>1, <2>2, <2>3 DEF PartialInv
<1>6. CASE \/ Expand \/ RetryShake \/ Discard \/ GetSiblingPath \/ Search \/ Meet \/ Climb
           \/ AtRoot \/ RejectPath \/ Sign \/ CallVerify
  <2>1. /\ UNCHANGED rest /\ pc \notin {"partial_expand", "verified"}
        /\ pc' \notin {"partial_expand", "verified", "rejected"}
    BY <1>6 DEF Expand, RetryShake, Discard, GetSiblingPath, Search, Meet, Climb, AtRoot,
         RejectPath, Sign, CallVerify, Listing, Inv, PartialInv
  <2> QED BY <2>1 DEF Inv, PartialInv, rest, BlankLeaves
<1>7. CASE UNCHANGED vars
  <2>1. UNCHANGED <<pc, rest, path_indexes, tree, seeds, psi_i_star>> BY <1>7 DEF vars, list, signer
  <2>2. Hidden' = Hidden BY <2>1 DEF Hidden
  <2> QED BY <2>1, <2>2 DEF Inv, PartialInv, rest, BlankLeaves
<1> QED BY <1>1, <1>2, <1>3, <1>4, <1>5, <1>6, <1>7 DEF Next

LEMMA InvStep == Inv /\ [Next]_vars => Inv'
BY ViewStep, ChosenStep, ListStep, CoverStep, SeedStep, PathStep, PartialStep DEF Inv

LEMMA AlwaysInv == Spec => []Inv
BY Initially, InvStep, PTL DEF Spec

\* The binary search of is_in_list finds every node that is in the list.
THEOREM SearchIsExactCorrect == Spec => []SearchIsExact
<1>1. Inv => SearchIsExact
  <2> SUFFICES ASSUME Inv, Listing, l > r, NEW p \in DOMAIN path_indexes,
                      path_indexes[p] = node
               PROVE  FALSE
    BY DEF SearchIsExact
  <2>1. p - 1 \in l .. r BY DEF Inv, SearchInv
  <2>2. l \in Int /\ r \in Int /\ p \in Int BY DEF Inv, ListInv
  <2> QED BY <2>1, <2>2
<1> QED BY <1>1, AlwaysInv, PTL

\* When a leaf is done, the list is the cover of the leaves so far, in order:
\* what insert_sorted put in on the way up from it and what remove_from_list
\* took out come to the fewest nodes that give away all others.
THEOREM ListIsCoverCorrect == Spec => []ListIsCover
<1>1. Inv => ListIsCover
  <2> SUFFICES ASSUME Inv, pc \in {"sign_list", "verify_list"}, e > 0,
                      e = TAU \/ node = LEAVES_SEEDS_OFFSET + psi_i_star[e]
               PROVE  /\ ToSet(path_indexes) = Cover({psi_i_star[x] : x \in 0 .. e - 1})
                      /\ Increasing(path_indexes)
    BY DEF ListIsCover
  <2> DEFINE H == {psi_i_star[x] : x \in 0 .. e - 1}
  <2>1. e \in 0 .. TAU /\ TAU \in Nat /\ psi_i_star \in [0 .. TAU - 1 -> TreeLeaves]
    BY TreeAssumption DEF Inv, ListInv, Repetitions
  <2>2. H \in SUBSET TreeLeaves BY <2>1
  <2>3. H # {}
    <3>1. 0 \in 0 .. e - 1 BY <2>1
    <3> QED BY <3>1
  <2>4. Cover(H) = Frontier(Hiding(H)) BY <2>2, <2>3, HidingFacts
  <2>5. Earlier = Hiding(H) BY DEF Earlier
  <2> HIDE DEF H
  <2>6. CASE e = TAU BY <2>4, <2>5, <2>6 DEF Inv, CoverInv, H
  <2>7. CASE e # TAU
    <3>1. e < TAU /\ node = LeafNode BY <2>1, <2>7 DEF LeafNode
    <3>2. SiblingsOf(Climbed(LeafNode, node)) = {} BY <3>1 DEF SiblingsOf, Climbed
    <3> QED BY <2>4, <2>5, <3>1, <3>2 DEF Inv, CoverInv, H
  <2> QED BY <2>6, <2>7
<1> QED BY <1>1, AlwaysInv, PTL

\* The counter in the signature is the first one with an acceptable view, and
\* signer and verifier hide the leaves of its view.
THEOREM FirstAcceptableCorrect == Spec => []FirstAcceptable
<1>1. Inv => FirstAcceptable
  <2> SUFFICES ASSUME Inv, Signed
               PROVE  /\ Acceptable(shake[ctr])
                      /\ \A c \in 0 .. ctr - 1 : ~Acceptable(shake[c])
                      /\ Hidden = HiddenIn(shake[ctr])
    BY DEF FirstAcceptable, Signed
  <2>1. psi_i_star = PsiOf(shake[ctr]) BY DEF Inv, ChosenInv
  <2>2. Hidden = HiddenIn(shake[ctr]) BY <2>1 DEF Hidden, HiddenIn, PsiOf
  <2> QED BY <2>2 DEF Inv, ChosenInv
<1> QED BY <1>1, AlwaysInv, PTL

(* The seeds of the rounds *)

Phase == IF pc = "expand" THEN "generate"
         ELSE IF pc \in {"step", "sign_list"} THEN "challenge"
         ELSE IF pc \in {"verified", "rejected"} THEN "done" ELSE "recover"
Opened == IF pc \in {"expand", "step", "sign_list"} THEN {} ELSE TreeLeaves \ Hidden

LEMMA SeedsGenerated ==
  ASSUME Inv', Expand
  PROVE  Phase = "generate" /\ Phase' = "challenge" /\ UNCHANGED <<Opened, recovered>>
         /\ seeds' \in [TreeLeaves -> Seed]
<1>1. pc = "expand" /\ pc' = "step" /\ UNCHANGED recovered BY DEF Expand, rest
<1>2. IsTree(tree') /\ seeds' = get_leaves(tree')
  BY <1>1 DEF Inv, SeedInv, IsTree, get_leaves
<1>3. seeds' \in [TreeLeaves -> Seed]
  <2>1. \A leaf \in TreeLeaves : tree'[LEAVES_SEEDS_OFFSET + leaf] \in Seed
    BY <1>2, HiddenNode DEF IsTree
  <2> QED BY <1>2, <2>1 DEF get_leaves
<1> QED BY <1>1, <1>3 DEF Phase, Opened

\* What is opened is chosen with the signature; a list that is full would
\* choose it too.
LEMMA SeedsOpened ==
  ASSUME Inv, Sign \/ Climb, pc = "sign_list", pc' # "sign_list"
  PROVE  /\ Phase = "challenge" /\ Phase' = "recover" /\ UNCHANGED <<seeds, recovered>>
         /\ \E view \in Views : Opened' = TreeLeaves \ HiddenIn(view)
<1>1. pc' \in {"signed", "full"} /\ UNCHANGED <<psi_i_star, seeds, recovered>>
  BY DEF Sign, Climb, signer, rest
<1>2. Candidate \in Views
  <2>1. ViewInv /\ step < SHAKE_STEP BY DEF Inv, ViewInv
  <2> QED BY <2>1, CandidateView
<1>3. Hidden = HiddenIn(Candidate) BY PsiOfHidden DEF Inv, ChosenInv
<1>4. Hidden' = Hidden BY <1>1 DEF Hidden
<1>5. Opened' = TreeLeaves \ HiddenIn(Candidate) BY <1>1, <1>3, <1>4 DEF Opened
<1> QED BY <1>1, <1>2, <1>5 DEF Phase

LEMMA SeedsRecovered ==
  ASSUME Inv, Expanded
  PROVE  /\ Phase = "recover" /\ Phase' = "done" /\ UNCHANGED <<seeds, Opened>>
         /\ recovered' = [leaf \in TreeLeaves |-> IF leaf \in Opened THEN seeds[leaf] ELSE NoSeed]
<1>1. /\ pc = "partial_expand" /\ pc' = "verified"
      /\ recovered' = [leaf \in TreeLeaves |-> IF leaf \in Hidden THEN NoSeed ELSE seeds[leaf]]
  BY ExpandedStep
<1>2. UNCHANGED <<seeds, psi_i_star>> BY DEF Expanded, signer
<1>3. Hidden' = Hidden BY <1>2 DEF Hidden
<1>4. Opened = TreeLeaves \ Hidden BY <1>1 DEF Opened
<1> QED BY <1>1, <1>2, <1>3, <1>4 DEF Phase, Opened

\* All other steps stutter: the verifier's CallVerify hides the same leaves.
LEMMA SeedsKept ==
  ASSUME Inv, [Next]_vars, ~Expand, ~Expanded,
         ~((Sign \/ Climb) /\ pc = "sign_list" /\ pc' # "sign_list")
  PROVE  UNCHANGED <<Phase, seeds, Opened, recovered>>
<1>1. CASE CallVerify
  <2>1. /\ pc = "signed" /\ pc' = "verify_list" /\ UNCHANGED <<seeds, recovered>>
        /\ psi_i_star' = PsiOf(shake[ctr])
    BY <1>1 DEF CallVerify, Hide, PsiOf, signer, rest
  <2>2. psi_i_star' = psi_i_star BY <2>1 DEF Inv, ChosenInv, Signed
  <2>3. Hidden' = Hidden BY <2>2 DEF Hidden
  <2> QED BY <2>1, <2>3 DEF Phase, Opened
<1>2. CASE GetSiblingPath
  BY <1>2 DEF GetSiblingPath, signer, rest, Phase, Opened
<1>3. CASE Climb \/ Sign
  <2>1. pc' # "sign_list" => pc # "sign_list" BY <1>3
  <2>2. Sign => pc' = "signed" /\ pc = "sign_list" BY DEF Sign
  <2>3. Climb BY <1>3, <2>1, <2>2
  <2>4. /\ pc \in {"sign_list", "verify_list"} /\ pc' \in {pc, "full"} /\ (pc = "sign_list" => pc' = pc)
        /\ UNCHANGED <<seeds, recovered, psi_i_star>>
    BY <2>1, <2>3 DEF Climb, Listing, signer, rest
  <2>5. Hidden' = Hidden BY <2>4 DEF Hidden
  <2> QED BY <2>4, <2>5 DEF Phase, Opened
<1>4. CASE \/ RetryShake \/ Discard \/ Search \/ Meet \/ AtRoot \/ RejectPath \/ PartialExpand
           \/ PlaceSeed \/ ExpandValid \/ SkipNode \/ UNCHANGED vars
  <2>1. /\ UNCHANGED <<seeds, recovered, psi_i_star>>
        /\ \/ pc' = pc
           \/ pc = "sign_list" /\ pc' = "step"
           \/ pc = "verify_list" /\ pc' = "partial_expand"
    BY <1>4 DEF RetryShake, Discard, Search, Meet, AtRoot, RejectPath, PartialExpand, PlaceSeed,
         ExpandValid, SkipNode, vars, signer, list, rest
  <2>2. Hidden' = Hidden BY <2>1 DEF Hidden
  <2> QED BY <2>1, <2>2 DEF Phase, Opened
<1> QED BY <1>1, <1>2, <1>3, <1>4 DEF Next

\* Signer and verifier implement RoundSeeds: an honest signature passes
\* partial_expand, and the verifier then has the seed of every leaf but the
\* hidden ones, which it does not get.
THEOREM ImplementsRoundSeedsCorrect == Spec => ImplementsRoundSeeds
<1>1. Init => RS!Init BY DEF Init, RS!Init
<1>2. ASSUME Inv, Inv', [Next]_vars PROVE [RS!Next]_(RS!vars)
  <2>1. CASE Expand
    <3>1. RS!Generate BY <1>2, <2>1, SeedsGenerated DEF RS!Generate, Phase, Opened
    <3> QED BY <3>1 DEF RS!Next
  <2>2. CASE (Sign \/ Climb) /\ pc = "sign_list" /\ pc' # "sign_list"
    <3>1. RS!Open BY <1>2, <2>2, SeedsOpened DEF RS!Open, Phase, Opened
    <3> QED BY <3>1 DEF RS!Next
  <2>3. CASE Expanded
    <3>1. RS!Recover BY <1>2, <2>3, SeedsRecovered DEF RS!Recover, Phase, Opened
    <3> QED BY <3>1 DEF RS!Next
  <2>4. CASE /\ ~Expand /\ ~Expanded
             /\ ~((Sign \/ Climb) /\ pc = "sign_list" /\ pc' # "sign_list")
    <3>1. UNCHANGED RS!vars BY <1>2, <2>4, SeedsKept DEF RS!vars, Phase, Opened
    <3> QED BY <3>1
  <2> QED BY <2>1, <2>2, <2>3, <2>4
<1> QED BY <1>1, <1>2, AlwaysInv, PTL DEF Spec, ImplementsRoundSeeds, RS!Safety

(* Types *)

LEMMA ParentAtType ==
  ASSUME Inv, pc \in {"partial_expand", "verify_list"}, e = TAU, NEW p \in Nat
  PROVE  ParentAt(p) \in Nat
<1>1. /\ path_indexes \in Seq(TreeNodes) /\ Len(path_indexes) \in Nat
      /\ ToSet(path_indexes) = Frontier(Hiding(Hidden))
  BY HonestPath
<1>2. CASE p < Len(path_indexes)
  <2>1. p + 1 \in DOMAIN path_indexes BY <1>1, <1>2
  <2>2. path_indexes[p + 1] \in TreeNodes \ {0} BY <1>1, <2>1 DEF ToSet, Frontier
  <2> QED BY <1>2, <2>2, ParentBelow, TreeSize DEF ParentAt, TreeNodes
<1>3. CASE ~(p < Len(path_indexes)) BY <1>3, TreeSize DEF ParentAt
<1> QED BY <1>2, <1>3

\* The list never has more nodes than it has room for.
LEMMA ListFits ==
  ASSUME Inv, Len(path_indexes) <= MAX_OPEN, [Next]_vars
  PROVE  Len(path_indexes') <= MAX_OPEN
<1>1. Len(path_indexes) \in Nat /\ MAX_OPEN \in Nat BY TreeAssumption DEF Inv, ListInv
<1>2. CASE GetSiblingPath \/ CallVerify
  <2>1. path_indexes' = <<>> BY <1>2 DEF GetSiblingPath, CallVerify, Hide
  <2>2. Len(path_indexes') = 0 BY <2>1
  <2> QED BY <1>1, <2>2
<1>3. CASE Meet
  <2>1. Middle \in 0 .. Len(path_indexes) - 1
    BY <1>3, TreeSize DEF Meet, Listing, Middle, Inv, ListInv
  <2>2. Len(path_indexes') = Len(path_indexes) - 1
    BY <1>3, <2>1, RemoveProperties DEF Meet, Inv, ListInv
  <2> QED BY <1>1, <2>2
<1>4. CASE Climb
  <2>1. CASE Len(path_indexes) < MAX_OPEN
    <3>1. Len(path_indexes') = Len(path_indexes) + 1 BY <1>4, <2>1, ClimbList
    <3> QED BY <1>1, <2>1, <3>1
  <2>2. CASE ~(Len(path_indexes) < MAX_OPEN)
    <3>1. node \in TreeNodes \ {0} BY <1>4, ClimbList
    <3>2. sibling(node) \in TreeNodes BY <3>1, NodeTypes
    <3>3. path_indexes' = path_indexes
      BY <1>4, <2>2, <3>2, InsertFull DEF Climb, Inv, ListInv
    <3> QED BY <3>3
  <2> QED BY <2>1, <2>2
<1>5. CASE ~(GetSiblingPath \/ CallVerify \/ Meet \/ Climb)
  BY <1>5 DEF Next, Expand, RetryShake, Discard, Search, AtRoot, RejectPath, Sign, PartialExpand,
       PlaceSeed, ExpandValid, SkipNode, Expanded, vars, list
<1> QED BY <1>2, <1>3, <1>4, <1>5

\* The signer's and the verifier's seeds.
SeedTyped ==
  /\ seeds \in [TreeLeaves -> Seed \union {NoSeed}]
  /\ recovered \in [TreeLeaves -> Seed \union {NoSeed}]
  /\ pc # "expand" => tree \in [TreeNodes -> Seed \union {NoSeed}]
  /\ pc # "verified" => /\ partial_tree \in [TreeNodes -> Seed \union {NoSeed}]
                        /\ valid \subseteq TreeNodes
                        /\ i \in 0 .. TREE_LEAVES - 1
                        /\ k \in 0 .. Len(path_indexes)

LEMMA SeedTypes == Inv => SeedTyped
<1> SUFFICES ASSUME Inv PROVE SeedTyped OBVIOUS
<1>1. pc # "expand" => tree \in [TreeNodes -> Seed \union {NoSeed}]
  BY DEF Inv, SeedInv, IsTree
<1>2. seeds \in [TreeLeaves -> Seed \union {NoSeed}]
  <2>1. CASE pc = "expand" BY <2>1 DEF Inv, SeedInv, BlankLeaves
  <2>2. CASE pc # "expand"
    <3>1. seeds = get_leaves(tree) BY <2>2 DEF Inv, SeedInv
    <3>2. \A leaf \in TreeLeaves : tree[LEAVES_SEEDS_OFFSET + leaf] \in Seed \union {NoSeed}
      BY <1>1, <2>2, HiddenNode
    <3> QED BY <3>1, <3>2 DEF get_leaves
  <2> QED BY <2>1, <2>2
<1>3. recovered \in [TreeLeaves -> Seed \union {NoSeed}]
  BY <1>2 DEF Inv, PartialInv, BlankLeaves
<1>4. CASE pc = "partial_expand"
  BY <1>1, <1>2, <1>3, <1>4 DEF Inv, PartialInv, SeedTyped
<1>5. CASE pc # "partial_expand"
  <2>1. Len(path_indexes) \in Nat BY DEF Inv, ListInv
  <2>2. pc # "verified" => /\ partial_tree = [n \in TreeNodes |-> NoSeed] /\ valid = {}
                           /\ k = 0 /\ i = 0
    BY <1>5 DEF Inv, PartialInv
  <2> QED BY <1>1, <1>2, <1>3, <2>1, <2>2, TreeSize DEF SeedTyped
<1> QED BY <1>4, <1>5

\* The seeds of the path.
PathTyped ==
  /\ pc \in {"step", "sign_list"} \/ Signed => path \in [Slots -> Seed \union {NoSeed}]
  /\ Signed /\ pc # "signed" => path_length \in 0 .. T_OPEN

LEMMA PathTypes == Inv => PathTyped
<1> SUFFICES ASSUME Inv PROVE PathTyped OBVIOUS
<1>1. CASE Signed
  <2>1. PICK s \in Seq(TreeNodes) :
          Len(s) <= T_OPEN /\ path = PathOf(s) /\ (pc # "signed" => path_length = Len(s))
    BY <1>1 DEF Inv, PathInv
  <2>2. Len(s) \in Nat /\ T_OPEN \in Nat BY TreeAssumption
  <2>3. ASSUME NEW x \in Slots, x < Len(s) PROVE tree[s[x + 1]] \in Seed
    <3>1. x \in Nat /\ x + 1 \in 1 .. Len(s) BY <2>2, <2>3, TreeAssumption DEF Slots
    <3>2. s[x + 1] \in TreeNodes BY <3>1
    <3> QED BY <1>1, <3>2, TreeSeed DEF Inv, Signed
  <2>4. path \in [Slots -> Seed \union {NoSeed}] BY <2>1, <2>3 DEF PathOf
  <2> QED BY <2>1, <2>2, <2>4 DEF PathTyped
<1>2. CASE ~Signed
  <2>1. pc \in {"step", "sign_list"} => path = EmptyPath BY DEF Inv, PathInv
  <2> QED BY <1>2, <2>1 DEF EmptyPath, PathTyped
<1> QED BY <1>1, <1>2

\* The variables have their types: in particular the list stays in its buffer
\* of MAX_OPEN nodes, and path_length and the position in the path in theirs.
THEOREM TypeCorrect == Spec => []TypeOK
<1>1. Init => TypeOK
  <2> SUFFICES ASSUME Init PROVE TypeOK OBVIOUS
  <2>1. Inv BY Initially
  <2>2. Len(path_indexes) = 0 /\ pc = "expand" BY DEF Init
  <2>3. tree \in [TreeNodes -> Seed \union {NoSeed}] BY TCitHAssumption DEF Init
  <2>4. path \in [Slots -> Seed \union {NoSeed}] BY DEF Init, EmptyPath
  <2>5. path_length \in 0 .. T_OPEN /\ parent_node \in Nat BY TreeAssumption DEF Init
  <2>6. l = 0 /\ r = -1 /\ k = 0 BY DEF Init
  <2>7. l \in 0 .. MAX_OPEN /\ r \in -1 .. MAX_OPEN - 1 /\ k \in 0 .. MAX_OPEN
        /\ Len(path_indexes) <= MAX_OPEN
    BY <2>2, <2>6, TreeAssumption
  <2> QED BY <2>1, <2>2, <2>3, <2>4, <2>5, <2>7, SeedTypes DEF SeedTyped, TypeOK, Inv, ViewInv, ListInv
<1>2. Inv' => SeedTyped' BY SeedTypes, PTL
<1>3. Inv' => PathTyped' BY PathTypes, PTL
<1>4. ASSUME Inv, Inv', TypeOK, [Next]_vars PROVE TypeOK'
  <2>1. pc' \in {"expand", "step", "sign_list", "full", "signed", "verify_list",
                 "partial_expand", "verified", "rejected"}
    BY <1>4 DEF Next, TypeOK, Expand, RetryShake, Discard, GetSiblingPath, Search, Meet, Climb,
         AtRoot, RejectPath, Sign, CallVerify, PartialExpand, PlaceSeed, ExpandValid, SkipNode,
         Expanded, vars
  <2>2. /\ shake' \in Oracles /\ ctr' \in Counters' /\ step' \in 0 .. SHAKE_STEP
        /\ psi_i_star' \in [Repetitions -> TreeLeaves] /\ path_indexes' \in Seq(TreeNodes)
        /\ e' \in 0 .. TAU /\ node' \in TreeNodes
        /\ l' \in 0 .. Len(path_indexes') /\ r' \in -1 .. Len(path_indexes') - 1
    BY <1>4 DEF Inv, ViewInv, ListInv
  <2>3. Len(path_indexes') <= MAX_OPEN BY <1>4, ListFits DEF TypeOK
  <2>4. /\ Len(path_indexes') \in Nat /\ MAX_OPEN \in Nat BY <2>2, TreeAssumption
  <2>5. l' \in 0 .. MAX_OPEN /\ r' \in -1 .. MAX_OPEN - 1 BY <2>2, <2>3, <2>4
  <2>6. /\ seeds' \in [TreeLeaves -> Seed \union {NoSeed}]
        /\ recovered' \in [TreeLeaves -> Seed \union {NoSeed}]
        /\ pc' # "expand" => tree' \in [TreeNodes -> Seed \union {NoSeed}]
        /\ pc' # "verified" => /\ partial_tree' \in [TreeNodes -> Seed \union {NoSeed}]
                               /\ valid' \subseteq TreeNodes
                               /\ i' \in 0 .. TREE_LEAVES - 1
                               /\ k' \in 0 .. Len(path_indexes')
    BY <1>2, <1>4 DEF SeedTyped
  <2>7. tree' \in [TreeNodes -> Seed \union {NoSeed}]
    <3>1. pc' = "expand" => tree' = tree
      BY <1>4 DEF Next, Expand, RetryShake, Discard, GetSiblingPath, Search, Meet, Climb, AtRoot,
           RejectPath, Sign, CallVerify, PartialExpand, PlaceSeed, ExpandValid, SkipNode,
           Expanded, vars, signer
    <3> QED BY <1>4, <2>6, <3>1 DEF TypeOK
  <2>8. /\ partial_tree' \in [TreeNodes -> Seed \union {NoSeed}] /\ valid' \subseteq TreeNodes
        /\ i' \in 0 .. TREE_LEAVES - 1 /\ k' \in 0 .. MAX_OPEN
    <3>1. CASE pc' # "verified" BY <2>3, <2>4, <2>6, <3>1
    <3>2. CASE pc' = "verified"
      <4>1. UNCHANGED <<partial_tree, valid, i, k>>
        BY <1>4, <3>2 DEF Next, Expand, RetryShake, Discard, GetSiblingPath, Search, Meet, Climb,
             Listing, AtRoot, RejectPath, Sign, CallVerify, PartialExpand, PlaceSeed, ExpandValid,
             SkipNode, Expanded, vars, rest
      <4> QED BY <1>4, <4>1 DEF TypeOK
    <3> QED BY <3>1, <3>2
  <2>9. path' \in [Slots -> Seed \union {NoSeed}]
    <3>1. CASE pc' # "full" /\ pc' # "expand"
      BY <1>3, <1>4, <2>1, <3>1 DEF PathTyped, Signed
    <3>2. CASE pc' \in {"full", "expand"}
      <4>1. path' = path
        BY <1>4, <3>2 DEF Next, Expand, RetryShake, Discard, GetSiblingPath, Search, Meet, Climb,
             AtRoot, RejectPath, Sign, CallVerify, PartialExpand, PlaceSeed, ExpandValid, SkipNode,
             Expanded, vars
      <4> QED BY <1>4, <4>1 DEF TypeOK
    <3> QED BY <3>1, <3>2
  <2>10. path_length' \in 0 .. T_OPEN
    <3>1. CASE CallVerify
      <4>1. pc' = "verify_list" BY <3>1 DEF CallVerify
      <4> QED BY <1>3, <1>4, <4>1 DEF PathTyped, Signed
    <3>2. CASE ~CallVerify
      <4>1. path_length' = path_length
        BY <1>4, <3>2 DEF Next, Expand, RetryShake, Discard, GetSiblingPath, Search, Meet, Climb,
             AtRoot, RejectPath, Sign, PartialExpand, PlaceSeed, ExpandValid, SkipNode,
             Expanded, vars
      <4> QED BY <1>4, <4>1 DEF TypeOK
    <3> QED BY <3>1, <3>2
  <2>11. parent_node' \in Nat
    <3>1. CASE PartialExpand
      <4>1. pc = "verify_list" /\ e = TAU /\ parent_node' = ParentAt(0)
        BY <3>1 DEF PartialExpand
      <4> QED BY <1>4, <4>1, ParentAtType
    <3>2. CASE PlaceSeed
      <4>1. pc = "partial_expand" /\ parent_node' \in {ParentAt(k + 1), parent_node}
        BY <3>2 DEF PlaceSeed
      <4>2. e = TAU /\ k \in Nat BY <1>4, <4>1, PartialState
      <4>3. ParentAt(k + 1) \in Nat
        <5>1. k + 1 \in Nat BY <4>2
        <5> QED BY <1>4, <4>1, <4>2, <5>1, ParentAtType
      <4> QED BY <1>4, <4>1, <4>3 DEF TypeOK
    <3>3. CASE ~PartialExpand /\ ~PlaceSeed
      <4>1. parent_node' = parent_node
        BY <1>4, <3>3 DEF Next, Expand, RetryShake, Discard, GetSiblingPath, Search, Meet, Climb,
             AtRoot, RejectPath, Sign, CallVerify, ExpandValid, SkipNode, Expanded, vars, rest
      <4> QED BY <1>4, <4>1 DEF TypeOK
    <3> QED BY <3>1, <3>2, <3>3
  <2> QED BY <2>1, <2>2, <2>3, <2>5, <2>6, <2>7, <2>8, <2>9, <2>10, <2>11 DEF TypeOK
<1> QED BY <1>1, <1>4, AlwaysInv, PTL DEF Spec

(* Room in the list *)

LEMMA RoomStep ==
  ASSUME NEW h, NEW d \in Nat, IsHeight(h, d), TAU * d <= MAX_OPEN
  PROVE  Inv /\ Inv' /\ RoomInv(h, d) /\ [Next]_vars => RoomInv(h, d)'
<1> SUFFICES ASSUME Inv, Inv', RoomInv(h, d), [Next]_vars PROVE RoomInv(h, d)' OBVIOUS
<1>1. /\ e \in Nat /\ e' \in Nat /\ TAU \in Nat /\ node \in TreeNodes /\ node' \in TreeNodes
      /\ Len(path_indexes) \in Nat /\ Len(path_indexes') \in Nat
  BY TreeAssumption DEF Inv, ListInv
<1>2. \A n \in TreeNodes : h[n] \in Nat /\ h[n] <= d BY DEF IsHeight
<1>3. \A m \in Nat : m * d \in Nat /\ (m + 1) * d = m * d + d OBVIOUS
<1>4. CASE GetSiblingPath \/ CallVerify
  <2>1. pc' # "full" /\ path_indexes' = <<>> /\ e' = 0
    BY <1>4 DEF GetSiblingPath, CallVerify, Hide
  <2>2. Len(path_indexes') = 0 BY <2>1
  <2>3. (e' + 1) * d = d BY <2>1
  <2> QED BY <1>1, <1>2, <2>1, <2>2, <2>3 DEF RoomInv
<1>5. CASE Meet \/ AtRoot
  <2>1. e < TAU /\ e' = e + 1 /\ pc' # "full"
    BY <1>5 DEF Meet, AtRoot, Listing, NextLeaf, RoomInv
  <2>2. Len(path_indexes') <= Len(path_indexes)
    <3>1. CASE Meet
      <4>1. Middle \in 0 .. Len(path_indexes) - 1
        BY <3>1, TreeSize DEF Meet, Middle, Inv, ListInv
      <4>2. Len(path_indexes') = Len(path_indexes) - 1
        BY <3>1, <4>1, RemoveProperties DEF Meet, Inv, ListInv
      <4> QED BY <1>1, <4>2
    <3>2. CASE AtRoot BY <1>1, <3>2 DEF AtRoot
    <3> QED BY <1>5, <3>1, <3>2
  <2>3. Len(path_indexes) + h[node] <= (e + 1) * d BY <2>1 DEF RoomInv
  <2>4. (e' + 1) * d = (e + 1) * d + d /\ (e + 1) * d \in Nat BY <1>1, <1>3, <2>1
  <2>5. h[node] \in Nat /\ h[node'] \in Nat /\ h[node'] <= d BY <1>1, <1>2
  <2>6. Len(path_indexes') + h[node'] <= (e + 1) * d + d
    BY <1>1, <2>2, <2>3, <2>4, <2>5
  <2> QED BY <2>1, <2>4, <2>6 DEF RoomInv
<1>6. CASE Climb
  <2>1. e < TAU /\ e' = e BY <1>6 DEF Climb, Listing
  <2>2. node \in TreeNodes \ {0} /\ node' = parent(node) BY <1>6, ClimbList
  <2>3. h[node'] < h[node] BY <2>2 DEF IsHeight
  <2>4. Len(path_indexes) + h[node] <= (e + 1) * d BY <2>1 DEF RoomInv
  <2>5. (e + 1) * d <= TAU * d
    <3>1. e + 1 <= TAU BY <1>1, <2>1
    <3> QED BY <1>1, <3>1
  <2>6. (e + 1) * d \in Nat /\ TAU * d \in Nat /\ MAX_OPEN \in Nat
    BY <1>1, <1>3, TreeAssumption
  <2>7. Len(path_indexes) < MAX_OPEN BY <1>1, <1>2, <2>3, <2>4, <2>5, <2>6
  <2>8. Len(path_indexes') = Len(path_indexes) + 1 /\ pc' = pc BY <1>6, <2>7, ClimbList
  <2>9. h[node] \in Nat /\ h[node'] \in Nat BY <1>1, <1>2
  <2>10. Len(path_indexes') + h[node'] <= (e + 1) * d
    BY <1>1, <2>3, <2>4, <2>6, <2>8, <2>9
  <2> QED BY <2>1, <2>8, <2>10 DEF RoomInv
<1>7. CASE \/ Expand \/ RetryShake \/ Discard \/ Search \/ RejectPath \/ Sign \/ PartialExpand
           \/ PlaceSeed \/ ExpandValid \/ SkipNode \/ Expanded \/ UNCHANGED vars
  <2>1. UNCHANGED <<path_indexes, e, node>> /\ pc' # "full"
    BY <1>7 DEF Expand, RetryShake, Discard, Search, RejectPath, Sign, PartialExpand, PlaceSeed,
         ExpandValid, SkipNode, Expanded, vars, list, RoomInv
  <2> QED BY <2>1 DEF RoomInv
<1> QED BY <1>4, <1>5, <1>6, <1>7 DEF Next

\* The comment of mirath_ggm_tree.h says that experiments suggest a list of
\* twice T_OPEN nodes: the height of the tree, for every repetition, is enough.
\* insert_sorted then never returns -1, which would be taken for a length.
THEOREM NeverFullCorrect ==
  ASSUME NEW h, NEW d \in Nat, IsHeight(h, d), TAU * d <= MAX_OPEN
  PROVE  Spec => []NeverFull
<1>1. Init => RoomInv(h, d)
  <2> SUFFICES ASSUME Init PROVE RoomInv(h, d) OBVIOUS
  <2>1. pc = "expand" /\ Len(path_indexes) = 0 /\ e = 0 /\ node = 0 BY DEF Init
  <2>2. h[node] \in Nat /\ h[node] <= d BY <2>1, TreeSize DEF IsHeight
  <2>3. (e + 1) * d = d BY <2>1
  <2> QED BY <2>1, <2>2, <2>3 DEF RoomInv
<1>2. Inv /\ Inv' /\ RoomInv(h, d) /\ [Next]_vars => RoomInv(h, d)' BY RoomStep
<1>3. RoomInv(h, d) => NeverFull BY DEF RoomInv, NeverFull
<1> QED BY <1>1, <1>2, <1>3, AlwaysInv, PTL DEF Spec
=============================================================================
