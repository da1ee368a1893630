--------------------------- MODULE CROSSSign_proof ---------------------------
(***************************************************************************)
(* What holds of CROSS_sign and CROSS_verify for every layout, challenge,  *)
(* CSPRNG and hash function, as long as the path fits: the invariant of    *)
(* CROSSSignInv beside that of the seed tree, which CROSSSeedTree_proof    *)
(* proves of an honest path and which is taken from there.                 *)
(***************************************************************************)
EXTENDS CROSSSignInv, FiniteSetTheorems, TLAPS

\* The path the signer sent: a padding that is not zero is not part of it.
HonestPath == IF fault = "path" THEN [path EXCEPT ![num_seeds_published] = NoSeed] ELSE path

\* The seed tree with what is proved of it, over that path, which rebuild_tree
\* always accepts.
SP == INSTANCE CROSSSeedTree_proof WITH pc <- s_pc, at <- s_at, queue <- s_queue,
        flags <- s_flags, path <- HonestPath, padding_ok <- (s_pc = "rebuilt")

\* The invariants of the scheme and of its seed tree.
Inv == IInv /\ SP!IInv

-----------------------------------------------------------------------------
(* The constants *)

LEMMA Constants ==
  /\ NoSeed \notin Seed /\ RootSeed \in Seed
  /\ Garbage \notin Digest /\ Garbage # Zero /\ Zero \notin Digest
  /\ HashPair \in [Digest \X Digest -> Digest]
  /\ TREE_NODES_TO_STORE \in Nat
  /\ SP!SeedAssumption
  BY CROSSAssumption DEF Seeds!SeedAssumption, Merkle!DigestAssumption, SP!SeedAssumption,
       Seeds!Nodes, SP!Nodes

\* The seed tree has the layout the rest has.
LEMMA SeedLayout ==
  /\ SP!Nodes = Nodes /\ SP!Rounds = Rounds /\ SP!Levels = Levels
  /\ \A l : SP!Expanded(l) = Expanded(l)
  /\ \A l, k : SP!Node(l, k) = Node(l, k)
  /\ \A n : SP!SIBLING(n) = SIBLING(n)
  /\ \A r : SP!LeafNode(r) = LeafNode(r)
  /\ \A p : /\ SP!Current(p) = Current(p) /\ SP!ParentOf(p) = ParentOf(p)
            /\ SP!Up(p) = Up(p)
  /\ SP!FromLeaves = FromLeaves
  <1>1. SP!Nodes = Nodes /\ SP!Rounds = Rounds /\ SP!Levels = Levels
    BY DEF SP!Nodes, Nodes, SP!Rounds, Rounds, SP!Levels, Levels
  <1>2. \A l : SP!Expanded(l) = Expanded(l)
    BY DEF SP!Expanded, Expanded
  <1>3. \A l, k : SP!Node(l, k) = Node(l, k)
    BY DEF SP!Node, Node
  <1>4. \A n : SP!SIBLING(n) = SIBLING(n)
    BY DEF SP!SIBLING, SIBLING
  <1>5. \A r : SP!LeafNode(r) = LeafNode(r)
    BY DEF SP!LeafNode, LeafNode, SP!RunOf, RunOf, SP!Subroots, Subroots
  <1>6. ASSUME NEW p
        PROVE  /\ SP!Current(p) = Current(p) /\ SP!ParentOf(p) = ParentOf(p)
               /\ SP!Up(p) = Up(p)
    <2>1. SP!Current(p) = Current(p)
      BY DEF SP!Current, Current
    <2>2. \A n, l : SP!FatherNode(n, l) = FatherNode(n, l)
      BY DEF SP!FatherNode, FatherNode, SP!PARENT, PARENT
    <2>3. SP!Up(p) = Up(p)
      BY DEF SP!Up, Up
    <2> QED BY <2>1, <2>2, <2>3 DEF SP!ParentOf, ParentOf
  <1>7. SP!FromLeaves = FromLeaves
    BY DEF SP!FromLeaves, FromLeaves
  <1> QED BY <1>1, <1>2, <1>3, <1>4, <1>5, <1>6, <1>7

\* What CROSSSeedTree_proof assumes of its constants holds here.
LEMMA SeedTables ==
  /\ SP!TablesType /\ SP!LevelStartAssumption /\ SP!LayoutAssumption /\ SP!LeavesAssumption
  /\ SP!FixedWeightAssumption
  <1>1. SP!TablesType
    BY TablesType DEF SP!TablesType, SP!Levels, Levels, SP!Subroots, Subroots
  <1>2. SP!LevelStartAssumption
    BY LevelStartAssumption DEF SP!LevelStartAssumption, SP!Levels, Levels
  <1>3. SP!LayoutAssumption
    BY LayoutAssumption
       DEF SP!LayoutAssumption, SP!Levels, Levels, SP!Expanded, Expanded, SP!LeftChildNode,
           LeftChildNode, SP!LEFT_CHILD, LEFT_CHILD
  <1>4. SP!LeavesAssumption
    <2>1. \A s, n : SP!LeafNode(n) = LeafNode(n) /\ SP!Expanded(s) = Expanded(s)
                   /\ SP!Node(s, n) = Node(s, n)
      BY SeedLayout
    <2> QED BY <2>1, LeavesAssumption, SeedLayout DEF SP!LeavesAssumption
  <1>5. SP!FixedWeightAssumption
    BY FixedWeightAssumption DEF SP!FixedWeightAssumption, SP!Rounds, Rounds
  <1> QED BY <1>1, <1>2, <1>3, <1>4, <1>5

\* The children and the father of a node are where the seed tree has them.
LEMMA SeedFamily ==
  /\ \A n, l : SP!LeftChildNode(n, l) = LeftChildNode(n, l)
  /\ \A n, l : SP!FatherNode(n, l) = FatherNode(n, l)
  BY DEF SP!LeftChildNode, LeftChildNode, SP!LEFT_CHILD, LEFT_CHILD, SP!FatherNode, FatherNode,
         SP!PARENT, PARENT

\* Levels fill the array one after the other: nodes are ordered as the pairs
\* of level and position are.
LEMMA NodeOrder ==
  ASSUME NEW l \in Levels, NEW k \in 0 .. npl[l] - 1,
         NEW m \in Levels, NEW n \in 0 .. npl[m] - 1
  PROVE  /\ Node(l, k) \in Nodes
         /\ Node(l, k) < LevelStart[l] + npl[l]
         /\ Node(l, k) < Node(m, n) <=> l < m \/ (l = m /\ k < n)
         /\ Node(l, k) = Node(m, n) <=> l = m /\ k = n
  BY SeedTables, SeedLayout, SP!NodeOrder

\* The children of an expanded node are where left_child_node says, next to
\* each other, and are nodes of the next level.
LEMMA ChildNode ==
  ASSUME NEW l \in 0 .. LOG2T - 1, NEW k \in 0 .. Expanded(l) - 1
  PROVE  /\ l \in Levels /\ l + 1 \in Levels /\ k \in 0 .. npl[l] - 1
         /\ 2 * k \in 0 .. npl[l + 1] - 1 /\ 2 * k + 1 \in 0 .. npl[l + 1] - 1
         /\ LeftChildNode(Node(l, k), l) = Node(l + 1, 2 * k)
         /\ Node(l + 1, 2 * k + 1) = Node(l + 1, 2 * k) + 1
         /\ Node(l, k) < Node(l + 1, 2 * k)
  <1>1. k \in 0 .. SP!Expanded(l) - 1
    BY SeedLayout
  <1>2. /\ l \in SP!Levels /\ l + 1 \in SP!Levels /\ k \in 0 .. npl[l] - 1
        /\ 2 * k \in 0 .. npl[l + 1] - 1 /\ 2 * k + 1 \in 0 .. npl[l + 1] - 1
        /\ SP!LeftChildNode(SP!Node(l, k), l) = SP!Node(l + 1, 2 * k)
        /\ SP!Node(l + 1, 2 * k + 1) = SP!Node(l + 1, 2 * k) + 1
        /\ SP!Node(l, k) < SP!Node(l + 1, 2 * k)
    BY <1>1, SeedTables, SP!ChildNode
  <1> QED BY <1>2, SeedLayout, SeedFamily

\* father_node is the expanded node of the level before at half the position.
LEMMA ParentNode ==
  ASSUME NEW l \in 1 .. LOG2T, NEW k \in 0 .. npl[l] - 1
  PROVE  /\ l \in Levels /\ l - 1 \in 0 .. LOG2T - 1
         /\ k \div 2 \in 0 .. Expanded(l - 1) - 1
         /\ FatherNode(Node(l, k), l) = Node(l - 1, k \div 2)
         /\ k = 2 * (k \div 2) \/ k = 2 * (k \div 2) + 1
  BY SeedTables, SeedLayout, SeedFamily, SP!ParentNode

\* The levels as numbers, for the steps that only count.
LEMMA LevelFacts ==
  /\ LOG2T \in Nat \ {0} /\ T \in Nat \ {0} /\ 0 \in Levels /\ LOG2T \in Levels
  /\ \A l \in Levels : /\ l \in Nat /\ npl[l] \in Nat \ {0} /\ lpl[l] \in Nat
                       /\ LevelStart[l] \in Nat /\ Expanded(l) \in 0 .. npl[l]
  /\ \A l \in 0 .. LOG2T - 1 :
       /\ l \in Levels /\ l + 1 \in Levels
       /\ LevelStart[l + 1] = LevelStart[l] + npl[l]
       /\ npl[l + 1] = 2 * Expanded(l)
  /\ npl[0] = 1 /\ LevelStart[0] = 0 /\ LevelStart[1] = 1 /\ Expanded(0) = 1
  /\ Expanded(LOG2T) = 0
  /\ LevelStart[LOG2T] + npl[LOG2T] = 2 * T - 1
  /\ leaves_start_indices[1] = LevelStart[LOG2T]
  <1>1. /\ LOG2T \in Nat \ {0} /\ T \in Nat \ {0} /\ 0 \in SP!Levels /\ LOG2T \in SP!Levels
        /\ \A l \in SP!Levels : /\ l \in Nat /\ npl[l] \in Nat \ {0} /\ lpl[l] \in Nat
                                /\ LevelStart[l] \in Nat /\ SP!Expanded(l) \in 0 .. npl[l]
        /\ \A l \in 0 .. LOG2T - 1 :
             /\ l \in SP!Levels /\ l + 1 \in SP!Levels
             /\ LevelStart[l + 1] = LevelStart[l] + npl[l]
             /\ npl[l + 1] = 2 * SP!Expanded(l)
        /\ npl[0] = 1 /\ LevelStart[0] = 0 /\ LevelStart[1] = 1 /\ SP!Expanded(0) = 1
        /\ SP!Expanded(LOG2T) = 0
        /\ LevelStart[LOG2T] + npl[LOG2T] = 2 * T - 1
        /\ leaves_start_indices[1] = LevelStart[LOG2T]
    BY SeedTables, SP!LevelFacts
  <1> QED BY <1>1, SeedLayout

\* Nodes below the root come after it, before the end of the array.
LEMMA NodeBelowRoot ==
  ASSUME NEW l \in 1 .. LOG2T, NEW k \in 0 .. npl[l] - 1
  PROVE  Node(l, k) \in 1 .. 2 * T - 2 /\ T \in Nat /\ l \in Levels
  BY SeedTables, SeedLayout, SP!NodeBelowRoot

\* A leaf is a node that is not expanded.
LEMMA LeafPosition ==
  ASSUME NEW r \in Rounds
  PROVE  \E l \in Levels : \E k \in 0 .. npl[l] - 1 :
           /\ LeafNode(r) = Node(l, k) /\ k \notin 0 .. Expanded(l) - 1
           /\ l # 0 /\ Node(l, k) < 2 * T - 1 /\ LeafNode(r) \in Nodes
  BY SeedTables, SeedLayout, SP!LeafPosition

\* Every node that is not expanded is a leaf.
LEMMA LeafRound ==
  ASSUME NEW l \in Levels, NEW k \in 0 .. npl[l] - 1, l = LOG2T \/ k >= Expanded(l)
  PROVE  \E r \in Rounds : LeafNode(r) = Node(l, k)
  BY SeedTables, SeedLayout, SP!LeafRound

\* The other nodes are expanded.
LEMMA InnerNode ==
  ASSUME NEW l \in Levels, NEW k \in 0 .. npl[l] - 1, ~(l = LOG2T \/ k >= Expanded(l))
  PROVE  l \in 0 .. LOG2T - 1 /\ k \in 0 .. Expanded(l) - 1
  BY SeedTables, SeedLayout, SP!InnerNode

\* The Merkle tree has that layout too.
LEMMA MerkleLayout ==
  /\ Merkle!Nodes = Nodes /\ Merkle!FromLeaves = FromLeaves
  /\ Merkle!Leaves = Leaves /\ Merkle!RoundAt = RoundAt
  /\ \A p : /\ Merkle!Current(p) = Current(p) /\ Merkle!ParentOf(p) = ParentOf(p)
            /\ Merkle!Up(p) = Up(p)
  /\ \A n : Merkle!SIBLING(n) = SIBLING(n)
  <1>1. Merkle!Nodes = Nodes /\ Merkle!Rounds = Rounds
    BY DEF Merkle!Nodes, Nodes, Merkle!Rounds, Rounds
  <1>2. Merkle!FromLeaves = FromLeaves
    BY DEF Merkle!FromLeaves, FromLeaves
  <1>3. \A r : Merkle!LeafNode(r) = LeafNode(r)
    BY DEF Merkle!LeafNode, LeafNode, Merkle!RunOf, RunOf, Merkle!Subroots, Subroots
  <1>4. Merkle!LeafOf = LeafOf
    BY <1>1, <1>3 DEF Merkle!LeafOf, LeafOf
  <1>5. Merkle!Leaves = Leaves
    BY <1>1, <1>4 DEF Merkle!Leaves, Leaves
  <1>6. Merkle!RoundAt = RoundAt
    BY <1>1, <1>4, <1>5 DEF Merkle!RoundAt, RoundAt
  <1>7. ASSUME NEW p
        PROVE  /\ Merkle!Current(p) = Current(p) /\ Merkle!ParentOf(p) = ParentOf(p)
               /\ Merkle!Up(p) = Up(p)
    <2>1. Merkle!Current(p) = Current(p)
      BY DEF Merkle!Current, Current
    <2>2. \A n, l : Merkle!FatherNode(n, l) = FatherNode(n, l)
      BY DEF Merkle!FatherNode, FatherNode, Merkle!PARENT, PARENT
    <2>3. Merkle!Up(p) = Up(p)
      BY DEF Merkle!Up, Up
    <2> QED BY <2>1, <2>2, <2>3 DEF Merkle!ParentOf, ParentOf
  <1>8. \A n : Merkle!SIBLING(n) = SIBLING(n)
    BY DEF Merkle!SIBLING, SIBLING
  <1> QED BY <1>1, <1>2, <1>5, <1>6, <1>7, <1>8

-----------------------------------------------------------------------------
(* Leaves *)

LEMMA LeafFacts ==
  ASSUME NEW r \in Rounds
  PROVE  /\ LeafNode(r) \in Leaves /\ LeafNode(r) \in Nodes
         /\ LeafOf[r] = LeafNode(r) /\ RoundAt[LeafNode(r)] = r
  <1>1. LeafNode(r) \in Leaves /\ LeafOf[r] = LeafNode(r)
    BY DEF Leaves, LeafOf
  <1>2. \A q \in Rounds : LeafOf[q] = LeafNode(r) => q = r
    BY LeavesAssumption DEF LeafOf
  <1>3. (CHOOSE q \in Rounds : LeafOf[q] = LeafNode(r)) = r
    BY <1>1, <1>2
  <1>4. RoundAt[LeafNode(r)] = r
    BY <1>1, <1>3 DEF RoundAt
  <1> QED BY <1>1, <1>4, LeafPosition

\* Expanded nodes are not leaves.
LEMMA InnerIsNoLeaf ==
  ASSUME NEW l \in 0 .. LOG2T - 1, NEW i1 \in 0 .. Expanded(l) - 1
  PROVE  Node(l, i1) \notin Leaves /\ Node(l, i1) \in Nodes
  <1>1. l \in Levels /\ i1 \in 0 .. npl[l] - 1
    BY ChildNode
  <1>2. Node(l, i1) \in Nodes
    BY <1>1, NodeOrder
  <1>3. ASSUME NEW r \in Rounds, LeafNode(r) = Node(l, i1) PROVE FALSE
    <2>1. PICK m \in Levels : \E k \in 0 .. npl[m] - 1 :
            LeafNode(r) = Node(m, k) /\ k \notin 0 .. Expanded(m) - 1
      BY LeafPosition
    <2>2. PICK k \in 0 .. npl[m] - 1 : LeafNode(r) = Node(m, k) /\ k \notin 0 .. Expanded(m) - 1
      BY <2>1
    <2>3. Node(m, k) = Node(l, i1)
      BY <1>3, <2>2
    <2>4. m = l /\ k = i1
      BY <1>1, <2>3, NodeOrder
    <2> QED BY <2>2, <2>4
  <1> QED BY <1>2, <1>3 DEF Leaves, LeafOf

\* A node is a leaf or expanded.
LEMMA NodeKinds ==
  ASSUME NEW l \in Levels, NEW i1 \in 0 .. npl[l] - 1
  PROVE  \/ \E r \in Rounds : Node(l, i1) = LeafNode(r)
         \/ l \in 0 .. LOG2T - 1 /\ i1 \in 0 .. Expanded(l) - 1
  BY LeafRound, InnerNode

\* Where the loops of the Merkle tree begin, nothing is passed.
LEMMA AtLeaves ==
  /\ FromLeaves \in [level : Int, i : Int, start : Int]
  /\ FromLeaves.level = LOG2T /\ FromLeaves.start = LevelStart[LOG2T]
  /\ FromLeaves.i = npl[LOG2T] - 2
  /\ npl[LOG2T] - 2 \in 0 .. npl[LOG2T] - 2 /\ (npl[LOG2T] - 2) % 2 = 0
  /\ LOG2T \in Levels /\ LOG2T > 0
  /\ Current(FromLeaves) = 2 * T - 3
  /\ \A l \in 0 .. LOG2T - 1 : \A i1 \in 0 .. Expanded(l) - 1 :
       ~(Node(l + 1, 2 * i1) > Current(FromLeaves))
  <1>1. /\ LevelStart[LOG2T] + npl[LOG2T] = 2 * T - 1 /\ T \in Nat /\ npl[LOG2T] \in Nat
        /\ LevelStart[LOG2T] \in Nat /\ LOG2T \in Nat \ {0} /\ LOG2T \in Levels
    BY LevelFacts
  <1>2. /\ SP!FromLeaves = [level |-> LOG2T, i |-> npl[LOG2T] - 2, start |-> LevelStart[LOG2T]]
        /\ npl[LOG2T] - 2 \in 0 .. npl[LOG2T] - 2 /\ (npl[LOG2T] - 2) % 2 = 0
    BY SP!Starts, SeedTables, Zenon
  <1>3. /\ FromLeaves = [level |-> LOG2T, i |-> npl[LOG2T] - 2, start |-> LevelStart[LOG2T]]
    BY <1>2, SeedLayout, Zenon
  <1>4. Current(FromLeaves) = 2 * T - 3
    BY <1>1, <1>3 DEF Current
  <1>5. ASSUME NEW l \in 0 .. LOG2T - 1, NEW i1 \in 0 .. Expanded(l) - 1
        PROVE  ~(Node(l + 1, 2 * i1) > 2 * T - 3)
    <2>1. /\ l + 1 \in Levels /\ 2 * i1 \in 0 .. npl[l + 1] - 1 /\ 2 * i1 + 1 \in 0 .. npl[l + 1] - 1
          /\ Node(l + 1, 2 * i1 + 1) = Node(l + 1, 2 * i1) + 1
      BY ChildNode
    <2>2. Node(l + 1, 2 * i1) \in Nodes /\ Node(l + 1, 2 * i1 + 1) \in Nodes
      BY <2>1, NodeOrder
    <2> QED BY <1>1, <2>1, <2>2 DEF Nodes
  <1> QED BY <1>1, <1>2, <1>3, <1>4, <1>5

-----------------------------------------------------------------------------
(* The pair of siblings a loop of the Merkle tree is at *)

LEMMA AtPair == ASSUME TypeOK, PositionInv, m_pc # "start", m_at.level > 0 PROVE SP!AtPair(m_at)
  <1>1. /\ m_at \in [level : Int, i : Int, start : Int] /\ m_at.level \in Levels
        /\ m_at.start = LevelStart[m_at.level]
        /\ m_at.i \in 0 .. npl[m_at.level] - 2 /\ m_at.i % 2 = 0
    BY DEF TypeOK, TreeTypeOK, PositionInv
  <1>2. m_at.level \in 1 .. LOG2T
    BY <1>1, LevelFacts DEF Levels
  <1> QED BY <1>1, <1>2 DEF SP!AtPair

\* The two nodes, their parent and the job that hashes them.
LEMMA PairFacts ==
  ASSUME TypeOK, PositionInv, m_pc # "start", m_at.level > 0,
         NEW l, l = m_at.level, NEW j, j = m_at.i \div 2
  PROVE  /\ l \in 1 .. LOG2T /\ l \in Levels /\ l - 1 \in 0 .. LOG2T - 1 /\ l - 1 \in Levels
         /\ (l - 1) + 1 = l /\ l # l - 1
         /\ j \in 0 .. Expanded(l - 1) - 1 /\ j \in 0 .. npl[l - 1] - 1 /\ m_at.i = 2 * j
         /\ 2 * j \in 0 .. npl[l] - 1 /\ 2 * j + 1 \in 0 .. npl[l] - 1
         /\ Current(m_at) = Node(l, 2 * j) /\ Node(l, 2 * j + 1) = Node(l, 2 * j) + 1
         /\ Merkle!Left = Node(l, 2 * j) /\ Merkle!Right = Node(l, 2 * j + 1)
         /\ Merkle!ParentOf(m_at) = Node(l - 1, j)
         /\ Merkle!Job = [in |-> Node(l, 2 * j), out |-> Node(l - 1, j)]
         /\ Node(l, 2 * j) \in Nodes /\ Node(l, 2 * j + 1) \in Nodes /\ Node(l - 1, j) \in Nodes
         /\ Node(l - 1, j) < Node(l, 2 * j)
  <1>1. SP!AtPair(m_at)
    BY AtPair
  <1>2. /\ l \in 1 .. LOG2T /\ l \in SP!Levels /\ l - 1 \in 0 .. LOG2T - 1
        /\ j \in 0 .. SP!Expanded(l - 1) - 1
        /\ m_at.i = 2 * j
        /\ SP!Current(m_at) = SP!Node(l, m_at.i)
        /\ SP!SIBLING(SP!Current(m_at)) = SP!Node(l, m_at.i + 1)
        /\ SP!ParentOf(m_at) = SP!Node(l - 1, j)
    BY <1>1, SP!UpPosition, SeedTables, Zenon
  <1>3. /\ l \in Levels /\ j \in 0 .. Expanded(l - 1) - 1
        /\ Current(m_at) = Node(l, 2 * j) /\ SIBLING(Current(m_at)) = Node(l, 2 * j + 1)
        /\ ParentOf(m_at) = Node(l - 1, j)
    BY <1>2, SeedLayout, Zenon
  <1>4. (l - 1) + 1 = l /\ l # l - 1 /\ LOG2T \in Nat
    BY <1>2, LevelFacts
  <1>5. /\ l - 1 \in Levels /\ j \in 0 .. npl[l - 1] - 1
        /\ 2 * j \in 0 .. npl[l] - 1 /\ 2 * j + 1 \in 0 .. npl[l] - 1
        /\ Node(l, 2 * j + 1) = Node(l, 2 * j) + 1 /\ Node(l - 1, j) < Node(l, 2 * j)
    BY <1>2, <1>3, <1>4, ChildNode
  <1>6. Node(l, 2 * j) \in Nodes /\ Node(l, 2 * j + 1) \in Nodes /\ Node(l - 1, j) \in Nodes
    BY <1>3, <1>5, NodeOrder
  <1>7. /\ Merkle!Left = Node(l, 2 * j) /\ Merkle!Right = Node(l, 2 * j + 1)
        /\ Merkle!ParentOf(m_at) = Node(l - 1, j)
        /\ Merkle!Job = [in |-> Node(l, 2 * j), out |-> Node(l - 1, j)]
    BY <1>3, MerkleLayout DEF Merkle!Left, Merkle!Right, Merkle!Job
  <1> QED BY <1>2, <1>3, <1>4, <1>5, <1>6, <1>7

\* Where the loop goes on, and what it has passed then.
LEMMA MerkleUp ==
  ASSUME TypeOK, PositionInv, m_pc # "start", m_at.level > 0,
         NEW u, u = Up(m_at), NEW l, l = m_at.level, NEW j, j = m_at.i \div 2
  PROVE  /\ u \in [level : Int, i : Int, start : Int]
         /\ u.level \in Levels /\ u.start = LevelStart[u.level]
         /\ u.level > 0 => u.i \in 0 .. npl[u.level] - 2 /\ u.i % 2 = 0
         /\ u.level = 0 => u.i = -1
         /\ Current(u) = Current(m_at) - 2
         /\ m_at.i > 0 => u.level = m_at.level /\ u.i = m_at.i - 2
         /\ m_at.i = 0 => u.level = m_at.level - 1
         /\ \A m \in 0 .. LOG2T - 1 : \A k \in 0 .. Expanded(m) - 1 :
              Node(m + 1, 2 * k) > Current(u) <=>
                Node(m + 1, 2 * k) > Current(m_at) \/ (m = l - 1 /\ k = j)
  <1>1. SP!AtPair(m_at)
    BY AtPair
  <1> DEFINE v == SP!Up(m_at)
  <1>2. u = v /\ SP!Current(u) = Current(u) /\ SP!Current(m_at) = Current(m_at) /\ SP!Levels = Levels
    BY SeedLayout, Zenon
  <1>3. /\ v \in [level : Int, i : Int, start : Int]
        /\ v.level \in SP!Levels /\ v.start = LevelStart[v.level]
        /\ v.level > 0 => v.i \in 0 .. npl[v.level] - 2 /\ v.i % 2 = 0
        /\ v.level = 0 => v.i = -1
        /\ SP!Current(v) = SP!Current(m_at) - 2
        /\ m_at.i > 0 => v.level = m_at.level /\ v.i = m_at.i - 2
        /\ m_at.i = 0 => v.level = m_at.level - 1
    BY <1>1, SP!UpPosition, SeedTables, Zenon
  <1>4. ASSUME NEW m \in 0 .. LOG2T - 1, NEW k \in 0 .. Expanded(m) - 1
        PROVE  Node(m + 1, 2 * k) > Current(u) <=>
                 Node(m + 1, 2 * k) > Current(m_at) \/ (m = l - 1 /\ k = j)
    <2>1. k \in 0 .. SP!Expanded(m) - 1 /\ SP!Node(m + 1, 2 * k) = Node(m + 1, 2 * k)
      BY SeedLayout, Zenon
    <2>2. SP!Node(m + 1, 2 * k) > SP!Current(v) <=>
            SP!Node(m + 1, 2 * k) > SP!Current(m_at) \/ (m = l - 1 /\ k = j)
      BY <1>1, <2>1, SP!UpPasses, SeedTables, Zenon
    <2> QED BY <1>2, <2>1, <2>2, Zenon
  <1> HIDE DEF v
  <1> QED BY <1>2, <1>3, <1>4, Zenon

-----------------------------------------------------------------------------
(* What the loops of the Merkle tree do *)

\* The pair a loop is at: what can be computed there, and what is missing.
LEMMA PairLabels ==
  ASSUME TypeOK, PositionInv, m_pc # "start", m_at.level > 0,
         NEW l, l = m_at.level, NEW j, j = m_at.i \div 2
  PROVE  /\ Merkle!SomeComputed <=> IsComputed(l, 2 * j) \/ IsComputed(l, 2 * j + 1)
         /\ \/ /\ Merkle!Missing = <<>>
               /\ IsComputed(l, 2 * j) <=> IsComputed(l, 2 * j + 1)
            \/ /\ Merkle!Missing = <<Node(l, 2 * j)>>
               /\ ~IsComputed(l, 2 * j) /\ IsComputed(l, 2 * j + 1)
            \/ /\ Merkle!Missing = <<Node(l, 2 * j + 1)>>
               /\ IsComputed(l, 2 * j) /\ ~IsComputed(l, 2 * j + 1)
  <1>1. /\ Merkle!Left = Node(l, 2 * j) /\ Merkle!Right = Node(l, 2 * j + 1)
        /\ Node(l, 2 * j) \in Nodes /\ Node(l, 2 * j + 1) \in Nodes
    BY PairFacts
  <1>2. /\ flag_tree[Node(l, 2 * j)] \in {Merkle!NOT_COMPUTED, Merkle!COMPUTED}
        /\ flag_tree[Node(l, 2 * j + 1)] \in {Merkle!NOT_COMPUTED, Merkle!COMPUTED}
        /\ Merkle!NOT_COMPUTED # Merkle!COMPUTED
    BY <1>1 DEF TypeOK, TreeTypeOK, Merkle!NOT_COMPUTED, Merkle!COMPUTED
  <1> QED BY <1>1, <1>2 DEF Merkle!SomeComputed, Merkle!Missing, Merkle!LeftMissing,
             Merkle!RightMissing, IsComputed

\* The labels after an iteration.
LEMMA ParentFlag ==
  ASSUME TypeOK, PositionInv, m_pc # "start", m_at.level > 0, Merkle!FlagParent,
         NEW l, l = m_at.level, NEW j, j = m_at.i \div 2
  PROVE  /\ flag_tree' \in [Nodes -> {Merkle!NOT_COMPUTED, Merkle!COMPUTED}]
         /\ flag_tree'[Node(l - 1, j)] = IF Merkle!SomeComputed THEN Merkle!COMPUTED
                                                                 ELSE flag_tree[Node(l - 1, j)]
         /\ \A n \in Nodes : n # Node(l - 1, j) => flag_tree'[n] = flag_tree[n]
  <1>1. Merkle!ParentOf(m_at) = Node(l - 1, j) /\ Node(l - 1, j) \in Nodes
    BY PairFacts
  <1> QED BY <1>1 DEF Merkle!FlagParent, TypeOK, TreeTypeOK

HashJobs == Append(m_queue, Merkle!Job)

LEMMA HashUpStep ==
  ASSUME Merkle!HashUp
  PROVE  /\ m_pc = "tree_root" /\ m_pc' = m_pc /\ m_at.level > 0 /\ m_at' = Up(m_at)
         /\ tree' = IF Merkle!Flush(HashJobs) THEN Merkle!RunBatch(tree, HashJobs) ELSE tree
         /\ m_queue' = IF Merkle!Flush(HashJobs) THEN <<>> ELSE HashJobs
         /\ UNCHANGED <<leaves_to_reveal, flag_tree, proof, proof_nodes, published,
                        recomputed_tree, m_padding_ok>>
  BY MerkleLayout DEF Merkle!HashUp, HashJobs

LEMMA ProveUpStep ==
  ASSUME Merkle!ProveUp
  PROVE  /\ m_pc = "tree_proof" /\ m_pc' = m_pc /\ m_at.level > 0 /\ m_at' = Up(m_at)
         /\ Merkle!FlagParent
         /\ proof' = IF Merkle!Missing = <<>>
                       THEN proof ELSE [proof EXCEPT ![published] = tree[Merkle!Missing[1]]]
         /\ proof_nodes' = proof_nodes \o Merkle!Missing
         /\ published' = published + Len(Merkle!Missing)
         /\ UNCHANGED <<m_queue, tree, leaves_to_reveal, recomputed_tree, m_padding_ok>>
  BY MerkleLayout DEF Merkle!ProveUp

\* The verifier's tree with the digest that is missing, and its queue before
\* it looks whether to flush it.
Placed == IF Merkle!Missing = <<>> THEN recomputed_tree
          ELSE [recomputed_tree EXCEPT ![Merkle!Missing[1]] = Merkle!Stored(published)]
RecomputeJobs == IF Merkle!SomeComputed THEN HashJobs ELSE m_queue

LEMMA RecomputeUpStep ==
  ASSUME Merkle!RecomputeUp
  PROVE  /\ m_pc = "recompute_root" /\ m_pc' = m_pc /\ m_at.level > 0 /\ m_at' = Up(m_at)
         /\ Merkle!FlagParent
         /\ recomputed_tree' = IF Merkle!Flush(RecomputeJobs)
                                 THEN Merkle!RunBatch(Placed, RecomputeJobs) ELSE Placed
         /\ m_queue' = IF Merkle!Flush(RecomputeJobs) THEN <<>> ELSE RecomputeJobs
         /\ published' = published + Len(Merkle!Missing)
         /\ UNCHANGED <<tree, leaves_to_reveal, proof, proof_nodes, m_padding_ok>>
  BY MerkleLayout DEF Merkle!RecomputeUp, Placed, RecomputeJobs, HashJobs

\* Where a loop ends nothing but m_pc, and perhaps m_padding_ok, changes.
LEMMA DoneStep ==
  ASSUME Merkle!RootDone \/ Merkle!ProofDone \/ Merkle!RecomputeDone
  PROVE  /\ m_at.level = 0
         /\ \/ m_pc = "tree_root" /\ m_pc' = "root" /\ UNCHANGED m_padding_ok
            \/ m_pc = "tree_proof" /\ m_pc' = "proof" /\ UNCHANGED m_padding_ok
            \/ /\ m_pc = "recompute_root" /\ m_pc' = "recomputed"
               /\ m_padding_ok' = Merkle!PaddingIsZero
         /\ UNCHANGED <<m_at, m_queue, tree, leaves_to_reveal, flag_tree, proof, proof_nodes,
                        published, recomputed_tree>>
  BY DEF Merkle!RootDone, Merkle!ProofDone, Merkle!RecomputeDone

\* A tree with one digest per round on its leaves.
LEMMA LeafValues ==
  ASSUME NEW t \in [Nodes -> Contents], NEW values \in [Rounds -> Digest \union {Zero}]
  PROVE  /\ Merkle!WithLeaves(t, values) \in [Nodes -> Contents]
         /\ \A r \in Rounds : Merkle!WithLeaves(t, values)[LeafNode(r)] = values[r]
  <1>1. Merkle!WithLeaves(t, values)
          = [n \in Nodes |-> IF n \in Leaves THEN values[RoundAt[n]] ELSE t[n]]
    BY MerkleLayout DEF Merkle!WithLeaves
  <1>2. ASSUME NEW n \in Leaves PROVE values[RoundAt[n]] \in Contents
    <2>1. PICK r \in Rounds : n = LeafNode(r)
      BY DEF Leaves, LeafOf
    <2> QED BY <2>1, LeafFacts DEF Contents
  <1> QED BY <1>1, <1>2, LeafFacts

\* The labels of the leaves.
LEMMA LeafLabels ==
  ASSUME NEW ch \in Challenges
  PROVE  /\ Merkle!label_leaves(ch) \in [Nodes -> {Merkle!NOT_COMPUTED, Merkle!COMPUTED}]
         /\ \A r \in Rounds : Merkle!label_leaves(ch)[LeafNode(r)] = Merkle!COMPUTED <=> ch[r] = 0
         /\ \A l \in 0 .. LOG2T - 1 : \A i1 \in 0 .. Expanded(l) - 1 :
              Merkle!label_leaves(ch)[Node(l, i1)] = Merkle!NOT_COMPUTED
         /\ Merkle!NOT_COMPUTED # Merkle!COMPUTED
  <1>1. Merkle!label_leaves(ch)
          = [n \in Nodes |-> IF n \in Leaves /\ ch[RoundAt[n]] = 0 THEN Merkle!COMPUTED
                                                                  ELSE Merkle!NOT_COMPUTED]
    BY MerkleLayout DEF Merkle!label_leaves, Merkle!CHALLENGE_PROOF_VALUE
  <1> QED BY <1>1, LeafFacts, InnerIsNoLeaf DEF Merkle!NOT_COMPUTED, Merkle!COMPUTED

-----------------------------------------------------------------------------
(* The seed tree *)

\* The steps of the seed tree as TreeStep takes them.
SeedMove == /\ Seeds!Steps
            /\ UNCHANGED merkle /\ UNCHANGED <<rounds, pc, chall_2, signed, fault, verdict>>

\* Building the tree and labelling it does not look at the path.
LEMMA SeedActions ==
  ASSUME UNCHANGED fault
  PROVE  /\ Seeds!GenNode => SP!GenNode
         /\ Seeds!GenDone => SP!GenDone
         /\ Seeds!FlagParent => SP!FlagParent
         /\ Seeds!FlagsDone => SP!FlagsDone
         /\ Seeds!PathDone => SP!PathDone
         /\ Seeds!CallRebuild => SP!CallRebuild
         /\ \A ch : Seeds!Open(ch) => SP!Open(ch)
  <1>1. ASSUME UNCHANGED <<path, num_seeds_published, path_nodes>>
        PROVE  UNCHANGED <<HonestPath, num_seeds_published, path_nodes>>
    BY <1>1 DEF HonestPath
  <1>2. Seeds!GenNode => SP!GenNode
    BY <1>1 DEF Seeds!GenNode, SP!GenNode, Seeds!Job, SP!Job, Seeds!Current, SP!Current,
         Seeds!LeftChildNode, SP!LeftChildNode, Seeds!LEFT_CHILD, SP!LEFT_CHILD,
         Seeds!Flush, SP!Flush, Seeds!RunBatch, SP!RunBatch, Seeds!Children, SP!Children,
         Seeds!BATCH, SP!BATCH, Seeds!Expanded, SP!Expanded, Seeds!Down, SP!Down,
         Seeds!Nodes, SP!Nodes, Seeds!labels, SP!labels, Seeds!stored, SP!stored,
         Seeds!verifier, SP!verifier
  <1>3. Seeds!GenDone => SP!GenDone
    BY <1>1 DEF Seeds!GenDone, SP!GenDone, Seeds!seed_leaves, SP!seed_leaves, Seeds!Rounds,
         SP!Rounds, Seeds!LeafOf, SP!LeafOf, Seeds!LeafNode, SP!LeafNode, Seeds!RunOf, SP!RunOf,
         Seeds!Subroots, SP!Subroots,
         Seeds!labels, SP!labels, Seeds!stored, SP!stored, Seeds!verifier, SP!verifier
  <1>4. Seeds!FlagParent => SP!FlagParent
    BY <1>1 DEF Seeds!FlagParent, SP!FlagParent, Seeds!ParentOf, SP!ParentOf, Seeds!FatherNode,
         SP!FatherNode, Seeds!PARENT, SP!PARENT, Seeds!Current, SP!Current, Seeds!Up, SP!Up,
         Seeds!BothToPublish, SP!BothToPublish, Seeds!SIBLING, SP!SIBLING,
         Seeds!TO_PUBLISH, SP!TO_PUBLISH, Seeds!NOT_TO_PUBLISH, SP!NOT_TO_PUBLISH,
         Seeds!signer, SP!signer, Seeds!stored, SP!stored, Seeds!verifier, SP!verifier
  <1>5. Seeds!FlagsDone => SP!FlagsDone
    BY <1>1 DEF Seeds!FlagsDone, SP!FlagsDone, Seeds!FromRoot, SP!FromRoot, Seeds!signer,
         SP!signer, Seeds!labels, SP!labels, Seeds!stored, SP!stored, Seeds!verifier, SP!verifier
  <1>6. Seeds!PathDone => SP!PathDone
    BY <1>1 DEF Seeds!PathDone, SP!PathDone, Seeds!signer, SP!signer, Seeds!labels, SP!labels,
         Seeds!stored, SP!stored, Seeds!verifier, SP!verifier
  <1>7. ASSUME NEW ch
        PROVE  Seeds!StartFlags(ch) => SP!StartFlags(ch)
    BY DEF Seeds!StartFlags, SP!StartFlags, Seeds!WithLeaves, SP!WithLeaves, Seeds!Nodes, SP!Nodes,
         Seeds!NOT_TO_PUBLISH, SP!NOT_TO_PUBLISH, Seeds!FromLeaves, SP!FromLeaves,
         Seeds!Leaves, SP!Leaves, Seeds!RoundAt, SP!RoundAt, Seeds!LeafOf, SP!LeafOf,
         Seeds!Rounds, SP!Rounds, Seeds!LeafNode, SP!LeafNode, Seeds!RunOf, SP!RunOf,
         Seeds!Subroots, SP!Subroots
  <1>8. Seeds!CallRebuild => SP!CallRebuild
    BY <1>1, <1>7 DEF Seeds!CallRebuild, SP!CallRebuild, Seeds!signer, SP!signer,
         Seeds!stored, SP!stored, Seeds!verifier, SP!verifier
  <1>9. ASSUME NEW ch
        PROVE  Seeds!Open(ch) => SP!Open(ch)
    BY <1>1, <1>7 DEF Seeds!Open, SP!Open, Seeds!signer, SP!signer, Seeds!stored, SP!stored,
         Seeds!verifier, SP!verifier
  <1> QED BY <1>2, <1>3, <1>4, <1>5, <1>6, <1>8, <1>9

\* seed_path writes the path before there is anything wrong with it.
LEMMA ScanAction ==
  ASSUME FlowInv, FaultInv, SeedMove, Seeds!ScanNode
  PROVE  SP!ScanNode
  <1>1. s_pc = "seed_path" /\ pc = "sign_responses" /\ fault = "none" /\ fault' = "none"
    BY DEF FlowInv, FaultInv, Sent, SeedMove, Seeds!ScanNode
  <1>2. HonestPath = path /\ HonestPath' = path'
    BY <1>1 DEF HonestPath
  <1> QED BY <1>1, <1>2 DEF Seeds!ScanNode, SP!ScanNode, Seeds!Published, SP!Published,
        Seeds!Current, SP!Current, Seeds!ParentOf, SP!ParentOf, Seeds!FatherNode,
        SP!FatherNode, Seeds!PARENT, SP!PARENT, Seeds!Down, SP!Down, Seeds!TO_PUBLISH,
        SP!TO_PUBLISH, Seeds!NOT_TO_PUBLISH, SP!NOT_TO_PUBLISH, Seeds!signer, SP!signer,
        Seeds!labels, SP!labels, Seeds!stored, SP!stored, Seeds!verifier, SP!verifier

\* rebuild_tree takes from the path what the signer put there.
LEMMA HonestSeed ==
  ASSUME TypeOK, SP!IInv, s_pc = "rebuild_tree", s_at.level <= LOG2T,
         s_at' = SP!Down(s_at, npl[s_at.level]), SP!Published
  PROVE  Seeds!StoredSeed(nodes_used) = SP!StoredSeed(nodes_used)
  <1>1. /\ SP!TypeOK /\ SP!PositionInv /\ SP!Scanning /\ SP!Fits /\ SP!PathInv
        /\ SP!UsedUpTo(SP!Current(s_at))
    BY DEF SP!IInv, SP!Scanning, SP!RebuildInv
  <1>2. /\ s_at.level \in 1 .. LOG2T /\ s_at.i \in 0 .. npl[s_at.level] - 1
        /\ SP!Current(s_at) = SP!Node(s_at.level, s_at.i)
    BY <1>1, SP!ScanPosition, SeedTables, Zenon
  <1>3. SP!Topmost(s_flags, s_at.level, s_at.i)
    BY <1>1, SP!PublishedNode, SeedTables, Zenon
  <1>4. nodes_used + 1 <= Len(path_nodes)
    BY <1>1, <1>2, <1>3, Constants, SP!NextStoredSeed, SeedTables, Zenon
  <1>5. nodes_used \in Nat /\ num_seeds_published = Len(path_nodes) /\ num_seeds_published \in Nat
    BY <1>1 DEF SP!TypeOK, SP!PathInv
  <1>6. nodes_used # num_seeds_published
    BY <1>4, <1>5
  <1>7. Seeds!Slots = SP!Slots /\ path \in [Seeds!Slots -> Seed \union {NoSeed}]
    BY DEF TypeOK, Seeds!Slots, SP!Slots
  <1>8. ASSUME NEW k \in SP!Slots, k # num_seeds_published PROVE HonestPath[k] = path[k]
    BY <1>7, <1>8 DEF HonestPath
  <1> QED BY <1>6, <1>7, <1>8 DEF Seeds!StoredSeed, SP!StoredSeed

LEMMA RebuildAction ==
  ASSUME TypeOK, SP!IInv, UNCHANGED fault, Seeds!RebuildNode
  PROVE  SP!RebuildNode
  <1>1. /\ s_pc = "rebuild_tree" /\ s_at.level <= LOG2T /\ UNCHANGED <<path, num_seeds_published>>
        /\ s_at' = SP!Down(s_at, npl[s_at.level])
    BY DEF Seeds!RebuildNode, Seeds!stored, Seeds!Down, SP!Down
  <1>2. HonestPath' = HonestPath
    BY <1>1 DEF HonestPath
  <1>3. Seeds!Published = SP!Published /\ Seeds!Current(s_at) = SP!Current(s_at)
    BY DEF Seeds!Published, SP!Published, Seeds!Current, SP!Current, Seeds!ParentOf, SP!ParentOf,
         Seeds!FatherNode, SP!FatherNode, Seeds!PARENT, SP!PARENT, Seeds!TO_PUBLISH,
         SP!TO_PUBLISH, Seeds!NOT_TO_PUBLISH, SP!NOT_TO_PUBLISH
  <1>4. SP!Published => Seeds!StoredSeed(nodes_used) = SP!StoredSeed(nodes_used)
    BY <1>1, HonestSeed
  <1> DEFINE placed == IF SP!Published
                         THEN [rebuilt_tree EXCEPT ![SP!Current(s_at)] = SP!StoredSeed(nodes_used)]
                         ELSE rebuilt_tree
             joined(t) == IF s_flags[SP!Current(s_at)] = SP!TO_PUBLISH
                                /\ s_at.i < SP!Expanded(s_at.level)
                               THEN Append(s_queue, SP!Job(t)) ELSE s_queue
  <1>5. /\ rebuilt_tree' = IF SP!Flush(joined(placed)) THEN SP!RunBatch(placed, joined(placed))
                                                       ELSE placed
        /\ s_queue' = IF SP!Flush(joined(placed)) THEN <<>> ELSE joined(placed)
    <2>1. placed = IF Seeds!Published
                     THEN [rebuilt_tree EXCEPT ![Seeds!Current(s_at)] = Seeds!StoredSeed(nodes_used)]
                     ELSE rebuilt_tree
      BY <1>3, <1>4
    <2>2. ASSUME NEW t
          PROVE  joined(t) = IF s_flags[Seeds!Current(s_at)] = Seeds!TO_PUBLISH
                                   /\ s_at.i < Seeds!Expanded(s_at.level)
                                  THEN Append(s_queue, Seeds!Job(t)) ELSE s_queue
      BY DEF Seeds!Job, SP!Job, Seeds!Current, SP!Current, Seeds!LeftChildNode,
           SP!LeftChildNode, Seeds!LEFT_CHILD, SP!LEFT_CHILD, Seeds!Expanded, SP!Expanded,
           Seeds!TO_PUBLISH, SP!TO_PUBLISH
    <2>3. ASSUME NEW q, NEW t
          PROVE  SP!Flush(q) = Seeds!Flush(q) /\ SP!RunBatch(t, q) = Seeds!RunBatch(t, q)
      BY DEF Seeds!Flush, SP!Flush, Seeds!RunBatch, SP!RunBatch, Seeds!Children, SP!Children,
           Seeds!BATCH, SP!BATCH, Seeds!Expanded, SP!Expanded, Seeds!Nodes, SP!Nodes
    <2> HIDE DEF placed, joined
    <2> QED BY <2>1, <2>2, <2>3 DEF Seeds!RebuildNode
  <1>6. /\ nodes_used' = IF SP!Published THEN nodes_used + 1 ELSE nodes_used
        /\ UNCHANGED <<s_pc, seed_tree, round_seeds, indices_to_publish, s_flags,
                       num_seeds_published, path_nodes, rebuilt_seeds>>
    BY <1>3 DEF Seeds!RebuildNode, Seeds!signer, Seeds!labels, Seeds!stored
  <1> QED BY <1>1, <1>2, <1>5, <1>6 DEF SP!RebuildNode, SP!signer, SP!labels, SP!stored

\* When rebuild_tree is through it has used all of the path, so that the rest
\* of the path is what the verifier finds to be zero or not.
LEMMA AllSeedsUsed ==
  ASSUME SP!IInv, s_pc = "rebuild_tree", s_at.level > LOG2T
  PROVE  nodes_used = num_seeds_published
  <1>1. /\ SP!TypeOK /\ SP!PositionInv /\ SP!PathInv /\ SP!Scanning
        /\ SP!UsedUpTo(SP!Current(s_at)) /\ SP!PathOf(s_flags)
    BY DEF SP!IInv, SP!Scanning, SP!RebuildInv, SP!PathInv
  <1>2. SP!Current(s_at) = 2 * T - 1
    <2>1. s_at.i = 0 /\ s_at.start = 2 * T - 1 /\ T \in Nat
      BY <1>1, LevelFacts DEF SP!PositionInv
    <2> QED BY <2>1 DEF SP!Current
  <1>3. SP!UsedUpTo(2 * T - 1)
    BY <1>1, <1>2
  <1> QED BY <1>1, <1>3, SP!AllUsed, SeedTables, Zenon

LEMMA RebuildDoneAction ==
  ASSUME SP!IInv, UNCHANGED fault, Seeds!RebuildDone
  PROVE  SP!RebuildDone
  <1>1. s_pc = "rebuild_tree" /\ s_at.level > LOG2T /\ UNCHANGED <<path, num_seeds_published>>
    BY DEF Seeds!RebuildDone, Seeds!stored
  <1>2. HonestPath' = HonestPath
    BY <1>1 DEF HonestPath
  <1>3. SP!PaddingIsZero
    <2>1. nodes_used = num_seeds_published /\ SP!PathInv
      BY <1>1, AllSeedsUsed DEF SP!IInv
    <2> QED BY <2>1 DEF SP!PathInv, SP!PaddingIsZero
  <1>4. rebuilt_seeds' = SP!seed_leaves(rebuilt_tree) /\ s_pc' = "rebuilt"
    BY DEF Seeds!RebuildDone, Seeds!seed_leaves, SP!seed_leaves, Seeds!Rounds,
         SP!Rounds, Seeds!LeafOf, SP!LeafOf, Seeds!LeafNode, SP!LeafNode, Seeds!RunOf, SP!RunOf,
         Seeds!Subroots, SP!Subroots
  <1> QED BY <1>1, <1>2, <1>3, <1>4
          DEF Seeds!RebuildDone, SP!RebuildDone, Seeds!signer, SP!signer, Seeds!labels,
              SP!labels, Seeds!stored, SP!stored

\* A padding that is not zero does not change the honest path.
LEMMA SendPath ==
  ASSUME TypeOK, FaultInv, SP!IInv, Send
  PROVE  HonestPath' = HonestPath
  <1>1. /\ pc = "send" /\ fault = "none" /\ UNCHANGED num_seeds_published
        /\ path' = IF fault' = "path" THEN [path EXCEPT ![num_seeds_published] = RootSeed] ELSE path
        /\ fault' = "path" => num_seeds_published < TREE_NODES_TO_STORE
    BY DEF Send, FaultInv
  <1>2. HonestPath = path
    BY <1>1 DEF HonestPath
  <1>3. CASE fault' # "path"
    BY <1>1, <1>2, <1>3 DEF HonestPath
  <1>4. CASE fault' = "path"
    <2>1. path \in [Seeds!Slots -> Seed \union {NoSeed}] /\ num_seeds_published \in Nat
      BY DEF TypeOK, SP!IInv, SP!TypeOK
    <2>2. num_seeds_published \in Seeds!Slots
      BY <1>1, <1>4, <2>1, Constants DEF Seeds!Slots
    <2>3. path[num_seeds_published] = NoSeed
      BY <1>2, <2>1, <2>2 DEF SP!IInv, SP!PathInv, Seeds!Slots, SP!Slots
    <2>4. HonestPath' = [path' EXCEPT ![num_seeds_published] = NoSeed]
      BY <1>1, <1>4 DEF HonestPath
    <2> QED BY <1>1, <1>2, <1>4, <2>1, <2>2, <2>3, <2>4
  <1> QED BY <1>3, <1>4

\* Every step of the scheme is one of its seed tree, or leaves it alone.
LEMMA SeedNext ==
  ASSUME TypeOK, FlowInv, FaultInv, SP!IInv, [Next]_vars
  PROVE  [SP!Next]_(SP!vars)
  <1>1. CASE SeedMove
    <2>1. UNCHANGED fault
      BY <1>1 DEF SeedMove
    <2>2. SP!Steps
      BY <1>1, <2>1, SeedActions, ScanAction, RebuildAction, RebuildDoneAction
         DEF SeedMove, Seeds!Steps, SP!Steps
    <2> QED BY <2>2 DEF SP!Next
  <1>2. CASE SignPath
    <2>1. UNCHANGED fault /\ Seeds!Open(chall_2) /\ chall_2 \in Challenges
      BY <1>2 DEF SignPath, FlowInv
    <2> QED BY <2>1, SeedActions DEF SP!Next
  <1>3. CASE VerifySeeds
    <2>1. UNCHANGED fault /\ Seeds!CallRebuild
      BY <1>3 DEF VerifySeeds
    <2> QED BY <2>1, SeedActions DEF SP!Next
  <1>4. ASSUME UNCHANGED <<s_pc, s_at, s_queue, seed_tree, round_seeds, indices_to_publish,
                           s_flags, num_seeds_published, path_nodes, rebuilt_tree, nodes_used,
                           rebuilt_seeds>>,
               HonestPath' = HonestPath
        PROVE  UNCHANGED SP!vars
    BY <1>4 DEF SP!vars, SP!signer, SP!labels, SP!stored, SP!verifier
  <1>5. CASE Send
    BY <1>4, <1>5, SendPath DEF Send
  <1>6. ASSUME UNCHANGED seeds, UNCHANGED fault PROVE UNCHANGED SP!vars
    BY <1>4, <1>6 DEF seeds, HonestPath
  <1>7. CASE \/ SignRound \/ SignRoot \/ SignProof \/ SignResponse \/ SignDone
             \/ VerifySeedRound \/ VerifyResponseRound \/ VerifyRoot \/ Compare
    BY <1>6, <1>7 DEF SignRound, SignRoot, SignProof, SignResponse, SignDone, VerifySeedRound,
         VerifyResponseRound, VerifyRoot, Compare
  <1>8. CASE TreeStep /\ UNCHANGED seeds
    BY <1>6, <1>8 DEF TreeStep
  <1>9. CASE UNCHANGED vars
    BY <1>6, <1>9 DEF vars
  <1> QED BY <1>1, <1>2, <1>3, <1>5, <1>7, <1>8, <1>9 DEF Next, TreeStep, SeedMove

\* So the seed tree keeps its invariant.
LEMMA SeedStep ==
  ASSUME TypeOK, FlowInv, FaultInv, SP!IInv, Fits', [Next]_vars
  PROVE  SP!IInv'
  <1>1. [SP!Next]_(SP!vars) /\ SP!SeedAssumption /\ SP!Fits'
    BY SeedNext, Constants DEF Fits, SP!Fits
  <1> QED BY <1>1, SeedTables, SP!TypeStep, SP!PositionStep, SP!QueueStep, SP!BuildStep,
             SP!FlagsStep, SP!PathStep, SP!AgreeStep, SP!RebuildStep DEF SP!IInv

\* What the scheme takes from its seed tree: the seeds of the signer, and of
\* the rounds with challenge 1 those of the verifier.
LEMMA SignerSeeds ==
  ASSUME SP!IInv, s_pc # "gen_seed_tree"
  PROVE  round_seeds \in [Rounds -> Seed]
  BY Constants, SP!SignerRounds, SeedTables, SeedLayout DEF SP!SignerHasSeeds

LEMMA VerifierSeeds ==
  ASSUME FlowInv, SP!IInv, s_pc = "rebuilt", NEW r \in Rounds, chall_2[r] = 1
  PROVE  rebuilt_seeds[r] = round_seeds[r]
  <1>1. SP!VerifierHasOpened /\ indices_to_publish = chall_2 /\ SP!Rounds = Rounds
    BY SP!VerifierRounds, SeedTables, SeedLayout DEF FlowInv
  <1> QED BY <1>1 DEF SP!VerifierHasOpened, SP!OpenedRounds, SP!TO_PUBLISH

-----------------------------------------------------------------------------
(* The steps *)

MerkleMove == /\ Merkle!Steps
              /\ UNCHANGED seeds /\ UNCHANGED <<rounds, pc, chall_2, signed, fault, verdict>>

LEMMA Moves ==
  [Next]_vars =>
    \/ SeedMove \/ MerkleMove
    \/ SignRound \/ SignRoot \/ SignProof \/ SignPath \/ SignResponse \/ SignDone \/ Send
    \/ VerifySeeds \/ VerifySeedRound \/ VerifyResponseRound \/ VerifyRoot \/ Compare
    \/ UNCHANGED vars
  BY DEF Next, TreeStep, SeedMove, MerkleMove

\* What the steps of a tree leave alone.
LEMMA SeedFrame ==
  ASSUME SeedMove
  PROVE  /\ UNCHANGED merkle
         /\ UNCHANGED <<i, queue0, queue1, cmt_0, cmt_1, y, used_rsps, pc, chall_2, signed, fault,
                        verdict>>
         /\ UNCHANGED indices_to_publish
         /\ s_pc # "gen_seed_tree" => UNCHANGED round_seeds
         /\ s_pc # "seed_path" => UNCHANGED <<path, num_seeds_published, path_nodes>>
         /\ s_pc \notin {"seed_path_flags", "rebuild_flags"} => UNCHANGED s_flags
         /\ ~Seeds!RebuildDone => s_pc' # "rebuilt"
         /\ s_pc \notin {"generated", "published", "rebuilt"}
  BY DEF SeedMove, rounds, Seeds!Steps, Seeds!GenNode, Seeds!GenDone, Seeds!FlagParent,
         Seeds!FlagsDone, Seeds!ScanNode, Seeds!PathDone, Seeds!RebuildNode, Seeds!RebuildDone,
         Seeds!signer, Seeds!labels, Seeds!stored

LEMMA MerkleFrame ==
  ASSUME MerkleMove
  PROVE  /\ UNCHANGED seeds
         /\ UNCHANGED <<i, queue0, queue1, cmt_0, cmt_1, y, used_rsps, pc, chall_2, signed, fault,
                        verdict>>
         /\ UNCHANGED leaves_to_reveal
         /\ m_pc \in {"tree_root", "tree_proof", "recompute_root"}
         /\ m_pc # "tree_root" => UNCHANGED tree
         /\ m_pc # "tree_proof" => UNCHANGED <<proof, proof_nodes>>
         /\ m_pc # "recompute_root" => UNCHANGED <<recomputed_tree, m_padding_ok>>
  BY DEF MerkleMove, rounds, Merkle!Steps, Merkle!HashUp, Merkle!RootDone, Merkle!ProveUp,
         Merkle!ProofDone, Merkle!RecomputeUp, Merkle!RecomputeDone

LEMMA FlowStep ==
  ASSUME FlowInv, SP!IInv, [Next]_vars
  PROVE  FlowInv'
  <1>0. T \in Nat \ {0}
    BY LevelFacts
  <1>1. CASE SeedMove
    <2>1. UNCHANGED <<i, pc, m_pc, chall_2, leaves_to_reveal, indices_to_publish>>
      BY <1>1 DEF SeedMove, merkle, rounds, Seeds!Steps, Seeds!GenNode, Seeds!GenDone, Seeds!FlagParent,
           Seeds!FlagsDone, Seeds!ScanNode, Seeds!PathDone, Seeds!RebuildNode, Seeds!RebuildDone,
           Seeds!labels
    <2>2. \/ s_pc' = s_pc /\ s_pc \in {"gen_seed_tree", "seed_path_flags", "seed_path", "rebuild_flags",
                                       "rebuild_tree"}
          \/ s_pc = "gen_seed_tree" /\ s_pc' = "generated"
          \/ s_pc = "seed_path_flags" /\ s_pc' = "seed_path"
          \/ s_pc = "seed_path" /\ s_pc' = "published"
          \/ s_pc = "rebuild_flags" /\ s_pc' = "rebuild_tree"
          \/ s_pc = "rebuild_tree" /\ s_pc' = "rebuilt"
      BY <1>1 DEF SeedMove, Seeds!Steps, Seeds!GenNode, Seeds!GenDone, Seeds!FlagParent,
           Seeds!FlagsDone, Seeds!ScanNode, Seeds!PathDone, Seeds!RebuildNode, Seeds!RebuildDone
    <2> QED BY <2>1, <2>2 DEF FlowInv
  <1>2. CASE MerkleMove
    <2>1. UNCHANGED <<i, pc, s_pc, chall_2, leaves_to_reveal, indices_to_publish>>
      BY <1>2 DEF MerkleMove, seeds, rounds, Merkle!Steps, Merkle!HashUp, Merkle!RootDone, Merkle!ProveUp,
           Merkle!ProofDone, Merkle!RecomputeUp, Merkle!RecomputeDone
    <2>2. \/ m_pc' = m_pc
          \/ m_pc = "tree_root" /\ m_pc' = "root"
          \/ m_pc = "tree_proof" /\ m_pc' = "proof"
          \/ m_pc = "recompute_root" /\ m_pc' = "recomputed"
      BY <1>2 DEF MerkleMove, Merkle!Steps, Merkle!HashUp, Merkle!RootDone, Merkle!ProveUp,
           Merkle!ProofDone, Merkle!RecomputeUp, Merkle!RecomputeDone
    <2> QED BY <2>1, <2>2 DEF FlowInv
  <1>3. CASE SignRound
    BY <1>0, <1>3 DEF SignRound, FlowInv, seeds, merkle
  <1>4. CASE SignRoot
    BY <1>0, <1>4 DEF SignRoot, Merkle!CallTreeRoot, FlowInv, seeds, rounds
  <1>5. CASE SignProof
    BY <1>5 DEF SignProof, Merkle!CallTreeProof, FlowInv, seeds, rounds
  <1>6. CASE SignPath
    BY <1>0, <1>6 DEF SignPath, Seeds!Open, FlowInv, merkle
  <1>7. CASE SignResponse
    BY <1>0, <1>7 DEF SignResponse, FlowInv, merkle, seeds
  <1>8. CASE SignDone
    BY <1>0, <1>8 DEF SignDone, FlowInv, merkle, seeds, rounds
  <1>9. CASE Send
    BY <1>9 DEF Send, FlowInv, rounds
  <1>10. CASE VerifySeeds
    BY <1>0, <1>10 DEF VerifySeeds, Seeds!CallRebuild, FlowInv, merkle
  <1>11. CASE VerifySeedRound
    BY <1>0, <1>11 DEF VerifySeedRound, FlushQueues, FlowInv, seeds, merkle
  <1>12. CASE VerifyResponseRound
    BY <1>0, <1>12 DEF VerifyResponseRound, FlushQueues, FlowInv, seeds, merkle
  <1>13. CASE VerifyRoot
    BY <1>0, <1>13 DEF VerifyRoot, Merkle!CallRecomputeRoot, FlowInv, seeds, rounds, merkle
  <1>14. CASE Compare
    BY <1>14 DEF Compare, FlowInv, seeds, merkle, rounds
  <1>15. CASE UNCHANGED vars
    BY <1>15 DEF vars, seeds, merkle, rounds, FlowInv
  <1> QED BY <1>1, <1>2, <1>3, <1>4, <1>5, <1>6, <1>7, <1>8, <1>9, <1>10, <1>11, <1>12, <1>13,
             <1>14, <1>15, Moves

\* What the verifier finds of the padding when it has rebuilt the tree.
LEMMA SeedPadding ==
  ASSUME TypeOK, FaultInv, SP!IInv, s_pc = "rebuild_tree", s_at.level > LOG2T
  PROVE  Seeds!PaddingIsZero <=> fault # "path"
  <1>1. nodes_used = num_seeds_published /\ num_seeds_published \in Nat /\ Seeds!Slots = SP!Slots
    BY AllSeedsUsed DEF SP!IInv, SP!TypeOK, Seeds!Slots, SP!Slots
  <1>2. \A k \in Seeds!Slots : k >= num_seeds_published => HonestPath[k] = NoSeed
    BY <1>1 DEF SP!IInv, SP!PathInv
  <1>3. CASE fault # "path"
    BY <1>1, <1>2, <1>3 DEF HonestPath, Seeds!PaddingIsZero
  <1>4. CASE fault = "path"
    <2>1. num_seeds_published < TREE_NODES_TO_STORE /\ path[num_seeds_published] = RootSeed
      BY <1>4 DEF FaultInv
    <2>2. num_seeds_published \in Seeds!Slots
      BY <1>1, <2>1, Constants DEF Seeds!Slots
    <2>3. num_seeds_published >= nodes_used /\ path[num_seeds_published] # NoSeed
      BY <1>1, <2>1, Constants
    <2> QED BY <1>4, <2>2, <2>3 DEF Seeds!PaddingIsZero
  <1> QED BY <1>3, <1>4

LEMMA FaultStep ==
  ASSUME TypeOK, FlowInv, FaultInv, ProofInv, SP!IInv, [Next]_vars
  PROVE  FaultInv'
  <1>1. CASE SeedMove
    <2>1. UNCHANGED <<fault, pc, proof_nodes>>
      BY <1>1, SeedFrame DEF merkle
    <2>2. fault = "path" => UNCHANGED <<path, num_seeds_published>>
      BY <1>1, SeedFrame DEF FlowInv, FaultInv, Sent
    <2>3. s_pc' = "rebuilt" => (s_padding_ok' <=> fault # "path")
      <3>1. SUFFICES ASSUME s_pc' = "rebuilt" PROVE s_padding_ok' <=> fault # "path"
        OBVIOUS
      <3>2. Seeds!RebuildDone
        BY <1>1, <3>1, SeedFrame
      <3>3. s_pc = "rebuild_tree" /\ s_at.level > LOG2T /\ s_padding_ok' = Seeds!PaddingIsZero
        BY <3>2 DEF Seeds!RebuildDone
      <3> QED BY <3>3, SeedPadding
    <2> QED BY <2>1, <2>2, <2>3 DEF FaultInv, Sent
  <1>2. CASE MerkleMove
    <2>1. UNCHANGED <<fault, pc, path, num_seeds_published, s_pc, s_padding_ok>>
      BY <1>2, MerkleFrame DEF seeds
    <2>2. fault = "proof" => UNCHANGED proof_nodes
      BY <1>2, MerkleFrame DEF FlowInv, FaultInv, Sent
    <2> QED BY <2>1, <2>2 DEF FaultInv, Sent
  <1>3. CASE Send
    <2>1. /\ pc = "send" /\ pc' = "verify_seeds" /\ fault = "none" /\ m_pc = "proof" /\ s_pc = "published"
          /\ fault' \in {"none", "message", "path", "proof", "group"}
          /\ fault' = "path"  => num_seeds_published < TREE_NODES_TO_STORE
          /\ fault' = "proof" => published < TREE_NODES_TO_STORE
          /\ fault' = "path" => path' = [path EXCEPT ![num_seeds_published] = RootSeed]
          /\ UNCHANGED <<s_pc, num_seeds_published, proof_nodes>>
      BY <1>3, FaultsAssumption DEF Send, FlowInv, FaultInv
    <2>2. published = Len(proof_nodes)
      BY <2>1 DEF ProofInv
    <2>3. fault' = "path" => path'[num_seeds_published] = RootSeed
      <3>1. num_seeds_published \in Nat
        BY DEF SP!IInv, SP!TypeOK
      <3> QED BY <2>1, <3>1, Constants DEF TypeOK, Seeds!Slots
    <2> QED BY <2>1, <2>2, <2>3 DEF FaultInv, Sent
  <1>4. ASSUME UNCHANGED <<fault, path, num_seeds_published, proof_nodes, s_padding_ok>>,
               Sent' => Sent \/ fault = "none",
               fault = "group" => pc' # "compare",
               s_pc' = "rebuilt" => s_pc = "rebuilt",
               ~Sent \/ pc = "send" \/ (Sent' /\ pc' # "send")
        PROVE  FaultInv'
    BY <1>4 DEF FaultInv, Sent
  <1>5. CASE SignRound \/ SignRoot \/ SignProof \/ SignPath \/ SignResponse \/ SignDone
    <2>1. UNCHANGED <<fault, path, num_seeds_published, proof_nodes, s_padding_ok>>
      BY <1>5 DEF SignRound, SignRoot, SignProof, SignPath, SignResponse, SignDone, seeds, merkle,
           Merkle!CallTreeRoot, Merkle!CallTreeProof, Seeds!Open, Seeds!stored, Seeds!verifier
    <2>2. ~Sent /\ pc' # "compare" /\ s_pc # "rebuilt"
      BY <1>5 DEF SignRound, SignRoot, SignProof, SignPath, SignResponse, SignDone, Sent, FlowInv
    <2>3. s_pc' # "rebuilt"
      BY <1>5, <2>2 DEF SignRound, SignRoot, SignProof, SignPath, SignResponse, SignDone, seeds,
           Seeds!Open
    <2> QED BY <1>4, <2>1, <2>2, <2>3 DEF FaultInv
  <1>6. CASE VerifySeeds \/ VerifySeedRound \/ VerifyResponseRound \/ VerifyRoot \/ Compare
    <2>1. UNCHANGED <<fault, path, num_seeds_published, proof_nodes, s_padding_ok>>
      BY <1>6 DEF VerifySeeds, VerifySeedRound, VerifyResponseRound, VerifyRoot, Compare, seeds,
           merkle, Seeds!CallRebuild, Seeds!stored, Seeds!verifier, Merkle!CallRecomputeRoot
    <2>2. Sent /\ Sent' /\ pc' # "send" /\ (fault = "group" => pc' # "compare")
      BY <1>6 DEF VerifySeeds, VerifySeedRound, VerifyResponseRound, VerifyRoot, Compare, Sent
    <2>3. s_pc' = "rebuilt" => s_pc = "rebuilt"
      BY <1>6 DEF VerifySeeds, VerifySeedRound, VerifyResponseRound, VerifyRoot, Compare, seeds,
           Seeds!CallRebuild
    <2> QED BY <1>4, <2>1, <2>2, <2>3
  <1>7. CASE UNCHANGED vars
    BY <1>7 DEF vars, seeds, merkle, FaultInv, Sent
  <1> QED BY <1>1, <1>2, <1>3, <1>5, <1>6, <1>7, Moves

-----------------------------------------------------------------------------
(* The commitments of the rounds *)

Inputs == [round : Rounds, in : Seed \union {NoSeed}]
Commitments == [Rounds -> Digest \union {Zero}]

\* A batch commits every queued round to its own input.
LEMMA CommitBatch ==
  ASSUME NEW cmt \in Commitments, NEW q \in Seq(Inputs),
         NEW C \in [(Seed \union {NoSeed}) \X Rounds -> Digest]
  PROVE  /\ RunBatch(cmt, q, C) \in Commitments
         /\ \A r \in Rounds : ~InQueue(q, r) => RunBatch(cmt, q, C)[r] = cmt[r]
         /\ \A r \in Rounds : \A s :
              InQueue(q, r) /\ (\A k \in DOMAIN q : q[k].round = r => q[k].in = s) =>
                RunBatch(cmt, q, C)[r] = C[<<s, r>>]
  <1>1. ASSUME NEW r \in Rounds, InQueue(q, r), NEW k, k = CHOOSE m \in DOMAIN q : q[m].round = r
        PROVE  k \in DOMAIN q /\ q[k].round = r /\ q[k].in \in Seed \union {NoSeed}
    <2>1. k \in DOMAIN q /\ q[k].round = r
      BY <1>1 DEF InQueue
    <2>2. q[k] \in Inputs
      BY <2>1
    <2> QED BY <2>1, <2>2 DEF Inputs
  <1>2. ASSUME NEW r \in Rounds, InQueue(q, r)
        PROVE  \E k \in DOMAIN q : /\ q[k].round = r /\ q[k].in \in Seed \union {NoSeed}
                                   /\ RunBatch(cmt, q, C)[r] = C[<<q[k].in, r>>]
    <2> DEFINE k0 == CHOOSE k \in DOMAIN q : q[k].round = r
    <2>1. RunBatch(cmt, q, C)[r] = C[<<q[k0].in, q[k0].round>>]
      BY <1>2 DEF RunBatch, InQueue
    <2>2. k0 \in DOMAIN q /\ q[k0].round = r /\ q[k0].in \in Seed \union {NoSeed}
      BY <1>1, <1>2
    <2> QED BY <2>1, <2>2
  <1>3. ASSUME NEW r \in Rounds, ~InQueue(q, r) PROVE RunBatch(cmt, q, C)[r] = cmt[r]
    BY <1>3 DEF RunBatch, InQueue
  <1>4. ASSUME NEW r \in Rounds PROVE RunBatch(cmt, q, C)[r] \in Digest \union {Zero}
    <2>1. CASE InQueue(q, r)
      <3>1. PICK k \in DOMAIN q : /\ q[k].in \in Seed \union {NoSeed}
                                  /\ RunBatch(cmt, q, C)[r] = C[<<q[k].in, r>>]
        BY <1>2, <2>1
      <3> QED BY <3>1
    <2>2. CASE ~InQueue(q, r)
      BY <1>3, <2>2 DEF Commitments
    <2> QED BY <2>1, <2>2
  <1>5. RunBatch(cmt, q, C) \in Commitments
    BY <1>4 DEF RunBatch, Commitments
  <1>6. ASSUME NEW r \in Rounds, NEW s, InQueue(q, r),
               \A k \in DOMAIN q : q[k].round = r => q[k].in = s
        PROVE  RunBatch(cmt, q, C)[r] = C[<<s, r>>]
    BY <1>2, <1>6
  <1> QED BY <1>3, <1>5, <1>6

\* What is left of a queue q and of the commitments when it has been looked at:
\* a queued round still waits or has the commitment to its input.
FlushedTo(cmt, q, C, cmt2, q2) ==
  /\ cmt2 \in Commitments /\ q2 \in Seq(Inputs)
  /\ q2 = <<>> \/ q2 = q
  /\ i = T - 1 => q2 = <<>>
  /\ \A r \in Rounds : ~InQueue(q, r) => ~InQueue(q2, r) /\ cmt2[r] = cmt[r]
  /\ \A r \in Rounds : \A s :
       InQueue(q, r) /\ (\A k \in DOMAIN q : q[k].round = r => q[k].in = s) =>
         InQueue(q2, r) \/ cmt2[r] = C[<<s, r>>]

LEMMA Flushed ==
  ASSUME NEW cmt \in Commitments, NEW q \in Seq(Inputs),
         NEW C \in [(Seed \union {NoSeed}) \X Rounds -> Digest],
         NEW cmt2, cmt2 = IF Flush(q) THEN RunBatch(cmt, q, C) ELSE cmt,
         NEW q2, q2 = IF Flush(q) THEN <<>> ELSE q
  PROVE  FlushedTo(cmt, q, C, cmt2, q2)
  <1> DEFINE run == RunBatch(cmt, q, C)
  <1>3. /\ run \in Commitments
        /\ \A r \in Rounds : ~InQueue(q, r) => run[r] = cmt[r]
        /\ \A r \in Rounds : \A s :
             InQueue(q, r) /\ (\A k \in DOMAIN q : q[k].round = r => q[k].in = s) =>
               run[r] = C[<<s, r>>]
    BY CommitBatch, Zenon
  <1> HIDE DEF run
  <1>1. CASE Flush(q)
    <2>1. cmt2 = run /\ q2 = <<>>
      BY <1>1 DEF run
    <2>2. \A r : ~InQueue(q2, r)
      BY <2>1 DEF InQueue
    <2>3. q2 \in Seq(Inputs)
      BY <2>1
    <2> QED BY <1>3, <2>1, <2>2, <2>3, Zenon DEF FlushedTo
  <1>2. CASE ~Flush(q)
    BY <1>2 DEF Flush, FlushedTo
  <1> QED BY <1>1, <1>2

\* A round that joins a queue.
LEMMA JoinInputs ==
  ASSUME NEW q \in Seq(Inputs), NEW e \in Inputs
  PROVE  /\ Append(q, e) \in Seq(Inputs)
         /\ \A r : InQueue(Append(q, e), r) <=> InQueue(q, r) \/ r = e.round
         /\ \A k \in DOMAIN Append(q, e) :
              Append(q, e)[k] = e \/ \E m \in DOMAIN q : Append(q, e)[k] = q[m]
  <1> DEFINE q2 == Append(q, e)
  <1>1. /\ q2 \in Seq(Inputs) /\ Len(q) \in Nat
        /\ DOMAIN q2 = 1 .. Len(q) + 1 /\ DOMAIN q = 1 .. Len(q)
        /\ q2[Len(q) + 1] = e
        /\ \A k \in 1 .. Len(q) : q2[k] = q[k]
    OBVIOUS
  <1> HIDE DEF q2
  <1>2. /\ \A k \in DOMAIN q2 : k = Len(q) + 1 \/ k \in DOMAIN q
        /\ Len(q) + 1 \in DOMAIN q2 /\ \A k \in DOMAIN q : k \in DOMAIN q2
    BY <1>1
  <1>3. ASSUME NEW r PROVE InQueue(q2, r) <=> InQueue(q, r) \/ r = e.round
    BY <1>1, <1>2 DEF InQueue
  <1>4. \A k \in DOMAIN q2 : q2[k] = e \/ \E m \in DOMAIN q : q2[k] = q[m]
    BY <1>1, <1>2
  <1> QED BY <1>1, <1>3, <1>4 DEF q2

(* Where the response to a round is *)

LEMMA PlaceStep ==
  ASSUME NEW n \in Nat
  PROVE  /\ IsFiniteSet(Answering(n)) /\ Place(n) \in Nat
         /\ chall_2[n] = 0 => /\ Answering(n + 1) = Answering(n) \union {n}
                              /\ Place(n + 1) = Place(n) + 1
         /\ chall_2[n] # 0 => Answering(n + 1) = Answering(n) /\ Place(n + 1) = Place(n)
         /\ n \notin Answering(n)
  <1>1. IsFiniteSet(0 .. n - 1)
    BY FS_Interval
  <1>2. IsFiniteSet(Answering(n))
    BY <1>1, FS_Subset DEF Answering
  <1>3. Place(n) \in Nat
    BY <1>2, FS_CardinalityType DEF Place
  <1>4. n \notin Answering(n)
    BY DEF Answering
  <1>5. chall_2[n] # 0 => Answering(n + 1) = Answering(n)
    BY DEF Answering
  <1>6. chall_2[n] = 0 => Answering(n + 1) = Answering(n) \union {n}
    BY DEF Answering
  <1>7. chall_2[n] = 0 => Place(n + 1) = Place(n) + 1
    BY <1>2, <1>4, <1>6, FS_AddElement DEF Place
  <1> QED BY <1>2, <1>3, <1>4, <1>5, <1>6, <1>7 DEF Place

LEMMA NoPlace == Place(0) = 0 /\ Answering(0) = {}
  <1>1. Answering(0) = {}
    BY DEF Answering
  <1> QED BY <1>1, FS_EmptySet DEF Place

\* The responses to the first n rounds are in the first Place(n) places.
LEMMA PlaceRange ==
  ASSUME NEW n \in Nat, NEW r \in Answering(n)
  PROVE  Place(r) + 1 \in 1 .. Place(n) /\ r \in 0 .. n - 1 /\ Place(r) \in Nat
  <1>1. r \in 0 .. n - 1 /\ chall_2[r] = 0 /\ r \in Nat /\ r + 1 \in Nat
    BY DEF Answering
  <1>2. Place(r + 1) = Place(r) + 1 /\ Place(r) \in Nat /\ Place(n) \in Nat
    BY <1>1, PlaceStep
  <1>3. Answering(r + 1) \in SUBSET Answering(n)
    BY <1>1 DEF Answering
  <1>4. Place(r + 1) <= Place(n)
    BY <1>3, PlaceStep, FS_Subset DEF Place
  <1> QED BY <1>1, <1>2, <1>4

-----------------------------------------------------------------------------
(* The rounds of CROSS_sign and CROSS_verify *)

\* What the rounds leave alone.
LEMMA RoundFrame ==
  ASSUME SignRound \/ SignResponse \/ VerifySeedRound \/ VerifyResponseRound
  PROVE  /\ UNCHANGED seeds /\ UNCHANGED merkle /\ UNCHANGED <<pc, chall_2, fault, verdict>>
         /\ i \in Nat => i' \in Nat
         /\ i < T /\ i' = i + 1
  BY DEF SignRound, SignResponse, VerifySeedRound, VerifyResponseRound, FlushQueues

\* A round of the signer: both queues take its seed.
SignInputs == Append(queue0, [round |-> i, in |-> round_seeds[i]])

LEMMA SignRoundStep ==
  ASSUME FlowInv, SP!IInv, RoundTypeOK, SignRound
  PROVE  /\ i \in Rounds /\ round_seeds \in [Rounds -> Seed] /\ s_pc = "generated"
         /\ SignInputs \in Seq(Inputs)
         /\ queue0' = IF Flush(SignInputs) THEN <<>> ELSE SignInputs
         /\ queue1' = queue0'
         /\ cmt_0' = IF Flush(SignInputs) THEN RunBatch(cmt_0, SignInputs, Commit0) ELSE cmt_0
         /\ cmt_1' = IF Flush(SignInputs) THEN RunBatch(cmt_1, SignInputs, Commit1) ELSE cmt_1
         /\ UNCHANGED <<y, used_rsps, signed>>
  <1>1. s_pc = "generated" /\ i < T /\ i \in 0 .. T
    BY DEF SignRound, FlowInv
  <1>2. i \in Rounds /\ round_seeds \in [Rounds -> Seed]
    BY <1>1, SignerSeeds, LevelFacts DEF Rounds
  <1>3. queue0 \in Seq(Inputs)
    BY DEF RoundTypeOK, Inputs
  <1>4. SignInputs \in Seq(Inputs)
    <2>1. [round |-> i, in |-> round_seeds[i]] \in Inputs
      BY <1>2 DEF Inputs
    <2> QED BY <1>3, <2>1 DEF SignInputs
  <1>5. /\ queue0' = IF Flush(SignInputs) THEN <<>> ELSE SignInputs
        /\ queue1' = queue0'
        /\ cmt_0' = IF Flush(SignInputs) THEN RunBatch(cmt_0, SignInputs, Commit0) ELSE cmt_0
        /\ cmt_1' = IF Flush(SignInputs) THEN RunBatch(cmt_1, SignInputs, Commit1) ELSE cmt_1
        /\ UNCHANGED <<y, used_rsps, signed>>
    BY Zenon DEF SignRound, SignInputs
  <1> QED BY <1>1, <1>2, <1>4, <1>5, Zenon

\* A round of the verifier whose seed it has: only the second queue takes it.
SeedInputs == Append(queue1, [round |-> i, in |-> round_seeds[i]])

LEMMA VerifySeedRoundStep ==
  ASSUME FlowInv, SP!IInv, RoundTypeOK, VerifySeedRound
  PROVE  /\ pc = "verify_rounds" /\ i \in Rounds /\ chall_2[i] = 1
         /\ round_seeds \in [Rounds -> Seed] /\ SeedInputs \in Seq(Inputs)
         /\ queue0' = IF Flush(queue0) THEN <<>> ELSE queue0
         /\ queue1' = IF Flush(SeedInputs) THEN <<>> ELSE SeedInputs
         /\ cmt_0' = IF Flush(queue0) THEN RunBatch(cmt_0, queue0, Commit0) ELSE cmt_0
         /\ cmt_1' = IF Flush(SeedInputs) THEN RunBatch(cmt_1, SeedInputs, Commit1) ELSE cmt_1
         /\ y' = [y EXCEPT ![i] = Response(round_seeds[i], Received, i)]
         /\ UNCHANGED <<used_rsps, signed>>
  <1>1. pc = "verify_rounds" /\ s_pc = "rebuilt" /\ i < T /\ chall_2[i] = 1 /\ i \in 0 .. T
    BY DEF VerifySeedRound, FlowInv
  <1>2. i \in Rounds /\ round_seeds \in [Rounds -> Seed]
    BY <1>1, SignerSeeds, LevelFacts DEF Rounds
  <1>3. rebuilt_seeds[i] = round_seeds[i]
    BY <1>1, <1>2, VerifierSeeds
  <1>4. queue1 \in Seq(Inputs)
    BY DEF RoundTypeOK, Inputs
  <1>5. SeedInputs \in Seq(Inputs)
    <2>1. [round |-> i, in |-> round_seeds[i]] \in Inputs
      BY <1>2 DEF Inputs
    <2> QED BY <1>4, <2>1 DEF SeedInputs
  <1>6. /\ queue0' = IF Flush(queue0) THEN <<>> ELSE queue0
        /\ queue1' = IF Flush(SeedInputs) THEN <<>> ELSE SeedInputs
        /\ cmt_0' = IF Flush(queue0) THEN RunBatch(cmt_0, queue0, Commit0) ELSE cmt_0
        /\ cmt_1' = IF Flush(SeedInputs) THEN RunBatch(cmt_1, SeedInputs, Commit1) ELSE cmt_1
        /\ y' = [y EXCEPT ![i] = Response(round_seeds[i], Received, i)]
        /\ UNCHANGED <<used_rsps, signed>>
    BY <1>3, Zenon DEF VerifySeedRound, FlushQueues, SeedInputs
  <1> QED BY <1>1, <1>2, <1>5, <1>6, Zenon

\* A round that the signer answered: only the first queue takes what the
\* answer yields.
AnswerInputs == Append(queue0, [round |-> i, in |-> Input0(i)])

LEMMA VerifyResponseRoundStep ==
  ASSUME FlowInv, SP!IInv, RoundTypeOK, ResponseInv, VerifierInv, VerifyResponseRound
  PROVE  /\ pc = "verify_rounds" /\ i \in Rounds /\ chall_2[i] = 0
         /\ round_seeds \in [Rounds -> Seed] /\ AnswerInputs \in Seq(Inputs)
         /\ Input0(i) \in Seed \union {NoSeed} /\ Commits1[i] \in Digest
         /\ queue0' = IF Flush(AnswerInputs) THEN <<>> ELSE AnswerInputs
         /\ queue1' = IF Flush(queue1) THEN <<>> ELSE queue1
         /\ cmt_0' = IF Flush(AnswerInputs) THEN RunBatch(cmt_0, AnswerInputs, Commit0) ELSE cmt_0
         /\ cmt_1' = IF Flush(queue1)
                       THEN RunBatch([cmt_1 EXCEPT ![i] = Commits1[i]], queue1, Commit1)
                       ELSE [cmt_1 EXCEPT ![i] = Commits1[i]]
         /\ y' = [y EXCEPT ![i] = Response(round_seeds[i], "signed", i)]
         /\ used_rsps' = used_rsps + 1 /\ UNCHANGED signed
  <1>1. pc = "verify_rounds" /\ s_pc = "rebuilt" /\ i < T /\ chall_2[i] = 0 /\ i \in 0 .. T
    BY DEF VerifyResponseRound, FlowInv
  <1>2. i \in Rounds /\ round_seeds \in [Rounds -> Seed] /\ T \in Nat
    BY <1>1, SignerSeeds, LevelFacts DEF Rounds
  <1>3. i \in Answering(T)
    BY <1>1, <1>2 DEF Answering, Rounds
  <1>4. /\ used_rsps = Place(i)
        /\ signed.resp_0[used_rsps + 1] = Response(round_seeds[i], "signed", i)
        /\ signed.resp_1[used_rsps + 1] = Commits1[i]
    BY <1>1, <1>3 DEF VerifierInv, Verifying, ResponseInv, Sent, Answered
  <1>5. SPrime(Response(round_seeds[i], "signed", i)) = Input0(i)
    <2>1. Chall1("signed", i) = Chall1(Received, i) <=> Received = "signed"
      BY DEF Chall1
    <2> QED BY <2>1 DEF SPrime, Response, Input0
  <1>6. Input0(i) \in Seed \union {NoSeed}
    BY <1>2 DEF Input0
  <1>7. Commits1[i] \in Digest
    BY <1>2, CommitAssumption DEF Commits1
  <1>8. queue0 \in Seq(Inputs)
    BY DEF RoundTypeOK, Inputs
  <1>9. AnswerInputs \in Seq(Inputs)
    <2>1. [round |-> i, in |-> Input0(i)] \in Inputs
      BY <1>2, <1>6 DEF Inputs
    <2> QED BY <1>8, <2>1 DEF AnswerInputs
  <1>10. /\ queue0' = IF Flush(AnswerInputs) THEN <<>> ELSE AnswerInputs
         /\ queue1' = IF Flush(queue1) THEN <<>> ELSE queue1
         /\ cmt_0' = IF Flush(AnswerInputs) THEN RunBatch(cmt_0, AnswerInputs, Commit0) ELSE cmt_0
         /\ cmt_1' = IF Flush(queue1)
                        THEN RunBatch([cmt_1 EXCEPT ![i] = Commits1[i]], queue1, Commit1)
                        ELSE [cmt_1 EXCEPT ![i] = Commits1[i]]
         /\ y' = [y EXCEPT ![i] = Response(round_seeds[i], "signed", i)]
         /\ used_rsps' = used_rsps + 1 /\ UNCHANGED signed
    BY <1>4, <1>5, Zenon DEF VerifyResponseRound, FlushQueues, AnswerInputs
  <1> QED BY <1>1, <1>2, <1>6, <1>7, <1>9, <1>10, Zenon

\* The steps that change neither the queues nor the commitments.
LEMMA NoRound ==
  ASSUME \/ SeedMove \/ MerkleMove \/ SignRoot \/ SignPath \/ SignDone \/ Send \/ VerifyRoot
         \/ Compare \/ UNCHANGED vars
  PROVE  UNCHANGED <<queue0, queue1, cmt_0, cmt_1, y, used_rsps, signed>>
  BY DEF SeedMove, MerkleMove, SignRoot, SignPath, SignDone, Send, VerifyRoot, Compare, vars, rounds

\* The rounds keep their types.
LEMMA RoundTypeStep ==
  ASSUME TypeOK, FlowInv, ResponseInv, VerifierInv, SP!IInv, [Next]_vars
  PROVE  RoundTypeOK'
  <1> DEFINE Answers == [of : Seed \union {NoSeed}, to : Seq({"signed", "other"} \union Rounds)]
             Response0 == [of : Seed, to : Seq({"signed", "other"} \union Rounds)]
             Signatures == [root : Contents, cmt_1 : Commitments, resp_0 : Seq(Response0),
                            resp_1 : Seq(Digest \union {Zero})]
             Typed == /\ cmt_0 \in Commitments /\ cmt_1 \in Commitments /\ y \in [Rounds -> Answers]
                      /\ signed \in Signatures /\ queue0 \in Seq(Inputs) /\ queue1 \in Seq(Inputs)
  <1>1. RoundTypeOK <=> Typed
    BY DEF RoundTypeOK, Commitments, Inputs
  <1>2. RoundTypeOK' <=> Typed'
    BY DEF RoundTypeOK, Commitments, Inputs, Contents, Rounds
  <1>0. Answers' = Answers /\ Signatures' = Signatures
    BY DEF Commitments, Contents, Rounds
  <1>3. Typed /\ RoundTypeOK
    BY <1>1 DEF TypeOK
  <1>4. CASE \/ SeedMove \/ MerkleMove \/ SignRoot \/ SignPath \/ SignDone \/ Send \/ VerifyRoot
             \/ Compare \/ UNCHANGED vars
    BY <1>2, <1>3, <1>4, NoRound
  <1> HIDE DEF Answers, Response0, Signatures
  <1>5. ASSUME NEW s \in Seed, NEW m \in {"signed", "other"}, NEW r \in Rounds
        PROVE  Response(s, m, r) \in Response0 /\ Response(s, m, r) \in Answers
    <2>1. <<m, r>> \in Seq({"signed", "other"} \union Rounds)
      OBVIOUS
    <2> QED BY <2>1 DEF Response, Chall1, Response0, Answers
  <1>6. Commit0 \in [(Seed \union {NoSeed}) \X Rounds -> Digest]
        /\ Commit1 \in [(Seed \union {NoSeed}) \X Rounds -> Digest]
    BY CommitAssumption
  <1>7. Received \in {"signed", "other"}
    BY DEF Received
  <1>8. CASE SignRound
    <2>1. /\ cmt_0' \in Commitments /\ cmt_1' \in Commitments
          /\ queue0' \in Seq(Inputs) /\ queue1' \in Seq(Inputs) /\ UNCHANGED <<y, signed>>
      <3>1. /\ FlushedTo(cmt_0, SignInputs, Commit0, cmt_0', queue0')
            /\ FlushedTo(cmt_1, SignInputs, Commit1, cmt_1', queue1')
        BY <1>3, <1>6, <1>8, SignRoundStep, Flushed
      <3> QED BY <1>3, <1>8, <3>1, SignRoundStep DEF FlushedTo
    <2> QED BY <1>2, <1>3, <2>1
  <1>9. CASE SignProof
    <2>1. UNCHANGED <<cmt_0, cmt_1, y, queue0, queue1>>
          /\ signed' = [signed EXCEPT !.root = tree[0], !.cmt_1 = cmt_1]
      BY <1>9 DEF SignProof, rounds
    <2>2. tree[0] \in Contents
      BY LevelFacts DEF TypeOK, TreeTypeOK, Nodes
    <2>3. signed' \in Signatures
      BY <1>3, <2>1, <2>2 DEF Signatures
    <2> QED BY <1>0, <1>2, <1>3, <2>1, <2>3
  <1>10. CASE SignResponse
    <2>1. /\ UNCHANGED <<cmt_0, cmt_1, y, queue0, queue1>> /\ i \in Rounds
          /\ s_pc = "published"
          /\ signed' = signed \/ signed' = [signed EXCEPT
                !.resp_0 = Append(@, Response(round_seeds[i], "signed", i)),
                !.resp_1 = Append(@, cmt_1[i])]
      BY <1>10, LevelFacts DEF SignResponse, FlowInv, Rounds
    <2>2. round_seeds[i] \in Seed /\ cmt_1[i] \in Digest \union {Zero}
      BY <1>3, <2>1, SignerSeeds DEF Commitments
    <2>3. Response(round_seeds[i], "signed", i) \in Response0
      BY <1>5, <2>1, <2>2
    <2>4. signed' \in Signatures
      <3>1. signed.resp_0 \in Seq(Response0) /\ signed.resp_1 \in Seq(Digest \union {Zero})
        BY <1>3 DEF Signatures
      <3>2. Append(signed.resp_0, Response(round_seeds[i], "signed", i)) \in Seq(Response0)
        BY <2>3, <3>1
      <3>3. Append(signed.resp_1, cmt_1[i]) \in Seq(Digest \union {Zero})
        BY <2>2, <3>1
      <3> QED BY <1>3, <2>1, <3>2, <3>3 DEF Signatures
    <2> QED BY <1>0, <1>2, <1>3, <2>1, <2>4
  <1>11. CASE VerifySeeds
    <2>1. /\ cmt_0' = NoCommitments /\ cmt_1' = NoCommitments /\ queue0' = <<>> /\ queue1' = <<>>
          /\ UNCHANGED <<y, signed>>
      BY <1>11 DEF VerifySeeds
    <2>2. NoCommitments \in Commitments /\ <<>> \in Seq(Inputs)
      BY DEF NoCommitments, Commitments
    <2> QED BY <1>2, <1>3, <2>1, <2>2
  <1>12. CASE VerifySeedRound
    <2>1. /\ cmt_0' \in Commitments /\ queue0' \in Seq(Inputs)
          /\ cmt_1' \in Commitments /\ queue1' \in Seq(Inputs) /\ signed' = signed
      <3>1. /\ FlushedTo(cmt_0, queue0, Commit0, cmt_0', queue0')
            /\ FlushedTo(cmt_1, SeedInputs, Commit1, cmt_1', queue1')
        BY <1>3, <1>6, <1>12, VerifySeedRoundStep, Flushed
      <3> QED BY <1>3, <1>12, <3>1, VerifySeedRoundStep DEF FlushedTo
    <2>2. /\ y' = [y EXCEPT ![i] = Response(round_seeds[i], Received, i)]
          /\ i \in Rounds /\ round_seeds[i] \in Seed
      BY <1>3, <1>12, VerifySeedRoundStep
    <2>3. y' \in [Rounds -> Answers]
      BY <1>3, <1>5, <1>7, <2>2
    <2> QED BY <1>0, <1>2, <2>1, <2>3, <1>3
  <1>13. CASE VerifyResponseRound
    <2>1. /\ i \in Rounds /\ Commits1[i] \in Digest /\ round_seeds[i] \in Seed
          /\ y' = [y EXCEPT ![i] = Response(round_seeds[i], "signed", i)] /\ signed' = signed
      BY <1>3, <1>13, VerifyResponseRoundStep
    <2>2. [cmt_1 EXCEPT ![i] = Commits1[i]] \in Commitments
      BY <1>3, <2>1 DEF Commitments
    <2>3. /\ cmt_0' \in Commitments /\ queue0' \in Seq(Inputs)
      <3>1. FlushedTo(cmt_0, AnswerInputs, Commit0, cmt_0', queue0')
        BY <1>3, <1>6, <1>13, VerifyResponseRoundStep, Flushed
      <3> QED BY <3>1 DEF FlushedTo
    <2>4. cmt_1' \in Commitments /\ queue1' \in Seq(Inputs)
      <3>1. FlushedTo([cmt_1 EXCEPT ![i] = Commits1[i]], queue1, Commit1, cmt_1', queue1')
        BY <1>3, <1>6, <1>13, <2>2, VerifyResponseRoundStep, Flushed
      <3> QED BY <3>1 DEF FlushedTo
    <2>5. y' \in [Rounds -> Answers]
      BY <1>3, <1>5, <2>1
    <2> QED BY <1>0, <1>2, <1>3, <2>1, <2>3, <2>4, <2>5
  <1> QED BY <1>4, <1>8, <1>9, <1>10, <1>11, <1>12, <1>13, Moves

\* The seeds of the rounds stay once they are there.
LEMMA SeedsKept ==
  ASSUME [Next]_vars, s_pc # "gen_seed_tree"
  PROVE  round_seeds' = round_seeds
  <1>1. CASE SeedMove
    BY <1>1, SeedFrame
  <1>2. CASE SignPath \/ VerifySeeds
    BY <1>2 DEF SignPath, VerifySeeds, Seeds!Open, Seeds!CallRebuild, Seeds!signer
  <1>3. CASE \/ MerkleMove \/ SignRound \/ SignRoot \/ SignProof \/ SignResponse \/ SignDone \/ Send
             \/ VerifySeedRound \/ VerifyResponseRound \/ VerifyRoot \/ Compare \/ UNCHANGED vars
    BY <1>3 DEF MerkleMove, SignRound, SignRoot, SignProof, SignResponse, SignDone, Send,
         VerifySeedRound, VerifyResponseRound, VerifyRoot, Compare, vars, seeds
  <1> QED BY <1>1, <1>2, <1>3, Moves

\* The answers the signer has given stay.
LEMMA AnswersKept ==
  ASSUME UNCHANGED <<chall_2, round_seeds, signed>>, NEW CONSTANT n
  PROVE  Answered(n)' <=> Answered(n)
  BY DEF Answered, Answering, Place, Response, Chall1, Commits1, Rounds

\* What it is that the next round is answered too.
LEMMA AnsweredNext ==
  ASSUME UNCHANGED <<chall_2, round_seeds>>, i' = i + 1
  PROVE  Answered(i)' <=>
           /\ Len(signed'.resp_0) = Place(i + 1) /\ Len(signed'.resp_1) = Place(i + 1)
           /\ \A r \in Answering(i + 1) :
                /\ signed'.resp_0[Place(r) + 1] = Response(round_seeds[r], "signed", r)
                /\ signed'.resp_1[Place(r) + 1] = Commits1[r]
  BY DEF Answered, Answering, Place, Response, Chall1, Commits1, Rounds

LEMMA SignResponseStep ==
  ASSUME TypeOK, FlowInv, SignerInv, Answered(i), SP!IInv, SignResponse
  PROVE  Answered(i)'
  <1> DEFINE given == signed.resp_0
             given2 == signed.resp_1
  <1>1. /\ pc = "sign_responses" /\ s_pc = "published" /\ i \in Rounds /\ i \in Nat /\ i' = i + 1
        /\ UNCHANGED <<chall_2, round_seeds>>
    BY LevelFacts DEF SignResponse, FlowInv, Rounds, seeds
  <1>2. cmt_1[i] = Commits1[i]
    BY <1>1 DEF SignerInv
  <1>3. given \in Seq([of : Seed, to : Seq({"signed", "other"} \union Rounds)])
        /\ given2 \in Seq(Digest \union {Zero}) /\ signed \in [root : Contents,
              cmt_1 : [Rounds -> Digest \union {Zero}],
              resp_0 : Seq([of : Seed, to : Seq({"signed", "other"} \union Rounds)]),
              resp_1 : Seq(Digest \union {Zero})]
    BY DEF TypeOK, RoundTypeOK
  <1>4. /\ Len(given) = Place(i) /\ Len(given2) = Place(i) /\ Place(i) \in Nat
        /\ \A r \in Answering(i) : /\ given[Place(r) + 1] = Response(round_seeds[r], "signed", r)
                                   /\ given2[Place(r) + 1] = Commits1[r]
                                   /\ Place(r) + 1 \in 1 .. Place(i)
    BY <1>1, PlaceStep, PlaceRange DEF Answered
  <1>5. CASE chall_2[i] # 0
    <2>1. Answering(i + 1) = Answering(i) /\ Place(i + 1) = Place(i)
      BY <1>1, <1>5, PlaceStep
    <2>2. signed' = signed
      BY <1>5 DEF SignResponse
    <2> QED BY <1>1, <1>4, <2>1, <2>2, AnsweredNext
  <1>6. CASE chall_2[i] = 0
    <2>1. Answering(i + 1) = Answering(i) \union {i} /\ Place(i + 1) = Place(i) + 1
      BY <1>1, <1>6, PlaceStep
    <2>2. /\ signed'.resp_0 = Append(given, Response(round_seeds[i], "signed", i))
          /\ signed'.resp_1 = Append(given2, Commits1[i])
      BY <1>2, <1>3, <1>6 DEF SignResponse
    <2>3. /\ Len(signed'.resp_0) = Place(i) + 1 /\ Len(signed'.resp_1) = Place(i) + 1
          /\ signed'.resp_0[Place(i) + 1] = Response(round_seeds[i], "signed", i)
          /\ signed'.resp_1[Place(i) + 1] = Commits1[i]
          /\ \A k \in 1 .. Place(i) : /\ signed'.resp_0[k] = given[k]
                                      /\ signed'.resp_1[k] = given2[k]
      <3> HIDE DEF given, given2
      <3> QED BY <1>3, <1>4, <2>2
    <2>4. ASSUME NEW r \in Answering(i + 1)
          PROVE  /\ signed'.resp_0[Place(r) + 1] = Response(round_seeds[r], "signed", r)
                 /\ signed'.resp_1[Place(r) + 1] = Commits1[r]
      BY <1>4, <2>1, <2>3
    <2> QED BY <1>1, <2>1, <2>3, <2>4, AnsweredNext
  <1> QED BY <1>5, <1>6

LEMMA ResponseStep ==
  ASSUME TypeOK, FlowInv, SignerInv, ResponseInv, SP!IInv, [Next]_vars
  PROVE  ResponseInv'
  <1>0. T \in Nat \ {0}
    BY LevelFacts
  <1>1. ASSUME Sent, UNCHANGED <<chall_2, signed>>, Sent' PROVE ResponseInv'
    <2>1. UNCHANGED round_seeds
      BY <1>1, SeedsKept DEF Sent, FlowInv
    <2>2. Answered(T)'
      BY <1>1, <2>1, AnswersKept DEF ResponseInv
    <2> QED BY <1>1, <2>2 DEF ResponseInv, Sent
  <1>2. ASSUME ~Sent, pc # "sign_responses", ~Sent', pc' # "sign_responses",
               signed'.resp_0 = signed.resp_0, signed'.resp_1 = signed.resp_1
        PROVE  ResponseInv'
    BY <1>2 DEF ResponseInv
  <1>3. ASSUME pc = "sign_responses", UNCHANGED <<pc, i, chall_2, signed>> PROVE ResponseInv'
    <2>1. UNCHANGED round_seeds
      BY <1>3, SeedsKept DEF FlowInv
    <2>2. Answered(i)' <=> Answered(i)
      BY <1>3, <2>1 DEF Answered, Answering, Place, Response, Chall1, Commits1, Rounds
    <2> QED BY <1>3, <2>2 DEF ResponseInv, Sent
  <1>4. CASE UNCHANGED <<pc, i, chall_2, signed>>
    BY <1>1, <1>2, <1>3, <1>4 DEF Sent
  <1>5. CASE \/ SeedMove \/ MerkleMove \/ UNCHANGED vars
    BY <1>4, <1>5 DEF SeedMove, MerkleMove, vars, rounds
  <1>6. CASE SignRound \/ SignRoot \/ SignProof
    <2>1. ~Sent /\ pc # "sign_responses" /\ ~Sent' /\ pc' # "sign_responses"
      BY <1>6 DEF SignRound, SignRoot, SignProof, Sent
    <2>2. signed'.resp_0 = signed.resp_0 /\ signed'.resp_1 = signed.resp_1
      BY <1>6 DEF SignRound, SignRoot, SignProof, TypeOK, RoundTypeOK
    <2> QED BY <1>2, <2>1, <2>2
  <1>7. CASE SignPath
    <2>1. pc = "sign_path" /\ pc' = "sign_responses" /\ i' = 0 /\ UNCHANGED <<signed, chall_2>>
      BY <1>7 DEF SignPath
    <2>2. signed.resp_0 = <<>> /\ signed.resp_1 = <<>>
      BY <2>1 DEF ResponseInv, Sent
    <2>3. Answering(i)' = Answering(0) /\ Place(i)' = Place(0)
      BY <2>1 DEF Answering, Place
    <2>4. Answered(i)'
      BY <2>1, <2>2, <2>3, NoPlace DEF Answered
    <2> QED BY <2>1, <2>4 DEF ResponseInv, Sent
  <1>8. CASE SignResponse
    <2>1. pc = "sign_responses" /\ pc' = pc
      BY <1>8 DEF SignResponse
    <2> QED BY <1>8, <2>1, SignResponseStep DEF ResponseInv, Sent
  <1>9. CASE SignDone
    <2>1. /\ pc = "sign_responses" /\ pc' = "send" /\ i = T
          /\ UNCHANGED <<chall_2, round_seeds, signed>>
      BY <1>9 DEF SignDone, seeds
    <2>2. Answered(T)'
      BY <2>1, AnswersKept DEF ResponseInv
    <2> QED BY <2>1, <2>2 DEF ResponseInv, Sent
  <1>10. CASE \/ Send \/ VerifySeeds \/ VerifySeedRound \/ VerifyResponseRound \/ VerifyRoot \/ Compare
    <2>1. Sent /\ Sent' /\ UNCHANGED <<chall_2, signed>>
      BY <1>10 DEF Send, VerifySeeds, VerifySeedRound, VerifyResponseRound, VerifyRoot, Compare, Sent
    <2> QED BY <1>1, <2>1
  <1> QED BY <1>5, <1>6, <1>7, <1>8, <1>9, <1>10, Moves

\* A round of the signer leaves every round before it queued or committed.
LEMMA SignRoundCommits ==
  ASSUME TypeOK, FlowInv, SignerInv, SP!IInv, SignRound
  PROVE  /\ i = T - 1 => queue0' = <<>>
         /\ \A k \in DOMAIN queue0' :
              queue0'[k].round \in 0 .. i /\ queue0'[k].in = round_seeds[queue0'[k].round]
         /\ \A r \in 0 .. i :
              InQueue(queue0', r) \/ (cmt_0'[r] = Commits0[r] /\ cmt_1'[r] = Commits1[r])
  <1>1. /\ i \in Rounds /\ round_seeds \in [Rounds -> Seed] /\ SignInputs \in Seq(Inputs)
        /\ queue0' = IF Flush(SignInputs) THEN <<>> ELSE SignInputs
        /\ cmt_0' = IF Flush(SignInputs) THEN RunBatch(cmt_0, SignInputs, Commit0) ELSE cmt_0
        /\ cmt_1' = IF Flush(SignInputs) THEN RunBatch(cmt_1, SignInputs, Commit1) ELSE cmt_1
    BY SignRoundStep DEF TypeOK
  <1>2. cmt_0 \in Commitments /\ cmt_1 \in Commitments /\ queue0 \in Seq(Inputs)
    BY DEF TypeOK, RoundTypeOK, Commitments, Inputs
  <1>3. /\ \A k \in DOMAIN queue0 :
             queue0[k].round \in 0 .. i - 1 /\ queue0[k].in = round_seeds[queue0[k].round]
        /\ \A r \in 0 .. i - 1 :
             InQueue(queue0, r) \/ (cmt_0[r] = Commits0[r] /\ cmt_1[r] = Commits1[r])
        /\ i \in Nat /\ T \in Nat /\ \A r \in 0 .. i : r \in Rounds /\ (r \in 0 .. i - 1 \/ r = i)
    <2>1. i \in Nat /\ T \in Nat /\ \A r \in 0 .. i : r \in Rounds /\ (r \in 0 .. i - 1 \/ r = i)
      BY <1>1, LevelFacts DEF Rounds
    <2>2. pc = "sign_rounds"
      BY DEF SignRound
    <2> QED BY <2>1, <2>2, Zenon DEF SignerInv
  <1>4. /\ \A r : InQueue(SignInputs, r) <=> InQueue(queue0, r) \/ r = i
        /\ \A k \in DOMAIN SignInputs : \/ SignInputs[k] = [round |-> i, in |-> round_seeds[i]]
                                        \/ \E m \in DOMAIN queue0 : SignInputs[k] = queue0[m]
    <2>1. [round |-> i, in |-> round_seeds[i]] \in Inputs
      BY <1>1 DEF Inputs
    <2> QED BY <1>2, <2>1, JoinInputs DEF SignInputs
  <1>5. ASSUME NEW k \in DOMAIN SignInputs
        PROVE  /\ SignInputs[k].round \in 0 .. i
               /\ SignInputs[k].in = round_seeds[SignInputs[k].round]
    <2>1. CASE SignInputs[k] = [round |-> i, in |-> round_seeds[i]]
      BY <1>3, <2>1
    <2>2. CASE \E m \in DOMAIN queue0 : SignInputs[k] = queue0[m]
      BY <1>3, <2>2
    <2> QED BY <1>4, <2>1, <2>2
  <1>10. /\ Commit0 \in [(Seed \union {NoSeed}) \X Rounds -> Digest]
         /\ Commit1 \in [(Seed \union {NoSeed}) \X Rounds -> Digest]
    BY CommitAssumption
  <1>6. FlushedTo(cmt_0, SignInputs, Commit0, cmt_0', queue0')
    BY <1>1, <1>2, <1>10, Flushed
  <1>7. FlushedTo(cmt_1, SignInputs, Commit1, cmt_1', queue0')
    BY <1>1, <1>2, <1>10, Flushed
  <1>8. ASSUME NEW k \in DOMAIN queue0'
        PROVE  queue0'[k].round \in 0 .. i /\ queue0'[k].in = round_seeds[queue0'[k].round]
    BY <1>5, <1>6 DEF FlushedTo
  <1>9. ASSUME NEW r \in 0 .. i
        PROVE  InQueue(queue0', r) \/ (cmt_0'[r] = Commits0[r] /\ cmt_1'[r] = Commits1[r])
    <2>1. r \in Rounds /\ Commits0[r] = Commit0[<<round_seeds[r], r>>]
          /\ Commits1[r] = Commit1[<<round_seeds[r], r>>]
      BY <1>3 DEF Commits0, Commits1
    <2>2. CASE InQueue(SignInputs, r)
      <3>1. \A k \in DOMAIN SignInputs : SignInputs[k].round = r => SignInputs[k].in = round_seeds[r]
        BY <1>5
      <3>2. InQueue(queue0', r) \/ cmt_0'[r] = Commit0[<<round_seeds[r], r>>]
        BY <1>6, <2>1, <2>2, <3>1, Zenon DEF FlushedTo
      <3>3. InQueue(queue0', r) \/ cmt_1'[r] = Commit1[<<round_seeds[r], r>>]
        BY <1>7, <2>1, <2>2, <3>1, Zenon DEF FlushedTo
      <3> QED BY <2>1, <3>2, <3>3
    <2>3. CASE ~InQueue(SignInputs, r)
      BY <1>3, <1>4, <1>6, <1>7, <2>1, <2>3 DEF FlushedTo
    <2> QED BY <2>2, <2>3
  <1> QED BY <1>6, <1>8, <1>9 DEF FlushedTo

\* What the signer's invariant says of a function, said of another.
LEMMA AllCommitted ==
  ASSUME NEW cmt \in Commitments, \A r \in 0 .. T - 1 : cmt[r] = Commits1[r]
  PROVE  cmt = Commits1
  BY DEF Commitments, Commits1, Rounds

LEMMA SignerStep ==
  ASSUME TypeOK, FlowInv, SignerInv, SP!IInv, [Next]_vars
  PROVE  SignerInv'
  <1>0. T \in Nat \ {0}
    BY LevelFacts
  <1>1. ASSUME pc # "sign_rounds", pc' # "sign_rounds",
               pc' \in {"sign_challenge", "sign_path", "sign_responses"} =>
                 cmt_1' = cmt_1 /\ pc \in {"sign_challenge", "sign_path", "sign_responses"},
               pc' # "sign_challenge" =>
                 \/ /\ pc # "sign_challenge" /\ tree' = tree
                    /\ signed'.root = signed.root /\ signed'.cmt_1 = signed.cmt_1
                 \/ pc = "sign_challenge" /\ signed'.root = tree'[0] /\ signed'.cmt_1 = cmt_1
        PROVE  SignerInv'
    <2>1. Commits1' = Commits1
      BY <1>1, SeedsKept DEF FlowInv, Commits1, Rounds
    <2> QED BY <1>1, <2>1 DEF SignerInv
  <1>2. CASE SeedMove
    <2>1. UNCHANGED <<pc, i, queue0, queue1, cmt_0, cmt_1, signed, tree>>
      BY <1>2 DEF SeedMove, rounds, merkle
    <2>2. CASE pc = "sign_rounds"
      <3>1. i = 0
        BY <1>2, <2>2, SeedFrame DEF FlowInv
      <3>2. /\ \A k \in DOMAIN queue0 : queue0[k].round \in 0 .. i - 1
            /\ \A r : r \notin 0 .. i - 1
        BY <2>2, <3>1 DEF SignerInv
      <3>3. DOMAIN queue0 = {}
        BY <3>2
      <3> QED BY <1>0, <2>1, <2>2, <3>1, <3>2, <3>3 DEF SignerInv
    <2> QED BY <1>1, <2>1, <2>2
  <1>3. CASE MerkleMove
    <2>1. UNCHANGED <<pc, i, queue0, queue1, cmt_0, cmt_1, signed>>
      BY <1>3 DEF MerkleMove, rounds
    <2>2. pc # "sign_rounds" /\ (pc # "sign_challenge" => UNCHANGED tree)
      BY <1>3, MerkleFrame DEF FlowInv
    <2> QED BY <1>1, <2>1, <2>2
  <1>4. CASE SignRound
    <2>1. /\ pc = "sign_rounds" /\ pc' = "sign_rounds" /\ i' = i + 1 /\ i \in Nat /\ i < T
          /\ queue1' = queue0' /\ UNCHANGED round_seeds
      BY <1>0, <1>4 DEF SignRound, FlowInv, seeds
    <2>2. Commits0' = Commits0 /\ Commits1' = Commits1
      BY <2>1 DEF Commits0, Commits1, Rounds
    <2>3. 0 .. i' - 1 = 0 .. i /\ (i' = T <=> i = T - 1)
      BY <1>0, <2>1
    <2>4. /\ i' = T => queue0' = <<>>
          /\ \A k \in DOMAIN queue0' :
               queue0'[k].round \in 0 .. i' - 1 /\ queue0'[k].in = round_seeds'[queue0'[k].round]
          /\ \A r \in 0 .. i' - 1 :
               InQueue(queue0', r) \/ (cmt_0'[r] = Commits0'[r] /\ cmt_1'[r] = Commits1'[r])
      BY <1>4, <2>1, <2>2, <2>3, SignRoundCommits
    <2> QED BY <2>1, <2>4 DEF SignerInv, InQueue
  <1>5. CASE SignRoot
    <2>1. /\ pc = "sign_rounds" /\ pc' = "sign_challenge" /\ i = T /\ cmt_1' = cmt_1
          /\ UNCHANGED round_seeds
      BY <1>5 DEF SignRoot, rounds, seeds
    <2>2. queue0 = <<>> /\ \A r \in 0 .. i - 1 : cmt_1[r] = Commits1[r]
      BY <2>1 DEF SignerInv, InQueue
    <2>3. cmt_1 = Commits1
      BY <2>1, <2>2, AllCommitted DEF TypeOK, RoundTypeOK, Commitments
    <2>4. Commits1' = Commits1
      BY <2>1 DEF Commits1, Rounds
    <2> QED BY <2>1, <2>3, <2>4 DEF SignerInv
  <1>6. CASE SignProof
    <2>1. /\ pc = "sign_challenge" /\ pc' = "sign_path" /\ UNCHANGED <<cmt_1, tree>>
          /\ signed' = [signed EXCEPT !.root = tree[0], !.cmt_1 = cmt_1]
      BY <1>6 DEF SignProof, rounds, Merkle!CallTreeProof
    <2>2. signed'.root = tree[0] /\ signed'.cmt_1 = cmt_1
      BY <2>1 DEF TypeOK, RoundTypeOK
    <2>3. cmt_1 = Commits1
      BY <2>1 DEF SignerInv
    <2> QED BY <1>1, <2>1, <2>2
  <1>7. CASE SignPath \/ SignDone
    <2>1. /\ pc \in {"sign_path", "sign_responses"} /\ pc' \in {"sign_responses", "send"}
          /\ UNCHANGED <<cmt_1, tree, signed>>
      BY <1>7 DEF SignPath, SignDone, rounds, merkle
    <2> QED BY <1>1, <2>1
  <1>8. CASE SignResponse
    <2>1. /\ pc = "sign_responses" /\ pc' = "sign_responses" /\ UNCHANGED <<cmt_1, tree>>
          /\ signed'.root = signed.root /\ signed'.cmt_1 = signed.cmt_1
      BY <1>8 DEF SignResponse, merkle, TypeOK, RoundTypeOK
    <2> QED BY <1>1, <2>1
  <1>9. CASE \/ Send \/ VerifySeeds \/ VerifySeedRound \/ VerifyResponseRound \/ VerifyRoot \/ Compare
    <2>1. /\ pc \notin {"sign_rounds", "sign_challenge", "sign_path", "sign_responses"}
          /\ pc' \notin {"sign_rounds", "sign_challenge", "sign_path", "sign_responses"}
          /\ UNCHANGED <<tree, signed>>
      BY <1>9 DEF Send, VerifySeeds, VerifySeedRound, VerifyResponseRound, VerifyRoot, Compare, merkle,
           Merkle!CallRecomputeRoot
    <2> QED BY <1>1, <2>1
  <1>10. CASE UNCHANGED vars
    <2>1. UNCHANGED <<pc, i, queue0, queue1, cmt_0, cmt_1, signed, tree, round_seeds>>
      BY <1>10 DEF vars, rounds, seeds, merkle
    <2>2. Commits0' = Commits0 /\ Commits1' = Commits1
      BY <2>1 DEF Commits0, Commits1, Rounds
    <2> QED BY <2>1, <2>2 DEF SignerInv, InQueue
  <1> QED BY <1>2, <1>3, <1>4, <1>5, <1>6, <1>7, <1>8, <1>9, <1>10, Moves

\* What the verifier has after n rounds.
VerifierAt(n, q0, q1, c0, c1, y1, used) ==
  /\ used = Place(n)
  /\ n = T => q0 = <<>> /\ q1 = <<>>
  /\ \A k \in DOMAIN q0 : q0[k].round \in Answering(n) /\ q0[k].in = Input0(q0[k].round)
  /\ \A k \in DOMAIN q1 : /\ q1[k].round \in (0 .. n - 1) \ Answering(n)
                          /\ q1[k].in = round_seeds[q1[k].round]
  /\ \A r \in Answering(n) :
       /\ InQueue(q0, r) \/ c0[r] = Commit0[<<Input0(r), r>>]
       /\ c1[r] = Commits1[r] /\ y1[r] = Response(round_seeds[r], "signed", r)
  /\ \A r \in (0 .. n - 1) \ Answering(n) :
       /\ InQueue(q1, r) \/ c1[r] = Commits1[r]
       /\ y1[r] = Response(round_seeds[r], Received, r)

LEMMA VerifierIs ==
  /\ VerifierInv <=>
       (Verifying => VerifierAt(i, queue0, queue1, cmt_0, cmt_1, y, used_rsps))
  /\ UNCHANGED <<fault, chall_2, round_seeds>> =>
       (VerifierInv' <=>
          (Verifying' => VerifierAt(i', queue0', queue1', cmt_0', cmt_1', y', used_rsps')))
  <1>1. VerifierInv <=> (Verifying => VerifierAt(i, queue0, queue1, cmt_0, cmt_1, y, used_rsps))
    BY DEF VerifierInv, VerifierAt
  <1>2. ASSUME UNCHANGED <<fault, chall_2, round_seeds>>
        PROVE  VerifierInv' <=>
                 (Verifying' => VerifierAt(i', queue0', queue1', cmt_0', cmt_1', y', used_rsps'))
    <2>1. /\ Commits1' = Commits1 /\ Received' = Received
          /\ \A r : Input0(r)' = Input0(r)
          /\ \A r : InQueue(queue0, r)' = InQueue(queue0', r)
          /\ \A r : InQueue(queue1, r)' = InQueue(queue1', r)
          /\ Answering(i)' = Answering(i') /\ Place(i)' = Place(i')
      BY <1>2 DEF Commits1, Received, Input0, InQueue, Answering, Place, Rounds
    <2> QED BY <1>2, <2>1 DEF VerifierInv, VerifierAt, Response, Chall1
  <1> QED BY <1>1, <1>2

\* A round whose seed the verifier has.
LEMMA VerifySeedRoundCommits ==
  ASSUME TypeOK, FlowInv, VerifierInv, SP!IInv, VerifySeedRound
  PROVE  VerifierAt(i + 1, queue0', queue1', cmt_0', cmt_1', y', used_rsps')
  <1>1. /\ pc = "verify_rounds" /\ i \in Rounds /\ chall_2[i] = 1
        /\ round_seeds \in [Rounds -> Seed] /\ SeedInputs \in Seq(Inputs)
        /\ queue0' = IF Flush(queue0) THEN <<>> ELSE queue0
        /\ queue1' = IF Flush(SeedInputs) THEN <<>> ELSE SeedInputs
        /\ cmt_0' = IF Flush(queue0) THEN RunBatch(cmt_0, queue0, Commit0) ELSE cmt_0
        /\ cmt_1' = IF Flush(SeedInputs) THEN RunBatch(cmt_1, SeedInputs, Commit1) ELSE cmt_1
        /\ y' = [y EXCEPT ![i] = Response(round_seeds[i], Received, i)]
        /\ UNCHANGED <<used_rsps, signed>>
    BY VerifySeedRoundStep DEF TypeOK
  <1>2. /\ cmt_0 \in Commitments /\ cmt_1 \in Commitments
        /\ queue0 \in Seq(Inputs) /\ queue1 \in Seq(Inputs) /\ DOMAIN y = Rounds
        /\ Commit0 \in [(Seed \union {NoSeed}) \X Rounds -> Digest]
        /\ Commit1 \in [(Seed \union {NoSeed}) \X Rounds -> Digest]
    BY CommitAssumption DEF TypeOK, RoundTypeOK, Commitments, Inputs
  <1>3. FlushedTo(cmt_0, queue0, Commit0, cmt_0', queue0')
    BY <1>1, <1>2, Flushed
  <1>4. FlushedTo(cmt_1, SeedInputs, Commit1, cmt_1', queue1')
    BY <1>1, <1>2, Flushed
  <1>5. VerifierAt(i, queue0, queue1, cmt_0, cmt_1, y, used_rsps)
    BY <1>1, VerifierIs DEF Verifying
  <1>6. /\ i \in Nat /\ T \in Nat /\ \A r \in 0 .. i : r \in Rounds /\ (r \in 0 .. i - 1 \/ r = i)
        /\ 0 .. (i + 1) - 1 = 0 .. i /\ (i + 1 = T => i = T - 1)
    BY <1>1, LevelFacts DEF Rounds
  <1>7. /\ Answering(i + 1) = Answering(i) /\ Place(i + 1) = Place(i) /\ i \notin Answering(i)
        /\ Answering(i) \subseteq 0 .. i - 1
    <2>1. Answering(i) \subseteq 0 .. i - 1
      BY DEF Answering
    <2>2. Place(i + 1) = Place(i) /\ Answering(i + 1) = Answering(i) /\ i \notin Answering(i)
      <3>1. chall_2[i] # 0 /\ i \in Nat
        BY <1>1, <1>6
      <3> QED BY <3>1, PlaceStep
    <2> QED BY <2>1, <2>2
  <1>8. /\ \A r : InQueue(SeedInputs, r) <=> InQueue(queue1, r) \/ r = i
        /\ \A k \in DOMAIN SeedInputs : \/ SeedInputs[k] = [round |-> i, in |-> round_seeds[i]]
                                        \/ \E m \in DOMAIN queue1 : SeedInputs[k] = queue1[m]
    <2>1. [round |-> i, in |-> round_seeds[i]] \in Inputs
      BY <1>1 DEF Inputs
    <2> QED BY <1>2, <2>1, JoinInputs DEF SeedInputs
  <1>9. ASSUME NEW k \in DOMAIN SeedInputs
        PROVE  /\ SeedInputs[k].round \in (0 .. i) \ Answering(i)
               /\ SeedInputs[k].in = round_seeds[SeedInputs[k].round]
    <2>1. CASE SeedInputs[k] = [round |-> i, in |-> round_seeds[i]]
      BY <1>6, <1>7, <2>1
    <2>2. CASE \E m \in DOMAIN queue1 : SeedInputs[k] = queue1[m]
      BY <1>5, <1>6, <2>2 DEF VerifierAt
    <2> QED BY <1>8, <2>1, <2>2
  <1>10. used_rsps' = Place(i + 1) /\ (i + 1 = T => queue0' = <<>> /\ queue1' = <<>>)
    BY <1>1, <1>3, <1>4, <1>5, <1>6, <1>7 DEF VerifierAt, FlushedTo
  <1>11. \A k \in DOMAIN queue0' : /\ queue0'[k].round \in Answering(i + 1)
                                   /\ queue0'[k].in = Input0(queue0'[k].round)
    BY <1>3, <1>5, <1>7 DEF VerifierAt, FlushedTo
  <1>12. \A k \in DOMAIN queue1' : /\ queue1'[k].round \in (0 .. (i + 1) - 1) \ Answering(i + 1)
                                   /\ queue1'[k].in = round_seeds[queue1'[k].round]
    BY <1>4, <1>6, <1>7, <1>9 DEF FlushedTo
  <1>13. ASSUME NEW r \in Answering(i)
         PROVE  /\ InQueue(queue0', r) \/ cmt_0'[r] = Commit0[<<Input0(r), r>>]
                /\ cmt_1'[r] = Commits1[r] /\ y'[r] = Response(round_seeds[r], "signed", r)
    <2>1. r \in Rounds /\ r # i /\ r \in 0 .. i - 1
      BY <1>6, <1>7
    <2>2. InQueue(queue0', r) \/ cmt_0'[r] = Commit0[<<Input0(r), r>>]
      <3>1. CASE InQueue(queue0, r)
        <4>1. \A k \in DOMAIN queue0 : queue0[k].round = r => queue0[k].in = Input0(r)
          BY <1>5 DEF VerifierAt
        <4> QED BY <1>3, <2>1, <3>1, <4>1, Zenon DEF FlushedTo
      <3>2. CASE ~InQueue(queue0, r)
        BY <1>3, <1>5, <2>1, <3>2 DEF FlushedTo, VerifierAt
      <3> QED BY <3>1, <3>2
    <2>3. ~InQueue(SeedInputs, r)
      <3>1. ~InQueue(queue1, r)
        BY <1>5 DEF VerifierAt, InQueue
      <3> QED BY <1>8, <2>1, <3>1
    <2>4. cmt_1'[r] = Commits1[r]
      BY <1>4, <1>5, <2>1, <2>3 DEF FlushedTo, VerifierAt
    <2>5. y'[r] = Response(round_seeds[r], "signed", r)
      BY <1>1, <1>2, <1>5, <2>1 DEF VerifierAt
    <2> QED BY <2>2, <2>4, <2>5
  <1>14. ASSUME NEW r \in (0 .. i) \ Answering(i)
         PROVE  /\ InQueue(queue1', r) \/ cmt_1'[r] = Commits1[r]
                /\ y'[r] = Response(round_seeds[r], Received, r)
    <2>1. r \in Rounds /\ (r \in (0 .. i - 1) \ Answering(i) \/ r = i)
      BY <1>6
    <2>2. Commits1[r] = Commit1[<<round_seeds[r], r>>]
      BY <2>1 DEF Commits1
    <2>3. CASE InQueue(SeedInputs, r)
      <3>1. \A k \in DOMAIN SeedInputs : SeedInputs[k].round = r => SeedInputs[k].in = round_seeds[r]
        BY <1>9
      <3>2. InQueue(queue1', r) \/ cmt_1'[r] = Commit1[<<round_seeds[r], r>>]
        BY <1>4, <2>1, <2>3, <3>1, Zenon DEF FlushedTo
      <3> QED BY <1>1, <1>2, <1>5, <2>1, <2>2, <3>2 DEF VerifierAt
    <2>4. CASE ~InQueue(SeedInputs, r)
      <3>1. r # i /\ ~InQueue(queue1, r)
        BY <1>8, <2>4
      <3> QED BY <1>1, <1>2, <1>4, <1>5, <2>1, <2>4, <3>1 DEF FlushedTo, VerifierAt
    <2> QED BY <2>3, <2>4
  <1> QED BY <1>6, <1>7, <1>10, <1>11, <1>12, <1>13, <1>14 DEF VerifierAt

\* A round that the signer has answered.
LEMMA VerifyResponseRoundCommits ==
  ASSUME TypeOK, FlowInv, ResponseInv, VerifierInv, SP!IInv, VerifyResponseRound
  PROVE  VerifierAt(i + 1, queue0', queue1', cmt_0', cmt_1', y', used_rsps')
  <1> DEFINE given == [cmt_1 EXCEPT ![i] = Commits1[i]]
  <1>1. /\ pc = "verify_rounds" /\ i \in Rounds /\ chall_2[i] = 0
        /\ round_seeds \in [Rounds -> Seed] /\ AnswerInputs \in Seq(Inputs)
        /\ Input0(i) \in Seed \union {NoSeed} /\ Commits1[i] \in Digest
        /\ queue0' = IF Flush(AnswerInputs) THEN <<>> ELSE AnswerInputs
        /\ queue1' = IF Flush(queue1) THEN <<>> ELSE queue1
        /\ cmt_0' = IF Flush(AnswerInputs) THEN RunBatch(cmt_0, AnswerInputs, Commit0) ELSE cmt_0
        /\ cmt_1' = IF Flush(queue1) THEN RunBatch(given, queue1, Commit1) ELSE given
        /\ y' = [y EXCEPT ![i] = Response(round_seeds[i], "signed", i)]
        /\ used_rsps' = used_rsps + 1
    BY VerifyResponseRoundStep DEF TypeOK
  <1>2. /\ cmt_0 \in Commitments /\ cmt_1 \in Commitments
        /\ queue0 \in Seq(Inputs) /\ queue1 \in Seq(Inputs) /\ DOMAIN y = Rounds
        /\ Commit0 \in [(Seed \union {NoSeed}) \X Rounds -> Digest]
        /\ Commit1 \in [(Seed \union {NoSeed}) \X Rounds -> Digest]
    BY CommitAssumption DEF TypeOK, RoundTypeOK, Commitments, Inputs
  <1>15. /\ given \in Commitments /\ given[i] = Commits1[i]
         /\ \A r \in Rounds : r # i => given[r] = cmt_1[r]
    BY <1>1, <1>2 DEF Commitments
  <1> HIDE DEF given
  <1>3. FlushedTo(cmt_0, AnswerInputs, Commit0, cmt_0', queue0')
    BY <1>1, <1>2, Flushed
  <1>4. FlushedTo(given, queue1, Commit1, cmt_1', queue1')
    BY <1>1, <1>2, <1>15, Flushed
  <1>5. VerifierAt(i, queue0, queue1, cmt_0, cmt_1, y, used_rsps)
    BY <1>1, VerifierIs DEF Verifying
  <1>6. /\ i \in Nat /\ T \in Nat /\ \A r \in 0 .. i : r \in Rounds /\ (r \in 0 .. i - 1 \/ r = i)
        /\ 0 .. (i + 1) - 1 = 0 .. i /\ (i + 1 = T => i = T - 1)
    BY <1>1, LevelFacts DEF Rounds
  <1>7. /\ Answering(i + 1) = Answering(i) \union {i} /\ Place(i + 1) = Place(i) + 1
        /\ i \notin Answering(i) /\ Answering(i) \subseteq 0 .. i - 1
    <2>1. Answering(i) \subseteq 0 .. i - 1
      BY DEF Answering
    <2>2. /\ Place(i + 1) = Place(i) + 1 /\ Answering(i + 1) = Answering(i) \union {i}
          /\ i \notin Answering(i)
      BY <1>1, <1>6, PlaceStep
    <2> QED BY <2>1, <2>2
  <1>8. /\ \A r : InQueue(AnswerInputs, r) <=> InQueue(queue0, r) \/ r = i
        /\ \A k \in DOMAIN AnswerInputs : \/ AnswerInputs[k] = [round |-> i, in |-> Input0(i)]
                                          \/ \E m \in DOMAIN queue0 : AnswerInputs[k] = queue0[m]
    <2>1. [round |-> i, in |-> Input0(i)] \in Inputs
      BY <1>1 DEF Inputs
    <2> QED BY <1>2, <2>1, JoinInputs DEF AnswerInputs
  <1>9. ASSUME NEW k \in DOMAIN AnswerInputs
        PROVE  /\ AnswerInputs[k].round \in Answering(i + 1)
               /\ AnswerInputs[k].in = Input0(AnswerInputs[k].round)
    <2>1. CASE AnswerInputs[k] = [round |-> i, in |-> Input0(i)]
      BY <1>6, <1>7, <2>1
    <2>2. CASE \E m \in DOMAIN queue0 : AnswerInputs[k] = queue0[m]
      BY <1>5, <1>7, <2>2 DEF VerifierAt
    <2> QED BY <1>8, <2>1, <2>2
  <1>10. used_rsps' = Place(i + 1) /\ (i + 1 = T => queue0' = <<>> /\ queue1' = <<>>)
    BY <1>1, <1>3, <1>4, <1>5, <1>6, <1>7 DEF VerifierAt, FlushedTo
  <1>11. \A k \in DOMAIN queue0' : /\ queue0'[k].round \in Answering(i + 1)
                                   /\ queue0'[k].in = Input0(queue0'[k].round)
    BY <1>3, <1>9 DEF FlushedTo
  <1>12. \A k \in DOMAIN queue1' : /\ queue1'[k].round \in (0 .. (i + 1) - 1) \ Answering(i + 1)
                                   /\ queue1'[k].in = round_seeds[queue1'[k].round]
    BY <1>4, <1>5, <1>6, <1>7 DEF FlushedTo, VerifierAt
  <1>13. ASSUME NEW r \in Answering(i + 1)
         PROVE  /\ InQueue(queue0', r) \/ cmt_0'[r] = Commit0[<<Input0(r), r>>]
                /\ cmt_1'[r] = Commits1[r] /\ y'[r] = Response(round_seeds[r], "signed", r)
    <2>1. r \in Rounds /\ (r \in Answering(i) \/ r = i)
      BY <1>6, <1>7
    <2>2. InQueue(queue0', r) \/ cmt_0'[r] = Commit0[<<Input0(r), r>>]
      <3>1. CASE InQueue(AnswerInputs, r)
        <4>1. \A k \in DOMAIN AnswerInputs :
                AnswerInputs[k].round = r => AnswerInputs[k].in = Input0(r)
          BY <1>9
        <4> QED BY <1>3, <2>1, <3>1, <4>1, Zenon DEF FlushedTo
      <3>2. CASE ~InQueue(AnswerInputs, r)
        <4>1. r # i /\ ~InQueue(queue0, r)
          BY <1>8, <3>2
        <4> QED BY <1>3, <1>5, <2>1, <3>2, <4>1 DEF FlushedTo, VerifierAt
      <3> QED BY <3>1, <3>2
    <2>3. ~InQueue(queue1, r)
      BY <1>5, <1>7, <2>1 DEF VerifierAt, InQueue
    <2>4. cmt_1'[r] = Commits1[r]
      <3>1. given[r] = Commits1[r]
        BY <1>5, <1>15, <2>1 DEF VerifierAt
      <3> QED BY <1>4, <2>1, <2>3, <3>1 DEF FlushedTo
    <2>5. y'[r] = Response(round_seeds[r], "signed", r)
      BY <1>1, <1>2, <1>5, <2>1 DEF VerifierAt
    <2> QED BY <2>2, <2>4, <2>5
  <1>14. ASSUME NEW r \in (0 .. i) \ Answering(i + 1)
         PROVE  /\ InQueue(queue1', r) \/ cmt_1'[r] = Commits1[r]
                /\ y'[r] = Response(round_seeds[r], Received, r)
    <2>1. r \in Rounds /\ r \in (0 .. i - 1) \ Answering(i) /\ r # i
      BY <1>6, <1>7
    <2>2. Commits1[r] = Commit1[<<round_seeds[r], r>>]
      BY <2>1 DEF Commits1
    <2>3. y'[r] = Response(round_seeds[r], Received, r)
      BY <1>1, <1>2, <1>5, <2>1 DEF VerifierAt
    <2>4. CASE InQueue(queue1, r)
      <3>1. \A k \in DOMAIN queue1 : queue1[k].round = r => queue1[k].in = round_seeds[r]
        BY <1>5 DEF VerifierAt
      <3>2. InQueue(queue1', r) \/ cmt_1'[r] = Commit1[<<round_seeds[r], r>>]
        BY <1>4, <2>1, <2>4, <3>1, Zenon DEF FlushedTo
      <3> QED BY <2>2, <2>3, <3>2
    <2>5. CASE ~InQueue(queue1, r)
      <3>1. given[r] = Commits1[r]
        BY <1>5, <1>15, <2>1, <2>5 DEF VerifierAt
      <3> QED BY <1>4, <2>1, <2>3, <2>5, <3>1 DEF FlushedTo
    <2> QED BY <2>4, <2>5
  <1> QED BY <1>6, <1>7, <1>10, <1>11, <1>12, <1>13, <1>14 DEF VerifierAt

LEMMA VerifierStep ==
  ASSUME TypeOK, FlowInv, ResponseInv, VerifierInv, SP!IInv, [Next]_vars
  PROVE  VerifierInv'
  <1>0. T \in Nat \ {0}
    BY LevelFacts
  <1>1. ASSUME Verifying,
               UNCHANGED <<fault, chall_2, i, queue0, queue1, cmt_0, cmt_1, y, used_rsps>>
        PROVE  VerifierInv'
    <2>1. round_seeds' = round_seeds
      BY <1>1, SeedsKept DEF Verifying, FlowInv
    <2> QED BY <1>1, <2>1, VerifierIs
  <1>2. CASE ~Verifying'
    BY <1>2 DEF VerifierInv
  <1>3. CASE \/ SignRound \/ SignRoot \/ SignProof \/ SignPath \/ SignResponse \/ SignDone \/ Send
    <2>1. ~Verifying'
      BY <1>3 DEF SignRound, SignRoot, SignProof, SignPath, SignResponse, SignDone, Send, Verifying
    <2> QED BY <1>2, <2>1
  <1>4. CASE \/ SeedMove \/ MerkleMove \/ UNCHANGED vars
    <2>1. UNCHANGED <<fault, chall_2, i, queue0, queue1, cmt_0, cmt_1, y, used_rsps, pc>>
      BY <1>4 DEF SeedMove, MerkleMove, vars, rounds
    <2> QED BY <1>1, <1>2, <2>1 DEF Verifying
  <1>5. CASE VerifyRoot \/ Compare
    <2>1. /\ Verifying
          /\ UNCHANGED <<fault, chall_2, i, queue0, queue1, cmt_0, cmt_1, y, used_rsps>>
      BY <1>5 DEF VerifyRoot, Compare, rounds, Verifying
    <2> QED BY <1>1, <2>1
  <1>6. CASE VerifySeeds
    <2>1. /\ i' = 0 /\ used_rsps' = 0 /\ queue0' = <<>> /\ queue1' = <<>>
          /\ UNCHANGED <<fault, chall_2>> /\ s_pc = "published"
      BY <1>6 DEF VerifySeeds, Seeds!CallRebuild
    <2>2. round_seeds' = round_seeds
      BY <2>1, SeedsKept
    <2>3. VerifierAt(0, <<>>, <<>>, cmt_0', cmt_1', y', 0)
      BY <1>0, NoPlace DEF VerifierAt
    <2> QED BY <2>1, <2>2, <2>3, VerifierIs
  <1>7. CASE VerifySeedRound \/ VerifyResponseRound
    <2>1. VerifierAt(i + 1, queue0', queue1', cmt_0', cmt_1', y', used_rsps')
      BY <1>7, VerifySeedRoundCommits, VerifyResponseRoundCommits
    <2>2. i' = i + 1 /\ UNCHANGED <<fault, chall_2>> /\ s_pc = "rebuilt"
      BY <1>7, RoundFrame DEF VerifySeedRound, VerifyResponseRound
    <2>3. round_seeds' = round_seeds
      BY <2>2, SeedsKept
    <2> QED BY <2>1, <2>2, <2>3, VerifierIs
  <1> QED BY <1>3, <1>4, <1>5, <1>6, <1>7, Moves

-----------------------------------------------------------------------------
(* The batches of the Merkle tree *)

\* The job that hashes pair j of a level, and the queues of such jobs.
PairJob(l, j) == [in |-> Node(l, 2 * j), out |-> Node(l - 1, j)]
PairsOf(q, l) == \A k \in DOMAIN q : \E j \in 0 .. Expanded(l - 1) - 1 : q[k] = PairJob(l, j)
InJobs(q, n)  == \E k \in DOMAIN q : q[k].out = n

\* The parents of the pairs are the inner nodes of the level above.
LEMMA JobLevel ==
  ASSUME NEW l \in 1 .. LOG2T, NEW q, PairsOf(q, l),
         NEW m \in Levels, NEW i1 \in 0 .. npl[m] - 1, InJobs(q, Node(m, i1))
  PROVE  /\ m = l - 1 /\ i1 \in 0 .. Expanded(l - 1) - 1
         /\ \A k \in DOMAIN q : q[k].out = Node(m, i1) => q[k] = PairJob(l, i1)
  <1>1. l - 1 \in 0 .. LOG2T - 1 /\ l - 1 \in Levels
    BY LevelFacts
  <1>2. ASSUME NEW k \in DOMAIN q, q[k].out = Node(m, i1)
        PROVE  m = l - 1 /\ i1 \in 0 .. Expanded(l - 1) - 1 /\ q[k] = PairJob(l, i1)
    <2>1. PICK j \in 0 .. Expanded(l - 1) - 1 : q[k] = PairJob(l, j)
      BY DEF PairsOf
    <2>2. Node(l - 1, j) = Node(m, i1) /\ j \in 0 .. npl[l - 1] - 1
      BY <1>1, <1>2, <2>1, ChildNode DEF PairJob
    <2>3. l - 1 = m /\ j = i1
      BY <1>1, <2>2, NodeOrder
    <2> QED BY <2>1, <2>3
  <1> QED BY <1>2 DEF InJobs

LEMMA HashType ==
  ASSUME NEW a, NEW b
  PROVE  /\ Merkle!Hash(a, b) \in Digest \union {Garbage}
         /\ a \in Digest /\ b \in Digest =>
              Merkle!Hash(a, b) = HashPair[<<a, b>>] /\ HashPair[<<a, b>>] \in Digest
  BY Constants DEF Merkle!Hash

\* A batch hashes the pairs of its jobs and changes nothing else.
LEMMA HashBatch ==
  ASSUME NEW l \in 1 .. LOG2T, NEW t \in [Nodes -> Contents], NEW q, PairsOf(q, l)
  PROVE  /\ Merkle!RunBatch(t, q) \in [Nodes -> Contents]
         /\ \A n \in Nodes : ~InJobs(q, n) => Merkle!RunBatch(t, q)[n] = t[n]
         /\ \A j \in 0 .. Expanded(l - 1) - 1 : InJobs(q, Node(l - 1, j)) =>
              Merkle!RunBatch(t, q)[Node(l - 1, j)]
                = Merkle!Hash(t[Node(l, 2 * j)], t[Node(l, 2 * j + 1)])
  <1> DEFINE job(n) == CHOOSE k \in DOMAIN q : q[k].out = n
             run == Merkle!RunBatch(t, q)
  <1>1. run = [n \in Nodes |-> IF InJobs(q, n) THEN Merkle!Hash(t[q[job(n)].in], t[q[job(n)].in + 1])
                                               ELSE t[n]]
    BY MerkleLayout DEF Merkle!RunBatch, InJobs
  <1>2. \A n : InJobs(q, n) => job(n) \in DOMAIN q /\ q[job(n)].out = n
    BY DEF InJobs
  <1> HIDE DEF job, run
  <1>3. run \in [Nodes -> Contents]
    <2>1. ASSUME NEW n \in Nodes
          PROVE  (IF InJobs(q, n) THEN Merkle!Hash(t[q[job(n)].in], t[q[job(n)].in + 1])
                                  ELSE t[n]) \in Contents
      BY HashType DEF Contents
    <2> QED BY <1>1, <2>1
  <1>4. ASSUME NEW j \in 0 .. Expanded(l - 1) - 1, InJobs(q, Node(l - 1, j))
        PROVE  run[Node(l - 1, j)] = Merkle!Hash(t[Node(l, 2 * j)], t[Node(l, 2 * j + 1)])
    <2>1. l - 1 \in 0 .. LOG2T - 1 /\ (l - 1) + 1 = l
      BY LevelFacts
    <2>2. /\ l - 1 \in Levels /\ j \in 0 .. npl[l - 1] - 1
          /\ Node(l, 2 * j + 1) = Node(l, 2 * j) + 1
      BY <2>1, ChildNode
    <2>3. q[job(Node(l - 1, j))] = PairJob(l, j)
      BY <1>2, <1>4, <2>2, JobLevel
    <2>4. Node(l - 1, j) \in Nodes
      BY <2>2, NodeOrder
    <2> QED BY <1>1, <1>4, <2>2, <2>3, <2>4 DEF PairJob
  <1> QED BY <1>1, <1>3, <1>4 DEF run

\* What is left of a queue q and of a tree when the queue has been looked at: a
\* queued pair still waits or is hashed.
BatchedTo(l, t, q, t2, q2) ==
  /\ t2 \in [Nodes -> Contents]
  /\ q2 = <<>> \/ q2 = q
  /\ Len(q2) < BATCH
  /\ m_at.i = 0 => q2 = <<>>
  /\ \A n \in Nodes : ~InJobs(q, n) => ~InJobs(q2, n) /\ t2[n] = t[n]
  /\ \A j \in 0 .. Expanded(l - 1) - 1 : InJobs(q, Node(l - 1, j)) =>
       \/ InJobs(q2, Node(l - 1, j))
       \/ t2[Node(l - 1, j)] = Merkle!Hash(t[Node(l, 2 * j)], t[Node(l, 2 * j + 1)])

LEMMA Batched ==
  ASSUME NEW l \in 1 .. LOG2T, NEW t \in [Nodes -> Contents],
         NEW q \in Seq(Pairs), PairsOf(q, l), Len(q) <= BATCH,
         NEW t2, t2 = IF Merkle!Flush(q) THEN Merkle!RunBatch(t, q) ELSE t,
         NEW q2, q2 = IF Merkle!Flush(q) THEN <<>> ELSE q
  PROVE  BatchedTo(l, t, q, t2, q2)
  <1> DEFINE run == Merkle!RunBatch(t, q)
  <1>1. /\ run \in [Nodes -> Contents]
        /\ \A n \in Nodes : ~InJobs(q, n) => run[n] = t[n]
        /\ \A j \in 0 .. Expanded(l - 1) - 1 : InJobs(q, Node(l - 1, j)) =>
             run[Node(l - 1, j)] = Merkle!Hash(t[Node(l, 2 * j)], t[Node(l, 2 * j + 1)])
    BY HashBatch, Zenon
  <1>2. Merkle!Flush(q) <=> Len(q) = BATCH \/ m_at.i = 0
    BY DEF Merkle!Flush, Merkle!BATCH, BATCH
  <1>3. t2 = IF Merkle!Flush(q) THEN run ELSE t
    OBVIOUS
  <1> HIDE DEF run
  <1>4. CASE Merkle!Flush(q)
    <2>1. t2 = run /\ q2 = <<>>
      BY <1>3, <1>4
    <2>2. \A n : ~InJobs(q2, n)
      BY <2>1 DEF InJobs
    <2>3. Len(q2) < BATCH
      BY <2>1 DEF BATCH
    <2> QED BY <1>1, <2>1, <2>2, <2>3, Zenon DEF BatchedTo
  <1>5. CASE ~Merkle!Flush(q)
    <2>1. t2 = t /\ q2 = q /\ m_at.i # 0
      BY <1>2, <1>3, <1>5
    <2>2. Len(q) < BATCH
      <3>1. Len(q) # BATCH
        BY <1>2, <1>5
      <3>2. Len(q) \in Nat
        OBVIOUS
      <3>3. \A n \in Nat : n <= BATCH /\ n # BATCH => n < BATCH
        BY DEF BATCH
      <3> QED BY <3>1, <3>2, <3>3, Zenon
    <2> QED BY <2>1, <2>2, Zenon DEF BatchedTo
  <1> QED BY <1>4, <1>5

\* The queue holds pairs of the level being walked.
LEMMA QueuePairs ==
  ASSUME QueueInv, NEW l, l = m_at.level
  PROVE  /\ PairsOf(m_queue, l) /\ Len(m_queue) < BATCH
         /\ \A n : Queued(n) <=> InJobs(m_queue, n)
         /\ \A k \in DOMAIN m_queue : \E j \in 0 .. Expanded(l - 1) - 1 :
              /\ m_queue[k] = PairJob(l, j) /\ Passed(l - 1, j)
              /\ BatchTree[Node(l, 2 * j)] \in Digest /\ BatchTree[Node(l, 2 * j + 1)] \in Digest
  BY DEF QueueInv, PairsOf, PairJob, Queued, InJobs

\* The queue the pair being looked at has joined.
LEMMA JoinJobs ==
  ASSUME TypeOK, PositionInv, QueueInv, m_pc # "start", m_at.level > 0,
         NEW l, l = m_at.level, NEW j, j = m_at.i \div 2
  PROVE  /\ HashJobs \in Seq(Pairs) /\ PairsOf(HashJobs, l) /\ Len(HashJobs) <= BATCH
         /\ \A n : InJobs(HashJobs, n) <=> Queued(n) \/ n = Node(l - 1, j)
         /\ \A k \in DOMAIN HashJobs :
              HashJobs[k] = PairJob(l, j) \/ \E m \in DOMAIN m_queue : HashJobs[k] = m_queue[m]
  <1>1. /\ Merkle!Job = PairJob(l, j) /\ j \in 0 .. Expanded(l - 1) - 1
        /\ Node(l, 2 * j) \in Nodes /\ Node(l - 1, j) \in Nodes
    BY PairFacts DEF PairJob
  <1>2. PairJob(l, j) \in Pairs
    BY <1>1 DEF PairJob, Pairs
  <1>3. HashJobs = Append(m_queue, PairJob(l, j)) /\ m_queue \in Seq(Pairs)
    BY <1>1 DEF HashJobs, TypeOK, TreeTypeOK
  <1>4. PairsOf(m_queue, l) /\ Len(m_queue) < BATCH /\ \A n : Queued(n) <=> InJobs(m_queue, n)
    BY QueuePairs
  <1>5. /\ HashJobs \in Seq(Pairs) /\ Len(HashJobs) = Len(m_queue) + 1 /\ Len(m_queue) \in Nat
        /\ DOMAIN HashJobs = 1 .. Len(m_queue) + 1 /\ DOMAIN m_queue = 1 .. Len(m_queue)
        /\ HashJobs[Len(m_queue) + 1] = PairJob(l, j)
        /\ \A k \in 1 .. Len(m_queue) : HashJobs[k] = m_queue[k]
    BY <1>2, <1>3
  <1>6. /\ \A k \in DOMAIN HashJobs : k = Len(m_queue) + 1 \/ k \in DOMAIN m_queue
        /\ Len(m_queue) + 1 \in DOMAIN HashJobs /\ \A k \in DOMAIN m_queue : k \in DOMAIN HashJobs
    BY <1>5
  <1>7. \A k \in DOMAIN HashJobs :
          HashJobs[k] = PairJob(l, j) \/ \E m \in DOMAIN m_queue : HashJobs[k] = m_queue[m]
    BY <1>5, <1>6
  <1>8. PairsOf(HashJobs, l)
    BY <1>1, <1>4, <1>7 DEF PairsOf
  <1>9. Len(HashJobs) <= BATCH
    BY <1>4, <1>5 DEF BATCH
  <1>10. ASSUME NEW n PROVE InJobs(HashJobs, n) <=> Queued(n) \/ n = Node(l - 1, j)
    <2>1. PairJob(l, j).out = Node(l - 1, j)
      BY DEF PairJob
    <2> QED BY <1>4, <1>5, <1>6, <2>1 DEF InJobs
  <1> QED BY <1>5, <1>7, <1>8, <1>9, <1>10

\* What a queue may hold when the loop goes on.
LEMMA QueueNext ==
  ASSUME TypeOK, PositionInv, QueueInv, m_pc \in {"tree_root", "recompute_root"}, m_at.level > 0,
         m_at' = Up(m_at), m_pc' = m_pc,
         NEW l, l = m_at.level, NEW j, j = m_at.i \div 2,
         NEW t, NEW q, q = m_queue \/ q = HashJobs, BatchedTo(l, t, q, BatchTree', m_queue'),
         \A k \in DOMAIN q : \A j2 \in 0 .. Expanded(l - 1) - 1 : q[k] = PairJob(l, j2) =>
           t[Node(l, 2 * j2)] \in Digest /\ t[Node(l, 2 * j2 + 1)] \in Digest
  PROVE  QueueInv'
  <1> DEFINE q2 == m_queue'
             t2 == BatchTree'
             u  == Up(m_at)
  <1>1. /\ l \in 1 .. LOG2T /\ l \in Levels /\ l - 1 \in 0 .. LOG2T - 1 /\ l - 1 \in Levels
        /\ (l - 1) + 1 = l /\ l # l - 1 /\ j \in 0 .. Expanded(l - 1) - 1 /\ m_at.i = 2 * j
    BY PairFacts
  <1>2. /\ u.level \in Levels /\ u.level > 0 => u.i \in 0 .. npl[u.level] - 2
        /\ m_at.i > 0 => u.level = l /\ u.i = m_at.i - 2
        /\ m_at.i = 0 => u.level = l - 1
        /\ \A k \in 0 .. Expanded(l - 1) - 1 :
             Node((l - 1) + 1, 2 * k) > Current(u) <=>
               Node((l - 1) + 1, 2 * k) > Current(m_at) \/ k = j
    BY <1>1, MerkleUp
  <1>3. /\ q2 = <<>> \/ q2 = q
        /\ Len(q2) < BATCH /\ (m_at.i = 0 => q2 = <<>>)
        /\ \A n \in Nodes : ~InJobs(q, n) => t2[n] = t[n]
    BY DEF BatchedTo
  <1>4. PairsOf(q, l) /\ \A k \in DOMAIN q : q[k] = PairJob(l, j) \/ \E m \in DOMAIN m_queue : q[k] = m_queue[m]
    BY QueuePairs, JoinJobs
  <1>5. ASSUME NEW k \in DOMAIN q2
        PROVE  \E j2 \in 0 .. Expanded(u.level - 1) - 1 :
                 /\ q2[k] = PairJob(u.level, j2) /\ Node((u.level - 1) + 1, 2 * j2) > Current(u)
                 /\ t2[Node(u.level, 2 * j2)] \in Digest /\ t2[Node(u.level, 2 * j2 + 1)] \in Digest
    <2>1. q2 = q /\ m_at.i > 0 /\ u.level = l
      BY <1>1, <1>2, <1>3, <1>5
    <2>2. \E j2 \in 0 .. Expanded(l - 1) - 1 :
            q[k] = PairJob(l, j2) /\ Node((l - 1) + 1, 2 * j2) > Current(u)
      <3>1. CASE q[k] = PairJob(l, j)
        BY <1>1, <1>2, <3>1
      <3>2. CASE \E m \in DOMAIN m_queue : q[k] = m_queue[m]
        <4>1. \E j2 \in 0 .. Expanded(l - 1) - 1 : q[k] = PairJob(l, j2) /\ Passed(l - 1, j2)
          BY <3>2, QueuePairs
        <4> QED BY <1>2, <4>1 DEF Passed
      <3> QED BY <1>4, <1>5, <2>1, <3>1, <3>2
    <2>3. PICK j2 \in 0 .. Expanded(l - 1) - 1 :
            q[k] = PairJob(l, j2) /\ Node((l - 1) + 1, 2 * j2) > Current(u)
      BY <2>2
    <2>4. t[Node(l, 2 * j2)] \in Digest /\ t[Node(l, 2 * j2 + 1)] \in Digest
      BY <1>5, <2>1, <2>3
    <2>5. /\ 2 * j2 \in 0 .. npl[l] - 1 /\ 2 * j2 + 1 \in 0 .. npl[l] - 1
          /\ Node(l, 2 * j2) \in Nodes /\ Node(l, 2 * j2 + 1) \in Nodes
      <3>1. 2 * j2 \in 0 .. npl[l] - 1 /\ 2 * j2 + 1 \in 0 .. npl[l] - 1
        BY <1>1, ChildNode
      <3> QED BY <1>1, <3>1, NodeOrder
    <2>6. ~InJobs(q, Node(l, 2 * j2)) /\ ~InJobs(q, Node(l, 2 * j2 + 1))
      BY <1>1, <1>4, <2>5, JobLevel
    <2> QED BY <1>3, <2>1, <2>3, <2>4, <2>5, <2>6
  <1>6. u.i = npl[u.level] - 2 \/ u.level = 0 => q2 = <<>>
    <2>1. npl[l] \in Nat /\ Expanded(l - 1) \in Nat /\ npl[l] = 2 * Expanded(l - 1)
      BY <1>1, LevelFacts
    <2>2. m_at.i = 2 * j /\ j \in 0 .. Expanded(l - 1) - 1 /\ l > 0
      BY <1>1
    <2>3. ASSUME m_at.i > 0 PROVE u.level = l /\ u.i # npl[l] - 2 /\ u.level # 0
      BY <1>2, <2>1, <2>2, <2>3
    <2>4. CASE m_at.i = 0
      BY <1>3, <2>4
    <2>5. CASE m_at.i > 0
      BY <2>3, <2>5
    <2> QED BY <2>2, <2>4, <2>5
  <1>7. m_at' = u /\ Len(q2) < BATCH
    BY <1>3 DEF BATCH
  <1> HIDE DEF u, q2, t2
  <1> QED BY <1>5, <1>6, <1>7 DEF QueueInv, Passed, PairJob, q2, t2

-----------------------------------------------------------------------------
(* The steps of the Merkle tree *)

MerkleStill == UNCHANGED <<m_pc, m_at, m_queue, tree, leaves_to_reveal, flag_tree, proof_nodes,
                           published, recomputed_tree, m_padding_ok>>
MerkleEnd   == MerkleMove /\ (Merkle!RootDone \/ Merkle!ProofDone \/ Merkle!RecomputeDone)

\* What a step does to the Merkle tree: an iteration of a loop or its end, a
\* call, or nothing, except that a wrong padding may be sent.
LEMMA MerkleMoves ==
  ASSUME [Next]_vars
  PROVE  \/ MerkleMove /\ Merkle!HashUp
         \/ MerkleMove /\ Merkle!ProveUp
         \/ MerkleMove /\ Merkle!RecomputeUp
         \/ MerkleEnd
         \/ SignRoot \/ SignProof
         \/ VerifyRoot /\ Merkle!CallRecomputeRoot(cmt_0)
         \/ MerkleStill /\ (Send \/ UNCHANGED proof)
  <1>1. CASE MerkleMove
    BY <1>1 DEF MerkleMove, MerkleEnd, Merkle!Steps
  <1>2. CASE SeedMove \/ SignRound \/ SignPath \/ SignResponse \/ SignDone \/ VerifySeeds
             \/ VerifySeedRound \/ VerifyResponseRound \/ Compare \/ UNCHANGED vars
    <2>1. UNCHANGED merkle
      BY <1>2 DEF SeedMove, SignRound, SignPath, SignResponse, SignDone, VerifySeeds,
           VerifySeedRound, VerifyResponseRound, Compare, vars
    <2> QED BY <2>1 DEF merkle, MerkleStill
  <1>3. CASE Send
    BY <1>3 DEF Send, MerkleStill
  <1>4. CASE VerifyRoot
    BY <1>4 DEF VerifyRoot, merkle, MerkleStill
  <1> QED BY <1>1, <1>2, <1>3, <1>4, Moves

LEMMA RootCall ==
  ASSUME SignRoot
  PROVE  /\ pc = "sign_rounds" /\ i = T /\ m_pc = "start" /\ m_pc' = "tree_root"
         /\ m_at' = FromLeaves /\ tree' = Merkle!WithLeaves(tree, cmt_0)
         /\ UNCHANGED <<m_queue, leaves_to_reveal, flag_tree, proof, proof_nodes, published,
                        recomputed_tree, m_padding_ok, chall_2, fault>>
         /\ UNCHANGED seeds
  BY MerkleLayout DEF SignRoot, Merkle!CallTreeRoot

LEMMA ProofCall ==
  ASSUME SignProof
  PROVE  /\ pc = "sign_challenge" /\ m_pc = "root" /\ m_pc' = "tree_proof"
         /\ chall_2' \in Challenges /\ leaves_to_reveal' = chall_2'
         /\ m_at' = FromLeaves /\ flag_tree' = Merkle!label_leaves(chall_2')
         /\ UNCHANGED <<m_queue, tree, proof, proof_nodes, published, recomputed_tree,
                        m_padding_ok, fault>>
         /\ UNCHANGED seeds
  BY MerkleLayout DEF SignProof, Merkle!CallTreeProof

LEMMA RecomputeCall ==
  ASSUME VerifyRoot, Merkle!CallRecomputeRoot(cmt_0)
  PROVE  /\ pc = "verify_rounds" /\ i = T /\ m_pc = "proof" /\ m_pc' = "recompute_root"
         /\ recomputed_tree' = Merkle!WithLeaves(recomputed_tree, cmt_0)
         /\ m_at' = FromLeaves /\ flag_tree' = Merkle!label_leaves(leaves_to_reveal)
         /\ published' = 0
         /\ UNCHANGED <<m_queue, tree, leaves_to_reveal, proof, proof_nodes, m_padding_ok, chall_2,
                        fault>>
         /\ UNCHANGED seeds
  BY MerkleLayout DEF VerifyRoot, Merkle!CallRecomputeRoot

LEMMA PositionStep ==
  ASSUME TypeOK, PositionInv, [Next]_vars
  PROVE  PositionInv'
  <1>1. ASSUME m_at.level > 0, m_pc # "start", m_at' = Up(m_at),
               m_pc' = m_pc, m_pc \notin {"root", "proof", "recomputed"}
        PROVE  PositionInv'
    <2>1. /\ m_at'.level \in Levels /\ m_at'.start = LevelStart[m_at'.level]
          /\ m_at'.level > 0 => m_at'.i \in 0 .. npl[m_at'.level] - 2 /\ m_at'.i % 2 = 0
          /\ m_at'.level = 0 => m_at'.i = -1
      BY <1>1, MerkleUp
    <2> QED BY <1>1, <2>1 DEF PositionInv, Levels
  <1>2. CASE MerkleMove /\ Merkle!HashUp
    <2>1. m_pc = "tree_root" /\ m_pc' = m_pc /\ m_at.level > 0 /\ m_at' = Up(m_at)
      BY <1>2, HashUpStep
    <2> QED BY <1>1, <2>1
  <1>3. CASE MerkleMove /\ Merkle!ProveUp
    <2>1. m_pc = "tree_proof" /\ m_pc' = m_pc /\ m_at.level > 0 /\ m_at' = Up(m_at)
      BY <1>3, ProveUpStep
    <2> QED BY <1>1, <2>1
  <1>4. CASE MerkleMove /\ Merkle!RecomputeUp
    <2>1. m_pc = "recompute_root" /\ m_pc' = m_pc /\ m_at.level > 0 /\ m_at' = Up(m_at)
      BY <1>4, RecomputeUpStep
    <2> QED BY <1>1, <2>1
  <1>5. CASE MerkleEnd
    <2>1. m_at.level = 0 /\ m_at' = m_at /\ m_pc # "start"
      BY <1>5, DoneStep DEF MerkleEnd
    <2> QED BY <2>1 DEF PositionInv, Levels
  <1>6. ASSUME m_at' = FromLeaves, m_pc' \notin {"root", "proof", "recomputed"}
        PROVE  PositionInv'
    BY <1>6, AtLeaves DEF PositionInv, Levels
  <1>7. CASE SignRoot
    BY <1>6, <1>7, RootCall
  <1>8. CASE SignProof
    BY <1>6, <1>8, ProofCall
  <1>9. CASE VerifyRoot /\ Merkle!CallRecomputeRoot(cmt_0)
    BY <1>6, <1>9, RecomputeCall
  <1>10. CASE MerkleStill
    BY <1>10 DEF MerkleStill, PositionInv, Levels
  <1> QED BY <1>2, <1>3, <1>4, <1>5, <1>7, <1>8, <1>9, <1>10, MerkleMoves

-----------------------------------------------------------------------------
(* The signer's tree *)

\* The walk is through with the pairs below the level it is on.
LEMMA PassedBelow ==
  ASSUME TypeOK, PositionInv, QueueInv, m_pc # "start",
         NEW l \in 0 .. LOG2T - 1, NEW i1 \in 0 .. Expanded(l) - 1, l >= m_at.level
  PROVE  Passed(l, i1) /\ ~Queued(Node(l, i1))
  <1>1. /\ l + 1 \in Levels /\ l \in Levels /\ i1 \in 0 .. npl[l] - 1
        /\ 2 * i1 \in 0 .. npl[l + 1] - 1
    BY ChildNode
  <1>2. Node(l + 1, 2 * i1) \in Nodes
    BY <1>1, NodeOrder
  <1>3. m_at.level \in Levels /\ m_at.level \in Nat /\ l \in Nat
    BY <1>1, LevelFacts DEF PositionInv
  <1>4. CASE m_at.level = 0
    <2>1. Current(m_at) = -1
      BY <1>4, LevelFacts DEF PositionInv, Current
    <2>2. m_queue = <<>>
      BY <1>4 DEF QueueInv
    <2> QED BY <1>2, <2>1, <2>2 DEF Passed, Queued, Nodes
  <1>5. CASE m_at.level > 0
    <2> DEFINE j == m_at.i \div 2
               m == m_at.level
    <2>1. /\ m \in Levels /\ Current(m_at) = Node(m, 2 * j) /\ 2 * j \in 0 .. npl[m] - 1
          /\ m \in 1 .. LOG2T
      BY <1>5, PairFacts
    <2>2. Node(m, 2 * j) < Node(l + 1, 2 * i1) /\ Node(m, 2 * j) \in Nodes
      BY <1>1, <1>3, <2>1, NodeOrder
    <2>3. PairsOf(m_queue, m) /\ (Queued(Node(l, i1)) <=> InJobs(m_queue, Node(l, i1)))
      BY QueuePairs
    <2>4. InJobs(m_queue, Node(l, i1)) => l = m - 1
      BY <1>1, <2>1, <2>3, JobLevel
    <2>5. l # m - 1
      BY <1>3
    <2> QED BY <1>2, <2>1, <2>2, <2>3, <2>4, <2>5 DEF Passed, Nodes
  <1> QED BY <1>3, <1>4, <1>5

\* The nodes on the level the walk is on and below hold digests.
LEMMA NodeDigest ==
  ASSUME TypeOK, FlowInv, PositionInv, QueueInv, HashedInv, SP!IInv, m_pc # "start",
         NEW l \in Levels, NEW i1 \in 0 .. npl[l] - 1, m_pc # "tree_root" \/ l >= m_at.level
  PROVE  tree[Node(l, i1)] \in Digest
  <1>1. ASSUME NEW r \in Rounds, Node(l, i1) = LeafNode(r) PROVE tree[Node(l, i1)] \in Digest
    <2>1. tree[Node(l, i1)] = Commit0[<<round_seeds[r], r>>]
      BY <1>1 DEF HashedInv, Commits0
    <2>2. round_seeds \in [Rounds -> Seed]
      BY SignerSeeds DEF FlowInv
    <2> QED BY <2>1, <2>2, CommitAssumption
  <1>2. ASSUME l \in 0 .. LOG2T - 1, i1 \in 0 .. Expanded(l) - 1
        PROVE  tree[Node(l, i1)] \in Digest
    <2>1. IsHash(l, i1)
      BY <1>2, PassedBelow DEF HashedInv
    <2> QED BY <2>1, Constants DEF IsHash
  <1> QED BY <1>1, <1>2, NodeKinds

-----------------------------------------------------------------------------
(* The two trees lack each other's rounds *)

\* A pair of siblings and its parent.
LEMMA PairNodes ==
  ASSUME NEW l \in 1 .. LOG2T, NEW j \in 0 .. Expanded(l - 1) - 1
  PROVE  /\ l \in Levels /\ l - 1 \in 0 .. LOG2T - 1 /\ l - 1 \in Levels /\ (l - 1) + 1 = l
         /\ 2 * j \in 0 .. npl[l] - 1 /\ 2 * j + 1 \in 0 .. npl[l] - 1 /\ j \in 0 .. npl[l - 1] - 1
         /\ Node(l, 2 * j) \in Nodes /\ Node(l, 2 * j + 1) \in Nodes /\ Node(l - 1, j) \in Nodes
         /\ Node(l, 2 * j + 1) = Node(l, 2 * j) + 1 /\ Node(l - 1, j) < Node(l, 2 * j)
  <1>1. l - 1 \in 0 .. LOG2T - 1 /\ (l - 1) + 1 = l
    BY LevelFacts
  <1>2. /\ l \in Levels /\ l - 1 \in Levels /\ j \in 0 .. npl[l - 1] - 1
        /\ 2 * j \in 0 .. npl[l] - 1 /\ 2 * j + 1 \in 0 .. npl[l] - 1
        /\ Node(l, 2 * j + 1) = Node(l, 2 * j) + 1 /\ Node(l - 1, j) < Node(l, 2 * j)
    BY <1>1, ChildNode
  <1>3. Node(l, 2 * j) \in Nodes /\ Node(l, 2 * j + 1) \in Nodes /\ Node(l - 1, j) \in Nodes
    BY <1>2, NodeOrder
  <1> QED BY <1>1, <1>2, <1>3

LEMMA EvenSibling ==
  ASSUME NEW j \in Int
  PROVE  Sibling(2 * j) = 2 * j + 1 /\ Sibling(2 * j + 1) = 2 * j
  <1>1. (2 * j) % 2 = 0 /\ (2 * j + 1) % 2 = 1 /\ (2 * j + 1) - 1 = 2 * j
    OBVIOUS
  <1> QED BY <1>1 DEF Sibling

LEMMA SiblingPair ==
  ASSUME NEW l \in 1 .. LOG2T, NEW i1 \in 0 .. npl[l] - 1, NEW j, j = i1 \div 2
  PROVE  /\ j \in 0 .. Expanded(l - 1) - 1 /\ l - 1 \in 0 .. LOG2T - 1 /\ (l - 1) + 1 = l
         /\ \/ i1 = 2 * j /\ Sibling(i1) = 2 * j + 1
            \/ i1 = 2 * j + 1 /\ Sibling(i1) = 2 * j
         /\ Node(l, 2 * j) \in Nodes /\ Node(l, 2 * j + 1) \in Nodes /\ Node(l - 1, j) \in Nodes
  <1>1. /\ j \in 0 .. Expanded(l - 1) - 1 /\ l - 1 \in 0 .. LOG2T - 1
        /\ i1 = 2 * j \/ i1 = 2 * j + 1
    BY ParentNode
  <1>2. j \in Int /\ (l - 1) + 1 = l
    BY <1>1
  <1>4. \/ i1 = 2 * j /\ Sibling(i1) = 2 * j + 1
        \/ i1 = 2 * j + 1 /\ Sibling(i1) = 2 * j
    BY <1>1, <1>2, EvenSibling
  <1>5. Node(l, 2 * j) \in Nodes /\ Node(l, 2 * j + 1) \in Nodes /\ Node(l - 1, j) \in Nodes
    BY <1>1, PairNodes
  <1> QED BY <1>1, <1>2, <1>4, <1>5

\* A digest is missing where its seed is published, and not the seed above it.
LEMMA MissingTopmost ==
  ASSUME TypeOK, SP!TypeOK, SP!Labelled(s_flags),
         NEW l \in 1 .. LOG2T, NEW i1 \in 0 .. npl[l] - 1,
         Opposite(Node(l, i1)), Opposite(Node(l, Sibling(i1)))
  PROVE  IsMissing(l, i1) <=> SP!Topmost(s_flags, l, i1)
  <1> DEFINE j == i1 \div 2
             S(n) == s_flags[n] = SP!TO_PUBLISH
             C(n) == flag_tree[n] = Merkle!COMPUTED
  <1>1. /\ j \in 0 .. Expanded(l - 1) - 1 /\ l - 1 \in 0 .. LOG2T - 1 /\ (l - 1) + 1 = l
        /\ \/ i1 = 2 * j /\ Sibling(i1) = 2 * j + 1
           \/ i1 = 2 * j + 1 /\ Sibling(i1) = 2 * j
        /\ Node(l, 2 * j) \in Nodes /\ Node(l, 2 * j + 1) \in Nodes /\ Node(l - 1, j) \in Nodes
    BY SiblingPair
  <1>2. SP!LabelOK(s_flags, l - 1, j)
    BY <1>1, SeedLayout DEF SP!Labelled
  <1>3. S(Node(l - 1, j)) <=> S(Node(l, 2 * j)) /\ S(Node(l, 2 * j + 1))
    BY <1>1, <1>2, SeedLayout DEF SP!LabelOK
  <1>4. ASSUME NEW n \in Nodes, Opposite(n) PROVE S(n) <=> ~C(n)
    BY <1>4 DEF Opposite, TypeOK, TreeTypeOK, Seeds!TO_PUBLISH, SP!TO_PUBLISH,
       Merkle!NOT_COMPUTED, Merkle!COMPUTED
  <1>5. s_flags[Node(l - 1, j)] = SP!NOT_TO_PUBLISH <=> ~S(Node(l - 1, j))
    BY <1>1, SeedLayout DEF SP!TypeOK, SP!Labels, SP!TO_PUBLISH, SP!NOT_TO_PUBLISH
  <1>6. SP!Topmost(s_flags, l, i1) <=> S(Node(l, i1)) /\ ~S(Node(l - 1, j))
    BY <1>5, SeedLayout DEF SP!Topmost
  <1>7. IsMissing(l, i1) <=> ~C(Node(l, i1)) /\ C(Node(l, Sibling(i1)))
    BY DEF IsMissing, IsComputed
  <1>8. /\ S(Node(l, 2 * j)) <=> ~C(Node(l, 2 * j))
        /\ S(Node(l, 2 * j + 1)) <=> ~C(Node(l, 2 * j + 1))
    BY <1>1, <1>4
  <1> HIDE DEF S, C, j
  <1>9. CASE i1 = 2 * j /\ Sibling(i1) = 2 * j + 1
    BY <1>3, <1>6, <1>7, <1>8, <1>9, Zenon
  <1>10. CASE i1 = 2 * j + 1 /\ Sibling(i1) = 2 * j
    BY <1>3, <1>6, <1>7, <1>8, <1>10, Zenon
  <1> QED BY <1>1, <1>9, <1>10

\* As many entries as nodes.
LEMMA EntriesLength ==
  ASSUME NEW s \in Seq(Nodes),
         \/ \A j, k \in 1 .. Len(s) : j < k => s[j] < s[k]
         \/ \A j, k \in 1 .. Len(s) : j < k => s[k] < s[j]
  PROVE  Cardinality(Entries(s)) = Len(s)
  <1>1. Len(s) \in Nat /\ DOMAIN s = 1 .. Len(s)
    OBVIOUS
  <1>2. s \in [1 .. Len(s) -> Entries(s)]
    BY <1>1 DEF Entries
  <1>3. \A j, k \in 1 .. Len(s) : s[j] = s[k] => j = k
    <2>1. ASSUME NEW j \in 1 .. Len(s), NEW k \in 1 .. Len(s), j < k PROVE s[j] # s[k]
      <3>1. s[j] \in Nodes /\ s[k] \in Nodes
        BY <1>1
      <3>2. s[j] < s[k] \/ s[k] < s[j]
        BY <2>1
      <3> QED BY <3>1, <3>2 DEF Nodes
    <2>2. \A j, k \in 1 .. Len(s) : j = k \/ j < k \/ k < j
      BY <1>1
    <2> QED BY <2>1, <2>2, Zenon
  <1>4. s \in Bijection(1 .. Len(s), Entries(s))
    BY <1>1, <1>2, <1>3 DEF Bijection, Injection, IsInjective, Surjection, Entries
  <1>5. ExistsBijection(1 .. Len(s), Entries(s))
    BY <1>4 DEF ExistsBijection
  <1> QED BY <1>1, <1>5, FS_CountingElements

\* What is sent: the digests the verifier lacks where it has opened the seeds,
\* each once, and the same number of seeds.
LEMMA SentNodes ==
  ASSUME TypeOK, FlowInv, ProofInv, NodesInv, SP!IInv, Sent, s_pc \in {"published", "rebuilt"}
  PROVE  /\ Len(proof_nodes) = Len(path_nodes) /\ Len(proof_nodes) \in Nat
         /\ Len(proof_nodes) <= TREE_NODES_TO_STORE
         /\ \A k \in 1 .. Len(proof_nodes) : \E l \in 1 .. LOG2T : \E i1 \in 0 .. npl[l] - 1 :
              proof_nodes[k] = Node(l, i1) /\ SP!Topmost(s_flags, l, i1)
         /\ \A l \in 1 .. LOG2T : \A i1 \in 0 .. npl[l] - 1 : SP!Topmost(s_flags, l, i1) =>
              \E k \in 1 .. Len(proof_nodes) : proof_nodes[k] = Node(l, i1)
  <1>1. SP!PathOf(s_flags) /\ SP!PathInv /\ SP!TypeOK /\ SP!Fits
    BY DEF SP!IInv, SP!PathInv
  <1>2. /\ proof_nodes \in Seq(Nodes) /\ path_nodes \in Seq(Nodes)
        /\ Len(proof_nodes) \in Nat /\ Len(path_nodes) \in Nat
        /\ DOMAIN proof_nodes = 1 .. Len(proof_nodes) /\ DOMAIN path_nodes = 1 .. Len(path_nodes)
    <2>1. proof_nodes \in Seq(Nodes) /\ path_nodes \in Seq(Nodes)
      BY <1>1, SeedLayout DEF TypeOK, TreeTypeOK, SP!TypeOK
    <2> QED BY <2>1
  <1>4. Len(proof_nodes) = Len(path_nodes)
    <2>1. \A j, k \in 1 .. Len(proof_nodes) : j < k => proof_nodes[k] < proof_nodes[j]
      BY DEF ProofInv
    <2>2. \A j, k \in 1 .. Len(path_nodes) : j < k => path_nodes[j] < path_nodes[k]
      BY <1>1 DEF SP!PathInv
    <2>5. Cardinality(Entries(proof_nodes)) = Len(proof_nodes)
      BY <1>2, <2>1, EntriesLength
    <2>6. Cardinality(Entries(path_nodes)) = Len(path_nodes)
      BY <1>2, <2>2, EntriesLength
    <2> QED BY <2>5, <2>6 DEF NodesInv
  <1>5. Len(proof_nodes) <= TREE_NODES_TO_STORE
    BY <1>1, <1>4 DEF SP!Fits, SP!PathInv
  <1>6. \A n : (\E k \in 1 .. Len(proof_nodes) : proof_nodes[k] = n)
                 <=> \E k \in 1 .. Len(path_nodes) : path_nodes[k] = n
    <2>1. \A n : /\ n \in Entries(proof_nodes) <=> \E k \in 1 .. Len(proof_nodes) : proof_nodes[k] = n
                 /\ n \in Entries(path_nodes) <=> \E k \in 1 .. Len(path_nodes) : path_nodes[k] = n
      BY <1>2 DEF Entries
    <2> QED BY <2>1 DEF NodesInv
  <1>7. ASSUME NEW k \in 1 .. Len(proof_nodes)
        PROVE  \E l \in 1 .. LOG2T : \E i1 \in 0 .. npl[l] - 1 :
                 proof_nodes[k] = Node(l, i1) /\ SP!Topmost(s_flags, l, i1)
    <2>1. PICK m \in 1 .. Len(path_nodes) : path_nodes[m] = proof_nodes[k]
      BY <1>6
    <2>2. \E l \in 1 .. LOG2T : \E i1 \in 0 .. npl[l] - 1 :
            path_nodes[m] = SP!Node(l, i1) /\ SP!Topmost(s_flags, l, i1)
      BY <1>1 DEF SP!PathOf, SP!PathUpTo
    <2> QED BY <2>1, <2>2, SeedLayout
  <1>8. ASSUME NEW l \in 1 .. LOG2T, NEW i1 \in 0 .. npl[l] - 1, SP!Topmost(s_flags, l, i1)
        PROVE  \E k \in 1 .. Len(proof_nodes) : proof_nodes[k] = Node(l, i1)
    <2>1. Node(l, i1) < 2 * T - 1
      BY NodeBelowRoot
    <2>2. \E m \in 1 .. Len(path_nodes) : path_nodes[m] = SP!Node(l, i1)
      BY <1>1, <1>8, <2>1, SeedLayout DEF SP!PathOf, SP!PathUpTo
    <2> QED BY <1>6, <2>2, SeedLayout
  <1> QED BY <1>2, <1>4, <1>5, <1>7, <1>8

-----------------------------------------------------------------------------
(* The verifier's tree *)

\* Below the walk of the verifier the two trees have opposite labels.
LEMMA OppositeAt ==
  ASSUME TypeOK, PositionInv, QueueInv, OppositeInv, m_pc \in {"recompute_root", "recomputed"},
         NEW l \in Levels, NEW i1 \in 0 .. npl[l] - 1, l >= m_at.level
  PROVE  Opposite(Node(l, i1))
  <1>1. ASSUME NEW r \in Rounds, Node(l, i1) = LeafNode(r) PROVE Opposite(Node(l, i1))
    BY <1>1, Zenon DEF OppositeInv
  <1>2. ASSUME l \in 0 .. LOG2T - 1, i1 \in 0 .. Expanded(l) - 1 PROVE Opposite(Node(l, i1))
    <2>1. Passed(l, i1)
      BY <1>2, PassedBelow
    <2> QED BY <1>2, <2>1, Zenon DEF OppositeInv
  <1> QED BY <1>1, <1>2, NodeKinds

\* Of the pair the verifier is at, the proof has the digest that is missing.
LEMMA PairMissing ==
  ASSUME TypeOK, FlowInv, PositionInv, QueueInv, ProofInv, OppositeInv, NodesInv, SP!IInv,
         m_pc = "recompute_root", m_at.level > 0,
         NEW l, l = m_at.level, NEW j, j = m_at.i \div 2, NEW i1 \in {2 * j, 2 * j + 1}
  PROVE  IsMissing(l, i1) <=> \E k \in 1 .. Len(proof_nodes) : proof_nodes[k] = Node(l, i1)
  <1>1. /\ l \in 1 .. LOG2T /\ l \in Levels /\ j \in 0 .. Expanded(l - 1) - 1
        /\ 2 * j \in 0 .. npl[l] - 1 /\ 2 * j + 1 \in 0 .. npl[l] - 1
    BY PairFacts
  <1>2. Opposite(Node(l, 2 * j)) /\ Opposite(Node(l, 2 * j + 1))
    <2>1. l >= m_at.level
      BY <1>1
    <2> QED BY <1>1, <2>1, OppositeAt
  <1>3. Sibling(i1) \in {2 * j, 2 * j + 1} /\ i1 \in 0 .. npl[l] - 1
    <2>1. Sibling(2 * j) = 2 * j + 1 /\ Sibling(2 * j + 1) = 2 * j
      BY <1>1, EvenSibling
    <2> QED BY <1>1, <2>1
  <1>4. s_pc = "rebuilt" /\ Sent
    BY DEF FlowInv, Sent
  <1>5. SP!TypeOK /\ SP!Labelled(s_flags)
    BY <1>4 DEF SP!IInv, SP!FlagsInv
  <1>6. IsMissing(l, i1) <=> SP!Topmost(s_flags, l, i1)
    BY <1>1, <1>2, <1>3, <1>5, MissingTopmost
  <1>7. SP!Topmost(s_flags, l, i1) => \E k \in 1 .. Len(proof_nodes) : proof_nodes[k] = Node(l, i1)
    BY <1>1, <1>3, <1>4, SentNodes
  <1>8. ASSUME NEW k \in 1 .. Len(proof_nodes), proof_nodes[k] = Node(l, i1)
        PROVE  SP!Topmost(s_flags, l, i1)
    <2>1. PICK m \in 1 .. LOG2T : \E h \in 0 .. npl[m] - 1 :
            proof_nodes[k] = Node(m, h) /\ SP!Topmost(s_flags, m, h)
      BY <1>4, SentNodes
    <2>2. PICK h \in 0 .. npl[m] - 1 : proof_nodes[k] = Node(m, h) /\ SP!Topmost(s_flags, m, h)
      BY <2>1
    <2>3. m \in Levels
      BY LevelFacts DEF Levels
    <2>4. Node(m, h) = Node(l, i1)
      BY <1>8, <2>2
    <2>5. m = l /\ h = i1
      BY <1>1, <1>3, <2>3, <2>4, NodeOrder
    <2> QED BY <2>2, <2>5
  <1> QED BY <1>6, <1>7, <1>8

\* And it is the next one there, the one the verifier takes.
LEMMA NextProof ==
  ASSUME TypeOK, FlowInv, PositionInv, QueueInv, ProofInv, OppositeInv, NodesInv, RecomputeInv,
         SP!IInv, m_pc = "recompute_root", m_at.level > 0
  PROVE  /\ published + Len(Merkle!Missing) <= Len(proof_nodes)
         /\ \A k \in 1 .. Len(proof_nodes) :
              k <= published + Len(Merkle!Missing) <=> proof_nodes[k] > Current(m_at) - 1
         /\ Merkle!Missing # <<>> => Merkle!Stored(published) = tree[Merkle!Missing[1]]
  <1> DEFINE l == m_at.level
             j == m_at.i \div 2
             N == Len(proof_nodes)
             c == Current(m_at)
  <1>1. /\ c = Node(l, 2 * j) /\ Node(l, 2 * j + 1) = c + 1 /\ Node(l, 2 * j) \in Nodes
    BY PairFacts
  <1>2. /\ c \in Int /\ published \in Nat /\ N \in Nat /\ N <= TREE_NODES_TO_STORE
        /\ \A k \in 1 .. N : proof_nodes[k] \in Int
    <2>1. Sent /\ s_pc = "rebuilt"
      BY DEF FlowInv, Sent
    <2>2. N \in Nat /\ N <= TREE_NODES_TO_STORE
      BY <2>1, SentNodes
    <2>3. \A k \in 1 .. N : proof_nodes[k] \in Nodes
      BY DEF TypeOK, TreeTypeOK
    <2> QED BY <1>1, <2>2, <2>3 DEF TypeOK, TreeTypeOK, Nodes
  <1>3. /\ IsMissing(l, 2 * j) <=> \E k \in 1 .. N : proof_nodes[k] = c
        /\ IsMissing(l, 2 * j + 1) <=> \E k \in 1 .. N : proof_nodes[k] = c + 1
    BY <1>1, PairMissing
  <1>4. /\ published <= N
        /\ \A k \in 1 .. N : k <= published <=> proof_nodes[k] > c + 1
    BY DEF RecomputeInv
  <1>5. \A k, m \in 1 .. N : k < m => proof_nodes[m] < proof_nodes[k]
    BY DEF ProofInv
  <1>6. Sibling(2 * j) = 2 * j + 1 /\ Sibling(2 * j + 1) = 2 * j
    <2>1. j \in Int
      BY PairFacts
    <2> QED BY <2>1, EvenSibling
  <1>7. ~(IsMissing(l, 2 * j) /\ IsMissing(l, 2 * j + 1))
    BY <1>6 DEF IsMissing
  <1>8. TREE_NODES_TO_STORE \in Nat
    BY Constants
  <1> HIDE DEF c, N, j, l
  <1>9. ASSUME NEW n \in {c, c + 1}, Merkle!Missing = <<n>>, \E k \in 1 .. N : proof_nodes[k] = n,
               \A k \in 1 .. N : proof_nodes[k] \in {c, c + 1} => proof_nodes[k] = n
        PROVE  /\ published + 1 <= N
               /\ \A k \in 1 .. N : k <= published + 1 <=> proof_nodes[k] > c - 1
               /\ Merkle!Stored(published) = tree[n]
    <2>1. PICK k \in 1 .. N : proof_nodes[k] = n
      BY <1>9
    <2>2. k > published /\ published + 1 \in 1 .. N
      BY <1>2, <1>4, <2>1
    <2>3. proof_nodes[published + 1] = n
      <3>1. CASE k = published + 1
        BY <2>1, <3>1
      <3>2. CASE k > published + 1
        <4>1. proof_nodes[published + 1] > n
          BY <1>2, <1>5, <2>1, <2>2, <3>2
        <4>2. ~(proof_nodes[published + 1] > c + 1)
          BY <1>2, <1>4, <2>2
        <4>3. proof_nodes[published + 1] = c + 1 /\ n = c
          BY <1>2, <2>2, <4>1, <4>2
        <4> QED BY <1>9, <2>2, <4>3
      <3> QED BY <1>2, <2>2, <3>1, <3>2
    <2>4. ASSUME NEW m \in 1 .. N PROVE m <= published + 1 <=> proof_nodes[m] > c - 1
      <3>1. CASE m <= published
        BY <1>2, <1>4, <3>1
      <3>2. CASE m = published + 1
        BY <1>2, <2>3, <3>2
      <3>3. CASE m > published + 1
        <4>1. proof_nodes[m] < n /\ proof_nodes[m] \in Int
          BY <1>2, <1>5, <2>2, <2>3, <3>3
        <4>2. proof_nodes[m] # c
          BY <1>2, <1>9, <4>1
        <4> QED BY <1>2, <3>3, <4>1, <4>2
      <3> QED BY <1>2, <3>1, <3>2, <3>3
    <2>5. published \in Merkle!Slots
      BY <1>2, <1>8, <2>2 DEF Merkle!Slots
    <2>6. proof[published] = tree[n]
      <3>1. (published + 1) - 1 = published
        BY <1>2
      <3>2. proof[(published + 1) - 1] = tree[proof_nodes[published + 1]]
        BY <2>2, <2>5, <3>1 DEF ProofInv, N
      <3> QED BY <2>3, <3>1, <3>2
    <2> QED BY <2>2, <2>4, <2>5, <2>6 DEF Merkle!Stored
  <1>10. CASE Merkle!Missing = <<>> /\ (IsComputed(l, 2 * j) <=> IsComputed(l, 2 * j + 1))
    <2>1. \A k \in 1 .. N : proof_nodes[k] # c /\ proof_nodes[k] # c + 1
      BY <1>3, <1>6, <1>10 DEF IsMissing
    <2>2. Len(Merkle!Missing) = 0
      BY <1>10
    <2>3. \A k \in 1 .. N : proof_nodes[k] > c + 1 <=> proof_nodes[k] > c - 1
      BY <1>2, <2>1
    <2> QED BY <1>2, <1>4, <1>10, <2>2, <2>3 DEF N, c
  <1>11. CASE Merkle!Missing = <<Node(l, 2 * j)>> /\ ~IsComputed(l, 2 * j) /\ IsComputed(l, 2 * j + 1)
    <2>1. IsMissing(l, 2 * j)
      BY <1>6, <1>11 DEF IsMissing
    <2>2. Merkle!Missing = <<c>> /\ Len(Merkle!Missing) = 1 /\ Merkle!Missing[1] = c
      BY <1>1, <1>11 DEF c, j, l
    <2>3. (\E k \in 1 .. N : proof_nodes[k] = c) /\ \A k \in 1 .. N : proof_nodes[k] # c + 1
      BY <1>3, <1>7, <2>1
    <2> QED BY <1>9, <2>2, <2>3 DEF N, c
  <1>12. CASE Merkle!Missing = <<Node(l, 2 * j + 1)>> /\ IsComputed(l, 2 * j) /\ ~IsComputed(l, 2 * j + 1)
    <2>1. IsMissing(l, 2 * j + 1)
      BY <1>6, <1>12 DEF IsMissing
    <2>2. Merkle!Missing = <<c + 1>> /\ Len(Merkle!Missing) = 1 /\ Merkle!Missing[1] = c + 1
      BY <1>1, <1>12 DEF c, j, l
    <2>3. (\E k \in 1 .. N : proof_nodes[k] = c + 1) /\ \A k \in 1 .. N : proof_nodes[k] # c
      BY <1>3, <1>7, <2>1
    <2> QED BY <1>9, <2>2, <2>3 DEF N, c
  <1>13. m_pc # "start"
    OBVIOUS
  <1> QED BY <1>10, <1>11, <1>12, <1>13, PairLabels DEF j, l

\* A digest that is where it belongs, and the signer's if the commitments are.
RightIn(t, n) == t[n] \in Digest /\ (fault # "message" => t[n] = tree[n])

\* Two right digests hash to a right one.
LEMMA HashRight ==
  ASSUME HashedInv, m_pc \notin {"start", "tree_root"},
         NEW l \in 1 .. LOG2T, NEW j \in 0 .. Expanded(l - 1) - 1, NEW t, NEW t2,
         RightIn(t, Node(l, 2 * j)), RightIn(t, Node(l, 2 * j + 1)),
         t2[Node(l - 1, j)] = Merkle!Hash(t[Node(l, 2 * j)], t[Node(l, 2 * j + 1)])
  PROVE  RightIn(t2, Node(l - 1, j))
  <1>1. l - 1 \in 0 .. LOG2T - 1 /\ (l - 1) + 1 = l
    BY PairNodes
  <1>2. /\ t2[Node(l - 1, j)] = HashPair[<<t[Node(l, 2 * j)], t[Node(l, 2 * j + 1)]>>]
        /\ t2[Node(l - 1, j)] \in Digest
    BY HashType DEF RightIn
  <1>3. tree[Node(l - 1, j)] = HashPair[<<tree[Node(l, 2 * j)], tree[Node(l, 2 * j + 1)]>>]
    <2>1. IsHash(l - 1, j)
      BY <1>1 DEF HashedInv
    <2> QED BY <1>1, <2>1 DEF IsHash
  <1> QED BY <1>2, <1>3 DEF RightIn

\* The digest taken from the proof completes the pair.
LEMMA PlacedRight ==
  ASSUME TypeOK, FlowInv, PositionInv, QueueInv, HashedInv, ProofInv, OppositeInv, NodesInv,
         RecomputeInv, SP!IInv, m_pc = "recompute_root", m_at.level > 0,
         NEW l, l = m_at.level, NEW j, j = m_at.i \div 2
  PROVE  /\ Placed \in [Nodes -> Contents]
         /\ \A n \in Nodes : Right1(n) => RightIn(Placed, n)
         /\ Merkle!SomeComputed =>
              RightIn(Placed, Node(l, 2 * j)) /\ RightIn(Placed, Node(l, 2 * j + 1))
  <1> DEFINE a == Node(l, 2 * j)
             b == Node(l, 2 * j + 1)
             C(n) == flag_tree[n] = Merkle!COMPUTED
  <1>1. /\ l \in 1 .. LOG2T /\ l \in Levels /\ l # l - 1
        /\ 2 * j \in 0 .. npl[l] - 1 /\ 2 * j + 1 \in 0 .. npl[l] - 1
        /\ a \in Nodes /\ b \in Nodes
    BY PairFacts
  <1>2. tree[a] \in Digest /\ tree[b] \in Digest
    BY <1>1, NodeDigest
  <1>3. ~Queued(a) /\ ~Queued(b)
    BY <1>1, QueuePairs, JobLevel
  <1>4. (C(a) => Right1(a)) /\ (C(b) => Right1(b))
    BY <1>1, <1>3 DEF RecomputeInv
  <1>5. recomputed_tree \in [Nodes -> Contents] /\ Digest \subseteq Contents
    BY DEF TypeOK, TreeTypeOK, Contents
  <1>6. Merkle!SomeComputed <=> C(a) \/ C(b)
    BY PairLabels DEF IsComputed
  <1>7. \/ Merkle!Missing = <<>> /\ (C(a) <=> C(b))
        \/ Merkle!Missing = <<a>> /\ ~C(a) /\ C(b)
        \/ Merkle!Missing = <<b>> /\ C(a) /\ ~C(b)
    BY PairLabels DEF IsComputed
  <1>8. \A n \in Nodes : Right1(n) => RightIn(recomputed_tree, n)
    BY DEF Right1, RightIn
  <1>9. Merkle!Missing # <<>> => Merkle!Stored(published) = tree[Merkle!Missing[1]]
    BY NextProof
  <1> HIDE DEF a, b, C
  <1>10. CASE Merkle!Missing = <<>> /\ (C(a) <=> C(b))
    <2>1. Placed = recomputed_tree
      BY <1>10 DEF Placed
    <2> QED BY <1>1, <1>4, <1>5, <1>6, <1>8, <1>10, <2>1, Zenon DEF a, b
  <1>11. ASSUME NEW n \in {a, b}, Merkle!Missing = <<n>>
         PROVE  /\ Placed \in [Nodes -> Contents]
                /\ \A m \in Nodes : Right1(m) => RightIn(Placed, m)
                /\ RightIn(Placed, n)
    <2>1. Merkle!Missing # <<>> /\ Merkle!Missing[1] = n /\ n \in Nodes /\ tree[n] \in Digest
      BY <1>1, <1>2, <1>11
    <2>2. Placed = [recomputed_tree EXCEPT ![n] = tree[n]]
      BY <1>9, <2>1 DEF Placed
    <2>3. Placed \in [Nodes -> Contents] /\ Placed[n] = tree[n]
          /\ \A m \in Nodes : m # n => Placed[m] = recomputed_tree[m]
      BY <1>5, <2>1, <2>2
    <2>4. RightIn(Placed, n)
      BY <2>1, <2>3 DEF RightIn
    <2>5. \A m \in Nodes : Right1(m) => RightIn(Placed, m)
      BY <1>8, <2>3, <2>4 DEF RightIn
    <2> QED BY <2>3, <2>4, <2>5
  <1>12. CASE Merkle!Missing = <<a>> /\ ~C(a) /\ C(b)
    <2>1. Right1(b)
      BY <1>4, <1>12
    <2> QED BY <1>1, <1>11, <1>12, <2>1, Zenon DEF a, b
  <1>13. CASE Merkle!Missing = <<b>> /\ C(a) /\ ~C(b)
    <2>1. Right1(a)
      BY <1>4, <1>13
    <2> QED BY <1>1, <1>11, <1>13, <2>1, Zenon DEF a, b
  <1> QED BY <1>7, <1>10, <1>12, <1>13

\* The batch of an iteration of recompute_root, and what its jobs read.
LEMMA RecomputeBatch ==
  ASSUME TypeOK, FlowInv, PositionInv, QueueInv, HashedInv, ProofInv, OppositeInv, NodesInv,
         RecomputeInv, SP!IInv, Merkle!RecomputeUp,
         NEW l, l = m_at.level, NEW j, j = m_at.i \div 2
  PROVE  /\ BatchedTo(l, Placed, RecomputeJobs, recomputed_tree', m_queue')
         /\ PairsOf(RecomputeJobs, l) /\ RecomputeJobs \in Seq(Pairs)
         /\ \A n : InJobs(RecomputeJobs, n) <=>
                     Queued(n) \/ (Merkle!SomeComputed /\ n = Node(l - 1, j))
         /\ \A k \in DOMAIN RecomputeJobs : \A j2 \in 0 .. Expanded(l - 1) - 1 :
              RecomputeJobs[k] = PairJob(l, j2) =>
                RightIn(Placed, Node(l, 2 * j2)) /\ RightIn(Placed, Node(l, 2 * j2 + 1))
  <1> DEFINE q == RecomputeJobs
  <1>1. m_pc = "recompute_root" /\ m_pc # "start" /\ m_at.level > 0
    BY RecomputeUpStep
  <1>2. /\ l \in 1 .. LOG2T /\ l \in Levels /\ j \in 0 .. Expanded(l - 1) - 1
    BY <1>1, PairFacts
  <1>3. /\ Placed \in [Nodes -> Contents] /\ \A n \in Nodes : Right1(n) => RightIn(Placed, n)
        /\ Merkle!SomeComputed =>
             RightIn(Placed, Node(l, 2 * j)) /\ RightIn(Placed, Node(l, 2 * j + 1))
    BY <1>1, PlacedRight
  <1>4. /\ PairsOf(m_queue, l) /\ Len(m_queue) < BATCH /\ m_queue \in Seq(Pairs)
        /\ \A n : Queued(n) <=> InJobs(m_queue, n)
    BY QueuePairs DEF TypeOK, TreeTypeOK
  <1>5. /\ HashJobs \in Seq(Pairs) /\ PairsOf(HashJobs, l) /\ Len(HashJobs) <= BATCH
        /\ \A n : InJobs(HashJobs, n) <=> Queued(n) \/ n = Node(l - 1, j)
        /\ \A k \in DOMAIN HashJobs :
             HashJobs[k] = PairJob(l, j) \/ \E m \in DOMAIN m_queue : HashJobs[k] = m_queue[m]
    BY <1>1, JoinJobs
  <1>6. q = IF Merkle!SomeComputed THEN HashJobs ELSE m_queue
    BY DEF RecomputeJobs
  <1> HIDE DEF q
  <1>7. q \in Seq(Pairs) /\ PairsOf(q, l)
    BY <1>4, <1>5, <1>6
  <1>8. Len(q) <= BATCH
    <2>1. Len(m_queue) \in Nat
      BY <1>4
    <2>2. Len(m_queue) <= BATCH
      BY <1>4, <2>1 DEF BATCH
    <2> QED BY <1>5, <1>6, <2>2
  <1>9. \A n : InJobs(q, n) <=> Queued(n) \/ (Merkle!SomeComputed /\ n = Node(l - 1, j))
    BY <1>4, <1>5, <1>6
  <1>10. BatchedTo(l, Placed, q, recomputed_tree', m_queue')
    BY <1>2, <1>3, <1>7, <1>8, Batched, RecomputeUpStep DEF q
  <1>11. ASSUME NEW k \in DOMAIN q, NEW j2 \in 0 .. Expanded(l - 1) - 1, q[k] = PairJob(l, j2)
         PROVE  RightIn(Placed, Node(l, 2 * j2)) /\ RightIn(Placed, Node(l, 2 * j2 + 1))
    <2>1. /\ q[k].in = Node(l, 2 * j2) /\ Node(l, 2 * j2 + 1) = Node(l, 2 * j2) + 1
          /\ Node(l, 2 * j2) \in Nodes /\ Node(l, 2 * j2 + 1) \in Nodes
      BY <1>2, <1>11, PairNodes DEF PairJob
    <2>2. ASSUME NEW m \in DOMAIN m_queue, q[k] = m_queue[m]
          PROVE  RightIn(Placed, Node(l, 2 * j2)) /\ RightIn(Placed, Node(l, 2 * j2 + 1))
      <3>1. Right1(m_queue[m].in) /\ Right1(m_queue[m].in + 1)
        BY <1>1 DEF RecomputeInv
      <3> QED BY <1>3, <2>1, <2>2, <3>1
    <2>3. ASSUME Merkle!SomeComputed, q[k] = PairJob(l, j)
          PROVE  RightIn(Placed, Node(l, 2 * j2)) /\ RightIn(Placed, Node(l, 2 * j2 + 1))
      <3>1. Node(l, 2 * j2) = Node(l, 2 * j) /\ Node(l, 2 * j + 1) = Node(l, 2 * j) + 1
        BY <1>2, <2>1, <2>3, PairNodes DEF PairJob
      <3> QED BY <1>3, <2>1, <2>3, <3>1
    <2> QED BY <1>5, <1>6, <1>11, <2>2, <2>3
  <1> QED BY <1>7, <1>9, <1>10, <1>11 DEF q

\* The batch of an iteration of tree_root, and what its jobs read.
LEMMA RootBatch ==
  ASSUME TypeOK, FlowInv, PositionInv, QueueInv, HashedInv, SP!IInv, Merkle!HashUp,
         NEW l, l = m_at.level, NEW j, j = m_at.i \div 2
  PROVE  /\ BatchedTo(l, tree, HashJobs, tree', m_queue')
         /\ PairsOf(HashJobs, l) /\ HashJobs \in Seq(Pairs)
         /\ \A n : InJobs(HashJobs, n) <=> Queued(n) \/ n = Node(l - 1, j)
         /\ \A j2 \in 0 .. Expanded(l - 1) - 1 :
              tree[Node(l, 2 * j2)] \in Digest /\ tree[Node(l, 2 * j2 + 1)] \in Digest
  <1>1. /\ m_pc = "tree_root" /\ m_pc # "start" /\ m_at.level > 0
        /\ tree' = IF Merkle!Flush(HashJobs) THEN Merkle!RunBatch(tree, HashJobs) ELSE tree
        /\ m_queue' = IF Merkle!Flush(HashJobs) THEN <<>> ELSE HashJobs
    BY HashUpStep
  <1>2. l \in 1 .. LOG2T /\ l \in Nat
    BY <1>1, PairFacts
  <1>3. /\ HashJobs \in Seq(Pairs) /\ PairsOf(HashJobs, l) /\ Len(HashJobs) <= BATCH
        /\ \A n : InJobs(HashJobs, n) <=> Queued(n) \/ n = Node(l - 1, j)
    BY <1>1, JoinJobs
  <1>4. tree \in [Nodes -> Contents]
    BY DEF TypeOK, TreeTypeOK
  <1>5. BatchedTo(l, tree, HashJobs, tree', m_queue')
    BY <1>1, <1>2, <1>3, <1>4, Batched
  <1>6. ASSUME NEW j2 \in 0 .. Expanded(l - 1) - 1
        PROVE  tree[Node(l, 2 * j2)] \in Digest /\ tree[Node(l, 2 * j2 + 1)] \in Digest
    <2>1. l \in Levels /\ 2 * j2 \in 0 .. npl[l] - 1 /\ 2 * j2 + 1 \in 0 .. npl[l] - 1
      BY <1>2, PairNodes
    <2>2. l >= m_at.level
      BY <1>2
    <2> QED BY <1>1, <2>1, <2>2, NodeDigest
  <1> QED BY <1>3, <1>5, <1>6

LEMMA NoJobs == ASSUME m_queue' = <<>> PROVE QueueInv'
  <1>1. Len(m_queue') = 0 /\ DOMAIN m_queue' = {}
    OBVIOUS
  <1> QED BY <1>1 DEF QueueInv, BATCH

LEMMA QueueStep ==
  ASSUME TypeOK, FlowInv, PositionInv, QueueInv, HashedInv, ProofInv, OppositeInv, NodesInv,
         RecomputeInv, SP!IInv, [Next]_vars
  PROVE  QueueInv'
  <1> DEFINE l == m_at.level
             j == m_at.i \div 2
  <1>1. CASE MerkleMove /\ Merkle!HashUp
    <2>1. m_pc = "tree_root" /\ m_pc' = m_pc /\ m_at.level > 0 /\ m_at' = Up(m_at)
      BY <1>1, HashUpStep
    <2>2. BatchTree' = tree'
      BY <2>1 DEF BatchTree
    <2>3. /\ BatchedTo(l, tree, HashJobs, BatchTree', m_queue')
          /\ \A j2 \in 0 .. Expanded(l - 1) - 1 :
               tree[Node(l, 2 * j2)] \in Digest /\ tree[Node(l, 2 * j2 + 1)] \in Digest
      BY <1>1, <2>2, RootBatch
    <2> HIDE DEF l, j
    <2> QED BY <2>1, <2>3, QueueNext DEF l, j
  <1>2. CASE MerkleMove /\ Merkle!RecomputeUp
    <2>1. m_pc = "recompute_root" /\ m_pc' = m_pc /\ m_at.level > 0 /\ m_at' = Up(m_at)
      BY <1>2, RecomputeUpStep
    <2>2. BatchTree' = recomputed_tree'
      BY <2>1 DEF BatchTree
    <2>3. RecomputeJobs = m_queue \/ RecomputeJobs = HashJobs
      BY DEF RecomputeJobs
    <2>4. /\ BatchedTo(l, Placed, RecomputeJobs, BatchTree', m_queue')
          /\ \A k \in DOMAIN RecomputeJobs : \A j2 \in 0 .. Expanded(l - 1) - 1 :
               RecomputeJobs[k] = PairJob(l, j2) =>
                 Placed[Node(l, 2 * j2)] \in Digest /\ Placed[Node(l, 2 * j2 + 1)] \in Digest
      BY <1>2, <2>2, RecomputeBatch DEF RightIn
    <2> QED BY <2>1, <2>3, <2>4, QueueNext
  <1>3. CASE MerkleMove /\ Merkle!ProveUp
    BY <1>3, ProveUpStep, NoJobs DEF QueueInv
  <1>4. CASE MerkleEnd
    BY <1>4, DoneStep, NoJobs DEF MerkleEnd, QueueInv
  <1>5. CASE SignRoot
    BY <1>5, RootCall, NoJobs DEF QueueInv
  <1>6. CASE SignProof
    BY <1>6, ProofCall, NoJobs DEF QueueInv
  <1>7. CASE VerifyRoot /\ Merkle!CallRecomputeRoot(cmt_0)
    BY <1>7, RecomputeCall, NoJobs DEF QueueInv
  <1>8. CASE MerkleStill
    BY <1>8 DEF MerkleStill, QueueInv, Passed, BatchTree
  <1> QED BY <1>1, <1>2, <1>3, <1>4, <1>5, <1>6, <1>7, <1>8, MerkleMoves

-----------------------------------------------------------------------------
(* Types *)

LEMMA NoPairs == <<>> \in Seq(Pairs)
  OBVIOUS

\* What an iteration of tree_proof adds to the proof.
LEMMA ProofTypes ==
  ASSUME TypeOK, PositionInv, Merkle!ProveUp
  PROVE  /\ proof' \in [Merkle!Slots -> Contents] /\ proof_nodes' \in Seq(Nodes)
         /\ published' \in Nat
  <1>1. /\ m_pc = "tree_proof" /\ m_at.level > 0 /\ m_pc # "start"
        /\ proof' = IF Merkle!Missing = <<>>
                      THEN proof ELSE [proof EXCEPT ![published] = tree[Merkle!Missing[1]]]
        /\ proof_nodes' = proof_nodes \o Merkle!Missing
        /\ published' = published + Len(Merkle!Missing)
    BY ProveUpStep
  <1>2. /\ tree \in [Nodes -> Contents] /\ proof \in [Merkle!Slots -> Contents]
        /\ proof_nodes \in Seq(Nodes) /\ published \in Nat
    BY DEF TypeOK, TreeTypeOK
  <1>3. Merkle!Missing = <<>> \/ \E n \in Nodes : Merkle!Missing = <<n>>
    BY <1>1, PairFacts, PairLabels
  <1>4. CASE Merkle!Missing = <<>>
    <2>1. proof_nodes \o <<>> = proof_nodes /\ published + 0 = published /\ Len(<<>>) = 0
      BY <1>2
    <2> QED BY <1>1, <1>2, <1>4, <2>1
  <1>5. ASSUME NEW n \in Nodes, Merkle!Missing = <<n>>
        PROVE  /\ proof' \in [Merkle!Slots -> Contents] /\ proof_nodes' \in Seq(Nodes)
               /\ published' \in Nat
    <2>1. Merkle!Missing # <<>> /\ Merkle!Missing[1] = n /\ Len(Merkle!Missing) = 1
      BY <1>5
    <2>2. proof' = [proof EXCEPT ![published] = tree[n]] /\ tree[n] \in Contents
      BY <1>1, <1>2, <2>1
    <2>3. <<n>> \in Seq(Nodes) /\ proof_nodes \o <<n>> \in Seq(Nodes)
      BY <1>2
    <2>4. proof_nodes' = proof_nodes \o <<n>>
      BY <1>1, <1>5
    <2>5. published' = published + 1
      BY <1>1, <2>1
    <2>6. published' \in Nat
      BY <1>2, <2>5
    <2>7. proof' \in [Merkle!Slots -> Contents]
      BY <1>2, <2>2
    <2> QED BY <2>3, <2>4, <2>6, <2>7
  <1> QED BY <1>3, <1>4, <1>5

LEMMA TreeTypeStep ==
  ASSUME TypeOK, FlowInv, PositionInv, QueueInv, HashedInv, ProofInv, OppositeInv, NodesInv,
         RecomputeInv, SP!IInv, [Next]_vars
  PROVE  TreeTypeOK'
  <1> DEFINE Ats  == [level : Int, i : Int, start : Int]
             Flag == {Merkle!NOT_COMPUTED, Merkle!COMPUTED}
  <1>0. /\ m_at \in Ats /\ m_queue \in Seq(Pairs)
        /\ tree \in [Nodes -> Contents] /\ recomputed_tree \in [Nodes -> Contents]
        /\ flag_tree \in [Nodes -> Flag]
        /\ proof \in [Merkle!Slots -> Contents] /\ proof_nodes \in Seq(Nodes) /\ published \in Nat
    BY DEF TypeOK, TreeTypeOK
  <1> SUFFICES /\ m_at' \in Ats /\ m_queue' \in Seq(Pairs)
               /\ tree' \in [Nodes -> Contents] /\ recomputed_tree' \in [Nodes -> Contents]
               /\ flag_tree' \in [Nodes -> Flag]
               /\ proof' \in [Merkle!Slots -> Contents] /\ proof_nodes' \in Seq(Nodes)
               /\ published' \in Nat
    BY DEF TreeTypeOK, Pairs, Contents, Nodes, Merkle!Slots, Merkle!NOT_COMPUTED, Merkle!COMPUTED
  <1>1. ASSUME m_at.level > 0, m_pc # "start", m_at' = Up(m_at) PROVE m_at' \in Ats
    BY <1>1, MerkleUp
  <1>2. CASE MerkleMove /\ Merkle!HashUp
    <2>1. BatchedTo(m_at.level, tree, HashJobs, tree', m_queue') /\ HashJobs \in Seq(Pairs)
      BY <1>2, RootBatch
    <2>2. tree' \in [Nodes -> Contents] /\ m_queue' \in Seq(Pairs)
      BY <2>1, NoPairs, Zenon DEF BatchedTo
    <2>3. m_at' \in Ats /\ UNCHANGED <<recomputed_tree, flag_tree, proof, proof_nodes, published>>
      BY <1>1, <1>2, HashUpStep
    <2> QED BY <1>0, <2>2, <2>3
  <1>3. CASE MerkleMove /\ Merkle!ProveUp
    <2>1. /\ m_pc = "tree_proof" /\ m_at.level > 0 /\ Merkle!FlagParent /\ m_at' = Up(m_at)
          /\ UNCHANGED <<m_queue, tree, recomputed_tree>>
      BY <1>3, ProveUpStep
    <2>2. flag_tree' \in [Nodes -> Flag]
      BY <2>1, ParentFlag
    <2> QED BY <1>0, <1>1, <1>3, <2>1, <2>2, ProofTypes
  <1>4. CASE MerkleMove /\ Merkle!RecomputeUp
    <2>1. /\ m_pc = "recompute_root" /\ m_at.level > 0 /\ Merkle!FlagParent /\ m_at' = Up(m_at)
          /\ published' = published + Len(Merkle!Missing)
          /\ UNCHANGED <<tree, proof, proof_nodes>>
      BY <1>4, RecomputeUpStep
    <2>2. flag_tree' \in [Nodes -> Flag]
      BY <2>1, ParentFlag
    <2>3. /\ BatchedTo(m_at.level, Placed, RecomputeJobs, recomputed_tree', m_queue')
          /\ RecomputeJobs \in Seq(Pairs)
      BY <1>4, RecomputeBatch
    <2>4. recomputed_tree' \in [Nodes -> Contents] /\ m_queue' \in Seq(Pairs)
      BY <2>3, NoPairs, Zenon DEF BatchedTo
    <2>5. published' \in Nat
      <3>1. Merkle!Missing = <<>> \/ \E n : Merkle!Missing = <<n>>
        BY <2>1, PairLabels
      <3> QED BY <1>0, <2>1, <3>1
    <2> QED BY <1>0, <1>1, <2>1, <2>2, <2>4, <2>5
  <1>5. CASE MerkleEnd
    BY <1>0, <1>5, DoneStep DEF MerkleEnd
  <1>6. cmt_0 \in [Rounds -> Digest \union {Zero}]
    BY DEF TypeOK, RoundTypeOK
  <1>7. CASE SignRoot
    <2>1. /\ m_at' = FromLeaves /\ tree' = Merkle!WithLeaves(tree, cmt_0)
          /\ UNCHANGED <<m_queue, flag_tree, proof, proof_nodes, published, recomputed_tree>>
      BY <1>7, RootCall
    <2>2. tree' \in [Nodes -> Contents]
      BY <1>0, <1>6, <2>1, LeafValues
    <2>3. m_at' \in Ats
      BY <2>1, AtLeaves
    <2> QED BY <1>0, <2>1, <2>2, <2>3
  <1>8. CASE SignProof
    BY <1>0, <1>8, ProofCall, LeafLabels, AtLeaves
  <1>9. CASE VerifyRoot /\ Merkle!CallRecomputeRoot(cmt_0)
    <2>1. leaves_to_reveal \in Challenges
      BY <1>9, RecomputeCall DEF FlowInv
    <2>2. recomputed_tree' \in [Nodes -> Contents]
      <3>1. recomputed_tree' = Merkle!WithLeaves(recomputed_tree, cmt_0)
        BY <1>9, RecomputeCall
      <3> QED BY <1>0, <1>6, <3>1, LeafValues
    <2>3. flag_tree' \in [Nodes -> Flag]
      BY <1>9, <2>1, RecomputeCall, LeafLabels
    <2>4. /\ m_at' \in Ats /\ published' \in Nat
          /\ UNCHANGED <<m_queue, tree, proof, proof_nodes>>
      BY <1>9, RecomputeCall, AtLeaves
    <2> QED BY <1>0, <2>2, <2>3, <2>4
  <1>10. CASE MerkleStill /\ UNCHANGED proof
    BY <1>0, <1>10 DEF MerkleStill
  <1>11. CASE MerkleStill /\ Send
    <2>1. proof' = proof \/ proof' = [proof EXCEPT ![published] = tree[0]]
      BY <1>11 DEF Send
    <2>2. tree[0] \in Contents
      BY <1>0, LevelFacts DEF Nodes
    <2> QED BY <1>0, <1>11, <2>1, <2>2 DEF MerkleStill
  <1> QED BY <1>2, <1>3, <1>4, <1>5, <1>7, <1>8, <1>9, <1>10, <1>11, MerkleMoves

\* The path as it is sent.
LEMMA PathTypeStep ==
  ASSUME TypeOK, FlowInv, FaultInv, SP!IInv, Fits', [Next]_vars
  PROVE  path' \in [Seeds!Slots -> Seed \union {NoSeed}]
  <1>1. /\ path \in [Seeds!Slots -> Seed \union {NoSeed}]
        /\ Seeds!Slots = SP!Slots /\ SP!Memory = Seed \union {NoSeed}
    BY DEF TypeOK, Seeds!Slots, SP!Slots, SP!Memory
  <1>2. HonestPath' \in [SP!Slots -> SP!Memory]
    <2>1. SP!TypeOK'
      BY SeedStep DEF SP!IInv
    <2>2. SP!Slots' = SP!Slots /\ SP!Memory' = SP!Memory
      BY DEF SP!Slots, SP!Memory
    <2> QED BY <2>1, <2>2 DEF SP!TypeOK
  <1>3. CASE fault' # "path"
    BY <1>1, <1>2, <1>3 DEF HonestPath
  <1>4. CASE Send
    <2>1. path' = path \/ path' = [path EXCEPT ![num_seeds_published] = RootSeed]
      BY <1>4 DEF Send
    <2> QED BY <1>1, <2>1, Constants
  <1>5. CASE fault = "path" /\ ~Send
    <2>1. s_pc # "seed_path"
      BY <1>5 DEF FlowInv, FaultInv, Sent
    <2>2. path' = path
      <3>1. CASE SeedMove
        BY <2>1, <3>1, SeedFrame
      <3>2. CASE SignPath \/ VerifySeeds
        BY <3>2 DEF SignPath, VerifySeeds, Seeds!Open, Seeds!CallRebuild, Seeds!stored
      <3>3. CASE \/ MerkleMove \/ SignRound \/ SignRoot \/ SignProof \/ SignResponse \/ SignDone
                 \/ VerifySeedRound \/ VerifyResponseRound \/ VerifyRoot \/ Compare
                 \/ UNCHANGED vars
        BY <3>3 DEF MerkleMove, SignRound, SignRoot, SignProof, SignResponse, SignDone,
             VerifySeedRound, VerifyResponseRound, VerifyRoot, Compare, vars, seeds
      <3> QED BY <1>5, <3>1, <3>2, <3>3, Moves
    <2> QED BY <1>1, <2>2
  <1>6. fault' = fault \/ Send
    BY DEF Next, TreeStep, SignRound, SignRoot, SignProof, SignPath, SignResponse, SignDone,
         VerifySeeds, VerifySeedRound, VerifyResponseRound, VerifyRoot, Compare, vars
  <1> QED BY <1>3, <1>4, <1>5, <1>6

LEMMA TypeStep ==
  ASSUME TypeOK, FlowInv, FaultInv, ResponseInv, VerifierInv, PositionInv, QueueInv, HashedInv,
         ProofInv, OppositeInv, NodesInv, RecomputeInv, SP!IInv, Fits', [Next]_vars
  PROVE  TypeOK'
  <1>1. Seeds!Slots' = Seeds!Slots
    BY DEF Seeds!Slots
  <1> QED BY <1>1, TreeTypeStep, RoundTypeStep, PathTypeStep DEF TypeOK

-----------------------------------------------------------------------------
(* The signer's tree, continued *)

\* No job hashes to a leaf.
LEMMA LeafNotQueued ==
  ASSUME NEW l \in 1 .. LOG2T, NEW q, PairsOf(q, l), NEW r \in Rounds
  PROVE  ~InJobs(q, LeafNode(r))
  <1>1. l - 1 \in 0 .. LOG2T - 1
    BY LevelFacts
  <1>2. ASSUME NEW k \in DOMAIN q, q[k].out = LeafNode(r) PROVE FALSE
    <2>1. PICK j \in 0 .. Expanded(l - 1) - 1 : q[k] = PairJob(l, j)
      BY DEF PairsOf
    <2>2. LeafNode(r) = Node(l - 1, j)
      BY <1>2, <2>1 DEF PairJob
    <2> QED BY <1>1, <2>2, LeafFacts, InnerIsNoLeaf
  <1> QED BY <1>2 DEF InJobs

\* One more pair is passed: it is hashed with its batch.
LEMMA HashUpHashes ==
  ASSUME TypeOK, FlowInv, PositionInv, QueueInv, HashedInv, SP!IInv, Merkle!HashUp,
         NEW m \in 0 .. LOG2T - 1, NEW k \in 0 .. Expanded(m) - 1,
         Node(m + 1, 2 * k) > Current(Up(m_at)), ~InJobs(m_queue', Node(m, k))
  PROVE  IsHash(m, k)'
  <1> DEFINE l == m_at.level
             j == m_at.i \div 2
             q == HashJobs
             n == Node(m, k)
             a == Node(m + 1, 2 * k)
             b == Node(m + 1, 2 * k + 1)
  <1>1. m_pc = "tree_root" /\ m_pc # "start" /\ m_at.level > 0
    BY HashUpStep
  <1>2. /\ l \in 1 .. LOG2T /\ l \in Levels /\ l \in Nat /\ j \in 0 .. Expanded(l - 1) - 1
        /\ Current(m_at) = Node(l, 2 * j) /\ 2 * j \in 0 .. npl[l] - 1
    BY <1>1, PairFacts
  <1>3. /\ BatchedTo(l, tree, q, tree', m_queue') /\ PairsOf(q, l)
        /\ \A n1 : InJobs(q, n1) <=> Queued(n1) \/ n1 = Node(l - 1, j)
        /\ \A j2 \in 0 .. Expanded(l - 1) - 1 :
             tree[Node(l, 2 * j2)] \in Digest /\ tree[Node(l, 2 * j2 + 1)] \in Digest
    BY RootBatch
  <1>4. /\ m \in Levels /\ m + 1 \in Levels /\ k \in 0 .. npl[m] - 1
        /\ 2 * k \in 0 .. npl[m + 1] - 1 /\ 2 * k + 1 \in 0 .. npl[m + 1] - 1
    BY ChildNode
  <1>5. n \in Nodes /\ a \in Nodes /\ b \in Nodes
    BY <1>4, NodeOrder
  <1>6. /\ \A n1 \in Nodes : ~InJobs(q, n1) => tree'[n1] = tree[n1]
        /\ \A j2 \in 0 .. Expanded(l - 1) - 1 : InJobs(q, Node(l - 1, j2)) =>
             \/ InJobs(m_queue', Node(l - 1, j2))
             \/ tree'[Node(l - 1, j2)] = Merkle!Hash(tree[Node(l, 2 * j2)], tree[Node(l, 2 * j2 + 1)])
    BY <1>3 DEF BatchedTo
  <1>7. a > Current(m_at) \/ (m = l - 1 /\ k = j)
    BY <1>1, MerkleUp
  <1> HIDE DEF q, l, j
  <1>8. CASE InJobs(q, n)
    <2>1. m = l - 1 /\ m + 1 = l
      BY <1>2, <1>3, <1>4, <1>8, JobLevel
    <2>2. tree'[n] = Merkle!Hash(tree[a], tree[b]) /\ tree[a] \in Digest /\ tree[b] \in Digest
      BY <1>3, <1>6, <1>8, <2>1
    <2>3. ~InJobs(q, a) /\ ~InJobs(q, b)
      <3>1. m + 1 # l - 1
        BY <2>1
      <3> QED BY <1>2, <1>3, <1>4, <3>1, JobLevel
    <2>4. tree'[a] = tree[a] /\ tree'[b] = tree[b]
      BY <1>5, <1>6, <2>3
    <2> QED BY <2>2, <2>4, HashType DEF IsHash
  <1>9. CASE ~InJobs(q, n)
    <2>1. a > Current(m_at) /\ ~Queued(n)
      BY <1>3, <1>7, <1>9
    <2>2. IsHash(m, k)
      BY <1>1, <2>1 DEF HashedInv, Passed
    <2>3. m + 1 # l - 1
      <3>1. Node(l, 2 * j) \in Nodes /\ (m + 1 < l => a < Node(l, 2 * j))
        BY <1>2, <1>4, NodeOrder
      <3>2. ~(a < Node(l, 2 * j))
        BY <1>2, <1>5, <2>1, <3>1 DEF Nodes
      <3> QED BY <1>2, <3>1, <3>2
    <2>4. ~InJobs(q, a) /\ ~InJobs(q, b)
      BY <1>2, <1>3, <1>4, <2>3, JobLevel
    <2>5. tree'[a] = tree[a] /\ tree'[b] = tree[b] /\ tree'[n] = tree[n]
      BY <1>5, <1>6, <1>9, <2>4
    <2> QED BY <2>2, <2>5 DEF IsHash
  <1> QED BY <1>8, <1>9

LEMMA HashedStep ==
  ASSUME TypeOK, FlowInv, SignerInv, PositionInv, QueueInv, HashedInv, SP!IInv, [Next]_vars
  PROVE  HashedInv'
  <1>1. s_pc # "gen_seed_tree" => Commits0' = Commits0
    BY SeedsKept DEF Commits0
  <1>2. m_pc # "start" => Commits0' = Commits0
    BY <1>1 DEF FlowInv
  <1>3. ASSUME m_pc # "start", UNCHANGED tree,
               \A l \in 0 .. LOG2T - 1 : \A i1 \in 0 .. Expanded(l) - 1 : IsHash(l, i1)
        PROVE  HashedInv'
    BY <1>2, <1>3 DEF HashedInv, IsHash
  <1>4. m_pc \notin {"start", "tree_root"} =>
          \A l \in 0 .. LOG2T - 1 : \A i1 \in 0 .. Expanded(l) - 1 : IsHash(l, i1)
    BY DEF HashedInv
  <1>5. CASE MerkleMove /\ Merkle!HashUp
    <2>1. m_pc = "tree_root" /\ m_pc' = m_pc /\ m_at.level > 0 /\ m_at' = Up(m_at)
      BY <1>5, HashUpStep
    <2>2. ASSUME NEW r \in Rounds PROVE tree'[LeafNode(r)] = Commits0'[r]
      <3>1. tree[LeafNode(r)] = Commits0[r] /\ LeafNode(r) \in Nodes
        BY <2>1, LeafFacts DEF HashedInv
      <3>2. /\ BatchedTo(m_at.level, tree, HashJobs, tree', m_queue') /\ PairsOf(HashJobs, m_at.level)
            /\ m_at.level \in 1 .. LOG2T
        BY <1>5, <2>1, RootBatch, PairFacts
      <3>3. ~InJobs(HashJobs, LeafNode(r))
        BY <3>2, LeafNotQueued
      <3> QED BY <1>2, <2>1, <3>1, <3>2, <3>3 DEF BatchedTo
    <2>3. ASSUME NEW l \in 0 .. LOG2T - 1, NEW i1 \in 0 .. Expanded(l) - 1,
                 Passed(l, i1)', ~Queued(Node(l, i1))'
          PROVE  IsHash(l, i1)'
      <3>1. Node(l + 1, 2 * i1) > Current(Up(m_at))
        BY <2>1, <2>3 DEF Passed
      <3>2. ~InJobs(m_queue', Node(l, i1))
        BY <2>3 DEF Queued, InJobs
      <3> QED BY <1>5, <3>1, <3>2, HashUpHashes
    <2> QED BY <2>1, <2>2, <2>3 DEF HashedInv
  <1>6. CASE MerkleMove /\ (Merkle!ProveUp \/ Merkle!RecomputeUp)
    <2>1. m_pc \notin {"start", "tree_root"} /\ UNCHANGED tree
      BY <1>6, ProveUpStep, RecomputeUpStep
    <2> QED BY <1>3, <1>4, <2>1
  <1>7. CASE MerkleEnd
    <2>1. m_at.level = 0 /\ m_pc # "start" /\ UNCHANGED tree
      BY <1>7, DoneStep DEF MerkleEnd
    <2>2. ASSUME NEW l \in 0 .. LOG2T - 1, NEW i1 \in 0 .. Expanded(l) - 1 PROVE IsHash(l, i1)
      <3>1. l >= m_at.level
        BY <2>1
      <3>2. Passed(l, i1) /\ ~Queued(Node(l, i1))
        BY <2>1, <3>1, PassedBelow
      <3> QED BY <2>1, <3>2 DEF HashedInv
    <2> QED BY <1>3, <2>1, <2>2
  <1>8. CASE SignRoot
    <2>1. /\ pc = "sign_rounds" /\ i = T /\ m_pc' = "tree_root" /\ m_at' = FromLeaves
          /\ tree' = Merkle!WithLeaves(tree, cmt_0) /\ s_pc # "gen_seed_tree"
      BY <1>8, LevelFacts, RootCall DEF FlowInv
    <2>2. ASSUME NEW r \in Rounds PROVE tree'[LeafNode(r)] = Commits0'[r]
      <3>1. tree \in [Nodes -> Contents] /\ cmt_0 \in [Rounds -> Digest \union {Zero}]
        BY DEF TypeOK, TreeTypeOK, RoundTypeOK
      <3>2. tree'[LeafNode(r)] = cmt_0[r]
        BY <2>1, <3>1, LeafValues
      <3>3. cmt_0[r] = Commits0[r]
        <4>1. queue0 = <<>> /\ r \in 0 .. i - 1
          BY <2>1 DEF SignerInv, Rounds
        <4>2. ~InQueue(queue0, r)
          BY <4>1 DEF InQueue
        <4> QED BY <2>1, <4>1, <4>2 DEF SignerInv
      <3> QED BY <1>1, <2>1, <3>2, <3>3
    <2>3. ASSUME NEW l \in 0 .. LOG2T - 1, NEW i1 \in 0 .. Expanded(l) - 1 PROVE ~Passed(l, i1)'
      BY <2>1, AtLeaves DEF Passed
    <2> QED BY <2>1, <2>2, <2>3 DEF HashedInv
  <1>9. CASE SignProof \/ (VerifyRoot /\ Merkle!CallRecomputeRoot(cmt_0))
    <2>1. m_pc \notin {"start", "tree_root"} /\ UNCHANGED tree
      BY <1>9, ProofCall, RecomputeCall
    <2> QED BY <1>3, <1>4, <2>1
  <1>10. CASE MerkleStill
    BY <1>2, <1>10 DEF MerkleStill, HashedInv, Passed, Queued, IsHash
  <1> QED BY <1>5, <1>6, <1>7, <1>8, <1>9, <1>10, MerkleMoves

-----------------------------------------------------------------------------
(* Labels of the Merkle tree *)

LEMMA ChallengeKept ==
  ASSUME [Next]_vars
  PROVE  /\ chall_2' = chall_2 \/ SignProof
         /\ fault' = fault \/ Send
  BY DEF Next, TreeStep, SignRound, SignRoot, SignProof, SignPath, SignResponse, SignDone, Send,
     VerifySeeds, VerifySeedRound, VerifyResponseRound, VerifyRoot, Compare, vars

\* One more parent has its label.
LEMMA FlagUp ==
  ASSUME TypeOK, PositionInv, FlagInv, m_pc \in {"tree_proof", "recompute_root"},
         m_at.level > 0, Merkle!FlagParent, m_at' = Up(m_at), UNCHANGED <<m_pc, chall_2>>,
         NEW l, l = m_at.level, NEW j, j = m_at.i \div 2
  PROVE  /\ FlagInv'
         /\ flag_tree[Node(l - 1, j)] = Merkle!NOT_COMPUTED
         /\ \A n \in Nodes : n # Node(l - 1, j) => flag_tree'[n] = flag_tree[n]
         /\ flag_tree'[Node(l - 1, j)] = Merkle!COMPUTED <=> Merkle!SomeComputed
  <1> DEFINE p == Node(l - 1, j)
             C(n)  == flag_tree[n] = Merkle!COMPUTED
             C2(n) == flag_tree'[n] = Merkle!COMPUTED
             c == Current(m_at)
  <1>1. /\ l \in 1 .. LOG2T /\ l \in Levels /\ l - 1 \in 0 .. LOG2T - 1 /\ l - 1 \in Levels
        /\ (l - 1) + 1 = l /\ l # l - 1
        /\ j \in 0 .. Expanded(l - 1) - 1 /\ j \in 0 .. npl[l - 1] - 1
        /\ 2 * j \in 0 .. npl[l] - 1 /\ 2 * j + 1 \in 0 .. npl[l] - 1
        /\ c = Node(l, 2 * j) /\ Node(l, 2 * j + 1) = c + 1
        /\ Node(l, 2 * j) \in Nodes /\ Node(l, 2 * j + 1) \in Nodes /\ p \in Nodes
        /\ p < c
    BY PairFacts
  <1>2. /\ C2(p) <=> Merkle!SomeComputed \/ C(p)
        /\ \A n \in Nodes : n # p => flag_tree'[n] = flag_tree[n]
        /\ flag_tree[p] \in {Merkle!NOT_COMPUTED, Merkle!COMPUTED}
    <2>1. /\ flag_tree'[p] = IF Merkle!SomeComputed THEN Merkle!COMPUTED ELSE flag_tree[p]
          /\ \A n \in Nodes : n # p => flag_tree'[n] = flag_tree[n]
      BY ParentFlag
    <2> QED BY <1>1, <2>1 DEF TypeOK, TreeTypeOK
  <1>3. Merkle!SomeComputed <=> C(Node(l, 2 * j)) \/ C(Node(l, 2 * j + 1))
    BY PairLabels DEF IsComputed
  <1>4. /\ \A r \in Rounds : C(LeafNode(r)) <=> chall_2[r] = 0
        /\ \A m \in 0 .. LOG2T - 1 : \A k \in 0 .. Expanded(m) - 1 :
             C(Node(m, k)) <=> Node(m + 1, 2 * k) > c
                               /\ (C(Node(m + 1, 2 * k)) \/ C(Node(m + 1, 2 * k + 1)))
        /\ \E n \in Nodes : n <= c + 1 /\ C(n)
    BY DEF FlagInv, IsComputed, Passed
  <1>5. /\ Current(Up(m_at)) = c - 2
        /\ \A m \in 0 .. LOG2T - 1 : \A k \in 0 .. Expanded(m) - 1 :
             Node(m + 1, 2 * k) > Current(Up(m_at)) <=>
               Node(m + 1, 2 * k) > c \/ (m = l - 1 /\ k = j)
    BY MerkleUp
  <1>6. c \in Int /\ \A n \in Nodes : n \in Int
    BY <1>1 DEF Nodes
  <1> HIDE DEF p, c
  <1>7. ~C(p)
    <2>1. ~(Node((l - 1) + 1, 2 * j) > c)
      BY <1>1, <1>6
    <2>2. C(Node(l - 1, j)) => Node((l - 1) + 1, 2 * j) > c
      BY <1>1, <1>4
    <2> QED BY <2>1, <2>2 DEF p
  <1> HIDE DEF C, C2
  <1>8. \A n \in Nodes : n # p => (C2(n) <=> C(n))
    BY <1>2 DEF C, C2
  <1>9. ASSUME NEW r \in Rounds PROVE C2(LeafNode(r)) <=> chall_2[r] = 0
    <2>1. LeafNode(r) # p /\ LeafNode(r) \in Nodes
      BY <1>1, LeafFacts, InnerIsNoLeaf DEF p
    <2> QED BY <1>4, <1>8, <2>1
  <1>10. ASSUME NEW m \in 0 .. LOG2T - 1, NEW k \in 0 .. Expanded(m) - 1
         PROVE  C2(Node(m, k)) <=> /\ Node(m + 1, 2 * k) > Current(Up(m_at))
                                   /\ C2(Node(m + 1, 2 * k)) \/ C2(Node(m + 1, 2 * k + 1))
    <2>1. /\ m \in Levels /\ m + 1 \in Levels /\ k \in 0 .. npl[m] - 1 /\ m \in Nat
          /\ 2 * k \in 0 .. npl[m + 1] - 1 /\ 2 * k + 1 \in 0 .. npl[m + 1] - 1
      BY ChildNode, LevelFacts
    <2>2. /\ Node(m, k) \in Nodes /\ Node(m + 1, 2 * k) \in Nodes /\ Node(m + 1, 2 * k + 1) \in Nodes
          /\ Node(m, k) = p <=> m = l - 1 /\ k = j
      BY <1>1, <2>1, NodeOrder DEF p
    <2>3. CASE m = l - 1 /\ k = j
      <3>1. Node(m + 1, 2 * k) # p /\ Node(m + 1, 2 * k + 1) # p
        <4>1. m + 1 # l - 1
          BY <2>1, <2>3
        <4> QED BY <1>1, <2>1, <4>1, NodeOrder DEF p
      <3>2. m + 1 = l /\ Node(m, k) = p
        BY <1>1, <2>2, <2>3
      <3>3. C2(Node(m + 1, 2 * k)) \/ C2(Node(m + 1, 2 * k + 1)) <=> Merkle!SomeComputed
        BY <1>3, <1>8, <2>2, <2>3, <3>1, <3>2
      <3>4. C2(p) <=> Merkle!SomeComputed
        BY <1>2, <1>7
      <3> QED BY <1>5, <2>3, <3>2, <3>3, <3>4
    <2>4. CASE ~(m = l - 1 /\ k = j) /\ m + 1 # l - 1
      <3>1. Node(m + 1, 2 * k) # p /\ Node(m + 1, 2 * k + 1) # p
        BY <1>1, <2>1, <2>4, NodeOrder DEF p
      <3> QED BY <1>4, <1>5, <1>8, <2>2, <2>4, <3>1
    <2>5. CASE ~(m = l - 1 /\ k = j) /\ m + 1 = l - 1
      <3>1. Node(m + 1, 2 * k) < Node(l, 2 * j)
        BY <1>1, <2>1, <2>5, NodeOrder
      <3>2. ~(Node(m + 1, 2 * k) > c)
        BY <1>1, <1>6, <2>2, <3>1
      <3> QED BY <1>4, <1>5, <1>8, <2>2, <2>5, <3>2
    <2> QED BY <2>3, <2>4, <2>5
  <1>11. \E n \in Nodes : n <= (c - 2) + 1 /\ C2(n)
    <2>1. PICK n \in Nodes : n <= c + 1 /\ C(n)
      BY <1>4
    <2>2. CASE n \in {c, c + 1}
      <3>1. Merkle!SomeComputed
        BY <1>1, <1>3, <2>1, <2>2
      <3>2. C2(p)
        BY <1>2, <3>1
      <3>3. p <= (c - 2) + 1
        BY <1>1, <1>6
      <3> QED BY <1>1, <3>2, <3>3
    <2>3. CASE n \notin {c, c + 1}
      <3>1. n <= (c - 2) + 1 /\ n # p
        BY <1>6, <1>7, <2>1, <2>3
      <3> QED BY <1>8, <2>1, <3>1
    <2> QED BY <2>2, <2>3
  <1>12. FlagInv'
    BY <1>5, <1>9, <1>10, <1>11 DEF FlagInv, IsComputed, Passed, C2
  <1>13. flag_tree[p] = Merkle!NOT_COMPUTED
    BY <1>2, <1>7 DEF C
  <1> QED BY <1>2, <1>7, <1>12, <1>13 DEF p, C2

\* The labels the walks start from.
LEMMA FlagStart ==
  ASSUME NEW ch \in Challenges, chall_2' = ch, m_at' = FromLeaves,
         flag_tree' = Merkle!label_leaves(ch)
  PROVE  FlagInv'
  <1>1. /\ \A r \in Rounds : flag_tree'[LeafNode(r)] = Merkle!COMPUTED <=> ch[r] = 0
        /\ \A l \in 0 .. LOG2T - 1 : \A i1 \in 0 .. Expanded(l) - 1 :
             flag_tree'[Node(l, i1)] # Merkle!COMPUTED
    BY LeafLabels
  <1>2. PICK r \in Rounds : ch[r] = 0
    BY FixedWeightAssumption
  <1>3. /\ LeafNode(r) \in Nodes /\ T \in Nat /\ Current(FromLeaves) = 2 * T - 3
    BY LeafFacts, LevelFacts, AtLeaves
  <1>4. LeafNode(r) <= Current(FromLeaves) + 1
    BY <1>3 DEF Nodes
  <1>5. \A l \in 0 .. LOG2T - 1 : \A i1 \in 0 .. Expanded(l) - 1 :
          ~(Node(l + 1, 2 * i1) > Current(FromLeaves))
    BY AtLeaves
  <1>6. \E n \in Nodes : n <= Current(FromLeaves) + 1 /\ flag_tree'[n] = Merkle!COMPUTED
    BY <1>1, <1>2, <1>3, <1>4
  <1> QED BY <1>1, <1>5, <1>6 DEF FlagInv, IsComputed, Passed

LEMMA FlagStep ==
  ASSUME TypeOK, FlowInv, PositionInv, FlagInv, [Next]_vars
  PROVE  FlagInv'
  <1>1. CASE MerkleMove /\ Merkle!HashUp
    BY <1>1, HashUpStep DEF FlagInv
  <1>2. CASE MerkleMove /\ (Merkle!ProveUp \/ Merkle!RecomputeUp)
    <2>1. /\ m_pc \in {"tree_proof", "recompute_root"} /\ m_at.level > 0
          /\ Merkle!FlagParent /\ m_at' = Up(m_at) /\ UNCHANGED <<m_pc, chall_2>>
      BY <1>2, ProveUpStep, RecomputeUpStep, MerkleFrame
    <2> QED BY <2>1, FlagUp
  <1>3. CASE MerkleEnd
    <2>1. UNCHANGED <<m_at, flag_tree, chall_2>>
      BY <1>3, DoneStep, MerkleFrame DEF MerkleEnd
    <2>2. m_pc \in {"start", "tree_root", "root"} => m_pc' = "root"
      BY <1>3, DoneStep DEF MerkleEnd
    <2> QED BY <2>1, <2>2 DEF FlagInv, IsComputed, Passed
  <1>4. CASE SignRoot
    BY <1>4, RootCall DEF FlagInv
  <1>5. CASE SignProof
    BY <1>5, ProofCall, FlagStart
  <1>6. CASE VerifyRoot /\ Merkle!CallRecomputeRoot(cmt_0)
    <2>1. leaves_to_reveal = chall_2 /\ chall_2 \in Challenges
      BY <1>6, RecomputeCall DEF FlowInv
    <2> QED BY <1>6, <2>1, RecomputeCall, FlagStart
  <1>7. CASE MerkleStill
    <2>1. chall_2' = chall_2 \/ m_pc' # m_pc
      BY ChallengeKept, ProofCall
    <2> QED BY <1>7, <2>1 DEF MerkleStill, FlagInv, IsComputed, Passed
  <1> QED BY <1>1, <1>2, <1>3, <1>4, <1>5, <1>6, <1>7, MerkleMoves

-----------------------------------------------------------------------------
(* The proof *)

\* Which digest of the pair goes to the proof.
LEMMA PairProof ==
  ASSUME TypeOK, PositionInv, m_pc # "start", m_at.level > 0,
         NEW l, l = m_at.level, NEW j, j = m_at.i \div 2
  PROVE  \/ Merkle!Missing = <<>> /\ ~IsMissing(l, 2 * j) /\ ~IsMissing(l, 2 * j + 1)
         \/ /\ Merkle!Missing = <<Node(l, 2 * j)>>
            /\ IsMissing(l, 2 * j) /\ ~IsMissing(l, 2 * j + 1)
         \/ /\ Merkle!Missing = <<Node(l, 2 * j + 1)>>
            /\ ~IsMissing(l, 2 * j) /\ IsMissing(l, 2 * j + 1)
  <1>1. j \in Int
    BY PairFacts
  <1>2. Sibling(2 * j) = 2 * j + 1 /\ Sibling(2 * j + 1) = 2 * j
    BY <1>1, EvenSibling
  <1> QED BY <1>2, PairLabels DEF IsMissing

\* The label of the parent does not matter to the pairs that were passed.
LEMMA MissingKept ==
  ASSUME TypeOK, PositionInv, m_pc # "start", m_at.level > 0, Merkle!FlagParent,
         NEW m \in 1 .. LOG2T, NEW h \in 0 .. npl[m] - 1, ~(Node(m, h) < Current(m_at))
  PROVE  IsMissing(m, h)' <=> IsMissing(m, h)
  <1> DEFINE l == m_at.level
             j == m_at.i \div 2
             p == Node(l - 1, j)
  <1>1. /\ l \in Levels /\ l - 1 \in Levels /\ j \in 0 .. npl[l - 1] - 1 /\ l \in Nat
        /\ Current(m_at) = Node(l, 2 * j) /\ 2 * j \in 0 .. npl[l] - 1 /\ l - 1 < l
    BY PairFacts, LevelFacts
  <1>2. m \in Levels /\ Sibling(h) \in 0 .. npl[m] - 1
    <2>1. m \in Levels /\ (h \div 2) \in 0 .. Expanded(m - 1) - 1
      BY SiblingPair, LevelFacts DEF Levels
    <2> QED BY <2>1, SiblingPair, PairNodes
  <1>3. m # l - 1
    <2>1. ASSUME m = l - 1 PROVE FALSE
      <3>1. Node(m, h) < Node(l, 2 * j)
        BY <1>1, <1>2, <2>1, NodeOrder
      <3> QED BY <1>1, <3>1
    <2> QED BY <2>1
  <1>4. /\ Node(m, h) # p /\ Node(m, Sibling(h)) # p
        /\ Node(m, h) \in Nodes /\ Node(m, Sibling(h)) \in Nodes
    BY <1>1, <1>2, <1>3, NodeOrder
  <1>5. \A n \in Nodes : n # p => flag_tree'[n] = flag_tree[n]
    BY ParentFlag
  <1> QED BY <1>4, <1>5 DEF IsMissing, IsComputed

\* What the proof has when the walk is at node c.
ProofUpTo(s, c) ==
  \A k \in 1 .. Len(s) : /\ s[k] > c + 1
                         /\ \E l \in 1 .. LOG2T : \E i1 \in 0 .. npl[l] - 1 :
                              s[k] = Node(l, i1) /\ IsMissing(l, i1)
AllMissing(s, c) ==
  \A l \in 1 .. LOG2T : \A i1 \in 0 .. npl[l] - 1 :
    Node(l, i1) > c + 1 /\ IsMissing(l, i1) => \E k \in 1 .. Len(s) : s[k] = Node(l, i1)

\* One more pair is passed: its missing digest is the next of the proof.
LEMMA ProofGrows ==
  ASSUME TypeOK, PositionInv, m_pc # "start", m_at.level > 0, Merkle!FlagParent,
         m_at' = Up(m_at), proof_nodes' = proof_nodes \o Merkle!Missing,
         ProofUpTo(proof_nodes, Current(m_at)), AllMissing(proof_nodes, Current(m_at)),
         \A j, k \in 1 .. Len(proof_nodes) : j < k => proof_nodes[k] < proof_nodes[j]
  PROVE  /\ ProofUpTo(proof_nodes, Current(m_at))' /\ AllMissing(proof_nodes, Current(m_at))'
         /\ \A j, k \in 1 .. Len(proof_nodes') : j < k => proof_nodes'[k] < proof_nodes'[j]
  <1> DEFINE l  == m_at.level
             j  == m_at.i \div 2
             c  == Current(m_at)
             s  == proof_nodes
             s2 == proof_nodes'
  <1>1. /\ l \in 1 .. LOG2T /\ l \in Levels
        /\ 2 * j \in 0 .. npl[l] - 1 /\ 2 * j + 1 \in 0 .. npl[l] - 1
        /\ c = Node(l, 2 * j) /\ Node(l, 2 * j + 1) = c + 1 /\ c \in Nodes /\ c + 1 \in Nodes
    BY PairFacts
  <1>2. Current(m_at') = c - 2
    BY MerkleUp
  <1>3. s \in Seq(Nodes) /\ Len(s) \in Nat /\ \A k \in 1 .. Len(s) : s[k] \in Nodes
    BY DEF TypeOK, TreeTypeOK
  <1>4. \A n \in Nodes : n \in Int
    BY DEF Nodes
  <1>5. \A m \in 1 .. LOG2T : \A h \in 0 .. npl[m] - 1 :
          ~(Node(m, h) < c) => (IsMissing(m, h)' <=> IsMissing(m, h))
    BY MissingKept
  <1>6. \A m \in 1 .. LOG2T : \A h \in 0 .. npl[m] - 1 :
          /\ Node(m, h) \in Nodes
          /\ Node(m, h) = c => m = l /\ h = 2 * j
          /\ Node(m, h) = c + 1 => m = l /\ h = 2 * j + 1
    <2>1. ASSUME NEW m \in 1 .. LOG2T, NEW h \in 0 .. npl[m] - 1
          PROVE  /\ Node(m, h) \in Nodes
                 /\ Node(m, h) = c => m = l /\ h = 2 * j
                 /\ Node(m, h) = c + 1 => m = l /\ h = 2 * j + 1
      <3>1. m \in Levels
        BY LevelFacts DEF Levels
      <3> QED BY <1>1, <3>1, NodeOrder
    <2> QED BY <2>1
  <1>7. /\ \A k \in 1 .. Len(s) : /\ s[k] > c + 1
                                  /\ \E m \in 1 .. LOG2T : \E h \in 0 .. npl[m] - 1 :
                                       s[k] = Node(m, h) /\ IsMissing(m, h)
        /\ \A m \in 1 .. LOG2T : \A h \in 0 .. npl[m] - 1 :
             Node(m, h) > c + 1 /\ IsMissing(m, h) => \E k \in 1 .. Len(s) : s[k] = Node(m, h)
    BY DEF ProofUpTo, AllMissing
  <1>8. \A a, b \in 1 .. Len(s) : a < b => s[b] < s[a]
    OBVIOUS
  <1>9. s2 = s \o Merkle!Missing
    OBVIOUS
  <1> HIDE DEF s, s2, c, l, j
  \* the entries there are stay missing
  <1>10. ASSUME NEW n \in Int, n > c + 1,
                \E m \in 1 .. LOG2T : \E h \in 0 .. npl[m] - 1 : n = Node(m, h) /\ IsMissing(m, h)
         PROVE  n > (c - 2) + 1 /\ \E m \in 1 .. LOG2T : \E h \in 0 .. npl[m] - 1 :
                                     n = Node(m, h) /\ IsMissing(m, h)'
    <2>1. PICK m \in 1 .. LOG2T : \E h \in 0 .. npl[m] - 1 : n = Node(m, h) /\ IsMissing(m, h)
      BY <1>10
    <2>2. PICK h \in 0 .. npl[m] - 1 : n = Node(m, h) /\ IsMissing(m, h)
      BY <2>1
    <2>3. c \in Int /\ ~(n < c) /\ n > (c - 2) + 1
      BY <1>1, <1>4, <1>10
    <2>4. IsMissing(m, h)'
      BY <1>5, <2>2, <2>3
    <2> QED BY <2>2, <2>3, <2>4
  \* and those below the new place are them, or in the pair
  <1>11. ASSUME NEW m \in 1 .. LOG2T, NEW h \in 0 .. npl[m] - 1,
                Node(m, h) > (c - 2) + 1, IsMissing(m, h)'
         PROVE  /\ IsMissing(m, h)
                /\ \/ \E k \in 1 .. Len(s) : s[k] = Node(m, h)
                   \/ Node(m, h) = c /\ m = l /\ h = 2 * j
                   \/ Node(m, h) = c + 1 /\ m = l /\ h = 2 * j + 1
    <2>1. c \in Int /\ Node(m, h) \in Int
      BY <1>1, <1>4, <1>6
    <2>2. IsMissing(m, h)
      BY <1>5, <1>11, <2>1
    <2>3. Node(m, h) > c + 1 \/ Node(m, h) = c \/ Node(m, h) = c + 1
      BY <1>11, <2>1
    <2> QED BY <1>6, <1>7, <2>2, <2>3
  <1>12. CASE Merkle!Missing = <<>> /\ ~IsMissing(l, 2 * j) /\ ~IsMissing(l, 2 * j + 1)
    <2>1. s2 = s
      BY <1>3, <1>9, <1>12
    <2>2. \A k \in 1 .. Len(s2) : /\ s2[k] > (c - 2) + 1
                                  /\ \E m \in 1 .. LOG2T : \E h \in 0 .. npl[m] - 1 :
                                       s2[k] = Node(m, h) /\ IsMissing(m, h)'
      BY <1>3, <1>4, <1>7, <1>10, <2>1
    <2>3. \A m \in 1 .. LOG2T : \A h \in 0 .. npl[m] - 1 :
            Node(m, h) > (c - 2) + 1 /\ IsMissing(m, h)' => \E k \in 1 .. Len(s2) : s2[k] = Node(m, h)
      BY <1>11, <1>12, <2>1
    <2> QED BY <1>2, <1>8, <2>1, <2>2, <2>3 DEF ProofUpTo, AllMissing, s2, c, s
  <1>13. ASSUME NEW n \in {c, c + 1}, Merkle!Missing = <<n>>,
                \E h \in {2 * j, 2 * j + 1} : n = Node(l, h) /\ IsMissing(l, h),
                n = c => ~IsMissing(l, 2 * j + 1), n = c + 1 => ~IsMissing(l, 2 * j)
         PROVE  /\ ProofUpTo(proof_nodes, Current(m_at))' /\ AllMissing(proof_nodes, Current(m_at))'
                /\ \A a, b \in 1 .. Len(s2) : a < b => s2[b] < s2[a]
    <2>1. n \in Nodes /\ n \in Int /\ c \in Int
      BY <1>1, <1>4
    <2>2. /\ Len(s2) = Len(s) + 1 /\ s2[Len(s) + 1] = n
          /\ \A k \in 1 .. Len(s) : s2[k] = s[k]
      BY <1>3, <1>9, <1>13, <2>1
    <2>3. \A k \in 1 .. Len(s2) : k \in 1 .. Len(s) \/ k = Len(s) + 1
      BY <1>3, <2>2
    <2>4. /\ n > (c - 2) + 1
          /\ \E m \in 1 .. LOG2T : \E h \in 0 .. npl[m] - 1 : n = Node(m, h) /\ IsMissing(m, h)'
      <3>1. PICK m \in 1 .. LOG2T : \E h \in 0 .. npl[m] - 1 : n = Node(m, h) /\ IsMissing(m, h)
        BY <1>1, <1>13
      <3>2. PICK h \in 0 .. npl[m] - 1 : n = Node(m, h) /\ IsMissing(m, h)
        BY <3>1
      <3>3. ~(Node(m, h) < c) /\ n > (c - 2) + 1
        BY <2>1, <3>2
      <3>4. IsMissing(m, h)'
        BY <1>5, <3>2, <3>3
      <3> QED BY <3>2, <3>3, <3>4
    <2>5. \A k \in 1 .. Len(s2) : /\ s2[k] > (c - 2) + 1
                                  /\ \E m \in 1 .. LOG2T : \E h \in 0 .. npl[m] - 1 :
                                       s2[k] = Node(m, h) /\ IsMissing(m, h)'
      <3>1. ASSUME NEW k \in 1 .. Len(s)
            PROVE  /\ s[k] > (c - 2) + 1
                   /\ \E m \in 1 .. LOG2T : \E h \in 0 .. npl[m] - 1 :
                        s[k] = Node(m, h) /\ IsMissing(m, h)'
        BY <1>3, <1>4, <1>7, <1>10
      <3>2. ASSUME NEW k \in 1 .. Len(s2)
            PROVE  /\ s2[k] > (c - 2) + 1
                   /\ \E m \in 1 .. LOG2T : \E h \in 0 .. npl[m] - 1 :
                        s2[k] = Node(m, h) /\ IsMissing(m, h)'
        <4>1. CASE k \in 1 .. Len(s)
          <5>1. s2[k] = s[k]
            BY <2>2, <4>1
          <5> QED BY <3>1, <4>1, <5>1
        <4>2. CASE k = Len(s) + 1
          <5>1. s2[k] = n
            BY <2>2, <4>2
          <5> QED BY <2>4, <5>1
        <4> QED BY <2>3, <4>1, <4>2
      <3> QED BY <3>2
    <2>6. ASSUME NEW m \in 1 .. LOG2T, NEW h \in 0 .. npl[m] - 1,
                 Node(m, h) > (c - 2) + 1, IsMissing(m, h)'
          PROVE  \E k \in 1 .. Len(s2) : s2[k] = Node(m, h)
      <3>1. Len(s) + 1 \in 1 .. Len(s2) /\ \A k \in 1 .. Len(s) : k \in 1 .. Len(s2)
        BY <1>3, <2>2
      <3>2. (\E k \in 1 .. Len(s) : s[k] = Node(m, h)) \/ Node(m, h) = n
        BY <1>11, <1>13, <2>6
      <3> QED BY <2>2, <3>1, <3>2
    <2>7. ASSUME NEW a \in 1 .. Len(s2), NEW b \in 1 .. Len(s2), a < b PROVE s2[b] < s2[a]
      <3>1. a \in 1 .. Len(s)
        BY <1>3, <2>2, <2>7
      <3>2. CASE b \in 1 .. Len(s)
        BY <1>8, <2>2, <2>7, <3>1, <3>2
      <3>3. CASE b = Len(s) + 1
        <4>1. s[a] > c + 1 /\ s[a] \in Int
          BY <1>3, <1>4, <1>7, <3>1
        <4>2. n < s[a]
          BY <2>1, <4>1
        <4> QED BY <2>2, <3>1, <3>3, <4>2
      <3> QED BY <2>3, <3>2, <3>3
    <2> QED BY <1>2, <2>5, <2>6, <2>7 DEF ProofUpTo, AllMissing, s2, c
  <1>14. CASE Merkle!Missing = <<c>> /\ IsMissing(l, 2 * j) /\ ~IsMissing(l, 2 * j + 1)
    BY <1>1, <1>4, <1>13, <1>14 DEF s2
  <1>15. CASE Merkle!Missing = <<c + 1>> /\ ~IsMissing(l, 2 * j) /\ IsMissing(l, 2 * j + 1)
    BY <1>1, <1>4, <1>13, <1>15 DEF s2
  <1> QED BY <1>1, <1>12, <1>14, <1>15, PairProof DEF l, j, s2

\* The digests of the proof and what is behind them.
Digests(s) ==
  /\ \A k \in 1 .. Len(s) : k - 1 \in Merkle!Slots => proof[k - 1] = tree[s[k]]
  /\ \A k \in Merkle!Slots : k >= Len(s) =>
       proof[k] = IF fault = "proof" /\ k = Len(s) THEN tree[0] ELSE Zero
Falling(s) == \A j, k \in 1 .. Len(s) : j < k => s[k] < s[j]

LEMMA ProofIs ==
  ProofInv <=>
    /\ Digests(proof_nodes) /\ Falling(proof_nodes)
    /\ m_pc \in {"start", "tree_root", "root"} => proof_nodes = <<>> /\ published = 0
    /\ m_pc \in {"tree_proof", "proof"} =>
         /\ published = Len(proof_nodes)
         /\ ProofUpTo(proof_nodes, Current(m_at)) /\ AllMissing(proof_nodes, Current(m_at))
  BY DEF ProofInv, Digests, Falling, ProofUpTo, AllMissing

LEMMA ProofIsNext ==
  ProofInv' <=>
    /\ Digests(proof_nodes)' /\ Falling(proof_nodes')
    /\ m_pc' \in {"start", "tree_root", "root"} => proof_nodes' = <<>> /\ published' = 0
    /\ m_pc' \in {"tree_proof", "proof"} =>
         /\ published' = Len(proof_nodes')
         /\ ProofUpTo(proof_nodes, Current(m_at))' /\ AllMissing(proof_nodes, Current(m_at))'
  BY DEF ProofInv, Digests, Falling, ProofUpTo, AllMissing, Merkle!Slots

\* Without a proof there is nothing to compare with the tree.
LEMMA NoDigests ==
  ASSUME proof_nodes = <<>>, Digests(proof_nodes), fault # "proof",
         UNCHANGED <<proof, proof_nodes, fault>>
  PROVE  Digests(proof_nodes)' /\ Falling(proof_nodes')
  <1>1. Len(<<>>) = 0 /\ 1 .. 0 = {}
    OBVIOUS
  <1> QED BY <1>1 DEF Digests, Falling, Merkle!Slots

\* What is put at the end of the proof.
LEMMA DigestsGrow ==
  ASSUME TypeOK, PositionInv, Digests(proof_nodes), fault # "proof", published = Len(proof_nodes),
         Merkle!ProveUp, UNCHANGED fault
  PROVE  Digests(proof_nodes)'
  <1> DEFINE N == Len(proof_nodes)
  <1>1. /\ m_at.level > 0 /\ m_pc # "start" /\ UNCHANGED tree
        /\ proof' = IF Merkle!Missing = <<>>
                      THEN proof ELSE [proof EXCEPT ![published] = tree[Merkle!Missing[1]]]
        /\ proof_nodes' = proof_nodes \o Merkle!Missing
    BY ProveUpStep
  <1>2. /\ proof_nodes \in Seq(Nodes) /\ proof \in [Merkle!Slots -> Contents]
        /\ N \in Nat /\ Merkle!Slots \subseteq Int
    BY DEF TypeOK, TreeTypeOK, Merkle!Slots
  <1>3. Merkle!Missing = <<>> \/ \E n \in Nodes : Merkle!Missing = <<n>>
    BY <1>1, PairFacts, PairLabels
  <1>4. /\ \A k \in 1 .. N : k - 1 \in Merkle!Slots => proof[k - 1] = tree[proof_nodes[k]]
        /\ \A k \in Merkle!Slots : k >= N => proof[k] = Zero
    BY DEF Digests
  <1>5. CASE Merkle!Missing = <<>>
    <2>1. proof_nodes' = proof_nodes /\ proof' = proof
      BY <1>1, <1>2, <1>5
    <2> QED BY <1>1, <2>1 DEF Digests, Merkle!Slots
  <1>6. ASSUME NEW n \in Nodes, Merkle!Missing = <<n>> PROVE Digests(proof_nodes)'
    <2>1. /\ proof' = [proof EXCEPT ![N] = tree[n]]
          /\ Len(proof_nodes') = N + 1 /\ proof_nodes'[N + 1] = n
          /\ \A k \in 1 .. N : proof_nodes'[k] = proof_nodes[k]
      BY <1>1, <1>2, <1>6
    <2>2. ASSUME NEW k \in 1 .. N + 1, k - 1 \in Merkle!Slots
          PROVE  proof'[k - 1] = tree'[proof_nodes'[k]]
      <3>1. CASE k = N + 1
        <4>1. k - 1 = N
          BY <1>2, <3>1
        <4>2. proof'[N] = tree[n]
          BY <1>2, <2>1, <2>2, <4>1
        <4> QED BY <1>1, <2>1, <3>1, <4>1, <4>2
      <3>2. CASE k \in 1 .. N
        <4>1. k - 1 # N
          BY <1>2, <3>2
        <4>2. proof'[k - 1] = proof[k - 1]
          BY <1>2, <2>1, <2>2, <4>1
        <4> QED BY <1>1, <1>4, <2>1, <2>2, <3>2, <4>2
      <3> QED BY <1>2, <3>1, <3>2
    <2>3. ASSUME NEW k \in Merkle!Slots, k >= N + 1 PROVE proof'[k] = Zero
      <3>1. k # N /\ k >= N
        BY <1>2, <2>3
      <3>2. proof'[k] = proof[k]
        BY <1>2, <2>1, <3>1
      <3> QED BY <1>4, <3>1, <3>2
    <2> QED BY <2>1, <2>2, <2>3 DEF Digests, Merkle!Slots
  <1> QED BY <1>3, <1>5, <1>6

\* The padding that is sent.
LEMMA DigestsSent ==
  ASSUME TypeOK, Digests(proof_nodes), fault # "proof", published = Len(proof_nodes),
         Send, MerkleStill
  PROVE  Digests(proof_nodes)'
  <1> DEFINE N == Len(proof_nodes)
  <1>1. /\ UNCHANGED <<tree, proof_nodes>>
        /\ proof' = IF fault' = "proof" THEN [proof EXCEPT ![N] = tree[0]] ELSE proof
    BY DEF MerkleStill, Send
  <1>2. /\ proof \in [Merkle!Slots -> Contents] /\ N \in Nat /\ Merkle!Slots \subseteq Int
    BY DEF TypeOK, TreeTypeOK, Merkle!Slots
  <1>3. /\ \A k \in 1 .. N : k - 1 \in Merkle!Slots => proof[k - 1] = tree[proof_nodes[k]]
        /\ \A k \in Merkle!Slots : k >= N => proof[k] = Zero
    BY DEF Digests
  <1>4. ASSUME NEW k \in 1 .. N, k - 1 \in Merkle!Slots PROVE proof'[k - 1] = tree[proof_nodes[k]]
    <2>1. k - 1 # N
      BY <1>2, <1>4
    <2>2. proof'[k - 1] = proof[k - 1]
      BY <1>1, <1>2, <1>4, <2>1
    <2> QED BY <1>3, <1>4, <2>2
  <1>5. ASSUME NEW k \in Merkle!Slots, k >= N
        PROVE  proof'[k] = IF fault' = "proof" /\ k = N THEN tree[0] ELSE Zero
    BY <1>1, <1>2, <1>3, <1>5
  <1> QED BY <1>1, <1>4, <1>5 DEF Digests, Merkle!Slots

LEMMA ProofStep ==
  ASSUME TypeOK, FlowInv, FaultInv, PositionInv, ProofInv, [Next]_vars
  PROVE  ProofInv'
  <1>0. /\ Digests(proof_nodes) /\ Falling(proof_nodes)
        /\ m_pc \in {"start", "tree_root", "root"} => proof_nodes = <<>> /\ published = 0
        /\ m_pc \in {"tree_proof", "proof"} =>
             /\ published = Len(proof_nodes)
             /\ ProofUpTo(proof_nodes, Current(m_at)) /\ AllMissing(proof_nodes, Current(m_at))
    BY ProofIs
  <1>1. m_pc \in {"start", "tree_root", "root", "tree_proof"} \/ pc = "send" => fault = "none"
    BY DEF FlowInv, FaultInv, Sent
  <1>2. ASSUME UNCHANGED <<tree, proof, proof_nodes, fault>>
        PROVE  Digests(proof_nodes)' /\ Falling(proof_nodes')
    BY <1>0, <1>2 DEF Digests, Merkle!Slots
  <1>3. ASSUME UNCHANGED <<m_at, flag_tree, proof_nodes>>
        PROVE  /\ ProofUpTo(proof_nodes, Current(m_at))' <=> ProofUpTo(proof_nodes, Current(m_at))
               /\ AllMissing(proof_nodes, Current(m_at))' <=> AllMissing(proof_nodes, Current(m_at))
    BY <1>3 DEF ProofUpTo, AllMissing, IsMissing, IsComputed
  <1>4. fault' = fault \/ Send
    BY ChallengeKept
  <1>5. CASE SignRoot \/ (MerkleMove /\ Merkle!HashUp)
    <2>1. /\ m_pc \in {"start", "tree_root"} /\ m_pc' = "tree_root"
          /\ UNCHANGED <<proof, proof_nodes, published, fault>>
      BY <1>5, RootCall, HashUpStep, MerkleFrame
    <2>2. proof_nodes = <<>> /\ Digests(proof_nodes) /\ fault # "proof"
      BY <1>0, <1>1, <2>1
    <2>3. Digests(proof_nodes)' /\ Falling(proof_nodes')
      BY <2>1, <2>2, NoDigests
    <2> QED BY <1>0, <2>1, <2>3, ProofIsNext
  <1>6. CASE MerkleMove /\ Merkle!ProveUp
    <2>1. /\ m_pc = "tree_proof" /\ m_pc' = "tree_proof" /\ m_at.level > 0 /\ m_pc # "start"
          /\ Merkle!FlagParent /\ m_at' = Up(m_at)
          /\ proof_nodes' = proof_nodes \o Merkle!Missing
          /\ published' = published + Len(Merkle!Missing) /\ UNCHANGED fault
      BY <1>6, ProveUpStep, MerkleFrame
    <2>2. Digests(proof_nodes)'
      BY <1>0, <1>1, <1>6, <2>1, DigestsGrow
    <2>3. /\ ProofUpTo(proof_nodes, Current(m_at))' /\ AllMissing(proof_nodes, Current(m_at))'
          /\ Falling(proof_nodes')
      BY <1>0, <2>1, ProofGrows DEF Falling
    <2>4. published' = Len(proof_nodes')
      <3>1. Merkle!Missing = <<>> \/ \E n \in Nodes : Merkle!Missing = <<n>>
        BY <2>1, PairFacts, PairLabels
      <3>2. proof_nodes \in Seq(Nodes)
        BY DEF TypeOK, TreeTypeOK
      <3>3. Merkle!Missing \in Seq(Nodes)
        <4>1. <<>> \in Seq(Nodes) /\ \A n \in Nodes : <<n>> \in Seq(Nodes)
          OBVIOUS
        <4> QED BY <3>1, <4>1, Zenon
      <3>4. Len(proof_nodes') = Len(proof_nodes) + Len(Merkle!Missing)
        BY <2>1, <3>2, <3>3
      <3> QED BY <1>0, <2>1, <3>4
    <2> QED BY <2>1, <2>2, <2>3, <2>4, ProofIsNext
  <1>7. CASE MerkleMove /\ Merkle!RecomputeUp
    <2>1. m_pc' = "recompute_root" /\ UNCHANGED <<tree, proof, proof_nodes, fault>>
      BY <1>7, RecomputeUpStep, MerkleFrame
    <2> QED BY <1>2, <2>1, ProofIsNext
  <1>8. CASE MerkleEnd
    <2>1. /\ UNCHANGED <<m_at, tree, flag_tree, proof, proof_nodes, published, fault>>
          /\ \/ m_pc = "tree_root" /\ m_pc' = "root"
             \/ m_pc = "tree_proof" /\ m_pc' = "proof"
             \/ m_pc' = "recomputed"
      BY <1>8, DoneStep, MerkleFrame DEF MerkleEnd
    <2> QED BY <1>0, <1>2, <1>3, <2>1, ProofIsNext
  <1>9. CASE SignProof
    <2>1. /\ m_pc = "root" /\ m_pc' = "tree_proof" /\ m_at' = FromLeaves
          /\ UNCHANGED <<tree, proof, proof_nodes, published, fault>>
      BY <1>9, ProofCall
    <2>2. Len(proof_nodes) = 0 /\ 1 .. 0 = {} /\ T \in Nat /\ Current(m_at') = 2 * T - 3
      BY <1>0, <2>1, LevelFacts, AtLeaves
    <2>3. ProofUpTo(proof_nodes, Current(m_at))'
      BY <2>1, <2>2 DEF ProofUpTo
    <2>4. ASSUME NEW l \in 1 .. LOG2T, NEW i1 \in 0 .. npl[l] - 1
          PROVE  ~(Node(l, i1) > (2 * T - 3) + 1)
      BY NodeBelowRoot
    <2>5. AllMissing(proof_nodes, Current(m_at))'
      BY <2>1, <2>2, <2>4 DEF AllMissing
    <2> QED BY <1>0, <1>2, <2>1, <2>2, <2>3, <2>5, ProofIsNext
  <1>10. CASE VerifyRoot /\ Merkle!CallRecomputeRoot(cmt_0)
    <2>1. m_pc' = "recompute_root" /\ UNCHANGED <<tree, proof, proof_nodes, fault>>
      BY <1>10, RecomputeCall
    <2> QED BY <1>2, <2>1, ProofIsNext
  <1>11. CASE MerkleStill
    <2>1. UNCHANGED <<m_pc, m_at, flag_tree, tree, proof_nodes, published>>
      BY <1>11 DEF MerkleStill
    <2>2. Digests(proof_nodes)' /\ Falling(proof_nodes')
      <3>1. CASE Send
        <4>1. pc = "send" /\ m_pc = "proof"
          BY <3>1 DEF Send, FlowInv
        <4>2. Digests(proof_nodes)'
          BY <1>0, <1>1, <1>11, <3>1, <4>1, DigestsSent
        <4> QED BY <1>0, <2>1, <4>2
      <3>2. CASE ~Send /\ UNCHANGED proof
        BY <1>2, <1>4, <2>1, <3>2
      <3>3. CASE ~Send /\ ~UNCHANGED proof
        BY <2>1, <3>3, HashUpStep, ProveUpStep, RecomputeUpStep, DoneStep, RootCall, ProofCall,
           RecomputeCall, MerkleMoves DEF MerkleEnd
      <3> QED BY <3>1, <3>2, <3>3
    <2> QED BY <1>0, <1>3, <2>1, <2>2, ProofIsNext
  <1> QED BY <1>5, <1>6, <1>7, <1>8, <1>9, <1>10, <1>11, MerkleMoves

-----------------------------------------------------------------------------
(* The labels of the two trees *)

OppositeIn(sf, mf, n) == sf[n] = Seeds!TO_PUBLISH <=> mf[n] = Merkle!NOT_COMPUTED

SignerOpposite ==
  s_pc \in {"seed_path_flags", "seed_path", "published"} =>
    /\ \A r \in Rounds : Opposite(LeafNode(r))
    /\ \A l \in 0 .. LOG2T - 1 : \A i1 \in 0 .. Expanded(l) - 1 :
         s_pc # "seed_path_flags" \/ Node(l + 1, 2 * i1) > Current(s_at) => Opposite(Node(l, i1))
VerifierOpposite ==
  m_pc \in {"recompute_root", "recomputed"} =>
    /\ \A r \in Rounds : Opposite(LeafNode(r))
    /\ \A l \in 0 .. LOG2T - 1 : \A i1 \in 0 .. Expanded(l) - 1 :
         Passed(l, i1) => Opposite(Node(l, i1))

LEMMA OppositeIs ==
  /\ OppositeInv <=> SignerOpposite /\ VerifierOpposite
  /\ OppositeInv' <=> SignerOpposite' /\ VerifierOpposite'
  BY DEF OppositeInv, SignerOpposite, VerifierOpposite

LEMMA OppositeFlags ==
  ASSUME NEW CONSTANT n
  PROVE  /\ Opposite(n) <=> OppositeIn(s_flags, flag_tree, n)
         /\ Opposite(n)' <=> OppositeIn(s_flags', flag_tree', n)
  BY DEF Opposite, OppositeIn, Seeds!TO_PUBLISH, Merkle!NOT_COMPUTED

\* Leaves have opposite labels if both trees label them as one challenge says.
LEMMA LeavesOpposite ==
  ASSUME NEW ch \in Challenges, NEW sf, NEW mf, NEW r \in Rounds, sf[LeafNode(r)] = ch[r],
         mf[LeafNode(r)] \in {Merkle!NOT_COMPUTED, Merkle!COMPUTED},
         mf[LeafNode(r)] = Merkle!COMPUTED <=> ch[r] = 0
  PROVE  OppositeIn(sf, mf, LeafNode(r))
  <1>1. ch[r] = 0 \/ ch[r] = 1
    BY FixedWeightAssumption
  <1> QED BY <1>1 DEF OppositeIn, Seeds!TO_PUBLISH, Merkle!NOT_COMPUTED, Merkle!COMPUTED

\* A node has opposite labels if its children have.
LEMMA ParentOpposite ==
  ASSUME NEW sf, NEW mf \in [Nodes -> {Merkle!NOT_COMPUTED, Merkle!COMPUTED}],
         NEW l \in 0 .. LOG2T - 1, NEW i1 \in 0 .. Expanded(l) - 1, SP!LabelOK(sf, l, i1),
         OppositeIn(sf, mf, Node(l + 1, 2 * i1)), OppositeIn(sf, mf, Node(l + 1, 2 * i1 + 1)),
         mf[Node(l, i1)] = Merkle!COMPUTED <=>
           \/ mf[Node(l + 1, 2 * i1)] = Merkle!COMPUTED
           \/ mf[Node(l + 1, 2 * i1 + 1)] = Merkle!COMPUTED
  PROVE  OppositeIn(sf, mf, Node(l, i1))
  <1>1. Node(l, i1) \in Nodes /\ Node(l + 1, 2 * i1) \in Nodes /\ Node(l + 1, 2 * i1 + 1) \in Nodes
    BY ChildNode, NodeOrder
  <1>2. \A n \in Nodes : mf[n] = Merkle!NOT_COMPUTED <=> ~(mf[n] = Merkle!COMPUTED)
    BY DEF Merkle!NOT_COMPUTED, Merkle!COMPUTED
  <1>3. sf[Node(l, i1)] = Seeds!TO_PUBLISH <=>
          /\ sf[Node(l + 1, 2 * i1)] = Seeds!TO_PUBLISH
          /\ sf[Node(l + 1, 2 * i1 + 1)] = Seeds!TO_PUBLISH
    BY SeedLayout DEF SP!LabelOK, SP!TO_PUBLISH, Seeds!TO_PUBLISH
  <1> QED BY <1>1, <1>2, <1>3 DEF OppositeIn

\* What an iteration of compute_seeds_to_publish does, said of this layout.
LEMMA SeedPair ==
  ASSUME SP!TypeOK, SP!PositionInv, SP!FlagParent,
         NEW CONSTANT l, l = s_at.level, NEW CONSTANT j, j = s_at.i \div 2
  PROVE  /\ l \in 1 .. LOG2T /\ l \in Levels /\ j \in 0 .. Expanded(l - 1) - 1
         /\ Current(s_at) = Node(l, 2 * j)
         /\ SP!LabelOK(s_flags', l - 1, j)
         /\ \A m \in Levels : \A k \in 0 .. npl[m] - 1 :
              ~(m = l - 1 /\ k = j) => s_flags'[Node(m, k)] = s_flags[Node(m, k)]
         /\ \A m \in 0 .. LOG2T - 1 : \A k \in 0 .. Expanded(m) - 1 :
              Node(m + 1, 2 * k) > Current(s_at') <=>
                Node(m + 1, 2 * k) > Current(s_at) \/ (m = l - 1 /\ k = j)
  <1>1. SP!AtPair(s_at) /\ s_at' = SP!Up(s_at)
    BY SP!FlagPosition, SeedTables, Zenon
  <1>2. /\ l \in 1 .. LOG2T /\ l \in SP!Levels /\ j \in 0 .. SP!Expanded(l - 1) - 1
        /\ s_at.i = 2 * j /\ SP!Current(s_at) = SP!Node(l, s_at.i)
    BY <1>1, SP!UpPosition, SeedTables, Zenon
  <1>3. /\ SP!LabelOK(s_flags', l - 1, j)
        /\ \A m \in SP!Levels : \A k \in 0 .. npl[m] - 1 :
             ~(m = l - 1 /\ k = j) => s_flags'[SP!Node(m, k)] = s_flags[SP!Node(m, k)]
    BY SP!ParentLabel, SeedTables, Zenon
  <1>4. ASSUME NEW m \in 0 .. LOG2T - 1, NEW k \in 0 .. Expanded(m) - 1
        PROVE  Node(m + 1, 2 * k) > Current(s_at') <=>
                 Node(m + 1, 2 * k) > Current(s_at) \/ (m = l - 1 /\ k = j)
    <2>1. k \in 0 .. SP!Expanded(m) - 1 /\ SP!Node(m + 1, 2 * k) = Node(m + 1, 2 * k)
      BY SeedLayout, Zenon
    <2>2. SP!Node(m + 1, 2 * k) > SP!Current(SP!Up(s_at)) <=>
            SP!Node(m + 1, 2 * k) > SP!Current(s_at) \/ (m = l - 1 /\ k = j)
      BY <1>1, <2>1, SP!UpPasses, SeedTables, Zenon
    <2>3. SP!Current(SP!Up(s_at)) = Current(s_at') /\ SP!Current(s_at) = Current(s_at)
      BY <1>1, SeedLayout, Zenon
    <2> QED BY <2>1, <2>2, <2>3, Zenon
  <1>5. /\ l \in Levels /\ j \in 0 .. Expanded(l - 1) - 1 /\ Current(s_at) = Node(l, 2 * j)
    BY <1>2, SeedLayout, Zenon
  <1>6. \A m \in Levels : \A k \in 0 .. npl[m] - 1 :
          ~(m = l - 1 /\ k = j) => s_flags'[Node(m, k)] = s_flags[Node(m, k)]
    BY <1>3, SeedLayout, Zenon
  <1> QED BY <1>2, <1>3, <1>4, <1>5, <1>6, Zenon

\* Where the proof is made, every label of the Merkle tree stands.
LEMMA ComputedParents ==
  ASSUME TypeOK, PositionInv, QueueInv, FlagInv, m_pc \in {"proof", "recomputed"},
         NEW l \in 0 .. LOG2T - 1, NEW i1 \in 0 .. Expanded(l) - 1
  PROVE  IsComputed(l, i1) <=> IsComputed(l + 1, 2 * i1) \/ IsComputed(l + 1, 2 * i1 + 1)
  <1>1. l >= m_at.level
    BY LevelFacts DEF PositionInv
  <1>2. Passed(l, i1)
    BY <1>1, PassedBelow
  <1> QED BY <1>2 DEF FlagInv

\* One more seed is labelled, opposite to its digest.
LEMMA SeedFlagUp ==
  ASSUME TypeOK, PositionInv, QueueInv, FlagInv, SignerOpposite, SP!TypeOK, SP!PositionInv,
         SP!FlagParent, s_pc = "seed_path_flags", s_pc' = s_pc, m_pc = "proof",
         flag_tree' = flag_tree
  PROVE  SignerOpposite'
  <1>1. PICK l : l = s_at.level
    OBVIOUS
  <1>2. PICK j : j = s_at.i \div 2
    OBVIOUS
  <1>3. /\ l \in 1 .. LOG2T /\ l \in Levels /\ j \in 0 .. Expanded(l - 1) - 1
        /\ Current(s_at) = Node(l, 2 * j)
        /\ SP!LabelOK(s_flags', l - 1, j)
        /\ \A m \in Levels : \A k \in 0 .. npl[m] - 1 :
             ~(m = l - 1 /\ k = j) => s_flags'[Node(m, k)] = s_flags[Node(m, k)]
        /\ \A m \in 0 .. LOG2T - 1 : \A k \in 0 .. Expanded(m) - 1 :
             Node(m + 1, 2 * k) > Current(s_at') <=>
               Node(m + 1, 2 * k) > Current(s_at) \/ (m = l - 1 /\ k = j)
    BY <1>1, <1>2, SeedPair
  <1>4. /\ l - 1 \in 0 .. LOG2T - 1 /\ (l - 1) + 1 = l /\ l # l - 1
        /\ 2 * j \in 0 .. npl[l] - 1 /\ 2 * j + 1 \in 0 .. npl[l] - 1
        /\ Node(l, 2 * j) \in Nodes /\ Node(l, 2 * j + 1) \in Nodes
        /\ Node(l, 2 * j + 1) = Node(l, 2 * j) + 1
    BY <1>3, PairNodes
  <1>5. /\ \A r \in Rounds : OppositeIn(s_flags, flag_tree, LeafNode(r))
        /\ \A m \in 0 .. LOG2T - 1 : \A k \in 0 .. Expanded(m) - 1 :
             Node(m + 1, 2 * k) > Current(s_at) => OppositeIn(s_flags, flag_tree, Node(m, k))
    BY OppositeFlags DEF SignerOpposite
  <1>6. ASSUME NEW n, s_flags'[n] = s_flags[n], OppositeIn(s_flags, flag_tree, n)
        PROVE  OppositeIn(s_flags', flag_tree', n)
    BY <1>6 DEF OppositeIn
  <1>7. ASSUME NEW r \in Rounds PROVE OppositeIn(s_flags', flag_tree', LeafNode(r))
    <2>1. PICK m \in Levels : \E k \in 0 .. npl[m] - 1 :
            LeafNode(r) = Node(m, k) /\ k \notin 0 .. Expanded(m) - 1
      BY LeafPosition
    <2>2. PICK k \in 0 .. npl[m] - 1 : LeafNode(r) = Node(m, k) /\ k \notin 0 .. Expanded(m) - 1
      BY <2>1
    <2>3. s_flags'[LeafNode(r)] = s_flags[LeafNode(r)]
      BY <1>3, <2>2
    <2> QED BY <1>5, <1>6, <2>3
  \* below the walk
  <1>8. ASSUME NEW h \in {2 * j, 2 * j + 1}
        PROVE  OppositeIn(s_flags', flag_tree', Node(l, h))
    <2>1. h \in 0 .. npl[l] - 1
      BY <1>4
    <2>2. s_flags'[Node(l, h)] = s_flags[Node(l, h)]
      BY <1>3, <1>4, <2>1
    <2>3. ASSUME l \in 0 .. LOG2T - 1, h \in 0 .. Expanded(l) - 1
          PROVE  OppositeIn(s_flags, flag_tree, Node(l, h))
      <3>1. l + 1 \in Levels /\ 2 * h \in 0 .. npl[l + 1] - 1 /\ l \in Nat /\ l < l + 1
        BY <2>3, ChildNode, LevelFacts
      <3>2. Node(l, 2 * j) < Node(l + 1, 2 * h) /\ Node(l + 1, 2 * h) \in Nodes
        BY <1>3, <1>4, <3>1, NodeOrder
      <3>3. Node(l + 1, 2 * h) > Current(s_at)
        BY <1>3, <1>4, <3>2 DEF Nodes
      <3> QED BY <1>5, <2>3, <3>3
    <2>4. OppositeIn(s_flags, flag_tree, Node(l, h))
      BY <1>3, <1>5, <2>1, <2>3, NodeKinds
    <2> QED BY <1>6, <2>2, <2>4
  <1>9. OppositeIn(s_flags', flag_tree', Node(l - 1, j))
    <2>1. IsComputed(l - 1, j) <=> IsComputed((l - 1) + 1, 2 * j) \/ IsComputed((l - 1) + 1, 2 * j + 1)
      BY <1>3, <1>4, ComputedParents
    <2>2. flag_tree' \in [Nodes -> {Merkle!NOT_COMPUTED, Merkle!COMPUTED}]
      BY DEF TypeOK, TreeTypeOK
    <2>3. /\ OppositeIn(s_flags', flag_tree', Node((l - 1) + 1, 2 * j))
          /\ OppositeIn(s_flags', flag_tree', Node((l - 1) + 1, 2 * j + 1))
      BY <1>4, <1>8
    <2>4. flag_tree'[Node(l - 1, j)] = Merkle!COMPUTED <=>
            \/ flag_tree'[Node((l - 1) + 1, 2 * j)] = Merkle!COMPUTED
            \/ flag_tree'[Node((l - 1) + 1, 2 * j + 1)] = Merkle!COMPUTED
      BY <2>1 DEF IsComputed
    <2> QED BY <1>3, <1>4, <2>2, <2>3, <2>4, ParentOpposite
  <1>10. ASSUME NEW m \in 0 .. LOG2T - 1, NEW k \in 0 .. Expanded(m) - 1,
                Node(m + 1, 2 * k) > Current(s_at')
         PROVE  OppositeIn(s_flags', flag_tree', Node(m, k))
    <2>1. CASE m = l - 1 /\ k = j
      BY <1>9, <2>1
    <2>2. CASE ~(m = l - 1 /\ k = j)
      <3>1. m \in Levels /\ k \in 0 .. npl[m] - 1
        BY ChildNode
      <3> QED BY <1>3, <1>5, <1>6, <1>10, <2>2, <3>1
    <2> QED BY <2>1, <2>2
  <1> QED BY <1>7, <1>10, OppositeFlags DEF SignerOpposite

\* What changes the labels of the seed tree.
LEMMA SeedFlagsMove ==
  ASSUME [Next]_vars
  PROVE  \/ SeedMove \/ SignPath \/ VerifySeeds
         \/ UNCHANGED <<s_pc, s_at, s_flags>>
  <1>1. CASE \/ MerkleMove \/ SignRound \/ SignRoot \/ SignProof \/ SignResponse \/ SignDone \/ Send
             \/ VerifySeedRound \/ VerifyResponseRound \/ VerifyRoot \/ Compare \/ UNCHANGED vars
    BY <1>1 DEF MerkleMove, SignRound, SignRoot, SignProof, SignResponse, SignDone, Send,
         VerifySeedRound, VerifyResponseRound, VerifyRoot, Compare, vars, seeds
  <1> QED BY <1>1, Moves

LEMMA SignerOppositeStep ==
  ASSUME TypeOK, FlowInv, PositionInv, QueueInv, FlagInv, SignerOpposite, SP!IInv, [Next]_vars
  PROVE  SignerOpposite'
  <1>1. SP!TypeOK /\ SP!PositionInv
    BY DEF SP!IInv
  <1>2. s_pc \in {"seed_path_flags", "seed_path", "published"} => m_pc = "proof"
    BY DEF FlowInv
  <1>3. ASSUME s_pc' = s_pc \/ (s_pc = "seed_path" /\ s_pc' = "published"),
               s_pc \in {"seed_path_flags", "seed_path", "published"},
               s_pc = "seed_path_flags" => UNCHANGED s_at, UNCHANGED <<s_flags, flag_tree>>
        PROVE  SignerOpposite'
    BY <1>3 DEF SignerOpposite, Opposite, Seeds!TO_PUBLISH, Merkle!NOT_COMPUTED
  <1>4. CASE SeedMove
    <2>1. UNCHANGED fault /\ UNCHANGED <<flag_tree>> /\ Seeds!Steps
      BY <1>4 DEF SeedMove, merkle
    <2>2. CASE Seeds!FlagParent /\ s_pc = "seed_path_flags"
      <3>1. SP!FlagParent /\ s_pc' = s_pc
        BY <2>1, <2>2, SeedActions DEF Seeds!FlagParent
      <3> QED BY <1>1, <1>2, <2>1, <2>2, <3>1, SeedFlagUp
    <2>3. CASE Seeds!FlagsDone /\ s_pc = "seed_path_flags"
      <3>1. s_at.level = 0 /\ s_pc' = "seed_path" /\ UNCHANGED s_flags
        BY <2>3 DEF Seeds!FlagsDone, Seeds!labels
      <3>2. Current(s_at) = -1
        BY <1>1, <2>3, <3>1, LevelFacts DEF SP!PositionInv, SP!Computing, Current
      <3>3. ASSUME NEW l \in 0 .. LOG2T - 1, NEW i1 \in 0 .. Expanded(l) - 1
            PROVE  Node(l + 1, 2 * i1) > Current(s_at)
        <4>1. Node(l + 1, 2 * i1) \in Nodes
          BY ChildNode, NodeOrder
        <4> QED BY <3>2, <4>1 DEF Nodes
      <3> QED BY <2>1, <2>3, <3>1, <3>3
              DEF SignerOpposite, Opposite, Seeds!TO_PUBLISH, Merkle!NOT_COMPUTED
    <2>4. CASE Seeds!ScanNode \/ Seeds!PathDone
      <3>1. /\ s_pc = "seed_path" /\ s_pc' \in {"seed_path", "published"} /\ UNCHANGED s_flags
        BY <2>4 DEF Seeds!ScanNode, Seeds!PathDone, Seeds!labels
      <3> QED BY <1>3, <2>1, <3>1
    <2>5. CASE \/ Seeds!GenNode \/ Seeds!GenDone \/ Seeds!RebuildNode \/ Seeds!RebuildDone
               \/ (Seeds!FlagParent /\ s_pc # "seed_path_flags")
               \/ (Seeds!FlagsDone /\ s_pc # "seed_path_flags")
      <3>1. s_pc' \in {"gen_seed_tree", "generated", "rebuild_tree", "rebuilt", "rebuild_flags"}
        BY <2>5 DEF Seeds!GenNode, Seeds!GenDone, Seeds!RebuildNode, Seeds!RebuildDone,
             Seeds!FlagParent, Seeds!FlagsDone
      <3> QED BY <3>1 DEF SignerOpposite
    <2> QED BY <2>1, <2>2, <2>3, <2>4, <2>5 DEF Seeds!Steps
  <1>5. CASE SignPath
    <2>1. /\ m_pc = "proof" /\ chall_2 \in Challenges /\ flag_tree' = flag_tree
          /\ s_pc' = "seed_path_flags" /\ UNCHANGED fault
      BY <1>5 DEF SignPath, FlowInv, merkle, Seeds!Open
    <2>2. SP!Open(chall_2)
      BY <1>5, <2>1, SeedActions DEF SignPath
    <2>3. SP!StartFlags(chall_2)
      BY <2>2 DEF SP!Open
    <2>4. /\ \A r \in SP!Rounds : s_flags'[SP!LeafNode(r)] = chall_2[r]
          /\ \A l \in 0 .. LOG2T - 1 : \A i1 \in 0 .. SP!Expanded(l) - 1 :
               ~(SP!Node(l + 1, 2 * i1) > SP!Current(s_at'))
      BY <2>1, <2>3, SP!StartLabels, SeedTables, Zenon
    <2>5. /\ \A r \in Rounds : s_flags'[LeafNode(r)] = chall_2[r]
          /\ \A l \in 0 .. LOG2T - 1 : \A i1 \in 0 .. Expanded(l) - 1 :
               ~(Node(l + 1, 2 * i1) > Current(s_at'))
      BY <2>4, SeedLayout, Zenon
    <2>6. ASSUME NEW r \in Rounds PROVE OppositeIn(s_flags', flag_tree', LeafNode(r))
      <3>1. /\ flag_tree'[LeafNode(r)] \in {Merkle!NOT_COMPUTED, Merkle!COMPUTED}
            /\ flag_tree'[LeafNode(r)] = Merkle!COMPUTED <=> chall_2[r] = 0
        BY <2>1, LeafFacts DEF TypeOK, TreeTypeOK, FlagInv
      <3> QED BY <2>1, <2>5, <3>1, LeavesOpposite
    <2> QED BY <2>1, <2>5, <2>6, OppositeFlags DEF SignerOpposite
  <1>6. CASE VerifySeeds
    BY <1>6 DEF VerifySeeds, Seeds!CallRebuild, SignerOpposite
  <1>7. CASE UNCHANGED <<s_pc, s_at, s_flags>>
    <2>1. CASE s_pc \in {"seed_path_flags", "seed_path", "published"}
      <3>1. m_pc = "proof" /\ pc \in {"sign_responses", "send", "verify_seeds"}
        BY <1>2, <2>1 DEF FlowInv
      <3>2. UNCHANGED flag_tree
        BY <3>1, HashUpStep, ProveUpStep, RecomputeUpStep, DoneStep, RootCall, ProofCall,
           RecomputeCall, MerkleMoves DEF MerkleEnd, MerkleStill
      <3> QED BY <1>3, <1>7, <2>1, <3>2
    <2>2. CASE s_pc \notin {"seed_path_flags", "seed_path", "published"}
      BY <1>7, <2>2 DEF SignerOpposite
    <2> QED BY <2>1, <2>2
  <1> QED BY <1>4, <1>5, <1>6, <1>7, SeedFlagsMove

LEMMA VerifierOppositeStep ==
  ASSUME TypeOK, FlowInv, PositionInv, QueueInv, FlagInv, OppositeInv, SP!IInv, [Next]_vars
  PROVE  VerifierOpposite'
  <1>1. m_pc \in {"recompute_root", "recomputed"} => s_pc = "rebuilt"
    BY DEF FlowInv
  <1>2. s_pc = "rebuilt" /\ m_pc # "proof" => UNCHANGED s_flags
    <2>1. SeedMove => s_pc # "rebuilt"
      BY SeedFrame
    <2>2. SignPath \/ VerifySeeds => m_pc = "proof"
      BY DEF SignPath, VerifySeeds, FlowInv
    <2> QED BY <2>1, <2>2, SeedFlagsMove
  <1>3. VerifierOpposite
    BY OppositeIs
  <1>4. CASE MerkleMove /\ Merkle!RecomputeUp
    <2>1. PICK l : l = m_at.level
      OBVIOUS
    <2>2. PICK j : j = m_at.i \div 2
      OBVIOUS
    <2>3. /\ m_pc = "recompute_root" /\ m_at.level > 0 /\ Merkle!FlagParent /\ m_at' = Up(m_at)
          /\ UNCHANGED <<m_pc, chall_2, s_flags>>
      BY <1>1, <1>2, <1>4, RecomputeUpStep, MerkleFrame
    <2>4. /\ flag_tree'[Node(l - 1, j)] = Merkle!COMPUTED <=> Merkle!SomeComputed
          /\ \A n \in Nodes : n # Node(l - 1, j) => flag_tree'[n] = flag_tree[n]
      BY <2>1, <2>2, <2>3, FlagUp
    <2>5. /\ l \in 1 .. LOG2T /\ l \in Levels /\ l - 1 \in 0 .. LOG2T - 1 /\ l - 1 \in Levels
          /\ (l - 1) + 1 = l /\ l # l - 1
          /\ j \in 0 .. Expanded(l - 1) - 1 /\ j \in 0 .. npl[l - 1] - 1
          /\ 2 * j \in 0 .. npl[l] - 1 /\ 2 * j + 1 \in 0 .. npl[l] - 1
          /\ Node(l, 2 * j) \in Nodes /\ Node(l, 2 * j + 1) \in Nodes
          /\ l >= m_at.level
      BY <2>1, <2>2, <2>3, PairFacts
    <2>6. /\ \A r \in Rounds : OppositeIn(s_flags, flag_tree, LeafNode(r))
          /\ \A m \in 0 .. LOG2T - 1 : \A k \in 0 .. Expanded(m) - 1 :
               Passed(m, k) => OppositeIn(s_flags, flag_tree, Node(m, k))
      BY <1>3, <2>3, OppositeFlags DEF VerifierOpposite
    <2>7. ASSUME NEW n \in Nodes, n # Node(l - 1, j), OppositeIn(s_flags, flag_tree, n)
          PROVE  OppositeIn(s_flags', flag_tree', n)
      BY <2>3, <2>4, <2>7 DEF OppositeIn
    <2>8. ASSUME NEW r \in Rounds PROVE OppositeIn(s_flags', flag_tree', LeafNode(r))
      BY <2>5, <2>6, <2>7, LeafFacts, InnerIsNoLeaf
    <2>9. Node(l, 2 * j) # Node(l - 1, j) /\ Node(l, 2 * j + 1) # Node(l - 1, j)
      BY <2>5, NodeOrder
    <2>10. /\ OppositeIn(s_flags', flag_tree', Node(l, 2 * j))
           /\ OppositeIn(s_flags', flag_tree', Node(l, 2 * j + 1))
      <3>1. Opposite(Node(l, 2 * j)) /\ Opposite(Node(l, 2 * j + 1))
        BY <2>3, <2>5, OppositeAt
      <3> QED BY <2>5, <2>7, <2>9, <3>1, OppositeFlags
    <2>11. OppositeIn(s_flags', flag_tree', Node(l - 1, j))
      <3>1. /\ flag_tree' \in [Nodes -> {Merkle!NOT_COMPUTED, Merkle!COMPUTED}]
        BY <2>1, <2>2, <2>3, ParentFlag
      <3>2. SP!LabelOK(s_flags', l - 1, j)
        BY <1>1, <2>3, <2>5, SeedLayout DEF SP!IInv, SP!FlagsInv, SP!Labelled
      <3>3. Merkle!SomeComputed <=> IsComputed(l, 2 * j) \/ IsComputed(l, 2 * j + 1)
        BY <2>1, <2>2, <2>3, PairLabels
      <3>4. flag_tree'[Node(l - 1, j)] = Merkle!COMPUTED <=>
              \/ flag_tree'[Node((l - 1) + 1, 2 * j)] = Merkle!COMPUTED
              \/ flag_tree'[Node((l - 1) + 1, 2 * j + 1)] = Merkle!COMPUTED
        BY <2>4, <2>5, <2>9, <3>3 DEF IsComputed
      <3> QED BY <2>5, <2>10, <3>1, <3>2, <3>4, ParentOpposite
    <2>12. ASSUME NEW m \in 0 .. LOG2T - 1, NEW k \in 0 .. Expanded(m) - 1, Passed(m, k)'
           PROVE  OppositeIn(s_flags', flag_tree', Node(m, k))
      <3>1. Passed(m, k) \/ (m = l - 1 /\ k = j)
        BY <2>1, <2>2, <2>3, <2>12, MerkleUp DEF Passed
      <3>2. /\ m \in Levels /\ k \in 0 .. npl[m] - 1 /\ Node(m, k) \in Nodes
        BY ChildNode, NodeOrder
      <3>3. Node(m, k) = Node(l - 1, j) <=> m = l - 1 /\ k = j
        BY <2>5, <3>2, NodeOrder
      <3> QED BY <2>6, <2>7, <2>11, <3>1, <3>2, <3>3
    <2> QED BY <2>8, <2>12, OppositeFlags DEF VerifierOpposite
  <1>5. CASE VerifyRoot /\ Merkle!CallRecomputeRoot(cmt_0)
    <2>1. /\ m_pc = "proof" /\ s_pc = "rebuilt" /\ m_at' = FromLeaves
          /\ leaves_to_reveal = chall_2 /\ indices_to_publish = chall_2 /\ chall_2 \in Challenges
          /\ flag_tree' = Merkle!label_leaves(chall_2)
          /\ UNCHANGED seeds
      BY <1>5, RecomputeCall, LevelFacts DEF FlowInv
    <2>2. UNCHANGED s_flags
      BY <2>1 DEF seeds
    <2>3. ASSUME NEW r \in Rounds PROVE OppositeIn(s_flags', flag_tree', LeafNode(r))
      <3>1. s_flags'[LeafNode(r)] = chall_2[r]
        BY <2>1, <2>2, SeedLayout DEF SP!IInv, SP!FlagsInv, SP!LeavesLabelled
      <3>2. /\ flag_tree'[LeafNode(r)] \in {Merkle!NOT_COMPUTED, Merkle!COMPUTED}
            /\ flag_tree'[LeafNode(r)] = Merkle!COMPUTED <=> chall_2[r] = 0
        BY <2>1, LeafFacts, LeafLabels
      <3> QED BY <2>1, <3>1, <3>2, LeavesOpposite
    <2>4. ASSUME NEW m \in 0 .. LOG2T - 1, NEW k \in 0 .. Expanded(m) - 1 PROVE ~Passed(m, k)'
      BY <2>1, AtLeaves DEF Passed
    <2> QED BY <2>3, <2>4, OppositeFlags DEF VerifierOpposite
  <1>6. CASE m_pc' \notin {"recompute_root", "recomputed"}
    BY <1>6 DEF VerifierOpposite
  <1>7. CASE \/ MerkleMove /\ (Merkle!HashUp \/ Merkle!ProveUp)
             \/ SignRoot \/ SignProof
    BY <1>6, <1>7, HashUpStep, ProveUpStep, RootCall, ProofCall
  <1>8. CASE MerkleEnd \/ MerkleStill
    <2>1. CASE m_pc \in {"recompute_root", "recomputed"}
      <3>1. UNCHANGED <<m_at, s_flags, flag_tree>>
        BY <1>1, <1>2, <1>8, <2>1, DoneStep DEF MerkleEnd, MerkleStill
      <3> QED BY <1>3, <2>1, <3>1
              DEF VerifierOpposite, Opposite, Passed, Seeds!TO_PUBLISH, Merkle!NOT_COMPUTED
    <2>2. CASE m_pc \notin {"recompute_root", "recomputed"}
      BY <1>6, <1>8, <2>2, DoneStep DEF MerkleEnd, MerkleStill
    <2> QED BY <2>1, <2>2
  <1> QED BY <1>4, <1>5, <1>7, <1>8, MerkleMoves

LEMMA OppositeStep ==
  ASSUME TypeOK, FlowInv, PositionInv, QueueInv, FlagInv, OppositeInv, SP!IInv, [Next]_vars
  PROVE  OppositeInv'
  BY OppositeIs, SignerOppositeStep, VerifierOppositeStep

-----------------------------------------------------------------------------
(* What is sent *)

\* The walk of a function that has returned is above the root.
LEMMA WalkDone ==
  ASSUME TypeOK, PositionInv, m_pc # "start", m_at.level = 0
  PROVE  Current(m_at) = -1
  <1>1. m_at.start = LevelStart[0] /\ m_at.i = -1
    BY DEF PositionInv
  <1> QED BY <1>1, LevelFacts DEF Current

\* Where the signer is done, both trees have sent the same nodes.
LEMMA SameNodes ==
  ASSUME TypeOK, FlowInv, PositionInv, ProofInv, SignerOpposite, SP!IInv,
         s_pc = "published", m_pc = "proof"
  PROVE  Entries(path_nodes) = Entries(proof_nodes)
  <1>1. SP!PathOf(s_flags) /\ SP!TypeOK /\ SP!Labelled(s_flags)
    BY DEF SP!IInv, SP!PathInv, SP!FlagsInv
  <1>2. DOMAIN proof_nodes = 1 .. Len(proof_nodes) /\ DOMAIN path_nodes = 1 .. Len(path_nodes)
    BY <1>1 DEF TypeOK, TreeTypeOK, SP!TypeOK
  <1>3. Current(m_at) = -1
    <2>1. m_at.level = 0
      BY DEF PositionInv
    <2> QED BY <2>1, WalkDone
  <1>4. ASSUME NEW l \in 1 .. LOG2T, NEW i1 \in 0 .. npl[l] - 1
        PROVE  /\ IsMissing(l, i1) <=> SP!Topmost(s_flags, l, i1)
               /\ Node(l, i1) > Current(m_at) + 1 /\ Node(l, i1) < 2 * T - 1
    <2>1. ASSUME NEW h \in 0 .. npl[l] - 1 PROVE Opposite(Node(l, h))
      <3>1. l \in Levels
        BY NodeBelowRoot
      <3>2. ASSUME l \in 0 .. LOG2T - 1, h \in 0 .. Expanded(l) - 1 PROVE Opposite(Node(l, h))
        BY <3>2, OppositeFlags, Zenon DEF SignerOpposite
      <3>3. \A r \in Rounds : Opposite(LeafNode(r))
        BY OppositeFlags, Zenon DEF SignerOpposite
      <3> QED BY <3>1, <3>2, <3>3, NodeKinds
    <2>2. Sibling(i1) \in 0 .. npl[l] - 1
      <3> DEFINE j == i1 \div 2
      <3>1. j \in 0 .. Expanded(l - 1) - 1 /\ (Sibling(i1) = 2 * j \/ Sibling(i1) = 2 * j + 1)
        BY SiblingPair
      <3> HIDE DEF j
      <3> QED BY <3>1, PairNodes
    <2>3. IsMissing(l, i1) <=> SP!Topmost(s_flags, l, i1)
      BY <1>1, <2>1, <2>2, MissingTopmost
    <2>4. Node(l, i1) \in 1 .. 2 * T - 2 /\ T \in Nat
      BY NodeBelowRoot
    <2> QED BY <1>3, <2>3, <2>4
  <1>5. ASSUME NEW n \in Entries(path_nodes) PROVE n \in Entries(proof_nodes)
    <2>1. PICK l \in 1 .. LOG2T : \E i1 \in 0 .. npl[l] - 1 :
            n = Node(l, i1) /\ SP!Topmost(s_flags, l, i1)
      <3>1. PICK k \in 1 .. Len(path_nodes) : n = path_nodes[k]
        BY <1>2 DEF Entries
      <3>2. \E l \in 1 .. LOG2T : \E i1 \in 0 .. npl[l] - 1 :
              path_nodes[k] = SP!Node(l, i1) /\ SP!Topmost(s_flags, l, i1)
        BY <1>1 DEF SP!PathOf, SP!PathUpTo
      <3> QED BY <3>1, <3>2, SeedLayout
    <2>2. PICK i1 \in 0 .. npl[l] - 1 : n = Node(l, i1) /\ SP!Topmost(s_flags, l, i1)
      BY <2>1
    <2>3. IsMissing(l, i1) /\ Node(l, i1) > Current(m_at) + 1
      BY <1>4, <2>2
    <2>4. \E k \in 1 .. Len(proof_nodes) : proof_nodes[k] = Node(l, i1)
      BY <2>3 DEF ProofInv
    <2> QED BY <1>2, <2>2, <2>4 DEF Entries
  <1>6. ASSUME NEW n \in Entries(proof_nodes) PROVE n \in Entries(path_nodes)
    <2>1. PICK l \in 1 .. LOG2T : \E i1 \in 0 .. npl[l] - 1 : n = Node(l, i1) /\ IsMissing(l, i1)
      BY <1>2 DEF Entries, ProofInv
    <2>2. PICK i1 \in 0 .. npl[l] - 1 : n = Node(l, i1) /\ IsMissing(l, i1)
      BY <2>1
    <2>3. SP!Topmost(s_flags, l, i1) /\ Node(l, i1) < 2 * T - 1
      BY <1>4, <2>2
    <2>4. \E k \in 1 .. Len(path_nodes) : path_nodes[k] = SP!Node(l, i1)
      BY <1>1, <2>3, SeedLayout DEF SP!PathOf, SP!PathUpTo
    <2> QED BY <1>2, <2>2, <2>4, SeedLayout DEF Entries
  <1> QED BY <1>5, <1>6

LEMMA NodesStep ==
  ASSUME TypeOK, FlowInv, PositionInv, ProofInv, OppositeInv, NodesInv, SP!IInv, [Next]_vars
  PROVE  NodesInv'
  <1>1. CASE Sent
    <2>1. s_pc # "seed_path" /\ m_pc \notin {"tree_proof", "start", "tree_root", "root"}
      BY <1>1 DEF Sent, FlowInv
    <2>2. UNCHANGED <<path_nodes, proof_nodes>>
      <3>1. ASSUME SeedMove PROVE UNCHANGED <<path_nodes, proof_nodes>>
        BY <2>1, <3>1, SeedFrame DEF merkle
      <3>2. ASSUME MerkleMove PROVE UNCHANGED <<path_nodes, proof_nodes>>
        BY <2>1, <3>2, MerkleFrame DEF seeds
      <3>3. ASSUME SignPath PROVE FALSE
        BY <1>1, <3>3 DEF SignPath, Sent
      <3>4. ASSUME SignRoot \/ SignProof PROVE FALSE
        BY <2>1, <3>4, RootCall, ProofCall
      <3>5. ASSUME VerifySeeds \/ VerifyRoot PROVE UNCHANGED <<path_nodes, proof_nodes>>
        <4>1. VerifySeeds => UNCHANGED <<path_nodes, proof_nodes>>
          BY DEF VerifySeeds, Seeds!CallRebuild, Seeds!stored, merkle
        <4>2. VerifyRoot => UNCHANGED seeds /\ (UNCHANGED merkle \/ Merkle!CallRecomputeRoot(cmt_0))
          BY Zenon DEF VerifyRoot
        <4>3. Merkle!CallRecomputeRoot(cmt_0) => UNCHANGED proof_nodes
          BY DEF Merkle!CallRecomputeRoot
        <4> QED BY <3>5, <4>1, <4>2, <4>3 DEF seeds, merkle
      <3>6. ASSUME SignRound \/ SignResponse \/ SignDone \/ Send \/ VerifySeedRound
                     \/ VerifyResponseRound \/ Compare \/ UNCHANGED vars
            PROVE  UNCHANGED <<path_nodes, proof_nodes>>
        BY <3>6 DEF SignRound, SignResponse, SignDone, Send, VerifySeedRound, VerifyResponseRound,
             Compare, vars, seeds, merkle
      <3> QED BY <3>1, <3>2, <3>3, <3>4, <3>5, <3>6, Moves
    <2> QED BY <1>1, <2>2 DEF NodesInv, Entries
  <1>2. CASE ~Sent /\ Sent'
    <2>1. SignDone
      <3>1. pc' # pc
        BY <1>2 DEF Sent
      <3>2. ASSUME SeedMove \/ MerkleMove PROVE FALSE
        BY <3>1, <3>2, SeedFrame, MerkleFrame
      <3>3. ASSUME SignRound \/ SignRoot \/ SignProof \/ SignPath \/ SignResponse PROVE FALSE
        BY <1>2, <3>1, <3>3 DEF SignRound, SignRoot, SignProof, SignPath, SignResponse, Sent
      <3>4. ASSUME Send \/ VerifySeeds \/ VerifySeedRound \/ VerifyResponseRound \/ VerifyRoot
                     \/ Compare \/ UNCHANGED vars
            PROVE  FALSE
        BY <1>2, <3>1, <3>4 DEF Send, VerifySeeds, VerifySeedRound, VerifyResponseRound, VerifyRoot,
             Compare, Sent, vars
      <3> QED BY <3>2, <3>3, <3>4, Moves
    <2>2. pc = "sign_responses" /\ i = T /\ UNCHANGED <<path_nodes, proof_nodes>>
      BY <2>1 DEF SignDone, seeds, merkle
    <2>3. s_pc = "published" /\ m_pc = "proof"
      BY <2>2, LevelFacts DEF FlowInv
    <2>4. Entries(path_nodes) = Entries(proof_nodes)
      BY <2>3, OppositeIs, SameNodes
    <2> QED BY <2>2, <2>4 DEF NodesInv, Entries
  <1>3. CASE ~Sent'
    BY <1>3 DEF NodesInv
  <1> QED BY <1>1, <1>2, <1>3

-----------------------------------------------------------------------------
(* The steps of recompute_root *)

\* A level up: what is flushed or placed is right.
LEMMA RecomputeUpRight ==
  ASSUME TypeOK, FlowInv, PositionInv, QueueInv, HashedInv, FlagInv, ProofInv, OppositeInv,
         NodesInv, RecomputeInv, SP!IInv, MerkleMove, Merkle!RecomputeUp
  PROVE  /\ \A n \in Nodes : flag_tree'[n] = Merkle!COMPUTED =>
              InJobs(m_queue', n) \/ RightIn(recomputed_tree', n)
         /\ \A k \in DOMAIN m_queue' :
              RightIn(recomputed_tree', m_queue'[k].in) /\ RightIn(recomputed_tree', m_queue'[k].in + 1)
  <1> DEFINE l == m_at.level
             j == m_at.i \div 2
  <1>1. /\ m_pc = "recompute_root" /\ m_pc # "start" /\ m_pc' = m_pc /\ m_at.level > 0
        /\ m_at' = Up(m_at) /\ Merkle!FlagParent /\ UNCHANGED <<m_pc, chall_2>>
    BY RecomputeUpStep, MerkleFrame
  <1>2. /\ l \in 1 .. LOG2T /\ l \in Levels /\ l # l - 1 /\ Node(l - 1, j) \in Nodes
        /\ j \in 0 .. Expanded(l - 1) - 1
    BY <1>1, PairFacts
  <1>3. /\ \A n \in Nodes : n # Node(l - 1, j) => flag_tree'[n] = flag_tree[n]
        /\ flag_tree'[Node(l - 1, j)] = Merkle!COMPUTED <=> Merkle!SomeComputed
    <2> HIDE DEF l, j
    <2>1. m_pc \in {"tree_proof", "recompute_root"} /\ l = m_at.level /\ j = m_at.i \div 2
      BY <1>1 DEF l, j
    <2> QED BY <1>1, <2>1, FlagUp, Zenon
  <1>4. /\ BatchedTo(l, Placed, RecomputeJobs, recomputed_tree', m_queue')
        /\ PairsOf(RecomputeJobs, l) /\ RecomputeJobs \in Seq(Pairs)
        /\ \A n : InJobs(RecomputeJobs, n) <=>
                    Queued(n) \/ (Merkle!SomeComputed /\ n = Node(l - 1, j))
        /\ \A k \in DOMAIN RecomputeJobs : \A j2 \in 0 .. Expanded(l - 1) - 1 :
             RecomputeJobs[k] = PairJob(l, j2) =>
               RightIn(Placed, Node(l, 2 * j2)) /\ RightIn(Placed, Node(l, 2 * j2 + 1))
    BY RecomputeBatch
  <1>5. \A n \in Nodes : Right1(n) => RightIn(Placed, n)
    BY <1>1, PlacedRight
  <1>6. \A n : Queued(n) <=> InJobs(m_queue, n)
    BY QueuePairs
  <1> HIDE DEF l, j
  <1>7. \A n \in Nodes : ~InJobs(RecomputeJobs, n) =>
           ~InJobs(m_queue', n) /\ recomputed_tree'[n] = Placed[n]
    BY <1>4, Zenon DEF BatchedTo
  <1>8. ASSUME NEW n \in Nodes, flag_tree'[n] = Merkle!COMPUTED
        PROVE  InJobs(m_queue', n) \/ RightIn(recomputed_tree', n)
    <2>1. CASE InJobs(RecomputeJobs, n)
      <3>1. PICK k \in DOMAIN RecomputeJobs : RecomputeJobs[k].out = n
        BY <2>1 DEF InJobs
      <3>2. PICK j2 \in 0 .. Expanded(l - 1) - 1 : RecomputeJobs[k] = PairJob(l, j2)
        BY <1>4, <3>1 DEF PairsOf
      <3>3. n = Node(l - 1, j2)
        BY <3>1, <3>2 DEF PairJob
      <3>4. RightIn(Placed, Node(l, 2 * j2)) /\ RightIn(Placed, Node(l, 2 * j2 + 1))
        BY <1>4, <3>1, <3>2
      <3>5. \/ InJobs(m_queue', n)
            \/ recomputed_tree'[n] = Merkle!Hash(Placed[Node(l, 2 * j2)], Placed[Node(l, 2 * j2 + 1)])
        BY <1>4, <2>1, <3>3, Zenon DEF BatchedTo
      <3>6. ASSUME recomputed_tree'[Node(l - 1, j2)]
                     = Merkle!Hash(Placed[Node(l, 2 * j2)], Placed[Node(l, 2 * j2 + 1)])
            PROVE  RightIn(recomputed_tree', Node(l - 1, j2))
        <4>1. m_pc \notin {"start", "tree_root"}
          BY <1>1
        <4> QED BY <1>2, <3>4, <3>6, <4>1, HashRight
      <3> QED BY <3>3, <3>5, <3>6
    <2>2. CASE ~InJobs(RecomputeJobs, n)
      <3>1. ~(Merkle!SomeComputed /\ n = Node(l - 1, j)) /\ ~Queued(n)
        BY <1>4, <2>2
      <3>2. flag_tree[n] = Merkle!COMPUTED
        BY <1>3, <1>8, <3>1
      <3>3. Right1(n)
        BY <1>1, <3>1, <3>2 DEF RecomputeInv
      <3>4. RightIn(Placed, n) /\ recomputed_tree'[n] = Placed[n]
        BY <1>5, <1>7, <2>2, <3>3
      <3> QED BY <3>4 DEF RightIn
    <2> QED BY <2>1, <2>2
  <1>9. ASSUME NEW k \in DOMAIN m_queue'
        PROVE  /\ RightIn(recomputed_tree', m_queue'[k].in)
               /\ RightIn(recomputed_tree', m_queue'[k].in + 1)
    <2>1. m_queue' = RecomputeJobs
      <3>1. m_queue' = <<>> \/ m_queue' = RecomputeJobs
        BY <1>4 DEF BatchedTo
      <3>2. m_queue' # <<>>
        BY <1>9
      <3> QED BY <3>1, <3>2
    <2>2. PICK j2 \in 0 .. Expanded(l - 1) - 1 : RecomputeJobs[k] = PairJob(l, j2)
      BY <1>4, <1>9, <2>1 DEF PairsOf
    <2>3. RightIn(Placed, Node(l, 2 * j2)) /\ RightIn(Placed, Node(l, 2 * j2 + 1))
      BY <1>4, <1>9, <2>1, <2>2
    <2>4. /\ 2 * j2 \in 0 .. npl[l] - 1 /\ 2 * j2 + 1 \in 0 .. npl[l] - 1
          /\ Node(l, 2 * j2) \in Nodes /\ Node(l, 2 * j2 + 1) \in Nodes
          /\ Node(l, 2 * j2 + 1) = Node(l, 2 * j2) + 1
      BY <1>2, PairNodes
    <2>5. ~InJobs(RecomputeJobs, Node(l, 2 * j2)) /\ ~InJobs(RecomputeJobs, Node(l, 2 * j2 + 1))
      BY <1>2, <1>4, <2>4, JobLevel
    <2>6. /\ recomputed_tree'[Node(l, 2 * j2)] = Placed[Node(l, 2 * j2)]
          /\ recomputed_tree'[Node(l, 2 * j2 + 1)] = Placed[Node(l, 2 * j2 + 1)]
      BY <1>7, <2>4, <2>5
    <2>7. m_queue'[k].in = Node(l, 2 * j2) /\ m_queue'[k].in + 1 = Node(l, 2 * j2 + 1)
      BY <2>1, <2>2, <2>4 DEF PairJob
    <2> QED BY <2>3, <2>6, <2>7 DEF RightIn
  <1> QED BY <1>8, <1>9

\* The call: the commitments of the rounds with challenge 0 are right, and no
\* digest of the proof has been passed.
LEMMA RecomputeStart ==
  ASSUME TypeOK, FlowInv, VerifierInv, QueueInv, HashedInv, SP!IInv,
         VerifyRoot, Merkle!CallRecomputeRoot(cmt_0)
  PROVE  RecomputeInv'
  <1>1. /\ pc = "verify_rounds" /\ i = T /\ m_pc = "proof" /\ m_pc' = "recompute_root"
        /\ recomputed_tree' = Merkle!WithLeaves(recomputed_tree, cmt_0)
        /\ m_at' = FromLeaves /\ flag_tree' = Merkle!label_leaves(leaves_to_reveal)
        /\ published' = 0
        /\ UNCHANGED <<m_queue, tree, proof_nodes, fault>>
    BY RecomputeCall
  <1>2. leaves_to_reveal = chall_2 /\ chall_2 \in Challenges /\ s_pc # "gen_seed_tree"
    BY <1>1 DEF FlowInv
  <1>3. m_queue = <<>> /\ m_queue' = <<>>
    BY <1>1 DEF QueueInv
  <1>4. ASSUME NEW r \in Rounds, chall_2[r] = 0
        PROVE  RightIn(recomputed_tree', LeafNode(r))
    <2>1. r \in Answering(i) /\ queue0 = <<>>
      BY <1>1, <1>4 DEF Answering, Rounds, VerifierInv, Verifying
    <2>2. ~InQueue(queue0, r)
      BY <2>1 DEF InQueue
    <2>3. cmt_0[r] = Commit0[<<Input0(r), r>>]
      BY <1>1, <2>1, <2>2 DEF VerifierInv, Verifying
    <2>4. recomputed_tree'[LeafNode(r)] = cmt_0[r]
      BY <1>1, LeafValues DEF TypeOK, TreeTypeOK, RoundTypeOK
    <2>5. round_seeds[r] \in Seed
      BY <1>2, SignerSeeds
    <2>6. Input0(r) \in Seed \union {NoSeed}
      BY <2>5 DEF Input0
    <2>7. Commit0[<<Input0(r), r>>] \in Digest
      BY <2>6, CommitAssumption
    <2>8. fault # "message" => tree[LeafNode(r)] = Commit0[<<Input0(r), r>>]
      <3>1. tree[LeafNode(r)] = Commit0[<<round_seeds[r], r>>]
        BY <1>1 DEF HashedInv, Commits0
      <3> QED BY <3>1 DEF Input0, Received
    <2> QED BY <1>1, <2>3, <2>4, <2>7, <2>8 DEF RightIn
  <1>5. ASSUME NEW n \in Nodes, flag_tree'[n] = Merkle!COMPUTED
        PROVE  Right1(n)'
    <2>1. n \in Leaves
      BY <1>1, <1>5, MerkleLayout DEF Merkle!label_leaves, Merkle!COMPUTED, Merkle!NOT_COMPUTED
    <2>2. PICK r \in Rounds : n = LeafNode(r)
      BY <2>1 DEF Leaves, LeafOf
    <2>3. chall_2[r] = 0
      BY <1>1, <1>2, <1>5, <2>2, LeafLabels
    <2>4. RightIn(recomputed_tree', n)
      BY <1>4, <2>2, <2>3
    <2>5. UNCHANGED <<tree, fault>>
      BY <1>1
    <2> QED BY <2>4, <2>5 DEF RightIn, Right1
  <1>6. published' <= Len(proof_nodes')
    BY <1>1 DEF TypeOK, TreeTypeOK
  <1>7. ASSUME NEW k \in 1 .. Len(proof_nodes')
        PROVE  k <= published' <=> proof_nodes'[k] > Current(m_at') + 1
    <2>1. proof_nodes[k] \in Nodes /\ k \in 1 .. Len(proof_nodes) /\ Len(proof_nodes) \in Nat
      BY <1>1, <1>7 DEF TypeOK, TreeTypeOK
    <2>2. Current(m_at') = 2 * T - 3 /\ T \in Nat
      BY <1>1, AtLeaves, LevelFacts
    <2> QED BY <1>1, <2>1, <2>2 DEF Nodes
  <1>8. /\ \A n \in Nodes : flag_tree'[n] = Merkle!COMPUTED => Queued(n)' \/ Right1(n)'
        /\ \A k \in DOMAIN m_queue' : Right1(m_queue[k].in)' /\ Right1(m_queue[k].in + 1)'
    BY <1>3, <1>5
  <1> QED BY <1>1, <1>6, <1>7, <1>8 DEF RecomputeInv

\* The return: every digest of the proof was used, and what is left is zero
\* unless the padding was spoilt.
LEMMA RecomputeEnd ==
  ASSUME TypeOK, FlowInv, FaultInv, PositionInv, QueueInv, HashedInv, ProofInv, NodesInv,
         RecomputeInv, SP!IInv, m_pc = "recompute_root", m_at.level = 0
  PROVE  Merkle!PaddingIsZero <=> fault # "proof"
  <1>1. s_pc = "rebuilt" /\ Sent /\ m_pc # "start" /\ m_pc # "tree_root"
    BY DEF FlowInv, Sent
  <1>2. Current(m_at) = -1
    BY <1>1, WalkDone
  <1>3. Len(proof_nodes) \in Nat /\ published \in Nat
    BY DEF TypeOK, TreeTypeOK
  <1>4. published = Len(proof_nodes)
    <2>1. published <= Len(proof_nodes)
      BY DEF RecomputeInv
    <2>2. ASSUME NEW k \in 1 .. Len(proof_nodes) PROVE k <= published
      <3>1. PICK l \in 1 .. LOG2T : \E i1 \in 0 .. npl[l] - 1 : proof_nodes[k] = Node(l, i1)
        BY <1>1, SentNodes
      <3>2. PICK i1 \in 0 .. npl[l] - 1 : proof_nodes[k] = Node(l, i1)
        BY <3>1
      <3>3. Node(l, i1) \in 1 .. 2 * T - 2 /\ T \in Nat
        BY NodeBelowRoot
      <3>4. proof_nodes[k] > Current(m_at) + 1
        BY <1>2, <3>2, <3>3
      <3> QED BY <3>4 DEF RecomputeInv
    <2> QED BY <1>3, <2>1, <2>2
  <1>5. \A k \in Merkle!Slots : k >= Len(proof_nodes) =>
          proof[k] = IF fault = "proof" /\ k = Len(proof_nodes) THEN tree[0] ELSE Zero
    BY DEF ProofInv
  <1>6. ASSUME fault # "proof" PROVE Merkle!PaddingIsZero
    BY <1>4, <1>5, <1>6 DEF Merkle!PaddingIsZero
  <1>7. ASSUME fault = "proof" PROVE ~Merkle!PaddingIsZero
    <2>1. Len(proof_nodes) \in Merkle!Slots
      BY <1>3, <1>7, Constants DEF FaultInv, Merkle!Slots
    <2>2. proof[Len(proof_nodes)] = tree[0]
      BY <1>3, <1>5, <1>7, <2>1
    <2>3. 0 \in Levels /\ 0 \in 0 .. npl[0] - 1 /\ Node(0, 0) = 0
      BY LevelFacts DEF Node
    <2>4. tree[0] \in Digest
      BY <1>1, <2>3, NodeDigest
    <2> QED BY <1>3, <1>4, <2>1, <2>2, <2>4, Constants DEF Merkle!PaddingIsZero
  <1> QED BY <1>6, <1>7

LEMMA RecomputeStep ==
  ASSUME TypeOK, FlowInv, FaultInv, VerifierInv, PositionInv, QueueInv, HashedInv, FlagInv,
         ProofInv, OppositeInv, NodesInv, RecomputeInv, SP!IInv, [Next]_vars
  PROVE  RecomputeInv'
  <1>1. CASE MerkleMove /\ Merkle!RecomputeUp
    <2>1. /\ m_pc = "recompute_root" /\ m_pc # "start" /\ m_pc' = "recompute_root"
          /\ m_at.level > 0 /\ m_at' = Up(m_at)
          /\ published' = published + Len(Merkle!Missing)
          /\ UNCHANGED <<tree, proof_nodes, fault>>
      BY <1>1, RecomputeUpStep, MerkleFrame
    <2>2. /\ published + Len(Merkle!Missing) <= Len(proof_nodes)
          /\ \A k \in 1 .. Len(proof_nodes) :
               k <= published + Len(Merkle!Missing) <=> proof_nodes[k] > Current(m_at) - 1
      BY <2>1, NextProof
    <2>3. Current(m_at') = Current(m_at) - 2 /\ Current(m_at) \in Int
      <3>1. Current(Up(m_at)) = Current(m_at) - 2
        BY <2>1, MerkleUp
      <3>2. Current(m_at) \in Int
        BY DEF Current, TypeOK, TreeTypeOK
      <3> QED BY <2>1, <3>1, <3>2
    <2>4. Current(m_at') + 1 = Current(m_at) - 1
      BY <2>3
    <2>5. \A k \in 1 .. Len(proof_nodes') : k <= published' <=> proof_nodes'[k] > Current(m_at') + 1
      BY <2>1, <2>2, <2>4
    <2>6. \A n : RightIn(recomputed_tree', n) <=> Right1(n)'
      BY <2>1 DEF RightIn, Right1
    <2>7. /\ \A n \in Nodes : flag_tree'[n] = Merkle!COMPUTED => Queued(n)' \/ Right1(n)'
          /\ \A k \in DOMAIN m_queue' : Right1(m_queue[k].in)' /\ Right1(m_queue[k].in + 1)'
      BY <1>1, <2>6, RecomputeUpRight DEF InJobs, Queued
    <2> QED BY <2>1, <2>2, <2>5, <2>7 DEF RecomputeInv
  <1>2. ASSUME UNCHANGED <<m_at, m_queue, tree, flag_tree, proof_nodes, published, recomputed_tree,
                           fault>>,
               m_pc' \in {"recompute_root", "recomputed"} => m_pc \in {"recompute_root", "recomputed"},
               m_pc' = "recomputed" => (m_padding_ok' <=> fault # "proof")
        PROVE  RecomputeInv'
    BY <1>2 DEF RecomputeInv, Queued, Right1
  <1>3. CASE MerkleEnd
    <2>1. /\ m_at.level = 0
          /\ \/ m_pc' \notin {"recompute_root", "recomputed"}
             \/ /\ m_pc = "recompute_root" /\ m_pc' = "recomputed"
                /\ m_padding_ok' = Merkle!PaddingIsZero
          /\ UNCHANGED <<m_at, m_queue, tree, flag_tree, proof_nodes, published, recomputed_tree,
                         fault>>
      BY <1>3, DoneStep, MerkleFrame DEF MerkleEnd
    <2>2. m_pc' = "recomputed" => (m_padding_ok' <=> fault # "proof")
      BY <2>1, RecomputeEnd
    <2> QED BY <1>2, <2>1, <2>2
  <1>4. CASE VerifyRoot /\ Merkle!CallRecomputeRoot(cmt_0)
    BY <1>4, RecomputeStart
  <1>5. CASE MerkleStill
    <2>1. UNCHANGED <<m_pc, m_at, m_queue, tree, flag_tree, proof_nodes, published, recomputed_tree,
                      m_padding_ok>>
      BY <1>5 DEF MerkleStill
    <2>2. CASE m_pc \in {"recompute_root", "recomputed"}
      <3>1. fault' = fault
        <4>1. ~Send
          BY <2>2 DEF Send, FlowInv
        <4> QED BY <4>1, ChallengeKept
      <3>2. m_pc' = "recomputed" => (m_padding_ok' <=> fault # "proof")
        BY <2>1 DEF RecomputeInv
      <3> QED BY <1>2, <2>1, <2>2, <3>1, <3>2
    <2>3. CASE m_pc \notin {"recompute_root", "recomputed"}
      BY <2>1, <2>3 DEF RecomputeInv
    <2> QED BY <2>2, <2>3
  <1>6. CASE (MerkleMove /\ Merkle!HashUp) \/ (MerkleMove /\ Merkle!ProveUp) \/ SignRoot \/ SignProof
    <2>1. m_pc' \notin {"recompute_root", "recomputed"}
      BY <1>6, HashUpStep, ProveUpStep, RootCall, ProofCall
    <2> QED BY <2>1 DEF RecomputeInv
  <1> QED BY <1>1, <1>3, <1>4, <1>5, <1>6, MerkleMoves

-----------------------------------------------------------------------------
(* What CROSS_verify answers *)

\* The root of the verifier is the signer's if the message is.
LEMMA RootRight ==
  ASSUME TypeOK, PositionInv, QueueInv, FlagInv, RecomputeInv, m_pc = "recomputed",
         fault # "message"
  PROVE  recomputed_tree[0] = tree[0]
  <1>1. m_queue = <<>>
    BY DEF QueueInv
  <1>2. Current(m_at) = -1
    <2>1. m_at.level = 0
      BY DEF PositionInv
    <2> QED BY <2>1, WalkDone
  <1>3. PICK n \in Nodes : n <= Current(m_at) + 1 /\ flag_tree[n] = Merkle!COMPUTED
    BY DEF FlagInv
  <1>4. n = 0
    BY <1>2, <1>3 DEF Nodes
  <1>5. ~Queued(n)
    BY <1>1 DEF Queued
  <1>6. Right1(n)
    BY <1>3, <1>5 DEF RecomputeInv
  <1> QED BY <1>4, <1>6 DEF Right1

\* When its rounds are over the verifier has every commitment to a seed, and,
\* if the message is the signed one, the responses to the signer's challenge.
LEMMA VerifierDone ==
  ASSUME TypeOK, VerifierInv, Verifying, i = T
  PROVE  /\ queue0 = <<>> /\ queue1 = <<>> /\ cmt_1 = Commits1 /\ used_rsps = Place(T)
         /\ \A r \in Rounds : chall_2[r] = 0 => cmt_0[r] = Commit0[<<Input0(r), r>>]
         /\ Received = "signed" => \A r \in Rounds : y[r] = Response(round_seeds[r], "signed", r)
  <1>1. queue0 = <<>> /\ queue1 = <<>> /\ used_rsps = Place(T)
    BY DEF VerifierInv
  <1>2. ASSUME NEW r \in Rounds
        PROVE  /\ r \in Answering(T) <=> chall_2[r] = 0
               /\ ~InQueue(queue0, r) /\ ~InQueue(queue1, r)
               /\ r \in 0 .. T - 1
    BY <1>1 DEF Answering, Rounds, InQueue
  <1>3. ASSUME NEW r \in Rounds
        PROVE  /\ chall_2[r] = 0 => cmt_0[r] = Commit0[<<Input0(r), r>>]
               /\ cmt_1[r] = Commits1[r]
               /\ Received = "signed" => y[r] = Response(round_seeds[r], "signed", r)
    <2>1. CASE chall_2[r] = 0
      BY <1>2, <2>1 DEF VerifierInv
    <2>2. CASE chall_2[r] # 0
      <3>1. r \in (0 .. i - 1) \ Answering(i)
        BY <1>2, <2>2
      <3> QED BY <1>2, <2>2, <3>1 DEF VerifierInv
    <2> QED BY <2>1, <2>2
  <1>4. cmt_1 = Commits1
    BY <1>3, AllCommitted DEF TypeOK, RoundTypeOK, Commitments, Rounds
  <1> QED BY <1>1, <1>3, <1>4

LEMMA Compared ==
  ASSUME TypeOK, FlowInv, FaultInv, SignerInv, VerifierInv, PositionInv, QueueInv, FlagInv,
         RecomputeInv, pc = "compare", m_pc = "recomputed"
  PROVE  DigestCmtMatches /\ Chall2Matches /\ PaddingsOK <=> fault = "none"
  <1>1. s_pc = "rebuilt" /\ i = T /\ Verifying
    BY DEF FlowInv, Verifying
  <1>2. /\ fault \in {"none", "message", "path", "proof", "group"} /\ fault # "group"
        /\ s_padding_ok <=> fault # "path"
        /\ m_padding_ok <=> fault # "proof"
    BY <1>1 DEF FaultInv, RecomputeInv
  <1>3. CASE fault = "message"
    BY <1>3 DEF Chall2Matches, Received
  <1>4. CASE fault # "message"
    <2>1. Received = "signed"
      BY <1>4 DEF Received
    <2>2. Chall2Matches
      BY <1>1, <2>1, VerifierDone DEF Chall2Matches
    <2>3. cmt_1 = Commits1 /\ recomputed_tree[0] = tree[0]
      BY <1>1, <1>4, RootRight, VerifierDone
    <2>4. signed.root = tree[0] /\ signed.cmt_1 = Commits1
      BY DEF SignerInv
    <2>5. DigestCmtMatches
      BY <2>3, <2>4 DEF DigestCmtMatches
    <2>6. PaddingsOK <=> fault = "none"
      BY <1>2, <1>4 DEF PaddingsOK
    <2> QED BY <2>2, <2>5, <2>6
  <1> QED BY <1>3, <1>4

LEMMA AcceptedStep ==
  ASSUME TypeOK, FlowInv, FaultInv, SignerInv, VerifierInv, PositionInv, QueueInv, FlagInv,
         RecomputeInv, Accepted, [Next]_vars
  PROVE  Accepted'
  <1>1. ASSUME UNCHANGED <<pc, verdict, fault>> PROVE Accepted'
    BY <1>1 DEF Accepted
  <1>2. CASE SeedMove \/ MerkleMove
    BY <1>1, <1>2, SeedFrame, MerkleFrame
  <1>3. CASE SignRound \/ SignRoot \/ SignProof \/ SignPath \/ SignResponse \/ SignDone
    BY <1>3 DEF SignRound, SignRoot, SignProof, SignPath, SignResponse, SignDone, Accepted
  <1>4. CASE Send \/ VerifySeeds \/ VerifySeedRound \/ VerifyResponseRound
    BY <1>4 DEF Send, VerifySeeds, VerifySeedRound, VerifyResponseRound, Accepted
  <1>5. CASE VerifyRoot
    <2>1. fault' = fault
      BY <1>5 DEF VerifyRoot
    <2>2. CASE fault = "group"
      BY <1>5, <2>1, <2>2 DEF VerifyRoot, Accepted
    <2>3. CASE fault # "group"
      BY <1>5, <2>1, <2>3 DEF VerifyRoot, Accepted
    <2> QED BY <2>2, <2>3
  <1>6. CASE Compare
    <2>1. pc = "compare" /\ m_pc = "recomputed" /\ fault' = fault
      BY <1>6 DEF Compare
    <2>2. DigestCmtMatches /\ Chall2Matches /\ PaddingsOK <=> fault = "none"
      BY <2>1, Compared
    <2>3. verdict' = "accepted" <=> DigestCmtMatches /\ Chall2Matches /\ PaddingsOK
      BY <1>6 DEF Compare
    <2> QED BY <2>1, <2>2, <2>3 DEF Accepted
  <1>7. CASE UNCHANGED vars
    BY <1>1, <1>7 DEF vars
  <1> QED BY <1>2, <1>3, <1>4, <1>5, <1>6, <1>7, Moves

-----------------------------------------------------------------------------
(* The invariant *)

LEMMA InitSeeds == Init => SP!IInv
  <1> SUFFICES ASSUME Init PROVE SP!IInv
    OBVIOUS
  <1>1. Seeds!Init /\ fault = "none"
    BY DEF Init
  <1>2. HonestPath = path
    BY <1>1 DEF HonestPath
  <1>3. SP!FromRoot(0) = Seeds!FromRoot(0) /\ SP!Blank = Seeds!Blank /\ SP!Slots = Seeds!Slots
        /\ SP!NOT_TO_PUBLISH = Seeds!NOT_TO_PUBLISH
    BY DEF SP!FromRoot, Seeds!FromRoot, SP!Blank, Seeds!Blank, SP!Nodes, Seeds!Nodes, SP!Slots,
         Seeds!Slots, SP!NOT_TO_PUBLISH, Seeds!NOT_TO_PUBLISH
  <1>4. (s_pc = "rebuilt") = FALSE
    BY <1>1 DEF Seeds!Init
  <1>5. SP!Init
    BY <1>1, <1>2, <1>3, <1>4 DEF Seeds!Init, SP!Init, SP!Rounds, Seeds!Rounds, SP!Nodes, Seeds!Nodes
  <1>6. SP!Fits
    BY <1>5, Constants DEF SP!Init, SP!Fits
  <1> QED BY <1>5, <1>6, Constants, SeedTables, SP!InitIInv

LEMMA InitTypes == Init => TypeOK
  <1> SUFFICES ASSUME Init PROVE TypeOK
    OBVIOUS
  <1>1. Merkle!Init /\ Seeds!Init
    BY DEF Init
  <1>2. TreeTypeOK
    <2>1. m_at \in [level : Int, i : Int, start : Int]
      BY <1>1, AtLeaves, MerkleLayout DEF Merkle!Init
    <2>2. m_queue \in Seq(Pairs) /\ proof_nodes \in Seq(Nodes)
      BY <1>1, NoPairs DEF Merkle!Init
    <2>3. tree \in [Nodes -> Contents] /\ recomputed_tree \in [Nodes -> Contents]
      BY <1>1, MerkleLayout DEF Merkle!Init, Contents
    <2>4. flag_tree \in [Nodes -> {Merkle!NOT_COMPUTED, Merkle!COMPUTED}]
      BY <1>1, MerkleLayout DEF Merkle!Init
    <2>5. proof \in [Merkle!Slots -> Contents] /\ published \in Nat
      BY <1>1 DEF Merkle!Init, Contents
    <2> QED BY <2>1, <2>2, <2>3, <2>4, <2>5 DEF TreeTypeOK
  <1>3. RoundTypeOK
    <2>1. NoCommitments \in [Rounds -> Digest \union {Zero}]
      BY DEF NoCommitments
    <2>2. /\ cmt_0 \in [Rounds -> Digest \union {Zero}] /\ cmt_1 \in [Rounds -> Digest \union {Zero}]
          /\ queue0 = <<>> /\ queue1 = <<>> /\ y = [r \in Rounds |-> NoResponse]
          /\ signed = [root |-> Zero, cmt_1 |-> NoCommitments, resp_0 |-> <<>>, resp_1 |-> <<>>]
      BY <2>1 DEF Init
    <2>3. \A S : <<>> \in Seq(S)
      OBVIOUS
    <2>4. NoResponse \in [of : Seed \union {NoSeed}, to : Seq({"signed", "other"} \union Rounds)]
      BY <2>3 DEF NoResponse
    <2>5. y \in [Rounds -> [of : Seed \union {NoSeed}, to : Seq({"signed", "other"} \union Rounds)]]
      BY <2>2, <2>4
    <2>6. signed \in [root : Contents, cmt_1 : [Rounds -> Digest \union {Zero}],
                      resp_0 : Seq([of : Seed, to : Seq({"signed", "other"} \union Rounds)]),
                      resp_1 : Seq(Digest \union {Zero})]
      <3>1. Zero \in Contents
        BY DEF Contents
      <3>2. <<>> \in Seq([of : Seed, to : Seq({"signed", "other"} \union Rounds)])
        BY <2>3, Zenon
      <3>3. <<>> \in Seq(Digest \union {Zero})
        BY <2>3, Zenon
      <3> QED BY <2>1, <2>2, <3>1, <3>2, <3>3
    <2>7. /\ queue0 \in Seq([round : Rounds, in : Seed \union {NoSeed}])
          /\ queue1 \in Seq([round : Rounds, in : Seed \union {NoSeed}])
      BY <2>2, <2>3, Zenon
    <2> QED BY <2>2, <2>5, <2>6, <2>7 DEF RoundTypeOK
  <1>4. path \in [Seeds!Slots -> Seed \union {NoSeed}]
    BY <1>1 DEF Seeds!Init
  <1> QED BY <1>2, <1>3, <1>4 DEF TypeOK

LEMMA InitInv == Init => Inv
  <1> SUFFICES ASSUME Init PROVE Inv
    OBVIOUS
  <1>1. /\ pc = "sign_rounds" /\ i = 0 /\ queue0 = <<>> /\ queue1 = <<>> /\ fault = "none"
        /\ signed = [root |-> Zero, cmt_1 |-> NoCommitments, resp_0 |-> <<>>, resp_1 |-> <<>>]
        /\ Merkle!Init /\ Seeds!Init
    BY DEF Init
  <1>2. /\ m_pc = "start" /\ m_at = FromLeaves /\ m_queue = <<>> /\ proof_nodes = <<>>
        /\ published = 0 /\ proof = [k \in Merkle!Slots |-> Zero]
    BY <1>1, MerkleLayout DEF Merkle!Init
  <1>3. s_pc = "gen_seed_tree"
    BY <1>1 DEF Seeds!Init
  <1>4. T \in Nat \ {0}
    BY LevelFacts
  <1>5. FlowInv /\ FaultInv
    BY <1>1, <1>2, <1>3, <1>4 DEF FlowInv, FaultInv, Sent
  <1>6. SignerInv /\ ResponseInv /\ VerifierInv
    <2>1. SignerInv
      BY <1>1, <1>4 DEF SignerInv
    <2>2. ResponseInv
      BY <1>1 DEF ResponseInv, Sent
    <2>3. VerifierInv
      BY <1>1 DEF VerifierInv, Verifying
    <2> QED BY <2>1, <2>2, <2>3
  <1>7. PositionInv /\ HashedInv /\ FlagInv /\ RecomputeInv
    BY <1>2 DEF PositionInv, HashedInv, FlagInv, RecomputeInv
  <1>8. QueueInv
    BY <1>2 DEF QueueInv, BATCH
  <1>9. ProofInv
    BY <1>1, <1>2 DEF ProofInv
  <1>10. OppositeInv /\ NodesInv /\ Accepted
    BY <1>1, <1>2, <1>3 DEF OppositeInv, NodesInv, Sent, Accepted
  <1> QED BY <1>5, <1>6, <1>7, <1>8, <1>9, <1>10, InitSeeds, InitTypes DEF Inv, IInv

LEMMA InvStep ==
  ASSUME Inv, Fits', [Next]_vars
  PROVE  Inv'
  <1>1. SP!IInv' /\ TypeOK' /\ FlowInv' /\ FaultInv'
    BY SeedStep, TypeStep, FlowStep, FaultStep DEF Inv, IInv
  <1>2. SignerInv' /\ ResponseInv' /\ VerifierInv'
    BY SignerStep, ResponseStep, VerifierStep DEF Inv, IInv
  <1>3. PositionInv' /\ QueueInv' /\ HashedInv' /\ FlagInv' /\ ProofInv'
    BY PositionStep, QueueStep, HashedStep, FlagStep, ProofStep DEF Inv, IInv
  <1>4. OppositeInv' /\ NodesInv' /\ RecomputeInv' /\ Accepted'
    BY OppositeStep, NodesStep, RecomputeStep, AcceptedStep DEF Inv, IInv
  <1> QED BY <1>1, <1>2, <1>3, <1>4 DEF Inv, IInv

\* As long as the path fits, the invariant is inductive: it holds in every
\* state of making, sending and verifying a signature, in the middle of every
\* loop and of every batch of the scheme and of both its trees.
THEOREM Invariance == Spec /\ []Fits => []Inv
  <1>1. Init => Inv
    BY InitInv
  <1>2. Inv /\ Fits' /\ [Next]_vars => Inv'
    BY InvStep
  <1> QED BY <1>1, <1>2, PTL DEF Spec

\* Types, and with them that no loop of the scheme or of the Merkle tree leaves
\* the tables, the trees or the responses.
THEOREM TypeCorrect == Spec /\ []Fits => []TypeOK
  <1>1. Inv => TypeOK
    BY DEF Inv, IInv
  <1> QED BY <1>1, Invariance, PTL

\* CROSS_verify accepts what CROSS_sign has signed, for every challenge, and
\* nothing that is for another message, does not decode, or has a padding.
THEOREM AcceptedCorrect == Spec /\ []Fits => []Accepted
  <1>1. Inv => Accepted
    BY DEF Inv, IInv
  <1> QED BY <1>1, Invariance, PTL

\* The queues of CROSS_verify lose and mix up no commitment: when its rounds are
\* over it has all of the signer's that it needs, and both queues are empty.
THEOREM CommitmentsAgreeCorrect == Spec /\ []Fits => []CommitmentsAgree
  <1>1. Inv => CommitmentsAgree
    <2> SUFFICES ASSUME Inv, s_pc = "rebuilt", i = T, Received = "signed"
                 PROVE  /\ queue0 = <<>> /\ queue1 = <<>> /\ cmt_1 = signed.cmt_1
                        /\ \A r \in Rounds : chall_2[r] = 0 => cmt_0[r] = tree[LeafOf[r]]
                        /\ used_rsps = Len(signed.resp_0)
      BY DEF CommitmentsAgree
    <2>1. /\ pc \in {"verify_rounds", "compare", "done"} /\ m_pc # "start"
          /\ Verifying /\ Sent
      BY DEF Inv, IInv, FlowInv, Verifying, Sent
    <2>2. /\ queue0 = <<>> /\ queue1 = <<>> /\ cmt_1 = Commits1 /\ used_rsps = Place(T)
          /\ \A r \in Rounds : chall_2[r] = 0 => cmt_0[r] = Commit0[<<Input0(r), r>>]
      BY <2>1, VerifierDone DEF Inv, IInv
    <2>3. signed.cmt_1 = Commits1
      BY <2>1 DEF Inv, IInv, SignerInv
    <2>4. used_rsps = Len(signed.resp_0)
      BY <2>1, <2>2 DEF Inv, IInv, ResponseInv, Answered
    <2>5. ASSUME NEW r \in Rounds, chall_2[r] = 0 PROVE cmt_0[r] = tree[LeafOf[r]]
      <3>1. tree[LeafNode(r)] = Commits0[r]
        BY <2>1 DEF Inv, IInv, HashedInv
      <3>2. cmt_0[r] = Commit0[<<round_seeds[r], r>>]
        BY <2>2, <2>5 DEF Input0
      <3> QED BY <3>1, <3>2, LeafFacts DEF Commits0
    <2> QED BY <2>2, <2>3, <2>4, <2>5
  <1> QED BY <1>1, Invariance, PTL

\* The path of the seed tree and the proof of the Merkle tree are taken from the
\* same nodes, each once, so one bound is enough for both.
THEOREM PathAndProofCorrect == Spec /\ []Fits => []PathAndProof
  <1>1. Inv => PathAndProof
    <2> SUFFICES ASSUME Inv, pc \in {"send", "done"}
                 PROVE  /\ {path_nodes[k] : k \in DOMAIN path_nodes}
                             = {proof_nodes[k] : k \in DOMAIN proof_nodes}
                        /\ Len(path_nodes) = Len(proof_nodes)
                        /\ Len(path_nodes) <= TREE_NODES_TO_STORE
      BY DEF PathAndProof
    <2>1. Sent /\ s_pc \in {"published", "rebuilt"}
      BY DEF Inv, IInv, FlowInv, Sent
    <2>2. Len(proof_nodes) = Len(path_nodes) /\ Len(proof_nodes) <= TREE_NODES_TO_STORE
      BY <2>1, SentNodes DEF Inv, IInv
    <2> QED BY <2>1, <2>2 DEF Inv, IInv, NodesInv, Entries
  <1> QED BY <1>1, Invariance, PTL

\* The batches of the seed tree are invisible inside CROSS_sign and CROSS_verify
\* too, also where what the verifier gets has a padding.
THEOREM NeverReadPendingCorrect == Spec /\ []Fits => []NeverReadPending
  <1>1. SP!IInv => SP!NeverReadPending
    BY Constants, SeedTables, SP!NothingPendingRead
  <1>2. SP!NeverReadPending => NeverReadPending
    BY DEF NeverReadPending, SP!NeverReadPending, Seeds!NeverReadPending, SP!BATCH, Seeds!BATCH,
         SP!Current, Seeds!Current
  <1>3. Inv => NeverReadPending
    BY <1>1, <1>2 DEF Inv
  <1> QED BY <1>3, Invariance, PTL

\* Whatever recompute_root calls computed is the signer's digest, or still to
\* come out of the queue.
THEOREM ComputedAgreesCorrect == Spec /\ []Fits => []ComputedAgrees
  <1>1. Inv => ComputedAgrees
    BY MerkleLayout
       DEF Inv, IInv, RecomputeInv, Right1, Queued, ComputedAgrees, Merkle!ComputedAgrees
  <1> QED BY <1>1, Invariance, PTL

\* No batch of the Merkle tree hashes what is no digest, or is still to come out
\* of the queue, nor does a fifth job join it.
THEOREM QueuedAreDefinedCorrect == Spec /\ []Fits => []QueuedAreDefined
  <1>1. Inv => QueuedAreDefined
    <2> SUFFICES ASSUME Inv, NEW k \in DOMAIN m_queue
                 PROVE  /\ BatchTree[m_queue[k].in] \in Digest /\ BatchTree[m_queue[k].in + 1] \in Digest
                        /\ \A j \in DOMAIN m_queue :
                             m_queue[j].out \notin {m_queue[k].in, m_queue[k].in + 1}
      BY DEF QueuedAreDefined, Merkle!QueuedAreDefined, Inv, IInv, QueueInv, BatchTree, BATCH,
             Merkle!BATCH
    <2> DEFINE l == m_at.level
    <2>1. l \in 1 .. LOG2T /\ l # l - 1
      <3>1. m_queue # <<>>
        OBVIOUS
      <3>2. m_pc # "start" /\ m_at.level # 0
        BY <3>1 DEF Inv, IInv, QueueInv
      <3>3. m_at.level \in Levels
        BY <3>2 DEF Inv, IInv, PositionInv
      <3> QED BY <3>2, <3>3, LevelFacts DEF Levels
    <2>2. PairsOf(m_queue, l)
      BY QueuePairs DEF Inv, IInv
    <2>3. PICK j2 \in 0 .. Expanded(l - 1) - 1 :
            /\ m_queue[k] = PairJob(l, j2)
            /\ BatchTree[Node(l, 2 * j2)] \in Digest /\ BatchTree[Node(l, 2 * j2 + 1)] \in Digest
      BY QueuePairs DEF Inv, IInv
    <2> HIDE DEF l
    <2>4. /\ l \in Levels /\ 2 * j2 \in 0 .. npl[l] - 1 /\ 2 * j2 + 1 \in 0 .. npl[l] - 1
          /\ Node(l, 2 * j2 + 1) = Node(l, 2 * j2) + 1
      BY <2>1, PairNodes
    <2>5. m_queue[k].in = Node(l, 2 * j2) /\ m_queue[k].in + 1 = Node(l, 2 * j2 + 1)
      BY <2>3, <2>4 DEF PairJob
    <2>6. ~InJobs(m_queue, Node(l, 2 * j2)) /\ ~InJobs(m_queue, Node(l, 2 * j2 + 1))
      BY <2>1, <2>2, <2>4, JobLevel
    <2> QED BY <2>3, <2>5, <2>6 DEF InJobs
  <1> QED BY <1>1, Invariance, PTL

\* Inside the scheme, too, the seed tree implements RoundSeeds: the verifier has
\* the signer's seeds of the rounds with challenge 1, and no other.
THEOREM ImplementsRoundSeedsCorrect == Spec /\ []Fits => ImplementsRoundSeeds
  <1>1. Init => Seeds!RS!Init
    BY DEF Init, Seeds!Init, Seeds!RS!Init
  <1>2. Inv /\ [Next]_vars => [SP!Next]_(SP!vars)
    BY SeedNext DEF Inv, IInv
  <1>3. [SP!Next]_(SP!vars) /\ SP!SignerHasSeeds' /\ SP!VerifierHasOpened' =>
          [SP!RS!Next]_(SP!RS!vars)
    BY SeedTables, SP!RoundSeedsStep
  <1>4. [SP!RS!Next]_(SP!RS!vars) => [Seeds!RS!Next]_(Seeds!RS!vars)
    BY DEF SP!RS!Next, Seeds!RS!Next, SP!RS!vars, Seeds!RS!vars, SP!RS!Generate, Seeds!RS!Generate,
           SP!RS!Open, Seeds!RS!Open, SP!RS!Recover, Seeds!RS!Recover, SP!Rounds, Seeds!Rounds,
           SP!TO_PUBLISH, Seeds!TO_PUBLISH
  <1>5. Inv => SP!SignerHasSeeds /\ SP!VerifierHasOpened
    BY Constants, SeedTables, SP!SignerRounds, SP!VerifierRounds DEF Inv
  <1> QED BY <1>1, <1>2, <1>3, <1>4, <1>5, Invariance, PTL
        DEF Spec, ImplementsRoundSeeds, Seeds!RS!Safety
=============================================================================
