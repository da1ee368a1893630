------------------------- MODULE CROSSSeedTree_proof -------------------------
(***************************************************************************)
(* What holds of the seed tree of CROSS for every layout GGMLayout         *)
(* describes, every challenge and every CSPRNG, as long as the path fits:  *)
(* the batches cannot be noticed, and the tree implements RoundSeeds.      *)
(***************************************************************************)
EXTENDS CROSSSeedTreeInv, TLAPS

-----------------------------------------------------------------------------
(* The layout *)

\* Levels fill the array one after the other: nodes are ordered as the pairs
\* of level and position are.
LEMMA NodeOrder ==
  ASSUME NEW l \in Levels, NEW i \in 0 .. npl[l] - 1,
         NEW m \in Levels, NEW k \in 0 .. npl[m] - 1
  PROVE  /\ Node(l, i) \in Nodes
         /\ Node(l, i) < LevelStart[l] + npl[l]
         /\ Node(l, i) < Node(m, k) <=> l < m \/ (l = m /\ i < k)
         /\ Node(l, i) = Node(m, k) <=> l = m /\ i = k
  <1>1. /\ LOG2T \in Nat /\ T \in Nat /\ l \in Nat /\ m \in Nat
        /\ npl[l] \in Nat /\ npl[m] \in Nat /\ i \in Nat /\ k \in Nat
        /\ LevelStart[l] \in Nat /\ LevelStart[m] \in Nat
        /\ LOG2T \in Levels /\ npl[LOG2T] \in Nat /\ LevelStart[LOG2T] \in Nat
    BY TablesType DEF Levels
  <1>2. LevelStart[l] + npl[l] <= 2 * T - 1
    <2>1. CASE l = LOG2T
      BY <2>1, LevelStartAssumption, <1>1
    <2>2. CASE l # LOG2T
      <3>1. l < LOG2T
        BY <2>2, <1>1 DEF Levels
      <3>2. LevelStart[l] + npl[l] <= LevelStart[LOG2T]
        BY <3>1, <1>1, LevelStartAssumption
      <3> QED BY <3>2, <1>1, LevelStartAssumption
    <2> QED BY <2>1, <2>2
  <1>3. l < m => LevelStart[l] + npl[l] <= LevelStart[m]
    BY LevelStartAssumption
  <1>4. m < l => LevelStart[m] + npl[m] <= LevelStart[l]
    BY LevelStartAssumption
  <1> QED BY <1>1, <1>2, <1>3, <1>4 DEF Node, Nodes

\* The children of an expanded node are where left_child_node says, next to
\* each other, and are nodes of the next level.
LEMMA ChildNode ==
  ASSUME NEW l \in 0 .. LOG2T - 1, NEW i \in 0 .. Expanded(l) - 1
  PROVE  /\ l \in Levels /\ l + 1 \in Levels /\ i \in 0 .. npl[l] - 1
         /\ 2 * i \in 0 .. npl[l + 1] - 1 /\ 2 * i + 1 \in 0 .. npl[l + 1] - 1
         /\ LeftChildNode(Node(l, i), l) = Node(l + 1, 2 * i)
         /\ Node(l + 1, 2 * i + 1) = Node(l + 1, 2 * i) + 1
         /\ Node(l, i) < Node(l + 1, 2 * i)
  <1>1. /\ LOG2T \in Nat /\ l \in Nat /\ l \in Levels /\ l + 1 \in Levels
    BY TablesType DEF Levels
  <1>2. /\ npl[l] \in Nat /\ lpl[l] \in Nat /\ npl[l + 1] \in Nat /\ off[l] \in Nat
        /\ LevelStart[l] \in Nat /\ LevelStart[l + 1] \in Nat
    BY <1>1, TablesType
  <1>3. npl[l + 1] = 2 * (npl[l] - lpl[l]) /\ i \in Int
    BY LayoutAssumption DEF Expanded
  <1>4. 2 * LevelStart[l] + 1 - off[l] = LevelStart[l + 1]
    BY <1>1, <1>2, LayoutAssumption DEF LeftChildNode, LEFT_CHILD
  <1>5. LevelStart[l + 1] = LevelStart[l] + npl[l]
    BY LevelStartAssumption
  <1>6. i \in Nat /\ i < npl[l] - lpl[l]
    BY <1>2 DEF Expanded
  <1>7. i \in 0 .. npl[l] - 1
    BY <1>2, <1>6
  <1>8. 2 * i \in 0 .. npl[l + 1] - 1 /\ 2 * i + 1 \in 0 .. npl[l + 1] - 1
    BY <1>2, <1>3, <1>6
  <1>9. Node(l + 1, 2 * i) = LevelStart[l + 1] + 2 * i /\ Node(l, i) = LevelStart[l] + i
    BY DEF Node
  <1>10. Node(l + 1, 2 * i + 1) = LevelStart[l + 1] + (2 * i + 1)
    BY DEF Node
  <1>11. LeftChildNode(Node(l, i), l) = Node(l + 1, 2 * i)
    BY <1>2, <1>4, <1>6, <1>9 DEF LeftChildNode, LEFT_CHILD
  <1>12. Node(l, i) < Node(l + 1, 2 * i)
    BY <1>2, <1>5, <1>6, <1>7, <1>9
  <1>13. Node(l + 1, 2 * i + 1) = Node(l + 1, 2 * i) + 1
    BY <1>2, <1>6, <1>9, <1>10
  <1> QED BY <1>1, <1>7, <1>8, <1>11, <1>12, <1>13

\* father_node is the expanded node of the level before at half the position.
LEMMA ParentNode ==
  ASSUME NEW l \in 1 .. LOG2T, NEW i \in 0 .. npl[l] - 1
  PROVE  /\ l \in Levels /\ l - 1 \in 0 .. LOG2T - 1
         /\ i \div 2 \in 0 .. Expanded(l - 1) - 1
         /\ FatherNode(Node(l, i), l) = Node(l - 1, i \div 2)
         /\ i = 2 * (i \div 2) \/ i = 2 * (i \div 2) + 1
  <1>1. /\ LOG2T \in Nat /\ l \in Nat /\ l \in Levels /\ l - 1 \in 0 .. LOG2T - 1
        /\ l - 1 \in Levels /\ (l - 1) + 1 = l
    BY TablesType DEF Levels
  <1>2. /\ npl[l] \in Nat /\ lpl[l - 1] \in Nat /\ npl[l - 1] \in Nat /\ off[l - 1] \in Nat
        /\ LevelStart[l] \in Nat /\ LevelStart[l - 1] \in Nat /\ i \in Nat
    BY <1>1, TablesType
  <1>3. npl[l] = 2 * (npl[l - 1] - lpl[l - 1]) /\ off[l - 1] % 2 = 0
    BY <1>1, LayoutAssumption DEF Expanded
  <1>4. 2 * LevelStart[l - 1] + 1 - off[l - 1] = LevelStart[l]
    BY <1>1, <1>2, LayoutAssumption DEF LeftChildNode, LEFT_CHILD
  <1>5. PICK h \in Nat : off[l - 1] = 2 * h
    BY <1>2, <1>3
  <1>6. off[l - 1] \div 2 = h
    BY <1>5
  <1>7. PICK j \in Nat : i = 2 * j \/ i = 2 * j + 1
    <2>1. i \div 2 \in Nat /\ (i = 2 * (i \div 2) \/ i = 2 * (i \div 2) + 1)
      BY <1>2
    <2> QED BY <2>1
  <1>8. i \div 2 = j
    BY <1>7
  <1>9. j \in 0 .. Expanded(l - 1) - 1
    BY <1>2, <1>3, <1>7 DEF Expanded
  <1>10. LevelStart[l] = 2 * (LevelStart[l - 1] - h) + 1
    BY <1>2, <1>4, <1>5
  <1>11. PARENT(Node(l, i)) = LevelStart[l - 1] - h + j
    BY <1>2, <1>7, <1>10 DEF PARENT, Node
  <1>12. FatherNode(Node(l, i), l) = LevelStart[l - 1] + j
    BY <1>2, <1>6, <1>11 DEF FatherNode
  <1> QED BY <1>1, <1>7, <1>8, <1>9, <1>12 DEF Node

\* The sibling of a node at an even position is the next node.
LEMMA SiblingNode ==
  ASSUME NEW l \in 1 .. LOG2T, NEW i \in 0 .. npl[l] - 1, i % 2 = 0
  PROVE  SIBLING(Node(l, i)) = Node(l, i + 1) /\ i + 1 \in 0 .. npl[l] - 1
  <1>1. /\ LOG2T \in Nat /\ l \in Nat /\ l - 1 \in 0 .. LOG2T - 1
        /\ l \in Levels /\ l - 1 \in Levels /\ (l - 1) + 1 = l
    BY TablesType DEF Levels
  <1>2. /\ npl[l] \in Nat /\ lpl[l - 1] \in Nat /\ npl[l - 1] \in Nat /\ off[l - 1] \in Nat
        /\ LevelStart[l] \in Nat /\ LevelStart[l - 1] \in Nat /\ i \in Nat
    BY <1>1, TablesType
  <1>3. npl[l] = 2 * (npl[l - 1] - lpl[l - 1]) /\ off[l - 1] % 2 = 0
    BY <1>1, LayoutAssumption DEF Expanded
  <1>4. 2 * LevelStart[l - 1] + 1 - off[l - 1] = LevelStart[l]
    BY <1>1, <1>2, LayoutAssumption DEF LeftChildNode, LEFT_CHILD
  <1>5. PICK h \in Nat : off[l - 1] = 2 * h
    BY <1>2, <1>3
  <1>6. PICK j \in Nat : i = 2 * j
    <2>1. i \div 2 \in Nat /\ i = 2 * (i \div 2)
      BY <1>2
    <2> QED BY <2>1
  <1>7. i + 1 \in 0 .. npl[l] - 1
    BY <1>2, <1>3, <1>6
  <1>8. LevelStart[l] + i = 2 * (LevelStart[l - 1] - h + j) + 1
    BY <1>2, <1>4, <1>5, <1>6
  <1>9. (LevelStart[l] + i) % 2 = 1
    BY <1>2, <1>8
  <1>10. Node(l, i + 1) = Node(l, i) + 1 /\ Node(l, i) % 2 = 1
    BY <1>2, <1>9 DEF Node
  <1> QED BY <1>7, <1>10 DEF SIBLING

\* The levels as numbers, for the steps that only count.
LEMMA LevelFacts ==
  /\ LOG2T \in Nat \ {0} /\ T \in Nat \ {0} /\ 0 \in Levels /\ LOG2T \in Levels
  /\ \A l \in Levels : /\ l \in Nat /\ npl[l] \in Nat \ {0} /\ lpl[l] \in Nat
                       /\ LevelStart[l] \in Nat /\ Expanded(l) \in 0 .. npl[l]
  /\ \A l \in 0 .. LOG2T - 1 :
       /\ l \in Levels /\ l + 1 \in Levels
       /\ LevelStart[l + 1] = LevelStart[l] + npl[l]
       /\ npl[l + 1] = 2 * Expanded(l)
  /\ npl[0] = 1 /\ LevelStart[0] = 0 /\ LevelStart[1] = 1 /\ Expanded(0) = 1
  /\ Expanded(LOG2T) = 0
  /\ LevelStart[LOG2T] + npl[LOG2T] = 2 * T - 1
  /\ leaves_start_indices[1] = LevelStart[LOG2T]
  <1>1. /\ LOG2T \in Nat \ {0} /\ T \in Nat \ {0} /\ 0 \in Levels /\ LOG2T \in Levels
        /\ 0 \in 0 .. LOG2T - 1
    BY TablesType DEF Levels
  <1>2. ASSUME NEW l \in Levels
        PROVE  /\ l \in Nat /\ npl[l] \in Nat \ {0} /\ lpl[l] \in Nat
               /\ LevelStart[l] \in Nat /\ Expanded(l) \in 0 .. npl[l]
    <2>1. l \in Nat /\ npl[l] \in Nat \ {0} /\ lpl[l] \in Nat /\ LevelStart[l] \in Nat
      BY TablesType DEF Levels
    <2>2. lpl[l] <= npl[l]
      BY LayoutAssumption
    <2> QED BY <2>1, <2>2 DEF Expanded
  <1>3. ASSUME NEW l \in 0 .. LOG2T - 1
        PROVE  /\ l \in Levels /\ l + 1 \in Levels
               /\ LevelStart[l + 1] = LevelStart[l] + npl[l]
               /\ npl[l + 1] = 2 * Expanded(l)
    <2>1. l \in Levels /\ l + 1 \in Levels
      BY TablesType DEF Levels
    <2> QED BY <2>1, LevelStartAssumption, LayoutAssumption
  <1>4. npl[0] = 1 /\ LevelStart[0] = 0 /\ LevelStart[1] = 1 /\ Expanded(0) = 1
    <2>1. npl[0] = 1 /\ LevelStart[0] = 0 /\ lpl[0] = 0
      BY LevelStartAssumption, LayoutAssumption
    <2>2. LevelStart[0 + 1] = LevelStart[0] + npl[0]
      BY <1>1, LevelStartAssumption
    <2> QED BY <2>1, <2>2 DEF Expanded
  <1>5. Expanded(LOG2T) = 0
    BY <1>1, <1>2, LayoutAssumption DEF Expanded
  <1> QED BY <1>1, <1>2, <1>3, <1>4, <1>5, LevelStartAssumption, LeavesAssumption

\* A first sibling has an odd index.
LEMMA OddNode ==
  ASSUME NEW l \in 0 .. LOG2T - 1, NEW i \in 0 .. Expanded(l) - 1
  PROVE  Node(l + 1, 2 * i) % 2 = 1
  <1>1. /\ l \in Levels /\ l + 1 \in Levels /\ off[l] \in Nat /\ off[l] % 2 = 0
        /\ LevelStart[l] \in Nat /\ LevelStart[l + 1] \in Nat /\ i \in Nat
    BY TablesType, LayoutAssumption, LevelFacts DEF Levels
  <1>2. 2 * LevelStart[l] + 1 - off[l] = LevelStart[l + 1]
    BY <1>1, LayoutAssumption DEF LeftChildNode, LEFT_CHILD
  <1>3. PICK h \in Nat : off[l] = 2 * h
    BY <1>1
  <1>4. LevelStart[l + 1] + 2 * i = 2 * (LevelStart[l] - h + i) + 1
    BY <1>1, <1>2, <1>3
  <1> QED BY <1>1, <1>3, <1>4 DEF Node

\* Nodes below the root come after it, before the end of the array.
LEMMA NodeBelowRoot ==
  ASSUME NEW l \in 1 .. LOG2T, NEW i \in 0 .. npl[l] - 1
  PROVE  Node(l, i) \in 1 .. 2 * T - 2 /\ T \in Nat /\ l \in Levels
  <1>1. l \in Levels /\ 0 \in Levels /\ 0 \in 0 .. npl[0] - 1 /\ 0 < l /\ Node(0, 0) = 0 /\ T \in Nat
    BY LevelFacts DEF Levels, Node
  <1>2. Node(0, 0) < Node(l, i) /\ Node(l, i) \in Nodes
    BY <1>1, NodeOrder
  <1> QED BY <1>1, <1>2 DEF Nodes

\* A leaf is a node that is not expanded.
LEMMA LeafPosition ==
  ASSUME NEW r \in Rounds
  PROVE  \E l \in Levels : \E i \in 0 .. npl[l] - 1 :
           /\ LeafNode(r) = Node(l, i) /\ i \notin 0 .. Expanded(l) - 1
           /\ l # 0 /\ Node(l, i) < 2 * T - 1 /\ LeafNode(r) \in Nodes
  <1>1. PICK l \in Levels : \E i \in Expanded(l) .. npl[l] - 1 : LeafNode(r) = Node(l, i)
    BY LeavesAssumption
  <1>2. PICK i \in Expanded(l) .. npl[l] - 1 : LeafNode(r) = Node(l, i)
    BY <1>1
  <1>3. Expanded(l) \in Nat /\ npl[l] \in Nat /\ npl[0] = 1 /\ Expanded(0) = 1 /\ LOG2T \in Nat
    BY LevelFacts
  <1>4. i \in 0 .. npl[l] - 1 /\ i \notin 0 .. Expanded(l) - 1 /\ l # 0
    BY <1>3
  <1>5. l \in 1 .. LOG2T
    BY <1>3, <1>4 DEF Levels
  <1>6. Node(l, i) < 2 * T - 1 /\ Node(l, i) \in Nodes
    <2>1. Node(l, i) \in 1 .. 2 * T - 2 /\ T \in Nat
      BY <1>4, <1>5, NodeBelowRoot
    <2> QED BY <2>1 DEF Nodes
  <1> QED BY <1>2, <1>4, <1>6

\* Every node that is not expanded is a leaf.
LEMMA LeafRound ==
  ASSUME NEW l \in Levels, NEW i \in 0 .. npl[l] - 1, l = LOG2T \/ i >= Expanded(l)
  PROVE  \E r \in Rounds : LeafNode(r) = Node(l, i)
  <1>1. Expanded(l) \in Nat /\ npl[l] \in Nat /\ Expanded(LOG2T) = 0
    BY LevelFacts
  <1>2. i \in Expanded(l) .. npl[l] - 1
    BY <1>1
  <1> QED BY <1>2, LeavesAssumption

\* The other nodes are expanded.
LEMMA InnerNode ==
  ASSUME NEW l \in Levels, NEW i \in 0 .. npl[l] - 1, ~(l = LOG2T \/ i >= Expanded(l))
  PROVE  l \in 0 .. LOG2T - 1 /\ i \in 0 .. Expanded(l) - 1
  <1>1. LOG2T \in Nat /\ Expanded(l) \in Nat /\ npl[l] \in Nat
    BY LevelFacts
  <1> QED BY <1>1 DEF Levels

-----------------------------------------------------------------------------
(* Positions *)

\* FromRoot and FromLeaves are positions the loops may be at.
LEMMA Starts ==
  /\ FromRoot(0) = [level |-> 0, i |-> 0, start |-> 0]
  /\ FromRoot(1) = [level |-> 1, i |-> 0, start |-> 1]
  /\ FromLeaves = [level |-> LOG2T, i |-> npl[LOG2T] - 2, start |-> LevelStart[LOG2T]]
  /\ npl[LOG2T] - 2 \in 0 .. npl[LOG2T] - 2 /\ (npl[LOG2T] - 2) % 2 = 0
  /\ 1 \in Levels /\ 0 \in 0 .. npl[1] - 1
  <1>1. LOG2T - 1 \in 0 .. LOG2T - 1 /\ (LOG2T - 1) + 1 = LOG2T /\ LOG2T - 1 \in Levels
        /\ 1 \in Levels /\ LOG2T \in Levels
    BY LevelFacts DEF Levels
  <1>2. npl[LOG2T] = 2 * Expanded(LOG2T - 1) /\ Expanded(LOG2T - 1) \in Nat
        /\ npl[LOG2T] \in Nat \ {0} /\ npl[1] \in Nat \ {0}
    BY <1>1, LevelFacts
  <1>3. npl[LOG2T] - 2 \in 0 .. npl[LOG2T] - 2 /\ (npl[LOG2T] - 2) % 2 = 0
    BY <1>2
  <1> QED BY <1>1, <1>2, <1>3, LevelFacts DEF FromRoot, FromLeaves

\* Where gen_seed_tree is, and where it goes on: to the next node it expands.
LEMMA GenPosition ==
  ASSUME TypeOK, PositionInv, pc = "gen_seed_tree", at.level < LOG2T,
         at' = Down(at, Expanded(at.level))
  PROVE  /\ at.level \in 0 .. LOG2T - 1 /\ at.i \in 0 .. Expanded(at.level) - 1
         /\ Current(at) = Node(at.level, at.i)
         /\ at' \in [level : Int, i : Int, start : Int]
         /\ at'.level \in Levels /\ at'.start = LevelStart[at'.level]
         /\ at'.level < LOG2T => at'.i \in 0 .. Expanded(at'.level) - 1
         /\ at'.level = LOG2T => at'.i = 0
         /\ \/ /\ at'.level = at.level /\ at'.i = at.i + 1 /\ at.i # Expanded(at.level) - 1
               /\ Current(at') = Current(at) + 1
            \/ /\ at'.level = at.level + 1 /\ at'.i = 0 /\ at.i = Expanded(at.level) - 1
               /\ Current(at') = LevelStart[at.level] + npl[at.level]
  <1>1. /\ at.level \in 0 .. LOG2T - 1 /\ at.level \in Levels /\ at.level + 1 \in Levels
        /\ at.i \in 0 .. Expanded(at.level) - 1 /\ at.start = LevelStart[at.level]
        /\ at.i \in Int /\ at.level \in Int
    BY LevelFacts DEF PositionInv, Levels
  <1>2. /\ LevelStart[at.level] \in Nat /\ npl[at.level] \in Nat \ {0}
        /\ Expanded(at.level) \in Nat /\ LOG2T \in Nat
        /\ LevelStart[at.level + 1] = LevelStart[at.level] + npl[at.level]
        /\ LevelStart[at.level + 1] \in Nat
    BY <1>1, LevelFacts
  <1>3. Current(at) = Node(at.level, at.i)
    BY <1>1 DEF Current, Node
  <1>4. CASE at.i + 1 < Expanded(at.level)
    <2>1. at' = [at EXCEPT !.i = at.i + 1]
      BY <1>4 DEF Down
    <2>2. at'.level = at.level /\ at'.i = at.i + 1 /\ at'.start = at.start
          /\ at' \in [level : Int, i : Int, start : Int]
      BY <1>1, <2>1 DEF TypeOK
    <2>3. at.i + 1 \in 0 .. Expanded(at.level) - 1 /\ at.i # Expanded(at.level) - 1
      BY <1>1, <1>2, <1>4
    <2>4. Current(at') = Current(at) + 1
      BY <1>1, <1>2, <2>2 DEF Current
    <2> QED BY <1>1, <1>3, <2>2, <2>3, <2>4
  <1>5. CASE ~(at.i + 1 < Expanded(at.level))
    <2>1. at' = [level |-> at.level + 1, i |-> 0, start |-> at.start + npl[at.level]]
      BY <1>5 DEF Down
    <2>2. at'.level = at.level + 1 /\ at'.i = 0 /\ at'.start = LevelStart[at.level] + npl[at.level]
          /\ at' \in [level : Int, i : Int, start : Int]
      BY <1>1, <1>2, <2>1
    <2>3. at.i = Expanded(at.level) - 1
      BY <1>1, <1>2, <1>5
    <2>4. at'.level < LOG2T => 0 \in 0 .. Expanded(at'.level) - 1
      <3>1. SUFFICES ASSUME at.level + 1 < LOG2T PROVE 0 \in 0 .. Expanded(at.level + 1) - 1
        BY <2>2
      <3>2. at.level + 1 \in 0 .. LOG2T - 1 /\ (at.level + 1) + 1 \in Levels
        BY <1>1, <1>2, <3>1, LevelFacts
      <3>3. npl[(at.level + 1) + 1] = 2 * Expanded(at.level + 1)
            /\ npl[(at.level + 1) + 1] \in Nat \ {0} /\ Expanded(at.level + 1) \in Nat
        BY <1>1, <3>2, LevelFacts
      <3> QED BY <3>3
    <2>5. Current(at') = LevelStart[at.level] + npl[at.level]
      BY <1>2, <2>2 DEF Current
    <2> QED BY <1>1, <1>2, <1>3, <2>2, <2>3, <2>4, <2>5
  <1> QED BY <1>4, <1>5

\* A position on a pair of siblings, from which a loop goes upwards.
AtPair(p) ==
  /\ p \in [level : Int, i : Int, start : Int]
  /\ p.level \in 1 .. LOG2T /\ p.start = LevelStart[p.level]
  /\ p.i \in 0 .. npl[p.level] - 2 /\ p.i % 2 = 0

\* The node there, its sibling and parent, and where the loop goes on: to the
\* pair before.
LEMMA UpPosition ==
  ASSUME NEW p, AtPair(p)
  PROVE  /\ p.level \in 1 .. LOG2T /\ p.level \in Levels /\ p.level - 1 \in 0 .. LOG2T - 1
         /\ p.i \in 0 .. npl[p.level] - 1 /\ p.i + 1 \in 0 .. npl[p.level] - 1
         /\ p.i \div 2 \in 0 .. Expanded(p.level - 1) - 1 /\ p.i = 2 * (p.i \div 2)
         /\ Current(p) = Node(p.level, p.i)
         /\ SIBLING(Current(p)) = Node(p.level, p.i + 1)
         /\ ParentOf(p) = Node(p.level - 1, p.i \div 2)
         /\ Up(p) \in [level : Int, i : Int, start : Int]
         /\ Up(p).level \in Levels /\ Up(p).start = LevelStart[Up(p).level]
         /\ Up(p).level > 0 => Up(p).i \in 0 .. npl[Up(p).level] - 2 /\ Up(p).i % 2 = 0
         /\ Up(p).level = 0 => Up(p).i = -1
         /\ Current(Up(p)) = Current(p) - 2
         /\ p.i > 0 => Up(p).level = p.level /\ Up(p).i = p.i - 2
         /\ p.i = 0 => Up(p).level = p.level - 1
  <1>1. /\ p.level \in 1 .. LOG2T /\ p.level \in Levels /\ p.start = LevelStart[p.level]
        /\ p.i \in 0 .. npl[p.level] - 2 /\ p.i % 2 = 0
    BY LevelFacts DEF AtPair, Levels
  <1>2. /\ p.level - 1 \in 0 .. LOG2T - 1 /\ p.level - 1 \in Levels /\ (p.level - 1) + 1 = p.level
        /\ p.level \in Int /\ LOG2T \in Nat
    <2>1. LOG2T \in Nat
      BY LevelFacts
    <2>2. p.level - 1 \in 0 .. LOG2T - 1 /\ (p.level - 1) + 1 = p.level /\ p.level \in Int
      BY <1>1, <2>1
    <2> QED BY <2>1, <2>2, LevelFacts
  <1>3. /\ npl[p.level] \in Nat /\ npl[p.level - 1] \in Nat \ {0}
        /\ LevelStart[p.level] \in Nat /\ LevelStart[p.level - 1] \in Nat
        /\ LevelStart[p.level] = LevelStart[p.level - 1] + npl[p.level - 1]
    BY <1>1, <1>2, LevelFacts
  <1>4. p.i \in 0 .. npl[p.level] - 1 /\ p.i \in Nat /\ p.i = 2 * (p.i \div 2)
    BY <1>1, <1>3
  <1>5. Current(p) = Node(p.level, p.i)
    BY <1>1 DEF Current, Node
  <1>6. SIBLING(Current(p)) = Node(p.level, p.i + 1) /\ p.i + 1 \in 0 .. npl[p.level] - 1
    BY <1>1, <1>4, <1>5, SiblingNode
  <1>7. /\ ParentOf(p) = Node(p.level - 1, p.i \div 2)
        /\ p.i \div 2 \in 0 .. Expanded(p.level - 1) - 1
    BY <1>1, <1>4, <1>5, ParentNode DEF ParentOf
  <1>8. CASE p.i > 0
    <2>1. Up(p) = [p EXCEPT !.i = p.i - 2]
      BY <1>8 DEF Up
    <2>2. Up(p).level = p.level /\ Up(p).i = p.i - 2 /\ Up(p).start = p.start
          /\ Up(p) \in [level : Int, i : Int, start : Int]
      BY <1>4, <2>1 DEF AtPair
    <2>3. p.i - 2 \in 0 .. npl[p.level] - 2 /\ (p.i - 2) % 2 = 0
      BY <1>1, <1>3, <1>4, <1>8
    <2>4. Current(Up(p)) = Current(p) - 2
      BY <1>1, <1>3, <1>4, <2>2 DEF Current
    <2> QED BY <1>1, <1>2, <1>4, <1>5, <1>6, <1>7, <2>2, <2>3, <2>4
  <1>9. CASE ~(p.i > 0)
    <2>1. Up(p) = [level |-> p.level - 1, i |-> npl[p.level - 1] - 2,
                 start |-> p.start - npl[p.level - 1]]
      BY <1>9 DEF Up
    <2>2. p.i = 0
      BY <1>4, <1>9
    <2>3. /\ Up(p).level = p.level - 1 /\ Up(p).i = npl[p.level - 1] - 2
          /\ Up(p).start = LevelStart[p.level - 1]
          /\ Up(p) \in [level : Int, i : Int, start : Int]
      BY <1>1, <1>2, <1>3, <2>1
    <2>4. Current(Up(p)) = Current(p) - 2
      BY <1>1, <1>3, <2>2, <2>3 DEF Current
    <2>5. p.level - 1 > 0 => npl[p.level - 1] - 2 \in 0 .. npl[p.level - 1] - 2
                              /\ (npl[p.level - 1] - 2) % 2 = 0
      <3>1. SUFFICES ASSUME p.level - 1 > 0
                     PROVE  npl[p.level - 1] - 2 \in 0 .. npl[p.level - 1] - 2
                            /\ (npl[p.level - 1] - 2) % 2 = 0
        OBVIOUS
      <3>2. p.level - 2 \in 0 .. LOG2T - 1 /\ (p.level - 2) + 1 = p.level - 1
            /\ p.level - 2 \in Levels
        BY <1>2, <3>1, LevelFacts
      <3>3. npl[p.level - 1] = 2 * Expanded(p.level - 2) /\ Expanded(p.level - 2) \in Nat
        BY <3>2, LevelFacts
      <3> QED BY <1>3, <3>3
    <2>6. p.level - 1 = 0 => npl[p.level - 1] - 2 = -1
      BY LevelFacts
    <2> QED BY <1>1, <1>2, <1>4, <1>5, <1>6, <1>7, <2>2, <2>3, <2>4, <2>5, <2>6
  <1> QED BY <1>8, <1>9

\* The pair a loop comes to is the only one it newly passes.
LEMMA UpPasses ==
  ASSUME NEW p, AtPair(p), NEW l \in 0 .. LOG2T - 1, NEW i \in 0 .. Expanded(l) - 1
  PROVE  Node(l + 1, 2 * i) > Current(Up(p)) <=>
           Node(l + 1, 2 * i) > Current(p) \/ (l = p.level - 1 /\ i = p.i \div 2)
  <1> DEFINE h == p.level
             j == p.i \div 2
  <1>1. /\ h - 1 \in 0 .. LOG2T - 1 /\ h \in 1 .. LOG2T /\ h \in Levels
        /\ j \in 0 .. Expanded(h - 1) - 1 /\ p.i = 2 * j
        /\ Current(p) = Node(h, 2 * j) /\ Current(Up(p)) = Current(p) - 2
        /\ 2 * j \in 0 .. npl[h] - 1
    BY UpPosition
  <1>2. /\ l + 1 \in Levels /\ 2 * i \in 0 .. npl[l + 1] - 1
        /\ l \in Int /\ i \in Int /\ j \in Int /\ h \in Int /\ (h - 1) + 1 = h
    <2>1. l + 1 \in Levels /\ 2 * i \in 0 .. npl[l + 1] - 1
      BY ChildNode
    <2>2. l \in Int /\ i \in Int /\ j \in Int /\ h \in Int /\ (h - 1) + 1 = h
      BY <1>1
    <2> QED BY <2>1, <2>2
  <1>3. Node(l + 1, 2 * i) \in Nodes /\ Node(l + 1, 2 * i) % 2 = 1 /\ Current(p) \in Nodes
    BY <1>1, <1>2, NodeOrder, OddNode
  <1>4. Current(p) % 2 = 1
    <2>1. Node((h - 1) + 1, 2 * j) % 2 = 1
      BY <1>1, OddNode
    <2> QED BY <1>1, <1>2, <2>1
  <1>5. Node(l + 1, 2 * i) # Current(p) - 1
    BY <1>3, <1>4 DEF Nodes
  <1>6. Node(l + 1, 2 * i) > Current(Up(p)) <=>
          Node(l + 1, 2 * i) > Current(p) \/ Node(l + 1, 2 * i) = Current(p)
    BY <1>1, <1>3, <1>5 DEF Nodes
  <1>7. Node(l + 1, 2 * i) = Current(p) <=> l + 1 = h /\ 2 * i = 2 * j
    BY <1>1, <1>2, NodeOrder
  <1> QED BY <1>2, <1>6, <1>7

\* compute_seeds_to_publish is at a pair until it is above the root.
LEMMA FlagPosition ==
  ASSUME TypeOK, PositionInv, FlagParent
  PROVE  AtPair(at) /\ at' = Up(at)
  BY LevelFacts DEF FlagParent, PositionInv, Computing, Levels, AtPair, TypeOK

\* The node seed_path and rebuild_tree are at; they go on to the next one.
LEMMA ScanPosition ==
  ASSUME TypeOK, PositionInv, Scanning, at.level <= LOG2T, at' = Down(at, npl[at.level])
  PROVE  /\ at.level \in 1 .. LOG2T /\ at.level \in Levels /\ at.i \in 0 .. npl[at.level] - 1
         /\ at.level - 1 \in 0 .. LOG2T - 1 /\ at.level - 1 \in Levels
         /\ at.i \div 2 \in 0 .. Expanded(at.level - 1) - 1
         /\ at.i \div 2 \in 0 .. npl[at.level - 1] - 1
         /\ Current(at) = Node(at.level, at.i) /\ Current(at) \in 1 .. 2 * T - 2
         /\ ParentOf(at) = Node(at.level - 1, at.i \div 2)
         /\ at' \in [level : Int, i : Int, start : Int]
         /\ at'.level \in 1 .. LOG2T + 1
         /\ at'.level <= LOG2T => /\ at'.start = LevelStart[at'.level]
                                  /\ at'.i \in 0 .. npl[at'.level] - 1
         /\ at'.level > LOG2T => at'.i = 0 /\ at'.start = 2 * T - 1
         /\ Current(at') = Current(at) + 1
         /\ \/ at'.level = at.level /\ at'.i = at.i + 1 /\ at.i < npl[at.level] - 1
            \/ at'.level = at.level + 1 /\ at'.i = 0 /\ at.i = npl[at.level] - 1
  <1>1. /\ at.level \in 1 .. LOG2T /\ at.level \in Levels /\ at.i \in 0 .. npl[at.level] - 1
        /\ at.start = LevelStart[at.level] /\ LOG2T \in Nat /\ at.i \in Int
    BY LevelFacts DEF PositionInv, Levels
  <1>2. npl[at.level] \in Nat \ {0} /\ LevelStart[at.level] \in Nat
    BY <1>1, LevelFacts
  <1>3. Current(at) = Node(at.level, at.i)
    BY <1>1 DEF Current, Node
  <1>4. /\ ParentOf(at) = Node(at.level - 1, at.i \div 2)
        /\ at.level - 1 \in 0 .. LOG2T - 1
        /\ at.i \div 2 \in 0 .. Expanded(at.level - 1) - 1
    BY <1>1, <1>3, ParentNode DEF ParentOf
  <1>5. at.level - 1 \in Levels /\ at.i \div 2 \in 0 .. npl[at.level - 1] - 1
    BY <1>4, ChildNode
  <1>6. Current(at) \in 1 .. 2 * T - 2
    BY <1>1, <1>3, NodeBelowRoot
  <1>7. CASE at.i + 1 < npl[at.level]
    <2>1. at' = [at EXCEPT !.i = at.i + 1]
      BY <1>7 DEF Down
    <2>2. at'.level = at.level /\ at'.i = at.i + 1 /\ at'.start = at.start
          /\ at' \in [level : Int, i : Int, start : Int]
      <3>1. at \in [level : Int, i : Int, start : Int] /\ at.i + 1 \in Int
        BY <1>1 DEF TypeOK
      <3> QED BY <2>1, <3>1
    <2>3. at.i + 1 \in 0 .. npl[at.level] - 1 /\ at.i < npl[at.level] - 1
      BY <1>1, <1>2, <1>7
    <2>4. Current(at') = Current(at) + 1
      BY <1>1, <1>2, <2>2 DEF Current
    <2> QED BY <1>1, <1>3, <1>4, <1>5, <1>6, <2>2, <2>3, <2>4
  <1>8. CASE ~(at.i + 1 < npl[at.level])
    <2>1. at' = [level |-> at.level + 1, i |-> 0, start |-> at.start + npl[at.level]]
      BY <1>8 DEF Down
    <2>2. at'.level = at.level + 1 /\ at'.i = 0 /\ at'.start = LevelStart[at.level] + npl[at.level]
          /\ at' \in [level : Int, i : Int, start : Int]
      BY <1>1, <1>2, <2>1
    <2>3. at.i = npl[at.level] - 1
      BY <1>1, <1>2, <1>8
    <2>4. Current(at') = Current(at) + 1
      BY <1>1, <1>2, <2>2, <2>3 DEF Current
    <2>5. CASE at.level = LOG2T
      <3>1. at'.start = 2 * T - 1 /\ at'.level = LOG2T + 1 /\ at'.level \in 1 .. LOG2T + 1
        BY <1>1, <2>2, <2>5, LevelFacts
      <3> QED BY <1>1, <1>3, <1>4, <1>5, <1>6, <2>2, <2>3, <2>4, <3>1
    <2>6. CASE at.level # LOG2T
      <3>1. at.level \in 0 .. LOG2T - 1 /\ at.level + 1 \in 1 .. LOG2T
        BY <1>1, <2>6
      <3>2. LevelStart[at.level + 1] = LevelStart[at.level] + npl[at.level]
            /\ npl[at.level + 1] \in Nat \ {0}
        BY <3>1, LevelFacts
      <3> QED BY <1>1, <1>3, <1>4, <1>5, <1>6, <2>2, <2>3, <2>4, <3>1, <3>2
    <2> QED BY <2>5, <2>6
  <1> QED BY <1>7, <1>8

-----------------------------------------------------------------------------
(* Leaves *)

\* WithLeaves puts the value of every round on its leaf, seed_leaves reads it.
LEMMA LeafValues ==
  ASSUME NEW S, NEW tree \in [Nodes -> S], NEW values \in [Rounds -> S]
  PROVE  /\ WithLeaves(tree, values) \in [Nodes -> S]
         /\ \A r \in Rounds : WithLeaves(tree, values)[LeafNode(r)] = values[r]
  <1>1. ASSUME NEW r \in Rounds
        PROVE  LeafNode(r) \in Leaves /\ LeafNode(r) \in Nodes /\ RoundAt[LeafNode(r)] = r
    <2>1. LeafNode(r) \in Leaves /\ LeafOf[r] = LeafNode(r)
      BY DEF Leaves, LeafOf
    <2>2. \A q \in Rounds : LeafOf[q] = LeafNode(r) => q = r
      BY LeavesAssumption DEF LeafOf
    <2>3. (CHOOSE q \in Rounds : LeafOf[q] = LeafNode(r)) = r
      BY <2>1, <2>2
    <2>4. RoundAt[LeafNode(r)] = r
      BY <2>1, <2>3 DEF RoundAt
    <2> QED BY <2>1, <2>4, LeafPosition
  <1>2. ASSUME NEW n \in Nodes PROVE WithLeaves(tree, values)[n] \in S
    <2>1. CASE n \in Leaves
      <3>1. PICK r \in Rounds : n = LeafNode(r)
        BY <2>1 DEF Leaves, LeafOf
      <3> QED BY <1>1, <2>1, <3>1 DEF WithLeaves
    <2>2. CASE n \notin Leaves
      BY <2>2 DEF WithLeaves
    <2> QED BY <2>1, <2>2
  <1>3. WithLeaves(tree, values) = [n \in Nodes |-> WithLeaves(tree, values)[n]]
    BY DEF WithLeaves
  <1> QED BY <1>1, <1>2, <1>3 DEF WithLeaves

\* seed_leaves reads the leaf of every round.
LEMMA SeedLeaves ==
  ASSUME NEW tree
  PROVE  seed_leaves(tree) = [r \in Rounds |-> tree[LeafNode(r)]]
  BY DEF seed_leaves, LeafOf

-----------------------------------------------------------------------------
(* Batches *)

\* The job a loop queues for the node it is at.
LEMMA JobValue ==
  ASSUME NEW tree \in [Nodes -> Memory], Current(at) = Node(at.level, at.i),
         at.level \in 0 .. LOG2T - 1, at.i \in 0 .. Expanded(at.level) - 1
  PROVE  /\ Job(tree) = JobOf(tree, at.level, at.i)
         /\ Job(tree) \in Jobs
  <1>1. /\ at.level \in Levels /\ at.level + 1 \in Levels /\ at.i \in 0 .. npl[at.level] - 1
        /\ 2 * at.i \in 0 .. npl[at.level + 1] - 1
        /\ LeftChildNode(Node(at.level, at.i), at.level) = Node(at.level + 1, 2 * at.i)
    BY ChildNode
  <1>2. Node(at.level, at.i) \in Nodes /\ Node(at.level + 1, 2 * at.i) \in Nodes
    BY <1>1, NodeOrder
  <1> QED BY <1>1, <1>2 DEF Job, JobOf, Jobs

\* A job's children are memory.
LEMMA ChildrenType ==
  ASSUME SeedAssumption, NEW job \in Jobs
  PROVE  Children(job)[1] \in Memory /\ Children(job)[2] \in Memory
  <1>1. CASE job.seed = NoSeed
    BY <1>1 DEF Children, Memory
  <1>2. CASE job.seed # NoSeed
    <2>1. <<job.seed, job.dsc>> \in Seed \X Nodes
      BY <1>2 DEF Jobs, Memory
    <2>2. Expand[<<job.seed, job.dsc>>] \in Seed \X Seed
      BY <2>1 DEF SeedAssumption
    <2> QED BY <1>2, <2>2 DEF Children, Memory
  <1> QED BY <1>1, <1>2

\* A flushed batch leaves a tree.
LEMMA RunBatchType ==
  ASSUME SeedAssumption, NEW tree \in [Nodes -> Memory], NEW q \in Seq(Jobs)
  PROVE  RunBatch(tree, q) \in [Nodes -> Memory]
  <1>1. ASSUME NEW n \in Nodes PROVE RunBatch(tree, q)[n] \in Memory
    <2>1. CASE \E k \in DOMAIN q : n \in {q[k].child, q[k].child + 1}
      <3> DEFINE c == CHOOSE k \in DOMAIN q : n \in {q[k].child, q[k].child + 1}
      <3>1. c \in DOMAIN q /\ n \in {q[c].child, q[c].child + 1}
        BY <2>1
      <3>2. RunBatch(tree, q)[n] = Children(q[c])[n - q[c].child + 1]
        BY <2>1 DEF RunBatch
      <3> HIDE DEF c
      <3>3. q[c] \in Jobs
        BY <3>1
      <3>4. q[c].child \in Int
        <4>1. q[c].child \in Nodes
          BY <3>3 DEF Jobs
        <4> QED BY <4>1 DEF Nodes
      <3>5. n - q[c].child + 1 = 1 \/ n - q[c].child + 1 = 2
        BY <3>1, <3>4
      <3> QED BY <3>2, <3>3, <3>5, ChildrenType
    <2>2. CASE ~ \E k \in DOMAIN q : n \in {q[k].child, q[k].child + 1}
      BY <2>2 DEF RunBatch
    <2> QED BY <2>1, <2>2
  <1>2. RunBatch(tree, q) = [n \in Nodes |-> RunBatch(tree, q)[n]]
    BY DEF RunBatch
  <1> QED BY <1>1, <1>2

\* In a queue of one level, the children of a job are the two nodes below it.
LEMMA JobChildren ==
  ASSUME NEW tree, NEW q, NEW l \in 0 .. LOG2T - 1, JobsOf(tree, q, l),
         NEW k \in DOMAIN q, NEW m \in Levels, NEW i \in 0 .. npl[m] - 1
  PROVE  /\ Node(m, i) \in {q[k].child, q[k].child + 1} <=>
              m = l + 1 /\ q[k] = JobOf(tree, l, i \div 2)
         /\ q[k].dsc = Node(m, i) => m = l /\ q[k] = JobOf(tree, l, i) /\ tree[Node(l, i)] \in Seed
         /\ m = l + 1 => (q[k] = JobOf(tree, l, i \div 2) <=> q[k].dsc = Node(l, i \div 2))
  <1>1. PICK j \in 0 .. Expanded(l) - 1 : tree[Node(l, j)] \in Seed /\ q[k] = JobOf(tree, l, j)
    BY DEF JobsOf
  <1>2. /\ l \in Levels /\ l + 1 \in Levels /\ j \in 0 .. npl[l] - 1
        /\ 2 * j \in 0 .. npl[l + 1] - 1 /\ 2 * j + 1 \in 0 .. npl[l + 1] - 1
        /\ Node(l + 1, 2 * j + 1) = Node(l + 1, 2 * j) + 1
    BY ChildNode
  <1>3. q[k].child = Node(l + 1, 2 * j) /\ q[k].child + 1 = Node(l + 1, 2 * j + 1)
        /\ q[k].dsc = Node(l, j)
    BY <1>1, <1>2 DEF JobOf
  <1>4. q[k].dsc = Node(m, i) => m = l /\ i = j
    <2>1. Node(l, j) = Node(m, i) <=> l = m /\ j = i
      BY <1>2, NodeOrder
    <2> QED BY <1>3, <2>1
  <1>5. Node(m, i) \in {q[k].child, q[k].child + 1} <=> m = l + 1 /\ (i = 2 * j \/ i = 2 * j + 1)
    <2>1. /\ Node(m, i) = Node(l + 1, 2 * j) <=> m = l + 1 /\ i = 2 * j
          /\ Node(m, i) = Node(l + 1, 2 * j + 1) <=> m = l + 1 /\ i = 2 * j + 1
      BY <1>2, NodeOrder
    <2> QED BY <1>3, <2>1
  <1>6. (i = 2 * j \/ i = 2 * j + 1) <=> i \div 2 = j
    BY <1>1, <1>2
  <1>7. ASSUME m = l + 1
        PROVE  /\ q[k] = JobOf(tree, l, i \div 2) => i \div 2 = j
               /\ q[k].dsc = Node(l, i \div 2) <=> i \div 2 = j
    <2>1. m \in 1 .. LOG2T /\ m - 1 = l
      BY <1>2, <1>7, LevelFacts
    <2>2. i \div 2 \in 0 .. Expanded(l) - 1
      BY <2>1, ParentNode
    <2>3. i \div 2 \in 0 .. npl[l] - 1
      BY <2>2, ChildNode
    <2>4. Node(l, j) = Node(l, i \div 2) <=> j = i \div 2
      BY <1>2, <2>3, NodeOrder
    <2>5. q[k].dsc = Node(l, i \div 2) <=> i \div 2 = j
      BY <1>3, <2>4
    <2> QED BY <2>5 DEF JobOf
  <1> QED BY <1>1, <1>4, <1>5, <1>6, <1>7

\* Flushing a queue of one level fills the children of its nodes, and nothing
\* else.
LEMMA RunBatchValue ==
  ASSUME SeedAssumption, NEW tree \in [Nodes -> Memory], NEW q,
         NEW l \in 0 .. LOG2T - 1, JobsOf(tree, q, l)
  PROVE  /\ \A m \in Levels : \A i \in 0 .. npl[m] - 1 :
              ~(m = l + 1 /\ Queued(q, Node(l, i \div 2))) =>
                RunBatch(tree, q)[Node(m, i)] = tree[Node(m, i)]
         /\ \A j \in 0 .. Expanded(l) - 1 :
              Queued(q, Node(l, j)) => HoldsChildren(RunBatch(tree, q), l, j)
  <1>1. ASSUME NEW m \in Levels, NEW i \in 0 .. npl[m] - 1,
               ~(m = l + 1 /\ Queued(q, Node(l, i \div 2)))
        PROVE  RunBatch(tree, q)[Node(m, i)] = tree[Node(m, i)]
    <2>1. ~ \E k \in DOMAIN q : Node(m, i) \in {q[k].child, q[k].child + 1}
      BY <1>1, JobChildren DEF Queued
    <2> QED BY <2>1, NodeOrder DEF RunBatch
  <1>2. ASSUME NEW j \in 0 .. Expanded(l) - 1, Queued(q, Node(l, j))
        PROVE  HoldsChildren(RunBatch(tree, q), l, j)
    <2>1. /\ l \in Levels /\ l + 1 \in Levels /\ j \in 0 .. npl[l] - 1
          /\ 2 * j \in 0 .. npl[l + 1] - 1 /\ 2 * j + 1 \in 0 .. npl[l + 1] - 1
          /\ Node(l + 1, 2 * j + 1) = Node(l + 1, 2 * j) + 1
      BY ChildNode
    <2>2. PICK k \in DOMAIN q : q[k].dsc = Node(l, j)
      BY <1>2 DEF Queued
    <2>3. q[k] = JobOf(tree, l, j) /\ tree[Node(l, j)] \in Seed
      BY <2>1, <2>2, JobChildren
    <2>4. Children(JobOf(tree, l, j)) = Expand[<<tree[Node(l, j)], Node(l, j)>>]
      BY <2>3 DEF Children, JobOf, SeedAssumption
    <2>5. /\ Node(l, j) \in Nodes /\ Node(l + 1, 2 * j) \in Nodes
          /\ Node(l + 1, 2 * j + 1) \in Nodes
      BY <2>1, NodeOrder
    <2>6. ASSUME NEW i \in {2 * j, 2 * j + 1}
          PROVE  RunBatch(tree, q)[Node(l + 1, i)] =
                   Children(JobOf(tree, l, j))[Node(l + 1, i) - Node(l + 1, 2 * j) + 1]
      <3> DEFINE n == Node(l + 1, i)
                 c == CHOOSE h \in DOMAIN q : n \in {q[h].child, q[h].child + 1}
      <3>1. i \in 0 .. npl[l + 1] - 1 /\ i \div 2 = j /\ n \in Nodes
        BY <2>1, <2>5
      <3>2. n \in {q[k].child, q[k].child + 1}
        BY <2>1, <2>3, <3>1, JobChildren
      <3>3. c \in DOMAIN q /\ n \in {q[c].child, q[c].child + 1}
        BY <3>2
      <3>4. RunBatch(tree, q)[n] = Children(q[c])[n - q[c].child + 1]
        BY <3>1, <3>2 DEF RunBatch
      <3> HIDE DEF c
      <3>5. q[c] = JobOf(tree, l, j)
        BY <2>1, <3>1, <3>3, JobChildren
      <3>6. q[c].child = Node(l + 1, 2 * j)
        BY <3>5 DEF JobOf
      <3> QED BY <3>4, <3>5, <3>6
    <2>7. /\ Node(l + 1, 2 * j) - Node(l + 1, 2 * j) + 1 = 1
          /\ Node(l + 1, 2 * j + 1) - Node(l + 1, 2 * j) + 1 = 2
      BY <2>1, <2>5 DEF Nodes
    <2>8. RunBatch(tree, q)[Node(l, j)] = tree[Node(l, j)]
      <3>1. l # l + 1
        OBVIOUS
      <3> QED BY <1>1, <2>1, <3>1
    <2> QED BY <2>3, <2>4, <2>6, <2>7, <2>8 DEF HoldsChildren
  <1> QED BY <1>1, <1>2

-----------------------------------------------------------------------------
(* Positions and types *)

LEMMA PositionStep ==
  TypeOK /\ PositionInv /\ [Next]_vars =>
    PositionInv' /\ at' \in [level : Int, i : Int, start : Int]
  <1> SUFFICES ASSUME TypeOK, PositionInv, [Next]_vars
               PROVE  PositionInv' /\ at' \in [level : Int, i : Int, start : Int]
    OBVIOUS
  <1> USE DEF Computing, Scanning
  <1>1. CASE GenNode
    <2>1. pc = "gen_seed_tree" /\ pc' = pc /\ at.level < LOG2T /\ at' = Down(at, Expanded(at.level))
      BY <1>1 DEF GenNode
    <2> QED BY <2>1, GenPosition DEF PositionInv
  <1>2. CASE GenDone \/ PathDone \/ RebuildDone
    <2>1. pc' \in {"generated", "published", "rebuilt"} /\ at' = at
      BY <1>2 DEF GenDone, PathDone, RebuildDone
    <2> QED BY <2>1 DEF PositionInv, TypeOK
  <1>3. CASE CallRebuild \/ \E ch \in Challenges : Open(ch)
    <2>1. pc' \in {"seed_path_flags", "rebuild_flags"} /\ at' = FromLeaves
      BY <1>3 DEF CallRebuild, Open, StartFlags
    <2>2. LOG2T \in Nat \ {0} /\ LOG2T \in Levels /\ LevelStart[LOG2T] \in Nat
      BY LevelFacts
    <2> QED BY <2>1, <2>2, Starts DEF PositionInv
  <1>4. CASE FlagParent
    <2>1. pc' = pc /\ pc \in {"seed_path_flags", "rebuild_flags"}
      BY <1>4 DEF FlagParent
    <2> QED BY <1>4, <2>1, FlagPosition, UpPosition DEF PositionInv
  <1>5. CASE FlagsDone
    <2>1. pc' \in {"seed_path", "rebuild_tree"} /\ at' = [level |-> 1, i |-> 0, start |-> 1]
      BY <1>5, Starts DEF FlagsDone
    <2>2. at'.level = 1 /\ at'.i = 0 /\ at'.start = 1
          /\ at' \in [level : Int, i : Int, start : Int]
      BY <2>1
    <2>3. LOG2T \in Nat \ {0} /\ LevelStart[1] = 1 /\ 0 \in 0 .. npl[1] - 1
      BY Starts, LevelFacts
    <2> QED BY <2>1, <2>2, <2>3 DEF PositionInv
  <1>6. CASE ScanNode \/ RebuildNode
    <2>1. pc' = pc /\ pc \in {"seed_path", "rebuild_tree"} /\ at.level <= LOG2T
          /\ at' = Down(at, npl[at.level])
      BY <1>6 DEF ScanNode, RebuildNode
    <2> QED BY <2>1, ScanPosition DEF PositionInv
  <1>7. CASE UNCHANGED vars
    BY <1>7 DEF vars, PositionInv, TypeOK
  <1> QED BY <1>1, <1>2, <1>3, <1>4, <1>5, <1>6, <1>7 DEF Next, Steps

\* What rebuild_tree places and queues at a node.
Placed == IF Published THEN [rebuilt_tree EXCEPT ![Current(at)] = StoredSeed(nodes_used)]
                       ELSE rebuilt_tree
Joined == IF flags[Current(at)] = TO_PUBLISH /\ at.i < Expanded(at.level)
            THEN Append(queue, Job(Placed)) ELSE queue

\* What a node of gen_seed_tree hands to the queue.
LEMMA GenQueueing ==
  ASSUME TypeOK, PositionInv, GenNode
  PROVE  /\ Append(queue, Job(seed_tree)) \in Seq(Jobs)
         /\ Job(seed_tree) = JobOf(seed_tree, at.level, at.i)
  <1>1. /\ at.level \in 0 .. LOG2T - 1 /\ at.i \in 0 .. Expanded(at.level) - 1
        /\ Current(at) = Node(at.level, at.i)
    BY GenPosition DEF GenNode
  <1>2. Job(seed_tree) = JobOf(seed_tree, at.level, at.i) /\ Job(seed_tree) \in Jobs
    BY <1>1, JobValue DEF TypeOK
  <1> QED BY <1>2 DEF TypeOK

\* What a node of rebuild_tree hands to the queue.
LEMMA RebuildQueueing ==
  ASSUME TypeOK, PositionInv, RebuildNode
  PROVE  /\ Placed \in [Nodes -> Memory]
         /\ Joined \in Seq(Jobs)
         /\ at.i < Expanded(at.level) => /\ at.level \in 0 .. LOG2T - 1
                                         /\ at.i \in 0 .. Expanded(at.level) - 1
                                         /\ Job(Placed) = JobOf(Placed, at.level, at.i)
                                         /\ Job(Placed) \in Jobs
  <1>1. /\ at.level \in 1 .. LOG2T /\ at.level \in Levels /\ at.i \in 0 .. npl[at.level] - 1
        /\ Current(at) = Node(at.level, at.i)
    BY ScanPosition DEF RebuildNode, Scanning
  <1>2. StoredSeed(nodes_used) \in Memory
    BY DEF StoredSeed, TypeOK, Memory
  <1>3. Placed \in [Nodes -> Memory]
    BY <1>2 DEF Placed, TypeOK
  <1>4. ASSUME at.i < Expanded(at.level)
        PROVE  at.level \in 0 .. LOG2T - 1 /\ at.i \in 0 .. Expanded(at.level) - 1
    <2>1. /\ Expanded(at.level) \in Nat /\ npl[at.level] \in Nat /\ LOG2T \in Nat
          /\ Expanded(LOG2T) = 0
      BY <1>1, LevelFacts
    <2>2. at.i \in Nat
      BY <1>1, <2>1
    <2>3. at.level # LOG2T
      BY <1>4, <2>1, <2>2
    <2> QED BY <1>1, <1>4, <2>1, <2>2, <2>3
  <1>5. at.i < Expanded(at.level) =>
          Job(Placed) = JobOf(Placed, at.level, at.i) /\ Job(Placed) \in Jobs
    BY <1>1, <1>3, <1>4, JobValue
  <1>6. Joined \in Seq(Jobs)
    BY <1>5 DEF Joined, TypeOK
  <1> QED BY <1>3, <1>4, <1>5, <1>6

LEMMA RebuildNodeStep ==
  RebuildNode =>
    /\ pc = "rebuild_tree" /\ pc' = pc /\ Scanning /\ Batching /\ at.level <= LOG2T
    /\ rebuilt_tree' = IF Flush(Joined) THEN RunBatch(Placed, Joined) ELSE Placed
    /\ queue' = IF Flush(Joined) THEN <<>> ELSE Joined
    /\ nodes_used' = IF Published THEN nodes_used + 1 ELSE nodes_used
    /\ at' = Down(at, npl[at.level])
  BY DEF RebuildNode, Placed, Joined, Scanning, Batching

LEMMA TypeStep ==
  SeedAssumption /\ TypeOK /\ PositionInv /\ [Next]_vars => TypeOK'
  <1> SUFFICES ASSUME SeedAssumption, TypeOK, PositionInv, [Next]_vars PROVE TypeOK'
    OBVIOUS
  <1>0. at' \in [level : Int, i : Int, start : Int]
    BY PositionStep
  <1> USE <1>0
  <1>1. CASE GenNode
    <2>1. Append(queue, Job(seed_tree)) \in Seq(Jobs) /\ <<>> \in Seq(Jobs)
      BY <1>1, GenQueueing
    <2>2. RunBatch(seed_tree, Append(queue, Job(seed_tree))) \in [Nodes -> Memory]
      BY <2>1, RunBatchType DEF TypeOK
    <2>3. queue' \in Seq(Jobs) /\ seed_tree' \in [Nodes -> Memory]
      BY <1>1, <2>1, <2>2 DEF GenNode, TypeOK
    <2> QED BY <1>1, <2>3 DEF GenNode, TypeOK, labels, stored, verifier
  <1>2. CASE GenDone
    BY <1>2 DEF GenDone, TypeOK, labels, stored, verifier
  <1>3. ASSUME NEW ch \in [Rounds -> Labels], StartFlags(ch) PROVE flags' \in [Nodes -> Labels]
    <2>1. [n \in Nodes |-> NOT_TO_PUBLISH] \in [Nodes -> Labels]
      BY DEF Labels
    <2> QED BY <1>3, <2>1, LeafValues DEF StartFlags
  <1>4. ASSUME NEW ch \in Challenges, Open(ch) PROVE TypeOK'
    <2>1. ch \in [Rounds -> Labels]
      BY FixedWeightAssumption DEF Labels, TO_PUBLISH, NOT_TO_PUBLISH
    <2>2. flags' \in [Nodes -> Labels] /\ indices_to_publish' \in [Rounds -> Labels]
      BY <1>3, <1>4, <2>1 DEF Open
    <2> QED BY <1>4, <2>2 DEF Open, TypeOK, signer, stored, verifier
  <1>5. CASE FlagParent
    <2>1. flags' \in [Nodes -> Labels]
      BY <1>5 DEF FlagParent, TypeOK, Labels
    <2> QED BY <1>5, <2>1 DEF FlagParent, TypeOK, signer, stored, verifier
  <1>6. CASE FlagsDone
    BY <1>6 DEF FlagsDone, TypeOK, signer, labels, stored, verifier
  <1>7. CASE ScanNode
    <2>1. Current(at) \in Nodes
      <3>1. Current(at) \in 1 .. 2 * T - 2
        BY <1>7, ScanPosition DEF ScanNode, Scanning
      <3> QED BY <3>1 DEF Nodes
    <2>2. seed_tree[Current(at)] \in Memory
      BY <2>1 DEF TypeOK
    <2>3. path' \in [Slots -> Memory] /\ num_seeds_published' \in Nat /\ path_nodes' \in Seq(Nodes)
      <3>1. CASE Published
        <4>1. /\ path' = [path EXCEPT ![num_seeds_published] = seed_tree[Current(at)]]
              /\ num_seeds_published' = num_seeds_published + 1
              /\ path_nodes' = Append(path_nodes, Current(at))
          BY <1>7, <3>1 DEF ScanNode
        <4>2. path \in [Slots -> Memory] /\ num_seeds_published \in Nat /\ path_nodes \in Seq(Nodes)
          BY DEF TypeOK
        <4>3. path' \in [Slots -> Memory]
          BY ONLY <2>2, <4>1, <4>2
        <4>4. path_nodes' \in Seq(Nodes)
          BY ONLY <2>1, <4>1, <4>2
        <4> QED BY <4>1, <4>2, <4>3, <4>4
      <3>2. CASE ~Published
        BY <1>7, <3>2 DEF ScanNode, TypeOK, stored
      <3> QED BY <3>1, <3>2
    <2> QED BY <1>7, <2>3 DEF ScanNode, TypeOK, signer, labels, verifier
  <1>8. CASE PathDone
    BY <1>8 DEF PathDone, TypeOK, signer, labels, stored, verifier
  <1>9. CASE CallRebuild
    <2>1. flags' \in [Nodes -> Labels]
      BY <1>3, <1>9 DEF CallRebuild, TypeOK
    <2> QED BY <1>9, <2>1 DEF CallRebuild, TypeOK, signer, stored, verifier
  <1>10. CASE RebuildNode
    <2>1. Placed \in [Nodes -> Memory] /\ Joined \in Seq(Jobs)
      BY <1>10, RebuildQueueing
    <2>2. RunBatch(Placed, Joined) \in [Nodes -> Memory]
      BY <2>1, RunBatchType
    <2>3. queue' \in Seq(Jobs) /\ rebuilt_tree' \in [Nodes -> Memory]
      <3>1. <<>> \in Seq(Jobs)
        OBVIOUS
      <3> QED BY <1>10, <2>1, <2>2, <3>1, RebuildNodeStep
    <2>4. nodes_used' \in Nat
      BY <1>10 DEF RebuildNode, TypeOK
    <2> QED BY <1>10, <2>3, <2>4 DEF RebuildNode, TypeOK, signer, labels, stored
  <1>11. CASE RebuildDone
    BY <1>11 DEF RebuildDone, TypeOK, signer, labels, stored
  <1>12. CASE UNCHANGED vars
    BY <1>12 DEF vars, signer, labels, stored, verifier, TypeOK
  <1> QED BY <1>1, <1>2, <1>4, <1>5, <1>6, <1>7, <1>8, <1>9, <1>10, <1>11, <1>12
          DEF Next, Steps

-----------------------------------------------------------------------------
(* The signer's tree *)

\* A node whose parent holds its children has a seed.
LEMMA HasSeed ==
  ASSUME SeedAssumption, NEW tree, NEW l \in 1 .. LOG2T, NEW i \in 0 .. npl[l] - 1,
         HoldsChildren(tree, l - 1, i \div 2)
  PROVE  tree[Node(l, i)] \in Seed
  <1>1. /\ l - 1 \in 0 .. LOG2T - 1 /\ i \div 2 \in 0 .. Expanded(l - 1) - 1
        /\ i = 2 * (i \div 2) \/ i = 2 * (i \div 2) + 1
    BY ParentNode
  <1>2. l - 1 \in Levels /\ i \div 2 \in 0 .. npl[l - 1] - 1 /\ (l - 1) + 1 = l
    BY <1>1, ChildNode
  <1>3. <<tree[Node(l - 1, i \div 2)], Node(l - 1, i \div 2)>> \in Seed \X Nodes
    BY <1>2, NodeOrder DEF HoldsChildren
  <1>4. Expand[<<tree[Node(l - 1, i \div 2)], Node(l - 1, i \div 2)>>] \in Seed \X Seed
    BY <1>3 DEF SeedAssumption
  <1>5. /\ tree[Node(l, 2 * (i \div 2))] \in Seed
        /\ tree[Node(l, 2 * (i \div 2) + 1)] \in Seed
    BY <1>2, <1>4 DEF HoldsChildren
  <1> QED BY <1>1, <1>5

\* Appending a node's job to a queue queues that node.
LEMMA AppendJob ==
  ASSUME NEW tree, NEW q \in Seq(Jobs), NEW job \in Jobs,
         NEW l \in 0 .. LOG2T - 1, NEW j \in 0 .. Expanded(l) - 1
  PROVE  /\ DOMAIN Append(q, job) = 1 .. Len(q) + 1 /\ DOMAIN q = 1 .. Len(q) /\ Len(q) \in Nat
         /\ \A k \in DOMAIN q : Append(q, job)[k] = q[k]
         /\ Append(q, job)[Len(q) + 1] = job
         /\ \A n : Queued(Append(q, job), n) <=> Queued(q, n) \/ n = job.dsc
         /\ JobsOf(tree, q, l) /\ job = JobOf(tree, l, j) /\ tree[Node(l, j)] \in Seed =>
              JobsOf(tree, Append(q, job), l)
  <1>1. /\ DOMAIN Append(q, job) = 1 .. Len(q) + 1 /\ DOMAIN q = 1 .. Len(q) /\ Len(q) \in Nat
        /\ \A k \in DOMAIN q : Append(q, job)[k] = q[k]
        /\ Append(q, job)[Len(q) + 1] = job
    OBVIOUS
  <1>2. \A k \in 1 .. Len(q) + 1 : k \in 1 .. Len(q) \/ k = Len(q) + 1
    BY <1>1
  <1>3. Len(q) + 1 \in 1 .. Len(q) + 1 /\ \A k \in 1 .. Len(q) : k \in 1 .. Len(q) + 1
    BY <1>1
  <1>4. ASSUME NEW n PROVE Queued(Append(q, job), n) <=> Queued(q, n) \/ n = job.dsc
    BY <1>1, <1>2, <1>3 DEF Queued
  <1>5. ASSUME JobsOf(tree, q, l), job = JobOf(tree, l, j), tree[Node(l, j)] \in Seed
        PROVE  JobsOf(tree, Append(q, job), l)
    <2> SUFFICES ASSUME NEW k \in DOMAIN Append(q, job)
                 PROVE  \E h \in 0 .. Expanded(l) - 1 :
                          tree[Node(l, h)] \in Seed /\ Append(q, job)[k] = JobOf(tree, l, h)
      BY DEF JobsOf
    <2>1. CASE k \in DOMAIN q
      BY <1>1, <1>5, <2>1 DEF JobsOf
    <2>2. CASE k = Len(q) + 1
      BY <1>1, <1>5, <2>2
    <2> QED BY <1>1, <1>2, <2>1, <2>2
  <1> QED BY <1>1, <1>4, <1>5

\* A node of another level than the queue's is not in the queue.
LEMMA OtherLevel ==
  ASSUME NEW tree, NEW q, NEW l \in 0 .. LOG2T - 1, JobsOf(tree, q, l),
         NEW m \in Levels, NEW i \in 0 .. npl[m] - 1, Queued(q, Node(m, i))
  PROVE  m = l
  BY JobChildren DEF Queued

\* The queue as gen_seed_tree leaves it before it looks whether to flush it.
Generated == Append(queue, Job(seed_tree))

\* The node gen_seed_tree is at has a seed, since its parent has been expanded.
LEMMA GenSeed ==
  ASSUME SeedAssumption, TypeOK, PositionInv, QueueInv, BuildInv, GenNode
  PROVE  /\ seed_tree[Node(at.level, at.i)] \in Seed
         /\ JobsOf(seed_tree, queue, at.level)
         /\ JobsOf(seed_tree, Generated, at.level)
         /\ \A n : Queued(Generated, n) <=> Queued(queue, n) \/ n = Node(at.level, at.i)
  <1> DEFINE l == at.level
             i == at.i
             h == i \div 2
  <1>1. /\ pc = "gen_seed_tree" /\ l \in 0 .. LOG2T - 1 /\ i \in 0 .. Expanded(l) - 1
        /\ Current(at) = Node(l, i) /\ l < LOG2T
    BY GenPosition DEF GenNode
  <1>2. l \in Levels /\ i \in 0 .. npl[l] - 1 /\ Node(l, i) \in Nodes
    BY <1>1, ChildNode, NodeOrder
  <1>3. JobsOf(seed_tree, queue, l)
    BY <1>1 DEF QueueInv, Batching, BatchTree
  <1>4. seed_tree[Node(l, i)] \in Seed
    <2>1. CASE l = 0
      <3>1. Node(l, i) = 0
        BY <1>1, <2>1, LevelFacts DEF Node
      <3> QED BY <3>1 DEF BuildInv, SeedAssumption
    <2>2. CASE l # 0
      <3>1. l \in 1 .. LOG2T
        BY <1>1, <2>2, LevelFacts
      <3>2. l - 1 \in 0 .. LOG2T - 1 /\ h \in 0 .. Expanded(l - 1) - 1
        BY <1>2, <3>1, ParentNode
      <3>3. l - 1 \in Levels /\ h \in 0 .. npl[l - 1] - 1 /\ l - 1 < l /\ l - 1 # l
        <4>1. l - 1 \in Levels /\ h \in 0 .. npl[l - 1] - 1
          BY <3>2, ChildNode
        <4>2. l - 1 < l /\ l - 1 # l
          BY <3>1
        <4> QED BY <4>1, <4>2
      <3>4. Node(l - 1, h) < Node(l, i) /\ Node(l - 1, h) \in Nodes
        BY <1>2, <3>3, NodeOrder
      <3>5. ~(Node(l - 1, h) >= Current(at))
        BY <1>1, <1>2, <3>4 DEF Nodes
      <3>6. ~Queued(queue, Node(l - 1, h))
        BY <1>1, <1>3, <3>3, OtherLevel
      <3>7. HoldsChildren(seed_tree, l - 1, h)
        BY <3>2, <3>5, <3>6 DEF BuildInv
      <3> QED BY <1>2, <3>1, <3>7, HasSeed
    <2> QED BY <2>1, <2>2
  <1>5. Job(seed_tree) = JobOf(seed_tree, l, i) /\ Job(seed_tree) \in Jobs
    BY <1>1, JobValue DEF TypeOK
  <1>6. Job(seed_tree).dsc = Node(l, i) /\ queue \in Seq(Jobs)
    BY <1>5 DEF JobOf, TypeOK
  <1> QED BY <1>1, <1>3, <1>4, <1>5, <1>6, AppendJob DEF Generated

LEMMA GenNodeStep ==
  GenNode =>
    /\ pc = "gen_seed_tree" /\ pc' = pc /\ at.level < LOG2T /\ at' = Down(at, Expanded(at.level))
    /\ seed_tree' = IF Flush(Generated) THEN RunBatch(seed_tree, Generated) ELSE seed_tree
    /\ queue' = IF Flush(Generated) THEN <<>> ELSE Generated
    /\ UNCHANGED <<rebuilt_tree, nodes_used, path_nodes, flags, indices_to_publish, path,
                   num_seeds_published, round_seeds, rebuilt_seeds, padding_ok>>
  BY DEF GenNode, Generated, labels, stored, verifier

\* The expanded nodes before the next position are those up to this one.
LEMMA GenPassed ==
  ASSUME TypeOK, PositionInv, GenNode,
         NEW m \in 0 .. LOG2T - 1, NEW k \in 0 .. Expanded(m) - 1,
         ~(Node(m, k) >= Current(at'))
  PROVE  Node(m, k) < Current(at) \/ Node(m, k) = Current(at)
  <1> DEFINE l == at.level
             i == at.i
  <1>1. /\ l \in 0 .. LOG2T - 1 /\ i \in 0 .. Expanded(l) - 1 /\ Current(at) = Node(l, i)
        /\ \/ Current(at') = Current(at) + 1
           \/ i = Expanded(l) - 1 /\ Current(at') = LevelStart[l] + npl[l]
    BY GenPosition DEF GenNode
  <1>2. /\ l \in Levels /\ i \in 0 .. npl[l] - 1 /\ m \in Levels /\ k \in 0 .. npl[m] - 1
        /\ Node(l, i) \in Nodes /\ Node(m, k) \in Nodes
    BY <1>1, ChildNode, NodeOrder
  <1>3. CASE Current(at') = Current(at) + 1
    BY <1>1, <1>2, <1>3 DEF Nodes
  <1>4. CASE i = Expanded(l) - 1 /\ Current(at') = LevelStart[l] + npl[l]
    <2>1. m <= l
      <3>1. SUFFICES ASSUME l < m PROVE FALSE
        BY <1>1
      <3>2. LevelStart[l] + npl[l] <= LevelStart[m]
        BY <1>2, <3>1, LevelStartAssumption
      <3>3. LevelStart[l] \in Nat /\ LevelStart[m] \in Nat /\ npl[l] \in Nat /\ k \in Nat
        <4>1. LevelStart[l] \in Nat /\ LevelStart[m] \in Nat /\ npl[l] \in Nat /\ npl[m] \in Nat
          BY <1>2, LevelFacts
        <4> QED BY <1>2, <4>1
      <3>4. Node(m, k) >= LevelStart[l] + npl[l]
        BY <3>2, <3>3 DEF Node
      <3> QED BY <1>4, <3>4
    <2>2. CASE m < l
      BY <1>1, <1>2, <2>2, NodeOrder
    <2>3. CASE m = l
      <3>1. k < i \/ k = i
        BY <1>1, <1>4, <2>3
      <3> QED BY <1>1, <1>2, <2>3, <3>1, NodeOrder
    <2> QED BY <1>1, <2>1, <2>2, <2>3
  <1> QED BY <1>1, <1>3, <1>4

LEMMA BuildStep ==
  SeedAssumption /\ TypeOK /\ PositionInv /\ QueueInv /\ BuildInv /\ [Next]_vars => BuildInv'
  <1> SUFFICES ASSUME SeedAssumption, TypeOK, PositionInv, QueueInv, BuildInv, [Next]_vars
               PROVE  BuildInv'
    OBVIOUS
  <1>1. CASE GenNode
    <2> DEFINE l == at.level
               i == at.i
               q == Generated
    <2>1. /\ l \in 0 .. LOG2T - 1 /\ i \in 0 .. Expanded(l) - 1 /\ Current(at) = Node(l, i)
      BY <1>1, GenPosition DEF GenNode
    <2>2. /\ JobsOf(seed_tree, q, l)
          /\ \A n : Queued(q, n) <=> Queued(queue, n) \/ n = Node(l, i)
      BY <1>1, GenSeed
    <2>3. /\ l \in Levels /\ i \in 0 .. npl[l] - 1 /\ l + 1 \in Levels
      BY <2>1, ChildNode
    <2>4. /\ pc = "gen_seed_tree" /\ pc' = pc
          /\ seed_tree' = IF Flush(q) THEN RunBatch(seed_tree, q) ELSE seed_tree
          /\ queue' = IF Flush(q) THEN <<>> ELSE q
      BY <1>1, GenNodeStep
    <2> HIDE DEF q
    <2>5. /\ \A m \in Levels : \A k \in 0 .. npl[m] - 1 :
               ~(m = l + 1 /\ Queued(q, Node(l, k \div 2))) =>
                 seed_tree'[Node(m, k)] = seed_tree[Node(m, k)]
          /\ Flush(q) => \A k \in 0 .. Expanded(l) - 1 :
                           Queued(q, Node(l, k)) => HoldsChildren(seed_tree', l, k)
      <3>1. seed_tree \in [Nodes -> Memory]
        BY DEF TypeOK
      <3>2. CASE Flush(q)
        <4>1. seed_tree' = RunBatch(seed_tree, q)
          BY <2>4, <3>2
        <4> QED BY <2>1, <2>2, <3>1, <4>1, RunBatchValue
      <3>3. CASE ~Flush(q)
        BY <2>4, <3>3
      <3> QED BY <3>2, <3>3
    <2>6. seed_tree'[0] = RootSeed
      <3>1. 0 \in Levels /\ 0 \in 0 .. npl[0] - 1 /\ Node(0, 0) = 0 /\ 0 # l + 1
        BY <2>1, LevelFacts DEF Node
      <3> QED BY <2>5, <3>1 DEF BuildInv
    <2>7. ASSUME NEW m \in 0 .. LOG2T - 1, NEW k \in 0 .. Expanded(m) - 1,
                 ~(Node(m, k) >= Current(at')), ~Queued(queue', Node(m, k))
          PROVE  HoldsChildren(seed_tree', m, k)
      <3>1. /\ m \in Levels /\ m + 1 \in Levels /\ k \in 0 .. npl[m] - 1
            /\ 2 * k \in 0 .. npl[m + 1] - 1 /\ 2 * k + 1 \in 0 .. npl[m + 1] - 1
            /\ (2 * k) \div 2 = k /\ (2 * k + 1) \div 2 = k
            /\ Node(m, k) \in Nodes /\ Node(l, i) \in Nodes
        BY <2>3, ChildNode, NodeOrder
      <3>2. Node(m, k) < Current(at) \/ Node(m, k) = Current(at)
        BY <1>1, <2>7, GenPassed
      <3>3. CASE Flush(q) /\ Queued(q, Node(m, k))
        <4>1. m = l
          BY <2>1, <2>2, <3>1, <3>3, OtherLevel
        <4> QED BY <2>5, <3>3, <4>1
      <3>4. CASE ~Queued(q, Node(m, k))
        <4>1. ~Queued(queue, Node(m, k)) /\ Node(m, k) # Node(l, i)
          BY <2>2, <3>4
        <4>2. Node(m, k) < Current(at) /\ ~(Node(m, k) >= Current(at))
          BY <2>1, <3>1, <3>2, <4>1 DEF Nodes
        <4>3. HoldsChildren(seed_tree, m, k)
          BY <4>1, <4>2 DEF BuildInv
        <4>4. m # l + 1
          <5>1. ~(l < m)
            BY <2>1, <2>3, <3>1, <4>2, NodeOrder
          <5> QED BY <2>1, <5>1
        <4>5. ~(m + 1 = l + 1 /\ Queued(q, Node(l, k)))
          <5>1. m + 1 = l + 1 => m = l
            BY <2>1
          <5> QED BY <3>4, <5>1
        <4>6. /\ seed_tree'[Node(m, k)] = seed_tree[Node(m, k)]
              /\ seed_tree'[Node(m + 1, 2 * k)] = seed_tree[Node(m + 1, 2 * k)]
              /\ seed_tree'[Node(m + 1, 2 * k + 1)] = seed_tree[Node(m + 1, 2 * k + 1)]
          BY <2>5, <3>1, <4>4, <4>5
        <4> QED BY <4>3, <4>6 DEF HoldsChildren
      <3>5. Flush(q) \/ ~Queued(q, Node(m, k))
        BY <2>4, <2>7
      <3> QED BY <3>3, <3>4, <3>5
    <2> QED BY <2>4, <2>6, <2>7 DEF BuildInv, HoldsChildren, Queued
  <1>2. CASE GenDone
    <2>1. /\ pc = "gen_seed_tree" /\ pc' # "gen_seed_tree" /\ seed_tree' = seed_tree
          /\ round_seeds' = seed_leaves(seed_tree) /\ at.level = LOG2T
      BY <1>2 DEF GenDone
    <2>2. queue = <<>> /\ Current(at) = Node(LOG2T, 0) /\ LOG2T \in Levels
          /\ 0 \in 0 .. npl[LOG2T] - 1
      BY <2>1, LevelFacts DEF QueueInv, Batching, PositionInv, Current, Node
    <2>3. ASSUME NEW m \in 0 .. LOG2T - 1, NEW k \in 0 .. Expanded(m) - 1
          PROVE  HoldsChildren(seed_tree, m, k)
      <3>1. m \in Levels /\ k \in 0 .. npl[m] - 1 /\ m < LOG2T
        BY ChildNode, LevelFacts
      <3>2. Node(m, k) < Node(LOG2T, 0) /\ Node(m, k) \in Nodes /\ Node(LOG2T, 0) \in Nodes
        BY <2>2, <3>1, NodeOrder
      <3>3. ~(Node(m, k) >= Current(at)) /\ ~Queued(queue, Node(m, k))
        BY <2>2, <3>2 DEF Nodes, Queued
      <3> QED BY <3>3 DEF BuildInv
    <2> QED BY <2>1, <2>3 DEF BuildInv, HoldsChildren, seed_leaves
  <1>3. CASE \/ FlagParent \/ FlagsDone \/ ScanNode \/ PathDone \/ RebuildNode \/ RebuildDone
             \/ CallRebuild \/ \E ch \in Challenges : Open(ch)
    <2>1. pc # "gen_seed_tree" /\ pc' # "gen_seed_tree" /\ UNCHANGED <<seed_tree, round_seeds>>
      BY <1>3 DEF FlagParent, FlagsDone, ScanNode, PathDone, RebuildNode, RebuildDone,
                  CallRebuild, Open, signer
    <2> QED BY <2>1 DEF BuildInv, HoldsChildren, seed_leaves
  <1>4. CASE UNCHANGED vars
    BY <1>4 DEF vars, signer, BuildInv, HoldsChildren, seed_leaves, Queued
  <1> QED BY <1>1, <1>2, <1>3, <1>4 DEF Next, Steps

-----------------------------------------------------------------------------
(* The labels *)

\* compute_seeds_to_publish starts at the last pair of siblings of the tree,
\* with the leaves labelled as the challenge says.
LEMMA StartLabels ==
  ASSUME NEW ch \in Challenges, StartFlags(ch)
  PROVE  /\ \A r \in Rounds : flags'[LeafNode(r)] = ch[r]
         /\ \A l \in 0 .. LOG2T - 1 : \A i \in 0 .. Expanded(l) - 1 :
              ~(Node(l + 1, 2 * i) > Current(at'))
         /\ Current(at') = 2 * T - 3
  <1>1. /\ LevelStart[LOG2T] + npl[LOG2T] = 2 * T - 1 /\ T \in Nat /\ npl[LOG2T] \in Nat
        /\ LevelStart[LOG2T] \in Nat
    BY LevelFacts
  <1>2. Current(at') = 2 * T - 3
    BY <1>1, Starts DEF StartFlags, Current
  <1>3. ASSUME NEW l \in 0 .. LOG2T - 1, NEW i \in 0 .. Expanded(l) - 1
        PROVE  ~(Node(l + 1, 2 * i) > Current(at'))
    <2>1. /\ l + 1 \in Levels /\ 2 * i \in 0 .. npl[l + 1] - 1 /\ 2 * i + 1 \in 0 .. npl[l + 1] - 1
          /\ Node(l + 1, 2 * i + 1) = Node(l + 1, 2 * i) + 1
      BY ChildNode
    <2>2. Node(l + 1, 2 * i) \in Nodes /\ Node(l + 1, 2 * i + 1) \in Nodes
      BY <2>1, NodeOrder
    <2> QED BY <1>1, <1>2, <2>1, <2>2 DEF Nodes
  <1>4. \A r \in Rounds : flags'[LeafNode(r)] = ch[r]
    <2>1. [n \in Nodes |-> NOT_TO_PUBLISH] \in [Nodes -> Labels] /\ ch \in [Rounds -> Labels]
      BY FixedWeightAssumption DEF Labels, TO_PUBLISH, NOT_TO_PUBLISH
    <2>2. flags' = WithLeaves([n \in Nodes |-> NOT_TO_PUBLISH], ch)
      BY DEF StartFlags
    <2> QED BY <2>1, <2>2, LeafValues
  <1> QED BY <1>2, <1>3, <1>4

\* What one iteration of compute_seeds_to_publish does to the labels.
LEMMA ParentLabel ==
  ASSUME TypeOK, PositionInv, FlagParent
  PROVE  /\ LabelOK(flags', at.level - 1, at.i \div 2)
         /\ \A m \in Levels : \A k \in 0 .. npl[m] - 1 :
              ~(m = at.level - 1 /\ k = at.i \div 2) => flags'[Node(m, k)] = flags[Node(m, k)]
  <1> DEFINE l == at.level
             j == at.i \div 2
  <1>1. /\ l \in 1 .. LOG2T /\ l \in Levels /\ l - 1 \in 0 .. LOG2T - 1
        /\ at.i \in 0 .. npl[l] - 1 /\ at.i + 1 \in 0 .. npl[l] - 1
        /\ j \in 0 .. Expanded(l - 1) - 1 /\ at.i = 2 * j
        /\ Current(at) = Node(l, at.i) /\ SIBLING(Current(at)) = Node(l, at.i + 1)
        /\ ParentOf(at) = Node(l - 1, j)
    BY FlagPosition, UpPosition
  <1>2. j \in 0 .. npl[l - 1] - 1 /\ (l - 1) + 1 = l /\ l - 1 \in Levels /\ l # l - 1
    <2>1. j \in 0 .. npl[l - 1] - 1 /\ l - 1 \in Levels
      BY <1>1, ChildNode
    <2>2. (l - 1) + 1 = l /\ l # l - 1
      BY <1>1
    <2> QED BY <2>1, <2>2
  <1>3. Node(l - 1, j) \in Nodes
    BY <1>2, NodeOrder
  <1>4. flags' = [flags EXCEPT ![Node(l - 1, j)] =
                    IF /\ flags[Node(l, 2 * j)] = TO_PUBLISH
                       /\ flags[Node(l, 2 * j + 1)] = TO_PUBLISH
                      THEN TO_PUBLISH ELSE NOT_TO_PUBLISH]
    BY <1>1 DEF FlagParent, BothToPublish
  <1>5. ASSUME NEW m \in Levels, NEW k \in 0 .. npl[m] - 1, ~(m = l - 1 /\ k = j)
        PROVE  flags'[Node(m, k)] = flags[Node(m, k)]
    <2>1. Node(m, k) # Node(l - 1, j) /\ Node(m, k) \in Nodes
      BY <1>2, <1>5, NodeOrder
    <2> QED BY <1>4, <2>1 DEF TypeOK
  <1>6. /\ flags'[Node(l, 2 * j)] = flags[Node(l, 2 * j)]
        /\ flags'[Node(l, 2 * j + 1)] = flags[Node(l, 2 * j + 1)]
    BY <1>1, <1>2, <1>5
  <1>7. flags'[Node(l - 1, j)] = TO_PUBLISH <=>
          flags[Node(l, 2 * j)] = TO_PUBLISH /\ flags[Node(l, 2 * j + 1)] = TO_PUBLISH
    BY <1>3, <1>4 DEF TypeOK, TO_PUBLISH, NOT_TO_PUBLISH
  <1> QED BY <1>2, <1>5, <1>6, <1>7 DEF LabelOK

LEMMA FlagsStep ==
  TypeOK /\ PositionInv /\ FlagsInv /\ [Next]_vars => FlagsInv'
  <1> SUFFICES ASSUME TypeOK, PositionInv, FlagsInv, [Next]_vars PROVE FlagsInv'
    OBVIOUS
  <1>1. CASE GenNode \/ GenDone
    <2>1. pc' \in {"gen_seed_tree", "generated"}
      BY <1>1 DEF GenNode, GenDone
    <2> QED BY <2>1 DEF FlagsInv, Computing, Scanning
  <1>2. ASSUME NEW ch \in Challenges, StartFlags(ch), indices_to_publish' = ch,
               pc' \in {"seed_path_flags", "rebuild_flags"}
        PROVE  FlagsInv'
    <2>1. Computing' /\ ~Scanning' /\ pc' \notin {"published", "rebuilt"}
      BY <1>2 DEF Computing, Scanning
    <2> QED BY <1>2, <2>1, StartLabels DEF FlagsInv, LeavesLabelled
  <1>3. CASE \E ch \in Challenges : Open(ch)
    BY <1>2, <1>3 DEF Open
  <1>4. CASE CallRebuild
    <2>1. indices_to_publish \in Challenges
      BY <1>4 DEF CallRebuild, FlagsInv
    <2> QED BY <1>2, <1>4, <2>1 DEF CallRebuild
  <1>5. CASE FlagParent
    <2> DEFINE h == at.level
               j == at.i \div 2
    <2>1. /\ Computing /\ Computing' /\ ~Scanning' /\ pc' = pc
          /\ pc \in {"seed_path_flags", "rebuild_flags"}
          /\ indices_to_publish' = indices_to_publish
      BY <1>5 DEF FlagParent, Computing, Scanning
    <2>2. /\ h - 1 \in 0 .. LOG2T - 1 /\ h \in Levels /\ j \in 0 .. Expanded(h - 1) - 1
          /\ Current(at) = Node(h, 2 * j) /\ 2 * j \in 0 .. npl[h] - 1 /\ h \in Int
          /\ Current(at) \in Nodes
      <3>1. /\ h - 1 \in 0 .. LOG2T - 1 /\ h \in Levels /\ j \in 0 .. Expanded(h - 1) - 1
            /\ at.i = 2 * j /\ Current(at) = Node(h, at.i) /\ at.i \in 0 .. npl[h] - 1
            /\ h \in 1 .. LOG2T
        BY <1>5, FlagPosition, UpPosition
      <3> QED BY <3>1, NodeOrder
    <2>3. \A r \in Rounds : flags'[LeafNode(r)] = indices_to_publish[r]
      <3> TAKE r \in Rounds
      <3>1. PICK m \in Levels : \E k \in 0 .. npl[m] - 1 :
              LeafNode(r) = Node(m, k) /\ k \notin 0 .. Expanded(m) - 1
        BY LeafPosition
      <3>2. PICK k \in 0 .. npl[m] - 1 : LeafNode(r) = Node(m, k) /\ k \notin 0 .. Expanded(m) - 1
        BY <3>1
      <3>3. ~(m = h - 1 /\ k = j)
        BY <2>2, <3>2
      <3>4. flags'[LeafNode(r)] = flags[LeafNode(r)]
        BY <1>5, <3>2, <3>3, ParentLabel
      <3>5. flags[LeafNode(r)] = indices_to_publish[r]
        BY <2>1 DEF FlagsInv, LeavesLabelled
      <3> QED BY <3>4, <3>5
    <2>4. ASSUME NEW l \in 0 .. LOG2T - 1, NEW i \in 0 .. Expanded(l) - 1,
                 Node(l + 1, 2 * i) > Current(at')
          PROVE  LabelOK(flags', l, i)
      <3>1. /\ l \in Levels /\ l + 1 \in Levels /\ i \in 0 .. npl[l] - 1
            /\ 2 * i \in 0 .. npl[l + 1] - 1 /\ 2 * i + 1 \in 0 .. npl[l + 1] - 1
        BY ChildNode
      <3>2. Node(l + 1, 2 * i) \in Nodes
        BY <3>1, NodeOrder
      <3>3. Node(l + 1, 2 * i) > Current(at) \/ (l = h - 1 /\ i = j)
        BY <1>5, <2>4, FlagPosition, UpPasses
      <3>4. CASE l = h - 1 /\ i = j
        BY <1>5, <3>4, ParentLabel
      <3>5. CASE Node(l + 1, 2 * i) > Current(at)
        <4>1. LabelOK(flags, l, i)
          BY <2>1, <3>5 DEF FlagsInv
        <4>2. ~(l = h - 1 /\ i = j)
          <5>1. l = h - 1 /\ i = j => Node(l + 1, 2 * i) = Current(at)
            BY <2>2
          <5> QED BY <2>2, <3>2, <3>5, <5>1 DEF Nodes
        <4>3. ~(l + 1 = h - 1)
          <5>1. SUFFICES ASSUME l + 1 = h - 1 PROVE FALSE
            OBVIOUS
          <5>2. l + 1 < h
            BY <2>2, <5>1
          <5>3. Node(l + 1, 2 * i) < Node(h, 2 * j)
            BY <2>2, <3>1, <5>2, NodeOrder
          <5> QED BY <2>2, <3>2, <3>5, <5>3 DEF Nodes
        <4>4. /\ flags'[Node(l, i)] = flags[Node(l, i)]
              /\ flags'[Node(l + 1, 2 * i)] = flags[Node(l + 1, 2 * i)]
              /\ flags'[Node(l + 1, 2 * i + 1)] = flags[Node(l + 1, 2 * i + 1)]
          BY <1>5, <3>1, <4>2, <4>3, ParentLabel
        <4> QED BY <4>1, <4>4 DEF LabelOK
      <3> QED BY <3>3, <3>4, <3>5
    <2>5. pc' \notin {"published", "rebuilt"} /\ indices_to_publish \in Challenges
      BY <2>1 DEF FlagsInv
    <2> QED BY <2>1, <2>3, <2>4, <2>5 DEF FlagsInv, LeavesLabelled
  <1>6. CASE FlagsDone
    <2>1. /\ Computing /\ Current(at) = -1 /\ UNCHANGED <<flags, indices_to_publish>>
          /\ pc' \in {"seed_path", "rebuild_tree"}
      <3>1. Computing /\ at.level = 0
        BY <1>6 DEF FlagsDone, Computing
      <3>2. at.start = 0 /\ at.i = -1
        BY <3>1, LevelFacts DEF PositionInv
      <3> QED BY <1>6, <3>1, <3>2 DEF FlagsDone, labels, Current
    <2>2. ASSUME NEW l \in 0 .. LOG2T - 1, NEW i \in 0 .. Expanded(l) - 1
          PROVE  LabelOK(flags, l, i)
      <3>1. Node(l + 1, 2 * i) \in Nodes
        BY ChildNode, NodeOrder
      <3>2. Node(l + 1, 2 * i) > Current(at)
        BY <2>1, <3>1 DEF Nodes
      <3> QED BY <2>1, <3>2 DEF FlagsInv
    <2>3. ~Computing' /\ indices_to_publish \in Challenges /\ LeavesLabelled(flags)
      BY <2>1 DEF Computing, FlagsInv
    <2> QED BY <2>1, <2>2, <2>3 DEF FlagsInv, Labelled, LeavesLabelled, LabelOK
  <1>7. CASE ScanNode \/ PathDone \/ RebuildNode \/ RebuildDone
    <2>1. /\ Scanning /\ UNCHANGED <<flags, indices_to_publish>>
          /\ pc' \in {"seed_path", "rebuild_tree", "published", "rebuilt"}
      BY <1>7 DEF ScanNode, PathDone, RebuildNode, RebuildDone, Scanning, labels
    <2>2. indices_to_publish \in Challenges /\ LeavesLabelled(flags) /\ Labelled(flags) /\ ~Computing'
      BY <2>1 DEF FlagsInv, Scanning, Computing
    <2> QED BY <2>1, <2>2 DEF FlagsInv, Labelled, LeavesLabelled, LabelOK
  <1>8. CASE UNCHANGED vars
    BY <1>8 DEF vars, labels, FlagsInv, Labelled, LeavesLabelled, LabelOK, Computing, Scanning
  <1> QED BY <1>1, <1>3, <1>4, <1>5, <1>6, <1>7, <1>8 DEF Next, Steps

-----------------------------------------------------------------------------
(* The published seeds *)

\* The node a scan is at is published exactly if it is Topmost in the tree.
LEMMA PublishedNode ==
  ASSUME TypeOK, PositionInv, Scanning, at.level <= LOG2T, at' = Down(at, npl[at.level])
  PROVE  Published <=> Topmost(flags, at.level, at.i)
  BY ScanPosition DEF Published, Topmost

\* The path of some labels is the path of others that agree with them.
LEMMA SamePath ==
  ASSUME NEW fl, NEW gl,
         \A l \in Levels : \A i \in 0 .. npl[l] - 1 : fl[Node(l, i)] = gl[Node(l, i)],
         PathOf(fl)
  PROVE  PathOf(gl)
  <1>1. ASSUME NEW l \in 1 .. LOG2T, NEW i \in 0 .. npl[l] - 1
        PROVE  Topmost(fl, l, i) <=> Topmost(gl, l, i)
    <2>1. l \in Levels /\ l - 1 \in 0 .. LOG2T - 1 /\ i \div 2 \in 0 .. Expanded(l - 1) - 1
      BY ParentNode
    <2>2. l - 1 \in Levels /\ i \div 2 \in 0 .. npl[l - 1] - 1
      BY <2>1, ChildNode
    <2> QED BY <2>1, <2>2 DEF Topmost
  <1>2. 0 \in Levels /\ 0 \in 0 .. npl[0] - 1 /\ Node(0, 0) = 0
    BY LevelFacts DEF Node
  <1>3. gl[0] = NOT_TO_PUBLISH
    BY <1>2 DEF PathOf
  <1>4. PathUpTo(fl, 2 * T - 1)
    BY DEF PathOf
  <1> QED BY <1>1, <1>3, <1>4 DEF PathOf, PathUpTo

\* No labels of a challenge, which keeps some round closed, reach the root: the
\* nodes below a labelled root are all labelled.
LEMMA RootNotPublished ==
  ASSUME TypeOK, FlagsInv, PathInv, pc = "seed_path", Current(at) = 2 * T - 1
  PROVE  flags[0] = NOT_TO_PUBLISH
  <1> SUFFICES ASSUME flags[0] # NOT_TO_PUBLISH PROVE FALSE
    OBVIOUS
  <1>1. flags[0] = TO_PUBLISH
    <2>1. 0 \in Nodes
      <3>1. T \in Nat /\ T >= 1
        BY LevelFacts
      <3> QED BY <3>1 DEF Nodes
    <2> QED BY <2>1 DEF TypeOK, Labels
  <1>2. indices_to_publish \in Challenges /\ LeavesLabelled(flags)
    BY DEF FlagsInv
  <1>3. PICK r \in Rounds : indices_to_publish[r] = NOT_TO_PUBLISH
    BY <1>2, FixedWeightAssumption DEF NOT_TO_PUBLISH
  <1>4. PICK l \in Levels : \E i \in 0 .. npl[l] - 1 :
          LeafNode(r) = Node(l, i) /\ l # 0 /\ Node(l, i) < 2 * T - 1
    BY LeafPosition
  <1>5. PICK i \in 0 .. npl[l] - 1 : LeafNode(r) = Node(l, i) /\ l # 0 /\ Node(l, i) < 2 * T - 1
    BY <1>4
  <1>6. l \in 1 .. LOG2T
    BY <1>5 DEF Levels
  <1>7. flags[Node(l, i)] = TO_PUBLISH
    BY <1>1, <1>5, <1>6 DEF PathInv
  <1> QED BY <1>2, <1>3, <1>5, <1>7 DEF LeavesLabelled, TO_PUBLISH, NOT_TO_PUBLISH

\* Below a labelled root every node is labelled as soon as its parent is.
LEMMA LabelledBelow ==
  ASSUME TypeOK, Labelled(flags), flags[0] = TO_PUBLISH,
         NEW l \in 1 .. LOG2T, NEW i \in 0 .. npl[l] - 1,
         \A m \in 1 .. LOG2T : \A k \in 0 .. npl[m] - 1 :
           Node(m, k) < Node(l, i) => flags[Node(m, k)] = TO_PUBLISH
  PROVE  flags[Node(l, i)] = TO_PUBLISH
  <1> DEFINE j == i \div 2
  <1>1. /\ l \in Levels /\ l - 1 \in 0 .. LOG2T - 1 /\ j \in 0 .. Expanded(l - 1) - 1
        /\ i = 2 * j \/ i = 2 * j + 1
    BY ParentNode
  <1>2. l - 1 \in Levels /\ j \in 0 .. npl[l - 1] - 1 /\ (l - 1) + 1 = l /\ l - 1 < l
    <2>1. l - 1 \in Levels /\ j \in 0 .. npl[l - 1] - 1
      BY <1>1, ChildNode
    <2> QED BY <2>1
  <1>3. flags[Node(l - 1, j)] = TO_PUBLISH
    <2>1. CASE l - 1 = 0
      <3>1. Node(l - 1, j) = 0
        BY <1>1, <2>1, LevelFacts DEF Node
      <3> QED BY <3>1
    <2>2. CASE l - 1 # 0
      <3>1. l - 1 \in 1 .. LOG2T
        BY <2>2, LevelFacts
      <3>2. Node(l - 1, j) < Node(l, i)
        BY <1>1, <1>2, NodeOrder
      <3> QED BY <1>2, <3>1, <3>2
    <2> QED BY <2>1, <2>2
  <1>4. LabelOK(flags, l - 1, j)
    BY <1>1 DEF Labelled
  <1> QED BY <1>1, <1>2, <1>3, <1>4 DEF LabelOK

\* Passing a node that is not published, the path has the published ones.
LEMMA PathPasses ==
  ASSUME TypeOK, NEW fl, NEW l \in 1 .. LOG2T, NEW i \in 0 .. npl[l] - 1,
         ~Topmost(fl, l, i), PathUpTo(fl, Node(l, i))
  PROVE  PathUpTo(fl, Node(l, i) + 1)
  <1> DEFINE n == Node(l, i)
  <1>1. n \in 1 .. 2 * T - 2 /\ l \in Levels
    BY NodeBelowRoot
  <1>2. ASSUME NEW k \in 1 .. Len(path_nodes) PROVE path_nodes[k] < n + 1
    <2>1. path_nodes[k] \in Nodes /\ path_nodes[k] < n
      BY DEF TypeOK, PathUpTo
    <2> QED BY <1>1, <2>1 DEF Nodes
  <1>3. ASSUME NEW m \in 1 .. LOG2T, NEW k \in 0 .. npl[m] - 1,
               Topmost(fl, m, k), Node(m, k) < n + 1
        PROVE  Node(m, k) < n
    <2>1. Node(m, k) \in 1 .. 2 * T - 2 /\ m \in Levels
      BY NodeBelowRoot
    <2>2. Node(m, k) # n
      BY <1>1, <1>3, <2>1, NodeOrder
    <2> QED BY <1>1, <1>3, <2>1, <2>2
  <1> QED BY <1>2, <1>3 DEF PathUpTo

\* Publishing a node extends the path by it.
LEMMA PathGrows ==
  ASSUME SeedAssumption, TypeOK, PathInv, Fits', pc = "seed_path", ScanNode, Published,
         NEW l \in 1 .. LOG2T, NEW i \in 0 .. npl[l] - 1, Current(at) = Node(l, i),
         Topmost(flags, l, i), PathUpTo(flags, Node(l, i))
  PROVE  /\ \A k \in 1 .. Len(path_nodes') :
              /\ \E m \in 1 .. LOG2T : \E h \in 0 .. npl[m] - 1 :
                   path_nodes'[k] = Node(m, h) /\ Topmost(flags, m, h)
              /\ path_nodes'[k] < Node(l, i) + 1
         /\ \A m \in 1 .. LOG2T : \A h \in 0 .. npl[m] - 1 :
              Topmost(flags, m, h) /\ Node(m, h) < Node(l, i) + 1 =>
                \E k \in 1 .. Len(path_nodes') : path_nodes'[k] = Node(m, h)
         /\ num_seeds_published' = Len(path_nodes')
         /\ \A k \in 1 .. Len(path_nodes') : path'[k - 1] = seed_tree[path_nodes'[k]]
         /\ \A k \in Slots : k >= num_seeds_published' => path'[k] = NoSeed
         /\ \A j, k \in 1 .. Len(path_nodes') : j < k => path_nodes'[j] < path_nodes'[k]
  <1> DEFINE n == Node(l, i)
             len == Len(path_nodes)
  <1>1. n \in 1 .. 2 * T - 2 /\ l \in Levels /\ n \in Nodes
    <2>1. n \in 1 .. 2 * T - 2 /\ l \in Levels
      BY NodeBelowRoot
    <2> QED BY <2>1 DEF Nodes
  <1>2. /\ path' = [path EXCEPT ![num_seeds_published] = seed_tree[n]]
        /\ num_seeds_published' = num_seeds_published + 1
        /\ path_nodes' = Append(path_nodes, n) /\ flags' = flags
    BY DEF ScanNode, labels
  <1>3. /\ path_nodes \in Seq(Nodes) /\ len \in Nat /\ num_seeds_published = len
        /\ path \in [Slots -> Memory]
    BY DEF TypeOK, PathInv
  <1>4. /\ len \in Slots /\ Slots \subseteq Nat /\ num_seeds_published \in Slots
        /\ \A k \in 1 .. len : k - 1 \in Slots
    <2>1. TREE_NODES_TO_STORE \in Nat
      BY DEF SeedAssumption
    <2>2. len + 1 <= TREE_NODES_TO_STORE
      BY <1>2, <1>3 DEF Fits
    <2> QED BY <1>3, <2>1, <2>2 DEF Slots
  <1>5. /\ Len(path_nodes') = len + 1
        /\ \A k \in 1 .. len : path_nodes'[k] = path_nodes[k]
        /\ path_nodes'[len + 1] = n
    BY <1>1, <1>2, <1>3
  <1>6. \A k \in 1 .. Len(path_nodes') : k \in 1 .. len \/ k = len + 1
    BY <1>3, <1>5
  <1>7. \A k \in 1 .. len : path_nodes[k] < n /\ path_nodes[k] \in Nodes
    BY <1>3 DEF PathUpTo
  <1>8. ASSUME NEW k \in 1 .. Len(path_nodes') PROVE path'[k - 1] = seed_tree[path_nodes'[k]]
    <2>1. CASE k \in 1 .. len
      <3>1. path[k - 1] = seed_tree[path_nodes[k]]
        BY <2>1 DEF PathInv
      <3>2. k - 1 # num_seeds_published
        BY <1>3, <2>1
      <3>3. k - 1 \in Slots
        BY <1>4, <2>1
      <3> QED BY <1>2, <1>3, <1>5, <2>1, <3>1, <3>2, <3>3
    <2>2. CASE k = len + 1
      <3>1. k - 1 = len
        BY <1>3, <2>2
      <3> QED BY <1>2, <1>3, <1>4, <1>5, <2>2, <3>1
    <2> QED BY <1>6, <2>1, <2>2
  <1>9. ASSUME NEW k \in Slots, k >= num_seeds_published' PROVE path'[k] = NoSeed
    <2>1. k # num_seeds_published /\ k >= num_seeds_published
      BY <1>2, <1>3, <1>4, <1>9
    <2> QED BY <1>2, <1>3, <2>1 DEF PathInv
  <1>10. ASSUME NEW j \in 1 .. Len(path_nodes'), NEW k \in 1 .. Len(path_nodes'), j < k
         PROVE  path_nodes'[j] < path_nodes'[k]
    <2>1. j \in 1 .. len
      BY <1>3, <1>5, <1>10
    <2>2. CASE k \in 1 .. len
      BY <1>5, <1>10, <2>1, <2>2 DEF PathInv
    <2>3. CASE k = len + 1
      BY <1>5, <1>7, <2>1, <2>3
    <2> QED BY <1>6, <2>2, <2>3
  <1>11. ASSUME NEW k \in 1 .. Len(path_nodes')
         PROVE  /\ \E m \in 1 .. LOG2T : \E h \in 0 .. npl[m] - 1 :
                     path_nodes'[k] = Node(m, h) /\ Topmost(flags, m, h)
                /\ path_nodes'[k] < n + 1
    <2>1. CASE k \in 1 .. len
      <3>1. path_nodes[k] < n + 1
        BY <1>1, <1>7, <2>1 DEF Nodes
      <3>2. \E m \in 1 .. LOG2T : \E h \in 0 .. npl[m] - 1 :
              path_nodes[k] = Node(m, h) /\ Topmost(flags, m, h)
        BY <2>1 DEF PathUpTo
      <3> QED BY <1>5, <2>1, <3>1, <3>2
    <2>2. CASE k = len + 1
      <3>1. n < n + 1
        BY <1>1
      <3> QED BY <1>5, <2>2, <3>1
    <2> QED BY <1>6, <2>1, <2>2
  <1>12. ASSUME NEW m \in 1 .. LOG2T, NEW h \in 0 .. npl[m] - 1,
                Topmost(flags, m, h), Node(m, h) < n + 1
         PROVE  \E k \in 1 .. Len(path_nodes') : path_nodes'[k] = Node(m, h)
    <2>1. Node(m, h) < n \/ Node(m, h) = n
      <3>1. Node(m, h) \in 1 .. 2 * T - 2
        BY NodeBelowRoot
      <3> QED BY <1>1, <1>12, <3>1
    <2>2. CASE Node(m, h) < n
      <3>1. PICK k \in 1 .. len : path_nodes[k] = Node(m, h)
        BY <1>12, <2>2 DEF PathUpTo
      <3>2. k \in 1 .. Len(path_nodes') /\ path_nodes'[k] = Node(m, h)
        BY <1>3, <1>5, <3>1
      <3> QED BY <3>2
    <2>3. CASE Node(m, h) = n
      <3>1. len + 1 \in 1 .. Len(path_nodes')
        BY <1>3, <1>5
      <3> QED BY <1>5, <2>3, <3>1
    <2> QED BY <2>1, <2>2, <2>3
  <1>13. num_seeds_published' = Len(path_nodes')
    BY <1>2, <1>3, <1>5
  <1> QED BY <1>8, <1>9, <1>10, <1>11, <1>12, <1>13

LEMMA PathStep ==
  /\ SeedAssumption /\ TypeOK /\ Fits' /\ PositionInv /\ BuildInv /\ FlagsInv /\ PathInv /\ AgreeInv
  /\ [Next]_vars
  => PathInv'
  <1> SUFFICES ASSUME SeedAssumption, TypeOK, Fits', PositionInv, BuildInv, FlagsInv, PathInv,
                      AgreeInv, [Next]_vars
               PROVE  PathInv'
    OBVIOUS
  <1>1. CASE GenNode \/ GenDone \/ \E ch \in Challenges : Open(ch)
    <2>1. /\ pc \in {"gen_seed_tree", "generated"}
          /\ pc' \in {"gen_seed_tree", "generated", "seed_path_flags"}
          /\ num_seeds_published' = num_seeds_published /\ path_nodes' = path_nodes /\ path' = path
      BY <1>1 DEF GenNode, GenDone, Open, stored
    <2>2. path_nodes = <<>> /\ num_seeds_published = Len(path_nodes)
          /\ \A k \in Slots : k >= num_seeds_published => path[k] = NoSeed
      BY <2>1 DEF PathInv
    <2> QED BY <2>1, <2>2 DEF PathInv
  <1>2. CASE FlagParent
    <2>1. /\ pc' = pc /\ pc \in {"seed_path_flags", "rebuild_flags"}
          /\ UNCHANGED <<path, num_seeds_published, path_nodes, seed_tree>>
      BY <1>2 DEF FlagParent, stored, signer
    <2> QED BY <2>1 DEF PathInv
  <1>3. CASE FlagsDone
    <2>1. /\ pc \in {"seed_path_flags", "rebuild_flags"} /\ at.level = 0 /\ Current(at') = 1
          /\ UNCHANGED <<path, num_seeds_published, path_nodes, seed_tree, flags>>
      BY <1>3, Starts DEF FlagsDone, stored, signer, labels, Current
    <2>2. CASE pc = "seed_path_flags"
      <3>1. pc' = "seed_path" /\ path_nodes = <<>>
        BY <1>3, <2>2 DEF FlagsDone, PathInv
      <3>2. \A l \in 1 .. LOG2T : \A i \in 0 .. npl[l] - 1 : ~(Node(l, i) < 1)
        BY NodeBelowRoot
      <3>3. PathUpTo(flags, 1)
        BY <3>1, <3>2 DEF PathUpTo
      <3> QED BY <2>1, <3>1, <3>2, <3>3 DEF PathInv, PathUpTo, Topmost
    <2>3. CASE pc = "rebuild_flags"
      <3>1. pc' = "rebuild_tree"
        BY <1>3, <2>3 DEF FlagsDone
      <3>2. Current(at) = -1
        <4>1. at.start = 0 /\ at.i = -1
          BY <2>1, <2>3, LevelFacts DEF PositionInv, Computing
        <4> QED BY <4>1 DEF Current
      <3>3. PICK fl \in [Nodes -> Labels] :
              /\ PathOf(fl)
              /\ \A l \in Levels : \A i \in 0 .. npl[l] - 1 :
                   l = LOG2T \/ i >= Expanded(l) \/ Node(l + 1, 2 * i) > Current(at) =>
                     flags[Node(l, i)] = fl[Node(l, i)]
        BY <2>3 DEF AgreeInv
      <3>4. ASSUME NEW l \in Levels, NEW i \in 0 .. npl[l] - 1
            PROVE  fl[Node(l, i)] = flags[Node(l, i)]
        <4>1. CASE l = LOG2T \/ i >= Expanded(l)
          BY <3>3, <4>1
        <4>2. CASE ~(l = LOG2T \/ i >= Expanded(l))
          <5>1. l \in 0 .. LOG2T - 1 /\ i \in 0 .. Expanded(l) - 1
            BY <4>2, InnerNode
          <5>2. Node(l + 1, 2 * i) \in Nodes
            BY <5>1, ChildNode, NodeOrder
          <5>3. Node(l + 1, 2 * i) > Current(at)
            BY <3>2, <5>2 DEF Nodes
          <5> QED BY <3>3, <5>3
        <4> QED BY <4>1, <4>2
      <3>5. PathOf(flags)
        BY <3>3, <3>4, SamePath
      <3> QED BY <2>1, <3>1, <3>5 DEF PathInv, PathOf, PathUpTo, Topmost
    <2> QED BY <2>1, <2>2, <2>3
  <1>4. CASE ScanNode
    <2> DEFINE n == Node(at.level, at.i)
    <2>1. /\ pc = "seed_path" /\ pc' = pc /\ Scanning /\ at.level <= LOG2T
          /\ at' = Down(at, npl[at.level]) /\ UNCHANGED <<flags, seed_tree>>
      BY <1>4 DEF ScanNode, Scanning, labels, signer
    <2>2. /\ at.level \in 1 .. LOG2T /\ at.i \in 0 .. npl[at.level] - 1
          /\ Current(at) = n /\ Current(at') = n + 1 /\ n \in 1 .. 2 * T - 2
      BY <2>1, ScanPosition
    <2>3. Published <=> Topmost(flags, at.level, at.i)
      BY <2>1, PublishedNode
    <2>4. PathUpTo(flags, n) /\ Labelled(flags)
      BY <2>1, <2>2 DEF PathInv, FlagsInv
    <2>5. ASSUME flags[0] = TO_PUBLISH, NEW l \in 1 .. LOG2T, NEW i \in 0 .. npl[l] - 1,
                 Node(l, i) < n + 1
          PROVE  flags[Node(l, i)] = TO_PUBLISH
      <3>1. \A m \in 1 .. LOG2T : \A k \in 0 .. npl[m] - 1 :
              Node(m, k) < n => flags[Node(m, k)] = TO_PUBLISH
        BY <2>1, <2>2, <2>5 DEF PathInv
      <3>2. CASE Node(l, i) < n
        BY <3>1, <3>2
      <3>3. CASE Node(l, i) = n
        BY <2>4, <2>5, <3>1, <3>3, LabelledBelow
      <3>4. Node(l, i) < n \/ Node(l, i) = n
        <4>1. Node(l, i) \in 1 .. 2 * T - 2
          BY NodeBelowRoot
        <4> QED BY <2>2, <2>5, <4>1
      <3> QED BY <3>2, <3>3, <3>4
    <2>6. CASE Published
      <3>1. /\ \A k \in 1 .. Len(path_nodes') :
                 /\ \E m \in 1 .. LOG2T : \E h \in 0 .. npl[m] - 1 :
                      path_nodes'[k] = Node(m, h) /\ Topmost(flags, m, h)
                 /\ path_nodes'[k] < n + 1
            /\ \A m \in 1 .. LOG2T : \A h \in 0 .. npl[m] - 1 :
                 Topmost(flags, m, h) /\ Node(m, h) < n + 1 =>
                   \E k \in 1 .. Len(path_nodes') : path_nodes'[k] = Node(m, h)
            /\ num_seeds_published' = Len(path_nodes')
            /\ \A k \in 1 .. Len(path_nodes') : path'[k - 1] = seed_tree[path_nodes'[k]]
            /\ \A k \in Slots : k >= num_seeds_published' => path'[k] = NoSeed
            /\ \A j, k \in 1 .. Len(path_nodes') : j < k => path_nodes'[j] < path_nodes'[k]
        BY <1>4, <2>1, <2>2, <2>3, <2>4, <2>6, PathGrows
      <3>2. PathUpTo(flags, Current(at))'
        BY <2>1, <2>2, <3>1 DEF PathUpTo, Topmost
      <3> QED BY <2>1, <2>2, <2>5, <3>1, <3>2 DEF PathInv
    <2>7. CASE ~Published
      <3>1. UNCHANGED <<path, num_seeds_published, path_nodes>>
        BY <1>4, <2>7 DEF ScanNode, stored
      <3>2. PathUpTo(flags, n + 1)
        BY <2>2, <2>3, <2>4, <2>7, PathPasses
      <3>3. PathUpTo(flags, Current(at))'
        BY <2>1, <2>2, <3>1, <3>2 DEF PathUpTo, Topmost
      <3>4. /\ num_seeds_published = Len(path_nodes)
            /\ \A k \in 1 .. Len(path_nodes) : path[k - 1] = seed_tree[path_nodes[k]]
            /\ \A k \in Slots : k >= num_seeds_published => path[k] = NoSeed
            /\ \A j, k \in 1 .. Len(path_nodes) : j < k => path_nodes[j] < path_nodes[k]
        BY DEF PathInv
      <3> QED BY <2>1, <2>2, <2>5, <3>1, <3>3, <3>4 DEF PathInv
    <2> QED BY <2>6, <2>7
  <1>5. CASE PathDone
    <2>1. /\ pc = "seed_path" /\ pc' = "published" /\ Current(at) = 2 * T - 1
          /\ UNCHANGED <<path, num_seeds_published, path_nodes, seed_tree, flags>>
      <3>1. at.level > LOG2T /\ pc = "seed_path"
        BY <1>5 DEF PathDone
      <3>2. at.i = 0 /\ at.start = 2 * T - 1 /\ T \in Nat
        BY <3>1, LevelFacts DEF PositionInv, Scanning
      <3> QED BY <1>5, <3>1, <3>2 DEF PathDone, Current, stored, signer, labels
    <2>2. flags[0] = NOT_TO_PUBLISH
      BY <2>1, RootNotPublished
    <2>3. PathUpTo(flags, 2 * T - 1)
      BY <2>1 DEF PathInv
    <2> QED BY <2>1, <2>2, <2>3 DEF PathInv, PathOf, PathUpTo, Topmost
  <1>6. CASE CallRebuild
    <2>1. /\ pc' = "rebuild_flags" /\ UNCHANGED <<path, num_seeds_published, path_nodes, seed_tree>>
      BY <1>6 DEF CallRebuild, stored, signer
    <2> QED BY <2>1 DEF PathInv
  <1>7. CASE RebuildNode \/ RebuildDone
    <2>1. /\ pc = "rebuild_tree" /\ pc' \in {"rebuild_tree", "rebuilt"}
          /\ UNCHANGED <<path, num_seeds_published, path_nodes, seed_tree, flags>>
      BY <1>7 DEF RebuildNode, RebuildDone, stored, signer, labels
    <2> QED BY <2>1 DEF PathInv, PathOf, PathUpTo, Topmost
  <1>8. CASE UNCHANGED vars
    BY <1>8 DEF vars, stored, signer, labels, PathInv, PathOf, PathUpTo, Topmost
  <1> QED BY <1>1, <1>2, <1>3, <1>4, <1>5, <1>6, <1>7, <1>8 DEF Next, Steps

-----------------------------------------------------------------------------
(* The verifier's labels *)

LEMMA AgreeStep ==
  TypeOK /\ TypeOK' /\ PositionInv /\ FlagsInv /\ PathInv /\ AgreeInv /\ [Next]_vars => AgreeInv'
  <1> SUFFICES ASSUME TypeOK, TypeOK', PositionInv, FlagsInv, PathInv, AgreeInv, [Next]_vars
               PROVE  AgreeInv'
    OBVIOUS
  <1>1. CASE CallRebuild
    <2>1. /\ pc = "published" /\ StartFlags(indices_to_publish)
          /\ UNCHANGED <<indices_to_publish, path_nodes>>
      BY <1>1 DEF CallRebuild, stored
    <2>2. /\ Labelled(flags) /\ PathOf(flags) /\ flags \in [Nodes -> Labels]
          /\ indices_to_publish \in Challenges /\ LeavesLabelled(flags)
      BY <2>1 DEF FlagsInv, PathInv, TypeOK
    <2>3. ASSUME NEW l \in Levels, NEW i \in 0 .. npl[l] - 1,
                 l = LOG2T \/ i >= Expanded(l) \/ Node(l + 1, 2 * i) > Current(at')
          PROVE  flags'[Node(l, i)] = flags[Node(l, i)]
      <3>1. l = LOG2T \/ i >= Expanded(l)
        <4>1. SUFFICES ASSUME ~(l = LOG2T \/ i >= Expanded(l)) PROVE FALSE
          OBVIOUS
        <4>2. l \in 0 .. LOG2T - 1 /\ i \in 0 .. Expanded(l) - 1
          BY <4>1, InnerNode
        <4> QED BY <2>1, <2>2, <2>3, <4>1, <4>2, StartLabels
      <3>2. PICK r \in Rounds : LeafNode(r) = Node(l, i)
        BY <3>1, LeafRound
      <3>3. flags'[LeafNode(r)] = indices_to_publish[r]
        BY <2>1, <2>2, StartLabels
      <3> QED BY <2>2, <3>2, <3>3 DEF LeavesLabelled
    <2>4. Labelled(flags) <=> /\ \A r \in Rounds : flags[LeafNode(r)] = indices_to_publish'[r]
                              /\ \A l \in 0 .. LOG2T - 1 : \A i \in 0 .. Expanded(l) - 1 :
                                   LabelOK(flags, l, i)
      BY <2>1 DEF Labelled, LeavesLabelled
    <2> QED BY <2>1, <2>2, <2>3, <2>4
            DEF AgreeInv, Labelled, LeavesLabelled, LabelOK, PathOf, PathUpTo, Topmost
  <1>2. CASE FlagParent /\ pc = "rebuild_flags"
    <2> DEFINE h == at.level
               j == at.i \div 2
    <2>1. /\ pc' = pc /\ UNCHANGED <<indices_to_publish, path_nodes>>
      BY <1>2 DEF FlagParent, stored
    <2>2. PICK fl \in [Nodes -> Labels] :
            /\ Labelled(fl) /\ PathOf(fl)
            /\ \A l \in Levels : \A i \in 0 .. npl[l] - 1 :
                 l = LOG2T \/ i >= Expanded(l) \/ Node(l + 1, 2 * i) > Current(at) =>
                   flags[Node(l, i)] = fl[Node(l, i)]
      BY <1>2 DEF AgreeInv
    <2>3. /\ h - 1 \in 0 .. LOG2T - 1 /\ h \in 1 .. LOG2T /\ h \in Levels
          /\ j \in 0 .. Expanded(h - 1) - 1 /\ at.i = 2 * j
          /\ Current(at) = Node(h, 2 * j)
          /\ 2 * j \in 0 .. npl[h] - 1 /\ 2 * j + 1 \in 0 .. npl[h] - 1
          /\ (h - 1) + 1 = h /\ h # h - 1
      <3>1. /\ h - 1 \in 0 .. LOG2T - 1 /\ h \in 1 .. LOG2T /\ h \in Levels
            /\ j \in 0 .. Expanded(h - 1) - 1 /\ at.i = 2 * j
            /\ Current(at) = Node(h, at.i) /\ at.i \in 0 .. npl[h] - 1 /\ at.i + 1 \in 0 .. npl[h] - 1
        BY <1>2, FlagPosition, UpPosition
      <3>2. (h - 1) + 1 = h /\ h # h - 1
        BY <3>1
      <3> QED BY <3>1, <3>2
    <2>4. ASSUME NEW i \in 0 .. npl[h] - 1, Node(h, i) >= Current(at)
          PROVE  flags'[Node(h, i)] = fl[Node(h, i)]
      <3>1. h = LOG2T \/ i >= Expanded(h) \/ Node(h + 1, 2 * i) > Current(at)
        <4>1. SUFFICES ASSUME ~(h = LOG2T \/ i >= Expanded(h)) PROVE Node(h + 1, 2 * i) > Current(at)
          OBVIOUS
        <4>2. h \in 0 .. LOG2T - 1 /\ i \in 0 .. Expanded(h) - 1
          BY <2>3, <4>1, InnerNode
        <4>3. Node(h, i) < Node(h + 1, 2 * i) /\ Node(h + 1, 2 * i) \in Nodes
          BY <4>2, ChildNode, NodeOrder
        <4>4. Node(h, i) \in Nodes /\ Current(at) \in Nodes
          BY <2>3, NodeOrder
        <4> QED BY <2>4, <4>3, <4>4 DEF Nodes
      <3> QED BY <1>2, <2>2, <2>3, <3>1, ParentLabel
    <2>5. /\ flags'[Node(h, 2 * j)] = fl[Node(h, 2 * j)]
          /\ flags'[Node(h, 2 * j + 1)] = fl[Node(h, 2 * j + 1)]
      <3>1. Node(h, 2 * j + 1) = Node(h, 2 * j) + 1
        BY <2>3, ChildNode
      <3>2. Node(h, 2 * j) \in Nodes
        BY <2>3, NodeOrder
      <3>3. Node(h, 2 * j) >= Current(at) /\ Node(h, 2 * j + 1) >= Current(at)
        BY <2>3, <3>1, <3>2 DEF Nodes
      <3> QED BY <2>3, <2>4, <3>3
    <2>6. flags'[Node(h - 1, j)] = fl[Node(h - 1, j)]
      <3>1. LabelOK(flags', h - 1, j)
        BY <1>2, ParentLabel
      <3>2. LabelOK(fl, h - 1, j)
        BY <2>2, <2>3 DEF Labelled
      <3>3. Node(h - 1, j) \in Nodes
        BY <2>3, ChildNode, NodeOrder
      <3>4. flags'[Node(h - 1, j)] \in Labels /\ fl[Node(h - 1, j)] \in Labels
        BY <3>3 DEF TypeOK
      <3> QED BY <2>3, <2>5, <3>1, <3>2, <3>4 DEF LabelOK, Labels
    <2>7. ASSUME NEW l \in Levels, NEW i \in 0 .. npl[l] - 1,
                 l = LOG2T \/ i >= Expanded(l) \/ Node(l + 1, 2 * i) > Current(at')
          PROVE  flags'[Node(l, i)] = fl[Node(l, i)]
      <3>1. CASE l = h - 1 /\ i = j
        BY <2>6, <3>1
      <3>2. CASE ~(l = h - 1 /\ i = j)
        <4>1. l = LOG2T \/ i >= Expanded(l) \/ Node(l + 1, 2 * i) > Current(at)
          <5>1. SUFFICES ASSUME ~(l = LOG2T \/ i >= Expanded(l)) PROVE Node(l + 1, 2 * i) > Current(at)
            OBVIOUS
          <5>2. l \in 0 .. LOG2T - 1 /\ i \in 0 .. Expanded(l) - 1
            BY <5>1, InnerNode
          <5> QED BY <1>2, <2>7, <3>2, <5>1, <5>2, FlagPosition, UpPasses
        <4> QED BY <1>2, <2>2, <3>2, <4>1, ParentLabel
      <3> QED BY <3>1, <3>2
    <2> QED BY <2>1, <2>2, <2>7
            DEF AgreeInv, Labelled, LeavesLabelled, LabelOK, PathOf, PathUpTo, Topmost
  <1>3. CASE ~CallRebuild /\ ~(FlagParent /\ pc = "rebuild_flags") /\ Next
    <2>1. pc' # "rebuild_flags"
      BY <1>3 DEF Next, Steps, GenNode, GenDone, FlagParent, FlagsDone, ScanNode, PathDone,
                  RebuildNode, RebuildDone, Open
    <2> QED BY <2>1 DEF AgreeInv
  <1>4. CASE UNCHANGED vars
    BY <1>4 DEF vars, labels, stored, AgreeInv, Labelled, LeavesLabelled, LabelOK, PathOf, PathUpTo,
                Topmost
  <1> QED BY <1>1, <1>2, <1>3, <1>4

-----------------------------------------------------------------------------
(* The verifier's tree *)

\* Once the signer's tree is built, every node of it has a seed.
LEMMA SignerSeeds ==
  ASSUME SeedAssumption, BuildInv, pc # "gen_seed_tree",
         NEW l \in 1 .. LOG2T, NEW i \in 0 .. npl[l] - 1
  PROVE  seed_tree[Node(l, i)] \in Seed
  <1>1. l - 1 \in 0 .. LOG2T - 1 /\ i \div 2 \in 0 .. Expanded(l - 1) - 1
    BY ParentNode
  <1>2. HoldsChildren(seed_tree, l - 1, i \div 2)
    BY <1>1 DEF BuildInv
  <1> QED BY <1>2, HasSeed

\* Arriving at a node seed_path published, the next unused seed is that node's;
\* passing a node keeps count.
LEMMA NextStoredSeed ==
  ASSUME SeedAssumption, TypeOK, Fits, PathInv, pc = "rebuild_tree",
         NEW l \in 1 .. LOG2T, NEW i \in 0 .. npl[l] - 1, UsedUpTo(Node(l, i))
  PROVE  /\ Topmost(flags, l, i) =>
              /\ StoredSeed(nodes_used) = seed_tree[Node(l, i)]
              /\ nodes_used + 1 <= Len(path_nodes)
              /\ \A k \in 1 .. Len(path_nodes) :
                   k <= nodes_used + 1 <=> path_nodes[k] < Node(l, i) + 1
         /\ ~Topmost(flags, l, i) =>
              \A k \in 1 .. Len(path_nodes) :
                k <= nodes_used <=> path_nodes[k] < Node(l, i) + 1
  <1> DEFINE n == Node(l, i)
             len == Len(path_nodes)
  <1>1. n \in 1 .. 2 * T - 2 /\ n \in Nat /\ l \in Levels
    BY NodeBelowRoot
  <1>2. /\ len \in Nat /\ nodes_used \in Nat /\ num_seeds_published = len
        /\ \A k \in 1 .. len : path_nodes[k] \in Nat
        /\ \A k \in 1 .. len : path[k - 1] = seed_tree[path_nodes[k]]
        /\ \A j, k \in 1 .. len : j < k => path_nodes[j] < path_nodes[k]
        /\ PathUpTo(flags, 2 * T - 1)
    <2>1. \A k \in 1 .. len : path_nodes[k] \in Nat
      <3>1. \A k \in 1 .. len : path_nodes[k] \in Nodes
        BY DEF TypeOK
      <3> QED BY <3>1 DEF Nodes
    <2> QED BY <2>1 DEF TypeOK, PathInv, PathOf
  <1>3. /\ nodes_used <= len
        /\ \A k \in 1 .. len : k <= nodes_used <=> path_nodes[k] < n
    BY DEF UsedUpTo
  <1>4. ASSUME Topmost(flags, l, i)
        PROVE  /\ StoredSeed(nodes_used) = seed_tree[n]
               /\ nodes_used + 1 <= len
               /\ \A k \in 1 .. len : k <= nodes_used + 1 <=> path_nodes[k] < n + 1
    <2>1. n < 2 * T - 1
      BY <1>1, LevelFacts
    <2>2. PICK k \in 1 .. len : path_nodes[k] = n
      BY <1>2, <1>4, <2>1 DEF PathUpTo
    <2>3. ~(k <= nodes_used)
      BY <1>1, <1>3, <2>2
    <2>4. nodes_used + 1 \in 1 .. len /\ ~(nodes_used + 1 <= nodes_used)
      BY <1>2, <2>3
    <2>5. ~(path_nodes[nodes_used + 1] < n)
      BY <1>3, <2>4
    <2>6. k = nodes_used + 1
      <3>1. ~(nodes_used + 1 < k)
        BY <1>2, <2>2, <2>4, <2>5
      <3> QED BY <1>2, <2>3, <3>1
    <2>7. StoredSeed(nodes_used) = seed_tree[n]
      <3>1. nodes_used \in Slots
        <4>1. nodes_used + 1 <= TREE_NODES_TO_STORE /\ TREE_NODES_TO_STORE \in Nat
          BY <1>2, <2>4 DEF Fits, SeedAssumption
        <4> QED BY <1>2, <4>1 DEF Slots
      <3>2. k - 1 = nodes_used
        BY <1>2, <2>6
      <3> QED BY <1>2, <2>2, <3>1, <3>2 DEF StoredSeed
    <2>8. ASSUME NEW m \in 1 .. len PROVE m <= nodes_used + 1 <=> path_nodes[m] < n + 1
      <3>1. m <= nodes_used \/ m = nodes_used + 1 \/ nodes_used + 1 < m
        BY <1>2
      <3>2. CASE m <= nodes_used
        BY <1>1, <1>2, <1>3, <3>2
      <3>3. CASE m = nodes_used + 1
        BY <1>1, <1>2, <2>2, <2>6, <3>3
      <3>4. CASE nodes_used + 1 < m
        <4>1. path_nodes[nodes_used + 1] < path_nodes[m]
          BY <1>2, <2>4, <3>4
        <4> QED BY <1>1, <1>2, <2>2, <2>6, <3>4, <4>1
      <3> QED BY <3>1, <3>2, <3>3, <3>4
    <2> QED BY <2>4, <2>7, <2>8, <1>2
  <1>5. ASSUME ~Topmost(flags, l, i), NEW k \in 1 .. len
        PROVE  k <= nodes_used <=> path_nodes[k] < n + 1
    <2>1. path_nodes[k] # n
      <3>1. PICK m \in 1 .. LOG2T : \E j \in 0 .. npl[m] - 1 :
              path_nodes[k] = Node(m, j) /\ Topmost(flags, m, j)
        BY <1>2 DEF PathUpTo
      <3>2. PICK j \in 0 .. npl[m] - 1 : path_nodes[k] = Node(m, j) /\ Topmost(flags, m, j)
        BY <3>1
      <3>3. m \in Levels
        BY <3>2, NodeBelowRoot
      <3> QED BY <1>1, <1>5, <3>2, <3>3, NodeOrder
    <2> QED BY <1>1, <1>2, <1>3, <2>1
  <1> QED BY <1>4, <1>5

\* Where rebuild_tree is, in the tree.
LEMMA RebuildPosition ==
  ASSUME TypeOK, PositionInv, RebuildNode
  PROVE  /\ at.level \in 1 .. LOG2T /\ at.level \in Levels /\ at.i \in 0 .. npl[at.level] - 1
         /\ at.level - 1 \in 0 .. LOG2T - 1 /\ at.level - 1 \in Levels
         /\ at.i \div 2 \in 0 .. npl[at.level - 1] - 1
         /\ Current(at) = Node(at.level, at.i) /\ Node(at.level, at.i) \in 1 .. 2 * T - 2
         /\ Current(at') = Node(at.level, at.i) + 1
         /\ Published <=> Topmost(flags, at.level, at.i)
         /\ Node(at.level - 1, at.i \div 2) < Node(at.level, at.i)
         /\ at.level # at.level - 1 /\ at.level > 0
  <1> DEFINE l == at.level
             i == at.i
  <1>1. Scanning /\ l <= LOG2T /\ at' = Down(at, npl[at.level])
    BY RebuildNodeStep
  <1>2. /\ l \in 1 .. LOG2T /\ l \in Levels /\ i \in 0 .. npl[l] - 1
        /\ l - 1 \in 0 .. LOG2T - 1 /\ l - 1 \in Levels
        /\ i \div 2 \in 0 .. npl[l - 1] - 1
        /\ Current(at) = Node(l, i) /\ Current(at) \in 1 .. 2 * T - 2
        /\ Current(at') = Current(at) + 1
    BY <1>1, ScanPosition
  <1>3. Published <=> Topmost(flags, l, i)
    BY <1>1, PublishedNode
  <1>4. l # l - 1 /\ l > 0 /\ l - 1 < l
    BY <1>2
  <1>5. Node(l - 1, i \div 2) < Node(l, i)
    BY <1>2, <1>4, NodeOrder
  <1> QED BY <1>2, <1>3, <1>4, <1>5

\* Once a node has been placed it holds its seed exactly if it is labelled: if
\* its parent is, it has left the queue before this level began.
LEMMA PlacedTree ==
  ASSUME SeedAssumption, TypeOK, Fits, PositionInv, QueueInv, PathInv, RebuildInv, RebuildNode
  PROVE  /\ Placed[Node(at.level, at.i)] =
              IF flags[Node(at.level, at.i)] = TO_PUBLISH
                THEN seed_tree[Node(at.level, at.i)] ELSE NoSeed
         /\ \A m \in Levels : \A k \in 0 .. npl[m] - 1 :
              Node(m, k) # Node(at.level, at.i) =>
                Placed[Node(m, k)] = rebuilt_tree[Node(m, k)]
  <1> DEFINE l == at.level
             i == at.i
             n == Node(l, i)
             p == Node(l - 1, i \div 2)
  <1>1. /\ l \in 1 .. LOG2T /\ l \in Levels /\ i \in 0 .. npl[l] - 1
        /\ l - 1 \in Levels /\ i \div 2 \in 0 .. npl[l - 1] - 1
        /\ Current(at) = n /\ p < n /\ l # l - 1 /\ l > 0
        /\ Published <=> Topmost(flags, l, i)
    BY RebuildPosition
  <1>2. pc = "rebuild_tree" /\ Batching /\ RebuiltUpTo(n) /\ UsedUpTo(n)
    BY <1>1, RebuildNodeStep DEF RebuildInv
  <1>3. n \in Nodes /\ p \in Nodes
    BY <1>1, NodeOrder
  <1>4. Placed = IF Topmost(flags, l, i) THEN [rebuilt_tree EXCEPT ![n] = StoredSeed(nodes_used)]
                                         ELSE rebuilt_tree
    BY <1>1 DEF Placed
  <1>5. ASSUME NEW m \in Levels, NEW k \in 0 .. npl[m] - 1, Node(m, k) # n
        PROVE  Placed[Node(m, k)] = rebuilt_tree[Node(m, k)]
    <2>1. Node(m, k) \in Nodes
      BY NodeOrder
    <2> QED BY <1>4, <1>5, <2>1 DEF TypeOK
  <1>6. ~Queued(queue, p)
    <2>1. CASE l = LOG2T
      <3>1. queue = <<>>
        BY <1>2, <2>1 DEF QueueInv
      <3> QED BY <3>1 DEF Queued
    <2>2. CASE l # LOG2T
      <3>1. l < LOG2T /\ l \in 0 .. LOG2T - 1
        BY <1>1, <2>2, LevelFacts
      <3>2. JobsOf(rebuilt_tree, queue, l)
        BY <1>2, <3>1 DEF QueueInv, BatchTree
      <3> QED BY <1>1, <3>1, <3>2, OtherLevel
    <2> QED BY <2>1, <2>2
  <1>7. rebuilt_tree[n] = IF Filled(l, i, n) THEN seed_tree[n] ELSE NoSeed
    BY <1>1, <1>2 DEF RebuiltUpTo
  <1>8. CASE Topmost(flags, l, i)
    <2>1. StoredSeed(nodes_used) = seed_tree[n] /\ flags[n] = TO_PUBLISH
      BY <1>1, <1>2, <1>8, NextStoredSeed DEF Topmost
    <2>2. Placed[n] = seed_tree[n]
      BY <1>3, <1>4, <1>8, <2>1 DEF TypeOK
    <2> QED BY <1>5, <2>1, <2>2
  <1>9. CASE ~Topmost(flags, l, i)
    <2>1. Placed[n] = rebuilt_tree[n]
      BY <1>4, <1>9
    <2>2. flags[n] = TO_PUBLISH => flags[p] = TO_PUBLISH
      BY <1>3, <1>9 DEF Topmost, TypeOK, Labels
    <2>3. Filled(l, i, n) <=> flags[n] = TO_PUBLISH
      BY <1>1, <1>6, <2>2 DEF Filled
    <2> QED BY <1>5, <1>7, <2>1, <2>3
  <1> QED BY <1>8, <1>9

\* A queue of rebuild_tree on a level before the last: the jobs are of nodes of
\* that level that were placed, and the node it is at joins them if its
\* children have to be computed.
LEMMA JoinedQueue ==
  ASSUME SeedAssumption, TypeOK, Fits, PositionInv, QueueInv, BuildInv, PathInv, RebuildInv,
         RebuildNode
  PROVE  /\ at.level < LOG2T => /\ JobsOf(Placed, queue, at.level)
                                /\ JobsOf(Placed, Joined, at.level)
         /\ at.level = LOG2T => Joined = <<>>
         /\ \A n : Queued(Joined, n) <=>
              \/ Queued(queue, n)
              \/ /\ n = Node(at.level, at.i) /\ flags[n] = TO_PUBLISH
                 /\ at.i < Expanded(at.level)
         /\ \A k \in DOMAIN Joined : /\ flags[Joined[k].dsc] = TO_PUBLISH
                                     /\ Joined[k].dsc < Node(at.level, at.i) + 1
  <1> DEFINE l == at.level
             i == at.i
             n == Node(l, i)
             joins == flags[n] = TO_PUBLISH /\ i < Expanded(l)
  <1>1. /\ l \in 1 .. LOG2T /\ l \in Levels /\ i \in 0 .. npl[l] - 1 /\ Current(at) = n
        /\ n \in 1 .. 2 * T - 2
    BY RebuildPosition
  <1>2. /\ pc = "rebuild_tree" /\ Batching /\ BatchTree = rebuilt_tree
        /\ \A k \in DOMAIN queue : flags[queue[k].dsc] = TO_PUBLISH /\ queue[k].dsc < n
    BY <1>1, RebuildNodeStep DEF RebuildInv, QueueInv, BatchTree
  <1>3. /\ queue \in Seq(Jobs)
        /\ i < Expanded(l) => /\ l \in 0 .. LOG2T - 1 /\ i \in 0 .. Expanded(l) - 1
                              /\ Job(Placed) = JobOf(Placed, l, i) /\ Job(Placed) \in Jobs
    BY RebuildQueueing DEF TypeOK
  <1>4. Joined = IF joins THEN Append(queue, Job(Placed)) ELSE queue
    BY <1>1 DEF Joined
  <1>5. i < Expanded(l) => Job(Placed).dsc = n
    BY <1>3 DEF JobOf
  <1>6. ASSUME l < LOG2T PROVE JobsOf(Placed, queue, l)
    <2>1. l \in 0 .. LOG2T - 1 /\ JobsOf(rebuilt_tree, queue, l)
      <3>1. l \in 0 .. LOG2T - 1
        BY <1>1, <1>6, LevelFacts
      <3>2. at.level < LOG2T => JobsOf(BatchTree, queue, at.level)
        BY <1>2 DEF QueueInv
      <3> QED BY <1>2, <1>6, <3>1, <3>2
    <2> SUFFICES ASSUME NEW k \in DOMAIN queue
                 PROVE  \E j \in 0 .. Expanded(l) - 1 :
                          Placed[Node(l, j)] \in Seed /\ queue[k] = JobOf(Placed, l, j)
      BY DEF JobsOf
    <2>2. PICK j \in 0 .. Expanded(l) - 1 :
            rebuilt_tree[Node(l, j)] \in Seed /\ queue[k] = JobOf(rebuilt_tree, l, j)
      BY <2>1 DEF JobsOf
    <2>3. queue[k].dsc = Node(l, j) /\ j \in 0 .. npl[l] - 1
      BY <2>1, <2>2, ChildNode DEF JobOf
    <2>4. Node(l, j) # n
      <3>1. Node(l, j) < n
        BY <1>2, <2>3
      <3> QED BY <1>1, <3>1
    <2>5. Placed[Node(l, j)] = rebuilt_tree[Node(l, j)]
      BY <1>1, <2>3, <2>4, PlacedTree
    <2> QED BY <2>2, <2>5 DEF JobOf
  <1>7. ASSUME l < LOG2T PROVE JobsOf(Placed, Joined, l)
    <2>1. CASE joins
      <3>1. l \in 0 .. LOG2T - 1 /\ i \in 0 .. Expanded(l) - 1
        BY <1>3, <2>1
      <3>2. Placed[n] \in Seed
        <4>1. seed_tree[n] \in Seed
          BY <1>1, <1>2, SignerSeeds
        <4> QED BY <2>1, <4>1, PlacedTree
      <3> QED BY <1>3, <1>4, <1>6, <1>7, <2>1, <3>1, <3>2, AppendJob
    <2>2. CASE ~joins
      BY <1>4, <1>6, <1>7, <2>2
    <2> QED BY <2>1, <2>2
  <1>8. ASSUME l = LOG2T PROVE Joined = <<>>
    <2>1. queue = <<>> /\ ~joins
      <3>1. Expanded(LOG2T) = 0 /\ npl[l] \in Nat
        BY <1>1, LevelFacts
      <3> QED BY <1>1, <1>2, <1>8, <3>1 DEF QueueInv
    <2> QED BY <1>4, <2>1
  <1>9. ASSUME NEW m
        PROVE  Queued(Joined, m) <=> Queued(queue, m) \/ (m = n /\ joins)
    <2>1. CASE joins
      BY <1>3, <1>4, <1>5, <2>1, AppendJob
    <2>2. CASE ~joins
      BY <1>4, <2>2
    <2> QED BY <2>1, <2>2
  <1>10. ASSUME NEW k \in DOMAIN Joined
         PROVE  flags[Joined[k].dsc] = TO_PUBLISH /\ Joined[k].dsc < n + 1
    <2>1. ASSUME NEW h \in DOMAIN queue PROVE queue[h].dsc < n + 1
      <3>1. queue[h] \in Jobs
        BY <1>3
      <3>2. queue[h].dsc \in Nodes
        BY <3>1 DEF Jobs
      <3> QED BY <1>1, <1>2, <3>2 DEF Nodes
    <2>2. CASE joins
      <3>1. /\ DOMAIN Joined = 1 .. Len(queue) + 1 /\ DOMAIN queue = 1 .. Len(queue)
            /\ Len(queue) \in Nat /\ \A h \in DOMAIN queue : Joined[h] = queue[h]
            /\ Joined[Len(queue) + 1] = Job(Placed)
        BY <1>3, <1>4, <2>2, AppendJob
      <3>2. CASE k \in DOMAIN queue
        BY <1>2, <2>1, <3>1, <3>2
      <3>3. CASE k = Len(queue) + 1
        <4>1. n < n + 1
          BY <1>1
        <4> QED BY <1>5, <2>2, <3>1, <3>3, <4>1
      <3> QED BY <3>1, <3>2, <3>3
    <2>3. CASE ~joins
      BY <1>2, <1>4, <2>1, <2>3
    <2> QED BY <2>2, <2>3
  <1> QED BY <1>6, <1>7, <1>8, <1>9, <1>10

\* Filled, for a queue that is about to be the tree's.
FilledBeside(q, l, i, n) ==
  /\ l > 0 /\ flags[Node(l, i)] = TO_PUBLISH
  /\ \/ Node(l, i) < n
     \/ /\ flags[Node(l - 1, i \div 2)] = TO_PUBLISH /\ Node(l - 1, i \div 2) < n
        /\ ~Queued(q, Node(l - 1, i \div 2))

\* Before the queue is looked at, nothing but the node has changed.
LEMMA PlacedFilled ==
  ASSUME SeedAssumption, TypeOK, Fits, PositionInv, QueueInv, BuildInv, PathInv, RebuildInv,
         RebuildNode, NEW m \in Levels, NEW k \in 0 .. npl[m] - 1
  PROVE  Placed[Node(m, k)] =
           IF FilledBeside(Joined, m, k, Node(at.level, at.i) + 1)
             THEN seed_tree[Node(m, k)] ELSE NoSeed
  <1> DEFINE l == at.level
             i == at.i
             n == Node(l, i)
             p == Node(m - 1, k \div 2)
  <1>1. /\ l \in 1 .. LOG2T /\ l \in Levels /\ i \in 0 .. npl[l] - 1 /\ Current(at) = n
        /\ n \in 1 .. 2 * T - 2 /\ l > 0
    BY RebuildPosition
  <1>2. RebuiltUpTo(n)
    BY <1>1, RebuildNodeStep DEF RebuildInv
  <1>3. CASE Node(m, k) = n
    <2>1. m = l /\ k = i
      BY <1>1, <1>3, NodeOrder
    <2>2. n < n + 1
      BY <1>1
    <2>3. FilledBeside(Joined, m, k, n + 1) <=> flags[n] = TO_PUBLISH
      BY <1>1, <2>1, <2>2 DEF FilledBeside
    <2> QED BY <2>1, <2>3, PlacedTree
  <1>4. CASE Node(m, k) # n
    <2>1. Placed[Node(m, k)] = rebuilt_tree[Node(m, k)]
      BY <1>4, PlacedTree
    <2>2. rebuilt_tree[Node(m, k)] = IF Filled(m, k, n) THEN seed_tree[Node(m, k)] ELSE NoSeed
      BY <1>2 DEF RebuiltUpTo
    <2>3. CASE m = 0
      BY <2>1, <2>2, <2>3 DEF Filled, FilledBeside
    <2>4. CASE m # 0
      <3>1. m \in 1 .. LOG2T
        BY <2>4, LevelFacts DEF Levels
      <3>2. m - 1 \in 0 .. LOG2T - 1 /\ k \div 2 \in 0 .. Expanded(m - 1) - 1
        BY <3>1, ParentNode
      <3>3. m - 1 \in Levels /\ k \div 2 \in 0 .. npl[m - 1] - 1
        BY <3>2, ChildNode
      <3>4. Node(m, k) \in Nodes /\ p \in Nodes
        BY <3>3, NodeOrder
      <3>5. /\ Node(m, k) < n + 1 <=> Node(m, k) < n
            /\ p < n + 1 <=> p < n \/ p = n
        BY <1>1, <1>4, <3>4 DEF Nodes
      <3>6. ASSUME p = n, flags[n] = TO_PUBLISH PROVE Queued(Joined, n)
        <4>1. m - 1 = l /\ k \div 2 = i
          BY <1>1, <3>3, <3>6, NodeOrder
        <4>2. i < Expanded(l)
          <5>1. Expanded(l) \in Nat
            BY <1>1, LevelFacts
          <5> QED BY <3>2, <4>1, <5>1
        <4> QED BY <3>6, <4>2, JoinedQueue
      <3>7. p # n => (Queued(Joined, p) <=> Queued(queue, p))
        BY JoinedQueue
      <3>8. ~(p = n /\ p < n)
        BY <1>1
      <3>9. Filled(m, k, n) <=> FilledBeside(Joined, m, k, n + 1)
        BY <3>5, <3>6, <3>7, <3>8 DEF Filled, FilledBeside
      <3> QED BY <2>1, <2>2, <3>9
    <2> QED BY <2>3, <2>4
  <1> QED BY <1>3, <1>4

\* What one iteration of rebuild_tree leaves in the verifier's tree, whether or
\* not it has flushed the queue.
LEMMA RebuildTree ==
  ASSUME SeedAssumption, TypeOK, Fits, PositionInv, QueueInv, BuildInv, FlagsInv, PathInv,
         RebuildInv, RebuildNode, NEW m \in Levels, NEW k \in 0 .. npl[m] - 1
  PROVE  rebuilt_tree'[Node(m, k)] =
           IF FilledBeside(queue', m, k, Node(at.level, at.i) + 1)
             THEN seed_tree[Node(m, k)] ELSE NoSeed
  <1> DEFINE l == at.level
             i == at.i
             n == Node(l, i)
             j == k \div 2
  <1>1. /\ l \in 1 .. LOG2T /\ l \in Levels /\ i \in 0 .. npl[l] - 1 /\ l > 0
        /\ pc = "rebuild_tree" /\ Scanning
    BY RebuildPosition, RebuildNodeStep
  <1>2. /\ rebuilt_tree' = IF Flush(Joined) THEN RunBatch(Placed, Joined) ELSE Placed
        /\ queue' = IF Flush(Joined) THEN <<>> ELSE Joined
        /\ Placed \in [Nodes -> Memory]
    BY RebuildNodeStep, RebuildQueueing
  <1>3. Placed[Node(m, k)] =
          IF FilledBeside(Joined, m, k, n + 1) THEN seed_tree[Node(m, k)] ELSE NoSeed
    BY PlacedFilled
  <1>4. CASE ~Flush(Joined)
    BY <1>2, <1>3, <1>4
  <1>5. CASE Flush(Joined)
    <2>1. rebuilt_tree' = RunBatch(Placed, Joined) /\ queue' = <<>>
      BY <1>2, <1>5
    <2>2. l \in 0 .. LOG2T - 1 /\ JobsOf(Placed, Joined, l)
      <3>1. l # LOG2T
        <4>1. SUFFICES ASSUME l = LOG2T PROVE FALSE
          OBVIOUS
        <4>2. Joined = <<>> /\ Expanded(l) = 0 /\ npl[l] \in Nat
          BY <1>1, <4>1, JoinedQueue, LevelFacts
        <4>3. Len(Joined) # BATCH /\ i # Expanded(l) - 1
          BY <1>1, <4>2 DEF BATCH
        <4> QED BY <1>5, <4>3 DEF Flush
      <3>2. l < LOG2T /\ l \in 0 .. LOG2T - 1
        BY <1>1, <3>1, LevelFacts
      <3> QED BY <3>2, JoinedQueue
    <2>3. CASE m = l + 1 /\ Queued(Joined, Node(l, j))
      <3>1. m \in 1 .. LOG2T /\ m - 1 = l
        BY <2>2, <2>3, LevelFacts
      <3>2. j \in 0 .. Expanded(l) - 1 /\ (k = 2 * j \/ k = 2 * j + 1)
        BY <3>1, ParentNode
      <3>3. j \in 0 .. npl[l] - 1 /\ l \in Levels
        BY <2>2, <3>2, ChildNode
      <3>4. flags[Node(l, j)] = TO_PUBLISH /\ Node(l, j) < n + 1
        BY <2>3, JoinedQueue DEF Queued
      <3>5. flags[Node(m, k)] = TO_PUBLISH
        <4>1. LabelOK(flags, l, j)
          BY <1>1, <2>2, <3>2 DEF FlagsInv, Labelled
        <4> QED BY <2>3, <3>2, <3>4, <4>1 DEF LabelOK
      <3>6. FilledBeside(queue', m, k, n + 1)
        <4>1. ~Queued(queue', Node(m - 1, j)) /\ m > 0
          BY <2>1, <3>1 DEF Queued
        <4> QED BY <3>1, <3>4, <3>5, <4>1 DEF FilledBeside
      <3>7. HoldsChildren(rebuilt_tree', l, j)
        BY <1>2, <2>1, <2>2, <2>3, <3>2, RunBatchValue
      <3>8. rebuilt_tree'[Node(l, j)] = seed_tree[Node(l, j)]
        <4>1. l # m
          BY <2>2, <2>3
        <4>2. rebuilt_tree'[Node(l, j)] = Placed[Node(l, j)]
          BY <1>2, <2>1, <2>2, <2>3, <3>3, <4>1, RunBatchValue
        <4>3. FilledBeside(Joined, l, j, n + 1)
          BY <1>1, <3>4 DEF FilledBeside
        <4> QED BY <3>3, <4>2, <4>3, PlacedFilled
      <3>9. HoldsChildren(seed_tree, l, j)
        BY <1>1, <2>2, <3>2 DEF BuildInv
      <3>10. rebuilt_tree'[Node(m, k)] = seed_tree[Node(m, k)]
        BY <2>3, <3>2, <3>7, <3>8, <3>9 DEF HoldsChildren
      <3> QED BY <3>6, <3>10
    <2>4. CASE ~(m = l + 1 /\ Queued(Joined, Node(l, j)))
      <3>1. rebuilt_tree'[Node(m, k)] = Placed[Node(m, k)]
        BY <1>2, <2>1, <2>2, <2>4, RunBatchValue
      <3>2. ASSUME m > 0 PROVE ~Queued(Joined, Node(m - 1, j)) /\ ~Queued(queue', Node(m - 1, j))
        <4>1. ~Queued(queue', Node(m - 1, j))
          BY <2>1 DEF Queued
        <4>2. SUFFICES ASSUME Queued(Joined, Node(m - 1, j)) PROVE FALSE
          BY <4>1
        <4>3. m \in 1 .. LOG2T
          BY <3>2 DEF Levels
        <4>4. m - 1 \in 0 .. LOG2T - 1 /\ j \in 0 .. Expanded(m - 1) - 1
          BY <4>3, ParentNode
        <4>5. m - 1 \in Levels /\ j \in 0 .. npl[m - 1] - 1
          BY <4>4, ChildNode
        <4>6. m - 1 = l
          BY <2>2, <4>2, <4>5, OtherLevel
        <4>7. m = l + 1
          BY <4>3, <4>6
        <4> QED BY <2>4, <4>2, <4>6, <4>7
      <3>3. FilledBeside(Joined, m, k, n + 1) <=> FilledBeside(queue', m, k, n + 1)
        BY <3>2 DEF FilledBeside
      <3> QED BY <1>3, <3>1, <3>3
    <2> QED BY <2>3, <2>4
  <1> QED BY <1>4, <1>5

-----------------------------------------------------------------------------
(* The queue *)

LEMMA QueueStep ==
  /\ SeedAssumption /\ TypeOK /\ Fits /\ PositionInv /\ QueueInv /\ BuildInv /\ PathInv
  /\ RebuildInv /\ [Next]_vars
  => QueueInv'
  <1> SUFFICES ASSUME SeedAssumption, TypeOK, Fits, PositionInv, QueueInv, BuildInv, PathInv,
                      RebuildInv, [Next]_vars
               PROVE  QueueInv'
    OBVIOUS
  <1>1. ASSUME queue' = <<>> PROVE QueueInv'
    <2>1. Len(queue') < BATCH /\ DOMAIN queue' = {}
      BY <1>1 DEF BATCH
    <2> QED BY <1>1, <2>1 DEF QueueInv, JobsOf
  <1>2. ASSUME pc' = pc, Batching, NEW l \in 0 .. LOG2T - 1,
               at'.level = l, at'.i \in 1 .. Expanded(l) - 1, Len(queue') < BATCH,
               \A k \in DOMAIN queue' : \E j \in 0 .. Expanded(l) - 1 :
                 /\ BatchTree'[Node(l, j)] \in Seed
                 /\ queue'[k] = [seed |-> BatchTree'[Node(l, j)], dsc |-> Node(l, j),
                                 child |-> Node(l + 1, 2 * j)],
               \A k \in DOMAIN queue' : queue'[k].dsc < Current(at')
        PROVE  QueueInv'
    <2>1. LOG2T \in Nat /\ Expanded(l) \in Nat /\ Batching'
      BY <1>2, ChildNode, LevelFacts DEF Batching
    <2>2. at'.i # 0 /\ at'.level # LOG2T /\ ~(at'.i >= Expanded(l))
      BY <1>2, <2>1
    <2> QED BY <1>2, <2>1, <2>2 DEF QueueInv, JobsOf, JobOf
  <1>3. CASE GenNode
    <2> DEFINE l == at.level
               i == at.i
    <2>1. /\ pc = "gen_seed_tree" /\ pc' = pc /\ l < LOG2T /\ Batching
          /\ at' = Down(at, Expanded(at.level))
          /\ seed_tree' = IF Flush(Generated) THEN RunBatch(seed_tree, Generated) ELSE seed_tree
          /\ queue' = IF Flush(Generated) THEN <<>> ELSE Generated
      BY <1>3, GenNodeStep DEF Batching
    <2>2. CASE Flush(Generated)
      BY <1>1, <2>1, <2>2
    <2>3. CASE ~Flush(Generated)
      <3>1. /\ l \in 0 .. LOG2T - 1 /\ i \in 0 .. Expanded(l) - 1 /\ Current(at) = Node(l, i)
            /\ at'.level = l /\ at'.i = i + 1 /\ Current(at') = Current(at) + 1
            /\ i # Expanded(l) - 1
        BY <2>1, <2>3, GenPosition DEF Flush
      <3>2. /\ Job(seed_tree) \in Jobs /\ Job(seed_tree).dsc = Node(l, i) /\ queue \in Seq(Jobs)
            /\ Job(seed_tree) = JobOf(seed_tree, l, i)
        BY <3>1, JobValue DEF JobOf, TypeOK
      <3>3. /\ DOMAIN Generated = 1 .. Len(queue) + 1 /\ DOMAIN queue = 1 .. Len(queue)
            /\ Len(queue) \in Nat /\ \A k \in DOMAIN queue : Generated[k] = queue[k]
            /\ Generated[Len(queue) + 1] = Job(seed_tree)
        BY <3>1, <3>2, AppendJob DEF Generated
      <3>4. Len(Generated) = Len(queue) + 1
        BY <3>2 DEF Generated
      <3>5. Len(Generated) < BATCH
        BY <2>1, <2>3, <3>3, <3>4 DEF QueueInv, Flush, BATCH
      <3>6. JobsOf(seed_tree, Generated, l)
        BY <1>3, GenSeed
      <3>7. i + 1 \in 1 .. Expanded(l) - 1
        <4>1. Expanded(l) \in Nat
          BY <3>1, ChildNode, LevelFacts
        <4> QED BY <3>1, <4>1
      <3>8. l \in Levels /\ i \in 0 .. npl[l] - 1 /\ Node(l, i) \in Nodes
        BY <3>1, ChildNode, NodeOrder
      <3>9. ASSUME NEW k \in DOMAIN Generated PROVE Generated[k].dsc < Current(at')
        <4>1. CASE k \in DOMAIN queue
          <5>1. queue[k].dsc < Current(at) /\ queue[k] \in Jobs
            BY <2>1, <3>2, <4>1 DEF QueueInv
          <5>2. queue[k].dsc \in Nodes
            BY <5>1 DEF Jobs
          <5> QED BY <3>1, <3>3, <3>8, <4>1, <5>1, <5>2 DEF Nodes
        <4>2. CASE k = Len(queue) + 1
          BY <3>1, <3>2, <3>3, <3>8, <4>2 DEF Nodes
        <4> QED BY <3>3, <4>1, <4>2
      <3>10. queue' = Generated /\ seed_tree' = seed_tree
        BY <2>1, <2>3
      <3>11. BatchTree' = seed_tree
        BY <2>1, <3>10 DEF BatchTree
      <3>12. \A k \in DOMAIN Generated : \E j \in 0 .. Expanded(l) - 1 :
               /\ seed_tree[Node(l, j)] \in Seed
               /\ Generated[k] = [seed |-> seed_tree[Node(l, j)], dsc |-> Node(l, j),
                                  child |-> Node(l + 1, 2 * j)]
        BY <3>6 DEF JobsOf, JobOf
      <3> QED BY <1>2, <2>1, <3>1, <3>5, <3>7, <3>9, <3>10, <3>11, <3>12
    <2> QED BY <2>2, <2>3
  <1>4. CASE RebuildNode
    <2> DEFINE l == at.level
               i == at.i
    <2>1. /\ pc = "rebuild_tree" /\ pc' = pc /\ Scanning /\ Batching /\ l <= LOG2T
          /\ rebuilt_tree' = IF Flush(Joined) THEN RunBatch(Placed, Joined) ELSE Placed
          /\ queue' = IF Flush(Joined) THEN <<>> ELSE Joined
          /\ at' = Down(at, npl[at.level])
      BY <1>4, RebuildNodeStep
    <2>2. CASE Flush(Joined) \/ Joined = <<>>
      BY <1>1, <2>1, <2>2
    <2>3. CASE ~Flush(Joined) /\ Joined # <<>>
      <3>1. /\ l \in 1 .. LOG2T /\ l \in Levels /\ i \in 0 .. npl[l] - 1
            /\ Current(at') = Node(l, i) + 1
        BY <1>4, RebuildPosition
      <3>2. l # LOG2T
        BY <1>4, <2>3, JoinedQueue
      <3>3. l < LOG2T /\ l \in 0 .. LOG2T - 1 /\ Expanded(l) \in 0 .. npl[l] /\ npl[l] \in Nat
        <4>1. LOG2T \in Nat /\ Expanded(l) \in 0 .. npl[l] /\ npl[l] \in Nat
          BY <3>1, LevelFacts
        <4> QED BY <2>1, <3>1, <3>2, <4>1
      <3>4. i < Expanded(l)
        <4>1. SUFFICES ASSUME i >= Expanded(l) PROVE FALSE
          BY <3>1, <3>3
        <4>2. queue = <<>>
          BY <2>1, <3>3, <4>1 DEF QueueInv
        <4>3. ~(i < Expanded(l))
          BY <3>1, <3>3, <4>1
        <4> QED BY <2>3, <4>2, <4>3 DEF Joined
      <3>5. i # Expanded(l) - 1 /\ Len(Joined) # BATCH
        BY <2>3 DEF Flush
      <3>6. at'.level = l /\ at'.i = i + 1 /\ i + 1 \in 1 .. Expanded(l) - 1
        <4>1. i < npl[l] - 1 /\ i # npl[l] - 1 /\ i + 1 \in 1 .. Expanded(l) - 1
          BY <3>1, <3>3, <3>4, <3>5
        <4>2. \/ at'.level = l /\ at'.i = i + 1
              \/ i = npl[l] - 1
          BY <2>1, ScanPosition
        <4> QED BY <4>1, <4>2
      <3>7. Len(Joined) < BATCH
        <4>1. queue \in Seq(Jobs) /\ Len(queue) < BATCH /\ Len(queue) \in Nat
          BY <2>1 DEF TypeOK, QueueInv
        <4>2. Len(Joined) = Len(queue) \/ Len(Joined) = Len(queue) + 1
          <5>1. Len(Append(queue, Job(Placed))) = Len(queue) + 1
            BY <1>4, <3>4, <4>1, RebuildQueueing
          <5> QED BY <5>1 DEF Joined
        <4>3. BATCH = 4 /\ Len(Joined) # BATCH
          BY <3>5 DEF BATCH
        <4>4. \A a, b : a \in Nat /\ a < 4 /\ (b = a \/ b = a + 1) /\ b # 4 => b < 4
          OBVIOUS
        <4> QED BY ONLY <4>1, <4>2, <4>3, <4>4
      <3>8. queue' = Joined /\ rebuilt_tree' = Placed /\ BatchTree' = Placed
        BY <2>1, <2>3 DEF BatchTree
      <3>9. JobsOf(Placed, Joined, l)
            /\ \A k \in DOMAIN Joined : Joined[k].dsc < Current(at')
        BY <1>4, <3>1, <3>3, JoinedQueue
      <3>10. \A k \in DOMAIN Joined : \E j \in 0 .. Expanded(l) - 1 :
               /\ Placed[Node(l, j)] \in Seed
               /\ Joined[k] = [seed |-> Placed[Node(l, j)], dsc |-> Node(l, j),
                               child |-> Node(l + 1, 2 * j)]
        BY <3>9 DEF JobsOf, JobOf
      <3> QED BY <1>2, <2>1, <3>3, <3>6, <3>7, <3>8, <3>9, <3>10
    <2> QED BY <2>2, <2>3
  <1>5. CASE GenDone
    <2>1. queue = <<>> /\ queue' = queue
      BY <1>5 DEF GenDone, QueueInv, Batching
    <2> QED BY <1>1, <2>1
  <1>6. CASE RebuildDone
    <2>1. pc = "rebuild_tree" /\ at.level > LOG2T /\ queue' = queue
      BY <1>6 DEF RebuildDone
    <2>2. at.i = 0
      BY <2>1 DEF PositionInv, Scanning
    <2>3. queue = <<>>
      BY <2>1, <2>2 DEF QueueInv, Batching
    <2> QED BY <1>1, <2>1, <2>3
  <1>7. CASE \/ FlagParent \/ FlagsDone \/ ScanNode \/ PathDone \/ CallRebuild
             \/ \E ch \in Challenges : Open(ch)
    <2>1. ~Batching /\ queue' = queue
      BY <1>7 DEF FlagParent, FlagsDone, ScanNode, PathDone, CallRebuild, Open, Batching
    <2>2. queue = <<>>
      BY <2>1 DEF QueueInv
    <2> QED BY <1>1, <2>1, <2>2
  <1>8. CASE UNCHANGED vars
    BY <1>8 DEF vars, signer, verifier, QueueInv, Batching, BatchTree, JobsOf, JobOf
  <1> QED BY <1>3, <1>4, <1>5, <1>6, <1>7, <1>8 DEF Next, Steps

-----------------------------------------------------------------------------
(* The rebuilt tree and the seeds used *)

\* At the end of the tree every published seed has been used.
LEMMA AllUsed ==
  ASSUME TypeOK, PathInv, PathOf(flags), UsedUpTo(2 * T - 1)
  PROVE  nodes_used = num_seeds_published
  <1>1. /\ Len(path_nodes) \in Nat /\ nodes_used \in Nat /\ nodes_used <= Len(path_nodes)
        /\ num_seeds_published = Len(path_nodes)
        /\ \A k \in 1 .. Len(path_nodes) : k <= nodes_used <=> path_nodes[k] < 2 * T - 1
    BY DEF TypeOK, PathInv, UsedUpTo
  <1>2. \A k \in 1 .. Len(path_nodes) : path_nodes[k] < 2 * T - 1
    BY DEF PathOf, PathUpTo
  <1>3. \A k \in 1 .. Len(path_nodes) : k <= nodes_used
    BY <1>1, <1>2
  <1>4. Len(path_nodes) <= nodes_used
    BY <1>1, <1>3
  <1> QED BY <1>1, <1>4

LEMMA RebuildStep ==
  /\ SeedAssumption /\ TypeOK /\ Fits /\ Fits' /\ PositionInv /\ QueueInv /\ BuildInv /\ FlagsInv
  /\ PathInv /\ AgreeInv /\ RebuildInv /\ [Next]_vars
  => RebuildInv'
  <1> SUFFICES ASSUME SeedAssumption, TypeOK, Fits, Fits', PositionInv, QueueInv, BuildInv,
                      FlagsInv, PathInv, AgreeInv, RebuildInv, [Next]_vars
               PROVE  RebuildInv'
    OBVIOUS
  <1>1. CASE \/ GenNode \/ GenDone \/ FlagParent \/ ScanNode \/ PathDone \/ CallRebuild
             \/ \E ch \in Challenges : Open(ch)
    <2>1. /\ pc \notin {"rebuild_tree", "rebuilt"} /\ pc' \notin {"rebuild_tree", "rebuilt"}
          /\ UNCHANGED <<rebuilt_tree, nodes_used>>
      BY <1>1 DEF GenNode, GenDone, FlagParent, ScanNode, PathDone, CallRebuild, Open, verifier
    <2> QED BY <2>1 DEF RebuildInv, Blank
  <1>2. CASE FlagsDone
    <2>1. /\ pc \in {"seed_path_flags", "rebuild_flags"} /\ Current(at') = 1
          /\ UNCHANGED <<rebuilt_tree, nodes_used, flags, seed_tree, path_nodes, queue>>
      BY <1>2, Starts DEF FlagsDone, signer, labels, stored, verifier, Current
    <2>2. rebuilt_tree = Blank /\ nodes_used = 0 /\ queue = <<>>
      BY <2>1 DEF RebuildInv, QueueInv, Batching
    <2>3. CASE pc = "seed_path_flags"
      <3>1. pc' = "seed_path"
        BY <1>2, <2>3 DEF FlagsDone
      <3> QED BY <2>1, <2>2, <3>1 DEF RebuildInv, Blank
    <2>4. CASE pc = "rebuild_flags"
      <3>1. pc' = "rebuild_tree"
        BY <1>2, <2>4 DEF FlagsDone
      <3>2. PathInv'
        BY PathStep
      <3>3. PathOf(flags)
        BY <2>1, <3>1, <3>2 DEF PathInv, PathOf, PathUpTo, Topmost
      <3>4. ASSUME NEW l \in Levels, NEW i \in 0 .. npl[l] - 1
            PROVE  rebuilt_tree[Node(l, i)] = NoSeed /\ ~Filled(l, i, 1)
        <4>1. rebuilt_tree[Node(l, i)] = NoSeed
          BY <2>2, NodeOrder DEF Blank
        <4>2. ~Filled(l, i, 1)
          <5>1. SUFFICES ASSUME Filled(l, i, 1) PROVE FALSE
            OBVIOUS
          <5>2. l \in 1 .. LOG2T
            BY <5>1 DEF Filled, Levels
          <5>3. ~(Node(l, i) < 1)
            BY <5>2, NodeBelowRoot
          <5>4. flags[Node(l - 1, i \div 2)] = TO_PUBLISH /\ Node(l - 1, i \div 2) < 1
            BY <5>1, <5>3 DEF Filled
          <5>5. Node(l - 1, i \div 2) \in Nodes
            BY <5>2, ParentNode, ChildNode, NodeOrder
          <5>6. Node(l - 1, i \div 2) = 0
            BY <5>4, <5>5 DEF Nodes
          <5> QED BY <3>3, <5>4, <5>6 DEF PathOf, TO_PUBLISH, NOT_TO_PUBLISH
        <4> QED BY <4>1, <4>2
      <3>5. \A k \in 1 .. Len(path_nodes) : ~(path_nodes[k] < 1)
        BY <3>3, NodeBelowRoot DEF PathOf, PathUpTo
      <3>6. UsedUpTo(1)
        <4>1. Len(path_nodes) \in Nat
          BY DEF TypeOK
        <4> QED BY <2>2, <3>5, <4>1 DEF UsedUpTo
      <3> QED BY <2>1, <2>2, <3>1, <3>4, <3>6
              DEF RebuildInv, RebuiltUpTo, UsedUpTo, Filled, Queued
    <2> QED BY <2>1, <2>3, <2>4
  <1>3. CASE RebuildNode
    <2> DEFINE n == Node(at.level, at.i)
    <2>1. /\ pc = "rebuild_tree" /\ pc' = pc /\ Current(at) = n /\ Current(at') = n + 1
          /\ at.level \in 1 .. LOG2T /\ at.i \in 0 .. npl[at.level] - 1
          /\ Published <=> Topmost(flags, at.level, at.i)
          /\ nodes_used' = IF Published THEN nodes_used + 1 ELSE nodes_used
      BY <1>3, RebuildPosition, RebuildNodeStep
    <2>2. UNCHANGED <<flags, seed_tree, path_nodes>>
      BY <1>3 DEF RebuildNode, signer, labels, stored
    <2>3. \A m \in Levels : \A k \in 0 .. npl[m] - 1 :
            rebuilt_tree'[Node(m, k)] =
              IF FilledBeside(queue', m, k, n + 1) THEN seed_tree[Node(m, k)] ELSE NoSeed
      BY <1>3, RebuildTree
    <2>4. UsedUpTo(n)
      BY <2>1 DEF RebuildInv
    <2>5. /\ nodes_used' <= Len(path_nodes)
          /\ \A k \in 1 .. Len(path_nodes) : k <= nodes_used' <=> path_nodes[k] < n + 1
      BY <2>1, <2>4, NextStoredSeed DEF UsedUpTo
    <2>6. \A k \in DOMAIN queue' : flags[queue'[k].dsc] = TO_PUBLISH
      <3>1. queue' = <<>> \/ queue' = Joined
        BY <1>3, RebuildNodeStep
      <3> QED BY <1>3, <3>1, JoinedQueue
    <2> QED BY <2>1, <2>2, <2>3, <2>5, <2>6
            DEF RebuildInv, RebuiltUpTo, UsedUpTo, Filled, FilledBeside, Queued
  <1>4. CASE RebuildDone
    <2>1. /\ pc = "rebuild_tree" /\ pc' = "rebuilt" /\ at.level > LOG2T
          /\ UNCHANGED <<flags, seed_tree, path_nodes, rebuilt_tree, nodes_used, queue>>
          /\ rebuilt_seeds' = seed_leaves(rebuilt_tree) /\ padding_ok' = PaddingIsZero
      BY <1>4 DEF RebuildDone, signer, labels, stored
    <2>2. Current(at) = 2 * T - 1
      <3>1. at.i = 0 /\ at.start = 2 * T - 1 /\ T \in Nat
        BY <2>1, LevelFacts DEF PositionInv, Scanning
      <3> QED BY <3>1 DEF Current
    <2>3. RebuiltUpTo(2 * T - 1) /\ UsedUpTo(2 * T - 1)
      BY <2>1, <2>2 DEF RebuildInv
    <2>4. nodes_used = num_seeds_published
      BY <2>1, <2>3, AllUsed DEF PathInv
    <2>5. PaddingIsZero
      BY <2>4 DEF PathInv, PaddingIsZero
    <2> QED BY <2>1, <2>3, <2>5 DEF RebuildInv, RebuiltUpTo, UsedUpTo, Filled, Queued, seed_leaves
  <1>5. CASE UNCHANGED vars
    BY <1>5 DEF vars, signer, labels, stored, verifier, RebuildInv, RebuiltUpTo, UsedUpTo, Filled,
                Queued, Blank, seed_leaves
  <1> QED BY <1>1, <1>2, <1>3, <1>4, <1>5 DEF Next, Steps

-----------------------------------------------------------------------------
(* The invariant *)

LEMMA InitIInv == SeedAssumption /\ Init /\ Fits => IInv
  <1> SUFFICES ASSUME SeedAssumption, Init, Fits PROVE IInv
    OBVIOUS
  <1>1. /\ T \in Nat /\ T >= 1 /\ LOG2T \in Nat /\ 0 < LOG2T /\ 0 \in Levels /\ LevelStart[0] = 0
        /\ Expanded(0) = 1 /\ 0 \in Nodes /\ 0 \in 0 .. Expanded(0) - 1
    <2>1. T \in Nat \ {0}
      BY LevelFacts
    <2> QED BY <2>1, LevelFacts DEF Nodes
  <1>2. at = [level |-> 0, i |-> 0, start |-> 0]
        /\ at \in [level : Int, i : Int, start : Int]
    BY Starts DEF Init
  <1>3. /\ seed_tree \in [Nodes -> Memory] /\ Blank \in [Nodes -> Memory]
        /\ queue \in Seq(Jobs) /\ path_nodes \in Seq(Nodes)
        /\ path \in [Slots -> Memory] /\ flags \in [Nodes -> Labels]
        /\ indices_to_publish \in [Rounds -> Labels]
    <2>1. Blank \in [Nodes -> Memory] /\ RootSeed \in Memory
      BY DEF Blank, Memory, SeedAssumption
    <2>2. seed_tree \in [Nodes -> Memory]
      BY <2>1 DEF Init
    <2>3. queue \in Seq(Jobs) /\ path_nodes \in Seq(Nodes)
      BY DEF Init
    <2>4. /\ path \in [Slots -> Memory] /\ flags \in [Nodes -> Labels]
          /\ indices_to_publish \in [Rounds -> Labels]
      BY DEF Init, Memory, Labels
    <2> QED BY <2>1, <2>2, <2>3, <2>4
  <1>4. TypeOK
    BY <1>2, <1>3 DEF Init, TypeOK
  <1>5. PositionInv
    BY <1>1, <1>2 DEF Init, PositionInv, Computing, Scanning
  <1>6. QueueInv
    <2>1. queue = <<>> /\ Len(queue) < BATCH /\ DOMAIN queue = {}
      BY DEF Init, BATCH
    <2> QED BY <2>1 DEF QueueInv, JobsOf
  <1>7. BuildInv
    <2>1. seed_tree[0] = RootSeed /\ Current(at) = 0 /\ pc = "gen_seed_tree"
      BY <1>1, <1>2 DEF Init, Blank, Current
    <2>2. ASSUME NEW l \in 0 .. LOG2T - 1, NEW i \in 0 .. Expanded(l) - 1
          PROVE  Node(l, i) >= Current(at)
      <3>1. Node(l, i) \in Nodes
        BY ChildNode, NodeOrder
      <3> QED BY <2>1, <3>1 DEF Nodes
    <2> QED BY <2>1, <2>2 DEF BuildInv
  <1>8. FlagsInv
    BY DEF Init, FlagsInv, Computing, Scanning
  <1>9. PathInv
    BY DEF Init, PathInv
  <1>10. AgreeInv
    BY DEF Init, AgreeInv
  <1>11. RebuildInv
    BY DEF Init, RebuildInv
  <1> QED BY <1>4, <1>5, <1>6, <1>7, <1>8, <1>9, <1>10, <1>11 DEF IInv

\* As long as the path has room, the invariant is inductive: it holds in every
\* state of building, publishing and rebuilding a tree, in the middle of every
\* batch.
THEOREM Invariance ==
  ASSUME SeedAssumption
  PROVE  Spec /\ []Fits => []IInv
  <1>1. Init /\ Fits => IInv
    BY InitIInv
  <1>2. IInv /\ Fits' /\ [Next]_vars => IInv'
    BY TypeStep, PositionStep, QueueStep, BuildStep, FlagsStep, PathStep, AgreeStep, RebuildStep
       DEF IInv
  <1> QED BY <1>1, <1>2, PTL DEF Spec

\* Types, and with them that no loop leaves the tables, the trees or the path.
THEOREM TypeCorrect ==
  ASSUME SeedAssumption
  PROVE  Spec /\ []Fits => []TypeOK
  <1>1. IInv => TypeOK
    BY DEF IInv
  <1>2. Spec /\ []Fits => []IInv
    BY Invariance
  <1> QED BY <1>1, <1>2, PTL

\* The invariant says of the batches what NeverReadPending says.
LEMMA NothingPendingRead ==
  ASSUME SeedAssumption, IInv
  PROVE  NeverReadPending
  <1> DEFINE l == at.level
  <1> SUFFICES ASSUME Batching
               PROVE  /\ at.i = 0 => queue = <<>>
                      /\ Len(queue) < BATCH
                      /\ \A k \in DOMAIN queue :
                           /\ queue[k].seed = BatchTree[queue[k].dsc] /\ queue[k].seed # NoSeed
                           /\ Current(at) \notin {queue[k].child, queue[k].child + 1}
    BY DEF NeverReadPending, Batching, BatchTree
  <1>1. (at.i = 0 => queue = <<>>) /\ Len(queue) < BATCH
    BY DEF IInv, QueueInv
  <1>2. ASSUME NEW k \in DOMAIN queue
        PROVE  /\ queue[k].seed = BatchTree[queue[k].dsc] /\ queue[k].seed # NoSeed
               /\ Current(at) \notin {queue[k].child, queue[k].child + 1}
    <2>1. queue # <<>> /\ at.i # 0 /\ l # LOG2T
      BY <1>2 DEF IInv, QueueInv
    <2>2. l \in 0 .. LOG2T - 1 /\ at.i \in 0 .. npl[l] - 1 /\ Current(at) = Node(l, at.i)
      <3>1. CASE pc = "gen_seed_tree"
        <4>1. l \in 0 .. LOG2T - 1 /\ at.start = LevelStart[l] /\ at.i \in 0 .. Expanded(l) - 1
          BY <2>1, <3>1, LevelFacts DEF IInv, PositionInv, Levels
        <4> QED BY <4>1, ChildNode DEF Current, Node
      <3>2. CASE pc = "rebuild_tree"
        <4>1. l \in 1 .. LOG2T + 1 /\ (l > LOG2T => at.i = 0) /\ LOG2T \in Nat
              /\ (l <= LOG2T => at.start = LevelStart[l] /\ at.i \in 0 .. npl[l] - 1)
          BY <3>2, LevelFacts DEF IInv, PositionInv, Scanning
        <4>2. l \in 0 .. LOG2T - 1 /\ l <= LOG2T
          BY <2>1, <4>1
        <4> QED BY <4>1, <4>2 DEF Current, Node
      <3> QED BY <3>1, <3>2 DEF Batching
    <2>3. JobsOf(BatchTree, queue, l)
      <3>1. l < LOG2T
        BY <2>2, LevelFacts
      <3> QED BY <3>1 DEF IInv, QueueInv
    <2>4. PICK j \in 0 .. Expanded(l) - 1 :
            BatchTree[Node(l, j)] \in Seed /\ queue[k] = JobOf(BatchTree, l, j)
      BY <2>3 DEF JobsOf
    <2>5. queue[k].seed = BatchTree[queue[k].dsc] /\ queue[k].seed # NoSeed
      BY <2>4 DEF JobOf, SeedAssumption
    <2>6. l \in Levels /\ l # l + 1
      BY <2>2, LevelFacts
    <2>7. Node(l, at.i) \notin {queue[k].child, queue[k].child + 1}
      BY <2>2, <2>3, <2>6, JobChildren
    <2> QED BY <2>2, <2>5, <2>7
  <1> QED BY <1>1, <1>2

\* The batches of gen_seed_tree and rebuild_tree cannot be noticed: the queue is
\* empty when a level begins and never takes a fifth job, a queued seed is the
\* one its node holds, and no loop reads a node that is still to be filled.
THEOREM NeverReadPendingCorrect ==
  ASSUME SeedAssumption
  PROVE  Spec /\ []Fits => []NeverReadPending
  <1>1. IInv => NeverReadPending
    BY NothingPendingRead
  <1>2. Spec /\ []Fits => []IInv
    BY Invariance
  <1> QED BY <1>1, <1>2, PTL

\* The verifier uses every published seed, and the padding check of an honest
\* path succeeds.
THEOREM PaddingAcceptedCorrect ==
  ASSUME SeedAssumption
  PROVE  Spec /\ []Fits => []PaddingAccepted
  <1>1. IInv => PaddingAccepted
    BY AllUsed DEF IInv, RebuildInv, PathInv, PaddingAccepted
  <1>2. Spec /\ []Fits => []IInv
    BY Invariance
  <1> QED BY <1>1, <1>2, PTL

-----------------------------------------------------------------------------
(* CROSSSeedTree implements RoundSeeds. *)

\* A leaf the challenge opens is labelled, so the verifier's tree holds the
\* signer's seed there.
LEMMA OpenedLeaf ==
  ASSUME IInv, pc = "rebuilt", NEW r \in Rounds
  PROVE  rebuilt_tree[LeafNode(r)] =
           IF indices_to_publish[r] = TO_PUBLISH THEN seed_tree[LeafNode(r)] ELSE NoSeed
  <1>1. PICK l \in Levels : \E i \in 0 .. npl[l] - 1 :
          LeafNode(r) = Node(l, i) /\ l # 0 /\ Node(l, i) < 2 * T - 1
    BY LeafPosition
  <1>2. PICK i \in 0 .. npl[l] - 1 : LeafNode(r) = Node(l, i) /\ l # 0 /\ Node(l, i) < 2 * T - 1
    BY <1>1
  <1>3. l > 0
    BY <1>2, LevelFacts DEF Levels
  <1>4. flags[Node(l, i)] = indices_to_publish[r]
    BY <1>2 DEF IInv, FlagsInv, LeavesLabelled
  <1>5. Filled(l, i, 2 * T - 1) <=> indices_to_publish[r] = TO_PUBLISH
    BY <1>2, <1>3, <1>4 DEF Filled
  <1> QED BY <1>2, <1>5 DEF IInv, RebuildInv, RebuiltUpTo

\* The signer's tree has a seed in every leaf once it is built.
LEMMA LeafSeed ==
  ASSUME SeedAssumption, IInv, pc # "gen_seed_tree", NEW r \in Rounds
  PROVE  seed_tree[LeafNode(r)] \in Seed
  <1>1. PICK l \in Levels : \E i \in 0 .. npl[l] - 1 : LeafNode(r) = Node(l, i) /\ l # 0
    BY LeafPosition
  <1>2. PICK i \in 0 .. npl[l] - 1 : LeafNode(r) = Node(l, i) /\ l # 0
    BY <1>1
  <1>3. l \in 1 .. LOG2T
    BY <1>2 DEF Levels
  <1> QED BY <1>2, <1>3, SignerSeeds DEF IInv

SignerHasSeeds == pc # "gen_seed_tree" => round_seeds \in [Rounds -> Seed]

OpenedRounds == {r \in Rounds : indices_to_publish[r] = TO_PUBLISH}

VerifierHasOpened ==
  pc = "rebuilt" =>
    rebuilt_seeds = [r \in Rounds |-> IF r \in OpenedRounds THEN round_seeds[r] ELSE NoSeed]

LEMMA SignerRounds == SeedAssumption /\ IInv => SignerHasSeeds
  <1> SUFFICES ASSUME SeedAssumption, IInv, pc # "gen_seed_tree"
               PROVE  round_seeds \in [Rounds -> Seed]
    BY DEF SignerHasSeeds
  <1>1. round_seeds = [r \in Rounds |-> seed_tree[LeafNode(r)]]
    BY SeedLeaves DEF IInv, BuildInv
  <1>2. \A r \in Rounds : seed_tree[LeafNode(r)] \in Seed
    BY LeafSeed
  <1> QED BY <1>1, <1>2

LEMMA VerifierRounds == IInv => VerifierHasOpened
  <1> SUFFICES ASSUME IInv, pc = "rebuilt"
               PROVE  rebuilt_seeds = [r \in Rounds |->
                        IF r \in OpenedRounds THEN round_seeds[r] ELSE NoSeed]
    BY DEF VerifierHasOpened
  <1>1. /\ rebuilt_seeds = [r \in Rounds |-> rebuilt_tree[LeafNode(r)]]
        /\ round_seeds = [r \in Rounds |-> seed_tree[LeafNode(r)]]
    BY SeedLeaves DEF IInv, RebuildInv, BuildInv
  <1>2. \A r \in Rounds : rebuilt_tree[LeafNode(r)] =
          IF indices_to_publish[r] = TO_PUBLISH THEN seed_tree[LeafNode(r)] ELSE NoSeed
    BY OpenedLeaf
  <1>3. \A r \in Rounds : r \in OpenedRounds <=> indices_to_publish[r] = TO_PUBLISH
    BY DEF OpenedRounds
  <1> QED BY <1>1, <1>2, <1>3

\* A step of the batched tree is one of RoundSeeds or leaves its state alone.
LEMMA RoundSeedsStep ==
  ASSUME [Next]_vars, SignerHasSeeds', VerifierHasOpened'
  PROVE  [RS!Next]_(RS!vars)
  <1>1. CASE GenDone
    BY <1>1 DEF GenDone, SignerHasSeeds, RS!Next, RS!Generate, labels, verifier
  <1>2. ASSUME NEW ch \in Challenges, Open(ch) PROVE RS!Open
    <2>1. pc = "generated" /\ pc' = "seed_path_flags" /\ indices_to_publish' = ch
          /\ UNCHANGED <<round_seeds, rebuilt_seeds>>
      BY <1>2 DEF Open, signer, verifier
    <2> QED BY <2>1 DEF RS!Open
  <1>3. CASE RebuildDone
    BY <1>3 DEF RebuildDone, VerifierHasOpened, OpenedRounds, RS!Next, RS!Recover,
                      signer, labels
  <1>4. CASE GenNode
    BY <1>4 DEF GenNode, RS!vars, labels, verifier
  <1>5. CASE FlagParent \/ FlagsDone
    BY <1>5 DEF FlagParent, FlagsDone, RS!vars, signer, labels, verifier
  <1>6. CASE ScanNode \/ PathDone \/ CallRebuild \/ RebuildNode
    BY <1>6 DEF ScanNode, PathDone, CallRebuild, RebuildNode, RS!vars, signer, labels, verifier
  <1>7. CASE UNCHANGED vars
    BY <1>7 DEF vars, RS!vars, signer, labels, verifier
  <1> QED BY <1>1, <1>2, <1>3, <1>4, <1>5, <1>6, <1>7 DEF Next, Steps, RS!Next

\* For every layout, challenge and CSPRNG, every step of the batched tree is a
\* step of RoundSeeds or leaves its state alone: the verifier gets the seeds of
\* the rounds the challenge opens and of no other.
THEOREM Refinement ==
  ASSUME SeedAssumption
  PROVE  Spec /\ []Fits => RS!Safety
  <1>1. Init => RS!Init
    BY DEF Init, RS!Init
  <1>2. [Next]_vars /\ SignerHasSeeds' /\ VerifierHasOpened' => [RS!Next]_(RS!vars)
    BY RoundSeedsStep
  <1>3. IInv => SignerHasSeeds /\ VerifierHasOpened
    BY SignerRounds, VerifierRounds
  <1>4. Spec /\ []Fits => []IInv
    BY Invariance
  <1> QED BY <1>1, <1>2, <1>3, <1>4, PTL DEF Spec, RS!Safety
=============================================================================
