--------------------------- MODULE SeedTree_proof ---------------------------
(***************************************************************************)
(* What holds of the seed tree for every layout GGMLayout describes, every *)
(* number of rounds, every challenge and every CSPRNG.                     *)
(***************************************************************************)
EXTENDS SeedTreeInv, FiniteSetTheorems, TLAPS

-----------------------------------------------------------------------------
(* The layout *)

\* Levels fill the array one after the other: nodes are ordered as the pairs
\* of level and position are.
LEMMA NodeOrder ==
  ASSUME NEW l \in Levels, NEW i \in 0 .. npl[l] - 1,
         NEW m \in Levels, NEW k \in 0 .. npl[m] - 1
  PROVE  /\ Node(l, i) \in Nodes
         /\ Node(l, i) < LevelStart[l] + npl[l]
         /\ Node(l, i) < Node(m, k) <=> l < m \/ (l = m /\ i < k)
         /\ Node(l, i) = Node(m, k) <=> l = m /\ i = k
  <1>1. /\ LOG2T \in Nat /\ T \in Nat /\ l \in Nat /\ m \in Nat
        /\ npl[l] \in Nat /\ npl[m] \in Nat /\ i \in Nat /\ k \in Nat
        /\ LevelStart[l] \in Nat /\ LevelStart[m] \in Nat
        /\ LOG2T \in Levels /\ npl[LOG2T] \in Nat /\ LevelStart[LOG2T] \in Nat
    BY TablesType DEF Levels
  <1>2. LevelStart[l] + npl[l] <= 2 * T - 1
    <2>1. CASE l = LOG2T
      BY <2>1, LevelStartAssumption, <1>1
    <2>2. CASE l # LOG2T
      <3>1. l < LOG2T
        BY <2>2, <1>1 DEF Levels
      <3>2. LevelStart[l] + npl[l] <= LevelStart[LOG2T]
        BY <3>1, <1>1, LevelStartAssumption
      <3> QED BY <3>2, <1>1, LevelStartAssumption
    <2> QED BY <2>1, <2>2
  <1>3. l < m => LevelStart[l] + npl[l] <= LevelStart[m]
    BY LevelStartAssumption
  <1>4. m < l => LevelStart[m] + npl[m] <= LevelStart[l]
    BY LevelStartAssumption
  <1> QED BY <1>1, <1>2, <1>3, <1>4 DEF Node, Nodes

\* The children of an expanded node are where left_child_node says, next to
\* each other, and are nodes of the next level.
LEMMA ChildNode ==
  ASSUME NEW l \in 0 .. LOG2T - 1, NEW i \in 0 .. Expanded(l) - 1
  PROVE  /\ l \in Levels /\ l + 1 \in Levels /\ i \in 0 .. npl[l] - 1
         /\ 2 * i \in 0 .. npl[l + 1] - 1 /\ 2 * i + 1 \in 0 .. npl[l + 1] - 1
         /\ LeftChildNode(Node(l, i), l) = Node(l + 1, 2 * i)
         /\ Node(l + 1, 2 * i + 1) = Node(l + 1, 2 * i) + 1
         /\ Node(l, i) < Node(l + 1, 2 * i)
  <1>1. /\ LOG2T \in Nat /\ l \in Nat /\ l \in Levels /\ l + 1 \in Levels
    BY TablesType DEF Levels
  <1>2. /\ npl[l] \in Nat /\ lpl[l] \in Nat /\ npl[l + 1] \in Nat /\ off[l] \in Nat
        /\ LevelStart[l] \in Nat /\ LevelStart[l + 1] \in Nat
    BY <1>1, TablesType
  <1>3. npl[l + 1] = 2 * (npl[l] - lpl[l]) /\ i \in Int
    BY LayoutAssumption DEF Expanded
  <1>4. 2 * LevelStart[l] + 1 - off[l] = LevelStart[l + 1]
    BY <1>1, <1>2, LayoutAssumption DEF LeftChildNode, LEFT_CHILD
  <1>5. LevelStart[l + 1] = LevelStart[l] + npl[l]
    BY LevelStartAssumption
  <1>6. i \in Nat /\ i < npl[l] - lpl[l]
    BY <1>2 DEF Expanded
  <1>7. i \in 0 .. npl[l] - 1
    BY <1>2, <1>6
  <1>8. 2 * i \in 0 .. npl[l + 1] - 1 /\ 2 * i + 1 \in 0 .. npl[l + 1] - 1
    BY <1>2, <1>3, <1>6
  <1>9. Node(l + 1, 2 * i) = LevelStart[l + 1] + 2 * i /\ Node(l, i) = LevelStart[l] + i
    BY DEF Node
  <1>10. Node(l + 1, 2 * i + 1) = LevelStart[l + 1] + (2 * i + 1)
    BY DEF Node
  <1>11. LeftChildNode(Node(l, i), l) = Node(l + 1, 2 * i)
    BY <1>2, <1>4, <1>6, <1>9 DEF LeftChildNode, LEFT_CHILD
  <1>12. Node(l, i) < Node(l + 1, 2 * i)
    BY <1>2, <1>5, <1>6, <1>7, <1>9
  <1>13. Node(l + 1, 2 * i + 1) = Node(l + 1, 2 * i) + 1
    BY <1>2, <1>6, <1>9, <1>10
  <1> QED BY <1>1, <1>7, <1>8, <1>11, <1>12, <1>13

\* father_node is the expanded node of the level before at half the position.
LEMMA ParentNode ==
  ASSUME NEW l \in 1 .. LOG2T, NEW i \in 0 .. npl[l] - 1
  PROVE  /\ l \in Levels /\ l - 1 \in 0 .. LOG2T - 1
         /\ i \div 2 \in 0 .. Expanded(l - 1) - 1
         /\ FatherNode(Node(l, i), l) = Node(l - 1, i \div 2)
         /\ i = 2 * (i \div 2) \/ i = 2 * (i \div 2) + 1
  <1>1. /\ LOG2T \in Nat /\ l \in Nat /\ l \in Levels /\ l - 1 \in 0 .. LOG2T - 1
        /\ l - 1 \in Levels /\ (l - 1) + 1 = l
    BY TablesType DEF Levels
  <1>2. /\ npl[l] \in Nat /\ lpl[l - 1] \in Nat /\ npl[l - 1] \in Nat /\ off[l - 1] \in Nat
        /\ LevelStart[l] \in Nat /\ LevelStart[l - 1] \in Nat /\ i \in Nat
    BY <1>1, TablesType
  <1>3. npl[l] = 2 * (npl[l - 1] - lpl[l - 1]) /\ off[l - 1] % 2 = 0
    BY <1>1, LayoutAssumption DEF Expanded
  <1>4. 2 * LevelStart[l - 1] + 1 - off[l - 1] = LevelStart[l]
    BY <1>1, <1>2, LayoutAssumption DEF LeftChildNode, LEFT_CHILD
  <1>5. PICK h \in Nat : off[l - 1] = 2 * h
    BY <1>2, <1>3
  <1>6. off[l - 1] \div 2 = h
    BY <1>5
  <1>7. PICK j \in Nat : i = 2 * j \/ i = 2 * j + 1
    <2>1. i \div 2 \in Nat /\ (i = 2 * (i \div 2) \/ i = 2 * (i \div 2) + 1)
      BY <1>2
    <2> QED BY <2>1
  <1>8. i \div 2 = j
    BY <1>7
  <1>9. j \in 0 .. Expanded(l - 1) - 1
    BY <1>2, <1>3, <1>7 DEF Expanded
  <1>10. LevelStart[l] = 2 * (LevelStart[l - 1] - h) + 1
    BY <1>2, <1>4, <1>5
  <1>11. PARENT(Node(l, i)) = LevelStart[l - 1] - h + j
    BY <1>2, <1>7, <1>10 DEF PARENT, Node
  <1>12. FatherNode(Node(l, i), l) = LevelStart[l - 1] + j
    BY <1>2, <1>6, <1>11 DEF FatherNode
  <1> QED BY <1>1, <1>7, <1>8, <1>9, <1>12 DEF Node

\* The sibling of a node at an even position is the next node.
LEMMA SiblingNode ==
  ASSUME NEW l \in 1 .. LOG2T, NEW i \in 0 .. npl[l] - 1, i % 2 = 0
  PROVE  SIBLING(Node(l, i)) = Node(l, i + 1) /\ i + 1 \in 0 .. npl[l] - 1
  <1>1. /\ LOG2T \in Nat /\ l \in Nat /\ l - 1 \in 0 .. LOG2T - 1
        /\ l \in Levels /\ l - 1 \in Levels /\ (l - 1) + 1 = l
    BY TablesType DEF Levels
  <1>2. /\ npl[l] \in Nat /\ lpl[l - 1] \in Nat /\ npl[l - 1] \in Nat /\ off[l - 1] \in Nat
        /\ LevelStart[l] \in Nat /\ LevelStart[l - 1] \in Nat /\ i \in Nat
    BY <1>1, TablesType
  <1>3. npl[l] = 2 * (npl[l - 1] - lpl[l - 1]) /\ off[l - 1] % 2 = 0
    BY <1>1, LayoutAssumption DEF Expanded
  <1>4. 2 * LevelStart[l - 1] + 1 - off[l - 1] = LevelStart[l]
    BY <1>1, <1>2, LayoutAssumption DEF LeftChildNode, LEFT_CHILD
  <1>5. PICK h \in Nat : off[l - 1] = 2 * h
    BY <1>2, <1>3
  <1>6. PICK j \in Nat : i = 2 * j
    <2>1. i \div 2 \in Nat /\ i = 2 * (i \div 2)
      BY <1>2
    <2> QED BY <2>1
  <1>7. i + 1 \in 0 .. npl[l] - 1
    BY <1>2, <1>3, <1>6
  <1>8. LevelStart[l] + i = 2 * (LevelStart[l - 1] - h + j) + 1
    BY <1>2, <1>4, <1>5, <1>6
  <1>9. (LevelStart[l] + i) % 2 = 1
    BY <1>2, <1>8
  <1>10. Node(l, i + 1) = Node(l, i) + 1 /\ Node(l, i) % 2 = 1
    BY <1>2, <1>9 DEF Node
  <1> QED BY <1>7, <1>10 DEF SIBLING

\* The levels as numbers, for the steps that only count.
LEMMA LevelFacts ==
  /\ LOG2T \in Nat \ {0} /\ T \in Nat \ {0} /\ 0 \in Levels /\ LOG2T \in Levels
  /\ \A l \in Levels : /\ l \in Nat /\ npl[l] \in Nat \ {0} /\ lpl[l] \in Nat
                       /\ LevelStart[l] \in Nat /\ Expanded(l) \in 0 .. npl[l]
  /\ \A l \in 0 .. LOG2T - 1 :
       /\ l \in Levels /\ l + 1 \in Levels
       /\ LevelStart[l + 1] = LevelStart[l] + npl[l]
       /\ npl[l + 1] = 2 * Expanded(l)
  /\ npl[0] = 1 /\ LevelStart[0] = 0 /\ LevelStart[1] = 1 /\ Expanded(0) = 1
  /\ Expanded(LOG2T) = 0
  /\ LevelStart[LOG2T] + npl[LOG2T] = 2 * T - 1
  /\ leaves_start_indices[1] = LevelStart[LOG2T]
  <1>1. /\ LOG2T \in Nat \ {0} /\ T \in Nat \ {0} /\ 0 \in Levels /\ LOG2T \in Levels
        /\ 0 \in 0 .. LOG2T - 1
    BY TablesType DEF Levels
  <1>2. ASSUME NEW l \in Levels
        PROVE  /\ l \in Nat /\ npl[l] \in Nat \ {0} /\ lpl[l] \in Nat
               /\ LevelStart[l] \in Nat /\ Expanded(l) \in 0 .. npl[l]
    <2>1. l \in Nat /\ npl[l] \in Nat \ {0} /\ lpl[l] \in Nat /\ LevelStart[l] \in Nat
      BY TablesType DEF Levels
    <2>2. lpl[l] <= npl[l]
      BY LayoutAssumption
    <2> QED BY <2>1, <2>2 DEF Expanded
  <1>3. ASSUME NEW l \in 0 .. LOG2T - 1
        PROVE  /\ l \in Levels /\ l + 1 \in Levels
               /\ LevelStart[l + 1] = LevelStart[l] + npl[l]
               /\ npl[l + 1] = 2 * Expanded(l)
    <2>1. l \in Levels /\ l + 1 \in Levels
      BY TablesType DEF Levels
    <2> QED BY <2>1, LevelStartAssumption, LayoutAssumption
  <1>4. npl[0] = 1 /\ LevelStart[0] = 0 /\ LevelStart[1] = 1 /\ Expanded(0) = 1
    <2>1. npl[0] = 1 /\ LevelStart[0] = 0 /\ lpl[0] = 0
      BY LevelStartAssumption, LayoutAssumption
    <2>2. LevelStart[0 + 1] = LevelStart[0] + npl[0]
      BY <1>1, LevelStartAssumption
    <2> QED BY <2>1, <2>2 DEF Expanded
  <1>5. Expanded(LOG2T) = 0
    BY <1>1, <1>2, LayoutAssumption DEF Expanded
  <1> QED BY <1>1, <1>2, <1>3, <1>4, <1>5, LevelStartAssumption, LeavesAssumption

\* A first sibling has an odd index.
LEMMA OddNode ==
  ASSUME NEW l \in 0 .. LOG2T - 1, NEW i \in 0 .. Expanded(l) - 1
  PROVE  Node(l + 1, 2 * i) % 2 = 1
  <1>1. /\ l \in Levels /\ l + 1 \in Levels /\ off[l] \in Nat /\ off[l] % 2 = 0
        /\ LevelStart[l] \in Nat /\ LevelStart[l + 1] \in Nat /\ i \in Nat
    BY TablesType, LayoutAssumption, LevelFacts DEF Levels
  <1>2. 2 * LevelStart[l] + 1 - off[l] = LevelStart[l + 1]
    BY <1>1, LayoutAssumption DEF LeftChildNode, LEFT_CHILD
  <1>3. PICK h \in Nat : off[l] = 2 * h
    BY <1>1
  <1>4. LevelStart[l + 1] + 2 * i = 2 * (LevelStart[l] - h + i) + 1
    BY <1>1, <1>2, <1>3
  <1> QED BY <1>1, <1>3, <1>4 DEF Node

\* Nodes below the root come after it, before the end of the array.
LEMMA NodeBelowRoot ==
  ASSUME NEW l \in 1 .. LOG2T, NEW i \in 0 .. npl[l] - 1
  PROVE  Node(l, i) \in 1 .. 2 * T - 2 /\ T \in Nat /\ l \in Levels
  <1>1. l \in Levels /\ 0 \in Levels /\ 0 \in 0 .. npl[0] - 1 /\ 0 < l /\ Node(0, 0) = 0 /\ T \in Nat
    BY LevelFacts DEF Levels, Node
  <1>2. Node(0, 0) < Node(l, i) /\ Node(l, i) \in Nodes
    BY <1>1, NodeOrder
  <1> QED BY <1>1, <1>2 DEF Nodes

\* The rounds are the nodes that are not expanded.
LEMMA LeafNodes ==
  /\ \A r \in Rounds : \E l \in Levels : \E i \in 0 .. npl[l] - 1 :
        LeafNode(r) = Node(l, i) /\ ~IsInner(l, i)
  /\ \A l \in Levels : \A i \in 0 .. npl[l] - 1 :
        ~IsInner(l, i) => \E r \in Rounds : LeafNode(r) = Node(l, i)
  <1>1. ASSUME NEW r \in Rounds
        PROVE  \E l \in Levels : \E i \in 0 .. npl[l] - 1 : LeafNode(r) = Node(l, i) /\ ~IsInner(l, i)
    <2>1. PICK l \in Levels : \E i \in Expanded(l) .. npl[l] - 1 : LeafNode(r) = Node(l, i)
      BY LeavesAssumption
    <2>2. PICK i \in Expanded(l) .. npl[l] - 1 : LeafNode(r) = Node(l, i)
      BY <2>1
    <2>3. npl[l] \in Nat /\ lpl[l] \in Nat /\ lpl[l] <= npl[l]
      BY TablesType, LayoutAssumption
    <2>4. i \in 0 .. npl[l] - 1 /\ ~IsInner(l, i)
      BY <2>3 DEF Expanded, IsInner
    <2> QED BY <2>2, <2>4
  <1>2. ASSUME NEW l \in Levels, NEW i \in 0 .. npl[l] - 1, ~IsInner(l, i)
        PROVE  \E r \in Rounds : LeafNode(r) = Node(l, i)
    <2>1. npl[l] \in Nat /\ lpl[l] \in Nat /\ LOG2T \in Nat /\ LOG2T \in Levels
      BY TablesType DEF Levels
    <2>2. i \in Expanded(l) .. npl[l] - 1
      <3>1. CASE l = LOG2T
        <4>1. lpl[LOG2T] = npl[LOG2T]
          BY LayoutAssumption
        <4> QED BY <3>1, <4>1, <2>1 DEF Expanded
      <3>2. CASE l # LOG2T
        BY <3>2, <1>2, <2>1 DEF Expanded, IsInner, Levels
      <3> QED BY <3>1, <3>2
    <2> QED BY <2>2, LeavesAssumption
  <1> QED BY <1>1, <1>2

-----------------------------------------------------------------------------
(* The loop variables *)

LEMMA LoopStep == TypeOK /\ LoopInv /\ [Next]_vars => LoopInv'
  <1> SUFFICES ASSUME TypeOK, LoopInv, [Next]_vars PROVE LoopInv'
    OBVIOUS
  <1> USE DEF Computing, Scanning
  <1>1. CASE ExpandNode
    <2>1. level \in Levels /\ node_in_level \in 0 .. Expanded(level)
      BY <1>1 DEF ExpandNode, LoopInv
    <2>2. Expanded(level) \in Nat
      BY <2>1, LevelFacts
    <2> QED BY <1>1, <2>1, <2>2 DEF ExpandNode, NextNode, StartLoop, LoopInv
  <1>2. CASE BuildNextLevel
    <2>1. level \in 0 .. LOG2T - 1 /\ start_node = LevelStart[level]
      BY <1>2, LevelFacts DEF BuildNextLevel, LoopInv, Levels
    <2>2. level + 1 \in Levels /\ LevelStart[level + 1] = LevelStart[level] + npl[level]
          /\ Expanded(level + 1) \in Nat
      BY <2>1, LevelFacts
    <2> QED BY <1>2, <2>1, <2>2 DEF BuildNextLevel, NextLevelDown, StartLoop, LoopInv
  <1>3. CASE SignerSeedLeaves
    BY <1>3 DEF SignerSeedLeaves, LoopInv
  <1>4. ASSUME StartComputing, Computing' PROVE LoopInv'
    <2>1. /\ LOG2T \in Levels /\ LOG2T \in Nat \ {0} /\ npl[LOG2T] \in Nat \ {0}
          /\ npl[LOG2T] = 2 * Expanded(LOG2T - 1) /\ Expanded(LOG2T - 1) \in Nat
          /\ leaves_start_indices[1] = LevelStart[LOG2T]
      <3>1. LOG2T - 1 \in 0 .. LOG2T - 1 /\ (LOG2T - 1) + 1 = LOG2T
        BY LevelFacts
      <3> QED BY <3>1, LevelFacts
    <2>2. npl[LOG2T] - 2 \in -2 .. npl[LOG2T] - 2 /\ (npl[LOG2T] - 2) % 2 = 0
      BY <2>1
    <2> QED BY <1>4, <2>1, <2>2 DEF StartComputing, StartLoop, LoopInv
  <1>5. CASE SampleChallenge
    BY <1>4, <1>5 DEF SampleChallenge
  <1>6. CASE PathDone
    BY <1>4, <1>6 DEF PathDone
  <1>7. CASE ComputeParent
    <2>0. level \in Levels
      BY <1>7 DEF ComputeParent, LoopInv
    <2>1. level \in Levels /\ npl[level] \in Nat /\ level > 0
          /\ node_in_level \in 0 .. npl[level] - 2 /\ node_in_level % 2 = 0
          /\ start_node = LevelStart[level]
      <3>1. npl[level] \in Nat
        BY <2>0, LevelFacts
      <3> QED BY <1>7, <2>0, <3>1 DEF ComputeParent, LoopInv
    <2>2. node_in_level - 2 \in -2 .. npl[level] - 2 /\ (node_in_level - 2) % 2 = 0
      BY <2>1
    <2> QED BY <1>7, <2>1, <2>2, LevelFacts DEF ComputeParent, StartLoop, LoopInv
  <1>8. CASE ComputePrevLevel
    <2>1. level - 1 \in 0 .. LOG2T - 1 /\ (level - 1) + 1 = level
          /\ start_node = LevelStart[level]
      BY <1>8, LevelFacts DEF ComputePrevLevel, LoopInv, Levels
    <2>2. level - 1 \in Levels /\ LevelStart[level] = LevelStart[level - 1] + npl[level - 1]
          /\ npl[level - 1] \in Nat \ {0} /\ LevelStart[level - 1] \in Nat
      BY <2>1, LevelFacts
    <2>3. level - 1 > 0 => npl[level - 1] % 2 = 0
      <3>1. SUFFICES ASSUME level - 1 > 0 PROVE npl[level - 1] % 2 = 0
        OBVIOUS
      <3>2. level - 2 \in 0 .. LOG2T - 1 /\ (level - 2) + 1 = level - 1
        BY <2>1, <3>1, LevelFacts
      <3>3. npl[level - 1] = 2 * Expanded(level - 2) /\ Expanded(level - 2) \in Nat
        BY <3>2, LevelFacts
      <3> QED BY <3>3
    <2>4. level - 1 = 0 => npl[level - 1] = 1
      BY LevelFacts
    <2>5. level - 1 > 0 => (npl[level - 1] - 2) % 2 = 0
      BY <2>2, <2>3
    <2> QED BY <1>8, <2>1, <2>2, <2>4, <2>5 DEF ComputePrevLevel, StartLoop, LoopInv
  <1>9. CASE ComputeDone
    <2>1. 1 \in 1 .. LOG2T + 1 /\ 1 \in Levels /\ npl[1] \in Nat \ {0} /\ LevelStart[1] = 1
          /\ 1 <= LOG2T
      <3>1. 1 \in Levels
        BY LevelFacts DEF Levels
      <3> QED BY <3>1, LevelFacts
    <2>2. pc' \in {"GGMPath", "RebuildGGM"}
      BY <1>9 DEF ComputeDone
    <2> QED BY <1>9, <2>1, <2>2, LevelFacts DEF ComputeDone, StartLoop, LoopInv
  <1>10. ASSUME \E f \in {"GGMPath", "RebuildGGM"} : ScanNode(f), NextNode, pc' = pc PROVE LoopInv'
    <2>1. level \in 1 .. LOG2T /\ node_in_level \in 0 .. npl[level] - 1
          /\ start_node = LevelStart[level] /\ level \in Levels /\ npl[level] \in Nat
      BY <1>10, LevelFacts DEF ScanNode, LoopInv, Levels
    <2>2. pc' \in {"GGMPath", "RebuildGGM"} /\ level' = level /\ start_node' = start_node
          /\ node_in_level' = node_in_level + 1 /\ node_in_level + 1 \in 0 .. npl[level]
      BY <1>10, <2>1 DEF ScanNode, NextNode, StartLoop
    <2> QED BY <2>1, <2>2, LevelFacts DEF LoopInv
  <1>11. CASE PublishNode
    BY <1>10, <1>11 DEF PublishNode
  <1>12. CASE PassNode
    BY <1>10, <1>12 DEF PassNode
  <1>13. CASE RebuildNode
    BY <1>10, <1>13 DEF RebuildNode
  <1>14. CASE ScanNextLevel
    <2>1. level \in 1 .. LOG2T /\ level \in Levels /\ start_node = LevelStart[level]
      BY <1>14, LevelFacts DEF ScanNextLevel, LoopInv, Levels
    <2>2. CASE level = LOG2T
      BY <1>14, <2>1, <2>2, LevelFacts DEF ScanNextLevel, NextLevelDown, StartLoop, LoopInv
    <2>3. CASE level < LOG2T
      <3>1. level + 1 \in Levels /\ LevelStart[level + 1] = LevelStart[level] + npl[level]
            /\ npl[level + 1] \in Nat
        BY <2>1, <2>3, LevelFacts
      <3> QED BY <1>14, <2>1, <2>3, <3>1, LevelFacts
              DEF ScanNextLevel, NextLevelDown, StartLoop, LoopInv
    <2> QED BY <2>1, <2>2, <2>3, LevelFacts
  <1>15. CASE VerifierSeedLeaves
    BY <1>15 DEF VerifierSeedLeaves, LoopInv
  <1>16. CASE UNCHANGED vars
    BY <1>16 DEF vars, loop, LoopInv
  <1> QED BY <1>1, <1>2, <1>3, <1>5, <1>6, <1>7, <1>8, <1>9, <1>11, <1>12, <1>13, <1>14,
             <1>15, <1>16 DEF Next

-----------------------------------------------------------------------------
(* The node each loop works on, in terms of its level and position *)

LEMMA BuildNode ==
  ASSUME LoopInv, ExpandNode
  PROVE  /\ level \in 0 .. LOG2T - 1 /\ node_in_level \in 0 .. Expanded(level) - 1
         /\ current_node = Node(level, node_in_level) /\ Current = current_node
         /\ LeftChildNode(current_node, level) = Node(level + 1, 2 * node_in_level)
         /\ Current' = Current + 1 /\ Current \in Nodes
  <1>1. /\ level \in Levels /\ level < LOG2T /\ node_in_level \in 0 .. Expanded(level)
        /\ start_node = LevelStart[level] /\ node_in_level < Expanded(level)
    BY DEF LoopInv, ExpandNode
  <1>2. level \in 0 .. LOG2T - 1 /\ Expanded(level) \in Nat /\ start_node \in Nat
    BY <1>1, LevelFacts DEF Levels
  <1>3. node_in_level \in 0 .. Expanded(level) - 1
    BY <1>1, <1>2
  <1>4. current_node = Node(level, node_in_level) /\ Current = current_node
    BY <1>1 DEF current_node, Node, Current
  <1>5. Current' = Current + 1
    BY <1>1, <1>2 DEF ExpandNode, NextNode, StartLoop, Current
  <1>6. Current \in Nodes
    BY <1>2, <1>3, <1>4, ChildNode, NodeOrder
  <1> QED BY <1>2, <1>3, <1>4, <1>5, <1>6, ChildNode

LEMMA ComputeNode ==
  ASSUME LoopInv, ComputeParent
  PROVE  /\ level \in 1 .. LOG2T /\ node_in_level \in 0 .. npl[level] - 2
         /\ level \in Levels /\ node_in_level \in 0 .. npl[level] - 1
         /\ node_in_level + 1 \in 0 .. npl[level] - 1
         /\ current_node = Node(level, node_in_level) /\ Current = current_node
         /\ SIBLING(current_node) = Node(level, node_in_level + 1)
         /\ father_node = Node(level - 1, node_in_level \div 2)
         /\ level - 1 \in 0 .. LOG2T - 1 /\ level - 1 \in Levels
         /\ node_in_level \div 2 \in 0 .. Expanded(level - 1) - 1
         /\ node_in_level = 2 * (node_in_level \div 2)
         /\ Current' = Current - 2 /\ Current \in Nodes
  <1>1. /\ level \in Levels /\ level > 0 /\ node_in_level \in -2 .. npl[level] - 2
        /\ start_node = LevelStart[level] /\ node_in_level >= 0 /\ node_in_level % 2 = 0
    BY DEF LoopInv, ComputeParent
  <1>2. level \in 1 .. LOG2T /\ npl[level] \in Nat /\ start_node \in Nat
    BY <1>1, LevelFacts DEF Levels
  <1>3. node_in_level \in 0 .. npl[level] - 2 /\ node_in_level \in 0 .. npl[level] - 1
    BY <1>1, <1>2
  <1>4. current_node = Node(level, node_in_level) /\ Current = current_node
    BY <1>1 DEF current_node, Node, Current
  <1>5. SIBLING(current_node) = Node(level, node_in_level + 1) /\ node_in_level + 1 \in 0 .. npl[level] - 1
    BY <1>1, <1>2, <1>3, <1>4, SiblingNode
  <1>6. /\ father_node = Node(level - 1, node_in_level \div 2)
        /\ level - 1 \in 0 .. LOG2T - 1
        /\ node_in_level \div 2 \in 0 .. Expanded(level - 1) - 1
    BY <1>2, <1>3, <1>4, ParentNode DEF father_node
  <1>7. node_in_level = 2 * (node_in_level \div 2)
    BY <1>1, <1>3
  <1>8. Current' = Current - 2
    BY <1>1, <1>2 DEF ComputeParent, StartLoop, Current
  <1>9. Current \in Nodes
    BY <1>1, <1>3, <1>4, NodeOrder
  <1>10. level - 1 \in Levels
    BY <1>6, LevelFacts
  <1> QED BY <1>1, <1>2, <1>3, <1>4, <1>5, <1>6, <1>7, <1>8, <1>9, <1>10

LEMMA ScannedNode ==
  ASSUME LoopInv, \E f \in {"GGMPath", "RebuildGGM"} : ScanNode(f)
  PROVE  /\ level \in 1 .. LOG2T /\ node_in_level \in 0 .. npl[level] - 1 /\ level \in Levels
         /\ current_node = Node(level, node_in_level) /\ Current = current_node
         /\ father_node = Node(level - 1, node_in_level \div 2)
         /\ level - 1 \in 0 .. LOG2T - 1 /\ level - 1 \in Levels
         /\ node_in_level \div 2 \in 0 .. Expanded(level - 1) - 1
         /\ node_in_level \div 2 \in 0 .. npl[level - 1] - 1
         /\ NextNode => Current' = Current + 1
         /\ Current \in Nodes
  <1>1. /\ level \in 1 .. LOG2T /\ node_in_level \in 0 .. npl[level] /\ level \in Levels
        /\ start_node = LevelStart[level] /\ node_in_level < npl[level]
    BY LevelFacts DEF LoopInv, ScanNode, Scanning, Levels
  <1>2. npl[level] \in Nat /\ start_node \in Nat
    BY <1>1, LevelFacts
  <1>3. node_in_level \in 0 .. npl[level] - 1
    BY <1>1, <1>2
  <1>4. current_node = Node(level, node_in_level) /\ Current = current_node
    BY <1>1 DEF current_node, Node, Current
  <1>5. /\ father_node = Node(level - 1, node_in_level \div 2)
        /\ level - 1 \in 0 .. LOG2T - 1
        /\ node_in_level \div 2 \in 0 .. Expanded(level - 1) - 1
    BY <1>1, <1>3, <1>4, ParentNode DEF father_node
  <1>6. NextNode => Current' = Current + 1
    BY <1>1, <1>2 DEF NextNode, StartLoop, Current
  <1>7. Current \in Nodes
    BY <1>1, <1>3, <1>4, NodeOrder
  <1>8. level - 1 \in Levels /\ node_in_level \div 2 \in 0 .. npl[level - 1] - 1
    BY <1>5, ChildNode
  <1> QED BY <1>1, <1>3, <1>4, <1>5, <1>6, <1>7, <1>8

\* Going on to another level leaves the current node as it was.
LEMMA LevelChange ==
  /\ LoopInv /\ ScanNextLevel => Current' = Current
  /\ LoopInv /\ ComputePrevLevel => Current' = Current
  <1>1. ASSUME LoopInv, ScanNextLevel PROVE Current' = Current
    <2>1. level \in 1 .. LOG2T /\ start_node = LevelStart[level] /\ level \in Levels
          /\ node_in_level \in 0 .. npl[level] /\ node_in_level >= npl[level]
      BY <1>1, LevelFacts DEF LoopInv, ScanNextLevel, Scanning, Levels
    <2>2. npl[level] \in Nat /\ start_node \in Nat
      BY <2>1, LevelFacts
    <2> QED BY <1>1, <2>1, <2>2 DEF ScanNextLevel, NextLevelDown, StartLoop, Current
  <1>2. ASSUME LoopInv, ComputePrevLevel PROVE Current' = Current
    <2>1. level \in 1 .. LOG2T /\ start_node = LevelStart[level] /\ level \in Levels
          /\ node_in_level \in -2 .. npl[level] - 2 /\ node_in_level < 0
          /\ node_in_level % 2 = 0
      BY <1>2, LevelFacts DEF LoopInv, ComputePrevLevel, Levels
    <2>2. level - 1 \in Levels /\ npl[level - 1] \in Nat /\ npl[level] \in Nat /\ start_node \in Nat
      BY <2>1, LevelFacts DEF Levels
    <2>3. node_in_level = -2
      BY <2>1, <2>2
    <2> QED BY <1>2, <2>2, <2>3 DEF ComputePrevLevel, StartLoop, Current
  <1> QED BY <1>1, <1>2

-----------------------------------------------------------------------------
(* Types *)

LEMMA StoreChildrenType ==
  ASSUME NEW tree \in [Nodes -> Memory], NEW n \in Nodes, NEW left
  PROVE  StoreChildren(tree, n, left) \in [Nodes -> Memory]
  <1>1. tree[n] \in Memory
    OBVIOUS
  <1>2. Children(tree[n], n) \in Memory \X Memory
    <2>1. CASE tree[n] = NoSeed
      BY <2>1 DEF Children, Memory
    <2>2. CASE tree[n] # NoSeed
      <3>1. <<tree[n], n>> \in Seed \X Nodes
        BY <1>1, <2>2 DEF Memory
      <3>2. Expand[<<tree[n], n>>] \in Seed \X Seed
        BY <3>1, SeedAssumption
      <3> QED BY <2>2, <3>2 DEF Children, Memory
    <2> QED BY <2>1, <2>2
  <1>3. Children(tree[n], n)[1] \in Memory /\ Children(tree[n], n)[2] \in Memory
    BY <1>2
  <1> QED BY <1>3 DEF StoreChildren

LEMMA LabelType ==
  ASSUME NEW fl \in [Nodes -> {TO_PUBLISH, NOT_TO_PUBLISH}],
         NEW ch \in [Rounds -> {TO_PUBLISH, NOT_TO_PUBLISH}]
  PROVE  /\ label_leaves(fl, ch) \in [Nodes -> {TO_PUBLISH, NOT_TO_PUBLISH}]
         /\ \A r \in Rounds : label_leaves(fl, ch)[LeafNode(r)] = ch[r]
  <1>1. ASSUME NEW n \in Nodes
        PROVE  label_leaves(fl, ch)[n] \in {TO_PUBLISH, NOT_TO_PUBLISH}
    <2>1. CASE \E r \in Rounds : LeafNode(r) = n
      <3>1. (CHOOSE r \in Rounds : LeafNode(r) = n) \in Rounds
        BY <2>1
      <3> QED BY <2>1, <3>1 DEF label_leaves
    <2>2. CASE ~ \E r \in Rounds : LeafNode(r) = n
      BY <2>2 DEF label_leaves
    <2> QED BY <2>1, <2>2
  <1>2. label_leaves(fl, ch) = [n \in Nodes |-> label_leaves(fl, ch)[n]]
    BY DEF label_leaves
  <1>3. ASSUME NEW r \in Rounds PROVE label_leaves(fl, ch)[LeafNode(r)] = ch[r]
    <2>1. LeafNode(r) \in Nodes
      BY LeafNodes, NodeOrder
    <2>2. (CHOOSE q \in Rounds : LeafNode(q) = LeafNode(r)) = r
      BY LeavesAssumption
    <2> QED BY <2>1, <2>2 DEF label_leaves
  <1> QED BY <1>1, <1>2, <1>3

LEMMA SeedLeavesType ==
  ASSUME NEW tree \in [Nodes -> Memory]
  PROVE  seed_leaves(tree) \in [Rounds -> Memory]
  <1>1. \A r \in Rounds : LeafNode(r) \in Nodes
    BY LeafNodes, NodeOrder
  <1> QED BY <1>1 DEF seed_leaves

\* The loop variables stay in their types because they stay in the tree.
LEMMA LoopType ==
  ASSUME TypeOK, LoopInv', [Next]_vars
  PROVE  level' \in 0 .. LOG2T + 1 /\ node_in_level' \in Int /\ start_node' \in Nat
  <1>1. CASE pc' \in {"SampleChallenge", "done"}
    <2>1. UNCHANGED loop
      BY <1>1 DEF Next, ExpandNode, BuildNextLevel, SignerSeedLeaves, SampleChallenge,
                  ComputeParent, ComputePrevLevel, ComputeDone, PublishNode, PassNode,
                  ScanNextLevel, PathDone, RebuildNode, VerifierSeedLeaves, vars, Computing,
                  ScanNode
    <2> QED BY <2>1 DEF loop, TypeOK
  <1>2. CASE pc' \notin {"SampleChallenge", "done"}
    <2>1. (pc' = "BuildGGM" \/ Computing' \/ Scanning')
      BY <1>2 DEF Next, ExpandNode, BuildNextLevel, SignerSeedLeaves, SampleChallenge,
                  ComputeParent, ComputePrevLevel, ComputeDone, PublishNode, PassNode,
                  ScanNextLevel, PathDone, RebuildNode, VerifierSeedLeaves, vars, Computing,
                  Scanning, ScanNode, TypeOK
    <2>2. level' \in Levels => /\ npl[level'] \in Nat /\ Expanded(level') \in Nat
                               /\ LevelStart[level'] \in Nat
      BY LevelFacts
    <2>3. level' \in 1 .. LOG2T + 1 /\ level' <= LOG2T => level' \in Levels
      BY LevelFacts DEF Levels
    <2>4. CASE pc' = "BuildGGM"
      BY <2>4, <2>2, LevelFacts DEF LoopInv, Levels
    <2>5. CASE Computing'
      BY <2>5, <2>2, LevelFacts DEF LoopInv, Levels
    <2>6. CASE Scanning'
      BY <2>6, <2>2, <2>3, LevelFacts DEF LoopInv
    <2> QED BY <2>1, <2>4, <2>5, <2>6
  <1> QED BY <1>1, <1>2

LEMMA TypeStep == TypeOK /\ LoopInv /\ [Next]_vars => TypeOK'
  <1> SUFFICES ASSUME TypeOK, LoopInv, [Next]_vars PROVE TypeOK'
    OBVIOUS
  <1>0. level' \in 0 .. LOG2T + 1 /\ node_in_level' \in Int /\ start_node' \in Nat
    BY LoopStep, LoopType
  <1> USE <1>0
  <1>1. CASE ExpandNode
    <2>1. seed_tree' \in [Nodes -> Memory]
      BY <1>1, BuildNode, StoreChildrenType DEF ExpandNode, TypeOK
    <2> QED BY <1>1, <2>1 DEF ExpandNode, TypeOK, verifier
  <1>2. CASE BuildNextLevel
    BY <1>2 DEF BuildNextLevel, TypeOK, signer, verifier
  <1>3. CASE SignerSeedLeaves
    BY <1>3, SeedLeavesType DEF SignerSeedLeaves, TypeOK, loop, verifier
  <1>4. CASE SampleChallenge
    <2>1. PathFlags \in [Nodes -> {TO_PUBLISH, NOT_TO_PUBLISH}]
      BY DEF PathFlags
    <2>2. /\ indices_to_publish' \in [Rounds -> {TO_PUBLISH, NOT_TO_PUBLISH}]
          /\ flags' \in [Nodes -> {TO_PUBLISH, NOT_TO_PUBLISH}]
      BY <1>4, <2>1, LabelType, ChallengeAssumption DEF SampleChallenge
    <2> QED BY <1>4, <2>2 DEF SampleChallenge, TypeOK, signer, verifier
  <1>5. CASE ComputeParent
    BY <1>5 DEF ComputeParent, TypeOK, signer, verifier
  <1>6. CASE ComputePrevLevel
    BY <1>6 DEF ComputePrevLevel, TypeOK, signer, verifier
  <1>7. CASE ComputeDone
    BY <1>7 DEF ComputeDone, TypeOK, signer, verifier
  <1>8. CASE PublishNode
    <2>1. current_node \in Nodes
      BY <1>8, ScannedNode DEF PublishNode
    <2>2. seed_tree[current_node] \in Memory
      BY <2>1 DEF TypeOK
    <2> QED BY <1>8, <2>1, <2>2 DEF PublishNode, TypeOK, verifier
  <1>9. CASE PassNode
    BY <1>9 DEF PassNode, TypeOK, signer, verifier
  <1>10. CASE ScanNextLevel
    BY <1>10 DEF ScanNextLevel, TypeOK, signer, verifier
  <1>11. CASE PathDone
    <2>1. RebuildFlags \in [Nodes -> {TO_PUBLISH, NOT_TO_PUBLISH}]
      BY DEF RebuildFlags
    <2>2. flags' \in [Nodes -> {TO_PUBLISH, NOT_TO_PUBLISH}]
      BY <1>11, <2>1, LabelType DEF PathDone, TypeOK
    <2> QED BY <1>11, <2>2 DEF PathDone, TypeOK, verifier
  <1>12. CASE RebuildNode
    <2>1. current_node \in Nodes
      BY <1>12, ScannedNode DEF RebuildNode
    <2>2. StoredSeed \in Memory
      BY DEF StoredSeed, TypeOK, Memory
    <2>3. WithPublished \in [Nodes -> Memory]
      BY <2>2 DEF WithPublished, TypeOK
    <2>4. rebuilt_tree' \in [Nodes -> Memory]
      BY <1>12, <2>1, <2>3, StoreChildrenType DEF RebuildNode
    <2>5. nodes_used' \in Nat
      BY <1>12 DEF RebuildNode, TypeOK
    <2> QED BY <1>12, <2>4, <2>5 DEF RebuildNode, TypeOK, signer
  <1>13. CASE VerifierSeedLeaves
    BY <1>13, SeedLeavesType DEF VerifierSeedLeaves, TypeOK, loop, signer
  <1>14. CASE UNCHANGED vars
    BY <1>14 DEF vars, loop, signer, verifier, TypeOK
  <1> QED BY <1>1, <1>2, <1>3, <1>4, <1>5, <1>6, <1>7, <1>8, <1>9, <1>10, <1>11, <1>12,
             <1>13, <1>14 DEF Next

-----------------------------------------------------------------------------
(* The signer's tree *)

\* Storing two children writes these two nodes and no other.
LEMMA StoreChildrenValue ==
  ASSUME NEW tree \in [Nodes -> Memory],
         NEW l \in 0 .. LOG2T - 1, NEW i \in 0 .. Expanded(l) - 1,
         tree[Node(l, i)] \in Seed,
         NEW new, new = StoreChildren(tree, Node(l, i), Node(l + 1, 2 * i))
  PROVE  /\ HoldsChildren(new, l, i)
         /\ \A m \in Levels : \A k \in 0 .. npl[m] - 1 :
              ~(m = l + 1 /\ (k = 2 * i \/ k = 2 * i + 1)) => new[Node(m, k)] = tree[Node(m, k)]
  <1>1. /\ l \in Levels /\ l + 1 \in Levels /\ i \in 0 .. npl[l] - 1
        /\ 2 * i \in 0 .. npl[l + 1] - 1 /\ 2 * i + 1 \in 0 .. npl[l + 1] - 1
        /\ Node(l + 1, 2 * i + 1) = Node(l + 1, 2 * i) + 1
    BY ChildNode
  <1>2. /\ Node(l + 1, 2 * i) \in Nodes /\ Node(l + 1, 2 * i + 1) \in Nodes
        /\ Node(l + 1, 2 * i) # Node(l + 1, 2 * i + 1)
    BY <1>1, NodeOrder
  <1>3. Children(tree[Node(l, i)], Node(l, i)) = Expand[<<tree[Node(l, i)], Node(l, i)>>]
    BY SeedAssumption DEF Children
  <1>4. /\ new[Node(l + 1, 2 * i)] = Expand[<<tree[Node(l, i)], Node(l, i)>>][1]
        /\ new[Node(l + 1, 2 * i + 1)] = Expand[<<tree[Node(l, i)], Node(l, i)>>][2]
    BY <1>1, <1>2, <1>3 DEF StoreChildren
  <1>5. ASSUME NEW m \in Levels, NEW k \in 0 .. npl[m] - 1,
               ~(m = l + 1 /\ (k = 2 * i \/ k = 2 * i + 1))
        PROVE  new[Node(m, k)] = tree[Node(m, k)]
    <2>1. Node(m, k) # Node(l + 1, 2 * i) /\ Node(m, k) # Node(l + 1, 2 * i + 1)
      BY <1>1, <1>5, NodeOrder
    <2>2. Node(m, k) \in Nodes
      BY NodeOrder
    <2> QED BY <1>1, <2>1, <2>2 DEF StoreChildren
  <1>6. new[Node(l, i)] = tree[Node(l, i)]
    <2>1. l \in Int
      OBVIOUS
    <2>2. l # l + 1
      BY <2>1
    <2> QED BY <1>1, <1>5, <2>2
  <1> QED BY <1>4, <1>5, <1>6 DEF HoldsChildren

\* A node whose parent holds its children has a seed, and so does the root.
LEMMA HasSeed ==
  ASSUME NEW tree, NEW l \in 1 .. LOG2T, NEW i \in 0 .. npl[l] - 1,
         HoldsChildren(tree, l - 1, i \div 2)
  PROVE  tree[Node(l, i)] \in Seed
  <1>1. /\ l \in Levels /\ l - 1 \in 0 .. LOG2T - 1 /\ i \div 2 \in 0 .. Expanded(l - 1) - 1
        /\ i = 2 * (i \div 2) \/ i = 2 * (i \div 2) + 1
    BY ParentNode
  <1>2. l - 1 \in Levels /\ i \div 2 \in 0 .. npl[l - 1] - 1 /\ (l - 1) + 1 = l
    BY <1>1, ChildNode
  <1>3. Node(l - 1, i \div 2) \in Nodes
    BY <1>2, NodeOrder
  <1>4. <<tree[Node(l - 1, i \div 2)], Node(l - 1, i \div 2)>> \in Seed \X Nodes
    BY <1>3 DEF HoldsChildren
  <1>5. Expand[<<tree[Node(l - 1, i \div 2)], Node(l - 1, i \div 2)>>] \in Seed \X Seed
    BY <1>4, SeedAssumption
  <1>6. /\ tree[Node(l, 2 * (i \div 2))] \in Seed
        /\ tree[Node(l, 2 * (i \div 2) + 1)] \in Seed
    BY <1>2, <1>5 DEF HoldsChildren
  <1> QED BY <1>1, <1>6

LEMMA BuildStep == TypeOK /\ LoopInv /\ BuildInv /\ [Next]_vars => BuildInv'
  <1> SUFFICES ASSUME TypeOK, LoopInv, BuildInv, [Next]_vars PROVE BuildInv'
    OBVIOUS
  <1>1. CASE ExpandNode
    <2> DEFINE n == Node(level, node_in_level)
    <2>1. /\ level \in 0 .. LOG2T - 1 /\ node_in_level \in 0 .. Expanded(level) - 1
          /\ current_node = n /\ Current = n /\ Current' = n + 1 /\ n \in Nodes
          /\ LeftChildNode(current_node, level) = Node(level + 1, 2 * node_in_level)
          /\ level \in Levels /\ node_in_level \in 0 .. npl[level] - 1
      BY <1>1, BuildNode, ChildNode
    <2>2. pc = "BuildGGM" /\ pc' = "BuildGGM"
          /\ seed_tree' = StoreChildren(seed_tree, n, Node(level + 1, 2 * node_in_level))
      BY <1>1, <2>1 DEF ExpandNode
    <2>3. seed_tree[n] \in Seed
      <3>1. CASE level = 0
        <4>1. node_in_level = 0
          BY <2>1, <3>1, LevelFacts
        <4>2. n = 0
          BY <3>1, <4>1, LevelFacts DEF Node
        <4> QED BY <4>2, SeedAssumption DEF BuildInv
      <3>2. CASE level # 0
        <4>1. level \in 1 .. LOG2T
          BY <2>1, <3>2, LevelFacts
        <4>2. /\ level - 1 \in 0 .. LOG2T - 1
              /\ node_in_level \div 2 \in 0 .. Expanded(level - 1) - 1
          BY <2>1, <4>1, ParentNode
        <4>3. level - 1 \in Levels /\ node_in_level \div 2 \in 0 .. npl[level - 1] - 1
          BY <4>2, ChildNode
        <4>4. Node(level - 1, node_in_level \div 2) < n
          BY <2>1, <4>3, NodeOrder
        <4>5. HoldsChildren(seed_tree, level - 1, node_in_level \div 2)
          <5>1. Node(level - 1, node_in_level \div 2) \in Nodes
            BY <4>3, NodeOrder
          <5>2. ~(Node(level - 1, node_in_level \div 2) >= Current)
            BY <2>1, <4>4, <5>1 DEF Nodes
          <5> QED BY <4>2, <5>2 DEF BuildInv
        <4> QED BY <2>1, <4>1, <4>5, HasSeed
      <3> QED BY <3>1, <3>2
    <2>4. /\ HoldsChildren(seed_tree', level, node_in_level)
          /\ \A m \in Levels : \A k \in 0 .. npl[m] - 1 :
               ~(m = level + 1 /\ (k = 2 * node_in_level \/ k = 2 * node_in_level + 1)) =>
                 seed_tree'[Node(m, k)] = seed_tree[Node(m, k)]
      <3>1. seed_tree \in [Nodes -> Memory] BY DEF TypeOK
      <3>2. /\ level \in 0 .. LOG2T - 1 /\ node_in_level \in 0 .. Expanded(level) - 1
            /\ seed_tree[Node(level, node_in_level)] \in Seed
            /\ seed_tree' = StoreChildren(seed_tree, Node(level, node_in_level),
                                          Node(level + 1, 2 * node_in_level))
        BY ONLY <2>1, <2>2, <2>3
      <3> HIDE DEF n
      <3> QED BY ONLY <3>1, <3>2, StoreChildrenValue
    <2>5. seed_tree'[0] = RootSeed
      <3>1. 0 \in Levels /\ 0 \in 0 .. npl[0] - 1 /\ Node(0, 0) = 0 /\ 0 # level + 1
        BY <2>1, LevelFacts DEF Node
      <3> QED BY <2>4, <3>1 DEF BuildInv
    <2>6. ASSUME NEW l \in 0 .. LOG2T - 1, NEW i \in 0 .. Expanded(l) - 1
          PROVE  IF pc' = "BuildGGM" /\ Node(l, i) >= Current'
                   THEN /\ seed_tree'[Node(l + 1, 2 * i)] = NoSeed
                        /\ seed_tree'[Node(l + 1, 2 * i + 1)] = NoSeed
                   ELSE HoldsChildren(seed_tree', l, i)
      <3>1. /\ l \in Levels /\ l + 1 \in Levels /\ i \in 0 .. npl[l] - 1
            /\ 2 * i \in 0 .. npl[l + 1] - 1 /\ 2 * i + 1 \in 0 .. npl[l + 1] - 1
            /\ Node(l, i) \in Nodes
        BY ChildNode, NodeOrder
      <3>2. CASE l = level /\ i = node_in_level
        BY <2>1, <2>4, <3>1, <3>2 DEF Nodes
      <3>3. CASE ~(l = level /\ i = node_in_level)
        <4>1. /\ seed_tree'[Node(l + 1, 2 * i)] = seed_tree[Node(l + 1, 2 * i)]
              /\ seed_tree'[Node(l + 1, 2 * i + 1)] = seed_tree[Node(l + 1, 2 * i + 1)]
          <5>1. l + 1 = level + 1 => l = level
            BY <2>1
          <5>2. 2 * i # 2 * node_in_level + 1 /\ 2 * i + 1 # 2 * node_in_level
            BY <2>1, <3>1
          <5>3. i # node_in_level => 2 * i # 2 * node_in_level /\ 2 * i + 1 # 2 * node_in_level + 1
            BY <2>1, <3>1
          <5> QED BY <2>4, <3>1, <3>3, <5>1, <5>2, <5>3
        <4>2. Node(l, i) # n
          BY <2>1, <3>1, <3>3, NodeOrder
        <4>3. CASE Node(l, i) > n
          <5>1. Node(l, i) >= Current /\ Node(l, i) >= Current'
            BY <2>1, <3>1, <4>3 DEF Nodes
          <5> QED BY <2>2, <4>1, <5>1 DEF BuildInv
        <4>4. CASE Node(l, i) < n
          <5>1. ~(Node(l, i) >= Current) /\ ~(Node(l, i) >= Current')
            BY <2>1, <3>1, <4>4 DEF Nodes
          <5>2. HoldsChildren(seed_tree, l, i)
            BY <5>1 DEF BuildInv
          <5>3. ~(l = level + 1)
            BY <2>1, <3>1, <4>4, NodeOrder
          <5>4. seed_tree'[Node(l, i)] = seed_tree[Node(l, i)]
            BY <2>4, <3>1, <5>3
          <5> QED BY <4>1, <5>1, <5>2, <5>4 DEF HoldsChildren
        <4> QED BY <2>1, <3>1, <4>2, <4>3, <4>4 DEF Nodes
      <3> QED BY <3>2, <3>3
    <2> QED BY <2>2, <2>5, <2>6 DEF BuildInv, HoldsChildren
  <1>2. CASE BuildNextLevel
    <2>1. /\ level \in 0 .. LOG2T - 1 /\ level \in Levels /\ level + 1 \in Levels
          /\ Current = LevelStart[level] + Expanded(level)
          /\ Expanded(level) \in Nat /\ LevelStart[level] \in Nat
      <3>1. /\ level \in Levels /\ level < LOG2T /\ start_node = LevelStart[level]
            /\ node_in_level \in 0 .. Expanded(level) /\ node_in_level >= Expanded(level)
        BY <1>2 DEF BuildNextLevel, LoopInv
      <3>2. level \in 0 .. LOG2T - 1 /\ Expanded(level) \in Nat /\ LevelStart[level] \in Nat
        BY <3>1, LevelFacts DEF Levels
      <3> QED BY <3>1, <3>2, LevelFacts DEF Current
    <2>2. Current' = Node(level + 1, 0) /\ 0 \in 0 .. npl[level + 1] - 1
      <3>1. start_node = LevelStart[level] /\ npl[level + 1] \in Nat \ {0}
            /\ LevelStart[level + 1] = LevelStart[level] + npl[level]
            /\ LevelStart[level + 1] \in Nat
        BY <1>2, <2>1, LevelFacts DEF BuildNextLevel, LoopInv
      <3> QED BY <1>2, <3>1 DEF BuildNextLevel, NextLevelDown, StartLoop, Current, Node
    <2>3. ASSUME NEW l \in 0 .. LOG2T - 1, NEW i \in 0 .. Expanded(l) - 1
          PROVE  Node(l, i) >= Current' <=> Node(l, i) >= Current
      <3>1. /\ l \in Levels /\ i \in 0 .. npl[l] - 1 /\ Node(l, i) \in Nodes
            /\ Node(l, i) < Node(level + 1, 0) <=> l < level + 1
            /\ Node(level + 1, 0) \in Nodes
        BY <2>1, <2>2, ChildNode, NodeOrder
      <3>2. CASE l < level
        <4>1. LevelStart[l] + npl[l] <= LevelStart[level]
          BY <2>1, <3>1, <3>2, LevelStartAssumption
        <4>2. Node(l, i) < LevelStart[l] + npl[l] /\ LevelStart[l] \in Nat /\ npl[l] \in Nat
          BY <3>1, NodeOrder, LevelFacts
        <4> QED BY <2>1, <2>2, <3>1, <3>2, <4>1, <4>2 DEF Nodes
      <3>3. CASE l = level
        BY <2>1, <2>2, <3>1, <3>3 DEF Nodes, Node
      <3>4. CASE l > level
        <4>1. LevelStart[level] + npl[level] <= LevelStart[l] /\ npl[level] \in Nat
              /\ Expanded(level) <= npl[level] /\ LevelStart[l] \in Nat
          BY <2>1, <3>1, <3>4, LevelStartAssumption, LevelFacts
        <4> QED BY <2>1, <2>2, <3>1, <3>4, <4>1 DEF Nodes, Node
      <3> QED BY <2>1, <3>2, <3>3, <3>4
    <2>4. UNCHANGED <<pc, seed_tree, rounds_seeds>>
      BY <1>2 DEF BuildNextLevel, signer
    <2> QED BY <2>3, <2>4 DEF BuildInv, HoldsChildren
  <1>3. CASE SignerSeedLeaves
    <2>1. Current = Node(LOG2T, 0) /\ LOG2T \in Levels /\ 0 \in 0 .. npl[LOG2T] - 1
          /\ pc = "BuildGGM" /\ pc' # "BuildGGM" /\ UNCHANGED seed_tree
          /\ rounds_seeds' = seed_leaves(seed_tree)
      BY <1>3, LevelFacts DEF SignerSeedLeaves, LoopInv, Current, Node
    <2>2. ASSUME NEW l \in 0 .. LOG2T - 1, NEW i \in 0 .. Expanded(l) - 1
          PROVE  HoldsChildren(seed_tree, l, i)
      <3>1. /\ l \in Levels /\ i \in 0 .. npl[l] - 1
            /\ Node(l, i) \in Nodes /\ Node(LOG2T, 0) \in Nodes
            /\ Node(l, i) < Node(LOG2T, 0)
        <4>1. l \in Levels /\ i \in 0 .. npl[l] - 1
          BY ChildNode
        <4>2. l < LOG2T
          BY LevelFacts
        <4> QED BY <2>1, <4>1, <4>2, NodeOrder
      <3>2. ~(Node(l, i) >= Current)
        BY <2>1, <3>1 DEF Nodes
      <3> QED BY <3>2 DEF BuildInv
    <2> QED BY <2>1, <2>2 DEF BuildInv, HoldsChildren, seed_leaves
  <1>4. CASE SampleChallenge \/ ComputeParent \/ ComputePrevLevel \/ ComputeDone \/ PublishNode
             \/ PassNode \/ ScanNextLevel \/ PathDone \/ RebuildNode \/ VerifierSeedLeaves
    <2>1. pc # "BuildGGM" /\ pc' # "BuildGGM" /\ UNCHANGED <<seed_tree, rounds_seeds>>
      BY <1>4 DEF SampleChallenge, ComputeParent, ComputePrevLevel, ComputeDone, PublishNode,
                  PassNode, ScanNextLevel, PathDone, RebuildNode, VerifierSeedLeaves, Computing,
                  ScanNode, signer
    <2> QED BY <2>1 DEF BuildInv, HoldsChildren, seed_leaves
  <1>5. CASE UNCHANGED vars
    BY <1>5 DEF vars, loop, signer, BuildInv, HoldsChildren, Current, seed_leaves
  <1> QED BY <1>1, <1>2, <1>3, <1>4, <1>5 DEF Next

-----------------------------------------------------------------------------
(* The labels *)

\* compute_seeds_to_publish starts at the last pair of siblings of the tree.
LEMMA StartCurrent ==
  StartComputing =>
    /\ Current' = 2 * T - 3
    /\ \A l \in 0 .. LOG2T - 1 : \A i \in 0 .. Expanded(l) - 1 : ~(Node(l + 1, 2 * i) > Current')
  <1> SUFFICES ASSUME StartComputing
               PROVE  /\ Current' = 2 * T - 3
                      /\ \A l \in 0 .. LOG2T - 1 : \A i \in 0 .. Expanded(l) - 1 :
                           ~(Node(l + 1, 2 * i) > Current')
    OBVIOUS
  <1>1. /\ LevelStart[LOG2T] + npl[LOG2T] = 2 * T - 1 /\ T \in Nat /\ npl[LOG2T] \in Nat
        /\ leaves_start_indices[1] = LevelStart[LOG2T] /\ LevelStart[LOG2T] \in Nat
    BY LevelFacts
  <1>2. Current' = 2 * T - 3
    BY <1>1 DEF StartComputing, StartLoop, Current
  <1>3. ASSUME NEW l \in 0 .. LOG2T - 1, NEW i \in 0 .. Expanded(l) - 1
        PROVE  ~(Node(l + 1, 2 * i) > Current')
    <2>1. /\ l + 1 \in Levels /\ 2 * i \in 0 .. npl[l + 1] - 1 /\ 2 * i + 1 \in 0 .. npl[l + 1] - 1
          /\ Node(l + 1, 2 * i + 1) = Node(l + 1, 2 * i) + 1
      BY ChildNode
    <2>2. Node(l + 1, 2 * i) \in Nodes /\ Node(l + 1, 2 * i + 1) \in Nodes
      BY <2>1, NodeOrder
    <2> QED BY <1>1, <1>2, <2>1, <2>2 DEF Nodes
  <1> QED BY <1>2, <1>3

\* What one iteration of compute_seeds_to_publish does to the labels.
LEMMA ParentLabel ==
  ASSUME TypeOK, LoopInv, ComputeParent
  PROVE  /\ LabelOK(flags', level - 1, node_in_level \div 2)
         /\ \A m \in Levels : \A k \in 0 .. npl[m] - 1 :
              ~(m = level - 1 /\ k = node_in_level \div 2) => flags'[Node(m, k)] = flags[Node(m, k)]
  <1> DEFINE j == node_in_level \div 2
  <1>1. /\ level \in 1 .. LOG2T /\ level \in Levels /\ node_in_level \in 0 .. npl[level] - 1
        /\ node_in_level + 1 \in 0 .. npl[level] - 1
        /\ level - 1 \in 0 .. LOG2T - 1 /\ level - 1 \in Levels /\ j \in 0 .. Expanded(level - 1) - 1
        /\ node_in_level = 2 * j /\ father_node = Node(level - 1, j)
        /\ current_node = Node(level, node_in_level)
        /\ SIBLING(current_node) = Node(level, node_in_level + 1)
    BY ComputeNode
  <1>2. j \in 0 .. npl[level - 1] - 1 /\ (level - 1) + 1 = level
    BY <1>1, ChildNode
  <1>3. Node(level - 1, j) \in Nodes
    BY <1>1, <1>2, NodeOrder
  <1>4. flags' = [flags EXCEPT ![Node(level - 1, j)] =
                    IF /\ flags[Node(level, 2 * j)] = TO_PUBLISH
                       /\ flags[Node(level, 2 * j + 1)] = TO_PUBLISH
                      THEN TO_PUBLISH ELSE NOT_TO_PUBLISH]
    BY <1>1 DEF ComputeParent
  <1>5. ASSUME NEW m \in Levels, NEW k \in 0 .. npl[m] - 1, ~(m = level - 1 /\ k = j)
        PROVE  flags'[Node(m, k)] = flags[Node(m, k)]
    <2>1. Node(m, k) # Node(level - 1, j) /\ Node(m, k) \in Nodes
      BY <1>1, <1>2, <1>5, NodeOrder
    <2> QED BY <1>4, <2>1 DEF TypeOK
  <1>6. level # level - 1
    BY <1>1
  <1>7. /\ flags'[Node(level, 2 * j)] = flags[Node(level, 2 * j)]
        /\ flags'[Node(level, 2 * j + 1)] = flags[Node(level, 2 * j + 1)]
    BY <1>1, <1>5, <1>6
  <1>8. flags'[Node(level - 1, j)] = TO_PUBLISH <=>
          flags[Node(level, 2 * j)] = TO_PUBLISH /\ flags[Node(level, 2 * j + 1)] = TO_PUBLISH
    BY <1>3, <1>4 DEF TypeOK, TO_PUBLISH, NOT_TO_PUBLISH
  <1> QED BY <1>2, <1>5, <1>7, <1>8 DEF LabelOK

\* The pair an iteration comes to is the only one it newly passes.
LEMMA PairAbove ==
  ASSUME LoopInv, ComputeParent,
         NEW l \in 0 .. LOG2T - 1, NEW i \in 0 .. Expanded(l) - 1,
         Node(l + 1, 2 * i) > Current'
  PROVE  Node(l + 1, 2 * i) > Current \/ (l = level - 1 /\ i = node_in_level \div 2)
  <1> DEFINE j == node_in_level \div 2
  <1>1. /\ level - 1 \in 0 .. LOG2T - 1 /\ level \in 1 .. LOG2T /\ level \in Levels
        /\ j \in 0 .. Expanded(level - 1) - 1 /\ node_in_level = 2 * j
        /\ Current = Node(level, 2 * j) /\ Current' = Current - 2 /\ Current \in Nodes
        /\ 2 * j \in 0 .. npl[level] - 1
    BY ComputeNode
  <1>2. /\ l + 1 \in Levels /\ 2 * i \in 0 .. npl[l + 1] - 1 /\ (level - 1) + 1 = level
        /\ l \in Int /\ i \in Int /\ j \in Int /\ level \in Int
    BY <1>1, ChildNode DEF Nodes
  <1>3. Node(l + 1, 2 * i) \in Nodes /\ Node(l + 1, 2 * i) % 2 = 1
    BY <1>2, NodeOrder, OddNode
  <1>4. Node((level - 1) + 1, 2 * j) % 2 = 1
    BY <1>1, OddNode
  <1>5. Current % 2 = 1
    BY <1>1, <1>2, <1>4
  <1>6. Node(l + 1, 2 * i) # Current - 1
    BY <1>1, <1>3, <1>5 DEF Nodes
  <1>7. Node(l + 1, 2 * i) > Current \/ Node(l + 1, 2 * i) = Current
    BY <1>1, <1>3, <1>6 DEF Nodes
  <1>8. CASE Node(l + 1, 2 * i) = Current
    <2>1. l + 1 = level /\ 2 * i = 2 * j
      BY <1>1, <1>2, <1>8, NodeOrder
    <2> QED BY <1>2, <2>1
  <1> QED BY <1>7, <1>8

LEMMA FlagsStep == TypeOK /\ LoopInv /\ FlagsInv /\ [Next]_vars => FlagsInv'
  <1> SUFFICES ASSUME TypeOK, LoopInv, FlagsInv, [Next]_vars PROVE FlagsInv'
    OBVIOUS
  <1>1. CASE ExpandNode \/ BuildNextLevel \/ SignerSeedLeaves
    <2>1. pc' \in {"BuildGGM", "SampleChallenge"}
      BY <1>1 DEF ExpandNode, BuildNextLevel, SignerSeedLeaves
    <2> QED BY <2>1 DEF FlagsInv, Computing, Scanning
  <1>2. CASE SampleChallenge
    <2>1. PathFlags \in [Nodes -> {TO_PUBLISH, NOT_TO_PUBLISH}]
      BY DEF PathFlags
    <2>2. PICK ch \in Challenges : indices_to_publish' = ch /\ flags' = label_leaves(PathFlags, ch)
      BY <1>2 DEF SampleChallenge
    <2>3. \A r \in Rounds : flags'[LeafNode(r)] = indices_to_publish'[r]
      BY <2>1, <2>2, ChallengeAssumption, LabelType
    <2>4. StartComputing /\ pc' = "sign_compute_seeds_to_publish"
      BY <1>2 DEF SampleChallenge
    <2>5. Computing' /\ ~Scanning' /\ pc' # "done"
      BY <2>4 DEF Computing, Scanning
    <2> QED BY <2>2, <2>3, <2>4, <2>5, StartCurrent DEF FlagsInv, LeavesLabelled
  <1>3. CASE PathDone
    <2>1. RebuildFlags \in [Nodes -> {TO_PUBLISH, NOT_TO_PUBLISH}]
      BY DEF RebuildFlags
    <2>2. flags' = label_leaves(RebuildFlags, indices_to_publish)
          /\ indices_to_publish' = indices_to_publish /\ indices_to_publish \in Challenges
      BY <1>3 DEF PathDone, FlagsInv, Scanning
    <2>3. \A r \in Rounds : flags'[LeafNode(r)] = indices_to_publish'[r]
      BY <2>1, <2>2, ChallengeAssumption, LabelType
    <2>4. StartComputing /\ pc' = "verify_compute_seeds_to_publish"
      BY <1>3 DEF PathDone
    <2>5. Computing' /\ ~Scanning' /\ pc' # "done"
      BY <2>4 DEF Computing, Scanning
    <2> QED BY <2>2, <2>3, <2>4, <2>5, StartCurrent DEF FlagsInv, LeavesLabelled
  <1>4. CASE ComputeParent
    <2> DEFINE j == node_in_level \div 2
    <2>1. /\ Computing /\ Computing' /\ ~Scanning' /\ pc' # "done"
          /\ indices_to_publish' = indices_to_publish
      BY <1>4 DEF ComputeParent, Computing, Scanning
    <2>2. /\ level - 1 \in 0 .. LOG2T - 1 /\ level - 1 \in Levels /\ level \in 1 .. LOG2T
          /\ j \in 0 .. Expanded(level - 1) - 1 /\ j \in 0 .. npl[level - 1] - 1
          /\ node_in_level = 2 * j /\ level \in Levels
          /\ Current = Node(level, 2 * j) /\ Current' = Current - 2 /\ Current \in Nodes
          /\ (level - 1) + 1 = level /\ 2 * j \in 0 .. npl[level] - 1
      <3>1. /\ level - 1 \in 0 .. LOG2T - 1 /\ level \in 1 .. LOG2T
            /\ j \in 0 .. Expanded(level - 1) - 1 /\ node_in_level = 2 * j /\ level \in Levels
            /\ Current = Node(level, 2 * j) /\ Current' = Current - 2 /\ Current \in Nodes
            /\ 2 * j \in 0 .. npl[level] - 1
        BY <1>4, ComputeNode
      <3> QED BY <3>1, ChildNode
    <2>3. LeavesLabelled(flags)
      BY <2>1 DEF FlagsInv
    <2>4. \A r \in Rounds : flags'[LeafNode(r)] = indices_to_publish[r]
      <3>1. ASSUME NEW r \in Rounds PROVE flags'[LeafNode(r)] = flags[LeafNode(r)]
        <4>1. PICK m \in Levels : \E k \in 0 .. npl[m] - 1 : LeafNode(r) = Node(m, k) /\ ~IsInner(m, k)
          BY LeafNodes
        <4>2. PICK k \in 0 .. npl[m] - 1 : LeafNode(r) = Node(m, k) /\ ~IsInner(m, k)
          BY <4>1
        <4>3. ~(m = level - 1 /\ k = j)
          BY <2>2, <4>2 DEF IsInner
        <4> QED BY <1>4, <4>2, <4>3, ParentLabel
      <3> QED BY <2>3, <3>1 DEF LeavesLabelled
    <2>5. ASSUME NEW l \in 0 .. LOG2T - 1, NEW i \in 0 .. Expanded(l) - 1,
                 Node(l + 1, 2 * i) > Current'
          PROVE  LabelOK(flags', l, i)
      <3>1. /\ l \in Levels /\ l + 1 \in Levels /\ i \in 0 .. npl[l] - 1
            /\ 2 * i \in 0 .. npl[l + 1] - 1 /\ 2 * i + 1 \in 0 .. npl[l + 1] - 1
            /\ Node(l + 1, 2 * i + 1) = Node(l + 1, 2 * i) + 1
        BY ChildNode
      <3>2. Node(l + 1, 2 * i) \in Nodes
        BY <3>1, NodeOrder
      <3>3. Node(l + 1, 2 * i) > Current \/ (l = level - 1 /\ i = j)
        BY <1>4, <2>5, PairAbove
      <3>4. CASE l = level - 1 /\ i = j
        BY <1>4, <3>4, ParentLabel
      <3>5. CASE Node(l + 1, 2 * i) > Current
        <4>1. LabelOK(flags, l, i)
          BY <2>1, <3>5 DEF FlagsInv
        <4>2. ~(l = level - 1 /\ i = j)
          BY <2>2, <3>2, <3>5 DEF Nodes
        <4>3. ~(l + 1 = level - 1)
          <5>1. l + 1 = level \/ l + 1 > level
            BY <2>2, <3>1, <3>5, <3>2, NodeOrder DEF Nodes
          <5> QED BY <5>1, <2>2
        <4>4. /\ flags'[Node(l, i)] = flags[Node(l, i)]
              /\ flags'[Node(l + 1, 2 * i)] = flags[Node(l + 1, 2 * i)]
              /\ flags'[Node(l + 1, 2 * i + 1)] = flags[Node(l + 1, 2 * i + 1)]
          BY <1>4, <3>1, <4>2, <4>3, ParentLabel
        <4> QED BY <4>1, <4>4 DEF LabelOK
      <3> QED BY <3>3, <3>4, <3>5
    <2> QED BY <2>1, <2>4, <2>5 DEF FlagsInv, LeavesLabelled
  <1>5. CASE ComputePrevLevel
    <2>1. Current' = Current
      BY <1>5, LevelChange
    <2> QED BY <1>5, <2>1 DEF ComputePrevLevel, FlagsInv, Computing, Scanning, LeavesLabelled,
                              LabelOK, Labelled
  <1>6. CASE ComputeDone
    <2>1. Computing /\ Current = -1 /\ UNCHANGED <<flags, indices_to_publish>> /\ ~Computing'
      BY <1>6, LevelFacts DEF ComputeDone, LoopInv, Current, Computing
    <2>2. ASSUME NEW l \in 0 .. LOG2T - 1, NEW i \in 0 .. Expanded(l) - 1
          PROVE  LabelOK(flags, l, i)
      <3>1. Node(l + 1, 2 * i) \in Nodes
        BY ChildNode, NodeOrder
      <3>2. Node(l + 1, 2 * i) > Current
        BY <2>1, <3>1 DEF Nodes
      <3> QED BY <2>1, <3>2 DEF FlagsInv
    <2> QED BY <2>1, <2>2 DEF FlagsInv, Labelled, LeavesLabelled, LabelOK
  <1>7. CASE PublishNode \/ PassNode \/ ScanNextLevel \/ RebuildNode \/ VerifierSeedLeaves
    <2>1. /\ Scanning /\ ~Computing' /\ UNCHANGED <<flags, indices_to_publish>>
      BY <1>7 DEF PublishNode, PassNode, ScanNextLevel, RebuildNode, VerifierSeedLeaves,
                  Scanning, Computing, ScanNode
    <2> QED BY <2>1 DEF FlagsInv, Labelled, LeavesLabelled, LabelOK
  <1>8. CASE UNCHANGED vars
    BY <1>8 DEF vars, loop, FlagsInv, Labelled, LeavesLabelled, LabelOK, Current, Computing, Scanning
  <1> QED BY <1>1, <1>2, <1>3, <1>4, <1>5, <1>6, <1>7, <1>8 DEF Next

-----------------------------------------------------------------------------
(* The published seeds *)

\* The node a scan is at is Topmost in the tree exactly if it is Published.
LEMMA PublishedNode ==
  ASSUME LoopInv, \E f \in {"GGMPath", "RebuildGGM"} : ScanNode(f)
  PROVE  Published(current_node, father_node) <=> Topmost(flags, level, node_in_level)
  BY ScannedNode DEF Published, Topmost

LEMMA PathStep ==
  TypeOK /\ LoopInv /\ BuildInv /\ FlagsInv /\ PathInv /\ [Next]_vars => PathInv'
  <1> SUFFICES ASSUME TypeOK, LoopInv, BuildInv, FlagsInv, PathInv, [Next]_vars PROVE PathInv'
    OBVIOUS
  <1>1. CASE ExpandNode \/ BuildNextLevel \/ SignerSeedLeaves \/ SampleChallenge
    <2>1. /\ pc \in {"BuildGGM", "SampleChallenge"}
          /\ pc' \in {"BuildGGM", "SampleChallenge", "sign_compute_seeds_to_publish"}
          /\ seed_storage' = seed_storage /\ path' = path
      BY <1>1 DEF ExpandNode, BuildNextLevel, SignerSeedLeaves, SampleChallenge, signer
    <2>2. seed_storage' = <<>> /\ path' = <<>>
      BY <2>1 DEF PathInv
    <2> QED BY <2>1, <2>2 DEF PathInv, SignerDone
  <1>2. CASE ComputeParent \/ ComputePrevLevel
    <2>1. /\ pc' = pc /\ Computing
          /\ UNCHANGED <<seed_storage, path, path_flags, indices_to_publish, seed_tree>>
      BY <1>2 DEF ComputeParent, ComputePrevLevel, signer
    <2> QED BY <2>1 DEF Computing, PathInv, SignerDone, Labelled, LeavesLabelled, LabelOK,
                        PathUpTo, Topmost
  <1>3. CASE ComputeDone
    <2>1. /\ UNCHANGED <<seed_storage, path, path_flags, indices_to_publish, seed_tree, flags>>
          /\ Computing /\ Current' = 1
      BY <1>3 DEF ComputeDone, signer, StartLoop, Current
    <2>2. CASE pc = "sign_compute_seeds_to_publish"
      <3>1. path' = <<>> /\ seed_storage' = <<>> /\ pc' = "GGMPath"
        BY <1>3, <2>1, <2>2 DEF PathInv, ComputeDone
      <3>2. \A l \in 1 .. LOG2T : \A i \in 0 .. npl[l] - 1 : ~(Node(l, i) < Current')
        BY <2>1, NodeBelowRoot
      <3> QED BY <3>1, <3>2 DEF PathInv, SignerDone, PathUpTo
    <2>3. CASE pc = "verify_compute_seeds_to_publish"
      <3>1. pc' = "RebuildGGM"
        BY <1>3, <2>3 DEF ComputeDone
      <3> QED BY <2>1, <2>3, <3>1 DEF PathInv, SignerDone, Labelled, LeavesLabelled, LabelOK,
                                      PathUpTo, Topmost
    <2> QED BY <2>1, <2>2, <2>3 DEF Computing
  <1>4. CASE PublishNode
    <2> DEFINE n == Node(level, node_in_level)
    <2>1. /\ level \in 1 .. LOG2T /\ node_in_level \in 0 .. npl[level] - 1 /\ level \in Levels
          /\ Current = n /\ current_node = n /\ Current' = n + 1 /\ n \in Nodes
      BY <1>4, ScannedNode DEF PublishNode
    <2>2. /\ pc = "GGMPath" /\ pc' = "GGMPath" /\ flags' = flags /\ seed_tree' = seed_tree
          /\ path' = Append(path, n) /\ seed_storage' = Append(seed_storage, seed_tree[n])
      BY <1>4, <2>1 DEF PublishNode, ScanNode
    <2>3. Topmost(flags, level, node_in_level)
      BY <1>4, PublishedNode DEF PublishNode
    <2>4. /\ path \in Seq(Nodes) /\ seed_storage \in Seq(Memory) /\ Len(seed_storage) = Len(path)
          /\ seed_tree[n] \in Memory /\ Len(path) \in Nat
      BY <2>1 DEF TypeOK
    <2>5. /\ Len(path') = Len(path) + 1 /\ Len(seed_storage') = Len(path) + 1
          /\ \A k \in 1 .. Len(path) : path'[k] = path[k] /\ seed_storage'[k] = seed_storage[k]
          /\ path'[Len(path) + 1] = n /\ seed_storage'[Len(path) + 1] = seed_tree[n]
      BY <2>1, <2>2, <2>4
    <2>6. \A k \in 1 .. Len(path') : k \in 1 .. Len(path) \/ k = Len(path) + 1
      BY <2>4, <2>5
    <2>7. /\ \A k \in 1 .. Len(path) : seed_storage[k] = seed_tree[path[k]]
          /\ \A j, k \in 1 .. Len(path) : j < k => path[j] < path[k]
          /\ PathUpTo(flags, n)
      BY <2>1, <2>2 DEF PathInv
    <2>8. \A k \in 1 .. Len(path) : path[k] < n /\ path[k] \in Nodes
      BY <2>4, <2>7 DEF PathUpTo
    <2>9. \A k \in 1 .. Len(path') : seed_storage'[k] = seed_tree'[path'[k]]
      BY <2>2, <2>5, <2>6, <2>7
    <2>10. \A j, k \in 1 .. Len(path') : j < k => path'[j] < path'[k]
      <3> SUFFICES ASSUME NEW j \in 1 .. Len(path'), NEW k \in 1 .. Len(path'), j < k
                   PROVE  path'[j] < path'[k]
        OBVIOUS
      <3>1. j \in 1 .. Len(path)
        BY <2>4, <2>5
      <3>2. CASE k \in 1 .. Len(path)
        BY <2>5, <2>7, <3>1, <3>2
      <3>3. CASE k = Len(path) + 1
        BY <2>5, <2>8, <3>1, <3>3
      <3> QED BY <2>6, <3>2, <3>3
    <2>11. \A k \in 1 .. Len(path') :
             /\ \E l \in 1 .. LOG2T : \E i \in 0 .. npl[l] - 1 :
                  path'[k] = Node(l, i) /\ Topmost(flags, l, i)
             /\ path'[k] < n + 1
      <3> SUFFICES ASSUME NEW k \in 1 .. Len(path')
                   PROVE  /\ \E l \in 1 .. LOG2T : \E i \in 0 .. npl[l] - 1 :
                               path'[k] = Node(l, i) /\ Topmost(flags, l, i)
                          /\ path'[k] < n + 1
        OBVIOUS
      <3>1. CASE k \in 1 .. Len(path)
        <4>1. path'[k] = path[k] /\ path[k] < n /\ path[k] \in Nodes
          BY <2>5, <2>8, <3>1
        <4>2. path[k] < n + 1
          BY <2>1, <4>1 DEF Nodes
        <4>3. \E l \in 1 .. LOG2T : \E i \in 0 .. npl[l] - 1 :
                path[k] = Node(l, i) /\ Topmost(flags, l, i)
          BY <2>7, <3>1 DEF PathUpTo
        <4> QED BY <4>1, <4>2, <4>3
      <3>2. CASE k = Len(path) + 1
        <4>1. n < n + 1
          BY <2>1 DEF Nodes
        <4> QED BY <2>1, <2>3, <2>5, <3>2, <4>1
      <3> QED BY <2>6, <3>1, <3>2
    <2>12. \A l \in 1 .. LOG2T : \A i \in 0 .. npl[l] - 1 :
             Topmost(flags, l, i) /\ Node(l, i) < n + 1 =>
               \E k \in 1 .. Len(path') : path'[k] = Node(l, i)
      <3> SUFFICES ASSUME NEW l \in 1 .. LOG2T, NEW i \in 0 .. npl[l] - 1,
                          Topmost(flags, l, i), Node(l, i) < n + 1
                   PROVE  \E k \in 1 .. Len(path') : path'[k] = Node(l, i)
        OBVIOUS
      <3>1. Node(l, i) < n \/ Node(l, i) = n
        BY <2>1, NodeBelowRoot DEF Nodes
      <3>2. CASE Node(l, i) < n
        <4>1. PICK k \in 1 .. Len(path) : path[k] = Node(l, i)
          BY <2>7, <3>2 DEF PathUpTo
        <4>2. k \in 1 .. Len(path') /\ path'[k] = Node(l, i)
          BY <2>4, <2>5, <4>1
        <4> QED BY <4>2
      <3>3. CASE Node(l, i) = n
        <4>1. Len(path) + 1 \in 1 .. Len(path')
          BY <2>4, <2>5
        <4> QED BY <2>5, <3>3, <4>1
      <3> QED BY <3>1, <3>2, <3>3
    <2>13. ASSUME flags[0] = TO_PUBLISH, NEW l \in 1 .. LOG2T, NEW i \in 0 .. npl[l] - 1,
                  Node(l, i) < n + 1
           PROVE  flags[Node(l, i)] = TO_PUBLISH
      <3>1. Node(l, i) < n \/ Node(l, i) = n
        BY <2>1, <2>13, NodeBelowRoot DEF Nodes
      <3>2. CASE Node(l, i) < n
        BY <2>1, <2>2, <2>13, <3>2 DEF PathInv
      <3>3. CASE Node(l, i) = n
        BY <2>3, <3>3 DEF Topmost
      <3> QED BY <3>1, <3>2, <3>3
    <2> QED BY <2>1, <2>2, <2>5, <2>9, <2>10, <2>11, <2>12, <2>13
            DEF PathInv, PathUpTo, SignerDone, Topmost
  <1>5. CASE PassNode
    <2> DEFINE n == Node(level, node_in_level)
    <2> DEFINE j == node_in_level \div 2
    <2>1. /\ level \in 1 .. LOG2T /\ node_in_level \in 0 .. npl[level] - 1 /\ level \in Levels
          /\ Current = n /\ Current' = n + 1 /\ n \in Nodes
      BY <1>5, ScannedNode DEF PassNode
    <2>2. /\ pc = "GGMPath" /\ pc' = "GGMPath"
          /\ UNCHANGED <<flags, seed_tree, path, seed_storage>>
      BY <1>5 DEF PassNode, ScanNode, signer
    <2>3. ~Topmost(flags, level, node_in_level)
      BY <1>5, PublishedNode DEF PassNode
    <2>4. PathUpTo(flags, n)
      BY <2>1, <2>2 DEF PathInv
    <2>5. PathUpTo(flags, n + 1)
      <3>1. \A k \in 1 .. Len(path) : path[k] < n + 1
        <4>1. ASSUME NEW k \in 1 .. Len(path) PROVE path[k] < n + 1
          <5>1. path[k] \in Nodes /\ path[k] < n
            BY <2>4 DEF TypeOK, PathUpTo
          <5> QED BY <2>1, <5>1 DEF Nodes
        <4> QED BY <4>1
      <3>2. \A l \in 1 .. LOG2T : \A i \in 0 .. npl[l] - 1 :
              Topmost(flags, l, i) /\ Node(l, i) < n + 1 => Node(l, i) < n
        <4>1. ASSUME NEW l \in 1 .. LOG2T, NEW i \in 0 .. npl[l] - 1,
                     Topmost(flags, l, i), Node(l, i) < n + 1
              PROVE  Node(l, i) < n
          <5>1. Node(l, i) < n \/ Node(l, i) = n
            BY <2>1, <4>1, NodeBelowRoot DEF Nodes
          <5>2. Node(l, i) # n
            BY <2>1, <2>3, <4>1, NodeBelowRoot, NodeOrder
          <5> QED BY <5>1, <5>2
        <4> QED BY <4>1
      <3> QED BY <2>4, <3>1, <3>2 DEF PathUpTo
    <2>6. ASSUME flags[0] = TO_PUBLISH, NEW l \in 1 .. LOG2T, NEW i \in 0 .. npl[l] - 1,
                 Node(l, i) < n + 1
          PROVE  flags[Node(l, i)] = TO_PUBLISH
      <3>1. \A m \in 1 .. LOG2T : \A k \in 0 .. npl[m] - 1 :
              Node(m, k) < n => flags[Node(m, k)] = TO_PUBLISH
        BY <2>1, <2>2, <2>6 DEF PathInv
      <3>2. CASE Node(l, i) < n
        BY <3>1, <3>2
      <3>3. CASE Node(l, i) = n
        <4>1. /\ level - 1 \in 0 .. LOG2T - 1 /\ j \in 0 .. Expanded(level - 1) - 1
              /\ node_in_level = 2 * j \/ node_in_level = 2 * j + 1
          BY <2>1, ParentNode
        <4>2. level - 1 \in Levels /\ j \in 0 .. npl[level - 1] - 1 /\ (level - 1) + 1 = level
          BY <2>1, <4>1, ChildNode
        <4>3. flags[Node(level - 1, j)] = TO_PUBLISH
          <5>1. CASE level - 1 = 0
            <6>1. Node(level - 1, j) = 0
              BY <4>1, <5>1, LevelFacts DEF Node
            <6> QED BY <2>6, <6>1
          <5>2. CASE level - 1 # 0
            <6>1. level - 1 \in 1 .. LOG2T
              BY <2>1, <5>2, LevelFacts
            <6>2. Node(level - 1, j) < n
              BY <2>1, <4>2, NodeOrder
            <6> QED BY <3>1, <4>2, <6>1, <6>2
          <5> QED BY <5>1, <5>2
        <4>4. LabelOK(flags, level - 1, j)
          BY <2>2, <4>1 DEF FlagsInv, Labelled, Scanning
        <4>5. flags[n] = TO_PUBLISH
          BY <4>1, <4>2, <4>3, <4>4 DEF LabelOK
        <4> QED BY <3>3, <4>5
      <3>4. Node(l, i) < n \/ Node(l, i) = n
        BY <2>1, <2>6, NodeBelowRoot DEF Nodes
      <3> QED BY <3>2, <3>3, <3>4
    <2> QED BY <2>1, <2>2, <2>5, <2>6 DEF PathInv, PathUpTo, SignerDone, Topmost
  <1>6. CASE ScanNextLevel
    <2>1. /\ Current' = Current /\ pc' = pc /\ Scanning
          /\ UNCHANGED <<flags, seed_tree, path, seed_storage, path_flags, indices_to_publish>>
      BY <1>6, LevelChange DEF ScanNextLevel, Scanning, signer
    <2> QED BY <2>1 DEF PathInv, PathUpTo, SignerDone, Topmost, Labelled, LeavesLabelled, LabelOK
  <1>7. CASE PathDone
    <2>1. /\ pc = "GGMPath" /\ path_flags' = flags /\ Current = 2 * T - 1 /\ SignerDone'
          /\ UNCHANGED <<seed_tree, path, seed_storage, indices_to_publish>>
          /\ pc' = "verify_compute_seeds_to_publish"
      <3>1. level > LOG2T /\ pc = "GGMPath"
        BY <1>7 DEF PathDone
      <3>2. Current = 2 * T - 1
        <4>1. level \in Int /\ LOG2T \in Int /\ T \in Int
          BY LevelFacts DEF TypeOK
        <4>2. node_in_level = 0 /\ start_node = 2 * T - 1
          BY <3>1 DEF LoopInv, Scanning
        <4> QED BY <4>1, <4>2 DEF Current
      <3> QED BY <1>7, <3>2 DEF PathDone, SignerDone
    <2>2. Labelled(flags) /\ indices_to_publish \in Challenges
      BY <2>1 DEF FlagsInv, Scanning
    <2>3. flags[0] = NOT_TO_PUBLISH
      <3> SUFFICES ASSUME flags[0] # NOT_TO_PUBLISH PROVE FALSE
        OBVIOUS
      <3>1. flags[0] = TO_PUBLISH
        <4>1. 0 \in Nodes
          <5>1. T \in Nat /\ T >= 1
            BY LevelFacts
          <5> QED BY <5>1 DEF Nodes
        <4> QED BY <4>1 DEF TypeOK
      <3>2. PICK r \in Rounds : indices_to_publish[r] = NOT_TO_PUBLISH
        BY <2>2, ChallengeAssumption
      <3>3. PICK l \in Levels : \E i \in 0 .. npl[l] - 1 : LeafNode(r) = Node(l, i) /\ ~IsInner(l, i)
        BY LeafNodes
      <3>4. PICK i \in 0 .. npl[l] - 1 : LeafNode(r) = Node(l, i) /\ ~IsInner(l, i)
        BY <3>3
      <3>5. l \in 1 .. LOG2T
        <4>1. l # 0
          <5>1. SUFFICES ASSUME l = 0 PROVE FALSE
            OBVIOUS
          <5>2. i \in 0 .. Expanded(0) - 1 /\ 0 \in 0 .. LOG2T - 1
            BY <5>1, LevelFacts
          <5> QED BY <3>4, <5>1, <5>2 DEF IsInner
        <4> QED BY <4>1, LevelFacts DEF Levels
      <3>6. Node(l, i) < Current
        BY <2>1, <3>5, NodeBelowRoot
      <3>7. flags[Node(l, i)] = TO_PUBLISH
        BY <2>1, <3>1, <3>5, <3>6 DEF PathInv
      <3> QED BY <2>2, <3>2, <3>4, <3>7 DEF Labelled, LeavesLabelled, TO_PUBLISH, NOT_TO_PUBLISH
    <2>4. PathUpTo(flags, 2 * T - 1)
      BY <2>1 DEF PathInv
    <2> QED BY <2>1, <2>2, <2>3, <2>4 DEF PathInv, PathUpTo, Topmost, Labelled, LeavesLabelled, LabelOK
  <1>8. CASE RebuildNode \/ VerifierSeedLeaves
    <2>1. /\ pc = "RebuildGGM" /\ pc' \in {"RebuildGGM", "done"}
          /\ UNCHANGED <<seed_tree, path, seed_storage, path_flags, indices_to_publish>>
      BY <1>8 DEF RebuildNode, VerifierSeedLeaves, ScanNode, signer
    <2> QED BY <2>1 DEF PathInv, PathUpTo, SignerDone, Topmost, Labelled, LeavesLabelled, LabelOK
  <1>9. CASE UNCHANGED vars
    <2>1. /\ Current' = Current /\ pc' = pc
          /\ UNCHANGED <<flags, seed_tree, path, seed_storage, path_flags, indices_to_publish>>
      BY <1>9 DEF vars, loop, signer, Current
    <2> QED BY <2>1 DEF PathInv, PathUpTo, SignerDone, Topmost, Labelled, LeavesLabelled, LabelOK
  <1> QED BY <1>1, <1>2, <1>3, <1>4, <1>5, <1>6, <1>7, <1>8, <1>9 DEF Next

-----------------------------------------------------------------------------
(* The verifier's labels *)

LEMMA AgreeStep ==
  TypeOK /\ LoopInv /\ FlagsInv /\ PathInv /\ AgreeInv /\ [Next]_vars => AgreeInv'
  <1> SUFFICES ASSUME TypeOK, LoopInv, FlagsInv, PathInv, AgreeInv, [Next]_vars PROVE AgreeInv'
    OBVIOUS
  <1>1. CASE ExpandNode \/ BuildNextLevel \/ SignerSeedLeaves \/ SampleChallenge \/ PublishNode
             \/ PassNode
    <2>1. pc' \in {"BuildGGM", "SampleChallenge", "sign_compute_seeds_to_publish", "GGMPath"}
      BY <1>1 DEF ExpandNode, BuildNextLevel, SignerSeedLeaves, SampleChallenge, PublishNode,
                  PassNode, ScanNode
    <2> QED BY <2>1 DEF AgreeInv
  <1>2. CASE PathDone
    <2>1. /\ pc = "GGMPath" /\ pc' = "verify_compute_seeds_to_publish" /\ path_flags' = flags
          /\ flags' = label_leaves(RebuildFlags, indices_to_publish) /\ StartComputing
      BY <1>2 DEF PathDone
    <2>2. /\ \A r \in Rounds : flags[LeafNode(r)] = indices_to_publish[r]
          /\ indices_to_publish \in Challenges
      BY <2>1 DEF FlagsInv, Scanning, Labelled, LeavesLabelled
    <2>3. \A r \in Rounds : flags'[LeafNode(r)] = indices_to_publish[r]
      <3>1. RebuildFlags \in [Nodes -> {TO_PUBLISH, NOT_TO_PUBLISH}]
        BY DEF RebuildFlags
      <3> QED BY <2>1, <2>2, <3>1, ChallengeAssumption, LabelType
    <2>4. ASSUME NEW l \in Levels, NEW i \in 0 .. npl[l] - 1,
                 ~IsInner(l, i) \/ Node(l + 1, 2 * i) > Current'
          PROVE  flags'[Node(l, i)] = path_flags'[Node(l, i)]
      <3>1. ~IsInner(l, i)
        BY <2>1, <2>4, StartCurrent DEF IsInner
      <3>2. PICK r \in Rounds : LeafNode(r) = Node(l, i)
        BY <3>1, LeafNodes
      <3> QED BY <2>1, <2>2, <2>3, <3>2
    <2> QED BY <2>1, <2>4 DEF AgreeInv
  <1>3. CASE ComputeParent
    <2>1. pc' = pc /\ path_flags' = path_flags /\ Computing
      BY <1>3 DEF ComputeParent, signer
    <2>2. CASE pc = "sign_compute_seeds_to_publish"
      BY <2>1, <2>2 DEF AgreeInv
    <2>3. CASE pc = "verify_compute_seeds_to_publish"
      <3> DEFINE j == node_in_level \div 2
      <3>1. /\ level - 1 \in 0 .. LOG2T - 1 /\ level \in 1 .. LOG2T /\ level \in Levels
            /\ j \in 0 .. Expanded(level - 1) - 1 /\ node_in_level = 2 * j
            /\ Current = Node(level, 2 * j) /\ Current \in Nodes
            /\ 2 * j \in 0 .. npl[level] - 1 /\ 2 * j + 1 \in 0 .. npl[level] - 1
            /\ (level - 1) + 1 = level
        <4>1. level \in 1 .. LOG2T
          BY <1>3, ComputeNode
        <4>2. (level - 1) + 1 = level
          BY <4>1
        <4> QED BY <1>3, <4>2, ComputeNode
      <3>2. \A l \in Levels : \A i \in 0 .. npl[l] - 1 :
              ~IsInner(l, i) \/ Node(l + 1, 2 * i) > Current =>
                flags[Node(l, i)] = path_flags[Node(l, i)]
        BY <2>3 DEF AgreeInv
      <3>3. ASSUME NEW i \in 0 .. npl[level] - 1, Node(level, i) >= Current
            PROVE  flags'[Node(level, i)] = path_flags[Node(level, i)]
        <4>1. ~IsInner(level, i) \/ Node(level + 1, 2 * i) > Current
          <5>1. SUFFICES ASSUME IsInner(level, i) PROVE Node(level + 1, 2 * i) > Current
            OBVIOUS
          <5>2. Node(level, i) < Node(level + 1, 2 * i) /\ Node(level + 1, 2 * i) \in Nodes
            BY <5>1, ChildNode, NodeOrder DEF IsInner
          <5>3. Node(level, i) \in Nodes
            BY <3>1, NodeOrder
          <5> QED BY <3>1, <3>3, <5>2, <5>3 DEF Nodes
        <4>2. level # level - 1
          BY <3>1
        <4> QED BY <1>3, <3>1, <3>2, <4>1, <4>2, ParentLabel
      <3>4. /\ flags'[Node(level, 2 * j)] = path_flags[Node(level, 2 * j)]
            /\ flags'[Node(level, 2 * j + 1)] = path_flags[Node(level, 2 * j + 1)]
        <4>1. Node(level, 2 * j + 1) = Node(level, 2 * j) + 1
          BY <3>1, ChildNode
        <4>2. Node(level, 2 * j) >= Current /\ Node(level, 2 * j + 1) >= Current
          BY <3>1, <4>1 DEF Nodes
        <4> QED BY <3>1, <3>3, <4>2
      <3>5. flags'[Node(level - 1, j)] = path_flags[Node(level - 1, j)]
        <4>1. LabelOK(flags', level - 1, j)
          BY <1>3, ParentLabel
        <4>2. LabelOK(path_flags, level - 1, j)
          BY <2>3, <3>1 DEF PathInv, SignerDone, Labelled
        <4>3. Node(level - 1, j) \in Nodes
          BY <3>1, ChildNode, NodeOrder
        <4>4. /\ flags'[Node(level - 1, j)] \in {TO_PUBLISH, NOT_TO_PUBLISH}
              /\ path_flags[Node(level - 1, j)] \in {TO_PUBLISH, NOT_TO_PUBLISH}
          <5>1. TypeOK'
            BY TypeStep
          <5> QED BY <4>3, <5>1 DEF TypeOK
        <4> QED BY <3>1, <3>4, <4>1, <4>2, <4>4 DEF LabelOK
      <3>6. ASSUME NEW l \in Levels, NEW i \in 0 .. npl[l] - 1,
                   ~IsInner(l, i) \/ Node(l + 1, 2 * i) > Current'
            PROVE  flags'[Node(l, i)] = path_flags[Node(l, i)]
        <4>1. CASE l = level - 1 /\ i = j
          BY <3>5, <4>1
        <4>2. CASE ~(l = level - 1 /\ i = j)
          <5>1. ~IsInner(l, i) \/ Node(l + 1, 2 * i) > Current
            BY <1>3, <3>6, <4>2, PairAbove DEF IsInner
          <5> QED BY <1>3, <3>2, <4>2, <5>1, ParentLabel
        <4> QED BY <4>1, <4>2
      <3> QED BY <2>1, <2>3, <3>6 DEF AgreeInv
    <2> QED BY <2>1, <2>2, <2>3 DEF Computing
  <1>4. CASE ComputePrevLevel
    <2>1. Current' = Current /\ UNCHANGED <<pc, flags, path_flags>> /\ Computing
      BY <1>4, LevelChange DEF ComputePrevLevel, signer
    <2> QED BY <2>1 DEF AgreeInv, Computing
  <1>5. CASE ComputeDone
    <2>1. Computing /\ Current = -1 /\ UNCHANGED <<flags, path_flags>>
      BY <1>5, LevelFacts DEF ComputeDone, LoopInv, Current, Computing, signer
    <2>2. CASE pc = "sign_compute_seeds_to_publish"
      <3>1. pc' = "GGMPath"
        BY <1>5, <2>2 DEF ComputeDone
      <3> QED BY <3>1 DEF AgreeInv
    <2>3. CASE pc = "verify_compute_seeds_to_publish"
      <3>1. pc' = "RebuildGGM"
        BY <1>5, <2>3 DEF ComputeDone
      <3>2. ASSUME NEW l \in Levels, NEW i \in 0 .. npl[l] - 1
            PROVE  flags[Node(l, i)] = path_flags[Node(l, i)]
        <4>1. ~IsInner(l, i) \/ Node(l + 1, 2 * i) > Current
          <5>1. IsInner(l, i) => Node(l + 1, 2 * i) \in Nodes
            BY ChildNode, NodeOrder DEF IsInner
          <5> QED BY <2>1, <5>1 DEF Nodes
        <4> QED BY <2>3, <4>1 DEF AgreeInv
      <3> QED BY <2>1, <3>1, <3>2 DEF AgreeInv
    <2> QED BY <2>1, <2>2, <2>3 DEF Computing
  <1>6. CASE ScanNextLevel
    <2>1. UNCHANGED <<pc, flags, path_flags>> /\ pc \in {"GGMPath", "RebuildGGM"}
      BY <1>6 DEF ScanNextLevel, signer
    <2> QED BY <2>1 DEF AgreeInv
  <1>7. CASE RebuildNode \/ VerifierSeedLeaves
    <2>1. pc = "RebuildGGM" /\ pc' \in {"RebuildGGM", "done"} /\ UNCHANGED <<flags, path_flags>>
      BY <1>7 DEF RebuildNode, VerifierSeedLeaves, ScanNode, signer
    <2> QED BY <2>1 DEF AgreeInv
  <1>8. CASE UNCHANGED vars
    BY <1>8 DEF vars, loop, signer, AgreeInv, Current
  <1> QED BY <1>1, <1>2, <1>3, <1>4, <1>5, <1>6, <1>7, <1>8 DEF Next

-----------------------------------------------------------------------------
(* The verifier's tree *)

\* Once the signature is complete, every node of the signer's tree has a seed.
LEMMA SignerSeeds ==
  ASSUME BuildInv, pc # "BuildGGM", NEW l \in 1 .. LOG2T, NEW i \in 0 .. npl[l] - 1
  PROVE  seed_tree[Node(l, i)] \in Seed
  <1>1. l - 1 \in 0 .. LOG2T - 1 /\ i \div 2 \in 0 .. Expanded(l - 1) - 1
    BY ParentNode
  <1>2. HoldsChildren(seed_tree, l - 1, i \div 2)
    BY <1>1 DEF BuildInv
  <1> QED BY <1>2, HasSeed

\* Arriving at a node GGMPath published, the next unused seed is that node's;
\* passing a node keeps count.
LEMMA NextStoredSeed ==
  ASSUME TypeOK, PathInv, pc = "RebuildGGM",
         NEW l \in 1 .. LOG2T, NEW i \in 0 .. npl[l] - 1, UsedUpTo(Node(l, i))
  PROVE  /\ Topmost(path_flags, l, i) =>
              /\ StoredSeed = seed_tree[Node(l, i)]
              /\ nodes_used + 1 <= Len(path)
              /\ \A k \in 1 .. Len(path) : k <= nodes_used + 1 <=> path[k] < Node(l, i) + 1
         /\ ~Topmost(path_flags, l, i) =>
              \A k \in 1 .. Len(path) : k <= nodes_used <=> path[k] < Node(l, i) + 1
  <1> DEFINE n == Node(l, i)
  <1>1. n \in 1 .. 2 * T - 2 /\ n \in Nat /\ l \in Levels
    BY NodeBelowRoot
  <1>2. /\ Len(path) \in Nat /\ nodes_used \in Nat /\ Len(seed_storage) = Len(path)
        /\ \A k \in 1 .. Len(path) : path[k] \in Nat
        /\ \A k \in 1 .. Len(path) : seed_storage[k] = seed_tree[path[k]]
        /\ \A j, k \in 1 .. Len(path) : j < k => path[j] < path[k]
        /\ PathUpTo(path_flags, 2 * T - 1)
    <2>1. \A k \in 1 .. Len(path) : path[k] \in Nat
      <3>1. \A k \in 1 .. Len(path) : path[k] \in Nodes
        BY DEF TypeOK
      <3> QED BY <3>1 DEF Nodes
    <2> QED BY <2>1 DEF TypeOK, PathInv, SignerDone
  <1>3. /\ nodes_used <= Len(path)
        /\ \A k \in 1 .. Len(path) : k <= nodes_used <=> path[k] < n
    BY DEF UsedUpTo
  <1>4. ASSUME Topmost(path_flags, l, i)
        PROVE  /\ StoredSeed = seed_tree[n]
               /\ nodes_used + 1 <= Len(path)
               /\ \A k \in 1 .. Len(path) : k <= nodes_used + 1 <=> path[k] < n + 1
    <2>1. n < 2 * T - 1
      BY <1>1, LevelFacts
    <2>2. PICK k \in 1 .. Len(path) : path[k] = n
      BY <1>2, <1>4, <2>1 DEF PathUpTo
    <2>3. ~(k <= nodes_used)
      BY <1>1, <1>3, <2>2
    <2>4. nodes_used + 1 \in 1 .. Len(path) /\ ~(nodes_used + 1 <= nodes_used)
      BY <1>2, <2>3
    <2>5. ~(path[nodes_used + 1] < n)
      BY <1>3, <2>4
    <2>6. k = nodes_used + 1
      <3>1. ~(nodes_used + 1 < k)
        BY <1>2, <2>2, <2>4, <2>5
      <3> QED BY <1>2, <2>3, <3>1
    <2>7. StoredSeed = seed_tree[n]
      BY <1>2, <2>2, <2>4, <2>6 DEF StoredSeed
    <2>8. ASSUME NEW m \in 1 .. Len(path) PROVE m <= nodes_used + 1 <=> path[m] < n + 1
      <3>1. m <= nodes_used \/ m = nodes_used + 1 \/ nodes_used + 1 < m
        BY <1>2
      <3>2. CASE m <= nodes_used
        BY <1>1, <1>2, <1>3, <3>2
      <3>3. CASE m = nodes_used + 1
        BY <1>1, <1>2, <2>2, <2>6, <3>3
      <3>4. CASE nodes_used + 1 < m
        <4>1. path[nodes_used + 1] < path[m]
          BY <1>2, <2>4, <3>4
        <4> QED BY <1>1, <1>2, <2>2, <2>6, <3>4, <4>1
      <3> QED BY <3>1, <3>2, <3>3, <3>4
    <2> QED BY <2>4, <2>7, <2>8, <1>2
  <1>5. ASSUME ~Topmost(path_flags, l, i), NEW k \in 1 .. Len(path)
        PROVE  k <= nodes_used <=> path[k] < n + 1
    <2>1. path[k] # n
      <3>1. PICK m \in 1 .. LOG2T : \E j \in 0 .. npl[m] - 1 :
              path[k] = Node(m, j) /\ Topmost(path_flags, m, j)
        BY <1>2 DEF PathUpTo
      <3>2. PICK j \in 0 .. npl[m] - 1 : path[k] = Node(m, j) /\ Topmost(path_flags, m, j)
        BY <3>1
      <3>3. m \in Levels
        BY <3>2, NodeBelowRoot
      <3> QED BY <1>1, <1>5, <3>2, <3>3, NodeOrder
    <2> QED BY <1>1, <1>2, <1>3, <2>1
  <1> QED BY <1>4, <1>5

\* What one iteration of RebuildGGM leaves in the verifier's tree.
LEMMA RebuildTree ==
  ASSUME TypeOK, LoopInv, BuildInv, FlagsInv, PathInv, AgreeInv, RebuildInv, RebuildNode
  PROVE  \A m \in Levels : \A k \in 0 .. npl[m] - 1 :
           rebuilt_tree'[Node(m, k)] =
             IF Filled(m, k, Current + 1) THEN seed_tree[Node(m, k)] ELSE NoSeed
  <1> DEFINE n == Node(level, node_in_level)
             h == node_in_level \div 2
             wp == WithPublished
  <1>1. /\ level \in 1 .. LOG2T /\ node_in_level \in 0 .. npl[level] - 1 /\ level \in Levels
        /\ current_node = n /\ Current = n /\ father_node = Node(level - 1, h)
        /\ level - 1 \in 0 .. LOG2T - 1 /\ level - 1 \in Levels
        /\ h \in 0 .. Expanded(level - 1) - 1 /\ h \in 0 .. npl[level - 1] - 1 /\ n \in Nodes
    BY ScannedNode DEF RebuildNode
  <1>2. pc = "RebuildGGM" /\ RebuiltUpTo(n) /\ UsedUpTo(n) /\ Labelled(flags)
    BY <1>1 DEF RebuildNode, ScanNode, RebuildInv, FlagsInv, Scanning
  <1>3. \A m \in Levels : \A k \in 0 .. npl[m] - 1 : flags[Node(m, k)] = path_flags[Node(m, k)]
    BY <1>2 DEF AgreeInv
  <1>4. Topmost(flags, level, node_in_level) <=> Topmost(path_flags, level, node_in_level)
    BY <1>1, <1>3 DEF Topmost
  <1>5. Published(current_node, father_node) <=> Topmost(flags, level, node_in_level)
    BY PublishedNode DEF RebuildNode
  <1>6. wp = IF Topmost(flags, level, node_in_level)
               THEN [rebuilt_tree EXCEPT ![n] = seed_tree[n]] ELSE rebuilt_tree
    BY <1>1, <1>2, <1>4, <1>5, NextStoredSeed DEF WithPublished
  <1>7. \A m \in Levels : \A k \in 0 .. npl[m] - 1 :
          ~(m = level /\ k = node_in_level) => wp[Node(m, k)] = rebuilt_tree[Node(m, k)]
    BY <1>1, <1>6, NodeOrder DEF TypeOK
  <1>8. seed_tree[n] \in Seed
    BY <1>1, <1>2, SignerSeeds
  <1>9. wp[n] = IF flags[n] = TO_PUBLISH THEN seed_tree[n] ELSE NoSeed
    <2>1. CASE Topmost(flags, level, node_in_level)
      BY <1>1, <1>6, <2>1 DEF TypeOK, Topmost
    <2>2. CASE ~Topmost(flags, level, node_in_level)
      <3>1. wp[n] = IF Filled(level, node_in_level, n) THEN seed_tree[n] ELSE NoSeed
        BY <1>1, <1>2, <1>6, <2>2 DEF RebuiltUpTo
      <3>2. Node(level - 1, h) < n /\ Node(level - 1, h) \in Nodes /\ level > 0
        BY <1>1, NodeOrder
      <3>3. flags[Node(level - 1, h)] \in {TO_PUBLISH, NOT_TO_PUBLISH}
        BY <3>2 DEF TypeOK
      <3>4. Filled(level, node_in_level, n) <=> flags[n] = TO_PUBLISH
        BY <2>2, <3>2, <3>3 DEF Filled, Topmost
      <3> QED BY <3>1, <3>4
    <2> QED BY <2>1, <2>2
  <1>10. wp \in [Nodes -> Memory]
    BY <1>6, <1>8 DEF TypeOK, Memory
  <1>11. rebuilt_tree' = IF flags[n] = TO_PUBLISH /\ node_in_level < Expanded(level)
                           THEN StoreChildren(wp, n, LeftChildNode(n, level)) ELSE wp
    BY <1>1 DEF RebuildNode
  <1> HIDE DEF wp
  <1>12. IsInner(level, node_in_level) <=> node_in_level < Expanded(level)
    <2>1. Expanded(level) \in Nat /\ (level = LOG2T => Expanded(level) = 0) /\ LOG2T \in Nat
      BY <1>1, LevelFacts
    <2> QED BY <1>1, <2>1 DEF IsInner
  <1>13. CASE flags[n] = TO_PUBLISH /\ node_in_level < Expanded(level)
    <2>1. /\ level \in 0 .. LOG2T - 1 /\ node_in_level \in 0 .. Expanded(level) - 1
      BY <1>12, <1>13 DEF IsInner
    <2>2. rebuilt_tree' = StoreChildren(wp, n, Node(level + 1, 2 * node_in_level))
      BY <1>11, <1>13, <2>1, ChildNode
    <2>3. wp[n] \in Seed
      BY <1>8, <1>9, <1>13
    <2>4. /\ HoldsChildren(rebuilt_tree', level, node_in_level)
          /\ \A m \in Levels : \A k \in 0 .. npl[m] - 1 :
               ~(m = level + 1 /\ (k = 2 * node_in_level \/ k = 2 * node_in_level + 1)) =>
                 rebuilt_tree'[Node(m, k)] = wp[Node(m, k)]
      BY <1>10, <2>1, <2>2, <2>3, StoreChildrenValue
    <2>5. level # level + 1
      BY <1>1
    <2>6. rebuilt_tree'[n] = seed_tree[n]
      BY <1>1, <1>9, <1>13, <2>4, <2>5
    <2>7. HoldsChildren(seed_tree, level, node_in_level)
      BY <1>2, <2>1 DEF BuildInv
    <2>8. /\ rebuilt_tree'[Node(level + 1, 2 * node_in_level)]
               = seed_tree[Node(level + 1, 2 * node_in_level)]
          /\ rebuilt_tree'[Node(level + 1, 2 * node_in_level + 1)]
               = seed_tree[Node(level + 1, 2 * node_in_level + 1)]
      BY <2>4, <2>6, <2>7 DEF HoldsChildren
    <2>9. /\ flags[Node(level + 1, 2 * node_in_level)] = TO_PUBLISH
          /\ flags[Node(level + 1, 2 * node_in_level + 1)] = TO_PUBLISH
      BY <1>2, <1>13, <2>1 DEF Labelled, LabelOK
    <2>10. ASSUME NEW m \in Levels, NEW k \in 0 .. npl[m] - 1,
                  m = level + 1, k = 2 * node_in_level \/ k = 2 * node_in_level + 1
           PROVE  rebuilt_tree'[Node(m, k)] = seed_tree[Node(m, k)] /\ Filled(m, k, n + 1)
      <3>1. k \div 2 = node_in_level /\ m - 1 = level /\ m > 0
        BY <1>1, <2>10
      <3>2. n < n + 1
        BY <1>1 DEF Nodes
      <3> QED BY <1>13, <2>8, <2>9, <2>10, <3>1, <3>2 DEF Filled
    <2>11. ASSUME NEW m \in Levels, NEW k \in 0 .. npl[m] - 1,
                  ~(m = level + 1 /\ (k = 2 * node_in_level \/ k = 2 * node_in_level + 1)),
                  ~(m = level /\ k = node_in_level)
           PROVE  /\ rebuilt_tree'[Node(m, k)] = rebuilt_tree[Node(m, k)]
                  /\ m > 0 => ~(m - 1 = level /\ k \div 2 = node_in_level)
      <3>1. m > 0 => ~(m - 1 = level /\ k \div 2 = node_in_level)
        <4>1. SUFFICES ASSUME m > 0, m - 1 = level, k \div 2 = node_in_level PROVE FALSE
          OBVIOUS
        <4>2. m \in 1 .. LOG2T
          BY <4>1 DEF Levels
        <4>3. k = 2 * (k \div 2) \/ k = 2 * (k \div 2) + 1
          BY <4>2, ParentNode
        <4>4. m = level + 1
          BY <4>1, <4>2
        <4> QED BY <2>11, <4>1, <4>3, <4>4
      <3> QED BY <1>7, <2>4, <2>11, <3>1
    <2>12. ASSUME NEW m \in Levels, NEW k \in 0 .. npl[m] - 1
           PROVE  rebuilt_tree'[Node(m, k)] =
                    IF Filled(m, k, n + 1) THEN seed_tree[Node(m, k)] ELSE NoSeed
      <3>1. CASE m = level + 1 /\ (k = 2 * node_in_level \/ k = 2 * node_in_level + 1)
        BY <2>10, <3>1
      <3>2. CASE m = level /\ k = node_in_level
        <4>1. n < n + 1 /\ level > 0
          BY <1>1 DEF Nodes
        <4> QED BY <1>13, <2>6, <3>2, <4>1 DEF Filled
      <3>3. CASE /\ ~(m = level + 1 /\ (k = 2 * node_in_level \/ k = 2 * node_in_level + 1))
                 /\ ~(m = level /\ k = node_in_level)
        <4>1. /\ rebuilt_tree'[Node(m, k)] = rebuilt_tree[Node(m, k)]
              /\ m > 0 => ~(m - 1 = level /\ k \div 2 = node_in_level)
          BY <2>11, <3>3
        <4>2. Filled(m, k, n + 1) <=> Filled(m, k, n)
          <5>1. Node(m, k) < n + 1 <=> Node(m, k) < n
            <6>1. Node(m, k) # n /\ Node(m, k) \in Nodes
              BY <1>1, <3>3, NodeOrder
            <6> QED BY <1>1, <6>1 DEF Nodes
          <5>2. m > 0 => (Node(m - 1, k \div 2) < n + 1 <=> Node(m - 1, k \div 2) < n)
            <6>1. SUFFICES ASSUME m > 0
                           PROVE  Node(m - 1, k \div 2) < n + 1 <=> Node(m - 1, k \div 2) < n
              OBVIOUS
            <6>2. m \in 1 .. LOG2T
              BY <6>1 DEF Levels
            <6>3. m - 1 \in Levels /\ k \div 2 \in 0 .. npl[m - 1] - 1
              BY <6>2, ParentNode, ChildNode
            <6>4. Node(m - 1, k \div 2) # n /\ Node(m - 1, k \div 2) \in Nodes
              BY <1>1, <4>1, <6>1, <6>3, NodeOrder
            <6> QED BY <1>1, <6>4 DEF Nodes
          <5> QED BY <5>1, <5>2 DEF Filled
        <4> QED BY <1>2, <4>1, <4>2 DEF RebuiltUpTo
      <3> QED BY <3>1, <3>2, <3>3
    <2> QED BY <1>1, <2>12
  <1>14. CASE ~(flags[n] = TO_PUBLISH /\ node_in_level < Expanded(level))
    <2>1. rebuilt_tree' = wp
      BY <1>11, <1>14
    <2>2. ASSUME NEW m \in Levels, NEW k \in 0 .. npl[m] - 1
          PROVE  rebuilt_tree'[Node(m, k)] =
                   IF Filled(m, k, n + 1) THEN seed_tree[Node(m, k)] ELSE NoSeed
      <3>1. CASE m = level /\ k = node_in_level
        <4>1. n < n + 1 /\ level > 0
          BY <1>1 DEF Nodes
        <4> QED BY <1>9, <2>1, <3>1, <4>1 DEF Filled
      <3>2. CASE ~(m = level /\ k = node_in_level)
        <4>1. Node(m, k) < n + 1 <=> Node(m, k) < n
          <5>1. Node(m, k) # n /\ Node(m, k) \in Nodes
            BY <1>1, <3>2, NodeOrder
          <5> QED BY <1>1, <5>1 DEF Nodes
        <4>2. m > 0 => (flags[Node(m - 1, k \div 2)] = TO_PUBLISH /\ Node(m - 1, k \div 2) < n + 1
                        <=> flags[Node(m - 1, k \div 2)] = TO_PUBLISH /\ Node(m - 1, k \div 2) < n)
          <5>1. SUFFICES ASSUME m > 0
                         PROVE  flags[Node(m - 1, k \div 2)] = TO_PUBLISH /\ Node(m - 1, k \div 2) < n + 1
                                <=> flags[Node(m - 1, k \div 2)] = TO_PUBLISH /\ Node(m - 1, k \div 2) < n
            OBVIOUS
          <5>2. m \in 1 .. LOG2T
            BY <5>1 DEF Levels
          <5>3. m - 1 \in 0 .. LOG2T - 1 /\ k \div 2 \in 0 .. Expanded(m - 1) - 1
            BY <5>2, ParentNode
          <5>4. m - 1 \in Levels /\ k \div 2 \in 0 .. npl[m - 1] - 1
            BY <5>3, ChildNode
          <5>5. Node(m - 1, k \div 2) \in Nodes
            BY <5>4, NodeOrder
          <5>6. CASE Node(m - 1, k \div 2) = n
            <6>1. m - 1 = level /\ k \div 2 = node_in_level
              BY <1>1, <5>4, <5>6, NodeOrder
            <6>2. node_in_level < Expanded(level)
              BY <5>3, <6>1, <1>12 DEF IsInner
            <6> QED BY <1>14, <5>6, <6>2
          <5>7. CASE Node(m - 1, k \div 2) # n
            BY <1>1, <5>5, <5>7 DEF Nodes
          <5> QED BY <5>6, <5>7
        <4>3. Filled(m, k, n + 1) <=> Filled(m, k, n)
          BY <4>1, <4>2 DEF Filled
        <4> QED BY <1>2, <1>7, <2>1, <3>2, <4>3 DEF RebuiltUpTo
      <3> QED BY <3>1, <3>2
    <2> QED BY <1>1, <2>2
  <1> QED BY <1>13, <1>14

LEMMA RebuildStep == IInv /\ [Next]_vars => RebuildInv'
  <1> SUFFICES ASSUME TypeOK, LoopInv, BuildInv, FlagsInv, PathInv, AgreeInv, RebuildInv,
                      [Next]_vars
               PROVE  RebuildInv'
    BY DEF IInv
  <1>1. CASE \/ ExpandNode \/ BuildNextLevel \/ SignerSeedLeaves \/ SampleChallenge \/ PublishNode
             \/ PassNode \/ PathDone \/ ComputeParent \/ ComputePrevLevel
    <2>1. /\ pc \notin {"RebuildGGM", "done"} /\ pc' \notin {"RebuildGGM", "done"}
          /\ UNCHANGED <<rebuilt_tree, nodes_used>>
      BY <1>1 DEF ExpandNode, BuildNextLevel, SignerSeedLeaves, SampleChallenge, PublishNode,
                  PassNode, PathDone, ComputeParent, ComputePrevLevel, Computing, ScanNode, verifier
    <2> QED BY <2>1 DEF RebuildInv, Blank
  <1>2. CASE ComputeDone
    <2>1. /\ pc \notin {"RebuildGGM", "done"} /\ UNCHANGED <<rebuilt_tree, nodes_used>>
          /\ UNCHANGED <<flags, seed_tree, path, path_flags>> /\ Current' = 1 /\ Computing
      BY <1>2 DEF ComputeDone, Computing, signer, verifier, StartLoop, Current
    <2>2. rebuilt_tree = Blank /\ nodes_used = 0
      BY <2>1 DEF RebuildInv
    <2>3. CASE pc = "sign_compute_seeds_to_publish"
      <3>1. pc' = "GGMPath"
        BY <1>2, <2>3 DEF ComputeDone
      <3> QED BY <2>1, <2>2, <3>1 DEF RebuildInv, Blank
    <2>4. CASE pc = "verify_compute_seeds_to_publish"
      <3>1. pc' = "RebuildGGM"
        BY <1>2, <2>4 DEF ComputeDone
      <3>2. path_flags[0] = NOT_TO_PUBLISH /\ PathUpTo(path_flags, 2 * T - 1)
        BY <2>4 DEF PathInv, SignerDone
      <3>3. flags[0] = NOT_TO_PUBLISH
        <4>1. AgreeInv'
          BY AgreeStep
        <4>2. 0 \in Levels /\ 0 \in 0 .. npl[0] - 1 /\ Node(0, 0) = 0
          BY LevelFacts DEF Node
        <4> QED BY <2>1, <3>1, <3>2, <4>1, <4>2 DEF AgreeInv
      <3>4. ASSUME NEW l \in Levels, NEW i \in 0 .. npl[l] - 1
            PROVE  rebuilt_tree[Node(l, i)] = NoSeed /\ ~Filled(l, i, 1)
        <4>1. rebuilt_tree[Node(l, i)] = NoSeed
          BY <2>2, NodeOrder DEF Blank
        <4>2. ~Filled(l, i, 1)
          <5>1. SUFFICES ASSUME Filled(l, i, 1) PROVE FALSE
            OBVIOUS
          <5>2. l \in 1 .. LOG2T
            BY <5>1 DEF Filled, Levels
          <5>3. ~(Node(l, i) < 1)
            BY <5>2, NodeBelowRoot
          <5>4. flags[Node(l - 1, i \div 2)] = TO_PUBLISH /\ Node(l - 1, i \div 2) < 1
            BY <5>1, <5>3 DEF Filled
          <5>5. Node(l - 1, i \div 2) \in Nodes
            BY <5>2, ParentNode, ChildNode, NodeOrder
          <5>6. Node(l - 1, i \div 2) = 0
            BY <5>4, <5>5 DEF Nodes
          <5> QED BY <3>3, <5>4, <5>6 DEF TO_PUBLISH, NOT_TO_PUBLISH
        <4> QED BY <4>1, <4>2
      <3>5. \A k \in 1 .. Len(path) : ~(path[k] < 1)
        BY <3>2, NodeBelowRoot DEF PathUpTo
      <3>6. UsedUpTo(1)
        <4>1. Len(path) \in Nat
          BY DEF TypeOK
        <4> QED BY <2>2, <3>5, <4>1 DEF UsedUpTo
      <3> QED BY <2>1, <2>2, <3>1, <3>4, <3>6 DEF RebuildInv, RebuiltUpTo, UsedUpTo, Filled
    <2> QED BY <2>1, <2>3, <2>4 DEF Computing
  <1>3. CASE RebuildNode
    <2> DEFINE n == Node(level, node_in_level)
    <2>1. /\ pc = "RebuildGGM" /\ pc' = "RebuildGGM" /\ Current = n /\ Current' = n + 1
          /\ UNCHANGED <<flags, seed_tree, path, path_flags>>
          /\ level \in 1 .. LOG2T /\ node_in_level \in 0 .. npl[level] - 1
          /\ level - 1 \in Levels /\ node_in_level \div 2 \in 0 .. npl[level - 1] - 1
          /\ level \in Levels
      BY <1>3, ScannedNode DEF RebuildNode, ScanNode, signer
    <2>2. RebuiltUpTo(Current)'
      <3>1. \A m \in Levels : \A k \in 0 .. npl[m] - 1 :
              rebuilt_tree'[Node(m, k)] =
                IF Filled(m, k, n + 1) THEN seed_tree[Node(m, k)] ELSE NoSeed
        BY <1>3, <2>1, RebuildTree
      <3> QED BY <2>1, <3>1 DEF RebuiltUpTo, Filled
    <2>3. UsedUpTo(n)
      BY <2>1 DEF RebuildInv
    <2>4. Published(current_node, father_node) <=> Topmost(path_flags, level, node_in_level)
      <3>1. Published(current_node, father_node) <=> Topmost(flags, level, node_in_level)
        BY <1>3, PublishedNode DEF RebuildNode
      <3> QED BY <2>1, <3>1 DEF AgreeInv, Topmost
    <2>5. CASE Published(current_node, father_node)
      <3>1. nodes_used' = nodes_used + 1
        BY <1>3, <2>5 DEF RebuildNode
      <3>2. /\ nodes_used + 1 <= Len(path)
            /\ \A k \in 1 .. Len(path) : k <= nodes_used + 1 <=> path[k] < n + 1
        BY <2>1, <2>3, <2>4, <2>5, NextStoredSeed
      <3> QED BY <2>1, <2>2, <3>1, <3>2 DEF RebuildInv, UsedUpTo
    <2>6. CASE ~Published(current_node, father_node)
      <3>1. nodes_used' = nodes_used
        BY <1>3, <2>6 DEF RebuildNode
      <3>2. /\ nodes_used <= Len(path)
            /\ \A k \in 1 .. Len(path) : k <= nodes_used <=> path[k] < n + 1
        BY <2>1, <2>3, <2>4, <2>6, NextStoredSeed DEF UsedUpTo
      <3> QED BY <2>1, <2>2, <3>1, <3>2 DEF RebuildInv, UsedUpTo
    <2> QED BY <2>5, <2>6
  <1>4. CASE ScanNextLevel
    <2>1. /\ Current' = Current /\ pc' = pc /\ pc \in {"GGMPath", "RebuildGGM"}
          /\ UNCHANGED <<flags, seed_tree, path, path_flags, rebuilt_tree, nodes_used, rebuilt_seeds>>
      BY <1>4, LevelChange DEF ScanNextLevel, signer, verifier
    <2> QED BY <2>1 DEF RebuildInv, RebuiltUpTo, UsedUpTo, Filled, Blank
  <1>5. CASE VerifierSeedLeaves
    <2>1. /\ pc = "RebuildGGM" /\ pc' = "done" /\ level > LOG2T
          /\ UNCHANGED <<flags, seed_tree, path, path_flags, rebuilt_tree, nodes_used>>
          /\ rebuilt_seeds' = seed_leaves(rebuilt_tree)
      BY <1>5 DEF VerifierSeedLeaves, signer
    <2>2. Current = 2 * T - 1
      <3>1. level \in Int /\ LOG2T \in Int /\ T \in Int
        BY LevelFacts DEF TypeOK
      <3>2. node_in_level = 0 /\ start_node = 2 * T - 1
        BY <2>1 DEF LoopInv, Scanning
      <3> QED BY <3>1, <3>2 DEF Current
    <2> QED BY <2>1, <2>2 DEF RebuildInv, RebuiltUpTo, UsedUpTo, Filled, seed_leaves
  <1>6. CASE UNCHANGED vars
    BY <1>6 DEF vars, loop, signer, verifier, RebuildInv, RebuiltUpTo, UsedUpTo, Filled, Blank,
                seed_leaves, Current
  <1> QED BY <1>1, <1>2, <1>3, <1>4, <1>5, <1>6 DEF Next

-----------------------------------------------------------------------------
(* The invariant *)

LEMMA InitIInv == Init => IInv
  <1> SUFFICES ASSUME Init PROVE IInv
    OBVIOUS
  <1>1. /\ T \in Nat /\ T >= 1 /\ LOG2T \in Nat /\ 0 \in Levels /\ LevelStart[0] = 0
        /\ Expanded(0) = 1 /\ 0 \in Nodes
    <2>1. T \in Nat \ {0}
      BY LevelFacts
    <2> QED BY <2>1, LevelFacts DEF Nodes
  <1>2. PathFlags \in [Nodes -> {TO_PUBLISH, NOT_TO_PUBLISH}]
    BY DEF PathFlags
  <1>3. seed_tree \in [Nodes -> Memory] /\ Blank \in [Nodes -> Memory]
    BY SeedAssumption DEF Init, Blank, Memory
  <1>4. TypeOK
    BY <1>1, <1>2, <1>3 DEF Init, TypeOK, Memory
  <1>5. LoopInv
    BY <1>1 DEF Init, LoopInv, Computing, Scanning
  <1>6. BuildInv
    <2>1. seed_tree[0] = RootSeed
      BY <1>1 DEF Init, Blank
    <2>2. Current = 0
      BY DEF Init, Current
    <2>3. ASSUME NEW l \in 0 .. LOG2T - 1, NEW i \in 0 .. Expanded(l) - 1
          PROVE  /\ Node(l, i) >= Current
                 /\ seed_tree[Node(l + 1, 2 * i)] = NoSeed
                 /\ seed_tree[Node(l + 1, 2 * i + 1)] = NoSeed
      <3>1. /\ Node(l, i) \in Nodes /\ Node(l + 1, 2 * i) \in Nodes
            /\ Node(l + 1, 2 * i + 1) \in Nodes
            /\ Node(l, i) < Node(l + 1, 2 * i)
            /\ Node(l + 1, 2 * i + 1) = Node(l + 1, 2 * i) + 1
        BY ChildNode, NodeOrder
      <3>2. Node(l + 1, 2 * i) # 0 /\ Node(l + 1, 2 * i + 1) # 0 /\ Node(l, i) >= Current
        BY <2>2, <3>1 DEF Nodes
      <3> QED BY <3>1, <3>2 DEF Init, Blank
    <2> QED BY <2>1, <2>3 DEF BuildInv, Init
  <1>7. FlagsInv
    BY DEF Init, FlagsInv, Computing, Scanning
  <1>8. PathInv
    BY DEF Init, PathInv, SignerDone
  <1>9. AgreeInv
    BY DEF Init, AgreeInv
  <1>10. RebuildInv
    BY DEF Init, RebuildInv
  <1> QED BY <1>4, <1>5, <1>6, <1>7, <1>8, <1>9, <1>10 DEF IInv

\* The invariant is inductive: it holds in every state of a signature and its
\* verification.
THEOREM Invariance == Spec => []IInv
  <1>1. Init => IInv
    BY InitIInv
  <1>2. IInv /\ [Next]_vars => IInv'
    BY TypeStep, LoopStep, BuildStep, FlagsStep, PathStep, AgreeStep, RebuildStep DEF IInv
  <1> QED BY <1>1, <1>2, PTL DEF Spec

\* Types, and with them that no loop leaves the tables or the trees.
THEOREM TypeCorrect == Spec => []TypeOK
  <1>1. IInv => TypeOK
    BY DEF IInv
  <1> QED BY <1>1, Invariance, PTL

\* GGMPath and RebuildGGM label the same nodes for publication.
THEOREM LabelsAgreeCorrect == Spec => []LabelsAgree
  <1>1. IInv => LabelsAgree
    BY DEF IInv, AgreeInv, LabelsAgree
  <1> QED BY <1>1, Invariance, PTL

\* A leaf the challenge opens is labelled, so the verifier's tree holds the
\* signer's seed there.
LEMMA OpenedLeaf ==
  ASSUME IInv, pc = "done", NEW r \in Rounds
  PROVE  rebuilt_tree[LeafNode(r)] =
           IF indices_to_publish[r] = TO_PUBLISH THEN seed_tree[LeafNode(r)] ELSE NoSeed
  <1>1. PICK l \in Levels : \E i \in 0 .. npl[l] - 1 : LeafNode(r) = Node(l, i) /\ ~IsInner(l, i)
    BY LeafNodes
  <1>2. PICK i \in 0 .. npl[l] - 1 : LeafNode(r) = Node(l, i) /\ ~IsInner(l, i)
    BY <1>1
  <1>3. l \in 1 .. LOG2T
    <2>1. l # 0
      <3>1. SUFFICES ASSUME l = 0 PROVE FALSE
        OBVIOUS
      <3>2. i \in 0 .. Expanded(0) - 1 /\ 0 \in 0 .. LOG2T - 1
        BY <3>1, LevelFacts
      <3> QED BY <1>2, <3>1, <3>2 DEF IsInner
    <2> QED BY <2>1, LevelFacts DEF Levels
  <1>4. Node(l, i) < 2 * T - 1 /\ l > 0
    BY <1>3, NodeBelowRoot
  <1>5. flags[Node(l, i)] = indices_to_publish[r]
    BY <1>2 DEF IInv, FlagsInv, Labelled, LeavesLabelled
  <1>6. Filled(l, i, 2 * T - 1) <=> indices_to_publish[r] = TO_PUBLISH
    BY <1>4, <1>5 DEF Filled
  <1> QED BY <1>2, <1>6 DEF IInv, RebuildInv, RebuiltUpTo

\* The signer's tree has a seed in every leaf once it is built.
LEMMA LeafSeed ==
  ASSUME IInv, pc # "BuildGGM", NEW r \in Rounds
  PROVE  seed_tree[LeafNode(r)] \in Seed
  <1>1. PICK l \in Levels : \E i \in 0 .. npl[l] - 1 : LeafNode(r) = Node(l, i)
    BY LeafNodes
  <1>2. PICK i \in 0 .. npl[l] - 1 : LeafNode(r) = Node(l, i)
    BY <1>1
  <1>3. CASE l = 0
    <2>1. Node(l, i) = 0
      BY <1>2, <1>3, LevelFacts DEF Node
    <2> QED BY <1>2, <2>1, SeedAssumption DEF IInv, BuildInv
  <1>4. CASE l # 0
    <2>1. l \in 1 .. LOG2T
      BY <1>4 DEF Levels
    <2> QED BY <1>2, <2>1, SignerSeeds DEF IInv
  <1> QED BY <1>3, <1>4

\* RebuildGGM recovers the signer's seed of every opened round, for every
\* layout, challenge and CSPRNG.
THEOREM RecoveryCorrect == Spec => []Recovery
  <1>1. ASSUME IInv PROVE Recovery
    <2> SUFFICES ASSUME pc = "done", NEW r \in Rounds, indices_to_publish[r] = TO_PUBLISH
                 PROVE  rebuilt_seeds[r] = rounds_seeds[r] /\ rebuilt_seeds[r] # NoSeed
      BY DEF Recovery
    <2>1. rebuilt_tree[LeafNode(r)] = seed_tree[LeafNode(r)]
      BY <1>1, OpenedLeaf
    <2>2. rebuilt_seeds[r] = rebuilt_tree[LeafNode(r)] /\ rounds_seeds[r] = seed_tree[LeafNode(r)]
      BY <1>1 DEF IInv, RebuildInv, BuildInv, seed_leaves
    <2>3. seed_tree[LeafNode(r)] \in Seed
      BY <1>1, LeafSeed
    <2> QED BY <2>1, <2>2, <2>3, SeedAssumption
  <1> QED BY <1>1, Invariance, PTL

\* The verifier uses every published seed and reads none beyond the last.
THEOREM AllSeedsUsedCorrect == Spec => []AllSeedsUsed
  <1>1. ASSUME IInv PROVE AllSeedsUsed
    <2>1. Len(seed_storage) = Len(path) /\ Len(path) \in Nat /\ nodes_used \in Nat
      BY <1>1 DEF IInv, TypeOK
    <2>2. nodes_used <= Len(path)
      BY <1>1, <2>1 DEF IInv, RebuildInv, UsedUpTo
    <2>3. ASSUME pc = "done" PROVE nodes_used = Len(path)
      <3>1. SUFFICES ASSUME nodes_used < Len(path) PROVE FALSE
        BY <2>1, <2>2
      <3>2. Len(path) \in 1 .. Len(path) /\ ~(Len(path) <= nodes_used)
        BY <2>1, <3>1
      <3>3. path[Len(path)] < 2 * T - 1
        BY <1>1, <2>3, <3>2 DEF IInv, PathInv, SignerDone, PathUpTo
      <3> QED BY <1>1, <2>3, <3>2, <3>3 DEF IInv, RebuildInv, UsedUpTo
    <2> QED BY <2>1, <2>2, <2>3 DEF AllSeedsUsed
  <1> QED BY <1>1, Invariance, PTL

\* Nothing that can be expanded from the published seeds is the seed of a
\* round the challenge keeps closed.
THEOREM SecrecyCorrect == Spec => []Secrecy
  <1>1. ASSUME IInv, pc = "done",
               NEW known, known = {n \in Nodes : rebuilt_tree[n] # NoSeed}
        PROVE  /\ \A k \in DOMAIN path : path[k] \in known
               /\ \A l \in 0 .. LOG2T - 1 : \A i \in 0 .. Expanded(l) - 1 :
                    Node(l, i) \in known =>
                      {LeftChildNode(Node(l, i), l), LeftChildNode(Node(l, i), l) + 1} \subseteq known
               /\ \A r \in Rounds : indices_to_publish[r] = NOT_TO_PUBLISH =>
                    LeafNode(r) \notin known
    <2> DEFINE end == 2 * T - 1
    <2>1. \A l \in Levels : \A i \in 0 .. npl[l] - 1 :
            /\ Node(l, i) \in Nodes
            /\ rebuilt_tree[Node(l, i)] =
                 IF Filled(l, i, end) THEN seed_tree[Node(l, i)] ELSE NoSeed
            /\ flags[Node(l, i)] = path_flags[Node(l, i)]
      BY <1>1, NodeOrder DEF IInv, RebuildInv, RebuiltUpTo, AgreeInv
    <2>2. ASSUME NEW l \in 1 .. LOG2T, NEW i \in 0 .. npl[l] - 1, flags[Node(l, i)] = TO_PUBLISH
          PROVE  Node(l, i) \in known
      <3>1. l \in Levels /\ Node(l, i) < end /\ l > 0
        BY NodeBelowRoot
      <3>2. Filled(l, i, end)
        BY <2>2, <3>1 DEF Filled
      <3>3. seed_tree[Node(l, i)] # NoSeed
        BY <1>1, SignerSeeds, SeedAssumption DEF IInv
      <3> QED BY <1>1, <2>1, <3>1, <3>2, <3>3
    <2>3. ASSUME NEW k \in DOMAIN path PROVE path[k] \in known
      <3>1. k \in 1 .. Len(path)
        BY <1>1 DEF IInv, TypeOK
      <3>2. PICK l \in 1 .. LOG2T : \E i \in 0 .. npl[l] - 1 :
              path[k] = Node(l, i) /\ Topmost(path_flags, l, i)
        BY <1>1, <3>1 DEF IInv, PathInv, SignerDone, PathUpTo
      <3>3. PICK i \in 0 .. npl[l] - 1 : path[k] = Node(l, i) /\ Topmost(path_flags, l, i)
        BY <3>2
      <3>4. flags[Node(l, i)] = TO_PUBLISH
        BY <2>1, <3>3, NodeBelowRoot DEF Topmost
      <3> QED BY <2>2, <3>3, <3>4
    <2>4. ASSUME NEW l \in 0 .. LOG2T - 1, NEW i \in 0 .. Expanded(l) - 1, Node(l, i) \in known
          PROVE  {LeftChildNode(Node(l, i), l), LeftChildNode(Node(l, i), l) + 1} \subseteq known
      <3>1. /\ l \in Levels /\ i \in 0 .. npl[l] - 1 /\ l + 1 \in 1 .. LOG2T
            /\ 2 * i \in 0 .. npl[l + 1] - 1 /\ 2 * i + 1 \in 0 .. npl[l + 1] - 1
            /\ LeftChildNode(Node(l, i), l) = Node(l + 1, 2 * i)
            /\ Node(l + 1, 2 * i + 1) = Node(l + 1, 2 * i) + 1
        BY ChildNode, LevelFacts
      <3>2. flags[Node(l, i)] = TO_PUBLISH
        BY <1>1, <2>1, <2>4, <3>1 DEF Filled
      <3>3. LabelOK(flags, l, i)
        BY <1>1 DEF IInv, FlagsInv, Labelled
      <3>4. /\ flags[Node(l + 1, 2 * i)] = TO_PUBLISH
            /\ flags[Node(l + 1, 2 * i + 1)] = TO_PUBLISH
        BY <3>2, <3>3 DEF LabelOK
      <3>5. Node(l + 1, 2 * i) \in known /\ Node(l + 1, 2 * i + 1) \in known
        BY <2>2, <3>1, <3>4
      <3> QED BY <3>1, <3>5
    <2>5. ASSUME NEW r \in Rounds, indices_to_publish[r] = NOT_TO_PUBLISH
          PROVE  LeafNode(r) \notin known
      BY <1>1, <2>5, OpenedLeaf DEF TO_PUBLISH, NOT_TO_PUBLISH
    <2> QED BY <2>3, <2>4, <2>5
  <1>2. IInv => Secrecy
    BY <1>1 DEF Secrecy
  <1> QED BY <1>2, Invariance, PTL

\* Neither tree has a node written twice.
THEOREM WriteOnceCorrect == Spec => WriteOnce
  <1>1. ASSUME IInv, [Next]_vars, NEW l \in Levels, NEW i \in 0 .. npl[l] - 1,
               seed_tree[Node(l, i)] # NoSeed
        PROVE  seed_tree'[Node(l, i)] = seed_tree[Node(l, i)]
    <2>1. CASE ExpandNode
      <3>1. /\ level \in 0 .. LOG2T - 1 /\ node_in_level \in 0 .. Expanded(level) - 1
            /\ Node(level, node_in_level) >= Current /\ pc = "BuildGGM"
            /\ seed_tree' = StoreChildren(seed_tree, Node(level, node_in_level),
                                          Node(level + 1, 2 * node_in_level))
        BY <1>1, <2>1, BuildNode DEF ExpandNode, Nodes, IInv
      <3>2. /\ seed_tree[Node(level + 1, 2 * node_in_level)] = NoSeed
            /\ seed_tree[Node(level + 1, 2 * node_in_level + 1)] = NoSeed
        BY <1>1, <3>1 DEF IInv, BuildInv
      <3>3. /\ level + 1 \in Levels
            /\ Node(level + 1, 2 * node_in_level + 1) = Node(level + 1, 2 * node_in_level) + 1
        BY <3>1, ChildNode
      <3>4. /\ Node(l, i) # Node(level + 1, 2 * node_in_level)
            /\ Node(l, i) # Node(level + 1, 2 * node_in_level) + 1
        BY <1>1, <3>2, <3>3
      <3> QED BY <1>1, <3>1, <3>4, NodeOrder DEF StoreChildren, IInv, TypeOK
    <2>2. CASE ~ExpandNode
      BY <1>1, <2>2 DEF Next, BuildNextLevel, SignerSeedLeaves, SampleChallenge, ComputeParent,
                        ComputePrevLevel, ComputeDone, PublishNode, PassNode, ScanNextLevel,
                        PathDone, RebuildNode, VerifierSeedLeaves, signer, vars
    <2> QED BY <2>1, <2>2
  <1>2. ASSUME IInv, [Next]_vars, NEW l \in Levels, NEW i \in 0 .. npl[l] - 1,
               rebuilt_tree[Node(l, i)] # NoSeed
        PROVE  rebuilt_tree'[Node(l, i)] = rebuilt_tree[Node(l, i)]
    <2>1. CASE RebuildNode
      <3>1. RebuiltUpTo(Current) /\ Current \in Nodes
        BY <1>2, <2>1, ScannedNode DEF RebuildNode, ScanNode, IInv, RebuildInv
      <3>2. Filled(l, i, Current) /\ rebuilt_tree[Node(l, i)] = seed_tree[Node(l, i)]
        BY <1>2, <3>1 DEF RebuiltUpTo
      <3>3. Filled(l, i, Current + 1)
        <4>1. l \in 1 .. LOG2T
          BY <3>2 DEF Filled, Levels
        <4>2. Node(l, i) \in Nodes /\ Node(l - 1, i \div 2) \in Nodes
          BY <4>1, NodeOrder, ParentNode, ChildNode
        <4>3. /\ Node(l, i) < Current => Node(l, i) < Current + 1
              /\ Node(l - 1, i \div 2) < Current => Node(l - 1, i \div 2) < Current + 1
          BY <3>1, <4>2 DEF Nodes
        <4> QED BY <3>2, <4>3 DEF Filled
      <3> QED BY <1>2, <2>1, <3>2, <3>3, RebuildTree DEF IInv
    <2>2. CASE ~RebuildNode
      BY <1>2, <2>2 DEF Next, ExpandNode, BuildNextLevel, SignerSeedLeaves, SampleChallenge,
                        ComputeParent, ComputePrevLevel, ComputeDone, PublishNode, PassNode,
                        ScanNextLevel, PathDone, VerifierSeedLeaves, verifier, vars
    <2> QED BY <2>1, <2>2
  <1>3. IInv /\ [Next]_vars =>
          [\A l \in Levels : \A i \in 0 .. npl[l] - 1 : LET n == Node(l, i) IN
             /\ seed_tree[n] # NoSeed => seed_tree'[n] = seed_tree[n]
             /\ rebuilt_tree[n] # NoSeed => rebuilt_tree'[n] = rebuilt_tree[n]]_vars
    BY <1>1, <1>2
  <1> QED BY <1>3, Invariance, PTL DEF Spec, WriteOnce

-----------------------------------------------------------------------------
(* The rounds under a node *)

\* A set of numbers has a least one.
LEMMA Least ==
  ASSUME NEW S \in SUBSET Nat, S # {} PROVE \E n \in S : \A x \in S : ~(x < n)
<1>1. PICK n \in S : \A x \in S : ~(<<x, n>> \in OpToRel(<, Nat))
  BY WFMin, NatLessThanWellFounded
<1>2. ASSUME NEW x \in S, x < n PROVE FALSE
  <2>1. <<x, n>> \in OpToRel(<, Nat) BY <1>2 DEF OpToRel
  <2> QED BY <1>1, <2>1
<1> QED BY <1>2

\* There are twice as many sets with one element more to choose from.
LEMMA PowerOfTwo ==
  ASSUME NEW n \in Nat
  PROVE  2 ^ n \in Nat \ {0} /\ 2 ^ (n + 1) = 2 * 2 ^ n
<1> DEFINE A == SUBSET (1 .. n)
           B == {S \union {n + 1} : S \in A}
<1>1. /\ IsFiniteSet(1 .. n) /\ Cardinality(1 .. n) = n
      /\ IsFiniteSet(1 .. n + 1) /\ Cardinality(1 .. n + 1) = n + 1
  <2>1. 1 \in Int /\ n \in Int /\ n + 1 \in Int OBVIOUS
  <2>2. IsFiniteSet(1 .. n) /\ Cardinality(1 .. n) = IF 1 > n THEN 0 ELSE n - 1 + 1
    BY <2>1, FS_Interval
  <2>3. IsFiniteSet(1 .. n + 1) /\ Cardinality(1 .. n + 1) = IF 1 > n + 1 THEN 0 ELSE (n + 1) - 1 + 1
    BY <2>1, FS_Interval
  <2> QED BY <2>2, <2>3
<1>2. IsFiniteSet(A) /\ Cardinality(A) = 2 ^ n BY <1>1, FS_SUBSET
<1>3. Cardinality(SUBSET (1 .. n + 1)) = 2 ^ (n + 1) BY <1>1, FS_SUBSET
<1>4. \A S \in A : n + 1 \notin S OBVIOUS
<1>5. SUBSET (1 .. n + 1) = A \union B
  <2>1. ASSUME NEW S \in SUBSET (1 .. n + 1), S \notin A PROVE S \in B
    <3>1. n + 1 \in S /\ S \ {n + 1} \in A BY <2>1
    <3>2. S = (S \ {n + 1}) \union {n + 1} BY <3>1
    <3> QED BY <3>1, <3>2
  <2>2. A \subseteq SUBSET (1 .. n + 1) OBVIOUS
  <2>3. ASSUME NEW b \in B PROVE b \in SUBSET (1 .. n + 1)
    <3>1. PICK S \in A : b = S \union {n + 1} OBVIOUS
    <3>2. S \subseteq 1 .. n + 1 /\ n + 1 \in 1 .. n + 1 OBVIOUS
    <3> QED BY <3>1, <3>2
  <2> QED BY <2>1, <2>2, <2>3
<1>6. A \intersect B = {} BY <1>4
<1>7. IsFiniteSet(B) /\ Cardinality(B) = 2 ^ n
  <2> DEFINE f == [S \in A |-> S \union {n + 1}]
  <2>1. f \in Bijection(A, B)
    <3>1. \A S, R \in A : f[S] = f[R] => S = R
      <4> SUFFICES ASSUME NEW S \in A, NEW R \in A, S \union {n + 1} = R \union {n + 1}
                   PROVE  S = R
        OBVIOUS
      <4> QED BY <1>4
    <3>2. f \in [A -> B] OBVIOUS
    <3>3. \A b \in B : \E S \in A : f[S] = b OBVIOUS
    <3> HIDE DEF f, A, B
    <3>4. f \in Injection(A, B) BY <3>1, <3>2 DEF Injection, IsInjective
    <3>5. f \in Surjection(A, B) BY <3>2, <3>3 DEF Surjection
    <3> QED BY <3>4, <3>5 DEF Bijection
  <2>2. ExistsBijection(A, B) BY <2>1 DEF ExistsBijection
  <2> HIDE DEF A, B
  <2> QED BY <1>2, <2>2, FS_Bijection
<1> HIDE DEF A, B
<1>8. Cardinality(A \intersect B) = 0 BY <1>6, FS_EmptySet
<1>9. 2 ^ n \in Nat BY <1>2, FS_CardinalityType
<1>10. Cardinality(A \union B) = Cardinality(A) + Cardinality(B) - Cardinality(A \intersect B)
  BY <1>2, <1>7, FS_Union
<1>11. 2 ^ n # 0
  <2>1. {} \in A BY DEF A
  <2> QED BY <1>2, <2>1, FS_EmptySet
<1>12. 2 ^ (n + 1) = 2 ^ n + 2 ^ n - 0 BY <1>2, <1>3, <1>5, <1>7, <1>8, <1>10
<1> QED BY <1>9, <1>11, <1>12

\* Halving once more after going up n levels is going up n + 1.
LEMMA TwiceDivided ==
  ASSUME NEW k \in Nat, NEW p \in Nat \ {0}
  PROVE  /\ k \div (2 * p) = (k \div p) \div 2
         /\ k \div (2 * p) = (k \div 2) \div p
<1>0. ASSUME NEW a \in Nat, NEW b \in Nat \ {0}
      PROVE  a \div b \in Nat /\ b * (a \div b) <= a /\ a < b * (a \div b) + b
  BY <1>0
<1>1. ASSUME NEW a \in Nat, NEW b \in Nat \ {0}, NEW c \in Nat, b * c <= a, a < b * c + b
      PROVE  a \div b = c
  <2> DEFINE d == a \div b
  <2>1. d \in Nat /\ b * d <= a /\ a < b * d + b BY <1>0
  <2> HIDE DEF d
  <2>2. ASSUME NEW x \in Nat, NEW y \in Nat, x < y PROVE b * x + b <= b * y
    <3>1. y = (x + 1) + (y - (x + 1)) /\ y - (x + 1) \in Nat BY <2>2
    <3> DEFINE z == y - (x + 1)
    <3>2. b * ((x + 1) + z) = b * x + b + b * z /\ b * z \in Nat BY <3>1
    <3> QED BY <3>1, <3>2
  <2>3. ~(d < c)
    <3>1. SUFFICES ASSUME d < c PROVE FALSE OBVIOUS
    <3>2. b * d + b <= b * c BY <2>1, <2>2, <3>1
    <3>3. b * d \in Nat /\ b * c \in Nat BY <2>1
    <3> QED BY <1>1, <2>1, <3>2, <3>3
  <2>4. ~(c < d)
    <3>1. SUFFICES ASSUME c < d PROVE FALSE OBVIOUS
    <3>2. b * c + b <= b * d BY <2>1, <2>2, <3>1
    <3>3. b * d \in Nat /\ b * c \in Nat BY <2>1
    <3> QED BY <1>1, <2>1, <3>2, <3>3
  <2>5. d = c BY <2>1, <2>3, <2>4
  <2> QED BY <2>5 DEF d
<1>2. k \div (2 * p) = (k \div p) \div 2
  <2> DEFINE q == k \div p
             h == q \div 2
  <2>1. q \in Nat /\ p * q <= k /\ k < p * q + p BY <1>0
  <2>2. h \in Nat /\ q \in 2 * h .. 2 * h + 1 BY <2>1
  <2> HIDE DEF q, h
  <2>3. (2 * p) * h <= k /\ k < (2 * p) * h + 2 * p /\ 2 * p \in Nat \ {0}
    <3>1. CASE q = 2 * h
      <4>1. p * q = (2 * p) * h BY <2>2, <3>1
      <4> QED BY <2>1, <2>2, <4>1
    <3>2. CASE q = 2 * h + 1
      <4>1. p * q = (2 * p) * h + p /\ (2 * p) * h \in Nat BY <2>2, <3>2
      <4> QED BY <2>1, <2>2, <4>1
    <3> QED BY <2>2, <3>1, <3>2
  <2>4. k \div (2 * p) = h BY <1>1, <2>2, <2>3
  <2> QED BY <2>4 DEF q, h
<1>3. k \div (2 * p) = (k \div 2) \div p
  <2> DEFINE q == k \div 2
             h == q \div p
  <2>1. q \in Nat /\ k \in 2 * q .. 2 * q + 1 OBVIOUS
  <2>2. h \in Nat /\ p * h <= q /\ q < p * h + p BY <1>0, <2>1
  <2> HIDE DEF q, h
  <2>3. (2 * p) * h <= k /\ k < (2 * p) * h + 2 * p /\ 2 * p \in Nat \ {0}
    <3>1. (2 * p) * h = 2 * (p * h) /\ p * h \in Nat BY <2>2
    <3> QED BY <2>1, <2>2, <3>1
  <2>4. k \div (2 * p) = h BY <1>1, <2>2, <2>3
  <2> QED BY <2>4 DEF q, h
<1> QED BY <1>2, <1>3
\* Going up from a node, to a level above.
LEMMA NodeAbove ==
  ASSUME NEW l \in Levels, NEW m \in Levels, l < m, NEW k \in 0 .. npl[m] - 1
  PROVE  /\ k \div 2 ^ (m - l) \in 0 .. Expanded(l) - 1
         /\ k \div 2 ^ (m - l) = (k \div 2 ^ (m - (l + 1))) \div 2
<1>1. /\ \A n \in Levels : n \in Nat /\ npl[n] \in Nat /\ Expanded(n) \in 0 .. npl[n]
      /\ Levels = 0 .. LOG2T /\ LOG2T \in Nat
  BY LevelFacts DEF Levels
<1>2. ASSUME NEW d \in Nat, NEW x \in Nat
      PROVE  /\ x \div 2 ^ (d + 1) = (x \div 2 ^ d) \div 2
             /\ x \div 2 ^ (d + 1) = (x \div 2) \div 2 ^ d
  <2>1. 2 ^ d \in Nat \ {0} /\ 2 ^ (d + 1) = 2 * 2 ^ d BY PowerOfTwo
  <2> QED BY <2>1, TwiceDivided
<1> DEFINE Inside(n) == \A j \in 0 .. npl[n] - 1 : j \div 2 ^ (n - l) \in 0 .. Expanded(l) - 1
           Bad == {n \in Levels : l < n /\ ~Inside(n)}
<1>3. Bad = {}
  <2>1. Bad \subseteq Nat BY <1>1
  <2> SUFFICES ASSUME NEW b \in Bad PROVE FALSE OBVIOUS
  <2>2. PICK n \in Bad : \A x \in Bad : ~(x < n) BY <2>1, Least
  <2>3. n \in 1 .. LOG2T /\ l < n /\ l \in Nat BY <1>1
  <2>4. SUFFICES ASSUME NEW j \in 0 .. npl[n] - 1
                 PROVE  j \div 2 ^ (n - l) \in 0 .. Expanded(l) - 1
    OBVIOUS
  <2>5. j \in Nat /\ j \div 2 \in 0 .. Expanded(n - 1) - 1 /\ n - 1 \in Levels
    BY <1>1, <2>3, ParentNode
  <2>6. CASE n = l + 1
    <3>1. n - l = 1 /\ 2 ^ 1 = 2 BY <2>3, <2>6
    <3> QED BY <2>3, <2>5, <2>6, <3>1
  <2>7. CASE n # l + 1
    <3>1. l < n - 1 /\ n - 1 < n /\ n - 1 \in Nat BY <2>3, <2>7
    <3>2. n - 1 \notin Bad BY <2>2, <3>1
    <3>3. Inside(n - 1)
      <4> HIDE DEF Inside
      <4> QED BY <2>5, <3>1, <3>2
    <3>4. j \div 2 \in 0 .. npl[n - 1] - 1
      <4> DEFINE h == j \div 2
                 p == n - 1
      <4>1. p \in Levels /\ h \in 0 .. Expanded(p) - 1 BY <2>5
      <4> HIDE DEF h, p
      <4>2. npl[p] \in Nat /\ Expanded(p) \in 0 .. npl[p] BY <1>1, <4>1
      <4>3. h \in 0 .. npl[p] - 1 BY <4>1, <4>2
      <4> QED BY <4>3 DEF h, p
    <3>5. (j \div 2) \div 2 ^ ((n - 1) - l) \in 0 .. Expanded(l) - 1 BY <3>3, <3>4
    <3> DEFINE d == (n - 1) - l
    <3>6. d \in Nat /\ n - l = d + 1 BY <2>3, <3>1
    <3> HIDE DEF d
    <3>7. j \div 2 ^ (d + 1) = (j \div 2) \div 2 ^ d BY <1>2, <2>5, <3>6
    <3> QED BY <3>5, <3>6, <3>7 DEF d
  <2> QED BY <2>6, <2>7
<1>4. k \div 2 ^ (m - l) \in 0 .. Expanded(l) - 1
  <2>1. Inside(m) BY <1>3
  <2> QED BY <2>1
<1>5. k \div 2 ^ (m - l) = (k \div 2 ^ (m - (l + 1))) \div 2
  <2> DEFINE d == m - (l + 1)
  <2>1. d \in Nat /\ m - l = d + 1 /\ k \in Nat BY <1>1
  <2> HIDE DEF d
  <2>2. k \div 2 ^ (d + 1) = (k \div 2 ^ d) \div 2 BY <1>2, <2>1
  <2> QED BY <2>1, <2>2 DEF d
<1> QED BY <1>4, <1>5

\* Under a leaf is its round.
LEMMA UnderLeaf ==
  ASSUME NEW l \in Levels, NEW i \in 0 .. npl[l] - 1, ~IsInner(l, i),
         NEW r \in Rounds, LeafNode(r) = Node(l, i)
  PROVE  Under(l, i) = {r}
<1>1. /\ \A n \in Levels : n \in Nat /\ npl[n] \in Nat /\ Expanded(n) \in 0 .. npl[n]
      /\ Levels = 0 .. LOG2T /\ LOG2T \in Nat /\ Expanded(LOG2T) = 0
  BY LevelFacts DEF Levels
<1>2. l - l = 0 /\ 2 ^ 0 = 1 BY <1>1
<1>3. \A k \in Nat : k \div 1 = k OBVIOUS
<1>4. ASSUME NEW q \in Under(l, i) PROVE q = r
  <2>1. PICK m \in l .. LOG2T : \E k \in Expanded(m) .. npl[m] - 1 :
          LeafNode(q) = Node(m, k) /\ k \div 2 ^ (m - l) = i
    BY DEF Under
  <2>2. PICK k \in Expanded(m) .. npl[m] - 1 : LeafNode(q) = Node(m, k) /\ k \div 2 ^ (m - l) = i
    BY <2>1
  <2>3. m \in Levels /\ k \in 0 .. npl[m] - 1 /\ k \in Nat BY <1>1
  <2>4. CASE m = l
    <3>1. k = i BY <1>2, <1>3, <2>2, <2>3, <2>4
    <3>2. LeafNode(q) = LeafNode(r) /\ q \in Rounds BY <2>2, <2>4, <3>1 DEF Under
    <3> QED BY <3>2, LeavesAssumption
  <2>5. CASE m # l
    <3>1. l < m /\ l \in 0 .. LOG2T - 1 BY <1>1, <2>5
    <3>2. i \in 0 .. Expanded(l) - 1 BY <2>2, <2>3, <3>1, NodeAbove
    <3> QED BY <3>1, <3>2 DEF IsInner
  <2> QED BY <2>4, <2>5
<1>5. i \in Expanded(l) .. npl[l] - 1 /\ l \in l .. LOG2T BY <1>1 DEF IsInner
<1>6. i \div 2 ^ (l - l) = i BY <1>1, <1>2, <1>3
<1>7. r \in Under(l, i) BY <1>5, <1>6 DEF Under
<1> QED BY <1>4, <1>7

\* Under an inner node is what is under its two children.
LEMMA UnderInner ==
  ASSUME NEW l \in 0 .. LOG2T - 1, NEW i \in 0 .. Expanded(l) - 1
  PROVE  Under(l, i) = Under(l + 1, 2 * i) \union Under(l + 1, 2 * i + 1)
<1>1. /\ \A n \in Levels : n \in Nat /\ npl[n] \in Nat /\ Expanded(n) \in 0 .. npl[n]
      /\ Levels = 0 .. LOG2T /\ LOG2T \in Nat
  BY LevelFacts DEF Levels
<1>2. l \in Levels /\ l + 1 \in Levels /\ i \in Nat /\ l \in Nat BY <1>1
<1>3. ASSUME NEW m \in l .. LOG2T, NEW k \in Expanded(m) .. npl[m] - 1, k \div 2 ^ (m - l) = i
      PROVE  m \in l + 1 .. LOG2T
  <2> SUFFICES ASSUME m = l PROVE FALSE BY <1>1, <1>2
  <2>1. m - l = 0 /\ 2 ^ 0 = 1 /\ k \in Nat BY <1>1, <1>2
  <2>2. k = i BY <1>3, <2>1
  <2> QED BY <1>1, <1>2, <2>2
<1>4. ASSUME NEW m \in l + 1 .. LOG2T, NEW k \in Expanded(m) .. npl[m] - 1
      PROVE  k \div 2 ^ (m - l) = i <=> \/ k \div 2 ^ (m - (l + 1)) = 2 * i
                                       \/ k \div 2 ^ (m - (l + 1)) = 2 * i + 1
  <2> DEFINE c == k \div 2 ^ (m - (l + 1))
  <2>1. m \in Levels /\ l < m /\ k \in 0 .. npl[m] - 1 /\ k \in Nat BY <1>1, <1>2
  <2>2. k \div 2 ^ (m - l) = c \div 2 BY <1>2, <2>1, NodeAbove
  <2>3. c \in Int
    <3>1. m - (l + 1) \in Nat BY <1>2, <2>1, <1>1
    <3>2. 2 ^ (m - (l + 1)) \in Nat \ {0} BY <3>1, PowerOfTwo
    <3> QED BY <2>1, <3>2
  <2> HIDE DEF c
  <2>4. c \div 2 = i <=> c = 2 * i \/ c = 2 * i + 1 BY <1>2, <2>3
  <2> QED BY <2>2, <2>4 DEF c
<1>5. ASSUME NEW r \in Rounds
      PROVE  r \in Under(l, i) <=> r \in Under(l + 1, 2 * i) \/ r \in Under(l + 1, 2 * i + 1)
  <2>1. l + 1 .. LOG2T \subseteq l .. LOG2T BY <1>1, <1>2
  <2>2. r \in Under(l, i) <=>
          \E m \in l .. LOG2T : \E k \in Expanded(m) .. npl[m] - 1 :
             LeafNode(r) = Node(m, k) /\ k \div 2 ^ (m - l) = i
    BY DEF Under
  <2>3. \A c : r \in Under(l + 1, c) <=>
          \E m \in l + 1 .. LOG2T : \E k \in Expanded(m) .. npl[m] - 1 :
             LeafNode(r) = Node(m, k) /\ k \div 2 ^ (m - (l + 1)) = c
    BY DEF Under
  <2>4. r \in Under(l, i) <=>
          \E m \in l + 1 .. LOG2T : \E k \in Expanded(m) .. npl[m] - 1 :
             LeafNode(r) = Node(m, k) /\ k \div 2 ^ (m - l) = i
    BY <1>3, <2>1, <2>2
  <2> QED BY <1>4, <2>3, <2>4
<1>6. \A n, c : Under(n, c) \subseteq Rounds BY DEF Under
<1> QED BY <1>5, <1>6

\* The labels are what they are to be: a node is to be published exactly if the
\* challenge opens all rounds under it.
LEMMA LabelsMean ==
  ASSUME NEW fl \in [Nodes -> {TO_PUBLISH, NOT_TO_PUBLISH}], Labelled(fl)
  PROVE  \A l \in Levels : \A i \in 0 .. npl[l] - 1 :
           fl[Node(l, i)] = TO_PUBLISH <=> Opened(indices_to_publish, l, i)
<1>1. LOG2T \in Nat /\ Levels = 0 .. LOG2T BY LevelFacts DEF Levels
<1> DEFINE Right(l) == \A i \in 0 .. npl[l] - 1 : fl[Node(l, i)] = TO_PUBLISH <=> Opened(indices_to_publish, l, i)
           Bad == {d \in 0 .. LOG2T : ~Right(LOG2T - d)}
<1>2. SUFFICES ASSUME NEW b \in Bad PROVE FALSE
  <2>1. \A l \in Levels : LOG2T - l \in 0 .. LOG2T /\ LOG2T - (LOG2T - l) = l BY <1>1
  <2> SUFFICES Bad = {} => \A l \in Levels : Right(l) OBVIOUS
  <2> QED BY <2>1
<1>3. PICK d \in Bad : \A x \in Bad : ~(x < d)
  <2>1. Bad \subseteq Nat BY <1>1
  <2> QED BY <1>2, <2>1, Least
<1> DEFINE l == LOG2T - d
<1>4. l \in Levels /\ d \in 0 .. LOG2T BY <1>1
<1>5. SUFFICES ASSUME NEW i \in 0 .. npl[l] - 1 PROVE fl[Node(l, i)] = TO_PUBLISH <=> Opened(indices_to_publish, l, i)
  OBVIOUS
<1>6. CASE ~IsInner(l, i)
  <2>1. PICK r \in Rounds : LeafNode(r) = Node(l, i) BY <1>4, <1>6, LeafNodes
  <2>2. Under(l, i) = {r} BY <1>4, <1>6, <2>1, UnderLeaf
  <2>3. fl[Node(l, i)] = indices_to_publish[r] BY <2>1 DEF Labelled, LeavesLabelled
  <2> QED BY <2>2, <2>3 DEF Opened
<1>7. CASE IsInner(l, i)
  <2>1. l \in 0 .. LOG2T - 1 /\ i \in 0 .. Expanded(l) - 1 BY <1>7 DEF IsInner
  <2>2. Right(l + 1)
    <3>1. d - 1 \in 0 .. LOG2T /\ d - 1 < d /\ LOG2T - (d - 1) = l + 1 BY <1>1, <1>4, <2>1
    <3>2. d - 1 \notin Bad BY <1>3, <3>1
    <3> QED BY <3>1, <3>2
  <2>3. 2 * i \in 0 .. npl[l + 1] - 1 /\ 2 * i + 1 \in 0 .. npl[l + 1] - 1 BY <2>1, ChildNode
  <2>4. /\ fl[Node(l + 1, 2 * i)] = TO_PUBLISH <=> Opened(indices_to_publish, l + 1, 2 * i)
        /\ fl[Node(l + 1, 2 * i + 1)] = TO_PUBLISH <=> Opened(indices_to_publish, l + 1, 2 * i + 1)
    BY <2>2, <2>3
  <2>5. LabelOK(fl, l, i) BY <2>1 DEF Labelled
  <2>6. Opened(indices_to_publish, l, i) <=> Opened(indices_to_publish, l + 1, 2 * i) /\ Opened(indices_to_publish, l + 1, 2 * i + 1)
    BY <2>1, UnderInner DEF Opened
  <2> QED BY <2>4, <2>5, <2>6 DEF LabelOK
<1> QED BY <1>6, <1>7

\* The topmost labelled nodes are the cover.
LEMMA TopmostCover ==
  ASSUME NEW fl \in [Nodes -> {TO_PUBLISH, NOT_TO_PUBLISH}], Labelled(fl), NEW n
  PROVE  n \in CoverOf(indices_to_publish) <=>
           \E l \in 1 .. LOG2T : \E i \in 0 .. npl[l] - 1 : n = Node(l, i) /\ Topmost(fl, l, i)
<1> DEFINE ch == indices_to_publish
<1>1. ASSUME NEW l \in 1 .. LOG2T, NEW i \in 0 .. npl[l] - 1
      PROVE  Topmost(fl, l, i) <=> Opened(ch, l, i) /\ ~Opened(ch, l - 1, i \div 2)
  <2>1. l \in Levels /\ l - 1 \in Levels /\ i \div 2 \in 0 .. npl[l - 1] - 1
    <3>1. /\ l \in Levels /\ l - 1 \in 0 .. LOG2T - 1 /\ i \div 2 \in 0 .. Expanded(l - 1) - 1
      BY ParentNode
    <3>2. l - 1 \in Levels BY <3>1, ChildNode
    <3> DEFINE h == i \div 2
               m == l - 1
    <3> HIDE DEF h, m
    <3>3. m \in Levels /\ h \in 0 .. Expanded(m) - 1 BY <3>1, <3>2 DEF h, m
    <3>4. npl[m] \in Nat /\ Expanded(m) \in 0 .. npl[m] BY <3>3, LevelFacts
    <3>5. h \in 0 .. npl[m] - 1 BY <3>3, <3>4
    <3> QED BY <3>1, <3>2, <3>5 DEF h, m
  <2>2. /\ fl[Node(l, i)] = TO_PUBLISH <=> Opened(ch, l, i)
        /\ fl[Node(l - 1, i \div 2)] = TO_PUBLISH <=> Opened(ch, l - 1, i \div 2)
    BY <2>1, LabelsMean
  <2>3. fl[Node(l - 1, i \div 2)] \in {TO_PUBLISH, NOT_TO_PUBLISH}
    <3>1. Node(l - 1, i \div 2) \in Nodes BY <2>1, NodeOrder
    <3> QED BY <3>1
  <2> QED BY <2>2, <2>3 DEF Topmost, TO_PUBLISH, NOT_TO_PUBLISH
<1> HIDE DEF ch
<1>2. n \in CoverOf(ch) <=>
        \E l \in 1 .. LOG2T : \E i \in 0 .. npl[l] - 1 :
          n = Node(l, i) /\ Opened(ch, l, i) /\ ~Opened(ch, l - 1, i \div 2)
  BY DEF CoverOf
<1> QED BY <1>1, <1>2 DEF ch

\* Whatever the layout and the challenge, GGMPath publishes the roots of the
\* maximal opened subtrees, each once and in order.
THEOREM MinimalCoverCorrect == Spec => []MinimalCover
  <1>1. ASSUME IInv, pc = "done"
        PROVE  /\ {path[k] : k \in DOMAIN path} = CoverOf(indices_to_publish)
               /\ \A k \in 1 .. Len(path) - 1 : path[k] < path[k + 1]
    <2>1. /\ path_flags \in [Nodes -> {TO_PUBLISH, NOT_TO_PUBLISH}] /\ Labelled(path_flags)
          /\ PathUpTo(path_flags, 2 * T - 1) /\ path \in Seq(Nodes)
          /\ \A j, k \in 1 .. Len(path) : j < k => path[j] < path[k]
      BY <1>1 DEF IInv, TypeOK, PathInv, SignerDone
    <2>2. DOMAIN path = 1 .. Len(path) /\ Len(path) \in Nat
      BY <2>1
    <2>3. ASSUME NEW n \in CoverOf(indices_to_publish)
          PROVE  n \in {path[k] : k \in DOMAIN path}
      <3>1. PICK l \in 1 .. LOG2T : \E i \in 0 .. npl[l] - 1 : n = Node(l, i) /\ Topmost(path_flags, l, i)
        BY <2>1, TopmostCover
      <3>2. PICK i \in 0 .. npl[l] - 1 : n = Node(l, i) /\ Topmost(path_flags, l, i)
        BY <3>1
      <3>3. Node(l, i) < 2 * T - 1
        BY NodeBelowRoot
      <3> QED BY <2>1, <2>2, <3>2, <3>3 DEF PathUpTo
    <2>4. ASSUME NEW k \in DOMAIN path
          PROVE  path[k] \in CoverOf(indices_to_publish)
      <3>1. \E l \in 1 .. LOG2T : \E i \in 0 .. npl[l] - 1 :
              path[k] = Node(l, i) /\ Topmost(path_flags, l, i)
        BY <2>1, <2>2 DEF PathUpTo
      <3> QED BY <2>1, <3>1, TopmostCover
    <2>5. \A k \in 1 .. Len(path) - 1 : path[k] < path[k + 1]
      BY <2>1, <2>2
    <2> QED BY <2>3, <2>4, <2>5
  <1>2. IInv => MinimalCover
    BY <1>1 DEF MinimalCover
  <1> QED BY <1>2, Invariance, PTL

\* seed_storage has room for what is written to it at any time, if it has room
\* for the cover of every challenge.
THEOREM StorageBoundCorrect ==
  ASSUME MAX_PUBLISHED_SEEDS \in Nat,
         \A ch \in Challenges : Cardinality(CoverOf(ch)) <= MAX_PUBLISHED_SEEDS
  PROVE  Spec => []StorageBound
  <1>1. ASSUME IInv, NEW fl \in [Nodes -> {TO_PUBLISH, NOT_TO_PUBLISH}], Labelled(fl),
               NEW b, PathUpTo(fl, b), indices_to_publish \in Challenges
        PROVE  Len(seed_storage) <= MAX_PUBLISHED_SEEDS
    <2> DEFINE C == CoverOf(indices_to_publish)
               f == [k \in 1 .. Len(path) |-> path[k]]
    <2>1. /\ Len(seed_storage) = Len(path) /\ path \in Seq(Nodes) /\ Len(path) \in Nat
          /\ \A j, k \in 1 .. Len(path) : j < k => path[j] < path[k]
      BY <1>1 DEF IInv, TypeOK, PathInv
    <2>2. IsFiniteSet(C) /\ Cardinality(C) \in Nat
      <3>1. C \in SUBSET Nodes
        <4> SUFFICES ASSUME NEW n \in C PROVE n \in Nodes
          OBVIOUS
        <4>1. PICK l \in 1 .. LOG2T : \E i \in 0 .. npl[l] - 1 : n = Node(l, i)
          BY <1>1, TopmostCover
        <4>2. PICK i \in 0 .. npl[l] - 1 : n = Node(l, i)
          BY <4>1
        <4>3. l \in Levels
          BY NodeBelowRoot
        <4> QED BY <4>2, <4>3, NodeOrder
      <3>2. IsFiniteSet(Nodes)
        <4>1. 0 \in Int /\ 2 * T - 2 \in Int
          BY LevelFacts
        <4> QED BY <4>1, FS_Interval DEF Nodes
      <3> HIDE DEF C
      <3>3. IsFiniteSet(C)
        BY <3>1, <3>2, FS_Subset
      <3> QED BY <3>3, FS_CardinalityType
    <2>3. ASSUME NEW k \in 1 .. Len(path) PROVE path[k] \in C
      <3>1. \E l \in 1 .. LOG2T : \E i \in 0 .. npl[l] - 1 : path[k] = Node(l, i) /\ Topmost(fl, l, i)
        BY <1>1 DEF PathUpTo
      <3> QED BY <1>1, <3>1, TopmostCover
    <2>4. f \in Injection(1 .. Len(path), C)
      <3>1. f \in [1 .. Len(path) -> C]
        BY <2>3
      <3>2. ASSUME NEW j \in 1 .. Len(path), NEW k \in 1 .. Len(path), path[j] = path[k]
            PROVE  j = k
        <4>1. path[j] \in Nat /\ path[k] \in Nat
          BY <2>1, LevelFacts DEF Nodes
        <4>2. ~(path[j] < path[k]) /\ ~(path[k] < path[j])
          BY <3>2, <4>1
        <4>3. ~(j < k) /\ ~(k < j)
          BY <2>1, <4>2
        <4> QED BY <4>3
      <3> QED BY <3>1, <3>2 DEF Injection, IsInjective
    <2>5. Cardinality(1 .. Len(path)) = Len(path)
      <3> DEFINE m == Len(path)
      <3>1. m \in Nat /\ 1 \in Int /\ m \in Int
        BY <2>1
      <3> HIDE DEF m
      <3>2. Cardinality(1 .. m) = IF 1 > m THEN 0 ELSE m - 1 + 1
        BY <3>1, FS_Interval
      <3>3. Cardinality(1 .. m) = m
        BY <3>1, <3>2
      <3> QED BY <3>3 DEF m
    <2> HIDE DEF C, f
    <2>6. Cardinality(1 .. Len(path)) <= Cardinality(C)
      BY <2>2, <2>4, FS_Injection
    <2>7. Cardinality(C) <= MAX_PUBLISHED_SEEDS
      BY <1>1 DEF C
    <2> QED BY <2>1, <2>2, <2>5, <2>6, <2>7
  <1>2. IInv => StorageBound
    <2> SUFFICES ASSUME IInv PROVE Len(seed_storage) <= MAX_PUBLISHED_SEEDS
      BY DEF StorageBound
    <2>1. CASE pc \in {"BuildGGM", "SampleChallenge", "sign_compute_seeds_to_publish"}
      <3>1. Len(seed_storage) = 0
        BY <2>1 DEF IInv, PathInv
      <3> QED BY <3>1
    <2>2. CASE pc = "GGMPath"
      <3>1. /\ flags \in [Nodes -> {TO_PUBLISH, NOT_TO_PUBLISH}] /\ Labelled(flags)
            /\ PathUpTo(flags, Current) /\ indices_to_publish \in Challenges
        BY <2>2 DEF IInv, TypeOK, PathInv, FlagsInv, Scanning
      <3> QED BY <1>1, <3>1
    <2>3. CASE SignerDone
      <3>1. /\ path_flags \in [Nodes -> {TO_PUBLISH, NOT_TO_PUBLISH}] /\ Labelled(path_flags)
            /\ PathUpTo(path_flags, 2 * T - 1) /\ indices_to_publish \in Challenges
        BY <2>3 DEF IInv, TypeOK, PathInv, FlagsInv, Scanning, Computing, SignerDone
      <3> QED BY <1>1, <3>1
    <2> QED BY <2>1, <2>2, <2>3 DEF IInv, TypeOK, SignerDone
  <1> QED BY <1>2, Invariance, PTL

-----------------------------------------------------------------------------
(* SeedTree implements RoundSeeds. *)

SignerHasSeeds == pc # "BuildGGM" => rounds_seeds \in [Rounds -> Seed]

VerifierHasOpened ==
  pc = "done" =>
    rebuilt_seeds = [r \in Rounds |-> IF r \in OpenedBy(indices_to_publish)
                                        THEN rounds_seeds[r] ELSE NoSeed]

LEMMA SignerRounds == IInv => SignerHasSeeds
  <1> SUFFICES ASSUME IInv, pc # "BuildGGM" PROVE rounds_seeds \in [Rounds -> Seed]
    BY DEF SignerHasSeeds
  <1>1. rounds_seeds = [r \in Rounds |-> seed_tree[LeafNode(r)]]
    BY DEF IInv, BuildInv, seed_leaves
  <1>2. \A r \in Rounds : seed_tree[LeafNode(r)] \in Seed
    BY LeafSeed
  <1> QED BY <1>1, <1>2

LEMMA VerifierRounds == IInv => VerifierHasOpened
  <1> SUFFICES ASSUME IInv, pc = "done"
               PROVE  rebuilt_seeds = [r \in Rounds |->
                        IF r \in OpenedBy(indices_to_publish) THEN rounds_seeds[r] ELSE NoSeed]
    BY DEF VerifierHasOpened
  <1>1. /\ rebuilt_seeds = [r \in Rounds |-> rebuilt_tree[LeafNode(r)]]
        /\ rounds_seeds = [r \in Rounds |-> seed_tree[LeafNode(r)]]
    BY DEF IInv, RebuildInv, BuildInv, seed_leaves
  <1>2. \A r \in Rounds : rebuilt_tree[LeafNode(r)] =
          IF indices_to_publish[r] = TO_PUBLISH THEN seed_tree[LeafNode(r)] ELSE NoSeed
    BY OpenedLeaf
  <1>3. \A r \in Rounds : r \in OpenedBy(indices_to_publish) <=> indices_to_publish[r] = TO_PUBLISH
    BY DEF OpenedBy
  <1> QED BY <1>1, <1>2, <1>3

\* Every step of the trees is a step of RoundSeeds or leaves its state alone:
\* whoever uses the seed trees may reason with RoundSeeds instead.
THEOREM Refinement == Spec => RS!Safety
  <1>1. Init => RS!Init
    BY DEF Init, RS!Init, Phase
  <1>2. ASSUME [Next]_vars, SignerHasSeeds', VerifierHasOpened'
        PROVE  [RS!Next]_(RS!vars)
    <2>1. CASE SignerSeedLeaves
      BY <1>2, <2>1 DEF SignerSeedLeaves, SignerHasSeeds, RS!Next, RS!Generate, Phase, verifier
    <2>2. CASE SampleChallenge
      BY <1>2, <2>2 DEF SampleChallenge, RS!Next, RS!Open, Phase, signer, verifier
    <2>3. CASE VerifierSeedLeaves
      BY <1>2, <2>3 DEF VerifierSeedLeaves, VerifierHasOpened, RS!Next, RS!Recover, Phase, signer
    <2>4. CASE ExpandNode \/ BuildNextLevel
      BY <2>4 DEF ExpandNode, BuildNextLevel, RS!vars, Phase, signer, verifier
    <2>5. CASE ComputeParent \/ ComputePrevLevel \/ ComputeDone
      BY <2>5 DEF ComputeParent, ComputePrevLevel, ComputeDone, Computing, RS!vars, Phase,
                  signer, verifier
    <2>6. CASE PublishNode \/ PassNode \/ ScanNextLevel \/ PathDone \/ RebuildNode
      BY <2>6 DEF PublishNode, PassNode, ScanNextLevel, PathDone, RebuildNode, ScanNode,
                  RS!vars, Phase, signer, verifier
    <2>7. CASE UNCHANGED vars
      BY <2>7 DEF vars, RS!vars, Phase, signer, verifier
    <2> QED BY <1>2, <2>1, <2>2, <2>3, <2>4, <2>5, <2>6, <2>7 DEF Next
  <1> QED BY <1>1, <1>2, SignerRounds, VerifierRounds, Invariance, PTL DEF Spec, RS!Safety
=============================================================================
