------------------------------ MODULE GGMLayout ------------------------------
(***************************************************************************)
(* The truncated binary tree of SPECK and LESS (speck/lib/seedtree.c,      *)
(* less/Reference_Implementation/lib/seedtree.c), as the parameter tables  *)
(* of parameters.h lay it out in one array: level by level from the root,  *)
(* left to right; in a level the expanded nodes come first, its leaves     *)
(* last; off[l] is what the heap index of a child has to be lowered by     *)
(* because earlier levels are truncated.                                   *)
(***************************************************************************)
EXTENDS Integers

CONSTANTS T,                    \* rounds = leaves of the tree
          LOG2T,                \* LOG2(T), the last level
          off,                  \* TREE_OFFSETS
          npl,                  \* TREE_NODES_PER_LEVEL
          lpl,                  \* TREE_LEAVES_PER_LEVEL
          SUBROOTS,             \* TREE_SUBROOTS
          leaves_start_indices, \* TREE_LEAVES_START_INDICES, from 1
          cons_leaves,          \* TREE_CONSECUTIVE_LEAVES, from 1
          LevelStart,           \* start_node of a level: the sum of npl before it
          FirstRound            \* cnt of a subroot: the sum of cons_leaves before it

Levels   == 0 .. LOG2T
Nodes    == 0 .. 2 * T - 2
Rounds   == 0 .. T - 1
Subroots == 1 .. SUBROOTS

LEFT_CHILD(i) == 2 * i + 1
PARENT(i)     == IF i % 2 = 1 THEN (i - 1) \div 2 ELSE (i - 2) \div 2
SIBLING(i)    == IF i % 2 = 1 THEN i + 1 ELSE i - 1

\* The node computed as left_child_node / left_child for a node of a level.
LeftChildNode(node, level) == LEFT_CHILD(node) - off[level]

\* The node computed as father_node / parent_node for a node of a level > 0.
FatherNode(node, level) == PARENT(node) + off[level - 1] \div 2

\* Nodes of a level that are expanded: its last lpl nodes are leaves.
Expanded(level) == npl[level] - lpl[level]

Node(level, i) == LevelStart[level] + i

\* The tables have one entry per level, and one per run of consecutive leaves.
ASSUME TablesType ==
  /\ T \in Nat \ {0} /\ LOG2T \in Nat \ {0} /\ SUBROOTS \in Nat \ {0}
  /\ off \in [Levels -> Nat] /\ npl \in [Levels -> Nat \ {0}]
  /\ lpl \in [Levels -> Nat] /\ LevelStart \in [Levels -> Nat]
  /\ leaves_start_indices \in [Subroots -> Nat]
  /\ cons_leaves \in [Subroots -> Nat] /\ FirstRound \in [Subroots -> Nat]

\* LevelStart is what start_node accumulates; levels fill the array in order.
ASSUME LevelStartAssumption ==
  /\ LevelStart[0] = 0 /\ npl[0] = 1
  /\ \A l \in 0 .. LOG2T - 1 : LevelStart[l + 1] = LevelStart[l] + npl[l]
  /\ \A l, m \in Levels : l < m => LevelStart[l] + npl[l] <= LevelStart[m]
  /\ LevelStart[LOG2T] + npl[LOG2T] = 2 * T - 1

\* The tables describe one tree: the children of a level's expanded nodes are
\* the whole next level, offsets put them there, and the last level is leaves.
ASSUME LayoutAssumption ==
  /\ \A l \in Levels : lpl[l] <= npl[l]
  /\ lpl[0] = 0 /\ lpl[LOG2T] = npl[LOG2T]
  /\ \A l \in 0 .. LOG2T - 1 :
       /\ npl[l + 1] = 2 * Expanded(l)
       /\ off[l] % 2 = 0
       /\ LeftChildNode(LevelStart[l], l) = LevelStart[l + 1]

\* The node that label_leaves and seed_leaves pair with round cnt: the leaves
\* are numbered run after run, cnt growing through the runs.
RunOf(cnt) == CHOOSE s \in Subroots :
                 FirstRound[s] <= cnt /\ cnt < FirstRound[s] + cons_leaves[s]
LeafNode(cnt) == leaves_start_indices[RunOf(cnt)] + (cnt - FirstRound[RunOf(cnt)])

\* FirstRound is what cnt has counted when a run starts; the runs number every
\* round and pair the rounds with the leaves one to one, and the first run
\* starts the last level (compute_seeds_to_publish takes it for its start).
ASSUME LeavesAssumption ==
  /\ FirstRound[1] = 0
  /\ \A s \in 1 .. SUBROOTS - 1 : FirstRound[s + 1] = FirstRound[s] + cons_leaves[s]
  /\ FirstRound[SUBROOTS] + cons_leaves[SUBROOTS] = T
  /\ leaves_start_indices[1] = LevelStart[LOG2T]
  /\ \A r \in Rounds : \E l \in Levels : \E i \in Expanded(l) .. npl[l] - 1 :
        LeafNode(r) = Node(l, i)
  /\ \A l \in Levels : \A i \in Expanded(l) .. npl[l] - 1 :
        \E r \in Rounds : LeafNode(r) = Node(l, i)
  /\ \A r, q \in Rounds : LeafNode(r) = LeafNode(q) => r = q
=============================================================================
