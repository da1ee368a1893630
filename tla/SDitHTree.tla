------------------------------ MODULE SDitHTree -------------------------------
(***************************************************************************)
(* The Merkle tree of SDitH's threshold variant (merkle-tree.c), which is  *)
(* complete only if the number of parties is a power of two: nodes are     *)
(* numbered from 1 as in a heap, the last level holds the parties, and the *)
(* last node of a level may have one child.  Its opening walks from the    *)
(* opened leaves to the root with a circular queue.                        *)
(***************************************************************************)
EXTENDS Integers, Sequences

CONSTANTS PARTIES,      \* leaves
          LOG_PARTIES,  \* tree_depth
          REVEALED,     \* opened leaves, and cells of the queue
          EXECUTIONS,   \* trees
          NULL,         \* no second child
          Garbage       \* memory never written, and every digest but the right ones

FirstLeaf  == 2^LOG_PARTIES
LastLeaf   == FirstLeaf + PARTIES - 1
Executions == 0 .. EXECUTIONS - 1
Parties    == 0 .. PARTIES - 1
Cells      == 0 .. REVEALED - 1
\* nb_nodes: levels keep the numbers of a complete tree.
TreeNodes  == 1 .. LastLeaf

ASSUME TreeAssumption ==
  /\ LOG_PARTIES \in Nat /\ LOG_PARTIES > 0
  /\ PARTIES \in 2^(LOG_PARTIES - 1) + 1 .. 2^LOG_PARTIES
  /\ REVEALED \in 1 .. PARTIES /\ EXECUTIONS \in Nat \ {0}

\* Nodes of a level, as first_index and last_index bound them.
First(d) == 2^d
Last(d)  == LastLeaf \div 2^(LOG_PARTIES - d)
Level(d) == First(d) .. Last(d)
Present(n) == \E d \in 0 .. LOG_PARTIES : n \in Level(d)
Depth(n) == CHOOSE d \in 0 .. LOG_PARTIES : n \in Level(d)

\* Digests are named: <<e, n>> is what node n of tree e is to hold, and the hash
\* of a node's number and its children is right if the children are.
Digests == (Executions \X TreeNodes) \union {Garbage}
Leaf(e, i) == <<e, FirstLeaf + i>>
Hash(parent, node, node2) ==
  IF \E e \in Executions :
       /\ node = <<e, 2 * parent>>
       /\ node2 = IF Present(2 * parent + 1) THEN <<e, 2 * parent + 1>> ELSE NULL
    THEN <<node[1], parent>> ELSE Garbage

ASSUME DigestAssumption ==
  /\ \A e \in Executions, n \in 0 .. LastLeaf : Garbage # <<e, n>>
  /\ Garbage # NULL

-----------------------------------------------------------------------------
(* The queue: its cells, where it starts and stops, and the level that is   *)
(* being left.  It is full or empty if it starts where it stops.            *)

Queues == [index : [Cells -> Nat], start : Cells, stop : Cells, first : Nat, last : Nat]

NewQueue(leaves_indexes) ==
  [index |-> [c \in Cells |-> FirstLeaf + leaves_indexes[c + 1]],
   start |-> 0, stop |-> 0, first |-> FirstLeaf, last |-> LastLeaf]

Following(c) == IF c + 1 = REVEALED THEN 0 ELSE c + 1
Index(q)     == q.index[q.start]
AtRoot(q)    == Index(q) = 1

\* The k-th node in the queue, from 0, and its cell.
Cell(q, k) == IF q.start + k < REVEALED THEN q.start + k ELSE q.start + k - REVEALED
At(q, k)   == q.index[Cell(q, k)]

\* "Detect if we change of tree height".
NewLevel(q)    == Index(q) < q.first
\* Mutant: the end of the level is not followed upwards.
LastOfLevelStale(q) == q.last
LastOfLevel(q) == IF NewLevel(q) THEN q.last \div 2 ELSE q.last

IsLeftChild(q) == Index(q) % 2 = 0
NoSibling(q)   == IsLeftChild(q) /\ Index(q) = LastOfLevel(q)
SiblingQueued(q) ==
  LET c == Following(q.start)
  IN IsLeftChild(q) /\ q.index[c] = Index(q) + 1 /\ c # q.stop
\* The sibling has to come from the authentication path.
SiblingRevealed(q) == ~NoSibling(q) /\ ~SiblingQueued(q)
SiblingOf(q) == IF IsLeftChild(q) THEN Index(q) + 1 ELSE Index(q) - 1

Parent(q) == Index(q) \div 2

\* Mutants: a sibling is used but left in the queue; a node without a sibling is
\* dropped instead of being moved up.
StepLeavesSibling(q) ==
  [index |-> [q.index EXCEPT ![q.stop] = Parent(q)],
   start |-> Following(q.start), stop |-> Following(q.stop),
   first |-> IF NewLevel(q) THEN q.first \div 2 ELSE q.first, last |-> LastOfLevel(q)]
StepDropsIsolated(q) ==
  LET next == Following(q.start)
  IN [index |-> IF NoSibling(q) THEN q.index ELSE [q.index EXCEPT ![q.stop] = Parent(q)],
      start |-> IF ~NoSibling(q) /\ SiblingQueued(q) THEN Following(next) ELSE next,
      stop  |-> IF NoSibling(q) THEN q.stop ELSE Following(q.stop),
      first |-> IF NewLevel(q) THEN q.first \div 2 ELSE q.first,
      last  |-> LastOfLevel(q)]

\* The front, and its sibling if it is next, make way for their parent.
Step(q) ==
  LET next == Following(q.start)
  IN [index |-> [q.index EXCEPT ![q.stop] = Parent(q)],
      start |-> IF ~NoSibling(q) /\ SiblingQueued(q) THEN Following(next) ELSE next,
      stop  |-> Following(q.stop),
      first |-> IF NewLevel(q) THEN q.first \div 2 ELSE q.first,
      last  |-> LastOfLevel(q)]
=============================================================================
