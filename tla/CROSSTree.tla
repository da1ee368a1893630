------------------------------ MODULE CROSSTree ------------------------------
(***************************************************************************)
(* What the seed tree and the Merkle tree of CROSS share (lib/seedtree.c,  *)
(* lib/merkle.c of the optimized implementation): the truncated layout,    *)
(* the two ways its loops walk over a level, the labels of the leaves, and *)
(* the batches of four in which nodes are handed to the hash functions.    *)
(***************************************************************************)
EXTENDS GGMLayout, Sequences

CONSTANT Challenges   \* what chall_2 can be

\* chall_2 has a fixed weight between 0 and T (expand_digest_to_fixed_weight):
\* it opens the seed of some rounds and asks for a response in the others.
ASSUME FixedWeightAssumption ==
  \A ch \in Challenges : /\ ch \in [Rounds -> {0, 1}]
                         /\ \E r \in Rounds : ch[r] = 0
                         /\ \E r \in Rounds : ch[r] = 1

BATCH == 4

\* A loop position: the level, the index i in it, and its start_node.
Positions == [level : 0 .. LOG2T + 1, i : -1 .. T, start : Nat]

Current(at)  == at.start + at.i
ParentOf(at) == FatherNode(Current(at), at.level)

\* From the root, left to right; `stop` is where the inner loop ends.
FromRoot(level) == [level |-> level, i |-> 0, start |-> LevelStart[level]]
Down(at, stop) ==
  IF at.i + 1 < stop
    THEN [at EXCEPT !.i = at.i + 1]
    ELSE [level |-> at.level + 1, i |-> 0, start |-> at.start + npl[at.level]]

\* From the leaves, pairs of siblings from right to left.
FromLeaves == [level |-> LOG2T, i |-> npl[LOG2T] - 2, start |-> leaves_start_indices[1]]
Up(at) ==
  IF at.i > 0
    THEN [at EXCEPT !.i = at.i - 2]
    ELSE [level |-> at.level - 1, i |-> npl[at.level - 1] - 2,
          start |-> at.start - npl[at.level - 1]]

\* The leaf of every round, and the round of every leaf.
LeafOf  == [r \in Rounds |-> LeafNode(r)]
Leaves  == {LeafOf[r] : r \in Rounds}
RoundAt == [n \in Leaves |-> CHOOSE r \in Rounds : LeafOf[r] = n]

\* The tree with one value per round on its leaves.
WithLeaves(tree, values) ==
  [n \in Nodes |-> IF n \in Leaves THEN values[RoundAt[n]] ELSE tree[n]]
=============================================================================
