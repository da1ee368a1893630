------------------------------ MODULE TCitHTree ------------------------------
(***************************************************************************)
(* The GGM tree of Mirath and RYDE (mirath_ggm_tree.c; ggm_tree.c of RYDE  *)
(* is the same code): a heap of TREE_LEAVES leaves, the seeds of all TAU   *)
(* repetitions in one tree, and the sorted list of the nodes whose seeds   *)
(* hide one leaf of every repetition.                                      *)
(***************************************************************************)
EXTENDS Integers, Sequences, SequencesExt

CONSTANTS TAU,       \* repetitions
          PARAM_N,   \* leaves of each repetition
          T_OPEN,    \* the seeds a signature has room for
          MAX_OPEN   \* the capacity of the list

ASSUME TreeAssumption ==
  /\ TAU \in Nat /\ TAU > 0 /\ PARAM_N \in Nat /\ PARAM_N > 1
  /\ TAU * PARAM_N > 2
  /\ T_OPEN \in Nat /\ MAX_OPEN \in Nat /\ T_OPEN <= MAX_OPEN

TREE_LEAVES         == TAU * PARAM_N
LEAVES_SEEDS_OFFSET == TREE_LEAVES - 1
TreeNodes  == 0 .. 2 * TREE_LEAVES - 2
InnerNodes == 0 .. TREE_LEAVES - 2
TreeLeaves == 0 .. TREE_LEAVES - 1
Repetitions == 0 .. TAU - 1

child_0(i) == 2 * i + 1
child_1(i) == 2 * i + 2
sibling(i) == IF i % 2 = 1 THEN i + 1 ELSE i - 1
parent(i)  == (i - 1) \div 2

\* Leaf i of repetition e: the repetitions take turns in the tree.
psi(i, e) == i * TAU + e

\* Where an insertion puts x: behind the last element that is not greater.
Rank(list, x) == CHOOSE p \in 0 .. Len(list) :
                   /\ p = 0 \/ list[p] <= x
                   /\ \A q \in p + 1 .. Len(list) : list[q] > x

\* Mutants: the new element is put behind the last one; the list has no more
\* room than a signature.
append_unsorted(list, x) ==
  IF Len(list) >= MAX_OPEN THEN list ELSE Append(list, x)
insert_up_to_T_OPEN(list, x) ==
  IF Len(list) >= T_OPEN THEN list ELSE InsertAt(list, Rank(list, x) + 1, x)

insert_sorted(list, x) ==
  IF Len(list) >= MAX_OPEN THEN list ELSE InsertAt(list, Rank(list, x) + 1, x)

\* Without the element at position p, counted from 0.
remove_from_list(list, p) == RemoveAt(list, p + 1)

\* Heights of at most d that grow from the root to the leaves.
IsHeight(h, d) ==
  /\ h \in [TreeNodes -> 0 .. d]
  /\ \A n \in TreeNodes \ {0} : h[parent(n)] < h[n]
-----------------------------------------------------------------------------
\* The reference for the list: the nodes with no hidden leaf below them whose
\* parent has one, in order.
Ancestors == [n \in TreeNodes |->
  LET up[m \in TreeNodes] == IF m = 0 THEN {0} ELSE {m} \union up[parent(m)] IN up[n]]

Hiding(hidden) == UNION {Ancestors[LEAVES_SEEDS_OFFSET + leaf] : leaf \in hidden}

Cover(hidden) ==
  {n \in TreeNodes \ Hiding(hidden) : n # 0 /\ parent(n) \in Hiding(hidden)}

\* Without repetitions, in order.
Increasing(list) == \A p, q \in DOMAIN list : p < q => list[p] < list[q]
=============================================================================
