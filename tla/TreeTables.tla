----------------------------- MODULE TreeTables ------------------------------
(***************************************************************************)
(* The tree tables of every parameter set of SPECK, LESS and CROSS, the    *)
(* script that generates them (tree_offsets_and_nodes and tree_leaves of   *)
(* CROSS's compute_derived_parameters.py), and what they are to describe:  *)
(* a tree whose paths fit the memory they are stored in.  MCSeedTree       *)
(* evaluates what is claimed here; the definitions are recursive and not   *)
(* for proofs.                                                             *)
(***************************************************************************)
LOCAL INSTANCE Integers
LOCAL INSTANCE Sequences
LOCAL INSTANCE SequencesExt
LOCAL INSTANCE FiniteSetsExt

-----------------------------------------------------------------------------
(* The tables.  W is the weight of a challenge, store the number of nodes  *)
(* there is room for: MAX_PUBLISHED_SEEDS or TREE_NODES_TO_STORE.          *)

SPECK_133 == [T |-> 133, W |-> 60, store |-> 70, starts |-> <<137, 21, 6>>, cons |-> <<128, 4, 1>>,
  off |-> <<0, 0, 0, 2, 2, 10, 10, 10, 10>>,
  npl |-> <<1, 2, 4, 6, 12, 16, 32, 64, 128>>,
  lpl |-> <<0, 0, 1, 0, 4, 0, 0, 0, 128>>]
SPECK_256 == [T |-> 256, W |-> 30, store |-> 92, starts |-> <<255>>, cons |-> <<256>>,
  off |-> <<0, 0, 0, 0, 0, 0, 0, 0, 0>>,
  npl |-> <<1, 2, 4, 8, 16, 32, 64, 128, 256>>,
  lpl |-> <<0, 0, 0, 0, 0, 0, 0, 0, 256>>]
SPECK_512 == [T |-> 512, W |-> 23, store |-> 102, starts |-> <<511>>, cons |-> <<512>>,
  off |-> <<0, 0, 0, 0, 0, 0, 0, 0, 0, 0>>,
  npl |-> <<1, 2, 4, 8, 16, 32, 64, 128, 256, 512>>,
  lpl |-> <<0, 0, 0, 0, 0, 0, 0, 0, 0, 512>>]
SPECK_768 == [T |-> 768, W |-> 20, store |-> 106, starts |-> <<1023, 767>>, cons |-> <<512, 256>>,
  off |-> <<0, 0, 0, 0, 0, 0, 0, 0, 0, 0, 512>>,
  npl |-> <<1, 2, 4, 8, 16, 32, 64, 128, 256, 512, 512>>,
  lpl |-> <<0, 0, 0, 0, 0, 0, 0, 0, 0, 256, 512>>]
SPECK_4096 == [T |-> 4096, W |-> 14, store |-> 114, starts |-> <<4095>>, cons |-> <<4096>>,
  off |-> <<0, 0, 0, 0, 0, 0, 0, 0, 0, 0, 0, 0, 0>>,
  npl |-> <<1, 2, 4, 8, 16, 32, 64, 128, 256, 512, 1024, 2048, 4096>>,
  lpl |-> <<0, 0, 0, 0, 0, 0, 0, 0, 0, 0, 0, 0, 4096>>]
LESS_192 == [T |-> 192, W |-> 36, store |-> 87, starts |-> <<255, 191>>, cons |-> <<128, 64>>,
  off |-> <<0, 0, 0, 0, 0, 0, 0, 0, 128>>,
  npl |-> <<1, 2, 4, 8, 16, 32, 64, 128, 128>>,
  lpl |-> <<0, 0, 0, 0, 0, 0, 0, 64, 128>>]
LESS_68 == [T |-> 68, W |-> 42, store |-> 26, starts |-> <<71, 11>>, cons |-> <<64, 4>>,
  off |-> <<0, 0, 0, 0, 8, 8, 8, 8>>,
  npl |-> <<1, 2, 4, 8, 8, 16, 32, 64>>,
  lpl |-> <<0, 0, 0, 4, 0, 0, 0, 64>>]
LESS_45 == [T |-> 45, W |-> 34, store |-> 11, starts |-> <<57, 45, 14>>, cons |-> <<32, 12, 1>>,
  off |-> <<0, 0, 0, 0, 2, 2, 26>>,
  npl |-> <<1, 2, 4, 8, 14, 28, 32>>,
  lpl |-> <<0, 0, 0, 1, 0, 12, 32>>]
LESS_220 == [T |-> 220, W |-> 68, store |-> 119, starts |-> <<247, 223, 123>>, cons |-> <<192, 24, 4>>,
  off |-> <<0, 0, 0, 0, 0, 0, 0, 8, 56>>,
  npl |-> <<1, 2, 4, 8, 16, 32, 64, 120, 192>>,
  lpl |-> <<0, 0, 0, 0, 0, 0, 4, 24, 192>>]
LESS_102 == [T |-> 102, W |-> 61, store |-> 41, starts |-> <<107, 55, 29>>, cons |-> <<96, 4, 2>>,
  off |-> <<0, 0, 0, 0, 0, 4, 12, 12>>,
  npl |-> <<1, 2, 4, 8, 16, 28, 48, 96>>,
  lpl |-> <<0, 0, 0, 0, 2, 4, 0, 96>>]
LESS_345 == [T |-> 345, W |-> 75, store |-> 169, starts |-> <<433, 369, 217, 30>>, cons |-> <<256, 64, 24, 1>>,
  off |-> <<0, 0, 0, 0, 0, 2, 2, 2, 50, 178>>,
  npl |-> <<1, 2, 4, 8, 16, 30, 60, 120, 192, 256>>,
  lpl |-> <<0, 0, 0, 0, 1, 0, 0, 24, 64, 256>>]
LESS_137 == [T |-> 137, W |-> 79, store |-> 58, starts |-> <<145, 41, 6>>, cons |-> <<128, 8, 1>>,
  off |-> <<0, 0, 0, 2, 2, 2, 18, 18, 18>>,
  npl |-> <<1, 2, 4, 6, 12, 24, 32, 64, 128>>,
  lpl |-> <<0, 0, 1, 0, 0, 8, 0, 0, 128>>]
RSDP1_SPEED == [T |-> 157, W |-> 82, store |-> 82, starts |-> <<185, 93, 30>>, cons |-> <<128, 28, 1>>,
  off |-> <<0, 0, 0, 0, 0, 2, 2, 58, 58>>,
  npl |-> <<1, 2, 4, 8, 16, 30, 60, 64, 128>>,
  lpl |-> <<0, 0, 0, 0, 1, 0, 28, 0, 128>>]
RSDP1_BALANCED == [T |-> 256, W |-> 215, store |-> 108, starts |-> <<255>>, cons |-> <<256>>,
  off |-> <<0, 0, 0, 0, 0, 0, 0, 0, 0>>,
  npl |-> <<1, 2, 4, 8, 16, 32, 64, 128, 256>>,
  lpl |-> <<0, 0, 0, 0, 0, 0, 0, 0, 256>>]
RSDP1_SIG_SIZE == [T |-> 520, W |-> 488, store |-> 129, starts |-> <<527, 23>>, cons |-> <<512, 8>>,
  off |-> <<0, 0, 0, 0, 0, 16, 16, 16, 16, 16, 16>>,
  npl |-> <<1, 2, 4, 8, 16, 16, 32, 64, 128, 256, 512>>,
  lpl |-> <<0, 0, 0, 0, 8, 0, 0, 0, 0, 0, 512>>]
RSDP3_SPEED == [T |-> 239, W |-> 125, store |-> 125, starts |-> <<253, 239, 126>>, cons |-> <<224, 14, 1>>,
  off |-> <<0, 0, 0, 0, 0, 0, 0, 2, 30>>,
  npl |-> <<1, 2, 4, 8, 16, 32, 64, 126, 224>>,
  lpl |-> <<0, 0, 0, 0, 0, 0, 1, 14, 224>>]
RSDP3_BALANCED == [T |-> 384, W |-> 321, store |-> 165, starts |-> <<511, 383>>, cons |-> <<256, 128>>,
  off |-> <<0, 0, 0, 0, 0, 0, 0, 0, 0, 256>>,
  npl |-> <<1, 2, 4, 8, 16, 32, 64, 128, 256, 256>>,
  lpl |-> <<0, 0, 0, 0, 0, 0, 0, 0, 128, 256>>]
RSDP3_SIG_SIZE == [T |-> 580, W |-> 527, store |-> 184, starts |-> <<647, 327, 27>>, cons |-> <<512, 64, 4>>,
  off |-> <<0, 0, 0, 0, 0, 8, 8, 8, 8, 136, 136>>,
  npl |-> <<1, 2, 4, 8, 16, 24, 48, 96, 192, 256, 512>>,
  lpl |-> <<0, 0, 0, 0, 4, 0, 0, 0, 64, 0, 512>>]
RSDP5_SPEED == [T |-> 321, W |-> 167, store |-> 167, starts |-> <<385, 321, 6>>, cons |-> <<256, 64, 1>>,
  off |-> <<0, 0, 0, 2, 2, 2, 2, 2, 2, 130>>,
  npl |-> <<1, 2, 4, 6, 12, 24, 48, 96, 192, 256>>,
  lpl |-> <<0, 0, 1, 0, 0, 0, 0, 0, 64, 256>>]
RSDP5_BALANCED == [T |-> 512, W |-> 427, store |-> 220, starts |-> <<511>>, cons |-> <<512>>,
  off |-> <<0, 0, 0, 0, 0, 0, 0, 0, 0, 0>>,
  npl |-> <<1, 2, 4, 8, 16, 32, 64, 128, 256, 512>>,
  lpl |-> <<0, 0, 0, 0, 0, 0, 0, 0, 0, 512>>]
RSDP5_SIG_SIZE == [T |-> 832, W |-> 762, store |-> 251, starts |-> <<895, 447>>, cons |-> <<768, 64>>,
  off |-> <<0, 0, 0, 0, 0, 0, 0, 0, 0, 128, 128>>,
  npl |-> <<1, 2, 4, 8, 16, 32, 64, 128, 256, 384, 768>>,
  lpl |-> <<0, 0, 0, 0, 0, 0, 0, 0, 64, 0, 768>>]
RSDPG1_SPEED == [T |-> 147, W |-> 76, store |-> 76, starts |-> <<165, 85, 27, 14>>, cons |-> <<128, 16, 2, 1>>,
  off |-> <<0, 0, 0, 0, 2, 6, 6, 38, 38>>,
  npl |-> <<1, 2, 4, 8, 14, 24, 48, 64, 128>>,
  lpl |-> <<0, 0, 0, 1, 2, 0, 16, 0, 128>>]
RSDPG1_BALANCED == [T |-> 256, W |-> 220, store |-> 101, starts |-> <<255>>, cons |-> <<256>>,
  off |-> <<0, 0, 0, 0, 0, 0, 0, 0, 0>>,
  npl |-> <<1, 2, 4, 8, 16, 32, 64, 128, 256>>,
  lpl |-> <<0, 0, 0, 0, 0, 0, 0, 0, 256>>]
RSDPG1_SIG_SIZE == [T |-> 512, W |-> 484, store |-> 117, starts |-> <<511>>, cons |-> <<512>>,
  off |-> <<0, 0, 0, 0, 0, 0, 0, 0, 0, 0>>,
  npl |-> <<1, 2, 4, 8, 16, 32, 64, 128, 256, 512>>,
  lpl |-> <<0, 0, 0, 0, 0, 0, 0, 0, 0, 512>>]
RSDPG3_SPEED == [T |-> 224, W |-> 119, store |-> 119, starts |-> <<255, 223>>, cons |-> <<192, 32>>,
  off |-> <<0, 0, 0, 0, 0, 0, 0, 0, 64>>,
  npl |-> <<1, 2, 4, 8, 16, 32, 64, 128, 192>>,
  lpl |-> <<0, 0, 0, 0, 0, 0, 0, 32, 192>>]
RSDPG3_BALANCED == [T |-> 268, W |-> 196, store |-> 138, starts |-> <<279, 47, 27>>, cons |-> <<256, 8, 4>>,
  off |-> <<0, 0, 0, 0, 0, 8, 24, 24, 24, 24>>,
  npl |-> <<1, 2, 4, 8, 16, 24, 32, 64, 128, 256>>,
  lpl |-> <<0, 0, 0, 0, 4, 8, 0, 0, 0, 256>>]
RSDPG3_SIG_SIZE == [T |-> 512, W |-> 463, store |-> 165, starts |-> <<511>>, cons |-> <<512>>,
  off |-> <<0, 0, 0, 0, 0, 0, 0, 0, 0, 0>>,
  npl |-> <<1, 2, 4, 8, 16, 32, 64, 128, 256, 512>>,
  lpl |-> <<0, 0, 0, 0, 0, 0, 0, 0, 0, 512>>]
RSDPG5_SPEED == [T |-> 300, W |-> 153, store |-> 153, starts |-> <<343, 183, 111, 59>>, cons |-> <<256, 32, 8, 4>>,
  off |-> <<0, 0, 0, 0, 0, 0, 8, 24, 88, 88>>,
  npl |-> <<1, 2, 4, 8, 16, 32, 56, 96, 128, 256>>,
  lpl |-> <<0, 0, 0, 0, 0, 4, 8, 32, 0, 256>>]
RSDPG5_BALANCED == [T |-> 356, W |-> 258, store |-> 185, starts |-> <<455, 359, 59>>, cons |-> <<256, 96, 4>>,
  off |-> <<0, 0, 0, 0, 0, 0, 8, 8, 8, 200>>,
  npl |-> <<1, 2, 4, 8, 16, 32, 56, 112, 224, 256>>,
  lpl |-> <<0, 0, 0, 0, 0, 4, 0, 0, 96, 256>>]
RSDPG5_SIG_SIZE == [T |-> 642, W |-> 575, store |-> 220, starts |-> <<771, 643, 13>>, cons |-> <<512, 128, 2>>,
  off |-> <<0, 0, 0, 0, 4, 4, 4, 4, 4, 4, 260>>,
  npl |-> <<1, 2, 4, 8, 12, 24, 48, 96, 192, 384, 512>>,
  lpl |-> <<0, 0, 0, 2, 0, 0, 0, 0, 0, 128, 512>>]

SPECKTables ==
  {SPECK_133, SPECK_256, SPECK_512, SPECK_768, SPECK_4096}

LESSTables ==
  {LESS_192, LESS_68, LESS_45, LESS_220, LESS_102, LESS_345,
   LESS_137}

CROSSTables ==
  {RSDP1_SPEED, RSDP1_BALANCED, RSDP1_SIG_SIZE, RSDP3_SPEED,
   RSDP3_BALANCED, RSDP3_SIG_SIZE, RSDP5_SPEED, RSDP5_BALANCED,
   RSDP5_SIG_SIZE, RSDPG1_SPEED, RSDPG1_BALANCED, RSDPG1_SIG_SIZE,
   RSDPG3_SPEED, RSDPG3_BALANCED, RSDPG3_SIG_SIZE, RSDPG5_SPEED,
   RSDPG5_BALANCED, RSDPG5_SIG_SIZE}

-----------------------------------------------------------------------------
(* compute_derived_parameters.py.  Level l of a table is its element l + 1.*)

\* clog2: ceil(log2(a)), but at least 1.
clog2(a) == CHOOSE d \in 1 .. 13 : a <= 2^d /\ (d = 1 \/ 2^(d - 1) < a)

\* The inner loop over depth of tree_offsets_and_nodes.
SubtreeDepth(n) == IF n = 1 THEN 0 ELSE clog2(n)

\* Leaves of the full subtree that is cut off the remaining ones.
FullPart(n) == 2^clog2(n) \div 2

\* missing_nodes_per_level: the nodes of a full tree that the tree lacks,
\* given back subtree by subtree along the right spine.
RECURSIVE GiveBack(_, _, _)
GiveBack(remaining, level, missing) ==
  IF remaining = 0 THEN missing
  ELSE LET last == level + SubtreeDepth(remaining)
       IN GiveBack(remaining - FullPart(remaining), level + 1,
            [l \in DOMAIN missing |->
               missing[l] - IF l = level THEN 1
                            ELSE IF l \in level + 1 .. last THEN 2^(l - level - 1) ELSE 0])

Missing(n) == GiveBack(n - 2^(clog2(n) - 1), 1,
                       [l \in 0 .. clog2(n) |-> IF l = 0 THEN 0 ELSE 2^(l - 1)])

Table(f, n) == [k \in 1 .. clog2(n) + 1 |-> f[k - 1]]

tree_offsets(n) ==
  LET missing == Missing(n)
  IN Table([l \in 0 .. clog2(n) |->
              missing[l] - MapThenSumSet(LAMBDA j : missing[j], 0 .. l - 1)], n)
nodes_per_level(n) ==
  LET missing == Missing(n) IN Table([l \in 0 .. clog2(n) |-> 2^l - missing[l]], n)

\* left_child after `depth` passes of the inner loop of tree_leaves.
LeftEdge(left_child, offsets, level, depth) ==
  FoldLeft(LAMBDA child, d : 2 * child + 1 - offsets[level + d + 1], left_child,
           [d \in 1 .. depth - 1 |-> d])

\* tree_leaves: how many leaves each level has, and where they start; a level
\* that gets leaves from two subtrees keeps the first start.
RECURSIVE Collect(_, _, _, _, _, _, _)
Collect(remaining, root_node, left_child, level, offsets, leaves, start) ==
  IF remaining = 0 THEN [leaves |-> leaves, start |-> start]
  ELSE LET at     == level + SubtreeDepth(remaining)
           first  == IF remaining = 1 THEN root_node
                     ELSE LeftEdge(left_child, offsets, level, clog2(remaining))
           spine  == 2 * root_node + 2 - offsets[level + 1]
       IN Collect(remaining - FullPart(remaining),
                  spine, 2 * spine + 1 - offsets[level + 1], level + 1, offsets,
                  [leaves EXCEPT ![at + 1] = @ + FullPart(remaining)],
                  [start EXCEPT ![at + 1] = IF @ = 0 THEN first ELSE @])

\* The tables the script prints for n rounds.
Generated(n) ==
  LET offsets == tree_offsets(n)
      zero    == <<>> \o [k \in 1 .. clog2(n) + 1 |-> 0]  \* so that TLC holds a tuple
      found   == Collect(n, 0, 1 - offsets[1], 0, offsets, zero, zero)
      NonZero(s) == Reverse(SelectSeq(s, LAMBDA x : x # 0))
  IN [T      |-> n,
      off    |-> offsets,
      npl    |-> nodes_per_level(n),
      lpl    |-> found.leaves,
      starts |-> NonZero(found.start),
      cons   |-> NonZero(found.leaves)]

-----------------------------------------------------------------------------
(* What the tables are to describe *)

\* start_node of level k - 1.
StartNode(t, k) == MapThenSumSet(LAMBDA j : t.npl[j], 1 .. k - 1)

\* The number of leaves under every node, level by level from the last one.
SubtreeSizes(t) ==
  LET Above(k, below) ==
        [i \in 0 .. t.npl[k] - 1 |->
           IF i < t.npl[k] - t.lpl[k] THEN below[2 * i] + below[2 * i + 1] ELSE 1]
      Up(sizes, k) == <<Above(k, Head(sizes))>> \o sizes
      last == Len(t.npl)
  IN FoldLeft(Up, <<[i \in 0 .. t.npl[last] - 1 |-> 1]>>, [j \in 1 .. last - 1 |-> last - j])

\* The assumptions of GGMLayout for tables of any size: levels fill the array,
\* a level's inner nodes have the next level for their children, offsets lead
\* there, and the runs of leaves are the ends of the levels, last level first.
IsLayout(t) ==
  LET last  == Len(t.npl)
      start == [k \in 1 .. last |-> StartNode(t, k)]
      withLeaves == SetToSortSeq({k \in 1 .. last : t.lpl[k] > 0}, >)
  IN /\ t.npl[1] = 1 /\ t.lpl[1] = 0 /\ t.lpl[last] = t.npl[last]
     /\ start[last] + t.npl[last] = 2 * t.T - 1
     /\ \A k \in 1 .. last - 1 :
          /\ t.lpl[k] <= t.npl[k] /\ t.npl[k + 1] = 2 * (t.npl[k] - t.lpl[k])
          /\ t.off[k] >= 0 /\ t.off[k] % 2 = 0
          /\ 2 * start[k] + 1 - t.off[k] = start[k + 1]
     /\ t.cons = [s \in DOMAIN withLeaves |-> t.lpl[withLeaves[s]]]
     /\ t.starts = [s \in DOMAIN withLeaves |->
                      LET k == withLeaves[s] IN start[k] + t.npl[k] - t.lpl[k]]

\* Under every node, the left subtree is the full part of what is there.
IsLeftFull(t) ==
  LET sizes == SubtreeSizes(t)
  IN /\ sizes[1][0] = t.T
     /\ \A k \in 1 .. Len(t.npl) - 1 : \A i \in 0 .. t.npl[k] - t.lpl[k] - 1 :
          sizes[k + 1][2 * i] = FullPart(sizes[k][i])

\* The most nodes a path can have for a tree of n leaves of which w are closed:
\* a tree without a closed leaf is one node.
Joined(left, right, most) ==
  LET nl == Len(left) - 1  nr == Len(right) - 1
      Splits(w) == {x \in 0 .. w : x <= nl /\ w - x <= nr}
  IN <<1>> \o [w \in 1 .. Min({most, nl + nr}) |->
                 Max({left[x + 1] + right[w - x + 1] : x \in Splits(w)})]
RECURSIVE LongestPaths(_, _)
LongestPaths(n, most) ==
  IF n = 1 THEN <<1, 0>>
  ELSE LET left == LongestPaths(FullPart(n), most)
       IN Joined(left, IF n = 2 * FullPart(n) THEN left
                             ELSE LongestPaths(n - FullPart(n), most), most)
LongestPath(n, closed) == LongestPaths(n, closed)[closed + 1]

\* The same from its definition: a path has a node for every largest subtree
\* without a closed leaf.  Leaves are numbered from `first`.
RECURSIVE Cover(_, _, _)
Cover(n, first, closed) ==
  IF closed \intersect (first .. first + n - 1) = {} THEN 1
  ELSE IF n = 1 THEN 0
  ELSE Cover(FullPart(n), first, closed)
         + Cover(n - FullPart(n), first + FullPart(n), closed)

\* The tables are what the script prints for their number of rounds.
Matches(t) == LET g == Generated(t.T) IN \A f \in DOMAIN g : g[f] = t[f]
=============================================================================
