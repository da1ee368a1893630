------------------------------ MODULE MCTCitH --------------------------------
(***************************************************************************)
(* Three repetitions of four leaves: the twelve leaves lie on two levels,  *)
(* and covers have three to six nodes, of which a signature takes four.    *)
(***************************************************************************)
EXTENDS TCitH, TLC

\* The seed of a node is its number; a wrong seed gives wrong seeds.
MCSeed   == 1 .. 2 * TREE_LEAVES
MCExpand == [a \in MCSeed \X InnerNodes |->
  IF a[1] = a[2] + 1 THEN <<child_0(a[2]) + 1, child_1(a[2]) + 1>>
                     ELSE <<2 * TREE_LEAVES, 2 * TREE_LEAVES>>]

View(a, b, c, v) == [i_star |-> (0 :> a) @@ (1 :> b) @@ (2 :> c), v_grinding |-> v]

\* Views that are accepted, that need five and six seeds, and a discarded one.
SomeViews == {View(0, 0, 0, "zero"), View(3, 3, 2, "zero"), View(0, 2, 3, "zero"),
              View(1, 0, 3, "zero"), View(0, 0, 0, "other")}

\* One batch that begins with any view, and two batches of some.
OneBatch   == {(0 :> [i_star |-> h, v_grinding |-> "zero"]) @@ (1 :> v) :
                 h \in [Repetitions -> 0 .. PARAM_N - 1], v \in SomeViews}
TwoBatches == [0 .. 3 -> SomeViews]
MCOracles  == OneBatch \union TwoBatches

\* What is assumed of a height is true of the real one.
MCHeight == [n \in TreeNodes |-> IF n = 0 THEN 0 ELSE IF n < 3 THEN 1 ELSE
                                 IF n < 7 THEN 2 ELSE IF n < 15 THEN 3 ELSE 4]
ASSUME HeightAssumption == IsHeight(MCHeight, 4)
=============================================================================
