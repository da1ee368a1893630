---------------------------- MODULE MCSPECKSign -----------------------------
(* All anti-orthogonal matrices of four rows over the field with three      *)
(* elements, and permutations that reverse the columns, exchange half of    *)
(* the pivots, and mix all of them.                                         *)
EXTENDS SPECKSign

\* A permutation of 0 .. 7 from the sequence of its values.
Permutation(values) == [j \in 0 .. 7 |-> values[j + 1]]

MCPermutations == {Permutation(<<7, 6, 5, 4, 3, 2, 1, 0>>),
                   Permutation(<<4, 5, 0, 1, 2, 3, 6, 7>>),
                   Permutation(<<1, 4, 6, 2, 5, 7, 0, 3>>)}

MCChallenges == {b \in [1 .. 4 -> 0 .. 1] : Cardinality({r \in 1 .. 4 : b[r] # 0}) = 2}

MCWord == [p \in (1 .. 4) \X {"s"} |->
             [j \in 0 .. 3 |-> IF p[1] = 1 THEN 1 + (j % 2) ELSE IF j < p[1] THEN 1 ELSE 2]]

\* Seeds to be published in a full tree with four leaves, of at most two rounds.
MCPublished ==
  [o \in SUBSET (1 .. 4) |->
     IF o \in {{1, 2}, {3, 4}} THEN 1 ELSE IF Cardinality(o) <= 2 THEN Cardinality(o) ELSE 2]
=============================================================================
