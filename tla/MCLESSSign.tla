----------------------------- MODULE MCLESSSign -----------------------------
(* Four rounds and three key pairs.  One round never fails, one with one    *)
(* seed, one with two that follow each other, one with all but the first.   *)
EXTENDS LESSSignInv

MCChallenges == {c \in [1 .. 4 -> 0 .. 2] : Cardinality({r \in 1 .. 4 : c[r] # 0}) = 2}
MCNoForm     == {<<2, 1>>, <<3, 0>>, <<3, 1>>, <<4, 1>>, <<4, 2>>}

\* Seeds to be published in a full tree with four leaves.
MCPublished ==
  [o \in SUBSET (1 .. 4) |->
     IF o = 1 .. 4 THEN 2
     ELSE IF {1, 2} \subseteq o \/ {3, 4} \subseteq o THEN Cardinality(o) - 1
     ELSE Cardinality(o)]
=============================================================================
