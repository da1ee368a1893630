------------------------- MODULE SampleChallengeInv -------------------------
(***************************************************************************)
(* The inductive invariant of SampleChallenge.                             *)
(***************************************************************************)
EXTENDS SampleChallenge

IndexInv ==
  /\ step = "keys" => i \in T - W .. T
  /\ step = "positions" => i \in T - W .. T
  /\ step = "clear" => c = 0

\* The elements that were drawn are at the end of the string.
KeysInv ==
  step = "keys" =>
    /\ \A r \in 0 .. T - W - 1 : fixed_weight_string[r] = 0
    /\ \A r \in T - W .. i - 1 : fixed_weight_string[r] \in 1 .. NUM_KEYPAIRS - 1

\* Those that were not swapped yet still are; swapping leaves the weight as it is.
PositionsInv ==
  step \in {"positions", "done"} =>
    /\ fixed_weight_string \in [Rounds -> 0 .. NUM_KEYPAIRS - 1]
    /\ step = "positions" => \A r \in i .. T - 1 : fixed_weight_string[r] # 0
    /\ Cardinality(Closed) = W

\* In the first loop there are bits for every draw that is left.
BitsInv == step = "keys" => c * KeyBits <= unread

IInv == TypeOK /\ IndexInv /\ KeysInv /\ PositionsInv /\ BitsInv
=============================================================================
