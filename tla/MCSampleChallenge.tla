------------------------- MODULE MCSampleChallenge -------------------------
(* Strings of a length that is not a power of two.                         *)
EXTENDS SampleChallengeInv
=============================================================================
