---------------------------- MODULE MCCROSSSign -----------------------------
(***************************************************************************)
(* CROSS over a tree of 13 = 12 + 1 leaves: a level with six inner nodes   *)
(* makes every function run a full batch and a rest of two.  Seeds and     *)
(* digests are numbers below 129; hashing is affine modulo 128, injective  *)
(* enough for a wrong digest not to come out right.                        *)
(***************************************************************************)
EXTENDS CROSSSign, FiniteSets

FromZero(s) == [l \in 0 .. Len(s) - 1 |-> s[l + 1]]

npl13    == FromZero(<<1, 2, 4, 6, 12>>)
lpl13    == FromZero(<<0, 0, 1, 0, 12>>)
off13    == FromZero(<<0, 0, 0, 2, 2>>)
starts13 == <<13, 6>>
cons13   == <<12, 1>>
levels13 == FromZero(<<0, 1, 3, 7, 13>>)
rounds13 == <<0, 12>>

MCSeed   == 1 .. 128
MCDigest == 1 .. 128
Mod(x)   == (x % 128) + 1
MCExpand == [a \in MCSeed \X Nodes |-> <<Mod(31 * a[1] + 7 * a[2]), Mod(37 * a[1] + 11 * a[2])>>]
MCHash   == [a \in MCDigest \X MCDigest |-> Mod(57 * a[1] + 101 * a[2])]

\* Committing to zero bytes gives a digest like any other.
MCCommit0 == [a \in (0 .. 128) \X Rounds |-> Mod(43 * a[1] + 19 * a[2] + 5)]
MCCommit1 == [a \in (0 .. 128) \X Rounds |-> Mod(59 * a[1] + 23 * a[2] + 9)]

\* Challenges of weight 8: the five other rounds fill a queue once and leave a
\* rest.  The first and the last round join different queues.
MCChallenges ==
  {ch \in [Rounds -> {0, 1}] : /\ Cardinality({r \in Rounds : ch[r] = 1}) = 8
                              /\ ch[0] # ch[T - 1]}
=============================================================================
