----------------------------- MODULE MCSeedTree -----------------------------
(***************************************************************************)
(* An instance of SeedTree for TLC: a tree of 11 = 8 + 2 + 1 leaves with   *)
(* the shape of the 133-leaf tree of SPECK (three runs of leaves on three  *)
(* levels).  Seeds are numbers modulo a prime and Expand is an arbitrary   *)
(* function of seed and domain separator.  TLC also evaluates here what is *)
(* claimed of the tables of all parameter sets.                            *)
(***************************************************************************)
EXTENDS SeedTreeInv, TreeTables

FromZero(s) == [l \in 0 .. Len(s) - 1 |-> s[l + 1]]

Hash(p) == [a \in (0 .. p - 1) \X Nodes |->
              <<(31 * a[1] + 7 * a[2] + 1) % p, (37 * a[1] + 11 * a[2] + 2) % p>>]

MCSeed   == 0 .. 256
MCExpand == Hash(257)

Challenge(hidden) == [r \in Rounds |-> IF r \in hidden THEN NOT_TO_PUBLISH ELSE TO_PUBLISH]

\* 11 leaves, every challenge.
npl11    == FromZero(<<1, 2, 4, 6, 8>>)
lpl11    == FromZero(<<0, 0, 1, 2, 8>>)
off11    == FromZero(<<0, 0, 0, 2, 2>>)
starts11 == <<13, 11, 6>>
cons11   == <<8, 2, 1>>
levels11 == FromZero(<<0, 1, 3, 7, 13>>)
rounds11 == <<0, 8, 10>>
AllChallenges == {Challenge(hidden) : hidden \in (SUBSET Rounds) \ {{}}}

\* What the proof of StorageBound supposes of its parameters: the cover of every
\* challenge fits.  For the tables of the code it is PathsFit below.
LOCAL INSTANCE FiniteSets
ASSUME CoversFit == \A ch \in Challenges : Cardinality(CoverOf(ch)) <= MAX_PUBLISHED_SEEDS

-----------------------------------------------------------------------------
(* The tables of the parameter sets *)

LOCAL FS == INSTANCE FiniteSetsExt

AllTables == SPECKTables \union LESSTables \union CROSSTables

\* Every table is what the generating script gives for its number of rounds.
ASSUME TablesAsGenerated == \A t \in AllTables : Matches(t)

\* Every table describes one tree, as GGMLayout assumes, whose left subtrees
\* are full; so do the tables the script would give for other sizes.
ASSUME TablesAreTrees == \A t \in AllTables : IsLayout(t) /\ IsLeftFull(t)
ASSUME ScriptMakesTrees ==
  \A n \in 2 .. 300 : LET t == Generated(n) IN IsLayout(t) /\ IsLeftFull(t)

\* No challenge needs more seeds (CROSS: seeds, or hashes of a proof) than
\* there is room for.  SPECK and LESS close W rounds, CROSS opens W.
ASSUME PathsFit ==
  /\ \A t \in SPECKTables \union LESSTables : LongestPath(t.T, t.W) <= t.store
  /\ \A t \in CROSSTables : LongestPath(t.T, t.T - t.W) <= t.store

\* LongestPath is the maximum it is said to be.
ASSUME LongestPathIsMaximum ==
  \A n \in 2 .. 10 : \A w \in 1 .. n :
     LongestPath(n, w) = FS!Max({Cover(n, 0, closed) : closed \in FS!kSubset(w, 0 .. n - 1)})

\* A challenge that hides a round in 59 of the 64 pairs of the last level of
\* SPECK's tree of 133 leaves, and one in its second run, is a worst case.
ASSUME WorstCase133 ==
  LongestPath(133, 60) = 67
  /\ Cover(133, 0, {2 * k : k \in (0 .. 63) \ {3, 19, 35, 51, 59}} \union {128}) = 67
=============================================================================
