----------------------------- MODULE MCSDitHSign -----------------------------
(***************************************************************************)
(* Eleven parties: a tree of 16 with a level of six nodes, which is hashed *)
(* as four and two, and two levels whose last node has one child.  Three   *)
(* parties of each of two executions are opened.                           *)
(***************************************************************************)
EXTENDS SDitHSign, TLC

Tables == INSTANCE TreeTables

MCViews == (0 :> Parties) @@ (1 :> {0, 3, 9, 10})

\* What the proofs of Accepted and PathIsWhatIsNeeded suppose of the room.
ASSUME PathsFitHere == PathsFit

\* The room that parameters.h gives to a path is exact for 256 parties.  251 of
\* them need no more: their tree is this one without its last leaves.
ASSUME RoomIsExact == Tables!LongestPath(256, 3) = 19
=============================================================================
