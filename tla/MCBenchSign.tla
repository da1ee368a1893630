---------------------------- MODULE MCBenchSign ----------------------------
(* One unit of each kind but "ignored", as SPECK, FAEST, MQOM and SDITH     *)
(* (threshold) are built.  bench.py runs all binaries, in lists of one and  *)
(* of two; bench.sh two of them.                                            *)
EXTENDS BenchSignInv, TLC

CONSTANTS spk1, spk2, fst, mqm, thr

MCBins  == 1 :> {spk1, spk2} @@ 2 :> {fst} @@ 3 :> {mqm} @@ 4 :> {thr}
MCKind  == 1 :> "rebuild" @@ 2 :> "make" @@ 3 :> "manage" @@ 4 :> "relink"
MCLists == <<<<fst>>, <<mqm, thr>>, <<spk1, spk2>>>>
MCShell == <<spk1, fst>>

=============================================================================
