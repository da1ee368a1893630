----------------------------- MODULE RoundSeeds ------------------------------
(***************************************************************************)
(* What the signature schemes rely on: the signer has one seed per round,  *)
(* a challenge opens some of the rounds, and the verifier gets the seeds   *)
(* of exactly those.  SeedTree (SPECK and LESS), CROSSSeedTree and TCitH   *)
(* (Mirath and RYDE) implement it; LESSSign and SPECKSign build on it.     *)
(***************************************************************************)
CONSTANTS Rounds, Seed,
          NoSeed,   \* no seed
          Openings  \* the sets of rounds a challenge may open

VARIABLES phase,      \* which step is next
          seeds,      \* the signer's seed of every round
          opened,     \* the rounds the challenge opens
          recovered   \* what the verifier has in its place

vars == <<phase, seeds, opened, recovered>>

Init == /\ phase = "generate"
        /\ seeds = [r \in Rounds |-> NoSeed]
        /\ opened = {}
        /\ recovered = [r \in Rounds |-> NoSeed]

\* seed_leaves of the signer's tree.
Generate == /\ phase = "generate"
            /\ seeds' \in [Rounds -> Seed]
            /\ phase' = "challenge"
            /\ UNCHANGED <<opened, recovered>>

\* SampleChallenge, and the loop that sets indices_to_publish.
Open == /\ phase = "challenge"
        /\ opened' \in Openings
        /\ phase' = "recover"
        /\ UNCHANGED <<seeds, recovered>>

\* GGMPath, RebuildGGM and seed_leaves of the verifier's tree.
Recover == /\ phase = "recover"
           /\ recovered' = [r \in Rounds |-> IF r \in opened THEN seeds[r] ELSE NoSeed]
           /\ phase' = "done"
           /\ UNCHANGED <<seeds, opened>>

Next == Generate \/ Open \/ Recover

Safety == Init /\ [][Next]_vars
Spec   == Safety /\ WF_vars(Next)
=============================================================================
