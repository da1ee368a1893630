----------------------------- MODULE SPECKSign ------------------------------
(***************************************************************************)
(* One signature of SPECK, from SPECK_keygen to crypto_sign_open.  In each *)
(* round the signer hashes the multiset of the elements of a codeword of   *)
(* G_0; a closed round is answered with K elements of it, those that the   *)
(* challenge's public key has as its first, from which the verifier gets   *)
(* the others.  The seeds of the rounds are taken to be RoundSeeds.        *)
(***************************************************************************)
EXTENDS SPECKKeygen

CONSTANTS T,            \* rounds
          W,            \* rounds that stay closed
          Challenges,   \* what SampleChallenge may return
          Seed, NoSeed,
          Word,         \* word_sample_salt, of a round and its seed
          Published,    \* seeds GGMPath stores to open a set of rounds
          MAX_PUBLISHED_SEEDS,
          FixedSize, SeedSize, \* SPECK_SIGNATURE_SIZE(n) is FixedSize + n * SeedSize
          mlen          \* length of the message

Rounds == 1 .. T

ASSUME SizesAssumption ==
  /\ T \in Nat /\ W \in Nat /\ NoSeed \notin Seed /\ mlen \in Nat
  /\ FixedSize \in Nat \ {0} /\ SeedSize \in Nat
  /\ Word \in [Rounds \X Seed -> [Rows -> Field \ {0}]]
  /\ MAX_PUBLISHED_SEEDS \in 0 .. 255
  /\ Published \in [SUBSET Rounds -> 0 .. MAX_PUBLISHED_SEEDS]
ASSUME ChallengesAssumption ==
  /\ Challenges \subseteq [Rounds -> 0 .. NUM_KEYPAIRS - 1]
  /\ \A b \in Challenges : Cardinality({r \in Rounds : b[r] # 0}) = W

VARIABLES
  phase, seeds, opened, recovered, \* the seed tree, see RoundSeeds
  step,                \* which function or loop is running
  i,                   \* the round it has got to
  codewords,           \* of the signer
  hashed,              \* what it has hashed
  fixed_weight_string, \* the challenge
  emitted_perms,       \* closed rounds the signer has answered
  c1s,                 \* the answers
  sm,                  \* the signed message: its length, its last byte, the answers
  employed_perms,      \* answers the verifier has used
  recomputed,          \* what it has hashed
  ok                   \* what crypto_sign_open returns

tree     == <<phase, seeds, opened, recovered>>
signer   == <<codewords, hashed, fixed_weight_string, emitted_perms, c1s>>
verifier == <<employed_perms, recomputed>>
vars     == <<keys, tree, step, i, signer, sm, verifier, ok>>

RS == INSTANCE RoundSeeds WITH
        Openings <- {{r \in Rounds : b[r] = 0} : b \in Challenges}

-----------------------------------------------------------------------------
NoAnswer == [j \in Rows |-> 0]

Init ==
  /\ InitKeys /\ RS!Init
  /\ step = "keygen" /\ i = 1
  /\ codewords = <<>> /\ hashed = <<>>
  /\ fixed_weight_string = [r \in Rounds |-> 0]
  /\ emitted_perms = 0 /\ c1s = [n \in 0 .. W - 1 |-> NoAnswer]
  /\ sm = [smlen |-> 0, last |-> 0, c1s |-> <<>>]
  /\ employed_perms = 0 /\ recomputed = <<>>
  /\ ok = "none"

Keygen ==
  /\ step = "keygen"
  /\ SPECK_keygen
  /\ UNCHANGED <<tree, step, i, signer, sm, verifier, ok>>

(* SPECK_sign *)

SampleSeeds ==
  /\ step = "keygen" /\ Made
  /\ RS!Generate
  /\ step' = "commit"
  /\ UNCHANGED <<keys, i, signer, sm, verifier, ok>>

\* The round's word u is made the codeword u G_0, and its histogram hashed.
Commit ==
  /\ step = "commit" /\ i <= T
  /\ LET u  == Word[<<i, seeds[i]>>]
         c2 == row_mat_mult(u, A, K, K)
     IN  /\ codewords' = Append(codewords, [j \in Columns |-> IF j < K THEN u[j] ELSE c2[j - K]])
         /\ hashed' = Append(hashed, histogram(u, c2))
  /\ i' = i + 1
  /\ UNCHANGED <<keys, tree, step, fixed_weight_string, emitted_perms, c1s, sm, verifier, ok>>

\* The digest of everything hashed, the salt and the message determines the
\* challenge.
Challenge ==
  /\ step = "commit" /\ i > T
  /\ fixed_weight_string' \in Challenges
  /\ RS!Open
  /\ opened' = {r \in Rounds : fixed_weight_string'[r] = 0}
  /\ step' = "respond" /\ i' = 1
  /\ UNCHANGED <<keys, codewords, hashed, emitted_perms, c1s, sm, verifier, ok>>

Answer ==
  /\ step = "respond" /\ i <= T
  /\ IF fixed_weight_string[i] = 0 THEN UNCHANGED <<emitted_perms, c1s>>
     ELSE /\ c1s' = [c1s EXCEPT ![emitted_perms] = [j \in Rows |->
                       codewords[i][SK_permutations[fixed_weight_string[i]][j]]]]
          /\ emitted_perms' = emitted_perms + 1
  /\ i' = i + 1
  /\ UNCHANGED <<keys, tree, step, codewords, hashed, fixed_weight_string, sm, verifier, ok>>

(* crypto_sign and crypto_sign_open *)

SPECK_SIGNATURE_SIZE(n) == FixedSize + n * SeedSize

compress_c1s(c1) == pack([e \in 0 .. W * K - 1 |-> c1[e \div K][e % K]], W * K)

expand_c1s(bytes) ==
  LET values == unpack(bytes, W * K)
  IN  [n \in 0 .. W - 1 |-> [j \in Rows |-> values[n * K + j]]]

\* The answers are packed, and the last byte says how many seeds there are.
Send ==
  /\ step = "respond" /\ i > T
  /\ sm' = [smlen |-> mlen + SPECK_SIGNATURE_SIZE(Published[opened]),
            last  |-> Published[opened] % 256,
            c1s   |-> compress_c1s(c1s)]
  /\ step' = "sent"
  /\ UNCHANGED <<keys, tree, i, signer, verifier, ok>>

Return(value) == ok' = value /\ step' = "returned"

\* With the seeds of the opened rounds SPECK_verify starts.
crypto_sign_open ==
  /\ step = "sent"
  /\ IF sm.last > MAX_PUBLISHED_SEEDS
       THEN Return("rejected") /\ UNCHANGED <<tree, i>>
       ELSE RS!Recover /\ step' = "verify" /\ i' = 1 /\ ok' = ok
  /\ UNCHANGED <<keys, signer, sm, verifier>>

opened_mlen == sm.smlen - SPECK_SIGNATURE_SIZE(sm.last)

(* SPECK_verify *)

VerifyOpened ==
  /\ step = "verify" /\ i <= T /\ fixed_weight_string[i] = 0
  /\ LET u == Word[<<i, recovered[i]>>]
     IN  recomputed' = Append(recomputed, histogram(u, row_mat_mult(u, A, K, K)))
  /\ i' = i + 1
  /\ UNCHANGED <<keys, tree, step, signer, sm, employed_perms, ok>>

\* Mutant: employed_perms is not incremented.
VerifyClosedSame ==
  /\ step = "verify" /\ i <= T /\ fixed_weight_string[i] # 0
  /\ LET c1 == expand_c1s(sm.c1s)[employed_perms]
         GP == expand_to_rref_speck(PK_SF_G[fixed_weight_string[i]])
     IN  recomputed' = Append(recomputed, histogram(c1, row_mat_mult(c1, GP, K, K)))
  /\ i' = i + 1
  /\ UNCHANGED <<keys, tree, step, signer, sm, employed_perms, ok>>

VerifyClosed ==
  /\ step = "verify" /\ i <= T /\ fixed_weight_string[i] # 0
  /\ LET c1 == expand_c1s(sm.c1s)[employed_perms]
         GP == expand_to_rref_speck(PK_SF_G[fixed_weight_string[i]])
     IN  recomputed' = Append(recomputed, histogram(c1, row_mat_mult(c1, GP, K, K)))
  /\ employed_perms' = employed_perms + 1
  /\ i' = i + 1
  /\ UNCHANGED <<keys, tree, step, signer, sm, ok>>

\* The digests are compared: they are equal if everything that is hashed is.
CompareDigests ==
  /\ step = "verify" /\ i > T
  /\ Return(IF recomputed = hashed /\ opened_mlen = mlen THEN "accepted" ELSE "rejected")
  /\ UNCHANGED <<keys, tree, i, signer, sm, verifier>>

Sign   == SampleSeeds \/ Commit \/ Challenge \/ Answer \/ Send
Verify == crypto_sign_open \/ VerifyOpened \/ VerifyClosed \/ CompareDigests

Next == Keygen \/ Sign \/ Verify

Spec == Init /\ [][Next]_vars /\ WF_vars(Next)

-----------------------------------------------------------------------------
(* Properties *)

\* "sign cannot fail": what the signer sends is accepted, whatever code was
\* drawn, wherever its pivots are and whichever rounds are opened: round by
\* round the verifier hashes what the signer hashed, from a seed or from half
\* a permuted codeword, and it finds the message in the signed message.
Accepted == ok # "rejected"

\* There always is a draw that can be made the next row of A, so key
\* generation ends, and so do signing and verifying.
Returns == <>(step = "returned")
=============================================================================
