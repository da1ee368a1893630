------------------------------ MODULE LESSSign ------------------------------
(***************************************************************************)
(* One signature of LESS from crypto_sign to crypto_sign_open: the signer  *)
(* goes through the rounds, and tries a round again with another seed when *)
(* its matrix has no canonical form; the verifier goes through them with   *)
(* the seeds of the rounds the challenge opens and the responses to the    *)
(* others.  The seeds come from a tree, which is taken to be RoundSeeds.   *)
(*                                                                         *)
(* A seed is known by its first byte, the only one that is ever changed.   *)
(* The code whose canonical form is computed in round r with seed s is     *)
(* known by the pair <<r, s>>.  G_0 has full rank and so have the matrices *)
(* that are made from it: generator_RREF does not fail.                    *)
(***************************************************************************)
EXTENDS Integers, Sequences, FiniteSets

CONSTANTS T,            \* rounds
          W,            \* rounds that stay closed
          NUM_KEYPAIRS,
          Byte,         \* values of a byte, 256 in the code
          Challenges,   \* what SampleChallenge may return
          NoForm,       \* the <<round, seed>> that have no canonical form
          Published,    \* seeds GGMPath stores to open a set of rounds
          MAX_PUBLISHED_SEEDS,
          FixedSize, SeedSize, \* LESS_SIGNATURE_SIZE(n) is FixedSize + n * SeedSize
          Lengths,      \* lengths of messages
          NoSeed,       \* no seed
          WrongCode     \* a code that is not that of any round

Rounds == 1 .. T
Seed   == 0 .. Byte - 1

ASSUME SizesAssumption ==
  /\ T \in Nat /\ W \in Nat /\ NUM_KEYPAIRS \in Nat \ {0} /\ Byte \in Nat \ {0}
  /\ FixedSize \in Nat \ {0} /\ SeedSize \in Nat /\ Lengths \subseteq Nat
  /\ MAX_PUBLISHED_SEEDS \in 0 .. Byte - 1
  /\ NoSeed \notin Seed /\ NoForm \subseteq Rounds \X Seed /\ WrongCode \notin Rounds \X Seed
  /\ Published \in [SUBSET Rounds -> 0 .. MAX_PUBLISHED_SEEDS]
ASSUME ChallengesAssumption ==
  /\ Challenges \subseteq [Rounds -> 0 .. NUM_KEYPAIRS - 1]
  /\ \A c \in Challenges : Cardinality({r \in Rounds : c[r] # 0}) = W

VARIABLES
  phase, seeds, opened, recovered, \* the seed tree, see RoundSeeds
  step,                    \* which loop is running
  i,                       \* the round it has got to
  mlen,                    \* length of the message that is signed
  linearized_rounds_seeds, \* the seeds the signer uses
  pi_tilde,                \* the seed that round r was committed with
  state,                   \* what the signer has hashed
  fixed_weight_string,     \* the challenge
  cf_monom_actions,        \* the responses; emitted_monoms is their number
  sm,                      \* the signed message: its length and its last byte
  employed_monoms,         \* responses the verifier has used
  recomputed,              \* what the verifier has hashed
  opened_mlen,             \* length of the message that was recovered
  ok                       \* what crypto_sign_open returns

tree     == <<phase, seeds, opened, recovered>>
signer   == <<linearized_rounds_seeds, pi_tilde, state, fixed_weight_string,
              cf_monom_actions>>
verifier == <<employed_monoms, recomputed, opened_mlen>>
vars     == <<tree, step, i, mlen, signer, sm, verifier, ok>>

Openings == {{r \in Rounds : c[r] = 0} : c \in Challenges}
RS == INSTANCE RoundSeeds

-----------------------------------------------------------------------------
Init ==
  /\ RS!Init
  /\ step = "seeds" /\ i = 1
  /\ mlen \in Lengths
  /\ linearized_rounds_seeds = [r \in Rounds |-> 0]
  /\ pi_tilde = [r \in Rounds |-> NoSeed]
  /\ state = <<>>
  /\ fixed_weight_string = [r \in Rounds |-> 0]
  /\ cf_monom_actions = <<>>
  /\ sm = [smlen |-> 0, last |-> 0]
  /\ employed_monoms = 0 /\ recomputed = <<>> /\ opened_mlen = 0
  /\ ok = "none"

(* LESS_sign *)

\* The tree is built and its leaves are copied.
SampleSeeds ==
  /\ step = "seeds"
  /\ RS!Generate
  /\ linearized_rounds_seeds' = seeds'
  /\ step' = "commit"
  /\ UNCHANGED <<i, mlen, pi_tilde, state, fixed_weight_string, cf_monom_actions, sm,
                 verifier, ok>>

HasForm(r, s) == <<r, s>> \notin NoForm

\* The canonical form of the round is hashed.
Commit ==
  /\ step = "commit" /\ i <= T
  /\ HasForm(i, linearized_rounds_seeds[i])
  /\ pi_tilde' = [pi_tilde EXCEPT ![i] = linearized_rounds_seeds[i]]
  /\ state' = Append(state, <<i, linearized_rounds_seeds[i]>>)
  /\ i' = i + 1
  /\ UNCHANGED <<tree, step, mlen, linearized_rounds_seeds, fixed_weight_string,
                 cf_monom_actions, sm, verifier, ok>>

\* Mutant: the byte does not wrap.
RetrySaturates ==
  /\ step = "commit" /\ i <= T
  /\ ~HasForm(i, linearized_rounds_seeds[i])
  /\ pi_tilde' = [pi_tilde EXCEPT ![i] = linearized_rounds_seeds[i]]
  /\ linearized_rounds_seeds' = [linearized_rounds_seeds EXCEPT ![i] =
                                   IF @ = Byte - 1 THEN @ ELSE @ + 1]
  /\ UNCHANGED <<tree, step, i, mlen, state, fixed_weight_string, cf_monom_actions, sm,
                 verifier, ok>>

\* Mutant: without i -= 1 the round is left out.
RetryNext ==
  /\ step = "commit" /\ i <= T
  /\ ~HasForm(i, linearized_rounds_seeds[i])
  /\ pi_tilde' = [pi_tilde EXCEPT ![i] = linearized_rounds_seeds[i]]
  /\ linearized_rounds_seeds' = [linearized_rounds_seeds EXCEPT ![i] = (@ + 1) % Byte]
  /\ i' = i + 1
  /\ UNCHANGED <<tree, step, mlen, state, fixed_weight_string, cf_monom_actions, sm,
                 verifier, ok>>

\* There is none: the first byte of the copy of the seed is incremented and
\* the round done again (i -= 1, which may wrap around, and the loop's i++).
Retry ==
  /\ step = "commit" /\ i <= T
  /\ ~HasForm(i, linearized_rounds_seeds[i])
  /\ pi_tilde' = [pi_tilde EXCEPT ![i] = linearized_rounds_seeds[i]]
  /\ linearized_rounds_seeds' = [linearized_rounds_seeds EXCEPT ![i] = (@ + 1) % Byte]
  /\ UNCHANGED <<tree, step, i, mlen, state, fixed_weight_string, cf_monom_actions, sm,
                 verifier, ok>>

\* The digest is that of state, the message and the salt; it determines the
\* challenge, and GGMPath stores seeds of the tree, which no retry changed.
Challenge ==
  /\ step = "commit" /\ i > T
  /\ fixed_weight_string' \in Challenges
  /\ RS!Open
  /\ opened' = {r \in Rounds : fixed_weight_string'[r] = 0}
  /\ step' = "respond" /\ i' = 1
  /\ UNCHANGED <<mlen, linearized_rounds_seeds, pi_tilde, state, cf_monom_actions, sm,
                 verifier, ok>>

\* Mutant: emitted_monoms is incremented outside the if.
SkipRoundEmits ==
  /\ step = "respond" /\ i <= T /\ fixed_weight_string[i] = 0
  /\ cf_monom_actions' = Append(cf_monom_actions, [key  |-> 0, code |-> <<i, 0>>])
  /\ i' = i + 1
  /\ UNCHANGED <<tree, step, mlen, linearized_rounds_seeds, pi_tilde, state,
                 fixed_weight_string, sm, verifier, ok>>

\* An opened round has no response.
SkipRound ==
  /\ step = "respond" /\ i <= T /\ fixed_weight_string[i] = 0
  /\ i' = i + 1
  /\ UNCHANGED <<tree, step, mlen, signer, sm, verifier, ok>>

\* A response leads from the public key it is made for to the code of the
\* round.
Respond ==
  /\ step = "respond" /\ i <= T /\ fixed_weight_string[i] # 0
  /\ cf_monom_actions' = Append(cf_monom_actions, [key  |-> fixed_weight_string[i],
                                                   code |-> <<i, pi_tilde[i]>>])
  /\ i' = i + 1
  /\ UNCHANGED <<tree, step, mlen, linearized_rounds_seeds, pi_tilde, state,
                 fixed_weight_string, sm, verifier, ok>>

(* crypto_sign and crypto_sign_open *)

LESS_SIGNATURE_SIZE(n) == FixedSize + n * SeedSize

\* Mutant: the byte is that of the largest signature.
SendMax ==
  /\ step = "respond" /\ i > T
  /\ sm' = [smlen |-> mlen + LESS_SIGNATURE_SIZE(Published[opened]),
            last  |-> MAX_PUBLISHED_SEEDS]
  /\ step' = "sent"
  /\ UNCHANGED <<tree, i, mlen, signer, verifier, ok>>

\* The last byte says how many seeds there are.
Send ==
  /\ step = "respond" /\ i > T
  /\ sm' = [smlen |-> mlen + LESS_SIGNATURE_SIZE(Published[opened]),
            last  |-> Published[opened] % Byte]
  /\ step' = "sent"
  /\ UNCHANGED <<tree, i, mlen, signer, verifier, ok>>

Return(value) == ok' = value /\ step' = "returned"

\* With the seeds of the opened rounds LESS_verify starts.
crypto_sign_open ==
  /\ step = "sent"
  /\ IF sm.last > MAX_PUBLISHED_SEEDS
       THEN Return("rejected") /\ UNCHANGED <<tree, i, opened_mlen>>
       ELSE /\ opened_mlen' = sm.smlen - LESS_SIGNATURE_SIZE(sm.last)
            /\ RS!Recover
            /\ step' = "verify" /\ i' = 1 /\ ok' = ok
  /\ UNCHANGED <<mlen, signer, sm, employed_monoms, recomputed>>

(* LESS_verify *)

VerifyOpened ==
  /\ step = "verify" /\ i <= T /\ fixed_weight_string[i] = 0
  /\ HasForm(i, recovered[i])
  /\ recomputed' = Append(recomputed, <<i, recovered[i]>>)
  /\ i' = i + 1
  /\ UNCHANGED <<tree, step, mlen, signer, sm, employed_monoms, opened_mlen, ok>>

\* CF fails.
VerifyNoForm ==
  /\ step = "verify" /\ i <= T /\ fixed_weight_string[i] = 0
  /\ ~HasForm(i, recovered[i])
  /\ Return("rejected")
  /\ UNCHANGED <<tree, i, mlen, signer, sm, verifier>>

\* Applied to another public key, a response leads elsewhere.
Reached(a, key) == IF a.key = key THEN a.code ELSE WrongCode

\* Mutant: employed_monoms is not incremented.
VerifyClosedSame ==
  /\ step = "verify" /\ i <= T /\ fixed_weight_string[i] # 0
  /\ recomputed' = Append(recomputed, Reached(cf_monom_actions[employed_monoms + 1],
                                              fixed_weight_string[i]))
  /\ i' = i + 1
  /\ UNCHANGED <<tree, step, mlen, signer, sm, employed_monoms, opened_mlen, ok>>

\* What the signer emitted is a canonical action, and its code has a form.
VerifyClosed ==
  /\ step = "verify" /\ i <= T /\ fixed_weight_string[i] # 0
  /\ recomputed' = Append(recomputed, Reached(cf_monom_actions[employed_monoms + 1],
                                              fixed_weight_string[i]))
  /\ employed_monoms' = employed_monoms + 1
  /\ i' = i + 1
  /\ UNCHANGED <<tree, step, mlen, signer, sm, opened_mlen, ok>>

\* The digests are compared: they are equal if everything that is hashed is.
CompareDigests ==
  /\ step = "verify" /\ i > T
  /\ Return(IF recomputed = state /\ opened_mlen = mlen THEN "accepted" ELSE "rejected")
  /\ UNCHANGED <<tree, i, mlen, signer, sm, verifier>>

Sign   == SampleSeeds \/ Commit \/ Retry \/ Challenge \/ SkipRound \/ Respond \/ Send
Verify == crypto_sign_open \/ VerifyOpened \/ VerifyNoForm \/ VerifyClosed \/ CompareDigests

Next == Sign \/ Verify

Spec == Init /\ [][Next]_vars /\ WF_vars(Next)

-----------------------------------------------------------------------------
(* Properties *)

Steps == {"seeds", "commit", "respond", "sent", "verify", "returned"}

TypeOK ==
  /\ seeds \in [Rounds -> Seed \union {NoSeed}]
  /\ recovered \in [Rounds -> Seed \union {NoSeed}]
  /\ opened \subseteq Rounds /\ phase \in {"generate", "challenge", "recover", "done"}
  /\ step \in Steps /\ i \in 1 .. T + 1 /\ mlen \in Lengths /\ opened_mlen \in Nat
  /\ linearized_rounds_seeds \in [Rounds -> Seed]
  /\ pi_tilde \in [Rounds -> Seed \union {NoSeed}]
  /\ state \in Seq(Rounds \X Seed)
  /\ recomputed \in Seq((Rounds \X Seed) \union {WrongCode})
  /\ fixed_weight_string \in [Rounds -> 0 .. NUM_KEYPAIRS - 1]
  /\ cf_monom_actions \in Seq([key : 0 .. NUM_KEYPAIRS - 1, code : Rounds \X Seed])
  /\ sm \in [smlen : Nat, last : Seed]
  /\ employed_monoms \in 0 .. W
  /\ ok \in {"none", "accepted", "rejected"}

\* The signer did the round again with a seed that is not in the tree.
Retried == {r \in Rounds : linearized_rounds_seeds[r] # seeds[r]}

\* A signature is accepted unless the challenge opens a round that was done
\* again; then, and only then, the verifier lacks its seed and rejects.
AcceptedUnlessOpened ==
  ok # "none" => (ok = "accepted" <=> opened \cap Retried = {})

\* Whatever was done again, the verifier hashes what the signer hashed, in the
\* same order, as far as it gets.
SameTranscript ==
  step \in {"verify", "returned"} =>
    /\ Len(recomputed) = i - 1
    /\ \A r \in 1 .. i - 1 : recomputed[r] = state[r]

\* Every round is hashed once, in its place, with a seed that has a form: the
\* last one it was tried with.
HashedOnce ==
  /\ Len(state) = IF step = "seeds" THEN 0 ELSE IF step = "commit" THEN i - 1 ELSE T
  /\ \A r \in 1 .. Len(state) :
       state[r] = <<r, linearized_rounds_seeds[r]>> /\ HasForm(r, linearized_rounds_seeds[r])

\* The array of responses has a place for each of them, and when the signature
\* is sent every place has been written.
AllEmitted ==
  /\ Len(cf_monom_actions) <= W
  /\ step = "sent" => Len(cf_monom_actions) = W

\* crypto_sign_open finds the end of the message.
MessageFound == step \in {"verify", "returned"} => opened_mlen = mlen

\* As long as some first byte gives a canonical form, retrying finds it, and
\* both ends return.
Returns == <>(step = "returned")

\* "sign cannot fail", "verify returns 1 if signature is ok": an honest
\* signature is accepted.
HonestAccepted == ok # "rejected"
=============================================================================
