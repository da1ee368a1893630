--------------------------- MODULE LESSSign_proof ---------------------------
(***************************************************************************)
(* Proofs about LESSSign, for any number of rounds and key pairs, any set  *)
(* of matrices without a canonical form and any challenges.                *)
(***************************************************************************)
EXTENDS LESSSignInv, FiniteSetTheorems, TLAPS

(* Where the response to a round is *)

\* Places are counted up by one at each closed round.
LEMMA PlaceStep ==
  ASSUME NEW n \in Nat
  PROVE  /\ IsFiniteSet(Closed(n)) /\ Place(n) \in Nat
         /\ fixed_weight_string[n + 1] = 0 => Place(n + 1) = Place(n)
         /\ fixed_weight_string[n + 1] # 0 => Place(n + 1) = Place(n) + 1
<1>1. IsFiniteSet(1 .. n) BY FS_Interval
<1>2. IsFiniteSet(Closed(n)) BY <1>1, FS_Subset DEF Closed
<1>3. Place(n) \in Nat BY <1>2, FS_CardinalityType DEF Place
<1>4. ASSUME fixed_weight_string[n + 1] = 0 PROVE Place(n + 1) = Place(n)
  <2>1. Closed(n + 1) = Closed(n) BY <1>4 DEF Closed
  <2> QED BY <2>1 DEF Place
<1>5. ASSUME fixed_weight_string[n + 1] # 0 PROVE Place(n + 1) = Place(n) + 1
  <2>1. Closed(n + 1) = Closed(n) \cup {n + 1} BY <1>5 DEF Closed
  <2>2. n + 1 \notin Closed(n) BY DEF Closed
  <2> QED BY <1>2, <2>1, <2>2, FS_AddElement DEF Place
<1> QED BY <1>2, <1>3, <1>4, <1>5

\* The same for the round n and the one before it.
LEMMA PlaceAt ==
  ASSUME NEW n \in Nat \ {0}
  PROVE  /\ Place(n - 1) \in Nat
         /\ fixed_weight_string[n] = 0 => /\ Place(n) = Place(n - 1)
                                          /\ Closed(n) = Closed(n - 1)
         /\ fixed_weight_string[n] # 0 => /\ Place(n) = Place(n - 1) + 1
                                          /\ Closed(n) = Closed(n - 1) \cup {n}
<1>1. n - 1 \in Nat /\ (n - 1) + 1 = n OBVIOUS
<1>2. /\ Place(n - 1) \in Nat
      /\ fixed_weight_string[n] = 0 => Place(n) = Place(n - 1)
      /\ fixed_weight_string[n] # 0 => Place(n) = Place(n - 1) + 1
  <2>1. /\ Place(n - 1) \in Nat
        /\ fixed_weight_string[(n - 1) + 1] = 0 => Place((n - 1) + 1) = Place(n - 1)
        /\ fixed_weight_string[(n - 1) + 1] # 0 => Place((n - 1) + 1) = Place(n - 1) + 1
    BY <1>1, PlaceStep
  <2> QED BY <1>1, <2>1
<1>3. fixed_weight_string[n] = 0 => Closed(n) = Closed(n - 1) BY DEF Closed
<1>4. fixed_weight_string[n] # 0 => Closed(n) = Closed(n - 1) \cup {n} BY DEF Closed
<1> QED BY <1>2, <1>3, <1>4

LEMMA NoPlace == Place(0) = 0
<1>1. Closed(0) = {} BY DEF Closed
<1> QED BY <1>1, FS_EmptySet DEF Place

LEMMA PlaceMonotone ==
  ASSUME NEW n \in Nat, NEW m \in 0 .. n PROVE Place(m) <= Place(n)
<1>1. Closed(m) \in SUBSET Closed(n) BY DEF Closed
<1> QED BY <1>1, PlaceStep, FS_Subset DEF Place

\* The response to a closed round up to n is among the first Place(n).
LEMMA PlaceRange ==
  ASSUME NEW n \in Nat, NEW r \in Closed(n) PROVE Place(r) \in 1 .. Place(n)
<1>1. r \in 1 .. n /\ fixed_weight_string[r] # 0 BY DEF Closed
<1>2. r - 1 \in Nat /\ (r - 1) + 1 = r BY <1>1
<1>3. Place(r) = Place(r - 1) + 1 /\ Place(r - 1) \in Nat BY <1>1, <1>2, PlaceStep
<1>4. Place(r) <= Place(n) /\ Place(n) \in Nat BY <1>1, PlaceMonotone, PlaceStep
<1> QED BY <1>3, <1>4

\* A challenge closes W rounds.
LEMMA AllPlaces == ASSUME ChallengeInv, Late PROVE Place(T) = W
<1>1. Closed(T) = {r \in Rounds : fixed_weight_string[r] # 0} BY DEF Closed, Rounds
<1> QED BY <1>1, ChallengesAssumption DEF ChallengeInv, Place

\* A sequence that agrees with another one still does when the next element of
\* that one is appended to it.
LEMMA AppendSame ==
  ASSUME NEW S, NEW s \in Seq(S), NEW t, NEW n \in Nat \ {0}, NEW e \in S,
         Len(s) = n - 1, \A r \in 1 .. n - 1 : s[r] = t[r], e = t[n]
  PROVE  Len(Append(s, e)) = n /\ \A r \in 1 .. n : Append(s, e)[r] = t[r]
<1>1. Len(Append(s, e)) = n OBVIOUS
<1>2. ASSUME NEW r \in 1 .. n PROVE Append(s, e)[r] = t[r]
  <2>1. CASE r = n BY <2>1
  <2>2. CASE r # n
    <3>1. r \in 1 .. n - 1 BY <2>2
    <3>2. Append(s, e)[r] = s[r] BY <3>1
    <3> QED BY <3>1, <3>2
  <2> QED BY <2>1, <2>2
<1> QED BY <1>1, <1>2

-----------------------------------------------------------------------------
LEMMA Initially == Init => IInv
<1> SUFFICES ASSUME Init PROVE IInv
  OBVIOUS
<1> USE SizesAssumption DEF Init, RS!Init
<1>1. TypeOK
  <2>1. 0 \in Seed /\ 1 \in 1 .. T + 1 /\ 0 \in 0 .. W /\ 0 \in 0 .. NUM_KEYPAIRS - 1
    BY DEF Seed
  <2>2. linearized_rounds_seeds \in [Rounds -> Seed] BY <2>1
  <2>3. sm \in [smlen : Nat, last : Seed] BY <2>1
  <2>4. /\ fixed_weight_string \in [Rounds -> 0 .. NUM_KEYPAIRS - 1]
        /\ seeds \in [Rounds -> Seed \union {NoSeed}]
        /\ recovered \in [Rounds -> Seed \union {NoSeed}]
        /\ pi_tilde \in [Rounds -> Seed \union {NoSeed}]
    BY <2>1
  <2> QED BY <2>1, <2>2, <2>3, <2>4 DEF TypeOK, Steps
<1>2. PhaseInv /\ CommitInv /\ RetryInv BY DEF PhaseInv, CommitInv, HashedOnce, RetryInv
<1>3. ChallengeInv /\ RespondInv BY DEF ChallengeInv, RespondInv, Late
<1>4. SentInv /\ VerifyInv BY DEF SentInv, MessageFound, VerifyInv, SameTranscript
<1>5. ResultInv BY DEF ResultInv, AcceptedUnlessOpened
<1> QED BY <1>1, <1>2, <1>3, <1>4, <1>5 DEF IInv

\* The number of seeds fits into the last byte of the signed message.
LEMMA LastByte ==
  ASSUME NEW o \in SUBSET Rounds
  PROVE  /\ Published[o] % Byte = Published[o] /\ Published[o] \in 0 .. MAX_PUBLISHED_SEEDS
         /\ LESS_SIGNATURE_SIZE(Published[o]) \in Nat
<1>1. Published[o] \in 0 .. MAX_PUBLISHED_SEEDS BY SizesAssumption
<1>2. Published[o] \in 0 .. Byte - 1 BY <1>1, SizesAssumption
<1>3. Published[o] % Byte = Published[o] BY <1>2, SizesAssumption
<1>4. Published[o] * SeedSize \in Nat BY <1>1, SizesAssumption
<1> QED BY <1>1, <1>3, <1>4, SizesAssumption DEF LESS_SIGNATURE_SIZE

\* The verifier finds the number of seeds and the end of the message.
LEMMA Opening ==
  ASSUME TypeOK, SentInv, step = "sent"
  PROVE  /\ sm.last = Published[opened] /\ ~(sm.last > MAX_PUBLISHED_SEEDS)
         /\ sm.smlen - LESS_SIGNATURE_SIZE(sm.last) = mlen
<1>1. sm.last = Published[opened] /\ sm.smlen = mlen + LESS_SIGNATURE_SIZE(Published[opened])
  BY DEF SentInv
<1>2. /\ Published[opened] \in 0 .. MAX_PUBLISHED_SEEDS
      /\ LESS_SIGNATURE_SIZE(Published[opened]) \in Nat
  BY LastByte DEF TypeOK
<1>3. mlen \in Nat BY SizesAssumption DEF TypeOK
<1> QED BY <1>1, <1>2, <1>3, SizesAssumption

\* The response that the verifier takes is that to the round it has got to.
LEMMA NextResponse ==
  ASSUME TypeOK, ChallengeInv, RespondInv, VerifyInv, step = "verify", i <= T,
         fixed_weight_string[i] # 0
  PROVE  /\ employed_monoms + 1 \in 1 .. W
         /\ cf_monom_actions[employed_monoms + 1] = Response(i)
         /\ Reached(cf_monom_actions[employed_monoms + 1], fixed_weight_string[i])
              = <<i, linearized_rounds_seeds[i]>>
         /\ employed_monoms + 1 = Place(i)
<1>1. i - 1 \in Nat /\ (i - 1) + 1 = i /\ i \in Closed(T) /\ T \in Nat
  BY SizesAssumption DEF TypeOK, Closed
<1>2. Place(i) = employed_monoms + 1 BY <1>1, PlaceStep DEF VerifyInv
<1>3. Place(i) \in 1 .. W BY <1>1, PlaceRange, AllPlaces DEF Late
<1>4. cf_monom_actions[Place(i)] = Response(i) BY <1>1 DEF RespondInv, Late
<1> QED BY <1>2, <1>3, <1>4 DEF Reached, Response

-----------------------------------------------------------------------------
(* Every step preserves IInv *)

LEMMA TypeStep == ASSUME IInv, Next PROVE TypeOK'
<1> USE SizesAssumption, ChallengesAssumption DEF IInv, TypeOK
<1>1. CASE SampleSeeds BY <1>1 DEF SampleSeeds, RS!Generate, verifier, Steps
<1>2. CASE Commit
  <2>1. i \in Rounds /\ i + 1 \in 1 .. T + 1 BY <1>2 DEF Commit, Rounds
  <2>2. pi_tilde' \in [Rounds -> Seed \union {NoSeed}] BY <1>2, <2>1 DEF Commit
  <2>3. state' \in Seq(Rounds \X Seed) BY <1>2, <2>1 DEF Commit
  <2> QED BY <1>2, <2>1, <2>2, <2>3 DEF Commit, tree, verifier
<1>3. CASE Retry
  <2>1. i \in Rounds BY <1>3 DEF Retry, Rounds
  <2>2. pi_tilde' \in [Rounds -> Seed \union {NoSeed}] BY <1>3, <2>1 DEF Retry
  <2>3. (linearized_rounds_seeds[i] + 1) % Byte \in Seed BY <2>1 DEF Seed
  <2>4. linearized_rounds_seeds' \in [Rounds -> Seed] BY <1>3, <2>1, <2>3 DEF Retry
  <2> QED BY <1>3, <2>2, <2>4 DEF Retry, tree, verifier
<1>4. CASE Challenge
  <2>1. fixed_weight_string' \in [Rounds -> 0 .. NUM_KEYPAIRS - 1] BY <1>4 DEF Challenge
  <2>2. opened' \subseteq Rounds BY <1>4 DEF Challenge
  <2> QED BY <1>4, <2>1, <2>2 DEF Challenge, RS!Open, verifier, Steps
<1>5. CASE SkipRound BY <1>5 DEF SkipRound, tree, signer, verifier
<1>6. CASE Respond
  <2>1. i \in Rounds BY <1>6 DEF Respond, Rounds
  <2>2. pi_tilde[i] \in Seed
    BY <1>6, <2>1 DEF Respond, CommitInv, HashedOnce, Rounds
  <2>3. [key |-> fixed_weight_string[i], code |-> <<i, pi_tilde[i]>>]
          \in [key : 0 .. NUM_KEYPAIRS - 1, code : Rounds \X Seed]
    BY <2>1, <2>2
  <2>4. cf_monom_actions' \in Seq([key : 0 .. NUM_KEYPAIRS - 1, code : Rounds \X Seed])
    BY <1>6, <2>3 DEF Respond
  <2> QED BY <1>6, <2>1, <2>4 DEF Respond, tree, verifier, Rounds
<1>7. CASE Send
  <2>1. /\ Published[opened] % Byte \in 0 .. MAX_PUBLISHED_SEEDS
        /\ LESS_SIGNATURE_SIZE(Published[opened]) \in Nat
    <3>1. opened \in SUBSET Rounds OBVIOUS
    <3> QED BY ONLY <3>1, LastByte
  <2>2. Published[opened] % Byte \in Seed BY <2>1 DEF Seed
  <2>3. mlen + LESS_SIGNATURE_SIZE(Published[opened]) \in Nat
    <3>1. mlen \in Nat BY <1>7, Lengths \subseteq Nat DEF Send
    <3> QED BY ONLY <2>1, <3>1
  <2>4. sm' = [smlen |-> mlen + LESS_SIGNATURE_SIZE(Published[opened]),
               last  |-> Published[opened] % Byte]
    BY ONLY <1>7 DEF Send
  <2>5. sm' \in [smlen : Nat, last : Seed] BY ONLY <2>2, <2>3, <2>4
  <2> QED BY <1>7, <2>5 DEF Send, tree, signer, verifier, Steps
<1>8. CASE crypto_sign_open
  <2>1. /\ sm.last = Published[opened] /\ ~(sm.last > MAX_PUBLISHED_SEEDS)
        /\ sm.smlen - LESS_SIGNATURE_SIZE(sm.last) = mlen
    BY <1>8, Opening DEF crypto_sign_open
  <2>2. recovered' \in [Rounds -> Seed \union {NoSeed}]
    BY <1>8, <2>1 DEF crypto_sign_open, RS!Recover
  <2> QED BY <1>8, <2>1, <2>2 DEF crypto_sign_open, RS!Recover, signer, Steps
<1>9. CASE VerifyOpened
  <2>1. i \in Rounds /\ i + 1 \in 1 .. T + 1 BY <1>9 DEF VerifyOpened, Rounds
  <2>2. i \in opened BY <1>9, <2>1 DEF VerifyOpened, ChallengeInv, Late
  <2>3. recovered[i] \in Seed BY <1>9, <2>1, <2>2 DEF VerifyOpened, PhaseInv
  <2>4. recomputed' \in Seq((Rounds \X Seed) \union {WrongCode})
    BY <1>9, <2>1, <2>3 DEF VerifyOpened
  <2> QED BY <1>9, <2>1, <2>4 DEF VerifyOpened, tree, signer
<1>10. CASE VerifyNoForm BY <1>10 DEF VerifyNoForm, Return, tree, signer, verifier, Steps
<1>11. CASE VerifyClosed
  <2>1. i \in Rounds /\ i + 1 \in 1 .. T + 1 BY <1>11 DEF VerifyClosed, Rounds
  <2>2. /\ employed_monoms + 1 \in 1 .. W
        /\ recomputed' = Append(recomputed, <<i, linearized_rounds_seeds[i]>>)
    BY <1>11, NextResponse DEF VerifyClosed
  <2>3. recomputed' \in Seq((Rounds \X Seed) \union {WrongCode}) BY <2>1, <2>2
  <2> QED BY <1>11, <2>1, <2>2, <2>3 DEF VerifyClosed, tree, signer
<1>12. CASE CompareDigests BY <1>12 DEF CompareDigests, Return, tree, signer, verifier, Steps
<1> QED
  BY <1>1, <1>2, <1>3, <1>4, <1>5, <1>6, <1>7, <1>8, <1>9, <1>10, <1>11, <1>12
  DEF Next, Sign, Verify

LEMMA PhaseStep == ASSUME IInv, Next PROVE PhaseInv'
<1> USE DEF IInv, PhaseInv
<1>1. CASE SampleSeeds BY <1>1 DEF SampleSeeds, RS!Generate
<1>2. CASE Commit \/ Retry \/ SkipRound \/ Respond \/ Send
  BY <1>2 DEF Commit, Retry, SkipRound, Respond, Send, tree
<1>3. CASE Challenge BY <1>3 DEF Challenge, RS!Open
<1>4. CASE crypto_sign_open
  BY <1>4, Opening DEF crypto_sign_open, RS!Recover
<1>5. CASE VerifyOpened \/ VerifyNoForm \/ VerifyClosed \/ CompareDigests
  BY <1>5 DEF VerifyOpened, VerifyNoForm, VerifyClosed, CompareDigests, Return, tree
<1> QED BY <1>1, <1>2, <1>3, <1>4, <1>5 DEF Next, Sign, Verify

\* After the challenge nothing changes what the signer committed to.
LEMMA SignerFrame ==
  ASSUME Next, step \notin {"seeds", "commit"}
  PROVE  /\ seeds' = seeds /\ opened' = opened
         /\ linearized_rounds_seeds' = linearized_rounds_seeds /\ pi_tilde' = pi_tilde
         /\ state' = state /\ fixed_weight_string' = fixed_weight_string
         /\ step' \notin {"seeds", "commit"}
<1>1. CASE SkipRound \/ Respond \/ Send
  BY <1>1 DEF SkipRound, Respond, Send, tree, signer
<1>2. CASE crypto_sign_open
  BY <1>2 DEF crypto_sign_open, Return, RS!Recover, tree, signer
<1>3. CASE VerifyOpened \/ VerifyNoForm \/ VerifyClosed \/ CompareDigests
  BY <1>3 DEF VerifyOpened, VerifyNoForm, VerifyClosed, CompareDigests, Return, tree, signer
<1> QED
  BY <1>1, <1>2, <1>3
  DEF Next, Sign, Verify, SampleSeeds, Commit, Retry, Challenge

LEMMA CommitStep == ASSUME IInv, Next PROVE CommitInv'
<1> USE SizesAssumption DEF IInv, TypeOK, CommitInv, HashedOnce
<1>1. CASE SampleSeeds BY <1>1 DEF SampleSeeds, PhaseInv
<1>2. CASE Commit
  <2>1. /\ i \in Rounds /\ Len(state) = i - 1 /\ step = "commit" BY <1>2 DEF Commit, Rounds
  <2>2. /\ state' = Append(state, <<i, linearized_rounds_seeds[i]>>)
        /\ pi_tilde' = [pi_tilde EXCEPT ![i] = linearized_rounds_seeds[i]]
        /\ linearized_rounds_seeds' = linearized_rounds_seeds /\ i' = i + 1 /\ step' = step
        /\ HasForm(i, linearized_rounds_seeds[i])
    BY <1>2 DEF Commit
  <2>3. Len(state') = i BY <2>1, <2>2
  <2>4. ASSUME NEW r \in 1 .. i
        PROVE  /\ state'[r] = <<r, linearized_rounds_seeds[r]>>
               /\ HasForm(r, linearized_rounds_seeds[r])
               /\ pi_tilde'[r] = linearized_rounds_seeds[r]
    <3>1. CASE r = i BY <2>1, <2>2, <3>1
    <3>2. CASE r # i
      <4>1. r \in 1 .. Len(state) BY <2>1, <3>2
      <4>2. state'[r] = state[r] /\ pi_tilde'[r] = pi_tilde[r] BY <2>1, <2>2, <3>2, <4>1
      <4> QED BY <4>1, <4>2
    <3> QED BY <3>1, <3>2
  <2> QED BY <2>1, <2>2, <2>3, <2>4
<1>3. CASE Retry
  <2>1. /\ i \in Rounds /\ Len(state) = i - 1 BY <1>3 DEF Retry, Rounds
  <2>2. \A r \in 1 .. i - 1 : /\ pi_tilde'[r] = pi_tilde[r]
                              /\ linearized_rounds_seeds'[r] = linearized_rounds_seeds[r]
    BY <1>3, <2>1 DEF Retry
  <2> QED BY <1>3, <2>1, <2>2 DEF Retry
<1>4. CASE Challenge BY <1>4 DEF Challenge
<1>5. CASE step \notin {"seeds", "commit"} BY <1>5, SignerFrame
<1> QED BY <1>1, <1>2, <1>3, <1>4, <1>5 DEF Next, Sign, Verify, SkipRound, Respond, Send,
           crypto_sign_open, VerifyOpened, VerifyNoForm, VerifyClosed, CompareDigests

LEMMA RetryStep == ASSUME IInv, Next PROVE RetryInv'
<1> USE SizesAssumption DEF IInv, TypeOK, RetryInv, Retried
<1>1. CASE SampleSeeds BY <1>1 DEF SampleSeeds
<1>2. CASE Commit \/ Challenge BY <1>2 DEF Commit, Challenge, RS!Open, tree
<1>3. CASE Retry
  <2>1. i \in Rounds BY <1>3 DEF Retry, Rounds
  <2>2. seeds' = seeds /\ step = "commit" BY <1>3 DEF Retry, tree
  <2>3. \A r \in Rounds \ {i} : linearized_rounds_seeds'[r] = linearized_rounds_seeds[r]
    BY <1>3 DEF Retry
  <2>4. ~HasForm(i, seeds[i])
    BY <1>3, <2>1 DEF Retry
  <2> QED BY <2>1, <2>2, <2>3, <2>4
<1>4. CASE step \notin {"seeds", "commit"} BY <1>4, SignerFrame
<1> QED BY <1>1, <1>2, <1>3, <1>4 DEF Next, Sign, Verify, SkipRound, Respond, Send,
           crypto_sign_open, VerifyOpened, VerifyNoForm, VerifyClosed, CompareDigests

LEMMA ChallengeStep == ASSUME IInv, Next PROVE ChallengeInv'
<1> USE DEF IInv, ChallengeInv, Late
<1>1. CASE Challenge BY <1>1 DEF Challenge
<1>2. CASE SampleSeeds \/ Commit \/ Retry BY <1>2 DEF SampleSeeds, Commit, Retry
<1>3. CASE step \notin {"seeds", "commit"} BY <1>3, SignerFrame DEF TypeOK, Steps
<1> QED BY <1>1, <1>2, <1>3 DEF Next, Sign, Verify, SkipRound, Respond, Send,
           crypto_sign_open, VerifyOpened, VerifyNoForm, VerifyClosed, CompareDigests

LEMMA RespondStep == ASSUME IInv, Next PROVE RespondInv'
<1> USE SizesAssumption DEF IInv, TypeOK, RespondInv, Late
<1>1. CASE SampleSeeds \/ Commit \/ Retry BY <1>1 DEF SampleSeeds, Commit, Retry
<1>2. CASE Challenge
  <2>1. step' = "respond" /\ i' = 1 /\ cf_monom_actions' = <<>> BY <1>2 DEF Challenge
  <2>2. Place(0)' = 0 /\ Closed(0)' = {}
    <3>1. Closed(0)' = {} BY DEF Closed
    <3> QED BY <3>1, FS_EmptySet DEF Place
  <2> QED BY <2>1, <2>2
<1>3. CASE SkipRound \/ Respond
  <2>1. /\ i \in 1 .. T /\ i - 1 \in Nat /\ (i - 1) + 1 = i /\ step = "respond"
        /\ step' = step /\ i' = i + 1
        /\ fixed_weight_string' = fixed_weight_string
        /\ linearized_rounds_seeds' = linearized_rounds_seeds
    BY <1>3 DEF SkipRound, Respond, signer
  <2>2. /\ \A n : Closed(n)' = Closed(n) /\ Place(n)' = Place(n)
        /\ \A r : Response(r)' = Response(r)
    BY <2>1 DEF Place, Closed, Response
  <2>3. Len(cf_monom_actions) = Place(i - 1) /\ Place(i - 1) \in Nat BY <2>1, PlaceStep
  <2>4. CASE SkipRound
    <3>1. Place(i) = Place(i - 1) /\ Closed(i) = Closed(i - 1)
      <4>1. i \in Nat \ {0} /\ fixed_weight_string[i] = 0 BY <2>1, <2>4 DEF SkipRound
      <4> QED BY ONLY <4>1, PlaceAt
    <3> QED BY <2>1, <2>2, <2>3, <2>4, <3>1 DEF SkipRound, signer
  <2>5. CASE Respond
    <3>1. Place(i) = Place(i - 1) + 1 /\ Closed(i) = Closed(i - 1) \cup {i}
      <4>1. i \in Nat \ {0} /\ fixed_weight_string[i] # 0 BY <2>1, <2>5 DEF Respond
      <4> QED BY ONLY <4>1, PlaceAt
    <3>2. pi_tilde[i] = linearized_rounds_seeds[i]
      BY <2>1 DEF CommitInv, HashedOnce
    <3>3. cf_monom_actions' = Append(cf_monom_actions, Response(i))
      BY <2>5, <3>2 DEF Respond, Response
    <3>4. Len(cf_monom_actions') = Place(i) BY <2>3, <3>1, <3>3
    <3>5. ASSUME NEW r \in Closed(i) PROVE cf_monom_actions'[Place(r)] = Response(r)
      <4>1. CASE r = i BY <2>3, <3>1, <3>3, <4>1
      <4>2. CASE r # i
        <5>1. r \in Closed(i - 1) BY <3>1, <4>2
        <5>2. Place(r) \in 1 .. Len(cf_monom_actions) BY <2>1, <2>3, <5>1, PlaceRange
        <5>3. cf_monom_actions[Place(r)] = Response(r) BY <2>1, <5>1
        <5> QED BY <3>3, <5>2, <5>3
      <4> QED BY <4>1, <4>2
    <3> QED BY <2>1, <2>2, <3>4, <3>5
  <2> QED BY <1>3, <2>4, <2>5
<1>4. CASE Send \/ (Next /\ step \in {"sent", "verify", "returned"})
  <2>1. /\ step \notin {"seeds", "commit"} /\ cf_monom_actions' = cf_monom_actions
        /\ step' \in {"sent", "verify", "returned"}
    BY <1>4 DEF Next, Sign, Verify, SampleSeeds, Commit, Retry, Challenge, SkipRound, Respond,
       Send, crypto_sign_open, VerifyOpened, VerifyNoForm, VerifyClosed, CompareDigests, Return,
       signer
  <2>2. /\ fixed_weight_string' = fixed_weight_string
        /\ linearized_rounds_seeds' = linearized_rounds_seeds
    BY <2>1, SignerFrame
  <2>3. /\ Closed(T)' = Closed(T)
        /\ \A r : Place(r)' = Place(r) /\ Response(r)' = Response(r)
    BY <2>2 DEF Place, Closed, Response
  <2>4. CASE Send
    <3>1. i = T + 1 /\ step = "respond" BY <2>4 DEF Send
    <3>2. Place(T) = W BY <3>1, AllPlaces
    <3> QED BY <2>1, <2>3, <3>1, <3>2
  <2>5. CASE step \in {"sent", "verify", "returned"} BY <2>1, <2>3, <2>5
  <2> QED BY <1>4, <2>4, <2>5
<1> QED BY <1>1, <1>2, <1>3, <1>4 DEF Next, Sign, Verify, crypto_sign_open, VerifyOpened,
           VerifyNoForm, VerifyClosed, CompareDigests

LEMMA SentStep == ASSUME IInv, Next PROVE SentInv'
<1> USE DEF IInv, SentInv, MessageFound
<1>1. CASE SampleSeeds \/ Commit \/ Retry \/ Challenge \/ SkipRound \/ Respond
  BY <1>1 DEF SampleSeeds, Commit, Retry, Challenge, SkipRound, Respond, PhaseInv
<1>2. CASE Send
  <2>1. opened \in SUBSET Rounds BY DEF TypeOK
  <2>2. Published[opened] % Byte = Published[opened] BY <2>1, LastByte
  <2> QED BY <1>2, <2>2 DEF Send, tree, LESS_SIGNATURE_SIZE
<1>3. CASE crypto_sign_open BY <1>3, Opening DEF crypto_sign_open
<1>4. CASE VerifyOpened \/ VerifyNoForm \/ VerifyClosed \/ CompareDigests
  BY <1>4 DEF VerifyOpened, VerifyNoForm, VerifyClosed, CompareDigests, Return, verifier
<1> QED BY <1>1, <1>2, <1>3, <1>4 DEF Next, Sign, Verify

LEMMA VerifyStep == ASSUME IInv, Next PROVE VerifyInv'
<1> USE SizesAssumption DEF IInv, TypeOK, VerifyInv, SameTranscript
<1>1. CASE Sign
  <2>1. /\ recomputed' = recomputed /\ employed_monoms' = employed_monoms
        /\ step' \notin {"verify", "returned"} /\ step \notin {"verify", "returned"}
    BY <1>1 DEF Sign, SampleSeeds, Commit, Retry, Challenge, SkipRound, Respond, Send, verifier
  <2> QED BY <2>1
<1>2. CASE crypto_sign_open
  <2>1. /\ step = "sent" /\ step' = "verify" /\ i' = 1 /\ recomputed' = <<>>
        /\ employed_monoms' = 0
    BY <1>2, Opening DEF crypto_sign_open
  <2>2. Place(0)' = 0
    <3>1. Closed(0)' = {} BY DEF Closed
    <3> QED BY <3>1, FS_EmptySet DEF Place
  <2> QED BY <2>1, <2>2
<1>3. CASE VerifyOpened \/ VerifyClosed
  <2>1. /\ i \in Rounds /\ i - 1 \in Nat /\ (i - 1) + 1 = i /\ step = "verify" /\ step' = step
        /\ i' = i + 1
    BY <1>3 DEF VerifyOpened, VerifyClosed, Rounds
  <2>2. /\ seeds' = seeds /\ opened' = opened /\ state' = state
        /\ linearized_rounds_seeds' = linearized_rounds_seeds
        /\ fixed_weight_string' = fixed_weight_string
    BY <1>3, <2>1, SignerFrame
  <2>3. Retried' = Retried /\ \A n : Place(n)' = Place(n) BY <2>2 DEF Retried, Place, Closed
  <2>4. /\ state[i] = <<i, linearized_rounds_seeds[i]>> /\ Len(state) = T
    BY <2>1 DEF CommitInv, HashedOnce, Rounds
  <2>5. i \in opened <=> fixed_weight_string[i] = 0 BY <2>1 DEF ChallengeInv, Late
  <2>6. Len(recomputed) = i - 1 BY <2>1
  <2>7. ASSUME recomputed' = Append(recomputed, <<i, linearized_rounds_seeds[i]>>),
               employed_monoms' = Place(i),
               \A r \in 1 .. i : r \in opened => r \notin Retried
        PROVE  VerifyInv'
    <3>1. <<i, linearized_rounds_seeds[i]>> \in (Rounds \X Seed) \union {WrongCode} BY <2>1
    <3>2. \A r \in 1 .. i - 1 : recomputed[r] = state[r] BY <2>1
    <3>3. Len(recomputed') = i /\ \A r \in 1 .. i : recomputed'[r] = state[r]
      <4>1. recomputed \in Seq((Rounds \X Seed) \union {WrongCode}) /\ i \in Nat \ {0} BY <2>1
      <4> QED BY ONLY <2>4, <2>6, <2>7, <3>1, <3>2, <4>1, AppendSame
    <3>4. i' - 1 = i BY <2>1
    <3>5. Place(i - 1)' = Place(i) BY <2>2, <3>4 DEF Place, Closed
    <3>6. step' = "verify" BY <2>1
    <3> QED BY <2>2, <2>3, <2>7, <3>3, <3>4, <3>5, <3>6
  <2>8. CASE VerifyOpened
    <3>1. recomputed' = Append(recomputed, <<i, recovered[i]>>) /\ HasForm(i, recovered[i])
          /\ employed_monoms' = employed_monoms
      BY <2>8 DEF VerifyOpened
    <3>2. recovered[i] = seeds[i]
      BY <2>1, <2>5, <2>8 DEF VerifyOpened, PhaseInv
    <3>3. i \notin Retried BY <2>1, <3>1, <3>2 DEF RetryInv
    <3>4. linearized_rounds_seeds[i] = seeds[i] BY <2>1, <3>3 DEF Retried
    <3>5. Place(i) = Place(i - 1) BY <2>1, <2>8, PlaceStep DEF VerifyOpened
    <3>6. recomputed' = Append(recomputed, <<i, linearized_rounds_seeds[i]>>)
      BY <3>1, <3>2, <3>4
    <3>7. \A r \in 1 .. i : r \in opened => r \notin Retried
      <4>1. \A r \in 1 .. i - 1 : r \in opened => r \notin Retried BY <2>1
      <4>2. \A r \in 1 .. i : r \in 1 .. i - 1 \/ r = i BY <2>1
      <4> QED BY ONLY <4>1, <4>2, <3>3
    <3> QED BY <2>7, <3>1, <3>5, <3>6, <3>7, <2>1, <2>3
  <2>9. CASE VerifyClosed
    <3>1. /\ recomputed' = Append(recomputed, <<i, linearized_rounds_seeds[i]>>)
          /\ employed_monoms' = Place(i)
      BY <2>1, <2>9, NextResponse DEF VerifyClosed
    <3>2. \A r \in 1 .. i : r \in opened => r \notin Retried
      <4>1. \A r \in 1 .. i - 1 : r \in opened => r \notin Retried BY <2>1
      <4>2. i \notin opened BY <2>5, <2>9 DEF VerifyClosed
      <4>3. \A r \in 1 .. i : r \in 1 .. i - 1 \/ r = i BY <2>1
      <4> QED BY ONLY <4>1, <4>2, <4>3
    <3> QED BY <2>7, <3>1, <3>2, <2>1, <2>3
  <2> QED BY <1>3, <2>8, <2>9
<1>4. CASE VerifyNoForm \/ CompareDigests
  <2>1. /\ recomputed' = recomputed /\ i' = i /\ state' = state /\ step' = "returned"
        /\ step = "verify"
    BY <1>4 DEF VerifyNoForm, CompareDigests, Return, verifier, signer
  <2> QED BY <2>1
<1> QED BY <1>1, <1>2, <1>3, <1>4 DEF Next, Verify

LEMMA ResultStep == ASSUME IInv, Next PROVE ResultInv'
<1> USE SizesAssumption DEF IInv, ResultInv, AcceptedUnlessOpened
<1>1. CASE Sign
  BY <1>1 DEF Sign, SampleSeeds, Commit, Retry, Challenge, SkipRound, Respond, Send
<1>2. CASE crypto_sign_open BY <1>2, Opening DEF crypto_sign_open
<1>3. CASE VerifyOpened \/ VerifyClosed BY <1>3 DEF VerifyOpened, VerifyClosed
<1>4. CASE VerifyNoForm
  <2>1. /\ i \in Rounds /\ step = "verify" /\ step' = "returned" /\ ok' = "rejected"
    BY <1>4 DEF VerifyNoForm, Return, TypeOK, Rounds
  <2>2. i \in opened BY <1>4, <2>1 DEF VerifyNoForm, ChallengeInv, Late
  <2>3. recovered[i] = seeds[i] /\ ~HasForm(i, seeds[i])
    BY <1>4, <2>1, <2>2 DEF VerifyNoForm, PhaseInv
  <2>4. HasForm(i, linearized_rounds_seeds[i])
    BY <2>1 DEF CommitInv, HashedOnce, Rounds
  <2>5. i \in Retried BY <2>1, <2>3, <2>4 DEF Retried
  <2>6. Retried' = Retried /\ opened' = opened BY <2>1, SignerFrame DEF Retried
  <2> QED BY <2>1, <2>2, <2>5, <2>6
<1>5. CASE CompareDigests
  <2>1. step = "verify" /\ step' = "returned" /\ i = T + 1
    BY <1>5 DEF CompareDigests, Return, TypeOK
  <2>2. recomputed = state
    <3>1. Len(recomputed) = T /\ Len(state) = T
      BY <2>1 DEF VerifyInv, SameTranscript, CommitInv, HashedOnce
    <3>2. \A r \in 1 .. T : recomputed[r] = state[r]
      BY <2>1 DEF VerifyInv, SameTranscript
    <3>3. recomputed \in Seq((Rounds \X Seed) \union {WrongCode}) /\ state \in Seq(Rounds \X Seed)
      BY DEF TypeOK
    <3> QED BY <3>1, <3>2, <3>3
  <2>3. opened_mlen = mlen BY <2>1 DEF SentInv, MessageFound
  <2>4. ok' = "accepted" BY <1>5, <2>2, <2>3 DEF CompareDigests, Return
  <2>5. opened \cap Retried = {}
    <3>1. 1 .. i - 1 = Rounds BY <2>1, SizesAssumption DEF Rounds
    <3>2. \A r \in Rounds : r \in opened => r \notin Retried BY <2>1, <3>1 DEF VerifyInv
    <3> QED BY <3>2 DEF Retried
  <2>6. Retried' = Retried /\ opened' = opened BY <2>1, SignerFrame DEF Retried
  <2> QED BY <2>1, <2>4, <2>5, <2>6
<1> QED BY <1>1, <1>2, <1>3, <1>4, <1>5 DEF Next, Verify

-----------------------------------------------------------------------------
(* The theorems *)

\* Whatever matrices lack a canonical form and whatever the challenge is, IInv
\* holds throughout a signature and its verification.
THEOREM Invariance == Spec => []IInv
<1>1. Init => IInv BY Initially
<1>2. IInv /\ [Next]_vars => IInv'
  <2> SUFFICES ASSUME IInv, [Next]_vars PROVE IInv'
    OBVIOUS
  <2>1. CASE Next
    BY <2>1, TypeStep, PhaseStep, CommitStep, RetryStep, ChallengeStep, RespondStep, SentStep,
       VerifyStep, ResultStep
    DEF IInv
  <2>2. CASE UNCHANGED vars
    <3> USE <2>2 DEF IInv, vars, tree, signer, verifier
    <3>1. TypeOK' BY DEF TypeOK
    <3>2. PhaseInv' /\ CommitInv' /\ RetryInv'
      BY DEF PhaseInv, CommitInv, HashedOnce, RetryInv, Retried
    <3>3. ChallengeInv' BY DEF ChallengeInv, Late
    <3>4. RespondInv' BY DEF RespondInv, Late, Closed, Place, Response
    <3>5. SentInv' BY DEF SentInv, MessageFound
    <3>6. VerifyInv' BY DEF VerifyInv, SameTranscript, Place, Closed, Retried
    <3>7. ResultInv' BY DEF ResultInv, AcceptedUnlessOpened, Retried
    <3> QED BY <3>1, <3>2, <3>3, <3>4, <3>5, <3>6, <3>7
  <2> QED BY <2>1, <2>2
<1> QED BY <1>1, <1>2, PTL DEF Spec

\* An honest signature is rejected if and only if the challenge opens a round
\* that LESS_sign had to do again.
THEOREM AcceptedUnlessOpenedCorrect == Spec => []AcceptedUnlessOpened
<1>1. IInv => AcceptedUnlessOpened BY DEF IInv, ResultInv
<1> QED BY <1>1, Invariance, PTL

\* As far as it gets, the verifier hashes what the signer hashed.
THEOREM SameTranscriptCorrect == Spec => []SameTranscript
<1>1. IInv => SameTranscript BY DEF IInv, VerifyInv
<1> QED BY <1>1, Invariance, PTL

\* The array of responses does not overflow and is full when it is sent.
THEOREM AllEmittedCorrect == Spec => []AllEmitted
<1>1. IInv => AllEmitted
  <2> SUFFICES ASSUME IInv PROVE AllEmitted
    OBVIOUS
  <2>1. step = "sent" => Len(cf_monom_actions) = W BY DEF IInv, RespondInv, Late
  <2>2. CASE step = "respond"
    <3>1. i - 1 \in 0 .. T /\ T \in Nat BY SizesAssumption DEF IInv, TypeOK
    <3>2. Place(i - 1) <= Place(T) BY <3>1, PlaceMonotone
    <3>3. Place(T) = W BY <2>2, AllPlaces DEF IInv, Late
    <3> QED BY <2>1, <2>2, <3>2, <3>3 DEF AllEmitted, IInv, RespondInv
  <2>3. CASE step # "respond"
    BY <2>1, <2>3, SizesAssumption DEF AllEmitted, IInv, RespondInv, Late
  <2> QED BY <2>2, <2>3
<1> QED BY <1>1, Invariance, PTL

\* crypto_sign_open finds the message that was signed.
THEOREM MessageFoundCorrect == Spec => []MessageFound
<1>1. IInv => MessageFound BY DEF IInv, SentInv
<1> QED BY <1>1, Invariance, PTL

\* However often a round is done again, it is hashed once, and with the seed
\* that gave it a canonical form.
THEOREM HashedOnceCorrect == Spec => []HashedOnce
<1>1. IInv => HashedOnce BY DEF IInv, CommitInv
<1> QED BY <1>1, Invariance, PTL

\* Rounds, responses and first bytes stay within their arrays and types.
THEOREM TypeCorrect == Spec => []TypeOK
<1>1. IInv => TypeOK BY DEF IInv
<1> QED BY <1>1, Invariance, PTL
=============================================================================
