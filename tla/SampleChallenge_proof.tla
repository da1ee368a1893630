----------------------- MODULE SampleChallenge_proof -----------------------
(***************************************************************************)
(* Proofs about SampleChallenge, for strings of any length and weight and  *)
(* any number of key pairs, whatever the digest expands to.                *)
(***************************************************************************)
EXTENDS SampleChallengeInv, FiniteSetTheorems, TLAPS

(* Bits *)

\* A buffer is divided into draws.
LEMMA DrawsFit ==
  ASSUME NEW b \in Nat, NEW k \in 1 .. b
  PROVE  b \div k \in 0 .. b /\ (b \div k) * k <= b
<1>1. b \div k \in Nat /\ b \div k <= b OBVIOUS
<1>2. (b \div k) * k <= b OBVIOUS
<1> QED BY <1>1, <1>2

\* A draw leaves bits for those after it.
LEMMA DrawsLeft ==
  ASSUME NEW n \in Nat \ {0}, NEW k \in Nat, NEW u \in Nat, n * k <= u
  PROVE  k <= u /\ (n - 1) * k <= u - k
<1>1. n * k = (n - 1) * k + k OBVIOUS
<1>2. (n - 1) * k \in Nat OBVIOUS
<1> QED BY <1>1, <1>2

\* Dropping bits leaves less.
LEMMA Dropped ==
  ASSUME NEW b \in Nat, NEW x \in 0 .. b - 1, NEW m \in Nat \ {0}
  PROVE  x \div m \in 0 .. b - 1
<1>1. x \in Nat /\ x <= b - 1 OBVIOUS
<1>2. x \div m \in Nat /\ x \div m <= x BY <1>1
<1> QED BY <1>1, <1>2

\* What Draw does to the buffer.
LEMMA DrawStep ==
  ASSUME TypeOK, NEW k \in 1 .. BufferBits, 2^k \in Nat \ {0}, Draw(k)
  PROVE  rnd_buf' \in Buffers /\ c' \in 0 .. BufferBits /\ unread' \in 0 .. BufferBits
<1>1. rnd_buf' \in Buffers BY Dropped, MaskAssumption DEF Draw, TypeOK, Buffers
<1>2. c' \in 0 .. BufferBits BY MaskAssumption DEF Draw, TypeOK
<1>3. unread' \in 0 .. BufferBits BY MaskAssumption DEF Draw, TypeOK
<1> QED BY <1>1, <1>2, <1>3

\* What Refill does to it.
LEMMA RefillStep ==
  ASSUME TypeOK, NEW k \in 1 .. BufferBits, Refill(k)
  PROVE  /\ rnd_buf' \in Buffers /\ c' \in 0 .. BufferBits /\ unread' \in 0 .. BufferBits
         /\ c' * k <= unread'
BY DrawsFit, MaskAssumption DEF Refill, Draws, TypeOK

-----------------------------------------------------------------------------
(* Weight *)

LEMMA ClosedFinite == IsFiniteSet(Closed) /\ Cardinality(Closed) \in Nat
<1>1. IsFiniteSet(Rounds) BY SampleAssumption, FS_Interval DEF Rounds
<1>2. IsFiniteSet(Closed) BY <1>1, FS_Subset DEF Closed
<1> QED BY <1>2, FS_CardinalityType

\* Swapping two elements of which one is not 0 changes no weight.
LEMMA SwapStep ==
  ASSUME NEW p \in Rounds, NEW q \in Rounds,
         fixed_weight_string \in [Rounds -> Nat], fixed_weight_string[p] # 0,
         fixed_weight_string' = [fixed_weight_string EXCEPT ![p] = fixed_weight_string[q],
                                                            ![q] = fixed_weight_string[p]]
  PROVE  Cardinality(Closed)' = Cardinality(Closed)
<1>1. CASE fixed_weight_string[q] # 0
  <2>1. Closed' = Closed BY <1>1 DEF Closed
  <2> QED BY <2>1
<1>2. CASE fixed_weight_string[q] = 0
  <2>1. Closed' = (Closed \ {p}) \cup {q} BY <1>2 DEF Closed
  <2>2. p \in Closed /\ q \notin Closed BY <1>2 DEF Closed
  <2>3. /\ IsFiniteSet(Closed \ {p})
        /\ Cardinality(Closed \ {p}) = Cardinality(Closed) - 1
    BY <2>2, ClosedFinite, FS_RemoveElement
  <2>4. q \notin Closed \ {p} BY <2>2
  <2>5. Cardinality((Closed \ {p}) \cup {q}) = Cardinality(Closed \ {p}) + 1
    BY <2>3, <2>4, FS_AddElement
  <2> QED BY <2>1, <2>3, <2>5, ClosedFinite
<1> QED BY <1>1, <1>2

-----------------------------------------------------------------------------
LEMMA Initially == Init => IInv
BY SampleAssumption, MaskAssumption
DEF Init, IInv, TypeOK, IndexInv, KeysInv, PositionsInv, BitsInv

LEMMA ClearStep == ASSUME IInv, Clear PROVE IInv'
<1> USE SampleAssumption DEF IInv, Clear
<1>1. TypeOK' BY DEF TypeOK, Rounds
<1>2. IndexInv' BY DEF IndexInv
<1>3. KeysInv' BY DEF KeysInv, TypeOK, Rounds
<1>4. PositionsInv' BY DEF PositionsInv
<1>5. BitsInv' BY MaskAssumption DEF BitsInv, IndexInv, TypeOK
<1> QED BY <1>1, <1>2, <1>3, <1>4, <1>5

LEMMA RefillsStep == ASSUME IInv, RefillKeys \/ RefillPositions PROVE IInv'
<1>1. step' = step /\ i' = i /\ fixed_weight_string' = fixed_weight_string /\ step # "clear"
  BY DEF RefillKeys, RefillPositions, Refill, DrawingKeys, DrawingPositions
<1>2. TypeOK'
  <2>1. rnd_buf' \in Buffers /\ c' \in 0 .. BufferBits /\ unread' \in 0 .. BufferBits
    BY RefillStep, MaskAssumption DEF RefillKeys, RefillPositions, IInv
  <2> QED BY <1>1, <2>1 DEF IInv, TypeOK
<1>3. IndexInv' /\ KeysInv' /\ PositionsInv'
  BY <1>1 DEF IInv, IndexInv, KeysInv, PositionsInv, Closed
<1>4. BitsInv'
  <2>1. CASE RefillKeys BY <2>1, RefillStep, MaskAssumption DEF RefillKeys, IInv, BitsInv
  <2>2. CASE RefillPositions
    BY <1>1, <2>2 DEF RefillPositions, DrawingPositions, BitsInv
  <2> QED BY <2>1, <2>2
<1> QED BY <1>2, <1>3, <1>4 DEF IInv

\* The first loop.
LEMMA KeyStep == ASSUME IInv, AcceptKey \/ RejectKey \/ OneKey PROVE IInv'
<1>1. /\ step = "keys" /\ step' = "keys" /\ i \in T - W .. T - 1 /\ i \in Rounds
  BY SampleAssumption
  DEF AcceptKey, RejectKey, OneKey, DrawingKeys, IInv, IndexInv, TypeOK, Rounds
<1>2. /\ rnd_buf' \in Buffers /\ c' \in 0 .. BufferBits /\ unread' \in 0 .. BufferBits
      /\ c' * KeyBits <= unread'
  <2>1. CASE AcceptKey \/ RejectKey
    <3>1. Draw(KeyBits) BY <2>1 DEF AcceptKey, RejectKey
    <3>2. /\ rnd_buf' \in Buffers /\ c' \in 0 .. BufferBits /\ unread' \in 0 .. BufferBits
      BY <3>1, DrawStep, MaskAssumption DEF IInv
    <3>3. c \in Nat \ {0} /\ KeyBits \in Nat /\ unread \in Nat /\ c * KeyBits <= unread
      BY <1>1, <3>1, MaskAssumption DEF IInv, TypeOK, BitsInv, Draw
    <3>4. KeyBits <= unread /\ (c - 1) * KeyBits <= unread - KeyBits
      BY ONLY <3>3, DrawsLeft
    <3>5. c' = c - 1 /\ unread' = unread - KeyBits BY <3>1, <3>3, <3>4 DEF Draw
    <3> QED BY <3>2, <3>4, <3>5
  <2>2. CASE OneKey BY <1>1, <2>2 DEF OneKey, IInv, TypeOK, BitsInv
  <2> QED BY <2>1, <2>2
<1>3. CASE RejectKey
  <2>1. i' = i /\ fixed_weight_string' = fixed_weight_string BY <1>3 DEF RejectKey
  <2> QED BY <1>1, <1>2, <2>1
          DEF IInv, TypeOK, IndexInv, KeysInv, PositionsInv, BitsInv
<1>4. CASE AcceptKey \/ OneKey
  <2>1. PICK key \in 1 .. NUM_KEYPAIRS - 1 :
          fixed_weight_string' = [fixed_weight_string EXCEPT ![i] = key]
    <3>1. CASE AcceptKey
      <4>1. Value \in Nat BY MaskAssumption DEF Value, IInv, TypeOK, Buffers
      <4>2. Value + 1 \in 1 .. NUM_KEYPAIRS - 1
        BY <3>1, <4>1, SampleAssumption DEF AcceptKey, KeyRejected
      <4> QED BY <3>1, <4>2 DEF AcceptKey
    <3>2. CASE OneKey BY <3>2, SampleAssumption DEF OneKey
    <3> QED BY <1>4, <3>1, <3>2
  <2>2. i' = i + 1 BY <1>4 DEF AcceptKey, OneKey
  <2>3. TypeOK'
    BY <1>1, <1>2, <2>1, <2>2, SampleAssumption DEF IInv, TypeOK, Rounds
  <2>4. IndexInv' BY <1>1, <2>2, SampleAssumption DEF IndexInv
  <2>5. KeysInv'
    <3>1. \A r \in 0 .. T - W - 1 : fixed_weight_string'[r] = 0
      BY <1>1, <2>1, SampleAssumption DEF IInv, TypeOK, KeysInv, Rounds
    <3>2. ASSUME NEW r \in T - W .. i PROVE fixed_weight_string'[r] \in 1 .. NUM_KEYPAIRS - 1
      <4>1. CASE r = i BY <1>1, <2>1, <4>1 DEF IInv, TypeOK
      <4>2. CASE r # i
        <5>1. r \in T - W .. i - 1 BY <1>1, <4>2, SampleAssumption
        <5>2. fixed_weight_string[r] \in 1 .. NUM_KEYPAIRS - 1 BY <1>1, <5>1 DEF IInv, KeysInv
        <5>3. fixed_weight_string'[r] = fixed_weight_string[r]
          BY <1>1, <2>1, <4>2, <5>1, SampleAssumption DEF IInv, TypeOK, Rounds
        <5> QED BY <5>2, <5>3
      <4> QED BY <4>1, <4>2
    <3>3. i' - 1 = i BY <1>1, <2>2
    <3> QED BY <3>1, <3>2, <3>3 DEF KeysInv
  <2>6. PositionsInv' /\ BitsInv' BY <1>1, <1>2 DEF PositionsInv, BitsInv
  <2> QED BY <2>3, <2>4, <2>5, <2>6 DEF IInv
<1> QED BY <1>3, <1>4

LEMMA KeysDoneStep == ASSUME IInv, KeysDone PROVE IInv'
<1>1. /\ step = "keys" /\ i = T /\ step' = "positions" /\ i' = T - W
      /\ fixed_weight_string' = fixed_weight_string
  BY DEF KeysDone
<1>2. TypeOK' /\ IndexInv' /\ KeysInv' /\ BitsInv'
  BY <1>1, SampleAssumption DEF KeysDone, IInv, TypeOK, IndexInv, KeysInv, BitsInv
<1>3. /\ \A r \in 0 .. T - W - 1 : fixed_weight_string[r] = 0
      /\ \A r \in T - W .. T - 1 : fixed_weight_string[r] \in 1 .. NUM_KEYPAIRS - 1
  BY <1>1 DEF IInv, KeysInv
<1>4. fixed_weight_string \in [Rounds -> 0 .. NUM_KEYPAIRS - 1]
  <2>1. \A r \in Rounds : r \in 0 .. T - W - 1 \/ r \in T - W .. T - 1
    BY SampleAssumption DEF Rounds
  <2>2. \A r \in Rounds : fixed_weight_string[r] \in 0 .. NUM_KEYPAIRS - 1
    BY <1>3, <2>1, SampleAssumption
  <2> QED BY <2>2 DEF IInv, TypeOK
<1>5. Cardinality(Closed) = W
  <2>1. Closed = T - W .. T - 1 BY <1>3, SampleAssumption DEF Closed, Rounds
  <2>2. Cardinality(T - W .. T - 1) = W BY FS_Interval, SampleAssumption
  <2> QED BY <2>1, <2>2
<1>6. PositionsInv' BY <1>1, <1>3, <1>4, <1>5 DEF PositionsInv, Closed
<1> QED BY <1>2, <1>6 DEF IInv

\* The second loop.
LEMMA PositionStep == ASSUME IInv, AcceptPosition \/ RejectPosition PROVE IInv'
<1>1. /\ step = "positions" /\ step' = "positions" /\ i \in T - W .. T - 1 /\ i \in Rounds
      /\ Draw(PositionBits)
  BY SampleAssumption
  DEF AcceptPosition, RejectPosition, DrawingPositions, IInv, IndexInv, TypeOK, Rounds
<1>2. /\ rnd_buf' \in Buffers /\ c' \in 0 .. BufferBits /\ unread' \in 0 .. BufferBits
  BY <1>1, DrawStep, MaskAssumption DEF IInv
<1>3. KeysInv' /\ BitsInv' BY <1>1 DEF KeysInv, BitsInv
<1>4. CASE RejectPosition
  <2>1. i' = i /\ fixed_weight_string' = fixed_weight_string BY <1>4 DEF RejectPosition
  <2> QED BY <1>1, <1>2, <1>3, <2>1 DEF IInv, TypeOK, IndexInv, PositionsInv, Closed
<1>5. CASE AcceptPosition
  <2>1. /\ i' = i + 1
        /\ fixed_weight_string' =
             [fixed_weight_string EXCEPT ![i]   = fixed_weight_string[Pos],
                                         ![Pos] = fixed_weight_string[i]]
    BY <1>5 DEF AcceptPosition
  <2>2. Pos \in Nat BY MaskAssumption, SampleAssumption DEF Pos, IInv, TypeOK, Buffers
  <2>3. Pos \in Rounds /\ Pos <= i
    BY <1>1, <1>5, <2>2, SampleAssumption DEF AcceptPosition, Rounds
  <2>4. /\ fixed_weight_string \in [Rounds -> 0 .. NUM_KEYPAIRS - 1]
        /\ fixed_weight_string \in [Rounds -> Nat]
        /\ \A r \in i .. T - 1 : fixed_weight_string[r] # 0
        /\ Cardinality(Closed) = W
    BY <1>1 DEF IInv, TypeOK, PositionsInv
  <2>5. fixed_weight_string' \in [Rounds -> 0 .. NUM_KEYPAIRS - 1]
    BY <1>1, <2>1, <2>3, <2>4
  <2>6. Cardinality(Closed)' = W
    <3>1. fixed_weight_string[i] # 0 BY <1>1, <2>4
    <3> QED BY <1>1, <2>1, <2>3, <2>4, <3>1, SwapStep
  <2>7. \A r \in i + 1 .. T - 1 : fixed_weight_string'[r] # 0
    <3> SUFFICES ASSUME NEW r \in i + 1 .. T - 1 PROVE fixed_weight_string'[r] # 0
      OBVIOUS
    <3>1. r # i /\ r # Pos /\ r \in Rounds /\ r \in i .. T - 1
      BY <1>1, <2>3, SampleAssumption DEF Rounds
    <3>2. fixed_weight_string'[r] = fixed_weight_string[r] BY <2>1, <2>4, <3>1
    <3> QED BY <2>4, <3>1, <3>2
  <2>8. TypeOK'
    <3>1. fixed_weight_string' \in [Rounds -> Nat] BY <1>1, <2>1, <2>3, <2>4
    <3>2. i' \in 0 .. T BY <1>1, <2>1, SampleAssumption
    <3> QED BY <1>1, <1>2, <3>1, <3>2 DEF TypeOK
  <2>9. IndexInv' BY <1>1, <2>1, SampleAssumption DEF IndexInv
  <2>10. PositionsInv' BY <2>1, <2>5, <2>6, <2>7 DEF PositionsInv
  <2> QED BY <1>3, <2>8, <2>9, <2>10 DEF IInv
<1> QED BY <1>4, <1>5

LEMMA DoneStep == ASSUME IInv, Done PROVE IInv'
BY DEF Done, IInv, TypeOK, IndexInv, KeysInv, PositionsInv, BitsInv, Closed

-----------------------------------------------------------------------------
(* The theorems *)

\* Whatever is drawn, IInv holds throughout both loops.
THEOREM Invariance == Spec => []IInv
<1>1. Init => IInv BY Initially
<1>2. IInv /\ [Next]_vars => IInv'
  <2> SUFFICES ASSUME IInv, [Next]_vars PROVE IInv'
    OBVIOUS
  <2>1. CASE Next
    BY <2>1, ClearStep, RefillsStep, KeyStep, KeysDoneStep, PositionStep, DoneStep
    DEF Next, Keys, Positions
  <2>2. CASE UNCHANGED vars
    BY <2>2 DEF vars, IInv, TypeOK, IndexInv, KeysInv, PositionsInv, BitsInv, Closed
  <2> QED BY <2>1, <2>2
<1> QED BY <1>1, <1>2, PTL DEF Spec

\* The challenge has W elements other than 0, all of them numbers of key pairs.
THEOREM FixedWeightCorrect == Spec => []FixedWeight
<1>1. IInv => FixedWeight BY DEF IInv, PositionsInv, FixedWeight
<1> QED BY <1>1, Invariance, PTL

\* The string as LESSSign has it, with rounds counted from 1.
Sampled == [r \in 1 .. T |-> fixed_weight_string[r - 1]]

\* What ChallengesAssumption of LESSSign asks of a challenge.
AsAssumed ==
  step = "done" => /\ Sampled \in [1 .. T -> 0 .. NUM_KEYPAIRS - 1]
                   /\ Cardinality({r \in 1 .. T : Sampled[r] # 0}) = W

\* What LESSSign assumes of a challenge, SampleChallenge gives: signing responds to
\* as many rounds as the signature has room for.
THEOREM ChallengesAreSampled == Spec => []AsAssumed
<1>1. ASSUME IInv, step = "done" PROVE AsAssumed
  <2>1. fixed_weight_string \in [Rounds -> 0 .. NUM_KEYPAIRS - 1] /\ Cardinality(Closed) = W
    BY <1>1 DEF IInv, PositionsInv
  <2>2. \A r \in 1 .. T : r - 1 \in Rounds BY SampleAssumption DEF Rounds
  <2>3. \A q \in Rounds : q + 1 \in 1 .. T /\ (q + 1) - 1 = q BY SampleAssumption DEF Rounds
  <2>4. Sampled \in [1 .. T -> 0 .. NUM_KEYPAIRS - 1] BY <2>1, <2>2 DEF Sampled
  <2> DEFINE from == {r \in 1 .. T : Sampled[r] # 0}
             down == [r \in from |-> r - 1]
  <2>5. \A r \in 1 .. T : r \in from <=> r - 1 \in Closed BY <2>2 DEF Sampled, Closed
  <2>6. ExistsBijection(from, Closed)
    <3>1. down \in [from -> Closed] BY <2>5
    <3>2. \A r1, r2 \in from : down[r1] = down[r2] => r1 = r2 OBVIOUS
    <3>3. ASSUME NEW q \in Closed PROVE \E r \in from : down[r] = q
      <4>1. q \in Rounds BY DEF Closed
      <4>2. q + 1 \in from /\ down[q + 1] = q BY <2>3, <2>5, <4>1
      <4> QED BY <4>2
    <3>4. down \in Bijection(from, Closed)
      BY <3>1, <3>2, <3>3 DEF Bijection, Injection, IsInjective, Surjection
    <3> QED BY <3>4 DEF ExistsBijection
  <2>7. IsFiniteSet(from)
    <3>1. IsFiniteSet(1 .. T) BY SampleAssumption, FS_Interval
    <3> QED BY <3>1, FS_Subset
  <2>8. Cardinality(from) = Cardinality(Closed) BY <2>6, <2>7, FS_Bijection
  <2> QED BY <2>4, <2>8, <2>1 DEF AsAssumed
<1>2. IInv => AsAssumed BY <1>1 DEF AsAssumed
<1> QED BY <1>2, Invariance, PTL

\* No element is drawn from bits that were used.
THEOREM KeysAreFreshCorrect == Spec => []KeysAreFresh
<1>1. IInv => KeysAreFresh
  <2> SUFFICES ASSUME IInv, step = "keys", c # 0 PROVE unread >= KeyBits
    BY DEF KeysAreFresh
  <2>1. c \in Nat \ {0} /\ KeyBits \in Nat /\ unread \in Nat /\ c * KeyBits <= unread
    BY MaskAssumption DEF IInv, TypeOK, BitsInv
  <2>2. KeyBits <= unread BY ONLY <2>1, DrawsLeft
  <2> QED BY <2>1, <2>2
<1> QED BY <1>1, Invariance, PTL

\* If a POSITION_T holds every masked value, each swap is with a position that
\* was drawn as it is, and not beyond the element.
THEOREM RejectionIsExactCorrect ==
  ASSUME POSITION_MASK < POSITION_T PROVE Spec => RejectionIsExact
<1>1. ASSUME IInv, Next, step = "positions", i' # i
      PROVE  rnd_buf % (POSITION_MASK + 1) <= i
  <2>1. AcceptPosition
    BY <1>1 DEF Next, Clear, Keys, RefillKeys, AcceptKey, RejectKey, OneKey, KeysDone, DrawingKeys,
                Positions, RefillPositions, Refill, RejectPosition, Done
  <2>2. rnd_buf \in Nat /\ POSITION_MASK \in Nat /\ POSITION_T \in Nat
    BY <1>1, MaskAssumption, SampleAssumption DEF IInv, TypeOK, Buffers
  <2>3. rnd_buf % (POSITION_MASK + 1) \in 0 .. POSITION_MASK BY <2>2
  <2>4. Pos = rnd_buf % (POSITION_MASK + 1) BY <2>2, <2>3 DEF Pos
  <2> QED BY <2>1, <2>4 DEF AcceptPosition
<1>2. IInv /\ [Next]_vars => [step = "positions" /\ i' # i => rnd_buf % (POSITION_MASK + 1) <= i]_vars
  BY <1>1
<1> QED BY <1>2, Invariance, PTL DEF Spec, RejectionIsExact

\* Both loops use the same rnd_buf and c, and no refill stands between them.
\* That is harmless if the first loop draws nothing, as in SPECK, which has two
\* key pairs, and if a position takes no more bits than an element.  LESS has
\* parameter sets with neither.
THEOREM PositionsAreFreshCorrect ==
  ASSUME NUM_KEYPAIRS = 2 \/ PositionBits <= KeyBits PROVE Spec => []PositionsAreFresh
<1> DEFINE Bits == /\ (NUM_KEYPAIRS = 2 /\ step \in {"clear", "keys"}) => c = 0
                   /\ step = "positions" => c * PositionBits <= unread
<1>1. Init => Bits BY DEF Init
<1>2. ASSUME IInv, Bits, [Next]_vars PROVE Bits'
  <2>0. c \in Nat /\ unread \in Nat /\ KeyBits \in Nat /\ PositionBits \in Nat
    BY <1>2, MaskAssumption DEF IInv, TypeOK
  <2>1. CASE Clear BY <1>2, <2>1 DEF Clear
  <2>2. CASE RefillKeys \/ AcceptKey \/ RejectKey
    BY <1>2, <2>2 DEF RefillKeys, AcceptKey, RejectKey, DrawingKeys, Refill
  <2>3. CASE OneKey BY <1>2, <2>3 DEF OneKey
  <2>4. CASE KeysDone
    <3>1. step = "keys" /\ step' = "positions" /\ c' = c /\ unread' = unread
      BY <2>4 DEF KeysDone
    <3>2. CASE NUM_KEYPAIRS = 2
      <4>1. c = 0 BY <1>2, <3>1, <3>2
      <4>2. c * PositionBits = 0 BY <2>0, <4>1
      <4> QED BY <2>0, <3>1, <4>2, <3>2
    <3>3. CASE PositionBits <= KeyBits
      <4>1. c * KeyBits <= unread BY <1>2, <3>1 DEF IInv, BitsInv
      <4>2. c * PositionBits <= c * KeyBits BY <2>0, <3>3
      <4>3. c * PositionBits \in Nat /\ c * KeyBits \in Nat BY <2>0
      <4>4. c * PositionBits <= unread BY <2>0, <4>1, <4>2, <4>3
      <4> QED BY <3>1, <4>4
    <3> QED BY <3>2, <3>3
  <2>5. CASE RefillPositions
    <3>1. step = "positions" /\ step' = step /\ Refill(PositionBits)
      BY <2>5 DEF RefillPositions, DrawingPositions, Refill
    <3>2. c' * PositionBits <= unread' BY <1>2, <3>1, RefillStep, MaskAssumption DEF IInv
    <3> QED BY <3>1, <3>2
  <2>6. CASE AcceptPosition \/ RejectPosition
    <3>1. step = "positions" /\ step' = step /\ Draw(PositionBits)
      BY <2>6 DEF AcceptPosition, RejectPosition, DrawingPositions
    <3>2. c \in Nat \ {0} /\ c * PositionBits <= unread BY <1>2, <2>0, <3>1 DEF Draw
    <3>3. PositionBits <= unread /\ (c - 1) * PositionBits <= unread - PositionBits
      BY ONLY <2>0, <3>2, DrawsLeft
    <3>4. c' = c - 1 /\ unread' = unread - PositionBits BY <2>0, <3>1, <3>3 DEF Draw
    <3>5. c' * PositionBits <= unread' BY <3>3, <3>4
    <3> QED BY <3>1, <3>5
  <2>7. CASE Done BY <2>7 DEF Done
  <2>8. CASE UNCHANGED vars BY <1>2, <2>8 DEF vars
  <2> QED BY <1>2, <2>1, <2>2, <2>3, <2>4, <2>5, <2>6, <2>7, <2>8 DEF Next, Keys, Positions
<1>3. ASSUME IInv, Bits PROVE PositionsAreFresh
  <2> SUFFICES ASSUME step = "positions", c # 0 PROVE unread >= PositionBits
    BY DEF PositionsAreFresh
  <2>1. /\ c \in Nat \ {0} /\ PositionBits \in Nat /\ unread \in Nat
        /\ c * PositionBits <= unread
    BY <1>3, MaskAssumption DEF IInv, TypeOK
  <2>2. PositionBits <= unread BY ONLY <2>1, DrawsLeft
  <2> QED BY <2>1, <2>2
<1>4. IInv /\ Bits /\ [Next]_vars => Bits' BY <1>2
<1>5. IInv /\ Bits => PositionsAreFresh BY <1>3
<1> QED BY <1>1, <1>4, <1>5, Invariance, PTL DEF Spec

\* Indices stay in the string, and no loop counts past it.
THEOREM TypeCorrect == Spec => []TypeOK
<1>1. IInv => TypeOK BY DEF IInv
<1> QED BY <1>1, Invariance, PTL
=============================================================================
