-------------------------- MODULE SampleChallenge --------------------------
(***************************************************************************)
(* SampleChallenge of SPECK and LESS: a digest becomes a string with W     *)
(* elements other than 0.  They are drawn and put at the end of the        *)
(* string, then each is swapped with an element at a position that is      *)
(* drawn by rejection sampling.                                            *)
(*                                                                         *)
(* Random bits come 64 at a time in rnd_buf, of which c draws are left.    *)
(* Both loops use the same rnd_buf and c.                                  *)
(***************************************************************************)
EXTENDS Integers, FiniteSets

CONSTANTS T,            \* length of the string
          W,            \* its weight
          NUM_KEYPAIRS, \* its elements are less than this
          BufferBits,   \* bits of rnd_buf, 64 in the code
          POSITION_T,   \* values of that type: 256 in SPECK, 65536 in LESS
          Garbage       \* what the string may hold before

BITS_TO_REPRESENT(n) ==
  CHOOSE b \in 1 .. n + 1 : n < 2^b /\ \A d \in 1 .. b - 1 : 2^d <= n

MAX_KEYPAIR_INDEX == NUM_KEYPAIRS - 1
KeyBits      == BITS_TO_REPRESENT(MAX_KEYPAIR_INDEX)
PositionBits == BITS_TO_REPRESENT(T - 1)

KEYPAIR_INDEX_MASK == 2^KeyBits - 1
POSITION_MASK      == 2^PositionBits - 1

Rounds  == 0 .. T - 1
Buffers == 0 .. 2^BufferBits - 1

ASSUME SampleAssumption ==
  /\ T \in Nat \ {0} /\ W \in 0 .. T /\ NUM_KEYPAIRS \in Nat \ {0, 1}
  /\ POSITION_T \in Nat \ {0} /\ Garbage \subseteq Nat

\* Bits, masks and buffers have the sizes they should have.
ASSUME MaskAssumption ==
  /\ BufferBits \in Nat /\ KeyBits \in 1 .. BufferBits /\ PositionBits \in 1 .. BufferBits
  /\ KEYPAIR_INDEX_MASK \in Nat /\ POSITION_MASK \in Nat
  /\ 2^KeyBits \in Nat \ {0} /\ 2^PositionBits \in Nat \ {0} /\ 2^BufferBits \in Nat \ {0}

VARIABLES
  step,                \* "clear", then "keys" and "positions" for the two loops, then "done"
  i,                   \* their index, p in the second loop
  fixed_weight_string,
  rnd_buf,
  c,                   \* draws that are left in rnd_buf
  unread               \* history: bits of rnd_buf that are left

vars == <<step, i, fixed_weight_string, rnd_buf, c, unread>>

Init ==
  /\ step = "clear" /\ i = 0
  /\ \E g \in Garbage : fixed_weight_string = [r \in Rounds |-> g]
  /\ rnd_buf \in Buffers /\ c = 0 /\ unread = 0

\* The first elements are 0.
Clear ==
  /\ step = "clear"
  /\ fixed_weight_string' =
       [r \in Rounds |-> IF r < T - W THEN 0 ELSE fixed_weight_string[r]]
  /\ step' = "keys" /\ i' = T - W
  /\ UNCHANGED <<rnd_buf, c, unread>>

\* Mutant: the last bits are not enough for the last draw.
DrawsRoundedUp(bits) == (BufferBits + bits - 1) \div bits

Draws(bits) == BufferBits \div bits

Refill(bits) ==
  /\ c = 0
  /\ rnd_buf' \in Buffers
  /\ c' = Draws(bits) /\ unread' = BufferBits
  /\ UNCHANGED <<step, i, fixed_weight_string>>

\* The low bits are dropped once they were drawn.
Draw(bits) ==
  /\ c # 0
  /\ rnd_buf' = rnd_buf \div 2^bits
  /\ c' = c - 1
  /\ unread' = IF unread < bits THEN 0 ELSE unread - bits

\* The value & KEYPAIR_INDEX_MASK, and the position, which is put into a POSITION_T.
Value == rnd_buf % (KEYPAIR_INDEX_MASK + 1)
Pos   == (rnd_buf % (POSITION_MASK + 1)) % POSITION_T

-----------------------------------------------------------------------------
(* The elements *)

\* Mutant: an off-by-one.
KeyRejectedLate == Value >= NUM_KEYPAIRS

KeyRejected == Value >= NUM_KEYPAIRS - 1

DrawingKeys == step = "keys" /\ NUM_KEYPAIRS # 2 /\ i < T

RefillKeys == DrawingKeys /\ Refill(KeyBits)

AcceptKey ==
  /\ DrawingKeys /\ ~KeyRejected
  /\ Draw(KeyBits)
  /\ fixed_weight_string' = [fixed_weight_string EXCEPT ![i] = Value + 1]
  /\ i' = i + 1
  /\ UNCHANGED step

RejectKey ==
  /\ DrawingKeys /\ KeyRejected
  /\ Draw(KeyBits)
  /\ UNCHANGED <<step, i, fixed_weight_string>>

\* There is nothing to draw.
OneKey ==
  /\ step = "keys" /\ NUM_KEYPAIRS = 2 /\ i < T
  /\ fixed_weight_string' = [fixed_weight_string EXCEPT ![i] = 1]
  /\ i' = i + 1
  /\ UNCHANGED <<step, rnd_buf, c, unread>>

KeysDone ==
  /\ step = "keys" /\ i = T
  /\ step' = "positions" /\ i' = T - W
  /\ UNCHANGED <<fixed_weight_string, rnd_buf, c, unread>>

-----------------------------------------------------------------------------
(* The positions *)

DrawingPositions == step = "positions" /\ i < T

RefillPositions == DrawingPositions /\ Refill(PositionBits)

\* Mutant: nothing is rejected that is in the string.
AcceptPositionInString ==
  /\ DrawingPositions /\ Pos < T
  /\ Draw(PositionBits)
  /\ fixed_weight_string' =
       [fixed_weight_string EXCEPT ![i]   = fixed_weight_string[Pos],
                                   ![Pos] = fixed_weight_string[i]]
  /\ i' = i + 1
  /\ UNCHANGED step

AcceptPosition ==
  /\ DrawingPositions /\ Pos <= i
  /\ Draw(PositionBits)
  /\ fixed_weight_string' =
       [fixed_weight_string EXCEPT ![i]   = fixed_weight_string[Pos],
                                   ![Pos] = fixed_weight_string[i]]
  /\ i' = i + 1
  /\ UNCHANGED step

\* Mutant: the position is drawn before the loop, and its bits are not dropped in it.
RejectPositionKeeps ==
  /\ DrawingPositions /\ Pos > i /\ c # 0
  /\ UNCHANGED vars

RejectPosition ==
  /\ DrawingPositions /\ Pos > i
  /\ Draw(PositionBits)
  /\ UNCHANGED <<step, i, fixed_weight_string>>

Done ==
  /\ step = "positions" /\ i = T
  /\ step' = "done"
  /\ UNCHANGED <<i, fixed_weight_string, rnd_buf, c, unread>>

Keys      == RefillKeys \/ AcceptKey \/ RejectKey \/ OneKey \/ KeysDone
Positions == RefillPositions \/ AcceptPosition \/ RejectPosition \/ Done

Next == Clear \/ Keys \/ Positions

\* The digest is expanded with SHAKE: bits that would be rejected are not all
\* it ever gives.
RefillAccepted ==
  /\ RefillKeys \/ RefillPositions
  /\ ~KeyRejected' /\ Pos' <= i

Spec == Init /\ [][Next]_vars /\ WF_vars(Next) /\ SF_vars(RefillAccepted)

-----------------------------------------------------------------------------
(* Properties *)

TypeOK ==
  /\ step \in {"clear", "keys", "positions", "done"}
  /\ i \in 0 .. T
  /\ fixed_weight_string \in [Rounds -> Nat]
  /\ rnd_buf \in Buffers /\ c \in 0 .. BufferBits /\ unread \in 0 .. BufferBits

Closed == {r \in Rounds : fixed_weight_string[r] # 0}

\* The string has weight W and its elements are the numbers of key pairs,
\* whatever was in its place before: SampleChallenge supplies what LESSSign
\* assumes of the challenge, and what the array of W responses relies on.
FixedWeight ==
  step = "done" => /\ fixed_weight_string \in [Rounds -> 0 .. NUM_KEYPAIRS - 1]
                   /\ Cardinality(Closed) = W

\* An element is drawn from bits that nothing was drawn from.
KeysAreFresh == step = "keys" /\ c # 0 => unread >= KeyBits

\* The same of a position.
PositionsAreFresh == step = "positions" /\ c # 0 => unread >= PositionBits

\* Each swap is with one of the elements up to it, as drawn under the mask:
\* a position beyond is rejected and none is shortened into one that is not.
RejectionIsExact ==
  [][step = "positions" /\ i' # i => rnd_buf % (POSITION_MASK + 1) <= i]_vars

\* Each loop draws until it has what it needs.
Ends == <>(step = "done")
=============================================================================
