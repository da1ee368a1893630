----------------------------- MODULE SPECKCode ------------------------------
(***************************************************************************)
(* The arithmetic of SPECK over the field with Q elements: rows, matrices  *)
(* of K rows, the reduced row echelon form, permutations of the columns,   *)
(* and the packing of elements of Bits bits into bytes, which have one bit *)
(* more (7 and 8 in the code).  Rows and columns are counted from 0.       *)
(***************************************************************************)
EXTENDS Integers, FiniteSetsExt, Functions

CONSTANTS Q, K, Bits

N     == 2 * K
Field == 0 .. Q - 1

ASSUME FieldAssumption ==
  /\ K \in Nat \ {0} /\ Bits \in Nat \ {0} /\ Q \in Nat /\ Q > 1 /\ Q = 2 ^ Bits - 1
  /\ \A x \in Field \ {0} : \E y \in Field : (x * y) % Q = 1

Rows    == 0 .. K - 1
Columns == 0 .. N - 1
Row     == [Rows -> Field]
Matrix  == [Rows -> Row]

\* fq_inv_table; the inverse of 0 is 0.
fq_inv == [x \in Field |-> IF x = 0 THEN 0 ELSE CHOOSE y \in Field : (x * y) % Q = 1]

\* fq_sqrt_table: the smaller root, or 0 if there is none.
fq_sqrt == [x \in Field |->
              IF \E y \in Field : (y * y) % Q = x
                THEN CHOOSE y \in 0 .. Q \div 2 : (y * y) % Q = x
                ELSE 0]

fq_neg(x) == (Q - x) % Q

row_mul(row, s) == [c \in DOMAIN row |-> (row[c] * s) % Q]

row_sum(out, in, s) == [c \in DOMAIN out |-> (out[c] + in[c] * s) % Q]

inner_prod(a, b) == MapThenSumSet(LAMBDA c : a[c] * b[c], Rows) % Q

\* The first cols elements of the product of the first rows elements of vec
\* with M.
row_mat_mult(vec, M, rows, cols) ==
  [c \in 0 .. cols - 1 |-> MapThenSumSet(LAMBDA r : vec[r] * M[r][c], 0 .. rows - 1) % Q]

\* What anti_normalize multiplies a row with so that its inner product with
\* itself is -1; 0 if nothing does.
normalizer(c) == fq_sqrt[fq_inv[fq_neg(inner_prod(c, c))]]

swap(f, a, b) == [f EXCEPT ![a] = f[b], ![b] = f[a]]

swap_columns(M, a, b) == [r \in DOMAIN M |-> swap(M[r], a, b)]

-----------------------------------------------------------------------------
(* Generator matrices: K rows of N columns *)

\* [I | A].
generator_rref_expand(A) ==
  [r \in Rows |-> [c \in Columns |-> IF c >= K THEN A[r][c - K] ELSE IF c = r THEN 1 ELSE 0]]

permute_generator(G, perm) == [r \in Rows |-> [c \in Columns |-> G[r][perm[c]]]]

\* The places a pivot for row i can be taken from.
Candidates(G, i) == {p \in (i .. N - 1) \X (i .. K - 1) : G[p[2]][p[1]] # 0}

First(S) == CHOOSE p \in S : \A q \in S : p[1] < q[1] \/ (p[1] = q[1] /\ p[2] <= q[2])

\* The matrix with a pivot in row i and no other element in its column.
Eliminate(G, i, p) ==
  LET swapped == swap(G, i, p[2])
      row     == row_mul(swapped[i], fq_inv[swapped[i][p[1]]])
  IN  [r \in Rows |-> IF r = i THEN row
                      ELSE row_sum(swapped[r], row, fq_neg(swapped[r][p[1]]))]

\* The element of S that has n smaller ones.
Nth(S, n) == CHOOSE x \in S : Cardinality({y \in S : y < x}) = n

\* The pivot columns come first.
generate_rref_perm(is_pivot_column) ==
  [c \in Columns |-> IF c < K THEN Nth(is_pivot_column, c)
                     ELSE Nth(Columns \ is_pivot_column, c - K)]

-----------------------------------------------------------------------------
(* Packing *)

PackedBytes(n) == (Bits * n + Bits) \div (Bits + 1)

\* Byte k has what is left of one element, and the low bits of the next in the
\* bits above.
pack(values, n) ==
  [k \in 0 .. PackedBytes(n) - 1 |->
     LET s    == k % Bits
         e    == (k \div Bits) * (Bits + 1) + s
         next == IF e + 1 < n THEN values[e + 1] ELSE 0
     IN  ((values[e] \div 2 ^ s) + next * 2 ^ (Bits - s)) % 2 ^ (Bits + 1)]

unpack(bytes, n) ==
  [e \in 0 .. n - 1 |->
     LET s    == e % (Bits + 1)
         k    == (e \div (Bits + 1)) * Bits + s
         low  == IF s = 0 THEN 0 ELSE bytes[k - 1] \div 2 ^ (Bits + 1 - s)
         high == IF s = Bits THEN 0 ELSE bytes[k] * 2 ^ s
     IN  (low + high) % 2 ^ Bits]

\* The columns without a pivot, row by row.
compress_rref_speck(G, is_pivot_column) ==
  pack([e \in 0 .. K * K - 1 |-> G[e \div K][Nth(Columns \ is_pivot_column, e % K)]], K * K)

expand_to_rref_speck(bytes) ==
  LET values == unpack(bytes, K * K)
  IN  [r \in Rows |-> [c \in Rows |-> values[r * K + c]]]

\* How often each element occurs.
histogram(c1, c2) ==
  [x \in Field |-> Cardinality({c \in DOMAIN c1 : c1[c] = x})
                   + Cardinality({c \in DOMAIN c2 : c2[c] = x})]
=============================================================================
