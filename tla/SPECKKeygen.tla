---------------------------- MODULE SPECKKeygen -----------------------------
(***************************************************************************)
(* SPECK_keygen: the code [I | A] is drawn with A anti-orthogonal, row     *)
(* after row; every key pair is a secret permutation of its columns and    *)
(* the reduced generator of the permuted code.                             *)
(*                                                                         *)
(* A row that cannot be normalised is drawn again, which changes nothing:  *)
(* a step is the draw that can.                                            *)
(***************************************************************************)
EXTENDS SPECKCode, Sequences

CONSTANTS NUM_KEYPAIRS,
          Permutations \* what permutation_sample_prikey may draw

ASSUME KeypairsAssumption ==
  /\ NUM_KEYPAIRS \in Nat \ {0}
  /\ \A p \in Permutations : p \in [Columns -> Columns] /\ IsInjective(p)

VARIABLES at,           \* which loop is running
          A,            \* the rows that have been drawn; in the end G_0
          G,            \* their reduced form, whose first columns are those of I
          c,            \* the row that was drawn last
          private_perm, result_G, is_pivot_column, \* of the key that is made
          row,          \* the rows of result_G that have a pivot
          SK_permutations, PK_SF_G \* the private keys, and the public ones, packed

reducing == <<private_perm, result_G, is_pivot_column, row>>
made     == <<SK_permutations, PK_SF_G>>
keys     == <<at, A, G, c, reducing, made>>

kp == Cardinality(DOMAIN A)

InitKeys ==
  /\ at = "draw"
  /\ A = <<>> /\ G = <<>> /\ c = <<>>
  /\ private_perm = <<>> /\ result_G = <<>> /\ is_pivot_column = {} /\ row = 0
  /\ SK_permutations = <<>> /\ PK_SF_G = <<>>

(* antiorthogonal_sample *)

\* Mutant: the first row is not normalised.
DrawFirstUnscaled ==
  /\ at = "draw" /\ kp = 0
  /\ \E drawn \in Row : drawn[0] # 0 /\ c' = drawn
  /\ at' = "place"
  /\ UNCHANGED <<A, G, reducing, made>>

DrawFirst ==
  /\ at = "draw" /\ kp = 0
  /\ \E drawn \in Row :
       /\ drawn[0] # 0 /\ normalizer(drawn) # 0
       /\ c' = row_mul(drawn, normalizer(drawn))
  /\ at' = "place"
  /\ UNCHANGED <<A, G, reducing, made>>

\* The row that ends in u and is orthogonal to those of G.
OrthogonalTo(u) ==
  LET M == [r \in 0 .. K - kp - 1 |-> [j \in 0 .. kp - 1 |-> fq_neg(G[j][r + kp])]]
      v == row_mat_mult(u, M, K - kp, kp)
  IN  [j \in Rows |-> IF j < kp THEN v[j] ELSE u[j - kp]]

DrawNext ==
  /\ at = "draw" /\ kp \in 1 .. K - 1
  /\ \E u \in [0 .. K - kp - 1 -> Field] :
       /\ normalizer(OrthogonalTo(u)) # 0
       /\ c' = row_mul(OrthogonalTo(u), normalizer(OrthogonalTo(u)))
  /\ at' = "place"
  /\ UNCHANGED <<A, G, reducing, made>>

\* Another row below.
AddRow(M, r) == [k \in 0 .. kp |-> IF k = kp THEN r ELSE M[k]]

\* The row with the columns of I cleared: row_sum with each row of G.
Cleared(r) ==
  [j \in Rows |-> (r[j] + MapThenSumSet(LAMBDA k : fq_neg(r[k]) * G[k][j], 0 .. kp - 1)) % Q]

\* The column that is brought to place kp.
PivotOf(r) ==
  LET nonzero == {j \in kp .. K - 1 : r[j] # 0}
  IN  IF nonzero = {} THEN kp ELSE CHOOSE j \in nonzero : \A k \in nonzero : j <= k

\* Mutant: only G's columns are swapped.
PlaceGOnly ==
  /\ at = "place"
  /\ LET p    == PivotOf(Cleared(c))
         G1   == swap_columns(AddRow(G, Cleared(c)), kp, p)
         last == row_mul(G1[kp], fq_inv[G1[kp][kp]])
     IN  /\ A' = AddRow(A, c)
         /\ G' = [k \in 0 .. kp |-> IF k = kp THEN last
                                   ELSE row_sum(G1[k], last, fq_neg(G1[k][kp]))]
  /\ at' = IF kp = K - 1 THEN "permute" ELSE "draw"
  /\ UNCHANGED <<c, reducing, made>>

\* The row is put into A and, reduced, into G; the columns are swapped in both
\* and the new column is cleared above it.
Place ==
  /\ at = "place"
  /\ LET p    == PivotOf(Cleared(c))
         G1   == swap_columns(AddRow(G, Cleared(c)), kp, p)
         last == row_mul(G1[kp], fq_inv[G1[kp][kp]])
     IN  /\ A' = swap_columns(AddRow(A, c), kp, p)
         /\ G' = [k \in 0 .. kp |-> IF k = kp THEN last
                                   ELSE row_sum(G1[k], last, fq_neg(G1[k][kp]))]
  /\ at' = IF kp = K - 1 THEN "permute" ELSE "draw"
  /\ UNCHANGED <<c, reducing, made>>

(* The keys.  G and c are gone with antiorthogonal_sample's frame. *)

Permute ==
  /\ at = "permute" /\ Len(PK_SF_G) < NUM_KEYPAIRS - 1
  /\ private_perm' \in Permutations
  /\ result_G' = permute_generator(generator_rref_expand(A), private_perm')
  /\ is_pivot_column' = {} /\ row' = 0
  /\ G' = <<>> /\ c' = <<>>
  /\ at' = "reduce"
  /\ UNCHANGED <<A, made>>

\* One round of the loop of generator_RREF.
Reduce ==
  /\ at = "reduce" /\ row < K /\ Candidates(result_G, row) # {}
  /\ LET p == First(Candidates(result_G, row))
     IN  /\ result_G' = Eliminate(result_G, row, p)
         /\ is_pivot_column' = is_pivot_column \union {p[1]}
  /\ row' = row + 1
  /\ UNCHANGED <<at, A, G, c, private_perm, made>>

\* Mutant: the permutations are composed the other way round.
StoreKeyReversed ==
  /\ at = "reduce" /\ (row = K \/ Candidates(result_G, row) = {})
  /\ LET rref_perm == generate_rref_perm(is_pivot_column)
     IN  SK_permutations' = Append(SK_permutations, [j \in Columns |-> rref_perm[private_perm[j]]])
  /\ PK_SF_G' = Append(PK_SF_G, compress_rref_speck(result_G, is_pivot_column))
  /\ private_perm' = <<>> /\ result_G' = <<>> /\ is_pivot_column' = {} /\ row' = 0
  /\ at' = "permute"
  /\ UNCHANGED <<A, G, c>>

\* generator_RREF returns, and whether it failed is not looked at.
StoreKey ==
  /\ at = "reduce" /\ (row = K \/ Candidates(result_G, row) = {})
  /\ LET rref_perm == generate_rref_perm(is_pivot_column)
     IN  SK_permutations' = Append(SK_permutations, [j \in Columns |-> private_perm[rref_perm[j]]])
  /\ PK_SF_G' = Append(PK_SF_G, compress_rref_speck(result_G, is_pivot_column))
  /\ private_perm' = <<>> /\ result_G' = <<>> /\ is_pivot_column' = {} /\ row' = 0
  /\ at' = "permute"
  /\ UNCHANGED <<A, G, c>>

Made == at = "permute" /\ Len(PK_SF_G) = NUM_KEYPAIRS - 1

SPECK_keygen == DrawFirst \/ DrawNext \/ Place \/ Permute \/ Reduce \/ StoreKey

-----------------------------------------------------------------------------
(* Properties *)

\* The rows that are drawn are orthogonal to each other and each has norm -1,
\* whatever was drawn and however the columns were swapped: A times its
\* transpose is -I, so the code is its own dual.
Antiorthogonal ==
  at \in {"draw", "permute"} /\ made = <<<<>>, <<>>>> =>
    \A r, s \in DOMAIN A : inner_prod(A[r], A[s]) = IF r = s THEN Q - 1 ELSE 0

\* A codeword of [I | M].
IsCodeword(w, M) == \A j \in Rows : w[K + j] = row_mat_mult(w, M, K, K)[j]

\* A private key leads from the public code G_0 to the public key's: each row
\* of the unpacked key, its columns put back where they were, is in G_0.
KeysAreEquivalent ==
  at = "permute" =>
    \A j \in DOMAIN PK_SF_G :
      LET rows == generator_rref_expand(expand_to_rref_speck(PK_SF_G[j]))
          back == Inverse(SK_permutations[j], Columns, Columns)
      IN  /\ IsInjective(SK_permutations[j])
          /\ \A r \in Rows : IsCodeword([k \in Columns |-> rows[r][back[k]]], A)
=============================================================================
