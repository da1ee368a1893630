-------------------------------- MODULE TCitH --------------------------------
(***************************************************************************)
(* The opening of Mirath and RYDE: mirath_sign and mirath_verify           *)
(* (tcith/mirath_sign.c, tcith/mirath_verify.c; tcith_sign.c and           *)
(* tcith_verify.c of RYDE), from the tree of seeds to the seeds the        *)
(* verifier has.  The signer tries counters, SHAKE_STEP at a time, until   *)
(* one gives a view whose grinding bits are zero and which needs no more   *)
(* than T_OPEN seeds.  The verifier repeats what the counter in the        *)
(* signature says.                                                         *)
(***************************************************************************)
EXTENDS TCitHTree, FiniteSets

CONSTANTS Seed,       \* the seeds that are not zero
          NoSeed,     \* zero bytes
          RootSeed,
          ExpandSeed, \* the block cipher: <<seed, node>> to two seeds
          SHAKE_STEP, \* counters per call of SHAKE
          BATCHES,    \* the bound of this model on the calls of SHAKE
          Oracles     \* what SHAKE may give for each counter: a view

\* SHAKE of the digest and a counter: the hidden leaf of every repetition, and
\* whether the grinding bits are zero.  A model looks at some first counters,
\* which are whole batches; no seed is all zero.
Views == [i_star : [Repetitions -> 0 .. PARAM_N - 1], v_grinding : {"zero", "other"}]
ASSUME TCitHAssumption ==
  /\ NoSeed \notin Seed /\ RootSeed \in Seed
  /\ ExpandSeed \in [Seed \X InnerNodes -> Seed \X Seed]
  /\ SHAKE_STEP \in Nat /\ SHAKE_STEP > 0 /\ BATCHES \in Nat
  /\ \A o \in Oracles : \E b \in 1 .. BATCHES : o \in [0 .. b * SHAKE_STEP - 1 -> Views]

VARIABLES
  pc,
  shake,        \* the view of each counter
  tree, seeds,  \* the signer's
  ctr, step,    \* of the signer; in the signature, ctr
  psi_i_star,   \* the hidden leaves
  path_indexes, \* the list
  e, node,      \* how far the two loops around it are
  l, r,         \* what is left to search in it
  path,         \* the signer's, and in the signature its first T_OPEN seeds
  path_length,
  partial_tree, valid,   \* the verifier's
  k, i, parent_node,     \* its position in the path and in the tree
  recovered

list   == <<path_indexes, e, node, l, r>>
signer == <<tree, seeds, ctr, step>>
rest   == <<partial_tree, valid, k, i, parent_node, recovered>>
vars   == <<pc, shake, signer, psi_i_star, list, path, path_length, rest>>

Slots    == 0 .. MAX_OPEN - 1
EmptyPath == [s \in Slots |-> NoSeed]
Counters == DOMAIN shake

get_leaves(t) == [leaf \in TreeLeaves |-> t[LEAVES_SEEDS_OFFSET + leaf]]

Init ==
  /\ pc = "expand" /\ shake \in Oracles
  /\ tree = [n \in TreeNodes |-> IF n = 0 THEN RootSeed ELSE NoSeed]
  /\ seeds = [leaf \in TreeLeaves |-> NoSeed]
  /\ ctr = 0 /\ step = 0
  /\ psi_i_star = [x \in Repetitions |-> 0]
  /\ path_indexes = <<>> /\ e = 0 /\ node = 0 /\ l = 0 /\ r = -1
  /\ path = EmptyPath /\ path_length = 0
  /\ partial_tree = [n \in TreeNodes |-> NoSeed] /\ valid = {}
  /\ k = 0 /\ i = 0 /\ parent_node = 0
  /\ recovered = [leaf \in TreeLeaves |-> NoSeed]

\* ggm_tree_expand and get_leaves: parents come before their children.
Expand ==
  /\ pc = "expand"
  /\ LET t[n \in TreeNodes] ==
           IF n = 0 THEN RootSeed ELSE ExpandSeed[<<t[parent(n)], parent(n)>>][2 - (n % 2)]
     IN  tree' = [n \in TreeNodes |-> t[n]]
  /\ seeds' = get_leaves(tree')
  /\ pc' = "step"
  /\ UNCHANGED <<shake, ctr, step, psi_i_star, list, path, path_length, rest>>

(* The counters *)

\* Mutant: the batch is not left.
RetryShakeSame ==
  /\ pc = "step" /\ step = SHAKE_STEP /\ ctr + SHAKE_STEP \in Counters
  /\ step' = 0
  /\ UNCHANGED <<pc, shake, ctr, tree, seeds, psi_i_star, list, path, path_length, rest>>

\* SHAKE_STEP counters are used up.
RetryShake ==
  /\ pc = "step" /\ step = SHAKE_STEP /\ ctr + SHAKE_STEP \in Counters
  /\ ctr' = ctr + SHAKE_STEP
  /\ step' = 0
  /\ UNCHANGED <<pc, shake, tree, seeds, psi_i_star, list, path, path_length, rest>>

Candidate == shake[ctr + step]

Discard ==
  /\ pc = "step" /\ step < SHAKE_STEP /\ Candidate.v_grinding # "zero"
  /\ step' = step + 1
  /\ UNCHANGED <<pc, shake, ctr, tree, seeds, psi_i_star, list, path, path_length, rest>>

\* is_in_list is called with the next node.
StartSearch == l' = 0 /\ r' = Len(path_indexes') - 1

Hide(view) ==
  /\ psi_i_star' = [x \in Repetitions |-> psi(view.i_star[x], x)]
  /\ path_indexes' = <<>>
  /\ e' = 0
  /\ node' = LEAVES_SEEDS_OFFSET + psi_i_star'[0]
  /\ StartSearch

GetSiblingPath ==
  /\ pc = "step" /\ step < SHAKE_STEP /\ Candidate.v_grinding = "zero"
  /\ Hide(Candidate)
  /\ pc' = "sign_list"
  /\ UNCHANGED <<shake, signer, path, path_length, rest>>

(* The list, of signer and verifier *)

Listing   == pc \in {"sign_list", "verify_list"} /\ e < TAU /\ node > 0
Middle    == l + (r - l) \div 2
Found     == path_indexes[Middle + 1] = node

\* Mutant: the lower half is searched without its last element.
SearchLoses ==
  /\ Listing /\ l <= r /\ ~Found
  /\ IF path_indexes[Middle + 1] < node
       THEN l' = Middle + 1 /\ UNCHANGED r
       ELSE r' = Middle - 2 /\ UNCHANGED l
  /\ UNCHANGED <<pc, shake, signer, psi_i_star, path_indexes, e, node, path, path_length, rest>>

\* One iteration of the binary search of is_in_list.
Search ==
  /\ Listing /\ l <= r /\ ~Found
  /\ IF path_indexes[Middle + 1] < node
       THEN l' = Middle + 1 /\ UNCHANGED r
       ELSE r' = Middle - 1 /\ UNCHANGED l
  /\ UNCHANGED <<pc, shake, signer, psi_i_star, path_indexes, e, node, path, path_length, rest>>

NextLeaf ==
  /\ e' = e + 1
  /\ node' = IF e + 1 < TAU THEN LEAVES_SEEDS_OFFSET + psi_i_star[e + 1] ELSE 0
  /\ StartSearch

\* A node of the list hides the leaf as well: this part of the tree is no
\* longer given away whole, and everything above is hidden already.
Meet ==
  /\ Listing /\ l <= r /\ Found
  /\ path_indexes' = remove_from_list(path_indexes, Middle)
  /\ NextLeaf
  /\ UNCHANGED <<pc, shake, signer, psi_i_star, path, path_length, rest>>

\* The loop returns -1 if the sibling was not inserted.
Climb ==
  /\ Listing /\ l > r
  /\ path_indexes' = insert_sorted(path_indexes, sibling(node))
  /\ node' = parent(node)
  /\ StartSearch
  /\ pc' = IF Len(path_indexes') = Len(path_indexes) THEN "full" ELSE pc
  /\ UNCHANGED <<shake, signer, psi_i_star, e, path, path_length, rest>>

AtRoot ==
  /\ pc \in {"sign_list", "verify_list"} /\ e < TAU /\ node = 0
  /\ UNCHANGED path_indexes
  /\ NextLeaf
  /\ UNCHANGED <<pc, shake, signer, psi_i_star, path, path_length, rest>>

(* The signature *)

\* Mutants: a path that is too long is left in the buffer; the counter of the
\* batch is signed.
RejectPathUncleared ==
  /\ pc = "sign_list" /\ e = TAU /\ Len(path_indexes) > T_OPEN
  /\ path' = [s \in Slots |-> IF s < Len(path_indexes) THEN tree[path_indexes[s + 1]] ELSE path[s]]
  /\ step' = step + 1
  /\ pc' = "step"
  /\ UNCHANGED <<shake, tree, seeds, ctr, psi_i_star, list, path_length, rest>>
SignBatchCounter ==
  /\ pc = "sign_list" /\ e = TAU /\ Len(path_indexes) <= T_OPEN
  /\ path' = [s \in Slots |-> IF s < Len(path_indexes) THEN tree[path_indexes[s + 1]] ELSE path[s]]
  /\ pc' = "signed"
  /\ UNCHANGED <<shake, tree, seeds, ctr, step, psi_i_star, list, path_length, rest>>

\* What was written to path is cleared again.
RejectPath ==
  /\ pc = "sign_list" /\ e = TAU /\ Len(path_indexes) > T_OPEN
  /\ path' = [s \in Slots |-> IF s < Len(path_indexes) THEN NoSeed ELSE path[s]]
  /\ step' = step + 1
  /\ pc' = "step"
  /\ UNCHANGED <<shake, tree, seeds, ctr, psi_i_star, list, path_length, rest>>

Sign ==
  /\ pc = "sign_list" /\ e = TAU /\ Len(path_indexes) <= T_OPEN
  /\ path' = [s \in Slots |-> IF s < Len(path_indexes) THEN tree[path_indexes[s + 1]] ELSE path[s]]
  /\ ctr' = ctr + step
  /\ pc' = "signed"
  /\ UNCHANGED <<shake, tree, seeds, step, psi_i_star, list, path_length, rest>>

(* mirath_verify *)

\* The view of the counter in the signature, and how many of the T_OPEN seeds
\* of its path are not zero.
CallVerify ==
  /\ pc = "signed"
  /\ Hide(shake[ctr])
  /\ path' = [s \in Slots |-> IF s < T_OPEN THEN path[s] ELSE NoSeed]
  /\ path_length' = Cardinality({s \in 0 .. T_OPEN - 1 : path[s] # NoSeed})
  /\ pc' = "verify_list"
  /\ UNCHANGED <<shake, signer, rest>>

\* The parent of the p-th node of the list; no node, if the list is shorter.
ParentAt(p) == IF p < Len(path_indexes) THEN parent(path_indexes[p + 1]) ELSE TREE_LEAVES

PartialExpand ==
  /\ pc = "verify_list" /\ e = TAU
  /\ parent_node' = ParentAt(0)
  /\ pc' = "partial_expand"
  /\ UNCHANGED <<shake, signer, psi_i_star, list, path, path_length, partial_tree, valid, k, i,
                 recovered>>

\* The next seed of the path.  Validity is only noted for inner nodes.
PlaceSeed ==
  /\ pc = "partial_expand" /\ i < TREE_LEAVES - 1 /\ i = parent_node
  /\ partial_tree' = [partial_tree EXCEPT ![path_indexes[k + 1]] = path[k]]
  /\ valid' = IF i < TREE_LEAVES \div 2 THEN valid \union {path_indexes[k + 1]} ELSE valid
  /\ parent_node' = IF k + 1 < path_length THEN ParentAt(k + 1) ELSE parent_node
  /\ k' = k + 1 /\ i' = i + 1
  /\ UNCHANGED <<pc, shake, signer, psi_i_star, list, path, path_length, recovered>>

Children(s, n) == IF s = NoSeed THEN <<NoSeed, NoSeed>> ELSE ExpandSeed[<<s, n>>]

ExpandValid ==
  /\ pc = "partial_expand" /\ i < TREE_LEAVES - 1 /\ i # parent_node /\ i \in valid
  /\ LET c == Children(partial_tree[i], i)
     IN  partial_tree' = [partial_tree EXCEPT ![child_0(i)] = c[1], ![child_1(i)] = c[2]]
  /\ valid' = IF i < TREE_LEAVES \div 2 THEN valid \union {child_0(i), child_1(i)} ELSE valid
  /\ i' = i + 1
  /\ UNCHANGED <<pc, shake, signer, psi_i_star, list, path, path_length, k, parent_node,
                 recovered>>

SkipNode ==
  /\ pc = "partial_expand" /\ i < TREE_LEAVES - 1 /\ i # parent_node /\ i \notin valid
  /\ i' = i + 1
  /\ UNCHANGED <<pc, shake, signer, psi_i_star, list, path, path_length,
                 partial_tree, valid, k, parent_node, recovered>>

\* 1 is returned if the path was not used up; get_leaves otherwise.
Expanded ==
  /\ pc = "partial_expand" /\ i = TREE_LEAVES - 1
  /\ pc' = IF k = path_length THEN "verified" ELSE "rejected"
  /\ recovered' = IF k = path_length THEN get_leaves(partial_tree) ELSE recovered
  /\ UNCHANGED <<shake, signer, psi_i_star, list, path, path_length, partial_tree, valid, k, i,
                 parent_node>>

Next == \/ Expand \/ RetryShake \/ Discard \/ GetSiblingPath
        \/ Search \/ Meet \/ Climb \/ AtRoot
        \/ RejectPath \/ Sign
        \/ CallVerify \/ PartialExpand \/ PlaceSeed \/ ExpandValid \/ SkipNode \/ Expanded

Spec == Init /\ [][Next]_vars /\ WF_vars(Next)
-----------------------------------------------------------------------------
Hidden == {psi_i_star[x] : x \in Repetitions}
HiddenIn(view) == {psi(view.i_star[x], x) : x \in Repetitions}

\* What the loop over the counters is to find.
Acceptable(view) ==
  view.v_grinding = "zero" /\ Cardinality(Cover(HiddenIn(view))) <= T_OPEN

TypeOK ==
  /\ pc \in {"expand", "step", "sign_list", "full", "signed", "verify_list",
             "partial_expand", "verified", "rejected"}
  /\ shake \in Oracles
  /\ tree \in [TreeNodes -> Seed \union {NoSeed}]
  /\ partial_tree \in [TreeNodes -> Seed \union {NoSeed}]
  /\ seeds \in [TreeLeaves -> Seed \union {NoSeed}]
  /\ recovered \in [TreeLeaves -> Seed \union {NoSeed}]
  /\ ctr \in Counters /\ step \in 0 .. SHAKE_STEP
  /\ psi_i_star \in [Repetitions -> TreeLeaves]
  /\ path_indexes \in Seq(TreeNodes) /\ Len(path_indexes) <= MAX_OPEN
  /\ e \in 0 .. TAU /\ node \in TreeNodes
  /\ l \in 0 .. MAX_OPEN /\ r \in -1 .. MAX_OPEN - 1
  /\ path \in [Slots -> Seed \union {NoSeed}] /\ path_length \in 0 .. T_OPEN
  /\ valid \subseteq TreeNodes /\ k \in 0 .. MAX_OPEN /\ i \in 0 .. TREE_LEAVES - 1
  /\ parent_node \in Nat

\* After every hidden leaf, the list is the cover of the leaves so far: the
\* fewest nodes that give away all other leaves and none of these, in
\* increasing order.  Insertions put nodes in that later ones take out, and
\* binary search finds them only if the order was kept.
ListIsCover ==
  pc \in {"sign_list", "verify_list"} /\ e > 0
    /\ (e = TAU \/ node = LEAVES_SEEDS_OFFSET + psi_i_star[e]) =>
    /\ ToSet(path_indexes) = Cover({psi_i_star[x] : x \in 0 .. e - 1})
    /\ Increasing(path_indexes)

\* A search that ends without a result has not overlooked the node.
SearchIsExact ==
  Listing /\ l > r => \A p \in DOMAIN path_indexes : path_indexes[p] # node

\* While the nodes are inserted, there may be more of them than a signature has
\* room for in the end, but never more than MAX_OPEN: the comment of
\* mirath_ggm_tree.h that experiments suggest twice T_OPEN.
NeverFull == pc # "full"

\* The signed counter is the first one with an acceptable view: neither the
\* batches nor the retries in them skip a counter or take one twice, and the
\* verifier, who knows the counter only, has the signer's view.
FirstAcceptable ==
  pc \in {"signed", "verify_list", "partial_expand", "verified", "rejected"} =>
    /\ Acceptable(shake[ctr])
    /\ \A c \in 0 .. ctr - 1 : ~Acceptable(shake[c])
    /\ Hidden = HiddenIn(shake[ctr])

\* An honest signature passes partial_expand, with the seed of every leaf but
\* the hidden ones.  The verifier counts the seeds of the path by comparing
\* them with zero: what an earlier attempt of the signer leaves behind, or a
\* node it takes for a leaf's, shows here.
RS == INSTANCE RoundSeeds WITH
        Rounds    <- TreeLeaves,
        Openings  <- {TreeLeaves \ HiddenIn(view) : view \in Views},
        phase     <- IF pc = "expand" THEN "generate"
                     ELSE IF pc \in {"step", "sign_list"} THEN "challenge"
                     ELSE IF pc \in {"verified", "rejected"} THEN "done" ELSE "recover",
        opened    <- IF pc \in {"expand", "step", "sign_list"} THEN {}
                     ELSE TreeLeaves \ Hidden
ImplementsRoundSeeds == RS!Safety

\* If there is an acceptable view, a signature with it is made and verified.
Termination == (\E c \in Counters : Acceptable(shake[c])) ~> (pc = "verified")
=============================================================================
