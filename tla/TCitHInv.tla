------------------------------ MODULE TCitHInv -------------------------------
(***************************************************************************)
(* The inductive invariant of TCitH: what is true in the middle of the     *)
(* loops over the counters, over the hidden leaves, of the search and of   *)
(* partial_expand.  TCitH_proof proves it.                                 *)
(***************************************************************************)
EXTENDS TCitH

(* Sets of nodes *)

Closed(S) == \A n \in S \ {0} : parent(n) \in S

\* The nodes outside of a set whose parents are inside: the cover of some
\* leaves is the frontier of what hides them.
Frontier(D) == {n \in TreeNodes \ D : n # 0 /\ parent(n) \in D}

\* The nodes from v up to n, without n.
Climbed(v, n) == Ancestors[v] \ Ancestors[n]
SiblingsOf(P) == {sibling(p) : p \in P}

(* The counters *)

\* The signer is at the first counter of one of the batches.
AtBatch == \E b, c \in Nat : /\ Counters = 0 .. b * SHAKE_STEP - 1
                             /\ ctr = c * SHAKE_STEP /\ c < b

ViewInv ==
  /\ shake \in Oracles /\ ctr \in Counters /\ step \in 0 .. SHAKE_STEP
  /\ pc \in {"expand", "step", "sign_list"} => AtBatch
  /\ pc = "sign_list" => step < SHAKE_STEP

PsiOf(view) == [x \in Repetitions |-> psi(view.i_star[x], x)]

Signed == pc \in {"signed", "verify_list", "partial_expand", "verified", "rejected"}

\* Up to the counter the signer is at, none was acceptable; the hidden leaves
\* are those of the counter.
ChosenInv ==
  /\ pc \in {"expand", "step", "sign_list"} =>
       \A c \in 0 .. ctr + step - 1 : ~Acceptable(shake[c])
  /\ pc = "sign_list" => Candidate.v_grinding = "zero" /\ psi_i_star = PsiOf(Candidate)
  /\ Signed => /\ Acceptable(shake[ctr]) /\ psi_i_star = PsiOf(shake[ctr])
               /\ \A c \in 0 .. ctr - 1 : ~Acceptable(shake[c])

(* The list *)

Sorted(s) == \A p, q \in DOMAIN s : p <= q => s[p] <= s[q]

\* The list is in order, and the bounds of the search are in it.
ListInv ==
  /\ psi_i_star \in [Repetitions -> TreeLeaves]
  /\ path_indexes \in Seq(TreeNodes) /\ Sorted(path_indexes)
  /\ e \in 0 .. TAU /\ node \in TreeNodes
  /\ l \in 0 .. Len(path_indexes) /\ r \in -1 .. Len(path_indexes) - 1

\* A node that is in the list has not been passed over.
SearchInv ==
  Listing => \A p \in DOMAIN path_indexes : path_indexes[p] = node => p - 1 \in l .. r

Earlier  == Hiding({psi_i_star[x] : x \in 0 .. e - 1})
LeafNode == LEAVES_SEEDS_OFFSET + psi_i_star[e]

\* The list has the cover of the leaves so far and the siblings on the way up
\* from the next one.  This way is outside of what hides the others.
CoverInv ==
  pc \notin {"expand", "step", "full"} =>
    /\ \A x, y \in Repetitions : psi_i_star[x] = psi_i_star[y] => x = y
    /\ Increasing(path_indexes)
    /\ pc \notin {"sign_list", "verify_list"} => e = TAU
    /\ e = TAU => ToSet(path_indexes) = Frontier(Earlier)
    /\ e < TAU => /\ node \in Ancestors[LeafNode] /\ node \notin Earlier
                  /\ Climbed(LeafNode, node) \intersect Earlier = {}
                  /\ ToSet(path_indexes)
                       = Frontier(Earlier) \union SiblingsOf(Climbed(LeafNode, node))

(* The room in the list *)

\* The leaves so far brought at most d nodes each, and the leaf that is being
\* worked on as many as it has been climbed up from the height d.
RoomInv(h, d) ==
  /\ pc # "full"
  /\ e < TAU => Len(path_indexes) + h[node] <= (e + 1) * d

(* The seeds *)

IsTree(t) ==
  /\ t \in [TreeNodes -> Seed]
  /\ \A n \in InnerNodes : /\ t[child_0(n)] = ExpandSeed[<<t[n], n>>][1]
                           /\ t[child_1(n)] = ExpandSeed[<<t[n], n>>][2]

BlankLeaves == [leaf \in TreeLeaves |-> NoSeed]

SeedInv ==
  IF pc = "expand" THEN seeds = BlankLeaves ELSE IsTree(tree) /\ seeds = get_leaves(tree)

PathOf(s) == [x \in Slots |-> IF x < Len(s) THEN tree[s[x + 1]] ELSE NoSeed]

\* The path has the seeds of the cover, in order, and no seed of an attempt
\* that was given up.
PathInv ==
  /\ pc \in {"expand", "step", "sign_list"} => path = EmptyPath
  /\ Signed => \E s \in Seq(TreeNodes) :
                 /\ Increasing(s) /\ ToSet(s) = Cover(Hidden) /\ Len(s) <= T_OPEN
                 /\ path = PathOf(s)
                 /\ pc # "signed" => path_length = Len(s)

(* The verifier's tree *)

\* Nodes whose parents have been passed have the signer's seeds, and those that
\* hide a leaf have none; the nodes of the path are in order of their parents.
PartialInv ==
  /\ pc \notin {"partial_expand", "verified"} =>
       partial_tree = [n \in TreeNodes |-> NoSeed] /\ valid = {} /\ k = 0 /\ i = 0
  /\ pc # "verified" => recovered = BlankLeaves
  /\ pc = "partial_expand" =>
       /\ i \in 0 .. TREE_LEAVES - 1 /\ k \in 0 .. Len(path_indexes)
       /\ \A p \in DOMAIN path_indexes : p <= k <=> parent(path_indexes[p]) < i
       /\ IF k < Len(path_indexes) THEN parent_node = parent(path_indexes[k + 1])
                                   ELSE parent_node \notin i .. TREE_LEAVES - 1
       /\ partial_tree \in [TreeNodes -> Seed \union {NoSeed}]
       /\ valid \subseteq TreeNodes \ Hiding(Hidden)
       /\ \A n \in Hiding(Hidden) : partial_tree[n] = NoSeed
       /\ \A n \in TreeNodes \ Hiding(Hidden) :
            parent(n) < i => /\ partial_tree[n] = tree[n]
                             /\ n \in InnerNodes => n \in valid
  /\ pc = "verified" =>
       recovered = [leaf \in TreeLeaves |-> IF leaf \in Hidden THEN NoSeed ELSE seeds[leaf]]
  /\ pc # "rejected"

Inv == ViewInv /\ ChosenInv /\ ListInv /\ SearchInv /\ CoverInv /\ SeedInv /\ PathInv /\ PartialInv
=============================================================================
