------------------------------ MODULE SDitHSign -------------------------------
(***************************************************************************)
(* sdith_threshold_nfpr_sign and sdith_threshold_nfpr_sign_verify: in      *)
(* every execution the shares of all parties are committed to and hashed   *)
(* up a Merkle tree; a challenge opens REVEALED parties of each, and the   *)
(* verifier recomputes their commitments and, with the digests of the      *)
(* authentication path, the root.  Which digest of the path belongs where  *)
(* only the order of the two walks over the tree says.                     *)
(***************************************************************************)
EXTENDS SDitHTree, FiniteSets

CONSTANTS MAX_OPEN_LEAVES,  \* PARAM_TREE_NB_MAX_OPEN_LEAVES
          Views             \* the parties that may be opened in each execution

ASSUME SignAssumption ==
  /\ MAX_OPEN_LEAVES \in Nat
  /\ \A e \in Executions : Views[e] \subseteq Parties

VARIABLES
  pc,
  e, i,                    \* the loops over executions, and parties in them
  share_commitments,       \* the signer's
  tree,                    \* merkle_trees
  h, last_is_isolated, first_index, last_index, parent_index,  \* build_merkle_tree
  open_views, p,           \* the opened parties, and the place they are sorted up to
  queue, revealed,         \* get_revealed_nodes; while parsing, counted only
  cv_info, wit, fault,     \* the signature, and what happened to it
  cv_at, len_cv_info, bytes_required, \* the parser's: where the paths are in it, in digests
  leaves,                  \* the verifier's share_commitments, used as a queue
  auth, auth_size,         \* what is left of an authentication path
  merkle_roots, ok

building  == <<share_commitments, tree, h, last_is_isolated, first_index, last_index, parent_index>>
drawing   == <<open_views, p>>
opening   == <<queue, revealed>>
signature == <<cv_info, wit, fault>>
parsing   == <<cv_at, len_cv_info, bytes_required>>
checking  == <<leaves, auth, auth_size, merkle_roots, ok>>
vars == <<pc, e, i, building, drawing, opening, signature, parsing, checking>>

Init ==
  /\ pc = "commit" /\ e = 0 /\ i = 0
  /\ share_commitments = [k \in Parties |-> Garbage]
  /\ tree = [x \in Executions |-> [n \in TreeNodes |-> Garbage]]
  /\ h = 0 /\ last_is_isolated = FALSE
  /\ first_index = 0 /\ last_index = 0 /\ parent_index = 0
  /\ open_views = [x \in Executions |-> <<>>] /\ p = 0
  /\ queue = NewQueue([c \in 1 .. REVEALED |-> 0]) /\ revealed = <<>>
  /\ cv_at = [x \in Executions |-> 0] /\ len_cv_info = [x \in Executions |-> 0]
  /\ bytes_required = 0
  /\ cv_info = <<>> /\ wit = [x \in Executions |-> <<>>] /\ fault = "none"
  /\ leaves = [c \in Cells |-> Garbage] /\ auth = <<>> /\ auth_size = 0
  /\ merkle_roots = [x \in Executions |-> Garbage] /\ ok = FALSE

-----------------------------------------------------------------------------
(* Commitments, four at a time and then one by one *)

Commit(n) ==
  /\ share_commitments' = [k \in Parties |-> IF k \in i .. i + n - 1 THEN Leaf(e, k)
                                             ELSE share_commitments[k]]
  /\ i' = i + n
  /\ UNCHANGED <<pc, e, tree, h, last_is_isolated, first_index, last_index, parent_index,
                 drawing, opening, signature, parsing, checking>>

CommitFour == pc = "commit" /\ i + 3 < PARTIES /\ Commit(4)
CommitOne  == pc = "commit" /\ ~(i + 3 < PARTIES) /\ i < PARTIES /\ Commit(1)

-----------------------------------------------------------------------------
(* build_merkle_tree *)

\* The loop over h begins a level above the one from first to last.
BeginLevel(first, last) ==
  /\ last_is_isolated' = (last % 2 = 0)
  /\ first_index' = first \div 2 /\ last_index' = last \div 2
  /\ parent_index' = first \div 2

PlaceLeaves ==
  /\ pc = "commit" /\ i = PARTIES
  /\ tree' = [tree EXCEPT ![e] = [n \in TreeNodes |->
                IF n >= FirstLeaf THEN share_commitments[n - FirstLeaf] ELSE @[n]]]
  /\ BeginLevel(FirstLeaf, LastLeaf)
  /\ h' = LOG_PARTIES - 1 /\ pc' = "build"
  /\ UNCHANGED <<e, i, share_commitments, drawing, opening, signature, parsing, checking>>

\* Four hashes at once near the leaves, but never the last node of a level.
ByFour == h >= 2 /\ parent_index + 4 <= last_index

ParentDigest(n) ==
  Hash(n, tree[e][2 * n],
       IF n < last_index \/ ~last_is_isolated THEN tree[e][2 * n + 1] ELSE NULL)

HashNodes(nodes) ==
  /\ tree' = [tree EXCEPT ![e] = [n \in TreeNodes |->
                IF n \in nodes THEN ParentDigest(n) ELSE @[n]]]
  /\ UNCHANGED <<pc, e, i, share_commitments, h, last_is_isolated, first_index, last_index,
                 drawing, opening, signature, parsing, checking>>

HashFour ==
  /\ pc = "build" /\ ByFour
  /\ HashNodes(parent_index .. parent_index + 3) /\ parent_index' = parent_index + 4
HashOne ==
  /\ pc = "build" /\ ~ByFour /\ parent_index <= last_index
  /\ HashNodes({parent_index}) /\ parent_index' = parent_index + 1

NextLevel ==
  /\ pc = "build" /\ parent_index > last_index /\ h > 0
  /\ BeginLevel(first_index, last_index) /\ h' = h - 1
  /\ UNCHANGED <<pc, e, i, share_commitments, tree, drawing, opening, signature, parsing, checking>>

\* The root is done: the next execution, or the challenge.
TreeDone ==
  /\ pc = "build" /\ parent_index > last_index /\ h = 0
  /\ IF e + 1 < EXECUTIONS THEN e' = e + 1 /\ pc' = "commit" ELSE e' = 0 /\ pc' = "draw"
  /\ i' = 0
  /\ UNCHANGED <<building, drawing, opening, signature, parsing, checking>>
-----------------------------------------------------------------------------
(* expand_view_challenge_hash.  A draw of a party that is drawn already, or  *)
(* of none, is repeated and changes nothing but the stream.                  *)

DrawView ==
  /\ pc = "draw"
  /\ \E value \in Views[e] \ {open_views[e][k] : k \in DOMAIN open_views[e]} :
       open_views' = [open_views EXCEPT ![e] = Append(@, value)]
  /\ IF Len(open_views[e]) + 1 < REVEALED THEN UNCHANGED <<pc, e, i>>
     ELSE IF e + 1 < EXECUTIONS THEN e' = e + 1 /\ UNCHANGED <<pc, i>>
     ELSE pc' = "sort" /\ e' = 0 /\ i' = 1
  /\ UNCHANGED <<p, building, opening, signature, parsing, checking>>

\* The view at place p, counted from 0, is compared with those after it.
SortPair ==
  /\ pc = "sort" /\ p < REVEALED - 1 /\ i < REVEALED
  /\ open_views' =
       IF open_views[e][p + 1] > open_views[e][i + 1]
         THEN [open_views EXCEPT ![e] = [@ EXCEPT ![p + 1] = open_views[e][i + 1],
                                                  ![i + 1] = open_views[e][p + 1]]]
         ELSE open_views
  /\ i' = i + 1
  /\ UNCHANGED <<pc, e, p, building, opening, signature, parsing, checking>>

NextPlace ==
  /\ pc = "sort" /\ p < REVEALED - 1 /\ i = REVEALED
  /\ p' = p + 1 /\ i' = p + 2
  /\ UNCHANGED <<pc, e, open_views, building, opening, signature, parsing, checking>>

\* A walk over the tree begins with the views of an execution.
Walk(x) == queue' = NewQueue(open_views[x]) /\ revealed' = <<>>

ViewsSorted ==
  /\ pc = "sort" /\ p >= REVEALED - 1
  /\ p' = 0
  /\ IF e + 1 < EXECUTIONS
       THEN e' = e + 1 /\ i' = 1 /\ UNCHANGED <<pc, opening>>
       ELSE pc' = "open" /\ e' = 0 /\ i' = 0 /\ Walk(0)
  /\ UNCHANGED <<open_views, building, signature, parsing, checking>>

-----------------------------------------------------------------------------
(* get_revealed_nodes, for the signer and for the parser *)

Reveal ==
  /\ pc \in {"open", "parse"} /\ ~AtRoot(queue)
  /\ revealed' = IF SiblingRevealed(queue) THEN Append(revealed, SiblingOf(queue)) ELSE revealed
  /\ queue' = Step(queue)
  /\ UNCHANGED <<pc, e, i, building, drawing, signature, parsing, checking>>

\* open_merkle_tree, compute_share_wit, and after the last execution
\* build_signature, which gives up if there are more digests than room.
OpenDone ==
  /\ pc = "open" /\ AtRoot(queue)
  /\ cv_info' = cv_info \o [k \in DOMAIN revealed |-> tree[e][revealed[k]]]
  /\ wit' = [wit EXCEPT ![e] = [c \in 1 .. REVEALED |-> <<e, open_views[e][c]>>]]
  /\ IF e + 1 < EXECUTIONS
       THEN e' = e + 1 /\ pc' = "open" /\ Walk(e + 1)
       ELSE /\ e' = 0 /\ Walk(0)
            /\ pc' = IF Len(cv_info') <= EXECUTIONS * MAX_OPEN_LEAVES
                       THEN "sent" ELSE "returned"
  /\ UNCHANGED <<i, building, drawing, fault, parsing, checking>>

\* What may happen to the signature on its way: it gets longer or shorter, a
\* digest of the path or the last share is another one.  The verifier draws the
\* same views from the same hash.
Deliver ==
  /\ pc = "sent"
  /\ \/ fault' = "none" /\ UNCHANGED <<cv_info, wit>>
     \/ fault' = "longer" /\ cv_info' = Append(cv_info, Garbage) /\ UNCHANGED wit
     \/ fault' = "shorter" /\ cv_info # <<>> /\ cv_info' = SubSeq(cv_info, 1, Len(cv_info) - 1)
        /\ UNCHANGED wit
     \/ fault' = "path" /\ UNCHANGED wit
        /\ \E k \in {1, Len(cv_info)} \intersect DOMAIN cv_info :
             cv_info' = [cv_info EXCEPT ![k] = Garbage]
     \/ fault' = "share" /\ UNCHANGED cv_info
        /\ wit' = [wit EXCEPT ![EXECUTIONS - 1][REVEALED] = Garbage]
  /\ pc' = "parse"
  /\ UNCHANGED <<e, i, building, drawing, opening, parsing, checking>>

Return(value) == pc' = "returned" /\ ok' = value

\* get_auth_size: the path of an execution begins where those before it end.
\* After the last one the length of the signature has to be exact.
ParseDone ==
  /\ pc = "parse" /\ AtRoot(queue)
  /\ cv_at' = [cv_at EXCEPT ![e] = bytes_required]
  /\ len_cv_info' = [len_cv_info EXCEPT ![e] = Len(revealed)]
  /\ bytes_required' = bytes_required + Len(revealed)
  /\ IF e + 1 < EXECUTIONS
       THEN e' = e + 1 /\ Walk(e + 1) /\ UNCHANGED <<pc, ok>>
       ELSE /\ e' = 0 /\ UNCHANGED opening
            /\ IF Len(cv_info) = bytes_required'
                 THEN pc' = "recommit" /\ UNCHANGED ok ELSE Return(FALSE)
  /\ UNCHANGED <<i, building, drawing, signature, leaves, auth, auth_size, merkle_roots>>

-----------------------------------------------------------------------------
(* Verification *)

\* The commitment of a party follows from its share and its number.
Recommit ==
  /\ pc = "recommit" /\ i < REVEALED
  /\ LET party == open_views[e][i + 1]
     IN leaves' = [leaves EXCEPT ![i] =
                     IF wit[e][i + 1] = <<e, party>> THEN Leaf(e, party) ELSE Garbage]
  /\ i' = i + 1
  /\ UNCHANGED <<pc, e, building, drawing, opening, signature, parsing,
                 auth, auth_size, merkle_roots, ok>>

\* get_merkle_root_from_auth, up to its loop.
StartRoot ==
  /\ pc = "recommit" /\ i = REVEALED
  /\ Walk(e)
  /\ auth' = SubSeq(cv_info, cv_at[e] + 1, Len(cv_info))
  /\ auth_size' = len_cv_info[e]
  /\ pc' = "root" /\ i' = 0
  /\ UNCHANGED <<e, building, drawing, signature, parsing, leaves, merkle_roots, ok>>

\* Mutant: the digests are hashed in the order in which they come.
PairUnswapped ==
  LET node == leaves[queue.start]
  IN <<node, IF NoSibling(queue) THEN NULL
             ELSE IF SiblingQueued(queue) THEN leaves[Following(queue.start)] ELSE auth[1]>>

\* The children of the node that is computed next, left and right.
Pair ==
  LET node == leaves[queue.start]
  IN IF NoSibling(queue) THEN <<node, NULL>>
     ELSE IF SiblingQueued(queue) THEN <<node, leaves[Following(queue.start)]>>
     ELSE IF IsLeftChild(queue) THEN <<node, auth[1]>> ELSE <<auth[1], node>>

RootStep ==
  /\ pc = "root" /\ ~AtRoot(queue)
  /\ IF SiblingRevealed(queue) /\ auth_size < 1
       THEN Return(FALSE) /\ UNCHANGED <<queue, leaves, auth, auth_size>>
       ELSE /\ leaves' = [leaves EXCEPT ![queue.stop] = Hash(Parent(queue), Pair[1], Pair[2])]
            /\ queue' = Step(queue)
            /\ IF SiblingRevealed(queue)
                 THEN auth' = Tail(auth) /\ auth_size' = auth_size - 1
                 ELSE UNCHANGED <<auth, auth_size>>
            /\ UNCHANGED <<pc, ok>>
  /\ UNCHANGED <<e, i, building, drawing, revealed, signature, parsing, merkle_roots>>

\* The root; after the last one they are hashed and compared with the signer's.
RootDone ==
  /\ pc = "root" /\ AtRoot(queue)
  /\ merkle_roots' = [merkle_roots EXCEPT ![e] = leaves[queue.start]]
  /\ IF e + 1 < EXECUTIONS
       THEN e' = e + 1 /\ pc' = "recommit" /\ UNCHANGED ok
       ELSE e' = e /\ Return(\A x \in Executions : merkle_roots'[x] = tree[x][1])
  /\ UNCHANGED <<i, building, drawing, opening, signature, parsing, leaves, auth, auth_size>>

Next ==
  \/ CommitFour \/ CommitOne \/ PlaceLeaves \/ HashFour \/ HashOne \/ NextLevel \/ TreeDone
  \/ DrawView \/ SortPair \/ NextPlace \/ ViewsSorted \/ Reveal \/ OpenDone \/ Deliver \/ ParseDone
  \/ Recommit \/ StartRoot \/ RootStep \/ RootDone

Spec == Init /\ [][Next]_vars /\ WF_vars(Next)

-----------------------------------------------------------------------------
(* Properties *)

\* The nodes in the queue, from its start on.
Pending == LET n == IF queue.start < queue.stop THEN queue.stop - queue.start
                    ELSE queue.stop - queue.start + REVEALED
           IN [k \in 1 .. n |-> At(queue, k - 1)]

Ancestors(n) == {n \div 2^d : d \in 0 .. Depth(n)}
OpenedBy(views) == {FirstLeaf + views[c] : c \in 1 .. REVEALED}
Opened == OpenedBy(open_views[e])
Walking == pc \in {"open", "parse", "root"}

\* "Since the nodes in the queue are sorted, the sibling node is necessarily at
\* the top of the queue" (merkle-tree.c:282): what is left of the lower level
\* comes first, each level is in order, and between them the nodes in the queue
\* stand for every opened leaf once.
QueueIsSorted == Walking =>
  /\ \A j, k \in DOMAIN Pending : j < k =>
       \/ Depth(Pending[j]) = Depth(Pending[k]) /\ Pending[j] < Pending[k]
       \/ Depth(Pending[j]) = Depth(Pending[k]) + 1
  /\ \A leaf \in Opened : \E j \in DOMAIN Pending :
       /\ Pending[j] \in Ancestors(leaf)
       /\ \A k \in DOMAIN Pending : Pending[k] \in Ancestors(leaf) => k = j

\* What a path has to hold: the nodes over no opened leaf whose parent is over
\* one.
NeededBy(S) == {n \in TreeNodes : /\ Present(n)
                                  /\ \A leaf \in S : n \notin Ancestors(leaf)
                                  /\ \E leaf \in S : n \div 2 \in Ancestors(leaf)}

\* There is room for the path of any opening.
PathsFit ==
  \A x \in Executions : \A views \in [1 .. REVEALED -> Views[x]] :
     (\A a, b \in 1 .. REVEALED : a < b => views[a] < views[b]) =>
       Cardinality(NeededBy(OpenedBy(views))) <= MAX_OPEN_LEAVES

\* The nodes of a path come from the leaves up and from left to right.
Precedes(m, n) == Depth(m) > Depth(n) \/ (Depth(m) = Depth(n) /\ m < n)

\* The walk of the signer and that of the parser end with exactly these nodes
\* in this order, and there is room for them.
PathIsWhatIsNeeded == (pc \in {"open", "parse"} /\ AtRoot(queue)) =>
  /\ {revealed[k] : k \in DOMAIN revealed} = NeededBy(Opened)
  /\ \A j, k \in DOMAIN revealed : j < k => Precedes(revealed[j], revealed[k])
  /\ Len(revealed) <= MAX_OPEN_LEAVES

\* A signature is accepted exactly if it arrives as it was sent.
Accepted == pc = "returned" => (ok <=> fault = "none")

\* Signing and verifying end: a walk comes to the root whatever is opened.
Returns == <>(pc = "returned")
=============================================================================
