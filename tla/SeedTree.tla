------------------------------ MODULE SeedTree ------------------------------
(***************************************************************************)
(* The seed tree of SPECK and LESS, run as one signature and its           *)
(* verification run it: the signer expands a root seed into one seed per   *)
(* round (BuildGGM, seed_leaves), learns the challenge, and publishes the  *)
(* roots of the subtrees whose rounds are all to be opened (GGMPath); the  *)
(* verifier, who has the challenge and the published seeds only, expands   *)
(* them again (RebuildGGM, seed_leaves).  One step is one iteration of a   *)
(* loop of the code, or the end of one.                                    *)
(***************************************************************************)
EXTENDS GGMLayout, Sequences

CONSTANTS Seed,       \* the seeds
          NoSeed,     \* memory no seed was written to
          RootSeed,   \* the ephemeral seed the signer draws
          Expand,     \* the CSPRNG: <<seed, domain_sep>> to the two child seeds
          Challenges, \* what indices_to_publish can be
          MAX_PUBLISHED_SEEDS \* the seeds seed_storage has room for

\* The labels of a node (and of a round: 0 opens it).
TO_PUBLISH     == 0
NOT_TO_PUBLISH == 1

ASSUME SeedAssumption ==
  /\ NoSeed \notin Seed /\ RootSeed \in Seed
  /\ Expand \in [Seed \X Nodes -> Seed \X Seed]

\* The challenge has a fixed weight W > 0, so some round is never opened.
ASSUME ChallengeAssumption ==
  \A ch \in Challenges : /\ ch \in [Rounds -> {TO_PUBLISH, NOT_TO_PUBLISH}]
                         /\ \E r \in Rounds : ch[r] = NOT_TO_PUBLISH

VARIABLES
  pc,                  \* the function and loop being run
  level, node_in_level, start_node,  \* its loop variables
  seed_tree,           \* signer: the tree
  rounds_seeds,        \* signer: the seeds of the rounds
  indices_to_publish,  \* the challenge, as both parties label the rounds
  flags,               \* flags_tree_to_publish of the running function
  seed_storage,        \* the published seeds, in the signature
  path,                \* the nodes they were taken from (not in the code)
  path_flags,          \* the flags GGMPath had computed (dead in the code)
  rebuilt_tree,        \* verifier: the tree
  nodes_used,          \* verifier: published seeds consumed
  rebuilt_seeds        \* verifier: the seeds of the rounds

loop   == <<level, node_in_level, start_node>>
signer == <<seed_tree, rounds_seeds, seed_storage, path, path_flags>>
verifier == <<rebuilt_tree, nodes_used, rebuilt_seeds>>
vars   == <<pc, loop, indices_to_publish, flags, signer, verifier>>

-----------------------------------------------------------------------------
(* Helpers *)

Memory == Seed \union {NoSeed}
Blank  == [n \in Nodes |-> NoSeed]

\* Both children of a node; expanding what was never written gives nothing.
Children(seed, domain_sep) ==
  IF seed = NoSeed THEN <<NoSeed, NoSeed>> ELSE Expand[<<seed, domain_sep>>]

\* memcpy of the two children next to each other.
StoreChildren(tree, father, left) ==
  [tree EXCEPT ![left]     = Children(tree[father], father)[1],
               ![left + 1] = Children(tree[father], father)[2]]

\* Mutant: the leaves are the last T cells, as in a tree that is not truncated.
seed_leaves_heap(tree) == [r \in Rounds |-> tree[T - 1 + r]]

seed_leaves(tree) == [r \in Rounds |-> tree[LeafNode(r)]]

label_leaves(flag_tree, indices) ==
  [n \in Nodes |-> IF \E r \in Rounds : LeafNode(r) = n
                     THEN indices[CHOOSE r \in Rounds : LeafNode(r) = n]
                     ELSE flag_tree[n]]

\* The arrays the two callers pass to compute_seeds_to_publish: GGMPath's
\* initialiser {NOT_TO_PUBLISH} sets the first cell and leaves zeros after it.
PathFlags    == [n \in Nodes |-> IF n = 0 THEN NOT_TO_PUBLISH ELSE TO_PUBLISH]
RebuildFlags == [n \in Nodes |-> TO_PUBLISH]

\* Mutant: the test of the father is left out.
PublishedAnyFather(current, father) == flags[current] = TO_PUBLISH

Published(current, father) ==
  flags[current] = TO_PUBLISH /\ flags[father] = NOT_TO_PUBLISH

current_node == start_node + node_in_level
father_node  == FatherNode(current_node, level)

-----------------------------------------------------------------------------
Init ==
  /\ pc = "BuildGGM"
  /\ level = 0 /\ node_in_level = 0 /\ start_node = 0
  /\ seed_tree = [Blank EXCEPT ![0] = RootSeed]
  /\ rounds_seeds = [r \in Rounds |-> NoSeed]
  /\ indices_to_publish = [r \in Rounds |-> TO_PUBLISH]
  /\ flags = PathFlags /\ path_flags = PathFlags
  /\ seed_storage = <<>> /\ path = <<>>
  /\ rebuilt_tree = Blank /\ nodes_used = 0
  /\ rebuilt_seeds = [r \in Rounds |-> NoSeed]

(* The loops over levels: how each of them is entered and goes on. *)

StartLoop(l, i, start) == level' = l /\ node_in_level' = i /\ start_node' = start
NextNode      == StartLoop(level, node_in_level + 1, start_node)
NextLevelDown == StartLoop(level + 1, 0, start_node + npl[level])

(* BuildGGM *)

ExpandNode ==
  /\ pc = "BuildGGM" /\ level < LOG2T /\ node_in_level < Expanded(level)
  /\ seed_tree' = StoreChildren(seed_tree, current_node,
                                LeftChildNode(current_node, level))
  /\ NextNode
  /\ UNCHANGED <<pc, rounds_seeds, indices_to_publish, flags, seed_storage, path,
                 path_flags, verifier>>

BuildNextLevel ==
  /\ pc = "BuildGGM" /\ level < LOG2T /\ node_in_level >= Expanded(level)
  /\ NextLevelDown
  /\ UNCHANGED <<pc, indices_to_publish, flags, signer, verifier>>

SignerSeedLeaves ==
  /\ pc = "BuildGGM" /\ level = LOG2T
  /\ rounds_seeds' = seed_leaves(seed_tree)
  /\ pc' = "SampleChallenge"
  /\ UNCHANGED <<loop, indices_to_publish, flags, seed_tree, seed_storage, path,
                 path_flags, verifier>>

(* compute_seeds_to_publish, called by GGMPath and by RebuildGGM *)

StartComputing == StartLoop(LOG2T, npl[LOG2T] - 2, leaves_start_indices[1])

SampleChallenge ==
  /\ pc = "SampleChallenge"
  /\ \E ch \in Challenges :
        /\ indices_to_publish' = ch
        /\ flags' = label_leaves(PathFlags, ch)
  /\ StartComputing
  /\ pc' = "sign_compute_seeds_to_publish"
  /\ UNCHANGED <<signer, verifier>>

Computing == pc \in {"sign_compute_seeds_to_publish", "verify_compute_seeds_to_publish"}

\* Mutant: the test of the sibling is left out.
ComputeParentNoSibling ==
  /\ Computing /\ level > 0 /\ node_in_level >= 0
  /\ flags' = [flags EXCEPT ![father_node] = flags[current_node]]
  /\ StartLoop(level, node_in_level - 2, start_node)
  /\ UNCHANGED <<pc, indices_to_publish, signer, verifier>>

ComputeParent ==
  /\ Computing /\ level > 0 /\ node_in_level >= 0
  /\ flags' = [flags EXCEPT ![father_node] =
                 IF /\ flags[current_node] = TO_PUBLISH
                    /\ flags[SIBLING(current_node)] = TO_PUBLISH
                   THEN TO_PUBLISH ELSE NOT_TO_PUBLISH]
  /\ StartLoop(level, node_in_level - 2, start_node)
  /\ UNCHANGED <<pc, indices_to_publish, signer, verifier>>

ComputePrevLevel ==
  /\ Computing /\ level > 0 /\ node_in_level < 0
  /\ StartLoop(level - 1, npl[level - 1] - 2, start_node - npl[level - 1])
  /\ UNCHANGED <<pc, indices_to_publish, flags, signer, verifier>>

\* Mutant: the loop may stop at level 1 and leave the root as it was.
ComputeDoneAboveRoot ==
  /\ Computing /\ level <= 1
  /\ StartLoop(1, 0, 1)
  /\ pc' = IF pc = "sign_compute_seeds_to_publish" THEN "GGMPath" ELSE "RebuildGGM"
  /\ UNCHANGED <<indices_to_publish, flags, signer, verifier>>

ComputeDone ==
  /\ Computing /\ level = 0
  /\ StartLoop(1, 0, 1)
  /\ pc' = IF pc = "sign_compute_seeds_to_publish" THEN "GGMPath" ELSE "RebuildGGM"
  /\ UNCHANGED <<indices_to_publish, flags, signer, verifier>>

(* GGMPath *)

ScanNode(f) == pc = f /\ level <= LOG2T /\ node_in_level < npl[level]

PublishNode ==
  /\ ScanNode("GGMPath") /\ Published(current_node, father_node)
  /\ seed_storage' = Append(seed_storage, seed_tree[current_node])
  /\ path' = Append(path, current_node)
  /\ NextNode
  /\ UNCHANGED <<pc, indices_to_publish, flags, seed_tree, rounds_seeds, path_flags,
                 verifier>>

PassNode ==
  /\ ScanNode("GGMPath") /\ ~Published(current_node, father_node)
  /\ NextNode
  /\ UNCHANGED <<pc, indices_to_publish, flags, signer, verifier>>

ScanNextLevel ==
  /\ pc \in {"GGMPath", "RebuildGGM"} /\ level <= LOG2T /\ node_in_level >= npl[level]
  /\ NextLevelDown
  /\ UNCHANGED <<pc, indices_to_publish, flags, signer, verifier>>

\* The signature is complete; verification starts with the flags of RebuildGGM.
PathDone ==
  /\ pc = "GGMPath" /\ level > LOG2T
  /\ flags' = label_leaves(RebuildFlags, indices_to_publish)
  /\ StartComputing
  /\ path_flags' = flags
  /\ pc' = "verify_compute_seeds_to_publish"
  /\ UNCHANGED <<indices_to_publish, seed_tree, rounds_seeds, seed_storage, path,
                 verifier>>

(* RebuildGGM *)

\* The next published seed; the rest of the storage was never written.
StoredSeed == IF nodes_used < Len(seed_storage) THEN seed_storage[nodes_used + 1]
                                                ELSE NoSeed

\* The published seed is copied in place, then a node that is no leaf and is
\* to be published is expanded, whether it was copied or expanded before.
WithPublished ==
  IF Published(current_node, father_node)
    THEN [rebuilt_tree EXCEPT ![current_node] = StoredSeed] ELSE rebuilt_tree

\* Mutant: the verifier alone leaves out the test of the father.
RebuildNodeAnyFather ==
  /\ ScanNode("RebuildGGM")
  /\ IF flags[current_node] = TO_PUBLISH
       THEN /\ nodes_used' = nodes_used + 1
            /\ rebuilt_tree' = [rebuilt_tree EXCEPT ![current_node] = StoredSeed]
       ELSE UNCHANGED <<nodes_used, rebuilt_tree>>
  /\ NextNode
  /\ UNCHANGED <<pc, indices_to_publish, flags, signer, rebuilt_seeds>>

RebuildNode ==
  /\ ScanNode("RebuildGGM")
  /\ nodes_used' = IF Published(current_node, father_node) THEN nodes_used + 1
                                                          ELSE nodes_used
  /\ rebuilt_tree' =
       IF flags[current_node] = TO_PUBLISH /\ node_in_level < Expanded(level)
         THEN StoreChildren(WithPublished, current_node,
                            LeftChildNode(current_node, level))
         ELSE WithPublished
  /\ NextNode
  /\ UNCHANGED <<pc, indices_to_publish, flags, signer, rebuilt_seeds>>

VerifierSeedLeaves ==
  /\ pc = "RebuildGGM" /\ level > LOG2T
  /\ rebuilt_seeds' = seed_leaves(rebuilt_tree)
  /\ pc' = "done"
  /\ UNCHANGED <<loop, indices_to_publish, flags, signer, rebuilt_tree, nodes_used>>

Next ==
  \/ ExpandNode \/ BuildNextLevel \/ SignerSeedLeaves
  \/ SampleChallenge \/ ComputeParent \/ ComputePrevLevel \/ ComputeDone
  \/ PublishNode \/ PassNode \/ ScanNextLevel \/ PathDone
  \/ RebuildNode \/ VerifierSeedLeaves

\* One sequential program: it keeps running its loops until the last returns.
Spec == Init /\ [][Next]_vars /\ WF_vars(Next)

-----------------------------------------------------------------------------
(* Properties *)

\* Every variable keeps its type: in particular the loops index npl, off and
\* the trees inside their bounds.
TypeOK ==
  /\ pc \in {"BuildGGM", "SampleChallenge", "sign_compute_seeds_to_publish", "GGMPath",
             "verify_compute_seeds_to_publish", "RebuildGGM", "done"}
  /\ level \in 0 .. LOG2T + 1
  /\ node_in_level \in Int /\ start_node \in Nat
  /\ seed_tree \in [Nodes -> Memory] /\ rebuilt_tree \in [Nodes -> Memory]
  /\ rounds_seeds \in [Rounds -> Memory] /\ rebuilt_seeds \in [Rounds -> Memory]
  /\ indices_to_publish \in [Rounds -> {TO_PUBLISH, NOT_TO_PUBLISH}]
  /\ flags \in [Nodes -> {TO_PUBLISH, NOT_TO_PUBLISH}]
  /\ path_flags \in [Nodes -> {TO_PUBLISH, NOT_TO_PUBLISH}]
  /\ seed_storage \in Seq(Memory) /\ path \in Seq(Nodes)
  /\ Len(seed_storage) = Len(path)
  /\ nodes_used \in Nat

\* Signer and verifier label the tree alike, whatever the cells held before:
\* compute_seeds_to_publish overwrites the initialiser of either caller.
LabelsAgree ==
  pc \in {"RebuildGGM", "done"} =>
    \A l \in Levels : \A i \in 0 .. npl[l] - 1 : flags[Node(l, i)] = path_flags[Node(l, i)]

\* The verifier recovers, from the published seeds alone, exactly the seed the
\* signer used in every round the challenge opens (RebuildGGM inverts GGMPath).
Recovery ==
  pc = "done" =>
    \A r \in Rounds : indices_to_publish[r] = TO_PUBLISH =>
      /\ rebuilt_seeds[r] = rounds_seeds[r]
      /\ rebuilt_seeds[r] # NoSeed

\* What the published seeds give away: the rebuilt tree holds every published
\* node and all that can be expanded from it, and the seed of no round that
\* the challenge keeps closed is among them.
Secrecy ==
  pc = "done" =>
    LET known == {n \in Nodes : rebuilt_tree[n] # NoSeed}
    IN  /\ \A k \in DOMAIN path : path[k] \in known
        /\ \A l \in 0 .. LOG2T - 1 : \A i \in 0 .. Expanded(l) - 1 :
             Node(l, i) \in known =>
               {LeftChildNode(Node(l, i), l), LeftChildNode(Node(l, i), l) + 1} \subseteq known
        /\ \A r \in Rounds : indices_to_publish[r] = NOT_TO_PUBLISH =>
             LeafNode(r) \notin known

\* The verifier consumes the published seeds one for one: none is left over and
\* none is read beyond num_seeds_published.
AllSeedsUsed ==
  /\ nodes_used <= Len(seed_storage)
  /\ pc = "done" => nodes_used = Len(seed_storage)

\* The rounds under the i-th node of a level: positions double at every level.
Under(l, i) ==
  {r \in Rounds : \E m \in l .. LOG2T : \E k \in Expanded(m) .. npl[m] - 1 :
                    LeafNode(r) = Node(m, k) /\ k \div 2 ^ (m - l) = i}
Opened(ch, l, i) == \A r \in Under(l, i) : ch[r] = TO_PUBLISH

\* The roots of the maximal subtrees whose rounds are all opened.
CoverOf(ch) ==
  UNION {{Node(l, i) : i \in {j \in 0 .. npl[l] - 1 :
                                Opened(ch, l, j) /\ ~Opened(ch, l - 1, j \div 2)}} :
         l \in 1 .. LOG2T}

\* GGMPath publishes the fewest seeds that can do, each once, in the order of
\* the nodes.
MinimalCover ==
  pc = "done" =>
    /\ {path[k] : k \in DOMAIN path} = CoverOf(indices_to_publish)
    /\ \A k \in 1 .. Len(path) - 1 : path[k] < path[k + 1]

\* The seeds of a signature fit seed_storage.
StorageBound == Len(seed_storage) <= MAX_PUBLISHED_SEEDS

\* Neither party ever writes a node of its tree twice: the children two nodes
\* of a level expand to do not overlap, nor does a published seed fall on a
\* node that was expanded.
WriteOnce ==
  [][\A l \in Levels : \A i \in 0 .. npl[l] - 1 : LET n == Node(l, i) IN
       /\ seed_tree[n] # NoSeed => seed_tree'[n] = seed_tree[n]
       /\ rebuilt_tree[n] # NoSeed => rebuilt_tree'[n] = rebuilt_tree[n]]_vars

\* Signing and verifying end.
Termination == <>(pc = "done")
=============================================================================
