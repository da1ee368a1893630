---------------------------- MODULE SeedTreeInv -----------------------------
(***************************************************************************)
(* The inductive invariant of SeedTree: what holds in the middle of every  *)
(* loop.  TLC checks it on the instances of MCSeedTree, SeedTree_proof     *)
(* proves it for every layout that satisfies the assumptions of GGMLayout. *)
(***************************************************************************)
EXTENDS SeedTree

\* The i-th node of level l: any node, one that is expanded, one that is not.
IsNode(l, i)  == l \in Levels /\ i \in 0 .. npl[l] - 1
IsInner(l, i) == l \in 0 .. LOG2T - 1 /\ i \in 0 .. Expanded(l) - 1

\* The node a loop works on.  Going on to the next level leaves it alone, but
\* for BuildGGM, which skips the leaves of a level.
Current == start_node + node_in_level

Scanning == pc \in {"GGMPath", "RebuildGGM"}

\* The loop variables: start_node is the start of the level, node_in_level is
\* within it, and compute_seeds_to_publish stays on even positions.
LoopInv ==
  /\ pc = "BuildGGM" =>
       /\ level \in Levels /\ start_node = LevelStart[level]
       /\ node_in_level \in 0 .. Expanded(level)
  /\ Computing =>
       /\ level \in Levels /\ start_node = LevelStart[level]
       /\ node_in_level \in -2 .. npl[level] - 2
       /\ level > 0 => node_in_level % 2 = 0
       /\ level = 0 => node_in_level = -1
  /\ Scanning =>
       /\ level \in 1 .. LOG2T + 1
       /\ level <= LOG2T => /\ start_node = LevelStart[level]
                            /\ node_in_level \in 0 .. npl[level]
       /\ level > LOG2T => node_in_level = 0 /\ start_node = 2 * T - 1

\* Both children of an inner node hold what its seed expands to.
HoldsChildren(tree, l, i) ==
  /\ tree[Node(l, i)] \in Seed
  /\ tree[Node(l + 1, 2 * i)]     = Expand[<<tree[Node(l, i)], Node(l, i)>>][1]
  /\ tree[Node(l + 1, 2 * i + 1)] = Expand[<<tree[Node(l, i)], Node(l, i)>>][2]

\* The signer's tree is filled up to the children of the node being expanded.
BuildInv ==
  /\ seed_tree[0] = RootSeed
  /\ \A l \in 0 .. LOG2T - 1 : \A i \in 0 .. Expanded(l) - 1 :
       IF pc = "BuildGGM" /\ Node(l, i) >= Current
         THEN /\ seed_tree[Node(l + 1, 2 * i)] = NoSeed
              /\ seed_tree[Node(l + 1, 2 * i + 1)] = NoSeed
         ELSE HoldsChildren(seed_tree, l, i)
  /\ pc # "BuildGGM" => rounds_seeds = seed_leaves(seed_tree)

\* A node is labelled to be published exactly if both its children are.
LabelOK(fl, l, i) ==
  fl[Node(l, i)] = TO_PUBLISH <=>
    /\ fl[Node(l + 1, 2 * i)] = TO_PUBLISH
    /\ fl[Node(l + 1, 2 * i + 1)] = TO_PUBLISH

LeavesLabelled(fl) == \A r \in Rounds : fl[LeafNode(r)] = indices_to_publish[r]

Labelled(fl) ==
  /\ LeavesLabelled(fl)
  /\ \A l \in 0 .. LOG2T - 1 : \A i \in 0 .. Expanded(l) - 1 : LabelOK(fl, l, i)

\* Labels are right above every pair of siblings compute_seeds_to_publish has
\* passed, and everywhere once it has returned.
FlagsInv ==
  /\ Computing \/ Scanning \/ pc = "done" =>
       /\ indices_to_publish \in Challenges
       /\ LeavesLabelled(flags)
  /\ Computing =>
       \A l \in 0 .. LOG2T - 1 : \A i \in 0 .. Expanded(l) - 1 :
         Node(l + 1, 2 * i) > Current => LabelOK(flags, l, i)
  /\ Scanning \/ pc = "done" => Labelled(flags)

\* GGMPath has published the topmost nodes it passed, in order; if it finds
\* the root labelled, everything it passed is labelled.
Topmost(fl, l, i) ==
  fl[Node(l, i)] = TO_PUBLISH /\ fl[Node(l - 1, i \div 2)] = NOT_TO_PUBLISH

PathUpTo(fl, n) ==
  /\ \A k \in 1 .. Len(path) :
       /\ \E l \in 1 .. LOG2T : \E i \in 0 .. npl[l] - 1 :
            path[k] = Node(l, i) /\ Topmost(fl, l, i)
       /\ path[k] < n
  /\ \A l \in 1 .. LOG2T : \A i \in 0 .. npl[l] - 1 :
       Topmost(fl, l, i) /\ Node(l, i) < n => \E k \in 1 .. Len(path) : path[k] = Node(l, i)

SignerDone == pc \in {"verify_compute_seeds_to_publish", "RebuildGGM", "done"}

PathInv ==
  /\ Len(seed_storage) = Len(path)
  /\ \A k \in 1 .. Len(path) : seed_storage[k] = seed_tree[path[k]]
  /\ \A j, k \in 1 .. Len(path) : j < k => path[j] < path[k]
  /\ pc \in {"BuildGGM", "SampleChallenge", "sign_compute_seeds_to_publish"} =>
       seed_storage = <<>> /\ path = <<>>
  /\ pc = "GGMPath" =>
       /\ PathUpTo(flags, Current)
       /\ flags[0] = TO_PUBLISH =>
            \A l \in 1 .. LOG2T : \A i \in 0 .. npl[l] - 1 :
              Node(l, i) < Current => flags[Node(l, i)] = TO_PUBLISH
  /\ SignerDone =>
       /\ Labelled(path_flags) /\ path_flags[0] = NOT_TO_PUBLISH
       /\ PathUpTo(path_flags, 2 * T - 1)

\* The verifier's labels become the signer's, from the leaves up.
AgreeInv ==
  /\ pc = "verify_compute_seeds_to_publish" =>
       \A l \in Levels : \A i \in 0 .. npl[l] - 1 :
         ~IsInner(l, i) \/ Node(l + 1, 2 * i) > Current =>
           flags[Node(l, i)] = path_flags[Node(l, i)]
  /\ pc \in {"RebuildGGM", "done"} =>
       \A l \in Levels : \A i \in 0 .. npl[l] - 1 :
         flags[Node(l, i)] = path_flags[Node(l, i)]

\* The nodes RebuildGGM has filled when it arrives at node n: the labelled ones
\* it passed and the children of the labelled ones it passed.
Filled(l, i, n) ==
  /\ l > 0 /\ flags[Node(l, i)] = TO_PUBLISH
  /\ \/ Node(l, i) < n
     \/ flags[Node(l - 1, i \div 2)] = TO_PUBLISH /\ Node(l - 1, i \div 2) < n

RebuiltUpTo(n) ==
  \A l \in Levels : \A i \in 0 .. npl[l] - 1 :
    rebuilt_tree[Node(l, i)] = IF Filled(l, i, n) THEN seed_tree[Node(l, i)] ELSE NoSeed

\* The published seeds below the current node are the ones used.
UsedUpTo(n) ==
  /\ nodes_used <= Len(path)
  /\ \A k \in 1 .. Len(path) : k <= nodes_used <=> path[k] < n

RebuildInv ==
  /\ pc \notin {"RebuildGGM", "done"} => rebuilt_tree = Blank /\ nodes_used = 0
  /\ pc = "RebuildGGM" => RebuiltUpTo(Current) /\ UsedUpTo(Current)
  /\ pc = "done" => /\ RebuiltUpTo(2 * T - 1) /\ UsedUpTo(2 * T - 1)
                    /\ rebuilt_seeds = seed_leaves(rebuilt_tree)

IInv == /\ TypeOK /\ LoopInv /\ BuildInv /\ FlagsInv
        /\ PathInv /\ AgreeInv /\ RebuildInv

-----------------------------------------------------------------------------
(* SeedTree implements RoundSeeds. *)

OpenedBy(ch) == {r \in Rounds : ch[r] = TO_PUBLISH}

Phase == IF pc = "BuildGGM" THEN "generate"
         ELSE IF pc = "SampleChallenge" THEN "challenge"
         ELSE IF pc = "done" THEN "done" ELSE "recover"

RS == INSTANCE RoundSeeds
        WITH phase <- Phase, seeds <- rounds_seeds, recovered <- rebuilt_seeds,
             opened <- IF Phase \in {"generate", "challenge"} THEN {}
                                                             ELSE OpenedBy(indices_to_publish),
             Openings <- {OpenedBy(ch) : ch \in Challenges}

\* The signer gets one seed per round, and the verifier ends with the seeds of
\* the opened rounds and with no others, whichever way the trees store them.
ImplementsRoundSeeds == RS!Spec
=============================================================================
