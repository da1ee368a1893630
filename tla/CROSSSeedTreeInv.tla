-------------------------- MODULE CROSSSeedTreeInv ---------------------------
(***************************************************************************)
(* The inductive invariant of CROSSSeedTree: what holds in the middle of   *)
(* every loop, and of every batch.  CROSSSeedTree_proof proves it for      *)
(* every layout that satisfies the assumptions of GGMLayout.               *)
(***************************************************************************)
EXTENDS CROSSSeedTree

Memory == Seed \union {NoSeed}
Labels == {TO_PUBLISH, NOT_TO_PUBLISH}
Jobs   == [seed : Memory, dsc : Nodes, child : Nodes]

Computing == pc \in {"seed_path_flags", "rebuild_flags"}
Scanning  == pc \in {"seed_path", "rebuild_tree"}
Batching  == pc \in {"gen_seed_tree", "rebuild_tree"}

\* The path has room for what is published.  TreeTables computes that it has
\* in every parameter set; seed_path does not check it.
Fits == num_seeds_published <= TREE_NODES_TO_STORE

TypeOK ==
  /\ pc \in {"gen_seed_tree", "generated", "seed_path_flags", "seed_path", "published",
             "rebuild_flags", "rebuild_tree", "rebuilt"}
  /\ at \in [level : Int, i : Int, start : Int]
  /\ queue \in Seq(Jobs)
  /\ seed_tree \in [Nodes -> Memory] /\ rebuilt_tree \in [Nodes -> Memory]
  /\ indices_to_publish \in [Rounds -> Labels] /\ flags \in [Nodes -> Labels]
  /\ path \in [Slots -> Memory]
  /\ num_seeds_published \in Nat /\ path_nodes \in Seq(Nodes) /\ nodes_used \in Nat

\* The loops stay in the tree: gen_seed_tree on the nodes it expands,
\* compute_seeds_to_publish on even positions, the others on all nodes.
PositionInv ==
  /\ pc = "gen_seed_tree" =>
       /\ at.level \in Levels /\ at.start = LevelStart[at.level]
       /\ at.level < LOG2T => at.i \in 0 .. Expanded(at.level) - 1
       /\ at.level = LOG2T => at.i = 0
  /\ Computing =>
       /\ at.level \in Levels /\ at.start = LevelStart[at.level]
       /\ at.level > 0 => at.i \in 0 .. npl[at.level] - 2 /\ at.i % 2 = 0
       /\ at.level = 0 => at.i = -1
  /\ Scanning =>
       /\ at.level \in 1 .. LOG2T + 1
       /\ at.level <= LOG2T => /\ at.start = LevelStart[at.level]
                               /\ at.i \in 0 .. npl[at.level] - 1
       /\ at.level > LOG2T => at.i = 0 /\ at.start = 2 * T - 1

(* Batches *)

JobOf(tree, l, i) == [seed  |-> tree[Node(l, i)], dsc |-> Node(l, i),
                      child |-> Node(l + 1, 2 * i)]

\* The jobs of a queue are inner nodes of a level, with the seeds they hold.
JobsOf(tree, q, l) ==
  \A k \in DOMAIN q : \E j \in 0 .. Expanded(l) - 1 :
    tree[Node(l, j)] \in Seed /\ q[k] = JobOf(tree, l, j)

Queued(q, n) == \E k \in DOMAIN q : q[k].dsc = n

BatchTree == IF pc = "gen_seed_tree" THEN seed_tree ELSE rebuilt_tree

\* A queue is short, and empty before the first and after the last inner node
\* of a level.  What is in it the loop has passed.
QueueInv ==
  /\ ~Batching => queue = <<>>
  /\ Batching =>
       /\ Len(queue) < BATCH
       /\ at.i = 0 => queue = <<>>
       /\ at.level = LOG2T => queue = <<>>
       /\ at.level < LOG2T /\ at.i >= Expanded(at.level) => queue = <<>>
       /\ at.level < LOG2T => JobsOf(BatchTree, queue, at.level)
       /\ \A k \in DOMAIN queue : queue[k].dsc < Current(at)

(* The signer's tree *)

\* Both children of an inner node hold what its seed expands to.
HoldsChildren(tree, l, i) ==
  /\ tree[Node(l, i)] \in Seed
  /\ tree[Node(l + 1, 2 * i)]     = Expand[<<tree[Node(l, i)], Node(l, i)>>][1]
  /\ tree[Node(l + 1, 2 * i + 1)] = Expand[<<tree[Node(l, i)], Node(l, i)>>][2]

\* Nodes that were passed and do not wait in the queue are expanded.
BuildInv ==
  /\ seed_tree[0] = RootSeed
  /\ \A l \in 0 .. LOG2T - 1 : \A i \in 0 .. Expanded(l) - 1 :
       \/ pc = "gen_seed_tree" /\ (Node(l, i) >= Current(at) \/ Queued(queue, Node(l, i)))
       \/ HoldsChildren(seed_tree, l, i)
  /\ pc # "gen_seed_tree" => round_seeds = seed_leaves(seed_tree)

(* Labels *)

\* A node is labelled to be published exactly if both its children are.
LabelOK(fl, l, i) ==
  fl[Node(l, i)] = TO_PUBLISH <=>
    /\ fl[Node(l + 1, 2 * i)] = TO_PUBLISH
    /\ fl[Node(l + 1, 2 * i + 1)] = TO_PUBLISH

LeavesLabelled(fl) == \A r \in Rounds : fl[LeafNode(r)] = indices_to_publish[r]

Labelled(fl) ==
  /\ LeavesLabelled(fl)
  /\ \A l \in 0 .. LOG2T - 1 : \A i \in 0 .. Expanded(l) - 1 : LabelOK(fl, l, i)

\* Labels are right above every pair of siblings compute_seeds_to_publish has
\* passed, and everywhere once it has returned.
FlagsInv ==
  /\ pc \notin {"gen_seed_tree", "generated"} =>
       indices_to_publish \in Challenges /\ LeavesLabelled(flags)
  /\ Computing =>
       \A l \in 0 .. LOG2T - 1 : \A i \in 0 .. Expanded(l) - 1 :
         Node(l + 1, 2 * i) > Current(at) => LabelOK(flags, l, i)
  /\ Scanning \/ pc \in {"published", "rebuilt"} => Labelled(flags)

(* The path *)

Topmost(fl, l, i) ==
  fl[Node(l, i)] = TO_PUBLISH /\ fl[Node(l - 1, i \div 2)] = NOT_TO_PUBLISH

\* The path has the topmost labelled nodes before n.
PathUpTo(fl, n) ==
  /\ \A k \in 1 .. Len(path_nodes) :
       /\ \E l \in 1 .. LOG2T : \E i \in 0 .. npl[l] - 1 :
            path_nodes[k] = Node(l, i) /\ Topmost(fl, l, i)
       /\ path_nodes[k] < n
  /\ \A l \in 1 .. LOG2T : \A i \in 0 .. npl[l] - 1 :
       Topmost(fl, l, i) /\ Node(l, i) < n =>
         \E k \in 1 .. Len(path_nodes) : path_nodes[k] = Node(l, i)

\* The path of labels that do not reach the root.
PathOf(fl) == fl[0] = NOT_TO_PUBLISH /\ PathUpTo(fl, 2 * T - 1)

PathInv ==
  /\ num_seeds_published = Len(path_nodes)
  /\ \A k \in 1 .. Len(path_nodes) : path[k - 1] = seed_tree[path_nodes[k]]
  /\ \A k \in Slots : k >= num_seeds_published => path[k] = NoSeed
  /\ \A j, k \in 1 .. Len(path_nodes) : j < k => path_nodes[j] < path_nodes[k]
  /\ pc \in {"gen_seed_tree", "generated", "seed_path_flags"} => path_nodes = <<>>
  /\ pc = "seed_path" =>
       /\ PathUpTo(flags, Current(at))
       /\ flags[0] = TO_PUBLISH =>
            \A l \in 1 .. LOG2T : \A i \in 0 .. npl[l] - 1 :
              Node(l, i) < Current(at) => flags[Node(l, i)] = TO_PUBLISH
  /\ pc \in {"published", "rebuild_tree", "rebuilt"} => PathOf(flags)

\* The verifier's labels become those of the signer, from the leaves up.
AgreeInv ==
  pc = "rebuild_flags" =>
    \E fl \in [Nodes -> Labels] :
      /\ Labelled(fl) /\ PathOf(fl)
      /\ \A l \in Levels : \A i \in 0 .. npl[l] - 1 :
           l = LOG2T \/ i >= Expanded(l) \/ Node(l + 1, 2 * i) > Current(at) =>
             flags[Node(l, i)] = fl[Node(l, i)]

(* The verifier's tree *)

\* The nodes rebuild_tree has filled when it arrives at node n: the labelled
\* ones it passed, and the children of those that left the queue.
Filled(l, i, n) ==
  /\ l > 0 /\ flags[Node(l, i)] = TO_PUBLISH
  /\ \/ Node(l, i) < n
     \/ /\ flags[Node(l - 1, i \div 2)] = TO_PUBLISH /\ Node(l - 1, i \div 2) < n
        /\ ~Queued(queue, Node(l - 1, i \div 2))

RebuiltUpTo(n) ==
  \A l \in Levels : \A i \in 0 .. npl[l] - 1 :
    rebuilt_tree[Node(l, i)] = IF Filled(l, i, n) THEN seed_tree[Node(l, i)] ELSE NoSeed

\* The published seeds below the current node are the ones used.
UsedUpTo(n) ==
  /\ nodes_used <= Len(path_nodes)
  /\ \A k \in 1 .. Len(path_nodes) : k <= nodes_used <=> path_nodes[k] < n

RebuildInv ==
  /\ pc \notin {"rebuild_tree", "rebuilt"} => rebuilt_tree = Blank /\ nodes_used = 0
  /\ pc = "rebuild_tree" =>
       /\ RebuiltUpTo(Current(at)) /\ UsedUpTo(Current(at))
       /\ \A k \in DOMAIN queue : flags[queue[k].dsc] = TO_PUBLISH
  /\ pc = "rebuilt" =>
       /\ RebuiltUpTo(2 * T - 1) /\ UsedUpTo(2 * T - 1)
       /\ rebuilt_seeds = seed_leaves(rebuilt_tree) /\ padding_ok

IInv == /\ TypeOK /\ Fits /\ PositionInv /\ QueueInv /\ BuildInv /\ FlagsInv
        /\ PathInv /\ AgreeInv /\ RebuildInv

-----------------------------------------------------------------------------
\* An honest path leaves the rest of its memory zero, and rebuild_tree, which
\* has used all of it, accepts.
PaddingAccepted == pc = "rebuilt" => padding_ok /\ nodes_used = num_seeds_published
=============================================================================
