---------------------------- MODULE CROSSSeedTree ----------------------------
(***************************************************************************)
(* The seed tree of CROSS (Optimized_Implementation/lib/seedtree.c).  It   *)
(* promises what the tree of SPECK and LESS promises, but nodes are        *)
(* expanded in batches: a node that is to be expanded is queued with a     *)
(* copy of its seed, and its children appear only when the queue is        *)
(* flushed.  After rebuilding, the verifier checks that the part of the    *)
(* path it has not used is zero.                                           *)
(***************************************************************************)
EXTENDS CROSSTree

CONSTANTS Seed,     \* the seeds that are not zero
          NoSeed,   \* zero bytes: what every tree and the path are cleared to
          RootSeed, \* the seed the signer draws
          Expand,   \* the CSPRNG: <<seed, domain separator>> to two seeds
          TREE_NODES_TO_STORE \* the seeds path has room for

TO_PUBLISH     == 1
NOT_TO_PUBLISH == 0

\* No seed is all zero (the CSPRNG yields it with negligible probability).
SeedAssumption ==
  /\ NoSeed \notin Seed /\ RootSeed \in Seed
  /\ Expand \in [Seed \X Nodes -> Seed \X Seed]
  /\ TREE_NODES_TO_STORE \in Nat

VARIABLES
  pc,                 \* the function being run, or what it has returned
  at,                 \* its loop position
  queue,              \* in_queue, in_queue_dsc and out_pos_queue
  seed_tree, round_seeds,         \* the signer's
  indices_to_publish,             \* the challenge
  flags,              \* flags_tree_to_publish of the running function
  path, num_seeds_published,      \* in the signature
  path_nodes,         \* the nodes the path was taken from (not in the code)
  rebuilt_tree, nodes_used, rebuilt_seeds,  \* the verifier's
  padding_ok          \* what rebuild_tree returns

signer   == <<seed_tree, round_seeds>>
labels   == <<indices_to_publish, flags>>
stored   == <<path, num_seeds_published, path_nodes>>
verifier == <<rebuilt_tree, nodes_used, rebuilt_seeds, padding_ok>>
vars     == <<pc, at, queue, signer, labels, stored, verifier>>

Blank  == [n \in Nodes |-> NoSeed]
Slots  == 0 .. TREE_NODES_TO_STORE - 1

Init ==
  /\ pc = "gen_seed_tree" /\ at = FromRoot(0) /\ queue = <<>>
  /\ seed_tree = [Blank EXCEPT ![0] = RootSeed]
  /\ round_seeds = [r \in Rounds |-> NoSeed]
  /\ indices_to_publish = [r \in Rounds |-> NOT_TO_PUBLISH]
  /\ flags = [n \in Nodes |-> NOT_TO_PUBLISH]
  /\ path = [k \in Slots |-> NoSeed]
  /\ num_seeds_published = 0 /\ path_nodes = <<>>
  /\ rebuilt_tree = Blank /\ nodes_used = 0
  /\ rebuilt_seeds = [r \in Rounds |-> NoSeed] /\ padding_ok = FALSE

(* The queue *)

\* The seed is copied when a node is queued.
Job(tree) == [seed  |-> tree[Current(at)], dsc |-> Current(at),
              child |-> LeftChildNode(Current(at), at.level)]

\* Mutant: a batch is flushed only when it is full.
FlushFull(q) == Len(q) = BATCH

\* A full batch, or the last node of the level that is not a leaf.
Flush(q) == Len(q) = BATCH \/ at.i = Expanded(at.level) - 1

Children(job) == IF job.seed = NoSeed THEN <<NoSeed, NoSeed>>
                                      ELSE Expand[<<job.seed, job.dsc>>]

\* csprng_randombytes_par: every job of the batch writes its two children.
RunBatch(tree, q) ==
  [n \in Nodes |->
     IF \E k \in DOMAIN q : n \in {q[k].child, q[k].child + 1}
       THEN LET k == CHOOSE k \in DOMAIN q : n \in {q[k].child, q[k].child + 1}
            IN  Children(q[k])[n - q[k].child + 1]
       ELSE tree[n]]

(* gen_seed_tree and seed_leaves *)

GenNode ==
  /\ pc = "gen_seed_tree" /\ at.level < LOG2T
  /\ LET q == Append(queue, Job(seed_tree))
     IN  /\ seed_tree' = IF Flush(q) THEN RunBatch(seed_tree, q) ELSE seed_tree
         /\ queue' = IF Flush(q) THEN <<>> ELSE q
  /\ at' = Down(at, Expanded(at.level))
  /\ UNCHANGED <<pc, round_seeds, labels, stored, verifier>>

\* Mutant: the leaves are the last T cells, as in a tree that is not truncated.
seed_leaves_heap(tree) == [r \in Rounds |-> tree[T - 1 + r]]

seed_leaves(tree) == [r \in Rounds |-> tree[LeafOf[r]]]

GenDone ==
  /\ pc = "gen_seed_tree" /\ at.level = LOG2T
  /\ round_seeds' = seed_leaves(seed_tree)
  /\ pc' = "generated"
  /\ UNCHANGED <<at, queue, seed_tree, labels, stored, verifier>>

(* compute_seeds_to_publish, called by seed_path and by rebuild_tree *)

StartFlags(ch) ==
  /\ flags' = WithLeaves([n \in Nodes |-> NOT_TO_PUBLISH], ch)
  /\ at' = FromLeaves

\* seed_path is called with the challenge.
Open(ch) ==
  /\ pc = "generated"
  /\ indices_to_publish' = ch
  /\ StartFlags(ch)
  /\ pc' = "seed_path_flags"
  /\ UNCHANGED <<queue, signer, stored, verifier>>

\* Mutant: one child is enough.
EitherToPublish == TO_PUBLISH \in {flags[Current(at)], flags[SIBLING(Current(at))]}

BothToPublish == /\ flags[Current(at)] = TO_PUBLISH
                 /\ flags[SIBLING(Current(at))] = TO_PUBLISH

FlagParent ==
  /\ pc \in {"seed_path_flags", "rebuild_flags"} /\ at.level > 0
  /\ flags' = [flags EXCEPT ![ParentOf(at)] =
                 IF BothToPublish THEN TO_PUBLISH ELSE NOT_TO_PUBLISH]
  /\ at' = Up(at)
  /\ UNCHANGED <<pc, queue, signer, indices_to_publish, stored, verifier>>

FlagsDone ==
  /\ pc \in {"seed_path_flags", "rebuild_flags"} /\ at.level = 0
  /\ pc' = IF pc = "seed_path_flags" THEN "seed_path" ELSE "rebuild_tree"
  /\ at' = FromRoot(1)
  /\ UNCHANGED <<queue, signer, labels, stored, verifier>>

(* seed_path *)

Published == flags[Current(at)] = TO_PUBLISH /\ flags[ParentOf(at)] = NOT_TO_PUBLISH

ScanNode ==
  /\ pc = "seed_path" /\ at.level <= LOG2T
  /\ IF Published
       THEN /\ path' = [path EXCEPT ![num_seeds_published] = seed_tree[Current(at)]]
            /\ num_seeds_published' = num_seeds_published + 1
            /\ path_nodes' = Append(path_nodes, Current(at))
       ELSE UNCHANGED stored
  /\ at' = Down(at, npl[at.level])
  /\ UNCHANGED <<pc, queue, signer, labels, verifier>>

PathDone ==
  /\ pc = "seed_path" /\ at.level > LOG2T
  /\ pc' = "published"
  /\ UNCHANGED <<at, queue, signer, labels, stored, verifier>>

(* rebuild_tree *)

CallRebuild ==
  /\ pc = "published"
  /\ StartFlags(indices_to_publish)
  /\ pc' = "rebuild_flags"
  /\ UNCHANGED <<queue, signer, indices_to_publish, stored, verifier>>

StoredSeed(k) == IF k \in Slots THEN path[k] ELSE NoSeed

\* One node: placed if it was published, queued if it is to be expanded, and
\* the queue is looked at whether or not this node joined it.
RebuildNode ==
  /\ pc = "rebuild_tree" /\ at.level <= LOG2T
  /\ LET tree == IF Published THEN [rebuilt_tree EXCEPT ![Current(at)] = StoredSeed(nodes_used)]
                              ELSE rebuilt_tree
         q    == IF flags[Current(at)] = TO_PUBLISH /\ at.i < Expanded(at.level)
                   THEN Append(queue, Job(tree)) ELSE queue
     IN  /\ rebuilt_tree' = IF Flush(q) THEN RunBatch(tree, q) ELSE tree
         /\ queue' = IF Flush(q) THEN <<>> ELSE q
  /\ nodes_used' = IF Published THEN nodes_used + 1 ELSE nodes_used
  /\ at' = Down(at, npl[at.level])
  /\ UNCHANGED <<pc, signer, labels, stored, rebuilt_seeds, padding_ok>>

PaddingIsZero == \A k \in Slots : k >= nodes_used => path[k] = NoSeed

\* The padding check, and seed_leaves of the caller.
RebuildDone ==
  /\ pc = "rebuild_tree" /\ at.level > LOG2T
  /\ padding_ok' = PaddingIsZero
  /\ rebuilt_seeds' = seed_leaves(rebuilt_tree)
  /\ pc' = "rebuilt"
  /\ UNCHANGED <<at, queue, signer, labels, stored, rebuilt_tree, nodes_used>>

Steps == GenNode \/ GenDone \/ FlagParent \/ FlagsDone \/ ScanNode \/ PathDone
           \/ RebuildNode \/ RebuildDone
Next  == Steps \/ CallRebuild \/ \E ch \in Challenges : Open(ch)
Spec  == Init /\ [][Next]_vars /\ WF_vars(Steps)
-----------------------------------------------------------------------------
\* Batching is invisible: no loop reads a node whose seed is still to come out
\* of the queue, every queued seed is the one its node holds, and the queue is
\* empty when a level begins, although it is looked at by nodes that join it
\* and by nodes that do not; nor does it ever take a fifth job.
NeverReadPending ==
  pc \in {"gen_seed_tree", "rebuild_tree"} =>
    LET tree == IF pc = "gen_seed_tree" THEN seed_tree ELSE rebuilt_tree
    IN  /\ at.i = 0 => queue = <<>>
        /\ Len(queue) < BATCH
        /\ \A k \in DOMAIN queue :
             /\ queue[k].seed = tree[queue[k].dsc] /\ queue[k].seed # NoSeed
             /\ Current(at) \notin {queue[k].child, queue[k].child + 1}

\* What the tree implements: one seed per round, and for the verifier those of
\* the rounds the challenge opens and no other.
RS == INSTANCE RoundSeeds WITH
        Openings  <- {{r \in Rounds : ch[r] = TO_PUBLISH} : ch \in Challenges},
        phase     <- IF pc = "gen_seed_tree" THEN "generate"
                     ELSE IF pc = "generated" THEN "challenge"
                     ELSE IF pc = "rebuilt" THEN "done" ELSE "recover",
        seeds     <- round_seeds,
        opened    <- IF pc \in {"gen_seed_tree", "generated"} THEN {}
                     ELSE {r \in Rounds : indices_to_publish[r] = TO_PUBLISH},
        recovered <- rebuilt_seeds
=============================================================================
