----------------------------- MODULE CROSSMerkle -----------------------------
(***************************************************************************)
(* The Merkle tree of CROSS (Optimized_Implementation/lib/merkle.c): the   *)
(* signer hashes the commitments of all rounds up to a root and publishes  *)
(* the digests a verifier lacks, who knows the commitments of the rounds   *)
(* with challenge 0 only.  Both walk from the leaves upwards, pairs of     *)
(* siblings from right to left, and hash in batches of four.               *)
(***************************************************************************)
EXTENDS CROSSTree

CONSTANTS Digest,    \* the digests that are not zero
          Garbage,   \* memory no digest was written to
          Zero,      \* zero bytes: what the proof is cleared to
          HashPair,  \* the hash of two neighbouring digests
          TREE_NODES_TO_STORE \* the digests the proof has room for

\* No digest is all zero, none equals what uninitialised memory holds.
DigestAssumption ==
  /\ Garbage \notin Digest \union {Zero} /\ Zero \notin Digest
  /\ HashPair \in [Digest \X Digest -> Digest]
  /\ TREE_NODES_TO_STORE \in Nat

CHALLENGE_PROOF_VALUE == 0
NOT_COMPUTED == 0
COMPUTED     == 1

VARIABLES
  pc,                 \* the function being run, or what it has returned
  at,                 \* its loop position
  queue,              \* in_pos_queue and out_pos_queue
  tree,               \* the signer's tree; its node 0 is the root
  leaves_to_reveal,   \* the challenge
  flag_tree,          \* of the running function
  proof,              \* mtp, in the signature
  proof_nodes,        \* the nodes it was taken from (not in the code)
  published,          \* of the running function
  recomputed_tree,    \* the verifier's tree
  padding_ok          \* what recompute_root returns

vars  == <<pc, at, queue, tree, leaves_to_reveal, flag_tree, proof, proof_nodes, published,
           recomputed_tree, padding_ok>>

Slots == 0 .. TREE_NODES_TO_STORE - 1

Init ==
  /\ pc = "start" /\ at = FromLeaves /\ queue = <<>>
  /\ tree = [n \in Nodes |-> Garbage] /\ recomputed_tree = [n \in Nodes |-> Garbage]
  /\ leaves_to_reveal = [r \in Rounds |-> 0]
  /\ flag_tree = [n \in Nodes |-> NOT_COMPUTED]
  /\ proof = [k \in Slots |-> Zero] /\ proof_nodes = <<>> /\ published = 0
  /\ padding_ok = FALSE

(* Batches *)

Left      == Current(at)
Right     == SIBLING(Current(at))
Job       == [in |-> Left, out |-> ParentOf(at)]
Hash(l, r) == IF {l, r} \subseteq Digest THEN HashPair[<<l, r>>] ELSE Garbage

\* Mutant: a batch is flushed only when it is full.
FlushFull(q) == Len(q) = BATCH

\* A full batch, or the last pair of the level.
Flush(q) == Len(q) = BATCH \/ at.i = 0

\* hash_par reads a digest and its right neighbour when the batch is run.
RunBatch(t, q) ==
  [n \in Nodes |->
     IF \E k \in DOMAIN q : q[k].out = n
       THEN LET k == CHOOSE k \in DOMAIN q : q[k].out = n
            IN  Hash(t[q[k].in], t[q[k].in + 1])
       ELSE t[n]]

(* tree_root *)

CallTreeRoot(leaves) ==
  /\ pc = "start"
  /\ tree' = WithLeaves(tree, leaves)
  /\ at' = FromLeaves
  /\ pc' = "tree_root"
  /\ UNCHANGED <<queue, leaves_to_reveal, flag_tree, proof, proof_nodes, published,
                 recomputed_tree, padding_ok>>

HashUp ==
  /\ pc = "tree_root" /\ at.level > 0
  /\ LET q == Append(queue, Job)
     IN  /\ tree' = IF Flush(q) THEN RunBatch(tree, q) ELSE tree
         /\ queue' = IF Flush(q) THEN <<>> ELSE q
  /\ at' = Up(at)
  /\ UNCHANGED <<pc, leaves_to_reveal, flag_tree, proof, proof_nodes, published,
                 recomputed_tree, padding_ok>>

RootDone ==
  /\ pc = "tree_root" /\ at.level = 0
  /\ pc' = "root"
  /\ UNCHANGED <<at, queue, tree, leaves_to_reveal, flag_tree, proof, proof_nodes,
                 published, recomputed_tree, padding_ok>>

(* tree_proof *)

label_leaves(ch) ==
  [n \in Nodes |-> IF n \in Leaves /\ ch[RoundAt[n]] = CHALLENGE_PROOF_VALUE
                     THEN COMPUTED ELSE NOT_COMPUTED]

CallTreeProof(ch) ==
  /\ pc = "root"
  /\ leaves_to_reveal' = ch
  /\ flag_tree' = label_leaves(ch)
  /\ at' = FromLeaves
  /\ pc' = "tree_proof"
  /\ UNCHANGED <<queue, tree, proof, proof_nodes, published, recomputed_tree, padding_ok>>

\* The digest the verifier will lack at this pair: at most one of the two.
LeftMissing  == flag_tree[Left] = NOT_COMPUTED /\ flag_tree[Right] = COMPUTED
RightMissing == flag_tree[Left] = COMPUTED /\ flag_tree[Right] = NOT_COMPUTED
SomeComputed == COMPUTED \in {flag_tree[Left], flag_tree[Right]}

\* Mutant: a right sibling that is missing is not published.
MissingLeftOnly == IF LeftMissing THEN <<Left>> ELSE <<>>

Missing == IF LeftMissing THEN <<Left>> ELSE IF RightMissing THEN <<Right>> ELSE <<>>

FlagParent ==
  flag_tree' = [flag_tree EXCEPT ![ParentOf(at)] = IF SomeComputed THEN COMPUTED ELSE @]

ProveUp ==
  /\ pc = "tree_proof" /\ at.level > 0
  /\ FlagParent
  /\ proof' = IF Missing = <<>> THEN proof
                                ELSE [proof EXCEPT ![published] = tree[Missing[1]]]
  /\ proof_nodes' = proof_nodes \o Missing
  /\ published' = published + Len(Missing)
  /\ at' = Up(at)
  /\ UNCHANGED <<pc, queue, tree, leaves_to_reveal, recomputed_tree, padding_ok>>

ProofDone ==
  /\ pc = "tree_proof" /\ at.level = 0
  /\ pc' = "proof"
  /\ UNCHANGED <<at, queue, tree, leaves_to_reveal, flag_tree, proof, proof_nodes,
                 published, recomputed_tree, padding_ok>>

(* recompute_root *)

CallRecomputeRoot(leaves) ==
  /\ pc = "proof"
  /\ recomputed_tree' = WithLeaves(recomputed_tree, leaves)
  /\ flag_tree' = label_leaves(leaves_to_reveal)
  /\ published' = 0
  /\ at' = FromLeaves
  /\ pc' = "recompute_root"
  /\ UNCHANGED <<queue, tree, leaves_to_reveal, proof, proof_nodes, padding_ok>>

Stored(k) == IF k \in Slots THEN proof[k] ELSE Garbage

\* The missing one of two siblings is taken from the proof, then the pair is
\* queued; a pair without a computed digest is skipped, but it too may be the
\* last of its level and flush the queue.
RecomputeUp ==
  /\ pc = "recompute_root" /\ at.level > 0
  /\ FlagParent
  /\ LET placed == IF Missing = <<>> THEN recomputed_tree
                   ELSE [recomputed_tree EXCEPT ![Missing[1]] = Stored(published)]
         q == IF SomeComputed THEN Append(queue, Job) ELSE queue
     IN  /\ recomputed_tree' = IF Flush(q) THEN RunBatch(placed, q) ELSE placed
         /\ queue' = IF Flush(q) THEN <<>> ELSE q
  /\ published' = published + Len(Missing)
  /\ at' = Up(at)
  /\ UNCHANGED <<pc, tree, leaves_to_reveal, proof, proof_nodes, padding_ok>>

PaddingIsZero == \A k \in Slots : k >= published => proof[k] = Zero

RecomputeDone ==
  /\ pc = "recompute_root" /\ at.level = 0
  /\ padding_ok' = PaddingIsZero
  /\ pc' = "recomputed"
  /\ UNCHANGED <<at, queue, tree, leaves_to_reveal, flag_tree, proof, proof_nodes,
                 published, recomputed_tree>>

Steps == HashUp \/ RootDone \/ ProveUp \/ ProofDone \/ RecomputeUp \/ RecomputeDone

\* What CROSS_verify passes for the rounds with challenge 0 are the commitments
\* of the signer; the others were never computed.
HonestLeaves(leaves) ==
  \A r \in Rounds : leaves_to_reveal[r] = CHALLENGE_PROOF_VALUE =>
    leaves[r] = tree[LeafOf[r]]

Next ==
  \/ Steps
  \/ \E leaves \in [Rounds -> Digest] : CallTreeRoot(leaves)
  \/ \E ch \in Challenges : CallTreeProof(ch)
  \/ \E leaves \in [Rounds -> Digest \union {Zero}] :
       HonestLeaves(leaves) /\ CallRecomputeRoot(leaves)

Spec == Init /\ [][Next]_vars /\ WF_vars(Steps)
-----------------------------------------------------------------------------
\* Whatever the verifier calls computed is the signer's digest, unless it is
\* still in the queue: a digest of the proof put at a wrong node, or a batch
\* run too late, breaks this long before the root does.
ComputedAgrees ==
  pc \in {"recompute_root", "recomputed"} =>
    \A n \in Nodes : flag_tree[n] = COMPUTED =>
      recomputed_tree[n] = tree[n] \/ \E k \in DOMAIN queue : queue[k].out = n

\* A batch never hashes memory that holds no digest, nor a digest that is
\* itself still to come out of the queue; and a batch is run before the queue
\* of four would take a fifth job.
QueuedAreDefined ==
  LET t == IF pc = "tree_root" THEN tree ELSE recomputed_tree
  IN  /\ Len(queue) < BATCH
      /\ \A k \in DOMAIN queue :
           /\ t[queue[k].in] \in Digest /\ t[queue[k].in + 1] \in Digest
           /\ \A j \in DOMAIN queue : queue[j].out \notin {queue[k].in, queue[k].in + 1}
=============================================================================
