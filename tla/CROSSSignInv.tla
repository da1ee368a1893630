---------------------------- MODULE CROSSSignInv -----------------------------
(***************************************************************************)
(* The inductive invariant of CROSSSign: what holds in the middle of every *)
(* loop of CROSS_sign and CROSS_verify and of the Merkle tree.  The seed   *)
(* tree has its own, in CROSSSeedTreeInv; what is said of it here is how   *)
(* it stands to the rest.  CROSSSign_proof proves both.                    *)
(***************************************************************************)
EXTENDS CROSSSign, FiniteSets

\* The path has room for what is published (see TreeTables).
Fits == num_seeds_published <= TREE_NODES_TO_STORE

Sent      == pc \in {"send", "verify_seeds", "verify_rounds", "compare", "done"}
Verifying == pc \in {"verify_rounds", "compare", "done"}

\* Which step of the scheme goes with which step of the trees.
FlowInv ==
  /\ i \in 0 .. T
  /\ \/ /\ pc = "sign_rounds" /\ m_pc = "start" /\ s_pc \in {"gen_seed_tree", "generated"}
        /\ i > 0 => s_pc = "generated"
     \/ pc = "sign_challenge" /\ m_pc \in {"tree_root", "root"} /\ s_pc = "generated"
     \/ pc = "sign_path" /\ m_pc \in {"tree_proof", "proof"} /\ s_pc = "generated"
     \/ /\ pc = "sign_responses" /\ m_pc = "proof"
        /\ s_pc \in {"seed_path_flags", "seed_path", "published"} /\ (i > 0 => s_pc = "published")
     \/ pc \in {"send", "verify_seeds"} /\ m_pc = "proof" /\ s_pc = "published"
     \/ /\ pc = "verify_rounds" /\ m_pc = "proof"
        /\ s_pc \in {"rebuild_flags", "rebuild_tree", "rebuilt"} /\ (i > 0 => s_pc = "rebuilt")
     \/ pc = "compare" /\ m_pc \in {"recompute_root", "recomputed"} /\ s_pc = "rebuilt" /\ i = T
     \/ pc = "done" /\ m_pc \in {"proof", "recomputed"} /\ s_pc = "rebuilt" /\ i = T
  /\ pc \notin {"sign_rounds", "sign_challenge"} => chall_2 \in Challenges
  /\ s_pc \notin {"gen_seed_tree", "generated"} => indices_to_publish = chall_2
  /\ m_pc \notin {"start", "tree_root", "root"} => leaves_to_reveal = chall_2

\* What is wrong with the signature is wrong from Send on: with the path and
\* the proof, in the first place that is not used.
FaultInv ==
  /\ fault \in {"none", "message", "path", "proof", "group"}
  /\ ~Sent \/ pc = "send" => fault = "none"
  /\ fault = "path" => /\ num_seeds_published < TREE_NODES_TO_STORE
                       /\ path[num_seeds_published] = RootSeed
  /\ fault = "proof" => Len(proof_nodes) < TREE_NODES_TO_STORE
  /\ fault = "group" => pc # "compare"
  /\ s_pc = "rebuilt" => (s_padding_ok <=> fault # "path")

(* The signer's commitments and responses *)

Commits0 == [r \in Rounds |-> Commit0[<<round_seeds[r], r>>]]
Commits1 == [r \in Rounds |-> Commit1[<<round_seeds[r], r>>]]

InQueue(q, r) == \E k \in DOMAIN q : q[k].round = r

\* A commitment is there for every round that does not wait in the queue.
SignerInv ==
  /\ pc = "sign_rounds" =>
       /\ queue1 = queue0 /\ (i = T => queue0 = <<>>)
       /\ \A k \in DOMAIN queue0 :
            queue0[k].round \in 0 .. i - 1 /\ queue0[k].in = round_seeds[queue0[k].round]
       /\ \A r \in 0 .. i - 1 :
            InQueue(queue0, r) \/ (cmt_0[r] = Commits0[r] /\ cmt_1[r] = Commits1[r])
  /\ pc \in {"sign_challenge", "sign_path", "sign_responses"} => cmt_1 = Commits1
  /\ pc \notin {"sign_rounds", "sign_challenge"} =>
       signed.root = tree[0] /\ signed.cmt_1 = Commits1

\* The rounds before n that are answered, and the place of the answer.
Answering(n) == {r \in 0 .. n - 1 : chall_2[r] = 0}
Place(n)     == Cardinality(Answering(n))

Answered(n) ==
  /\ Len(signed.resp_0) = Place(n) /\ Len(signed.resp_1) = Place(n)
  /\ \A r \in Answering(n) :
       /\ signed.resp_0[Place(r) + 1] = Response(round_seeds[r], "signed", r)
       /\ signed.resp_1[Place(r) + 1] = Commits1[r]

ResponseInv ==
  /\ ~Sent /\ pc # "sign_responses" => signed.resp_0 = <<>> /\ signed.resp_1 = <<>>
  /\ pc = "sign_responses" => Answered(i)
  /\ Sent => Answered(T)

(* The verifier's commitments *)

\* What the verifier hashes to a commitment cmt_0.
Input0(r) == IF Received = "signed" THEN round_seeds[r] ELSE NoSeed

VerifierInv ==
  Verifying =>
    /\ used_rsps = Place(i)
    /\ i = T => queue0 = <<>> /\ queue1 = <<>>
    /\ \A k \in DOMAIN queue0 : /\ queue0[k].round \in Answering(i)
                                /\ queue0[k].in = Input0(queue0[k].round)
    /\ \A k \in DOMAIN queue1 : /\ queue1[k].round \in (0 .. i - 1) \ Answering(i)
                                /\ queue1[k].in = round_seeds[queue1[k].round]
    /\ \A r \in Answering(i) :
         /\ InQueue(queue0, r) \/ cmt_0[r] = Commit0[<<Input0(r), r>>]
         /\ cmt_1[r] = Commits1[r] /\ y[r] = Response(round_seeds[r], "signed", r)
    /\ \A r \in (0 .. i - 1) \ Answering(i) :
         /\ InQueue(queue1, r) \/ cmt_1[r] = Commits1[r]
         /\ y[r] = Response(round_seeds[r], Received, r)

(* The Merkle tree *)

Contents == Digest \union {Garbage, Zero}
Pairs    == [in : Nodes, out : Nodes]

TreeTypeOK ==
  /\ m_at \in [level : Int, i : Int, start : Int]
  /\ m_queue \in Seq(Pairs)
  /\ tree \in [Nodes -> Contents] /\ recomputed_tree \in [Nodes -> Contents]
  /\ flag_tree \in [Nodes -> {Merkle!NOT_COMPUTED, Merkle!COMPUTED}]
  /\ proof \in [Merkle!Slots -> Contents] /\ proof_nodes \in Seq(Nodes) /\ published \in Nat

RoundTypeOK ==
  /\ cmt_0 \in [Rounds -> Digest \union {Zero}] /\ cmt_1 \in [Rounds -> Digest \union {Zero}]
  /\ y \in [Rounds -> [of : Seed \union {NoSeed}, to : Seq({"signed", "other"} \union Rounds)]]
  /\ signed \in [root : Contents, cmt_1 : [Rounds -> Digest \union {Zero}],
                 resp_0 : Seq([of : Seed, to : Seq({"signed", "other"} \union Rounds)]),
                 resp_1 : Seq(Digest \union {Zero})]
  /\ queue0 \in Seq([round : Rounds, in : Seed \union {NoSeed}])
  /\ queue1 \in Seq([round : Rounds, in : Seed \union {NoSeed}])

TypeOK == /\ TreeTypeOK /\ RoundTypeOK
          /\ path \in [Seeds!Slots -> Seed \union {NoSeed}]

\* The walks stay in the tree, on even positions, and end above the root.
PositionInv ==
  m_pc # "start" =>
    /\ m_at.level \in Levels /\ m_at.start = LevelStart[m_at.level]
    /\ m_at.level > 0 => m_at.i \in 0 .. npl[m_at.level] - 2 /\ m_at.i % 2 = 0
    /\ m_at.level = 0 => m_at.i = -1
    /\ m_pc \in {"root", "proof", "recomputed"} => m_at.level = 0

\* The pair below node i of level l was passed.
Passed(l, i1) == Node(l + 1, 2 * i1) > Current(m_at)

BatchTree == IF m_pc = "tree_root" THEN tree ELSE recomputed_tree

\* The jobs of the queue: pairs of the level being walked, passed, with a digest
\* in either place.  The queue is empty where a level begins.
QueueInv ==
  /\ Len(m_queue) < BATCH
  /\ m_pc \notin {"tree_root", "recompute_root"} => m_queue = <<>>
  /\ m_at.level = 0 => m_queue = <<>>
  /\ m_at.i = npl[m_at.level] - 2 => m_queue = <<>>
  /\ \A k \in DOMAIN m_queue : \E j \in 0 .. Expanded(m_at.level - 1) - 1 :
       /\ m_queue[k] = [in |-> Node(m_at.level, 2 * j), out |-> Node(m_at.level - 1, j)]
       /\ Passed(m_at.level - 1, j)
       /\ BatchTree[Node(m_at.level, 2 * j)] \in Digest
       /\ BatchTree[Node(m_at.level, 2 * j + 1)] \in Digest

Queued(n) == \E k \in DOMAIN m_queue : m_queue[k].out = n

\* A node holds the hash of its children.
IsHash(l, i1) ==
  /\ tree[Node(l + 1, 2 * i1)] \in Digest /\ tree[Node(l + 1, 2 * i1 + 1)] \in Digest
  /\ tree[Node(l, i1)] = HashPair[<<tree[Node(l + 1, 2 * i1)], tree[Node(l + 1, 2 * i1 + 1)]>>]

\* The signer's tree: the commitments, and above them what was hashed so far.
HashedInv ==
  m_pc # "start" =>
    /\ \A r \in Rounds : tree[LeafNode(r)] = Commits0[r]
    /\ \A l \in 0 .. LOG2T - 1 : \A i1 \in 0 .. Expanded(l) - 1 :
         \/ m_pc = "tree_root" /\ (~Passed(l, i1) \/ Queued(Node(l, i1)))
         \/ IsHash(l, i1)

IsComputed(l, i1) == flag_tree[Node(l, i1)] = Merkle!COMPUTED

\* Labels: a node can be computed if one of its children can, and some node
\* that is still to be passed can, in the end the root.
FlagInv ==
  m_pc \notin {"start", "tree_root", "root"} =>
    /\ \A r \in Rounds : flag_tree[LeafNode(r)] = Merkle!COMPUTED <=> chall_2[r] = 0
    /\ \A l \in 0 .. LOG2T - 1 : \A i1 \in 0 .. Expanded(l) - 1 :
         IsComputed(l, i1) <=>
           Passed(l, i1) /\ (IsComputed(l + 1, 2 * i1) \/ IsComputed(l + 1, 2 * i1 + 1))
    /\ \E n \in Nodes : n <= Current(m_at) + 1 /\ flag_tree[n] = Merkle!COMPUTED

Sibling(i1) == IF i1 % 2 = 0 THEN i1 + 1 ELSE i1 - 1

\* The digests a verifier lacks.
IsMissing(l, i1) == ~IsComputed(l, i1) /\ IsComputed(l, Sibling(i1))

ProofInv ==
  /\ \A k \in 1 .. Len(proof_nodes) : k - 1 \in Merkle!Slots =>
       proof[k - 1] = tree[proof_nodes[k]]
  /\ \A k \in Merkle!Slots : k >= Len(proof_nodes) =>
       proof[k] = IF fault = "proof" /\ k = Len(proof_nodes) THEN tree[0] ELSE Zero
  /\ \A j, k \in 1 .. Len(proof_nodes) : j < k => proof_nodes[k] < proof_nodes[j]
  /\ m_pc \in {"start", "tree_root", "root"} => proof_nodes = <<>> /\ published = 0
  /\ m_pc \in {"tree_proof", "proof"} =>
       /\ published = Len(proof_nodes)
       /\ \A k \in 1 .. Len(proof_nodes) :
            /\ proof_nodes[k] > Current(m_at) + 1
            /\ \E l \in 1 .. LOG2T : \E i1 \in 0 .. npl[l] - 1 :
                 proof_nodes[k] = Node(l, i1) /\ IsMissing(l, i1)
       /\ \A l \in 1 .. LOG2T : \A i1 \in 0 .. npl[l] - 1 :
            Node(l, i1) > Current(m_at) + 1 /\ IsMissing(l, i1) =>
              \E k \in 1 .. Len(proof_nodes) : proof_nodes[k] = Node(l, i1)

(* The two trees *)

Opposite(n) == s_flags[n] = Seeds!TO_PUBLISH <=> flag_tree[n] = Merkle!NOT_COMPUTED

\* Where both have labels, a seed is to be published if the digest cannot be
\* computed.
OppositeInv ==
  /\ s_pc \in {"seed_path_flags", "seed_path", "published"} =>
       /\ \A r \in Rounds : Opposite(LeafNode(r))
       /\ \A l \in 0 .. LOG2T - 1 : \A i1 \in 0 .. Expanded(l) - 1 :
            s_pc # "seed_path_flags" \/ Node(l + 1, 2 * i1) > Current(s_at) =>
              Opposite(Node(l, i1))
  /\ m_pc \in {"recompute_root", "recomputed"} =>
       /\ \A r \in Rounds : Opposite(LeafNode(r))
       /\ \A l \in 0 .. LOG2T - 1 : \A i1 \in 0 .. Expanded(l) - 1 :
            Passed(l, i1) => Opposite(Node(l, i1))

Entries(s) == {s[k] : k \in DOMAIN s}

NodesInv == Sent => Entries(path_nodes) = Entries(proof_nodes)

(* The verifier's Merkle tree *)

\* What is in the verifier's tree is a digest, and the signer's if the
\* commitments are.
Right1(n) == /\ recomputed_tree[n] \in Digest
             /\ fault # "message" => recomputed_tree[n] = tree[n]

RecomputeInv ==
  m_pc \in {"recompute_root", "recomputed"} =>
    /\ published <= Len(proof_nodes)
    /\ \A k \in 1 .. Len(proof_nodes) : k <= published <=> proof_nodes[k] > Current(m_at) + 1
    /\ \A n \in Nodes : flag_tree[n] = Merkle!COMPUTED => Queued(n) \/ Right1(n)
    /\ \A k \in DOMAIN m_queue : Right1(m_queue[k].in) /\ Right1(m_queue[k].in + 1)
    /\ m_pc = "recomputed" => (m_padding_ok <=> fault # "proof")

IInv == /\ FlowInv /\ FaultInv /\ SignerInv /\ ResponseInv /\ VerifierInv
        /\ TypeOK /\ PositionInv /\ QueueInv /\ HashedInv /\ FlagInv /\ ProofInv
        /\ OppositeInv /\ NodesInv /\ RecomputeInv /\ Accepted
=============================================================================
