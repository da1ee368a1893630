------------------------------ MODULE CROSSSign ------------------------------
(***************************************************************************)
(* CROSS_sign and CROSS_verify (Optimized_Implementation/lib/CROSS.c): one *)
(* signature and its verification, over the two trees.  The arithmetic is  *)
(* abstract: what a commitment or a response is computed from is kept, the *)
(* computation is not.  The commitments of the rounds are hashed in        *)
(* batches of four: by the signer with one queue, by the verifier with     *)
(* two, which different rounds of one loop fill.                           *)
(***************************************************************************)
EXTENDS CROSSTree

CONSTANTS Seed, NoSeed, RootSeed, Expand,         \* of the seed tree
          Digest, Garbage, Zero, HashPair,        \* of the Merkle tree
          TREE_NODES_TO_STORE,
          Commit0, \* digest of s_prime and v_bar, named by the seed they come from
          Commit1, \* digest of a seed; both for a domain separator, the round
          Faults   \* what may be wrong with what the verifier gets

VARIABLES
  s_pc, s_at, s_queue, seed_tree, round_seeds, indices_to_publish, s_flags, path,
  num_seeds_published, path_nodes, rebuilt_tree, nodes_used, rebuilt_seeds, s_padding_ok,
  m_pc, m_at, m_queue, tree, leaves_to_reveal, flag_tree, proof, proof_nodes, published,
  recomputed_tree, m_padding_ok,
  pc,               \* the part of CROSS_sign or CROSS_verify being run
  i,                \* the round
  queue0, queue1,   \* cmt_0_i_input, cmt_1_i_input and their round_idx_queue
  cmt_0, cmt_1,     \* the commitments of the function being run
  chall_2,
  signed,           \* in the signature: cmt_1 and the root, digested to digest_cmt,
                    \* the responses resp_0 and resp_1
  y,                \* the verifier's first responses
  used_rsps,
  fault,            \* what is wrong with what the verifier gets
  verdict           \* what CROSS_verify returns, or that an assert stops it

seeds  == <<s_pc, s_at, s_queue, seed_tree, round_seeds, indices_to_publish, s_flags, path,
            num_seeds_published, path_nodes, rebuilt_tree, nodes_used, rebuilt_seeds,
            s_padding_ok>>
merkle == <<m_pc, m_at, m_queue, tree, leaves_to_reveal, flag_tree, proof, proof_nodes,
            published, recomputed_tree, m_padding_ok>>
rounds == <<i, queue0, queue1, cmt_0, cmt_1, y, used_rsps>>
vars   == <<seeds, merkle, rounds, pc, chall_2, signed, fault, verdict>>

Seeds  == INSTANCE CROSSSeedTree WITH pc <- s_pc, at <- s_at, queue <- s_queue,
            flags <- s_flags, padding_ok <- s_padding_ok
Merkle == INSTANCE CROSSMerkle WITH pc <- m_pc, at <- m_at, queue <- m_queue,
            padding_ok <- m_padding_ok

ASSUME CROSSAssumption == Seeds!SeedAssumption /\ Merkle!DigestAssumption

\* A commitment to zero bytes is a digest like any other.
ASSUME CommitAssumption ==
  /\ Commit0 \in [(Seed \union {NoSeed}) \X Rounds -> Digest]
  /\ Commit1 \in [(Seed \union {NoSeed}) \X Rounds -> Digest]

ASSUME FaultsAssumption == Faults \subseteq {"none", "message", "path", "proof", "group"}

NoCommitments == [r \in Rounds |-> Zero]
NoResponse    == [of |-> NoSeed, to |-> <<>>]

\* chall_1 is drawn from the message and from what the verifier copies out of
\* the signature, so the message alone tells whether both draw the same.
Chall1(message, r) == <<message, r>>
Received == IF fault = "message" THEN "other" ELSE "signed"

\* The first response of a round.
Response(seed, message, r) == [of |-> seed, to |-> Chall1(message, r)]

\* memset clears the signature, so path and proof start as zero.
Init ==
  /\ Seeds!Init /\ Merkle!Init
  /\ pc = "sign_rounds" /\ i = 0
  /\ queue0 = <<>> /\ queue1 = <<>>
  /\ cmt_0 = NoCommitments /\ cmt_1 = NoCommitments
  /\ chall_2 = [r \in Rounds |-> 0]
  /\ signed = [root |-> Zero, cmt_1 |-> NoCommitments, resp_0 |-> <<>>, resp_1 |-> <<>>]
  /\ y = [r \in Rounds |-> NoResponse] /\ used_rsps = 0
  /\ fault = "none" /\ verdict = "none"

TreeStep ==
  /\ \/ Seeds!Steps /\ UNCHANGED merkle
     \/ Merkle!Steps /\ UNCHANGED seeds
  /\ UNCHANGED <<rounds, pc, chall_2, signed, fault, verdict>>

(* Batches of commitments *)

\* Mutant: the last round flushes only the queue it has joined.
FlushJoined(q) == Len(q) = BATCH \/ (i = T - 1 /\ q # <<>> /\ q[Len(q)].round = i)

Flush(q) == Len(q) = BATCH \/ i = T - 1

RunBatch(cmt, q, Commit) ==
  [r \in Rounds |->
     IF \E k \in DOMAIN q : q[k].round = r
       THEN LET k == CHOOSE k \in DOMAIN q : q[k].round = r IN Commit[<<q[k].in, q[k].round>>]
       ELSE cmt[r]]

(* CROSS_sign *)

\* One round; the two commitments have queues of the same rounds.
SignRound ==
  /\ pc = "sign_rounds" /\ s_pc = "generated" /\ i < T
  /\ LET q == Append(queue0, [round |-> i, in |-> round_seeds[i]])
     IN  /\ queue0' = IF Flush(q) THEN <<>> ELSE q
         /\ queue1' = queue0'
         /\ cmt_0' = IF Flush(q) THEN RunBatch(cmt_0, q, Commit0) ELSE cmt_0
         /\ cmt_1' = IF Flush(q) THEN RunBatch(cmt_1, q, Commit1) ELSE cmt_1
  /\ i' = i + 1
  /\ UNCHANGED <<seeds, merkle, y, used_rsps, pc, chall_2, signed, fault, verdict>>

SignRoot ==
  /\ pc = "sign_rounds" /\ i = T
  /\ Merkle!CallTreeRoot(cmt_0)
  /\ pc' = "sign_challenge"
  /\ UNCHANGED <<seeds, rounds, chall_2, signed, fault, verdict>>

\* The root and cmt_1 are digested; the challenge is a digest of theirs and may
\* be any.  The proof of the Merkle tree comes first.
SignProof ==
  /\ pc = "sign_challenge" /\ m_pc = "root"
  /\ signed' = [signed EXCEPT !.root = tree[0], !.cmt_1 = cmt_1]
  /\ \E ch \in Challenges : chall_2' = ch /\ Merkle!CallTreeProof(ch)
  /\ pc' = "sign_path"
  /\ UNCHANGED <<seeds, rounds, fault, verdict>>

SignPath ==
  /\ pc = "sign_path" /\ m_pc = "proof"
  /\ Seeds!Open(chall_2)
  /\ i' = 0
  /\ pc' = "sign_responses"
  /\ UNCHANGED <<merkle, queue0, queue1, cmt_0, cmt_1, y, used_rsps, chall_2, signed, fault,
                 verdict>>

\* A round of challenge 0 takes the next place.
SignResponse ==
  /\ pc = "sign_responses" /\ s_pc = "published" /\ i < T
  /\ signed' = IF chall_2[i] = 0
                 THEN [signed EXCEPT !.resp_0 = Append(@, Response(round_seeds[i], "signed", i)),
                                     !.resp_1 = Append(@, cmt_1[i])]
                 ELSE signed
  /\ i' = i + 1
  /\ UNCHANGED <<seeds, merkle, queue0, queue1, cmt_0, cmt_1, y, used_rsps, pc, chall_2, fault,
                 verdict>>

SignDone ==
  /\ pc = "sign_responses" /\ i = T
  /\ pc' = "send"
  /\ UNCHANGED <<seeds, merkle, rounds, chall_2, signed, fault, verdict>>

(* What reaches the verifier: perhaps the signature of another message, or one
   whose padding is not zero, or whose v_bar is not in the restricted group. *)

Send ==
  /\ pc = "send"
  /\ fault' \in Faults
  /\ fault' = "path"  => num_seeds_published < TREE_NODES_TO_STORE
  /\ fault' = "proof" => published < TREE_NODES_TO_STORE
  /\ path'  = IF fault' = "path" THEN [path EXCEPT ![num_seeds_published] = RootSeed] ELSE path
  /\ proof' = IF fault' = "proof" THEN [proof EXCEPT ![published] = tree[0]] ELSE proof
  /\ pc' = "verify_seeds"
  /\ UNCHANGED <<s_pc, s_at, s_queue, seed_tree, round_seeds, indices_to_publish, s_flags,
                 num_seeds_published, path_nodes, rebuilt_tree, nodes_used, rebuilt_seeds,
                 s_padding_ok, m_pc, m_at, m_queue, tree, leaves_to_reveal, flag_tree,
                 proof_nodes, published, recomputed_tree, m_padding_ok, rounds, chall_2,
                 signed, verdict>>

(* CROSS_verify *)

VerifySeeds ==
  /\ pc = "verify_seeds"
  /\ Seeds!CallRebuild
  /\ i' = 0 /\ used_rsps' = 0
  /\ queue0' = <<>> /\ queue1' = <<>>
  /\ cmt_0' = NoCommitments /\ cmt_1' = NoCommitments
  /\ pc' = "verify_rounds"
  /\ UNCHANGED <<merkle, y, chall_2, signed, fault, verdict>>

\* Both queues are looked at in every round, whichever it has joined.
FlushQueues(q0, q1, cmt1) ==
  /\ cmt_0' = IF Flush(q0) THEN RunBatch(cmt_0, q0, Commit0) ELSE cmt_0
  /\ queue0' = IF Flush(q0) THEN <<>> ELSE q0
  /\ cmt_1' = IF Flush(q1) THEN RunBatch(cmt1, q1, Commit1) ELSE cmt1
  /\ queue1' = IF Flush(q1) THEN <<>> ELSE q1
  /\ i' = i + 1

VerifySeedRound ==
  /\ pc = "verify_rounds" /\ s_pc = "rebuilt" /\ i < T /\ chall_2[i] = 1
  /\ FlushQueues(queue0, Append(queue1, [round |-> i, in |-> rebuilt_seeds[i]]), cmt_1)
  /\ y' = [y EXCEPT ![i] = Response(rebuilt_seeds[i], Received, i)]
  /\ UNCHANGED <<seeds, merkle, used_rsps, pc, chall_2, signed, fault, verdict>>

\* s_prime comes out as the signer's if the response answers this round's
\* challenge: y * H - chall_1 * s.
SPrime(resp) == IF resp.to = Chall1(Received, i) THEN resp.of ELSE NoSeed

VerifyResponseRound ==
  /\ pc = "verify_rounds" /\ s_pc = "rebuilt" /\ i < T /\ chall_2[i] = 0
  /\ LET resp == signed.resp_0[used_rsps + 1]
     IN  /\ FlushQueues(Append(queue0, [round |-> i, in |-> SPrime(resp)]), queue1,
                        [cmt_1 EXCEPT ![i] = signed.resp_1[used_rsps + 1]])
         /\ y' = [y EXCEPT ![i] = resp]
  /\ used_rsps' = used_rsps + 1
  /\ UNCHANGED <<seeds, merkle, pc, chall_2, signed, fault, verdict>>

\* The first assert, then recompute_root.
VerifyRoot ==
  /\ pc = "verify_rounds" /\ i = T
  /\ IF fault = "group"
       THEN /\ verdict' = "aborted" /\ pc' = "done"
            /\ UNCHANGED merkle
       ELSE /\ Merkle!CallRecomputeRoot(cmt_0)
            /\ pc' = "compare"
            /\ UNCHANGED verdict
  /\ UNCHANGED <<seeds, rounds, chall_2, signed, fault>>

DigestCmtMatches == recomputed_tree[0] = signed.root /\ cmt_1 = signed.cmt_1
Chall2Matches    == /\ Received = "signed"
                    /\ \A r \in Rounds : y[r] = Response(round_seeds[r], "signed", r)

\* Mutant: the padding of the seed path is not asked for.
MerklePaddingOnly == m_padding_ok

PaddingsOK == m_padding_ok /\ s_padding_ok

\* Two more asserts, then the conjunction of all checks is returned.
Compare ==
  /\ pc = "compare" /\ m_pc = "recomputed"
  /\ verdict' = IF ~DigestCmtMatches \/ ~Chall2Matches THEN "aborted"
                ELSE IF PaddingsOK THEN "accepted" ELSE "rejected"
  /\ pc' = "done"
  /\ UNCHANGED <<seeds, merkle, rounds, chall_2, signed, fault>>

Next == \/ TreeStep
        \/ SignRound \/ SignRoot \/ SignProof \/ SignPath \/ SignResponse \/ SignDone
        \/ Send
        \/ VerifySeeds \/ VerifySeedRound \/ VerifyResponseRound \/ VerifyRoot \/ Compare

Spec == Init /\ [][Next]_vars /\ WF_vars(Next)
-----------------------------------------------------------------------------
\* An honest signature is accepted, for every challenge, and none is accepted
\* that is for another message, does not decode, or has a padding.
Accepted == pc = "done" => (verdict = "accepted" <=> fault = "none")

\* When the rounds are over the verifier has every commitment of the signer
\* that it needs: cmt_1 of every round, cmt_0 of those with challenge 0, each
\* hashed from its own round's input; both queues are empty, and every
\* response has been used.
CommitmentsAgree ==
  s_pc = "rebuilt" /\ i = T /\ Received = "signed" =>
    /\ queue0 = <<>> /\ queue1 = <<>>
    /\ cmt_1 = signed.cmt_1
    /\ \A r \in Rounds : chall_2[r] = 0 => cmt_0[r] = tree[LeafOf[r]]
    /\ used_rsps = Len(signed.resp_0)

\* The two trees lack each other's rounds: the nodes the seeds of which are
\* published are exactly those the digests of which are, so one bound,
\* TREE_NODES_TO_STORE, is enough for both.
PathAndProof ==
  pc \in {"send", "done"} =>
    /\ {path_nodes[k] : k \in DOMAIN path_nodes} = {proof_nodes[k] : k \in DOMAIN proof_nodes}
    /\ Len(path_nodes) = Len(proof_nodes) /\ Len(path_nodes) <= TREE_NODES_TO_STORE

\* What the two trees promise, see CROSSSeedTree and CROSSMerkle: batching is
\* invisible, and no digest is hashed before it is there or put at a wrong node.
NeverReadPending == Seeds!NeverReadPending
ComputedAgrees   == fault # "message" => Merkle!ComputedAgrees
QueuedAreDefined == Merkle!QueuedAreDefined

\* The seed tree implements the abstract specification of round seeds.
ImplementsRoundSeeds == Seeds!RS!Safety
=============================================================================
