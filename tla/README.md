# TLA+ specifications of bench-sign

bench-sign builds the reference and optimised implementations of ten signature
schemes and ranks their timings. This directory holds TLA+ models of the parts
whose control flow is worth checking, TLC configurations for small instances,
and proofs checked by TLAPS for all instances. Paths below are relative to the
root of the repository with `src/` in front.

    tlc -workers 2 -config seed_tree.cfg MCSeedTree     # a run, see "Runs"
    tlapm SeedTree_proof.tla                            # the proofs of a module

`PROJECT.json` lists the components, runs, theorems and hazards, and, for every
definition that models code, the lines it models.

## 1. Inventory

| component | state | operations | modelled |
|---|---|---|---|
| benchmark harness (`compile.sh`, `clean.sh`, `bench.py`, `bench.sh`) | the tree of sources, objects and binaries; the results of a ranking | build, clean, run, rank | `BenchSign`, proved |
| SPECK and LESS seed tree (`speck/lib/seedtree.c`; LESS has the same file but for its header comment) | a truncated binary tree in one array, labels, the published seeds | `BuildGGM`, `GGMPath`, `RebuildGGM`, `seed_leaves` | `SeedTree`, proved |
| challenge sampling (`utils.c` of SPECK and LESS) | the string, a 64-bit buffer of random bits, a count of draws | `SampleChallenge` | `SampleChallenge`, proved |
| LESS sign and verify (`LESS.c`, `sign.c`) | seeds of the rounds, commitments, responses, the signed message | `crypto_sign`, `LESS_sign`, `crypto_sign_open`, `LESS_verify` | `LESSSign`, proved |
| SPECK keygen, sign, verify (`SPECK.c`, `codes.c`, `permutation.c`) | keys, codewords, responses | `SPECK_keygen`, `SPECK_sign`, `SPECK_verify` | `SPECKCode`, `SPECKKeygen`, `SPECKSign` |
| parameter tables (`parameters.h` of SPECK, LESS, CROSS; the script that makes them) | the shape of each tree, the room for paths | - | `TreeTables`, all 30 tables |
| CROSS trees (`seedtree.c`, `merkle.c`) | the same truncated tree twice, with queues of four nodes | `gen_seed_tree`, `seed_path`, `rebuild_tree`, `tree_root`, `tree_proof`, `recompute_root` | `CROSSSeedTree`, `CROSSMerkle`, proved |
| CROSS sign and verify (`CROSS.c`) | commitments, two queues of four, the checks | `CROSS_sign`, `CROSS_verify` | `CROSSSign`, proved; arithmetic abstract |
| Mirath and RYDE tree and grinding (`mirath_ggm_tree.c`, `mirath_sign.c`, `mirath_verify.c`) | a sorted list of nodes, a counter, four candidate views | `get_sibling_path`, `partial_expand`, the retry loop | `TCitH`, proved |
| SDitH (threshold) Merkle tree, sign and verify (`merkle-tree.c`, `sign-mpcith-threshold-nfpr.c`) | the tree, a circular queue of nodes, paths | `build_merkle_tree`, `open_merkle_tree`, `get_auth_size`, `get_merkle_root_from_auth`, sign, parse, verify | `SDitHTree`, `SDitHSign`, proved; the multi-party computation abstract |
| MQOM | one tree per repetition, a nonce | sign, verify | no, see section 5 |
| SDitH (hypercube), PERK, FAEST, SQIsign | - | field, isogeny and quaternion arithmetic; almost no control | no |
| LESS key generation, linear algebra, canonical forms | - | functions of matrices | no |
| hash functions, AES, sorting, random bits | - | vendored | only how they are used |
| `bench.c` and timing programs | averages of cycle counts | - | only their output, in `BenchSign` |

### How they interact

A scheme's `bench.c` calls its `crypto_sign_keypair`, `crypto_sign` and
`crypto_sign_open`; the harness knows of a scheme its directory, how it is built
and the binary that results. The schemes themselves have one pattern. Signing
expands a tree of seeds, one for every round (execution, repetition), commits to
every round, hashes the commitments - CROSS and SDitH up a Merkle tree - and
derives from the digest which rounds the challenge opens. For those it publishes
seeds, as few nodes of the tree as cover them, or digests of the Merkle tree; for
the others it gives a response. Verifying derives the same challenge, rebuilds
the seeds, recomputes each commitment from a seed or from a response and compares
digests. In SPECK and LESS these calls are `BuildGGM`, `seed_leaves`,
`SampleChallenge`, `GGMPath` and `RebuildGGM`.

### What is hard

* The harness is the only concurrent part: scripts, benchmarks, the user's edits
  and Ctrl-C interleave, scripts are interrupted half way, and some build steps
  swallow failures.
* The schemes are sequential, yet signer and verifier are two programs that go
  through the same arrays in separate loops and must agree on every index.
  Nothing but position says which seed, digest or response is which.
* Batching: CROSS expands, hashes and commits four at a time, Mirath and RYDE try
  counters and SDitH hashes nodes four at a time. What waits in a queue is not
  in memory yet, and levels and loops do not end at multiples of four.
* Tables of constants (offsets, nodes and leaves per level) stand in for
  pointers; an error in one of them is an error of one instance only.
* Retries: LESS tries a round again, Mirath and RYDE a counter, SPECK a row,
  rejection sampling a draw. What a failed attempt leaves behind is state the
  next one sees.
* Fixed capacities: `MAX_PUBLISHED_SEEDS`, `TREE_NODES_TO_STORE`, `MAX_OPEN`, the
  `W` responses, one byte for the number of seeds, 64 random bits, an 8-bit
  `POSITION_T`.

### What makes each part correct

* Seed trees: the verifier gets the seed of every opened round and of no other;
  the published seeds are as few as possible and fit their array.
* Merkle trees: the root that is recomputed is the signer's, from exactly the
  digests that are needed.
* Challenge: fixed weight, elements in range, every draw from fresh bits.
* Signature schemes: the verifier hashes what the signer hashed, so an honest
  signature is accepted; the length of the message is recovered.
* Harness: what a script says at its end is true of the binaries, and a ranking
  is of binaries that exist, each with its own result, built from the sources
  there were when compilation was started, as far as make can tell by their dates.

The hazards behind these properties are in `PROJECT.json`, each at its line.

## 2. Modules

    GGMLayout <- SeedTree <- SeedTreeInv <- SeedTree_proof, MCSeedTree -> TreeTables
        ^- CROSSTree <- CROSSMerkle
        |      ^- CROSSSeedTree <- CROSSSeedTreeInv <- CROSSSeedTree_proof
        |      ^- CROSSSign <- CROSSSignInv <- CROSSSign_proof
        |             ^- MCCROSSSign   (with an instance of each tree)
    TCitHTree <- TCitH <- TCitHInv <- TCitH_proof, MCTCitH
    RoundSeeds  implemented by SeedTree, CROSSSeedTree and TCitH,
                instantiated by LESSSign and SPECKSign
    LESSSign <- LESSSignInv <- LESSSign_proof, MCLESSSign
    SPECKCode <- SPECKKeygen <- SPECKSign <- MCSPECKSign
    SampleChallenge <- SampleChallengeInv <- SampleChallenge_proof, MCSampleChallenge
    SDitHTree <- SDitHSign <- SDitHSignInv <- SDitHSign_proof
                    ^- MCSDitHSign -> TreeTables
    BenchSign <- BenchSignInv <- BenchSign_proof, MCBenchSign

`A <- B` means that B extends A. A component's module holds its actions and
properties (and, marked as mutants, faulty variants of definitions that the
properties are known to catch); its `...Inv` module the inductive invariant; its
`..._proof` module the proofs.

### RoundSeeds: what a scheme asks of its seed tree

Three steps: the signer gets a seed for every round (`Generate`), the challenge
opens some rounds (`Open`), the verifier gets the seeds of exactly those
(`Recover`). Three trees with nothing else in common implement it: `SeedTree`,
`CROSSSeedTree` and `TCitH`. `LESSSign` and `SPECKSign` are built on it, by
conjoining its actions with the ones of the scheme.

### GGMLayout and SeedTree

The tables of `parameters.h` are constants, and what they must satisfy to
describe one tree is assumed in `GGMLayout`: levels fill the array in order, the
children of a level's inner nodes are the whole next level, offsets lead there,
and the runs of leaves number the rounds one to one. The tables of a run are
checked against these assumptions.

`SeedTree` runs one signature and its verification. `pc` is the function being
run, `level`, `node_in_level` and `start_node` its loop variables under the
names of the code. One action is one iteration of a loop or its end:
`ExpandNode`, `BuildNextLevel` (`BuildGGM`), `ComputeParent`, `ComputePrevLevel`,
`ComputeDone` (`compute_seeds_to_publish`, for both callers), `PublishNode`,
`PassNode`, `ScanNextLevel`, `PathDone` (`GGMPath`), `RebuildNode`
(`RebuildGGM`), `SignerSeedLeaves` and `VerifierSeedLeaves` (`seed_leaves`).
`label_leaves` and `seed_leaves`, which only copy, are one step each. The
initial values of the flag arrays are those of the C initialisers, including
`{NOT_TO_PUBLISH}`, which sets one cell. `path` and `path_flags` are history.

The CSPRNG is an arbitrary function from a seed and a domain separator to two
seeds; reading memory that was not written gives `NoSeed`. So `Secrecy` is
structural: it says which nodes can be expanded from the published ones, not
that the CSPRNG is one-way.

### TreeTables

The tables of the parameter sets, five of SPECK, seven of LESS and eighteen of
CROSS, with the weight of their challenges and the room for a path, and a
translation of `tree_offsets_and_nodes` and `tree_leaves` of
`compute_derived_parameters.py`, the script they were generated with. Against
them stands what the tables are for: `IsLayout` (what `GGMLayout` assumes),
`IsLeftFull` (left subtrees are full), and `LongestPath`, the largest number of
nodes that a challenge of a given weight can require. It is computed by a
recursion over the subtrees, in the number of closed rounds that fall into each.
These facts have no states; `MCSeedTree` states them as assumptions, which TLC
evaluates before the run.

### CROSSTree, CROSSSeedTree, CROSSMerkle, CROSSSign

The seed tree of CROSS has the layout of SPECK's and promises the same, but a node
that is to be expanded is put into a queue with a copy of its seed, and its
children appear in memory only when the queue is flushed: when it holds four, or
at the last inner node of a level. The signer walks down all levels (`GenNode`),
labels (`FlagParent`), writes the path (`ScanNode`); the verifier labels again
and rebuilds (`RebuildNode`), and checks that the rest of the path is zero
(`PaddingIsZero`). In the Merkle tree pairs of siblings are hashed upwards from
right to left, in batches as well; queued are places and not digests, which are
read when the batch runs (`HashUp`, `RecomputeUp`). `recompute_root`'s tree is
not initialised in the code: its cells are `Garbage` until they are written.

`CROSSSign` composes an instance of each with the loops of `CROSS_sign` and
`CROSS_verify`. A round's commitment is known by the seed or response it comes
from. The signer has one queue of commitments, the verifier two: rounds with
challenge 1 recompute the commitment of a seed, rounds with challenge 0 that of
a response, and both queues are flushed in the last round whatever is in them.
Between the two, `Send` lets the signature arrive as it was sent or damaged in one
of four ways (message, path, proof, a response outside the group). Modelled is the
optimised implementation; the tables come from the reference implementation, which
shares them.

### TCitHTree and TCitH

Mirath and RYDE have one complete tree for all repetitions, of which one leaf per
repetition stays hidden. The nodes to publish are kept in a sorted list: for each
hidden leaf the code climbs to the root, removes the node if it is in the list
(`Meet`) and inserts its sibling otherwise (`Climb`). Whether it is in the list is
found out by binary search, one action per iteration (`Search`). Around it is the
grinding loop: `SHAKE_STEP` counters are hashed together, a counter is discarded if
its grinding bits are not zero (`Discard`) or its list is longer than a signature
has room for (`RejectPath`, which has to clear what was written). The verifier
counts the seeds of the path that are not zero, makes the list again and expands
what it covers (`PartialExpand` to `Expanded`). `ggm_tree.c` of RYDE is the same
code under other names. RYDE's verifier also compares the grinding bits
(`ryde1f/src/tcith_verify.c:283`), Mirath's does not; honest signatures have them
zero.

### SPECKCode, SPECKKeygen, SPECKSign

`SPECKCode` has the arithmetic as operators over a small field: products of a row
and a matrix, the reduced row echelon form with its choice of pivots, column
permutations, and the packing of elements into bytes. The vectorised C code is
modelled by what it computes. `SPECKKeygen` draws the anti-orthogonal matrix row by
row (`DrawFirst`, `DrawNext`, `Place` with its column swaps) and makes the key
pairs: permute, reduce, and compose the permutation with the one that brings the
pivots to the front (`Permute`, `Reduce`, `StoreKey`). `SPECKSign` goes through the
rounds over `RoundSeeds`. In a round the multiset of the elements of a codeword is
hashed; a response is the half of the permuted codeword from which the public
key's generator gives back the other half.

### SDitHTree and SDitHSign

The tree is numbered like a heap, its leaves are all on the last level, and unless
the number of parties is a power of two the last node of a level may have a single
child. `SDitHTree` has the circular queue of `get_revealed_nodes`, which the
verifier's `get_merkle_root_from_auth` repeats: the front of the queue, and its
right sibling if that is next, make way for their parent; a sibling that is not
there comes from the path. `SDitHSign` has the signer (commitments and hashes four
at a time and then one by one, the draw of the views and each comparison of the
loops that sort them, one walk per execution), the parser, which walks only to know
how long the paths are and keeps where each begins (`cv_at`, `len_cv_info`,
`bytes_required`, counted in digests), and the verifier. Digests
are named by the tree and node they belong to: hashing the wrong digests, or the
right ones under the wrong number or the wrong way round, gives `Garbage`. A
signature arrives as it was sent, longer, shorter, or with another digest or share.

### SampleChallenge

Both loops of `SampleChallenge`, an action for each way an iteration can go
(refill, accept, reject), with the variables of the code and one history
variable, `unread`: how many bits of `rnd_buf` were not drawn yet. SHAKE gives any
bits. `POSITION_T`, the number of values of that type, is a constant because it
differs between SPECK (256) and LESS (65536), and so is the size of the buffer,
so that TLC can go through all its values. Otherwise the two functions
are alike.

### LESSSign

One signature from `crypto_sign` to `crypto_sign_open`. One action is one
iteration of the loop over the rounds in its three appearances: `Commit` and
`Retry`, `SkipRound` and `Respond`, `VerifyOpened`, `VerifyNoForm` and
`VerifyClosed`. What is abstracted:

* A seed is known by its first byte, the only one a retry changes. `Byte` is how
  many values that byte has.
* The code whose canonical form is hashed in a round is known by the round and
  the seed its matrix was made from; equal pairs hash alike, different ones
  differently. `NoForm` is the set of pairs for which `CF` fails, any set.
* `generator_RREF` does not fail: `G_0` has full rank and monomial maps keep it.
  The form of a code does not depend on the monomial map that leads to it, so a
  response the signer made leads the verifier to the code of the round, and
  `CheckCanonicalAction` accepts it.
* The challenge is a function of the digest; signer and verifier have the same
  digest, so the model draws it once. `SampleChallenge_proof` proves of the
  string, with its elements counted from 1, what `LESSSign` assumes of a challenge
  (`ChallengesAreSampled`, `ChallengesAssumption`).
* The tree is `RoundSeeds`, which `SeedTree_proof` proves the tree to implement.

`Retry` is the point of the model: the signer changes its copy of the seed of a
round (`LESS.c:206`), the tree that is published from keeps the old one.

### BenchSign

The scripts are one process, the benchmark drivers another, the user a third. A
*unit* is one directory the scripts build or clean; `Kind` says how, since that
decides what a failure does and what is rebuilt: `rebuild` (`rm -rf build`,
cmake, make), `make` (FAEST and PERK; no rule depends on a header), `relink`
(SDitH threshold: as `make`, but the binary depends on `libhash`, a target that is
no file, and is linked in every run), `ignored` (the rule ignores the compiler's
status) and `manage` (`mqom/manage.py`, which ignores make's status and turns
Ctrl-C into exit status 0). Every command under `set -e` may fail, at every point
of a unit the user may interrupt, and make may have linked any part of its targets
by then. A binary is known by the revisions of the `.c` file and of the header it
was built from.

In units of the kinds `make` and `relink` (`ByDates`) make does not know revisions:
it compares dates, and so does the model. Of the dates it keeps the two comparisons
make asks for: `obj_newer` (objects newer than their `.c` file) and `bin_newer`
(binaries newer than the object). Saving a `.c` file takes its unit out of the
first, writing an object puts it in and takes its binaries out of the second, and
linking puts a binary in. Compiling is two steps, `StartCompile`, which reads the
`.c` file, and `WriteObject`, with edits in between: an object can be newer than a
`.c` file it does not have the code of, and then every later run keeps it. `saved`
is a history variable that records such an edit, and `Overtaken` says of a revision
that it was compiled while its `.c` file was saved, before the present run was
started. That is the one exception in `CompiledSound` and `FreshRanking`. Without
it units of either kind violate `CompiledSound` in the instance of the run, after 30 and
36 steps: an edit during the first of two runs of `compile.sh`, whose second run keeps
the object.
Date stamps are taken to be as fine as needed, so that no two are equal, and the clock
to go forward.

In the other kinds everything is compiled in each run, and a file that is edited
while make runs may be read before or after the edit. `bench.py` looks for a binary
and runs it in separate steps, with everything else going on in between. `started`
and `disturbed` are history, too. Cycle counts are abstracted to the binary they
were measured on.

## 3. Runs

| run | instance | distinct states | shows |
|---|---|---|---|
| `seed_tree` | 11 leaves in three runs on three levels, all 2047 challenges with a closed round; the tables of all parameter sets | 165 823 | `LabelsAgree`, `Secrecy`, `AllSeedsUsed`, `MinimalCover`, `StorageBound`, and that the tree implements `RoundSeeds`; `TablesAsGenerated`, `TablesAreTrees`, `ScriptMakesTrees`, `CoversFit`, `PathsFit`, `LongestPathIsMaximum`, `WorstCase133` |
| `bench_sign` | a unit of each kind but `ignored`, two scripts, one benchmark, one edit | 1 309 188 | `CompiledSound`, `NeverStale`, `QuietRanking`, `CrashOnlyIfDisturbed`, `FreshRanking`, `AllEnd` |
| `less_sign` | four rounds, two closed, three key pairs, bytes of three values, all challenges | 42 734 | `AcceptedUnlessOpened`, `SameTranscript`, `Returns` |
| `sample_challenge` | five elements of weight three, four key pairs, seven bits | 56 988 | `FixedWeight`, `KeysAreFresh`, `Ends` |
| `sample_challenge_binary` | six elements of weight three, two key pairs, positions of three bits | 4 190 | `RejectionIsExact` |
| `cross_sign` | 13 rounds, 660 challenges of weight 8, five ways a signature may arrive | 248 541 | `Accepted`, `CommitmentsAgree`, `PathAndProof`, `NeverReadPending`, `ComputedAgrees`, `QueuedAreDefined`, and that its seed tree implements `RoundSeeds` |
| `tcith` | three repetitions of four leaves, counters in batches of two, 320 first batches and 625 pairs of batches | 59 268 | `ListIsCover`, `SearchIsExact`, `NeverFull`, `FirstAcceptable`, `Termination`, and that it implements `RoundSeeds` |
| `speck_sign` | the field with three elements, matrices of four rows, 192 codes, three permutations, two of four rounds closed | 48 681 | `Antiorthogonal`, `KeysAreEquivalent`, `Accepted`, `Returns` |
| `sdith_sign` | two executions of 11 parties, three opened, 165 and 4 openings, five ways a signature may arrive | 239 938 | `QueueIsSorted`, `PathIsWhatIsNeeded`, `Accepted`, `Returns`; `PathsFitHere`, `RoomIsExact` |

Three more runs, `less_sign_honest`, `sample_challenge_narrow` and
`sample_challenge_carry`, state what a comment of the code says and end in a
counterexample; they are the findings of section 6.

Type invariants, inductive invariants and some properties (`Recovery`,
`WriteOnce`, `RemovedSound`, `QuietShell`, `HashedOnce`, `AllEmitted`,
`MessageFound`) are in no run any more because they are proved. `PositionsAreFresh` is
proved under a premise and refuted, in `sample_challenge_carry`, where the
premise does not hold.

### The tables

`MCSeedTree` evaluates, for all 30 parameter sets: the tables are what the script
gives (`TablesAsGenerated`), they describe one tree as `GGMLayout` assumes
(`TablesAreTrees`; for the script also with every other number of rounds from 2 to
300, `ScriptMakesTrees`), and no challenge needs more room than there is
(`PathsFit`). `LongestPathIsMaximum` compares the recursion with a maximum over all
challenges of small trees, and `WorstCase133` has a challenge of SPECK's 133 rounds that
takes the 67 seeds. So the theorems on the seed tree hold for the tables in
the code. The room is exactly what is needed in some sets and somewhat more in
others:

| set | longest path | room | | set | longest path | room |
|---|---|---|---|---|---|---|
| SPECK 133 | 67 | 70 | | LESS 102 | 41 | 41 |
| SPECK 256 | 92 | 92 | | LESS 137 | 58 | 58 |
| SPECK 512 | 101 | 102 | | LESS 192 | 84 | 87 |
| SPECK 768 | 104 | 106 | | LESS 220 | 110 | 119 |
| SPECK 4096 | 114 | 114 | | LESS 345 | 162 | 169 |
| LESS 45 | 11 | 11 | | CROSS 157 rounds | 79 | 82 |
| LESS 68 | 26 | 26 | | CROSS 520 rounds | 129 | 129 |

SDitH's `PARAM_TREE_NB_MAX_OPEN_LEAVES` is 19, and `LongestPath(256, 3) = 19`
(`RoomIsExact` in `MCSDitHSign`). Its variant with 251 parties has the same tree
without the last leaves, and needs no more.

### Why the bounds are enough

* `seed_tree`: 11 = 8 + 2 + 1 leaves is the smallest shape with what the tables of
  the real instances have (leaves on three levels, levels with both leaves and
  inner nodes, offsets that grow on the way down). Every challenge is tried; six
  published seeds is the most any of them takes, and MAX_PUBLISHED_SEEDS is six. What
  the run shows for this tree the proofs show for every tree; the room in the real
  instances is a matter of `LongestPath`.
* `less_sign`: of the four rounds one never fails, one fails once, one twice and
  one also for a byte that wraps around; two closed rounds are needed to
  confuse responses, two opened ones to open a retried round beside another.
* `sample_challenge`: seven bits hold three draws of an element with one bit left
  over, and two of a position with one left over, as 64 bits do in the code. With two
  key pairs elements are not drawn: `sample_challenge_binary` has positions only.
* `cross_sign`: 13 = 12 + 1 leaves give a level with six inner nodes, which makes
  both trees run a full batch and a rest of two, and levels with less than a
  batch. The challenges are weight 8 with the first and last round in different
  queues of the verifier, so that the last round finds the other queue with
  anything from nothing to three commitments. Seeds and digests are numbers and
  hashing is affine modulo 128, so that a wrong input shows in the output.
* `tcith`: covers have three to six nodes and a signature takes four, so that views
  are accepted and rejected, and a short path can follow a longer rejected one;
  the list has room for eight nodes, less than the twelve of three times the
  height, which is what is proved to suffice. Every view stands in a first batch.
* `speck_sign`: all anti-orthogonal matrices for this size. Pivots lie outside the
  first K columns, and rows and columns are swapped; two key pairs would
  repeat the loop over the pairs with an independent permutation.
* `sdith_sign`: 11 parties make a tree with a level of six nodes, hashed as four and
  two, and two levels whose last node has one child. All 165 openings of the first
  execution are tried, among them three neighbours, the last node alone and paths
  of different lengths; the second shows that paths are cut apart where they end.
* `bench_sign`: a second script can follow a first that was aborted, and a
  benchmark overlap both; one edit is enough to make a binary stale, in its
  `.c` file or its header, or to be saved while its file is being compiled in the
  first run, for the second to go by its date. A unit of kind `ignored` differs from
  one of kind `manage` only in that Ctrl-C ends the script, as it does in the
  others; the proof covers it. bench.sh measures two of the binaries: its
  property is proved. A second benchmark starts from the same results as the first
  (`StartBench` resets them).

Deadlock checking is off in all of them: signing, verifying and a bounded number
of scripts and benchmarks end.

### Fairness

* `LESSSign`, `SPECKSign`, `SDitHSign`, `TCitH` and the trees: `WF_vars(Next)`. They
  are one sequential program. Where a draw may be repeated (a row of SPECK that
  cannot be normalised, a party of SDitH that is drawn already), a repetition
  changes nothing and is not a step: that the source of random bits gives another
  value some time is part of the assumption. `Returns` then says that such a
  value always exists.
* `BenchSign`: weak fairness of the script's and of the benchmark's steps, each
  on its own, because each is an operating-system process. None for the user:
  nothing that must happen depends on an edit, an answer or Ctrl-C.
* `SampleChallenge`: weak fairness of the loop and strong fairness of
  `RefillAccepted`: if the buffer is filled again and again, it is some time
  filled with bits whose first draw is accepted. SHAKE's output is taken to be
  random; without it rejection sampling need not end.
* `TCitH` looks at some first counters only; `Termination` says that an acceptable
  one among them is found.

## 4. Proofs

Each proof module proves `Spec => []IInv` for the inductive invariant of the
component, by one lemma per conjunct or group of conjuncts and action, and the
properties as consequences. Nothing is assumed but the named assumptions on the
constants, which TLC evaluates in the runs, and the premises that a theorem states.

| module | theorems | obligations |
|---|---|---|
| `SeedTree_proof` | `TypeCorrect`, `LabelsAgreeCorrect`, `RecoveryCorrect`, `AllSeedsUsedCorrect`, `MinimalCoverCorrect`, `StorageBoundCorrect`, `SecrecyCorrect`, `WriteOnceCorrect`, `Refinement` | 3165 |
| `CROSSSeedTree_proof` | `Invariance`, `TypeCorrect`, `NeverReadPendingCorrect`, `PaddingAcceptedCorrect`, `Refinement` | 3155 |
| `CROSSSign_proof` | `Invariance`, `TypeCorrect`, `AcceptedCorrect`, `CommitmentsAgreeCorrect`, `PathAndProofCorrect`, `NeverReadPendingCorrect`, `ComputedAgreesCorrect`, `QueuedAreDefinedCorrect`, `ImplementsRoundSeedsCorrect` | 5151 |
| `BenchSign_proof` | `TypeCorrect`, `CompiledIsSound`, `NothingStale`, `RemovedIsSound`, `NoQuietCrash`, `RankingIsSound`, `ShellIsSound`, `RankingIsFresh` | 1646 |
| `TCitH_proof` | `TypeCorrect`, `ListIsCoverCorrect`, `SearchIsExactCorrect`, `NeverFullCorrect`, `FirstAcceptableCorrect`, `ImplementsRoundSeedsCorrect` | 3612 |
| `LESSSign_proof` | `Invariance`, `TypeCorrect`, `AcceptedUnlessOpenedCorrect`, `SameTranscriptCorrect`, `HashedOnceCorrect`, `AllEmittedCorrect`, `MessageFoundCorrect` | 813 |
| `SampleChallenge_proof` | `Invariance`, `TypeCorrect`, `FixedWeightCorrect`, `ChallengesAreSampled`, `KeysAreFreshCorrect`, `PositionsAreFreshCorrect`, `RejectionIsExactCorrect` | 551 |
| `SDitHSign_proof` | `Invariance`, `TypeCorrect`, `QueueIsSortedCorrect`, `PathIsWhatIsNeededCorrect`, `AcceptedCorrect` | 6277 |

The arguments:

* **The layout.** Lemmas on it (`NodeOrder`, `ChildNode`, `ParentNode`, ...) begin the
  proofs of both seed trees; `CROSSSign_proof` has them from `CROSSSeedTree_proof`.
* **SeedTree.** From the layout assumptions: `Node(l, i)` names each cell once;
  the children of an inner node are the next two cells of the next level; the
  father computed by the code is the node it is a child of. `Recovery` is not
  inductive: it speaks of the end only. `IInv` says what is true of the part of
  each loop that is done. The signer's tree is filled up to the children of the
  node being expanded, so it is closed under `Expand`. The labels below the
  current node are right, so that a node is labelled exactly if both its children
  are. The published seeds are those of the scanned nodes that are labelled and
  whose father is not, and the verifier has used as many as it has scanned.
  Every labelled node that the verifier has passed holds the signer's seed,
  copied or expanded from its father, and no other cell was written. The root
  is never labelled, because some round is closed. `Refinement` maps `pc` to the
  three steps of `RoundSeeds`; every other step is a stutter.
  `MinimalCover` says what the labels mean for the rounds: a node is labelled exactly
  if all rounds under it are opened (`LabelsMean`, from the last level up). The
  rounds under a node are named by halving a leaf's position once a level, so the
  proof needs that 2^(n + 1) is twice 2^n, which nothing in the prover's arithmetic
  says; `PowerOfTwo` gets it from the number of subsets. `StorageBound` supposes of
  MAX_PUBLISHED_SEEDS that the cover of every challenge fits (`CoversFit` in the run,
  `PathsFit` for the tables) and shows that `GGMPath` stays in it at every write.
* **CROSSSeedTree.** The argument of `SeedTree`, with a queue in between. What is in
  the queue is an inner node of the level being walked that the loop has passed,
  and the seed in its job is the one its node holds (`QueueInv`). The queue is
  empty where a level begins and once the last inner node of a level was looked
  at, whether or not that node joined it, and at the end of a step it has at most three
  jobs. So a node that was passed and is not queued has its children in memory, and
  everything queued is of one level, whose children are of another: a batch
  never writes what a job of it read. For the verifier a labelled node holds the
  signer's seed if it was passed, or if its labelled parent was passed and has left
  the queue (`Filled`). At the end both have counted every published seed, which
  is why the padding check, starting there, succeeds. The theorems have two
  premises: `SeedAssumption` on the CSPRNG and the challenges, which the run
  evaluates, and `[]Fits`: what is published fits `path`. That is `PathsFit`,
  evaluated for the tables of all CROSS parameter sets, and `PathAndProof` in the run.
  `path` is intact here; what a damaged one leads to is a matter of `CROSSSign`.
* **CROSSSign.** The invariant is that of the scheme, of its Merkle tree and of its
  seed tree at once. The last is not proved again: `CROSSSign_proof` has an instance
  of `CROSSSeedTree_proof` over the path the signer wrote (`HonestPath`), and shows
  that every step of the scheme is a step of that tree or leaves it alone (`SeedNext`).
  A damaged path differs from the honest one in the first place after the
  published seeds, which `rebuild_tree` reads only to compare it with zero; so the
  padding check is the only place where the instance and the tree in the scheme
  differ (`SeedPadding`).

  The Merkle tree is the argument of the seed tree upwards. Queued are places, not
  values, so what the queue needs is that both digests of a job are there and
  stay as they are until the batch has run: all jobs are pairs of the level being
  walked, their results lie a level above (`QueueInv`, `BatchedTo`). The signer's
  tree then holds at every node that was passed and is not queued the hash of its
  children (`HashedInv`).

  That the verifier takes each digest to the right node has no proof within the
  Merkle tree, as nothing in `recompute_root` says which node a digest of `proof`
  belongs to. `ProofInv` has it that the signer wrote the missing digests below
  the walk in decreasing order of nodes, `RecomputeInv` that the verifier has used
  exactly those of nodes it has passed. That both find the same ones missing, although
  the one walks with all labels right from the beginning and the other makes them
  as it goes, comes from the seed tree: a seed is to be published exactly where the
  digest cannot be computed (`OppositeInv`), so `IsMissing` in one tree is `Topmost`
  in the other (`MissingTopmost`), whose labels are complete and do not change any
  more. The same fact gives `PathAndProof`.

  The commitments: a round's commitment is in `cmt_0`, `cmt_1`, or its input waits in
  the queue it joined; the queues are empty after round T - 1 whichever of them that
  round joined (`SignerInv`, `VerifierInv`). The response of a round stands at the
  number of rounds with challenge 0 before it (`Place`). `Accepted` collects all this
  in the step that compares. The theorems have the premise `[]Fits`, as for the seed
  tree, which is enough for the proof of the Merkle tree too, by `PathAndProof`.
* **TCitH.** Every hidden leaf adds at most the height of the tree to the list,
  because a climb inserts at most one node per level and a meeting only removes.
  So a list with room for the number of repetitions times the height never runs full;
  `NeverFullCorrect` has that as its premise. It holds for the real constants: 17
  repetitions and a height of 13 give 221, and 236 places; 11 and 16 give 176,
  and 232. The height enters as any function on the nodes that a parent lowers
  (`IsHeight`), so that no logarithm is needed. `SearchIsExactCorrect` needs that
  the list is in order, which insertion and removal keep, and that what the search
  has given up is below or above the node.

  `ListIsCover` speaks of the moments between two leaves; `CoverInv` of all. The
  cover of some leaves is the frontier of the nodes above them (`Frontier`): those
  outside whose parent is inside. While the next leaf is climbed from, the list has
  the frontier of the leaves so far and the siblings of the nodes left behind, and
  no node of the climb is above an earlier leaf. A node of the climb that is in the
  list is not a sibling of another one, so it is in the frontier: its parent is above
  an earlier leaf, and so is everything from there to the root. So removing it and
  stopping is right (`FrontierStep`). That no leaf is hidden twice comes from the
  repetitions taking turns in the tree (`PsiDistinct`).

  The nodes above a leaf and the seeds are given by recursive functions. The library's
  induction theorems cannot be used, but what is needed here follows without
  them: that the recursion has a solution is shown by the least relation closed
  under it (`Up`, `Values`), and that this is a function by looking at the least node
  for which it is not one (`AncestorsDef`, `ExpandTree`).

  For `ImplementsRoundSeeds`, signer and verifier make the same list, because a list in
  order is given by its elements (`IncreasingIsOne`). The path has the seeds of
  the list and zero behind them (`PathInv`), so the verifier's count is the length
  of the list, and its nodes come in the order in which the loop passes their parents
  (`ParentOrder`). A node whose parent was passed has the signer's seed, unless it
  is above a hidden leaf (`PartialInv`).
* **SampleChallenge.** `FixedWeight` needs that the elements not yet swapped are
  not 0 while those before them may be anything: a swap is then an exchange and
  keeps the number of non-zero elements (a bijection between the two sets).
  `KeysAreFresh` needs `c * KeyBits <= unread`. `RejectionIsExactCorrect` has the
  premise that a `POSITION_T` counts beyond the mask, which SPECK does not meet
  for all of its instances, and `PositionsAreFreshCorrect` that there are two key
  pairs or that a position takes no more bits than an element, which is exactly
  what LESS with four or eight key pairs lacks (section 6). `ChallengesAreSampled`
  counts the rounds from 1, as `LESSSign` does, which leaves the weight as it is (a
  bijection again).
* **LESSSign.** The response to a round stands at the place given by the number of
  closed rounds up to it; `emitted_monoms` and `employed_monoms` are both that
  number. The seeds hashed are the last ones tried, and a round was retried only
  if the seed in its tree has no form; the verifier therefore stops at the first
  retried round that is opened, and only there.
* **SDitHSign.** What the code supposes of its circular queue is `QueueIsSorted`; what
  makes it true is `WalkAt`: of the n nodes in the queue the first m are those of
  depth d above an opened leaf from the front on, the others are the parents of
  those of depth d already taken off, and both parts are in order. So the sibling
  of a left child is queued exactly if it is right behind it (`Siblings`), a
  queue that starts where it stops is full and never empty, and a step takes one or
  two nodes off and puts one on, which fits. The bounds `first` and `last` of a level
  are one step late, which `WalkAt` allows for exactly as long as no node of the
  level was taken off; `NoSibling` is right all the same, as the code halves `last`
  in time. `PathBefore` is what the walk has found by then: the needed nodes of the
  lower levels, and those of this one whose parent is left of the parent of the
  front. Each step adds the sibling or nothing to it (`WalkStep`), in the order of
  the walk, and at the root it is all of `NeededBy` (`EndOfWalk`).

  The signer, the parser and the verifier walk separately. The paths of a set of
  leaves in that order are unique, so the parser's lengths are the signer's, and the
  offsets `o` of `SignatureInv` say where the path of each execution is in the
  signature; `ParsedInv` keeps what the parser found. A signature that is longer or
  shorter fails at the sum of these lengths. The verifier's digests are the right
  ones or `Garbage`, and `RootInv` has it that one in the queue is `Garbage` exactly if
  a wrong share or a wrong digest of the path was used so far in this execution.
  As all of the path is used at the end (`PathUsed`), the root is `Garbage` exactly
  if something in the execution is (`Spoilt`). `Accepted` collects the roots.

  The sort is proved, not assumed: after place p of the selection loop the first p
  views are less than all behind them (`ViewsInv`). The theorems have the premise
  `PathsFit`: what is needed for any opening fits `PARAM_TREE_NB_MAX_OPEN_LEAVES`.
  The run evaluates it (`PathsFitHere`); for the parameters of the code it is
  `RoomIsExact`. Without it `memcpy` writes past `cv_info`.
* **BenchSign.** `CompileInv` speaks of the units the script is through with and of
  the binaries in the current unit that make is through with; `RankInv` of the
  pairs that were run so far, and it holds only while no script was at work.
  `CompiledSound` says in revisions what make decides by dates, so `DateInv` says
  what the dates tell of revisions: an object newer than its `.c` file is of that
  file, or was overtaken by the edit in `saved` (`ObjectDates`, and `ReadDates` for
  the one being compiled); a binary newer than its object was linked with it
  (`BinaryDates`); and what this run has not come to was not saved during a compilation
  since it was started (`SavedInv`), which makes an exception of an earlier run.

### Only model-checked

* SPECK's key generation, sign and verify: `Antiorthogonal`, `KeysAreEquivalent`,
  `Accepted`. They are statements about sums over the entries of a matrix, which are
  recursive, so that every fact on them is an induction. The tables are evaluated.
* Liveness: `AllEnd`, `Returns`, `Ends`, `Termination`, and the fairness part of the
  refinements. TLAPS has no proof rules for fairness.

## 5. Not modelled

* MQOM: its grinding loop either takes one nonce or four at a time
  (`mqom/sign.c:44`), and its trees are complete with one hidden leaf each; what
  is hard in it is in `TCitH`.
* SDitH's hypercube variant, PERK, FAEST: straight-line arithmetic over complete
  trees with one hidden leaf each. SQIsign: one loop that repeats a failed attempt
  around isogenies and quaternion ideals. These make up most of the lines of the
  repository, together with tables of constants, vectorised copies of the
  same arithmetic and a directory per parameter set.
* Arithmetic on fields, codes and permutations, except SPECK's: functions without
  interesting state, over sets too large for TLC. LESS key generation and
  canonical forms are among them. CROSS without trees (`NO_TREES`).
* The estimates of random bits and of the worst case in CROSS's parameter script.
* Hash functions, random bits, sorting: how they are used, not how they work.
* Packing of seven-bit elements in SPECK by a machine of eight states: `pack` and
  `unpack` of `SPECKCode` are one formula for any width, run with two bits. Of the
  seven checks in CROSS's verdict (`CROSS.c:788`), the two on the padding bits inside
  packed vectors (`is_padd_key_ok`, `is_packed_padd_ok`).
* Security in the cryptographic sense, and timing. Signatures are those of honest
  signers, sent as they are or damaged in the ways named above; the harness is
  used as its user would.
* `SPECK.c:247` returns -1 for a failed rebuild: `RebuildGGM` always returns 1.

## 6. Findings

Each is a property taken from a comment of the code, in a run that TLC answers
with a counterexample.

| run | where | what |
|---|---|---|
| `less_sign_honest` | `LESS.c:206` | a retried round is committed with a seed that is not in the tree; if the challenge opens it, the honest signature is rejected |
| `sample_challenge_narrow` | `speck/lib/utils.c:153` | with T = 512, 768 or 4096 a position is shortened to 8 bits before it is compared, so positions to be rejected are accepted |
| `sample_challenge_carry` | LESS `utils.c:107` | with 4 or 8 key pairs the second loop goes on with the first loop's count and draws positions from bits that are used up |

Smaller divergences that no run is about: `RebuildGGM` returns 1 and not the number
of seeds it used, which `seedtree.h:37` says; the last line of `compile.sh` (line
137) may be printed although a binary is missing, because `mqom/manage.py:59` and
the Makefile of SDitH (line 56) swallow a failure; "recompile" (`compile.sh:6`)
leaves binaries of an older header, because the rules of `perk`'s Makefile (line
67) know of no header, and of an older `.c` file, if it was saved while an earlier run
was compiling it, because its object is newer and is kept (the rules go by dates).
`CompiledSound` says what does hold of that last line. In
`SPECK_keygen`, the `memcpy` at `SPECK.c:54` takes the column positions past the
end of `G_0_rref` along, to no effect.

## 7. What is left

* SPECK is checked and not proved. The next theorem worth having is `Accepted` of
  `SPECKSign`, which is the argument of `CROSSSign` for its responses with facts on
  matrices assumed of abstract operators.
* MQOM, as an instance of the grinding loop with its own tree.
