---------------------------- MODULE SDitHSignInv ----------------------------
(***************************************************************************)
(* The inductive invariant of SDitHSign.                                   *)
(***************************************************************************)
EXTENDS SDitHSign

TypeOK ==
  /\ pc \in {"commit", "build", "draw", "sort", "open", "sent", "parse", "recommit", "root",
             "returned"}
  /\ e \in Executions /\ i \in Nat /\ p \in Nat
  /\ share_commitments \in [Parties -> Digests]
  /\ tree \in [Executions -> [TreeNodes -> Digests]]
  /\ h \in Nat /\ last_is_isolated \in BOOLEAN
  /\ first_index \in Nat /\ last_index \in Nat /\ parent_index \in Nat
  /\ open_views \in [Executions -> Seq(Parties)]
  /\ queue \in Queues /\ revealed \in Seq(TreeNodes)
  /\ cv_info \in Seq(Digests)
  /\ wit \in [Executions -> Seq((Executions \X Parties) \union {Garbage})]
  /\ fault \in {"none", "longer", "shorter", "path", "share"}
  /\ cv_at \in [Executions -> Nat] /\ len_cv_info \in [Executions -> Nat]
  /\ bytes_required \in Nat
  /\ leaves \in [Cells -> Digests] /\ auth \in Seq(Digests) /\ auth_size \in Nat
  /\ merkle_roots \in [Executions -> Digests] /\ ok \in BOOLEAN

-----------------------------------------------------------------------------
(* The tree *)

CommitInv == pc = "commit" =>
  /\ i \in 0 .. PARTIES
  /\ \A k \in 0 .. i - 1 : share_commitments[k] = Leaf(e, k)

\* All nodes of a tree hold what they should; so do those it is through with.
Built(x) == \A n \in TreeNodes : Present(n) => tree[x][n] = <<x, n>>

BuildInv ==
  /\ \A x \in Executions : (pc \in {"commit", "build"} => x < e) => Built(x)
  /\ pc = "build" =>
       /\ h \in 0 .. LOG_PARTIES - 1
       /\ first_index = First(h) /\ last_index = Last(h)
       /\ last_is_isolated = (Last(h + 1) % 2 = 0)
       /\ parent_index \in First(h) .. Last(h) + 1
       /\ \A l \in h + 1 .. LOG_PARTIES : \A n \in Level(l) : tree[e][n] = <<e, n>>
       /\ \A n \in First(h) .. parent_index - 1 : tree[e][n] = <<e, n>>

-----------------------------------------------------------------------------
(* The views *)

Drawn(x, views) ==
  /\ \A a \in DOMAIN views : views[a] \in Views[x]
  /\ \A a, b \in DOMAIN views : a # b => views[a] # views[b]

Sorted(views) == \A a, b \in 1 .. REVEALED : a < b => views[a] < views[b]

ViewsInv ==
  /\ pc \in {"commit", "build"} => \A x \in Executions : open_views[x] = <<>>
  /\ \A x \in Executions : Drawn(x, open_views[x])
  /\ pc = "draw" => \A x \in Executions :
       /\ x < e => Len(open_views[x]) = REVEALED
       /\ x = e => Len(open_views[x]) < REVEALED
       /\ x > e => open_views[x] = <<>>
  /\ pc \notin {"commit", "build", "draw"} =>
       \A x \in Executions : Len(open_views[x]) = REVEALED
  /\ pc \notin {"commit", "build", "draw", "sort"} =>
       \A x \in Executions : Sorted(open_views[x])
  /\ pc \in {"commit", "build", "draw"} => p = 0
  /\ pc = "draw" => i = 0
  /\ pc = "sort" =>
       /\ \A x \in Executions : x < e => Sorted(open_views[x])
       /\ p \in 0 .. REVEALED - 1 /\ i \in p + 1 .. REVEALED
       /\ \A a \in 1 .. p : \A b \in a + 1 .. REVEALED : open_views[e][a] < open_views[e][b]
       /\ \A b \in p + 2 .. i : open_views[e][p + 1] < open_views[e][b]

-----------------------------------------------------------------------------
(* The walk *)

\* The nodes of depth d over the leaves S.
Over(S, d) == {leaf \div 2^(LOG_PARTIES - d) : leaf \in S}

\* The bounds of the level that is left may still be those of the one before.
BoundsOf(q, d) == q.first = First(d) /\ q.last = Last(d)

\* In the queue are n nodes: first the m of depth d that are left, from that at
\* the front on, then the parents of those of depth d that were taken off.
WalkAt(q, S, d, n, m) ==
  /\ q.stop = Cell(q, n)
  /\ \A k \in 0 .. m - 1 : At(q, k) \in Over(S, d)
  /\ \A y \in Over(S, d) : y >= Index(q) => \E k \in 0 .. m - 1 : y = At(q, k)
  /\ \A k \in m .. n - 1 : /\ At(q, k) < Index(q) \div 2
                           /\ \E y \in Over(S, d) : y < Index(q) /\ At(q, k) = y \div 2
  /\ \A y \in Over(S, d) : y < Index(q) => \E k \in m .. n - 1 : At(q, k) = y \div 2
  /\ \A j, k \in 0 .. m - 1 : j < k => At(q, j) < At(q, k)
  /\ \A j, k \in m .. n - 1 : j < k => At(q, j) < At(q, k)
  /\ \/ BoundsOf(q, d)
     \/ d < LOG_PARTIES /\ BoundsOf(q, d + 1) /\ \A y \in Over(S, d) : y >= Index(q)

\* The nodes of the path that are found when x is next, of depth d.
PathBefore(S, d, x) ==
  {z \in NeededBy(S) : \/ \E l \in d + 1 .. LOG_PARTIES : z \in Level(l)
                       \/ z \in Level(d) /\ z \div 2 < x \div 2}

InOrder(s) == \A j, k \in DOMAIN s : j < k => Precedes(s[j], s[k])

Walks(q, S, found) ==
  \E d \in 0 .. LOG_PARTIES, n \in 1 .. REVEALED : \E m \in 1 .. n :
     WalkAt(q, S, d, n, m) /\ found = PathBefore(S, d, Index(q))

RevealInv == pc \in {"open", "sent", "parse"} =>
  /\ Walks(queue, Opened, {revealed[k] : k \in DOMAIN revealed})
  /\ InOrder(revealed)

-----------------------------------------------------------------------------
(* The signature *)

\* The paths of an opening (there is one).
PathsOf(S) ==
  UNION {{s \in [1 .. k -> NeededBy(S)] :
             InOrder(s) /\ \A z \in NeededBy(S) : \E j \in 1 .. k : s[j] = z} :
         k \in 0 .. MAX_OPEN_LEAVES}

\* From place a on the signature has the path of an execution.
HasPath(x, a, s) ==
  \A k \in DOMAIN s : \/ cv_info[a + k] = <<x, s[k]>>
                      \/ fault = "path" /\ cv_info[a + k] = Garbage

\* The number of executions the signer is through with.
Opens == IF pc = "open" THEN e ELSE EXECUTIONS

\* The paths follow each other, and the parser has found where.
SignatureInv == pc \in {"open", "sent", "parse"} =>
  \E o \in [0 .. EXECUTIONS -> 0 .. EXECUTIONS * MAX_OPEN_LEAVES] :
    /\ o[0] = 0 /\ \A x \in 0 .. Opens : o[x] <= x * MAX_OPEN_LEAVES
    /\ fault \in {"longer", "shorter"} => Len(cv_info) # o[Opens]
    /\ fault \notin {"longer", "shorter"} => Len(cv_info) = o[Opens]
    /\ \A x \in 0 .. Opens - 1 :
         \E s \in PathsOf(OpenedBy(open_views[x])) :
            /\ o[x + 1] = o[x] + Len(s)
            /\ fault \notin {"longer", "shorter"} => HasPath(x, o[x], s)
    /\ pc = "parse" =>
         /\ bytes_required = o[e]
         /\ \A x \in 0 .. e - 1 : cv_at[x] = o[x] /\ len_cv_info[x] = o[x + 1] - o[x]

BadShare(x) == fault = "share" /\ x = EXECUTIONS - 1
BadPath(x)  == \E k \in 1 .. len_cv_info[x] : cv_info[cv_at[x] + k] = Garbage
Spoilt(x)   == BadShare(x) \/ BadPath(x)

WitInv == pc \in {"open", "sent", "parse", "recommit", "root"} =>
  \A x \in 0 .. Opens - 1 : wit[x] =
     [c \in 1 .. REVEALED |-> IF BadShare(x) /\ c = REVEALED THEN Garbage
                              ELSE <<x, open_views[x][c]>>]

FaultInv ==
  /\ pc \in {"commit", "build", "draw", "sort", "open", "sent"} => fault = "none"
  /\ pc \in {"commit", "build", "draw", "sort"} => cv_info = <<>>
  /\ pc = "parse" /\ fault = "path" => \E k \in DOMAIN cv_info : cv_info[k] = Garbage
  /\ pc = "sent" => e = 0
  /\ pc \in {"commit", "build", "draw", "sort", "open", "sent"} => bytes_required = 0
  /\ pc \in {"open", "sent", "parse"} => i = 0
  /\ pc \in {"recommit", "root"} =>
       /\ fault \notin {"longer", "shorter"}
       /\ fault = "none" <=> \A x \in Executions : ~Spoilt(x)

-----------------------------------------------------------------------------
(* The verifier *)

PathAt(x, s) ==
  /\ Len(s) = len_cv_info[x]
  /\ HasPath(x, cv_at[x], s)

ParsedInv == pc \in {"recommit", "root"} =>
  \A x \in Executions : /\ cv_at[x] + len_cv_info[x] <= Len(cv_info)
                        /\ \E s \in PathsOf(OpenedBy(open_views[x])) : PathAt(x, s)

RecommitInv == pc = "recommit" =>
  /\ i \in 0 .. REVEALED
  /\ \A c \in 0 .. i - 1 :
       leaves[c] = IF BadShare(e) /\ c = REVEALED - 1 THEN Garbage
                   ELSE Leaf(e, open_views[e][c + 1])

\* Digests of the path that were used.
Used == len_cv_info[e] - auth_size

\* A digest in the queue is right or Garbage, and one is Garbage exactly if a
\* wrong share or digest was put in.
RootInv == pc = "root" =>
  /\ i = 0
  /\ auth_size <= len_cv_info[e]
  /\ auth = SubSeq(cv_info, cv_at[e] + Used + 1, Len(cv_info))
  /\ \E s \in PathsOf(OpenedBy(open_views[e])) :
       /\ PathAt(e, s)
       /\ \E d \in 0 .. LOG_PARTIES, n \in 1 .. REVEALED : \E m \in 1 .. n :
            /\ WalkAt(queue, Opened, d, n, m)
            /\ {s[k] : k \in 1 .. Used} = PathBefore(Opened, d, Index(queue))
            /\ \A k \in 0 .. n - 1 : leaves[Cell(queue, k)] \in {Garbage, <<e, At(queue, k)>>}
            /\ (\E k \in 0 .. n - 1 : leaves[Cell(queue, k)] = Garbage)
                 <=> (BadShare(e) \/ \E k \in 1 .. Used : cv_info[cv_at[e] + k] = Garbage)

RootsInv == pc \in {"recommit", "root"} =>
  \A x \in 0 .. e - 1 : merkle_roots[x] = IF Spoilt(x) THEN Garbage ELSE <<x, 1>>

IInv == /\ TypeOK /\ CommitInv /\ BuildInv /\ ViewsInv /\ RevealInv /\ SignatureInv /\ WitInv
        /\ FaultInv /\ ParsedInv /\ RecommitInv /\ RootInv /\ RootsInv /\ Accepted
=============================================================================
