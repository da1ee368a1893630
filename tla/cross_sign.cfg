\* CROSS over a tree of 13 leaves, for every challenge of weight 8.
SPECIFICATION Spec
CONSTANTS
  T = 13
  LOG2T = 4
  SUBROOTS = 2
  npl <- npl13
  lpl <- lpl13
  off <- off13
  leaves_start_indices <- starts13
  cons_leaves <- cons13
  LevelStart <- levels13
  FirstRound <- rounds13
  Challenges <- MCChallenges
  Seed <- MCSeed
  NoSeed = 0
  RootSeed = 77
  Expand <- MCExpand
  Digest <- MCDigest
  Garbage = 999
  Zero = 0
  HashPair <- MCHash
  TREE_NODES_TO_STORE = 7
  Commit0 <- MCCommit0
  Commit1 <- MCCommit1
  Faults = {"none", "message", "path", "proof", "group"}
INVARIANTS Accepted CommitmentsAgree PathAndProof NeverReadPending ComputedAgrees QueuedAreDefined
PROPERTIES ImplementsRoundSeeds
CHECK_DEADLOCK FALSE
