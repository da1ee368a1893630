\* The whole life of a seed tree with 11 leaves, for every challenge.
CONSTANTS
  T = 11
  LOG2T = 4
  SUBROOTS = 3
  npl <- npl11
  lpl <- lpl11
  off <- off11
  leaves_start_indices <- starts11
  cons_leaves <- cons11
  LevelStart <- levels11
  FirstRound <- rounds11
  Seed <- MCSeed
  NoSeed = NoSeed
  RootSeed = 5
  Expand <- MCExpand
  Challenges <- AllChallenges
  MAX_PUBLISHED_SEEDS = 6
SPECIFICATION Spec
INVARIANTS LabelsAgree Secrecy AllSeedsUsed MinimalCover StorageBound
PROPERTIES ImplementsRoundSeeds
CHECK_DEADLOCK FALSE
