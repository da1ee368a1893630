SPECIFICATION Spec
CONSTANTS
  T = 4
  W = 2
  NUM_KEYPAIRS = 3
  Byte = 3
  Challenges <- MCChallenges
  NoForm <- MCNoForm
  Published <- MCPublished
  MAX_PUBLISHED_SEEDS = 2
  FixedSize = 3
  SeedSize = 2
  Lengths = {0, 1}
  NoSeed = NoSeed
  WrongCode = WrongCode
INVARIANTS AcceptedUnlessOpened SameTranscript
PROPERTIES Returns
CHECK_DEADLOCK FALSE
