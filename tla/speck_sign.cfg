SPECIFICATION Spec
CONSTANTS
  Q = 3
  K = 4
  Bits = 2
  NUM_KEYPAIRS = 2
  Permutations <- MCPermutations
  T = 4
  W = 2
  Challenges <- MCChallenges
  Seed = {"s"}
  NoSeed = NoSeed
  Word <- MCWord
  Published <- MCPublished
  MAX_PUBLISHED_SEEDS = 2
  FixedSize = 3
  SeedSize = 2
  mlen = 2
INVARIANTS Antiorthogonal KeysAreEquivalent Accepted
PROPERTIES Returns
CHECK_DEADLOCK FALSE
