\* Mirath and RYDE: three repetitions, counters in batches of two.
SPECIFICATION Spec
CONSTANTS
  TAU = 3
  PARAM_N = 4
  T_OPEN = 4
  MAX_OPEN = 8
  Seed <- MCSeed
  NoSeed = 0
  RootSeed = 1
  ExpandSeed <- MCExpand
  SHAKE_STEP = 2
  BATCHES = 2
  Oracles <- MCOracles
INVARIANTS ListIsCover SearchIsExact NeverFull FirstAcceptable
PROPERTIES ImplementsRoundSeeds Termination
CHECK_DEADLOCK FALSE
