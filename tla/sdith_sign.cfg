\* SDitH's threshold variant: two executions of eleven parties.
SPECIFICATION Spec
CONSTANTS
  PARTIES = 11
  LOG_PARTIES = 4
  REVEALED = 3
  EXECUTIONS = 2
  MAX_OPEN_LEAVES = 7
  NULL = NULL
  Garbage = Garbage
  Views <- MCViews
INVARIANTS QueueIsSorted PathIsWhatIsNeeded Accepted
PROPERTIES Returns
CHECK_DEADLOCK FALSE
