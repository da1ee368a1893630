SPECIFICATION Spec
CONSTANTS
  T = 5
  W = 3
  NUM_KEYPAIRS = 4
  BufferBits = 7
  POSITION_T = 16
  Garbage = {0, 255}
INVARIANTS PositionsAreFresh
CHECK_DEADLOCK FALSE
