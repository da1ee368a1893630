SPECIFICATION Spec
CONSTANTS
  T = 6
  W = 3
  NUM_KEYPAIRS = 2
  BufferBits = 7
  POSITION_T = 8
  Garbage = {0, 255}
PROPERTIES RejectionIsExact
CHECK_DEADLOCK FALSE
