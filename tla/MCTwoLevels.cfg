CONSTANTS
  LEVEL = 2
  TreeId = {0, 1}
  PushData = {0, 1, 2, 3, 4, 5}
  FIFO_SIZE = 16
  MaxTasks = 0
  PTW = 3
  MTW = 0
  CTW = 4
  Cycles = 80
SPECIFICATION TestSpec
INVARIANT PopToEmpty
CHECK_DEADLOCK FALSE
