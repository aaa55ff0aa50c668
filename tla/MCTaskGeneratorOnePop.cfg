CONSTANTS
  LEVEL = 4
  TreeId <- MCTreeId
  PushData <- MCWords
  FIFO_SIZE = 8
  MaxTasks = 4
  PTW = 2
  MTW = 2
  CTW = 4
  TREE_NUM_BITS = 2
  Packet <- TwoPackets
SPECIFICATION GenSpec
INVARIANT OnlyOneLevel0Pop
