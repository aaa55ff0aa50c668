CONSTANTS
  LEVEL = 3
  TreeId <- MCTreeId
  PushData <- MCWords
  FIFO_SIZE = 2
  MaxTasks = 6
  PTW = 2
  MTW = 2
  CTW = 4
  TREE_NUM_BITS = 2
  Packet <- MCPacket
SPECIFICATION GenSpec
INVARIANT RootFullFirst
