CONSTANTS
  LEVEL = 3
  TreeId <- MCTreeId
  PushData <- MCWords
  FIFO_SIZE = 8
  MaxTasks = 4
  PTW = 2
  MTW = 2
  CTW = 4
  TREE_NUM_BITS = 2
  Packet <- MCPacket
SPECIFICATION GenSpec
INVARIANTS PopsFindPackets PacketsAccounted EveryAnswerShown
