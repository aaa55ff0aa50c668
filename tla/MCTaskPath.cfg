CONSTANTS
  LEVEL = 3
  TreeId = {0, 1, 2}
  PushData = {0}
  FIFO_SIZE = 2
  MaxTasks = 3
SPECIFICATION FairPathSpec
PROPERTIES ImplementsLists EveryTaskServed
