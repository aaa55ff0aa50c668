CONSTANTS
  LEVEL = 3
  TreeId = {0, 1, 3}
  PushData <- MCWords
  FIFO_SIZE = 2
  MaxTasks = 4
  PTW = 2
  MTW = 1
  CTW = 4
SPECIFICATION MCSpec
INVARIANTS TopTypeOK TreesInOrder
PROPERTIES ImplementsPIFO PredictionHolds
