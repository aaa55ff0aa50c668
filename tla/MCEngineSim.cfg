SPECIFICATION CompilerSpec
CONSTANTS
  Flow = {1, 2}
  weightTable <- Weights
  Length = {1, 3}
  Scale = 2
  MaxPackets = 4
  MaxTime = 3
  flowNodeMap <- OwnTree
  Captures <- AllCaptures
  IDLE_LIMIT = 0
  MAX_INTERVAL_IDLECYCLE = 1
  FIRST_IDLECYCLE = 1
  MAX_IDLECYCLE = 3
  N = 4
  L = 3
  FLOW_NUM = 2
  START = 2
  EMPTY_CYCLES = 12
  NumPackets = 4
  Times = {0, 1, 3}
INVARIANTS RanksSpaced DebtIsQueued ClockRateRight MapMatchesTrace
INVARIANTS PopsFindPackets NoOvertaking FigureShowsDepartures
PROPERTIES TreesAreQueues OperationsGoOn Finishes
CHECK_DEADLOCK FALSE
