CONSTANTS
  PTW = 3
  MTW = 1
  TREE_NUM_BITS = 2
  IDLECYCLE_BITS = 2
  ROM_SIZE = 4
  Metas = {0, 1}
  Traces <- MCTraces
SPECIFICATION Spec
INVARIANTS ReplayedAsWritten WaitsAsAsked FinishAsMarked
PROPERTIES ReplaysForever
