CONSTANTS
  LEVEL = 3
  TreeId = {0}
  PushData = {0}
SPECIFICATION Spec
INVARIANTS TypeOK EveryCommandTaken PopUndisturbed
PROPERTY OperationsAdvance
