CONSTANTS
  SRAM_NUM = 4
  MaxTree = 4
  Forests <- MCForests
SPECIFICATION TableSpec
INVARIANTS LayoutDisjoint HardwareAgrees TableGivesPlaces
CHECK_DEADLOCK FALSE
