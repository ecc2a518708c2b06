CONSTANTS
  Files <- MCFiles
  Documented <- MCDocumented
  Pressed <- MCPressed
  MaxPresses = 5
SPECIFICATION MCSpec
CHECK_DEADLOCK FALSE
INVARIANTS ListsUsable KeysReach TextKeepsItsMeaning
PROPERTIES KeysMoveTheirOwn
