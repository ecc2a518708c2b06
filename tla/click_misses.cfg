CONSTANTS
  Files <- MCFiles
  Documented <- MCDocumented
  Pressed <- MCPressed
  MaxPresses = 4
SPECIFICATION MCSpec
CHECK_DEADLOCK FALSE
INVARIANT ClicksHit
