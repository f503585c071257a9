CONSTANTS
  PipeCap = 3
  MaxPresses = 2
  MayFail = TRUE
SPECIFICATION FairSpec
CHECK_DEADLOCK FALSE
PROPERTIES ShutdownOrStuck Outcomes
