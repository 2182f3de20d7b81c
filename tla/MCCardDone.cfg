SPECIFICATION FairSpec
CONSTANTS
  r1 = r1
  r2 = r2
  Reporters = {r1}
  IdleSetting = FALSE
  MaxOps = 1
  MaxTurns = 1
  MaxFaults = 0
PROPERTIES DoneCardSleeps
CHECK_DEADLOCK FALSE
