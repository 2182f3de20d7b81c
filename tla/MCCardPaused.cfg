SPECIFICATION Spec
CONSTANTS
  r1 = r1
  r2 = r2
  Reporters = {r1}
  IdleSetting = TRUE
  MaxOps = 2
  MaxTurns = 1
  MaxFaults = 0
INVARIANTS PausedMeansDead
CHECK_DEADLOCK FALSE
