SPECIFICATION Spec
CONSTANTS
  r1 = r1
  r2 = r2
  Reporters = {r1, r2}
  IdleSetting = TRUE
  MaxOps = 1
  MaxTurns = 1
  MaxFaults = 1
SYMMETRY Interchangeable
INVARIANTS TypeOK AsleepHasNoDot
PROPERTIES PauseSticks 
CHECK_DEADLOCK FALSE
