SPECIFICATION Spec
CONSTANTS
  p1 = p1
  p2 = p2
  u1 = u1
  u2 = u2
  u3 = u3
  Procs = {p1, p2}
  Updates = {u1, u2}
  NoDoc = NoDoc
  NoUpdate = NoUpdate
  MaxFaults = 0
INVARIANT SeesThePast
CHECK_DEADLOCK FALSE
