SPECIFICATION Spec
CONSTANTS
  c1 = c1
  m1 = m1
  m2 = m2
  f1 = f1
  f2 = f2
  NoCard = NoCard
  Cards = {c1}
  Msgs = {m1, m2}
  CardOf <- TwoMessages
  Flushers = {f1}
  MaxFaults = 0
INVARIANT DeliveredToClaude
CHECK_DEADLOCK FALSE
