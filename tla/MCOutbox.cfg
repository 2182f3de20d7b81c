SPECIFICATION FairSpec
CONSTANTS
  c1 = c1
  m1 = m1
  m2 = m2
  f1 = f1
  f2 = f2
  NoCard = NoCard
  Cards = {c1}
  Msgs = {m1, m2}
  CardOf <- TwoMessages
  Flushers = {f1, f2}
  MaxFaults = 2
INVARIANTS TypeOK NothingLost InOrder TwiceOnlyAfterFault
PROPERTIES KeepsPromise QueueDrains GoneCardLeavesNoQueue
CHECK_DEADLOCK FALSE
