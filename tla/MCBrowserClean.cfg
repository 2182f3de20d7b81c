SPECIFICATION Spec
CONSTANTS
  c1 = c1
  c2 = c2
  Cards = {c1, c2}
  SlotSpace = 2
  Preferred <- SameSlot
  Requests = {1}
  NoCard = NoCard
  NoSlot = NoSlot
  MaxFaults = 0
INVARIANTS CleanSlots
CHECK_DEADLOCK FALSE
