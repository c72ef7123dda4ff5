SPECIFICATION LiveSpec
CONSTANTS
  Contractors = {1, 2}
  LastTask = 2
  Reserve <- Reserves
  Expected <- Expects
  Delivery = 1
  InOrder = TRUE
  Budget = 11
  Deadline = 9
  CostRate = 1
  TimeWeight = 1
  Extra = 20
  None = None
INVARIANTS
  ReservesHold
PROPERTIES
  WarEnds
  BestCanWin
