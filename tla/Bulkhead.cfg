\* Five callers, two slots, a waiting room of two.
CONSTANTS
  Callers = {c1, c2, c3, c4, c5}
  MaxConcurrent = 2
  MaxQueue = 2
SPECIFICATION BulkheadFairSpec
INVARIANTS
  SlotsAccounted
  QueueHoldsWaiters
PROPERTIES
  EveryWaiterLeaves
