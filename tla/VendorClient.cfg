\* Three requests, one slot, one place to wait: the third is shed.
CONSTANTS
  Callers = {c1, c2, c3}
  FailureThreshold = 2
  HalfOpenMax = 1
  MaxConcurrent = 1
  MaxQueue = 1
  TotalAttempts = 2
SPECIFICATION FairSpec
INVARIANTS
  LayersAccounted
PROPERTIES
  OnlyDownTrips
  HostAdmitsAgain
  EveryRequestEnds
