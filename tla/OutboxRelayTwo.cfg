\* Two relays drain one table with a record, an alert and an unparseable row;
\* leases lapse, a tick dies.
CONSTANTS
  a = a
  b = b
  c = c
  r1 = r1
  r2 = r2
  Relays = {r1, r2}
  Rows = {a, b, c}
  NoRow = NoRow
  Kind <- MixedKinds
  Batch = 2
  MaxAttempts = 2
  MaxAborts = 1
SPECIFICATION FairSpec
INVARIANTS
  SentWasHandled
  DeadOnlyWhenExhausted
  AttemptsBounded
PROPERTIES
  EveryRowSettles
\* Once every row has settled, no relay has anything left to do.
CHECK_DEADLOCK FALSE
