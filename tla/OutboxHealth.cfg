\* The monitor beside a relay that may hang.
CONSTANTS
  a = a
  b = b
  c = c
  r1 = r1
  c1 = c1
  c2 = c2
  Relays = {r1}
  Checks = {c1, c2}
  Rows = {a, b, c}
  NoRow = NoRow
  Kind <- RecordAndPoison
  Batch = 2
  MaxAttempts = 2
  MaxAborts = 0
SPECIFICATION HealthFairSpec
PROPERTIES
  AlarmFollowsBacklog
  SettledIsFinal
