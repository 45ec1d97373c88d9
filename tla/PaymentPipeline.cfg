\* One payment, one relay, one consumer, two entries.
CONSTANTS
  p1 = p1
  s1 = s1
  alert = alert
  c1 = c1
  r1 = r1
  Payments = {p1}
  Sites = {s1}
  NoSite = NoSite
  Changes <- SomeChanges
  Alerts = {alert}
  Relays = {r1}
  Batch = 1
  MaxAttempts = 1
  NoRow = NoRow
  MaxLostTicks = 1
  Consumers = {c1}
  RecordKeys <- OneKey
  Records <- SomeRecords
  Malformed = Malformed
  Foreign = Foreign
  BATCH = 1
  MAX_DELIVERIES = 1
  MaxStream = 2
  MaxAborts = 1
SPECIFICATION PipelineSpec
INVARIANTS
  ShowsOnlyHistory
  LatestPrevails
  ChainOfCustody
