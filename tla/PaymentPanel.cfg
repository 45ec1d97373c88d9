\* Two replicas, a stream of two entries, a crash.
CONSTANTS
  c1 = c1
  c2 = c2
  k1 = k1
  Consumers = {c1, c2}
  RecordKeys = {k1}
  Records <- CaptureRecords
  Malformed = Malformed
  Foreign = Foreign
  BATCH = 2
  MAX_DELIVERIES = 2
  MaxStream = 2
  MaxAborts = 1
SPECIFICATION FairSpec
INVARIANTS
  AckedIsOnPanel
PROPERTIES
  PanelNeverRegresses
  EveryEntryLeaves
