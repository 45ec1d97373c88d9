\* Two callers race six reports about one payment, and one about another.
CONSTANTS
  w1 = w1
  w2 = w2
  Workers = {w1, w2}
  p1 = p1
  p2 = p2
  t1 = t1
  t2 = t2
  site = site
  other = other
  Payments = {p1, p2}
  Transactions = {t1, t2}
  NoAttr = NoAttr
  NoEvent = NoEvent
  Attributions <- MCAttributions
  Events <- DisputedEvents
SPECIFICATION FairSpec
INVARIANTS
  OutboxReplaysState
  ExactlyOnceEffects
  DisagreementSurfaced
  ConvergesToHighestReport
PROPERTIES
  ImplementsLadder
  EveryApplyReturns
