\* An order of two lines and a cart after the same bag; a clerk counting the caps.
CONSTANTS
  bag = bag
  cap = cap
  h1 = h1
  h2 = h2
  cart = cart
  o1 = o1
  Skus = {bag, cap}
  Holds = {h1, h2, cart}
  SkuOf <- TwoSkus
  Units <- OneEach
  OnHand <- Shelf
  clerk = clerk
  Clerks = {clerk}
  RowOf <- CountsCaps
  NoCount = NoCount
  MaxQuantity = 1
  Orders = {o1}
  NoOrder = NoOrder
  OrderOf <- OneOrder
  InDb = {cap}
  MaxCaptures = 1
SPECIFICATION Spec
INVARIANTS
  StockInBounds
  HoldsBackReserved
  NoSilentShortfall
  RejectedLeavesNothing
PROPERTIES
  HoldSettlesOnce
\* Every order may be settled and every hold gone.
CHECK_DEADLOCK FALSE
