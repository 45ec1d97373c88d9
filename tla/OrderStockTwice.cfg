\* A capture reported again after the order was failed or refunded.
CONSTANTS
  bag = bag
  cap = cap
  h1 = h1
  h2 = h2
  cart = cart
  o1 = o1
  Skus = {bag, cap}
  Holds = {h1, h2, cart}
  SkuOf <- TwoSkus
  Units <- OneEach
  OnHand <- Shelf
  clerk = clerk
  Clerks = {clerk}
  RowOf <- CountsCaps
  NoCount = NoCount
  MaxQuantity = 1
  Orders = {o1}
  NoOrder = NoOrder
  OrderOf <- OneOrder
  InDb = {cap}
  MaxCaptures = 2
SPECIFICATION Spec
INVARIANTS
  FulfilledOnce
CHECK_DEADLOCK FALSE
