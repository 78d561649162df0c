\* One order, every route, a long history: the ledger, the adjustments, the deliveries.
SPECIFICATION Spec
CONSTANTS
  Order = {o1}
  NoOrder = NoOrder
  steel = steel
  chair = chair
  Material = {steel}
  Product = chair
  ClientKey = {}
  Recipe <- OnePerPair
  Batch = 2
  OpeningStock <- Shelf
  CompanyLimit = "no_limit"
  MaxQty = 2
  MaxLines = 1
  MaxRevision = 13
  MaxInFlight = 1
CONSTRAINT FewDetours
INVARIANTS LedgerConforms AdjustmentsMatchLedger FinishedGoodsOncePerDelivery
PROPERTIES ImplementsCanonicalOrder
\* An order may rest for ever: cancelled, closed, or at a bound.
CHECK_DEADLOCK FALSE
