\* One order and the decisions on its materials: is nothing deducted beyond the request?
SPECIFICATION Spec
CONSTANTS
  Order = {o1}
  NoOrder = NoOrder
  steel = steel
  chair = chair
  Material = {steel}
  Product = chair
  ClientKey = {}
  Recipe <- OnePerPair
  Batch = 2
  OpeningStock <- Shelf
  CompanyLimit = "no_limit"
  MaxQty = 2
  MaxLines = 2
  MaxRevision = 4
  MaxInFlight = 1
INVARIANTS IssuedWithinRequest
\* An order may rest for ever: cancelled, closed, or at a bound.
CHECK_DEADLOCK FALSE
