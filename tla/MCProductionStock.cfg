\* Decisions that race for an order, transfers that outlive it, a split of it.
SPECIFICATION Spec
CONSTANTS
  Order = {o1, o2}
  NoOrder = NoOrder
  steel = steel
  chair = chair
  Material = {steel}
  Product = chair
  ClientKey = {k1}
  Recipe <- OnePerPair
  Batch = 2
  OpeningStock <- Shelf
  CompanyLimit = "in_production"
  MaxQty = 2
  MaxLines = 2
  MaxRevision = 4
  MaxInFlight = 2
CONSTRAINT ShortPair
SYMMETRY AnyOrder
INVARIANTS TransfersPostedOnce CancelReversesDeductions OneDecisionCarriedOut RequestCoversOrder
PROPERTIES SplitConservesQuantity
\* An order may rest for ever: cancelled, closed, or at a bound.
CHECK_DEADLOCK FALSE
