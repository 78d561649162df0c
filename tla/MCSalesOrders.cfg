\* One order, two requests in flight, others that use its item.
SPECIFICATION Spec
CONSTANTS
  o1 = o1
  l1 = l1
  l2 = l2
  r1 = r1
  r2 = r2
  Order = {o1}
  Line = {l1, l2}
  Approval = {a1}
  Request = {r1, r2}
  Steps = 2
  OpeningStock = 2
  MaxStock = 2
  NoOrder = NoOrder
  NoApproval = NoApproval
SYMMETRY Symmetry
CONSTRAINT FewRaces
INVARIANTS StockFollowsStatus StockIsAccountedFor EveryStepSigned
\* Every order may be cancelled or gone.
CHECK_DEADLOCK FALSE
