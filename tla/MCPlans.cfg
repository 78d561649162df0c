\* Two plans for one of two orders that need the item, two requests in flight.
SPECIFICATION Spec
CONSTANTS
  p1 = p1
  p2 = p2
  o1 = o1
  o2 = o2
  r1 = r1
  r2 = r2
  Plan = {p1, p2}
  Order = {o1, o2}
  OrderOf <- Owner
  Want <- Wanted
  SelfApproved = {p2}
  Request = {r1, r2}
  OpeningStock = 2
  MaxStock = 2
  NoPlan = NoPlan
SYMMETRY Symmetry
INVARIANTS TypeOK OneApprovedPlan HeldAsRecorded
PROPERTIES YieldsToApproval
\* Every plan may be decided and the stock used up.
CHECK_DEADLOCK FALSE
