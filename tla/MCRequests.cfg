\* Two requests, three sessions in flight.
SPECIFICATION Spec
CONSTANTS
  s1 = s1
  s2 = s2
  s3 = s3
  Req = {q1, q2}
  Session = {s1, s2, s3}
  MaxQty = 2
  NoReq = NoReq
SYMMETRY Symmetry
INVARIANTS ConvertedOnceAndForCause StatusTellsOrder
PROPERTIES ManagementDecidesOnce
\* Every request may be decided.
CHECK_DEADLOCK FALSE
