\* Two people beside the owner, a team of two, two requests in flight, two codes.
SPECIFICATION Spec
CONSTANTS
  p1 = p1
  p2 = p2
  r1 = r1
  r2 = r2
  Person = {p1, p2}
  Request = {r1, r2}
  MaxMembers = 2
  MaxCodes = 2
  MaxJoins = 2
  NoPerson = NoPerson
SYMMETRY Symmetry
INVARIANTS SeatsWithinLimit
PROPERTIES MovesAreLawful ComesBackByCode
\* Everybody may be suspended and nobody join.
CHECK_DEADLOCK FALSE
