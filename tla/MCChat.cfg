\* A customer who sends two messages and one of the staff, two requests in flight,
\* a sweeper.  No symmetry: a liveness property is checked.
SPECIFICATION FairSpec
CONSTANTS
  customer = customer
  agent = agent
  k1 = k1
  k2 = k2
  k3 = k3
  Customer = customer
  Staff = {agent}
  Key = {k1, k2, k3}
  Owner <- OwnerOf
  Screen = {customer, agent}
  NoOne = NoOne
  NoKey = NoKey
  Slot = {r1, r2}
  Sweeper = {w1}
  MaxMessages = 2
INVARIANTS SentOnce WaitingTellsLastWord SkippedOnlyIfOvertaken LastIsLatest
PROPERTIES WaitIsNoticed
