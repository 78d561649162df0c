\* Two cases of an order of up to two lines, two edits of it in flight, one form.
SPECIFICATION CasesSpec
CONSTANTS
  c1 = c1
  c2 = c2
  l1 = l1
  l2 = l2
  e1 = e1
  e2 = e2
  k1 = k1
  Case = {c1, c2}
  Line = {l1, l2}
  Priority = {"normal", "urgent"}
  Form = {k1}
  Edit = {e1, e2}
  MaxRevision = 3
  MaxVersion = 6
  NoCase = NoCase
CONSTRAINT InTurn
SYMMETRY Symmetry
INVARIANTS CasesTypeOK SnapshotTellsRevision ShippedHasLeftStock ProducedOncePerRevision
PROPERTIES EditsSeeLatest
\* Every case may be converted and the bounds reached.
CHECK_DEADLOCK FALSE
