SPECIFICATION Safety
CONSTANTS
  e1 = e1
  e2 = e2
  e3 = e3
  p1 = p1
  p2 = p2
  Event = {e1, e2, e3}
  Partition = {p1, p2}
  Home <- TwoAggregates
  MaxCopies = 1
  Consumer = {c1, c2}
  None = None
SYMMETRY Symmetry
INVARIANTS RaisedIsNotCommitted
CHECK_DEADLOCK FALSE
