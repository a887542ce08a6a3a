SPECIFICATION Spec
CONSTANTS
  t1 = t1
  t2 = t2
  t3 = t3
  p1 = p1
  p2 = p2
  x = x
  y = y
  absent = absent
  Txns = {t1, t2, t3}
  Paths = {p1}
  Content = {x, y}
  Absent = absent
  FirstRevs <- TwoRevs
SYMMETRY SymTxns
CHECK_DEADLOCK FALSE
INVARIANTS NoLostUpdate OwnChangesKept
