SPECIFICATION Spec
CONSTANTS
  t1 = t1
  t2 = t2
  t3 = t3
  Txns = {t1, t2}
  Paths <- SmallPaths
  Ops <- AllOps
  PropPaths <- FilePaths
  NewDirPaths <- OnlyB
  MaxOps = 1
  MaxCrashes = 1
  InitNodes <- SmallNodes
  InitRevs <- SmallRevs
SYMMETRY SymTxns
CHECK_DEADLOCK FALSE
INVARIANTS HistoryExact FulltextReachable
PROPERTIES ImplementsFsCommit
