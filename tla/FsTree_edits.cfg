SPECIFICATION Spec
CONSTANTS
  t1 = t1
  t2 = t2
  t3 = t3
  Txns = {t1, t2}
  Paths <- OneDirPaths
  Ops <- EditOps
  PropPaths <- FilePaths
  NewDirPaths <- OneDirPaths
  MaxOps = 2
  MaxCrashes = 0
  InitNodes <- SmallNodes
  InitRevs <- SmallRevs
SYMMETRY SymTxns
CHECK_DEADLOCK FALSE
INVARIANTS NodesOwned CommittedInfoRight
PROPERTIES CommittedImmutable
