SPECIFICATION FairSpec
CONSTANTS
  t1 = t1
  t2 = t2
  t3 = t3
  Txns = {t1, t2, t3}
  Paths <- OneDirPaths
  Ops = {"make", "delete"}
  PropPaths <- FilePaths
  NewDirPaths = {}
  MaxOps = 1
  MaxCrashes = 0
  InitNodes <- SmallNodes
  InitRevs <- SmallRevs
INVARIANTS CommitFailsOnlyInConflict
PROPERTIES ImplementsFsCommit CommitReturns
CHECK_DEADLOCK FALSE
