\* Switch to a branch.
SPECIFICATION SwitchSpec
CHECK_DEADLOCK FALSE
CONSTANTS
  Kinds <- MCBranchKinds
  First <- MCBranchFirst
  Anchor <- MCAnchor
  Layers = {"local"}
  Orders <- MCOrders
  Changes <- MCBranchChanges
  Jobs = {"checkout"}
  Anonymous = FALSE
  MaxRev = 3
  MaxJobs = 2
  MaxFaults = 0
INVARIANT SwitchExact
