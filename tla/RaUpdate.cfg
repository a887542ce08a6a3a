\* Checkout, update and status over both access layers.
SPECIFICATION Spec
CHECK_DEADLOCK FALSE
CONSTANTS
  Kinds <- MCKinds
  First <- MCFirst
  Anchor <- MCAnchor
  Layers = {"local", "dav"}
  Orders <- MCOrders
  Changes <- MCChanges
  Jobs = {"checkout", "update", "status"}
  Anonymous = FALSE
  MaxRev = 3
  MaxJobs = 3
  MaxFaults = 1
INVARIANTS EntriesSound UpdateBrings StatusForetells
