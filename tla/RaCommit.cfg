SPECIFICATION Spec
CONSTANTS
  Clients = {"l", "v"}
  Dav = {"v"}
  Files <- MCFiles
  SubDirs <- MCSubDirs
  Ops = {"modify", "delete", "add", "replace", "copy"}
  MaxItems = 2
  MaxCommits = 2
  MaxFaults = 1
  DieInBump = FALSE
CHECK_DEADLOCK FALSE
INVARIANTS RevisionsRight NoBlindChange AllOrNothing
