SPECIFICATION Spec
CONSTANTS
  Files <- MCFiles
  SubDirs <- MCSubDirs
  Starts <- MCStarts
  Regions = {1, 2}
  Commands = {"update", "commit", "cleanup", "add", "delete", "revert", "resolve"}
  OthersDo = {"edit", "add", "delete"}
  MaxRev = 2
  MaxCmds = 4
  MaxEdits = 1
  MaxCrashes = 1
  Hasty = FALSE
  Mixed = FALSE
CHECK_DEADLOCK FALSE
INVARIANTS EntriesRight CommitExact CleanupCleans
PROPERTIES WorkKept
