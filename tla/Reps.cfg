SPECIFICATION Spec
CONSTANTS
  Txns = {t1, t2}
  Readers = {r1}
  Bytes = {5}
  PropLists <- Lists
  FirstRecords <- Records
  Base = 2
  WindowSize = 4
  WriteBuffer = 0
  ReadSize = 1
  MaxText = 2
  MaxKeys = 5
  FirstProps <- Props
SYMMETRY Symmetry
CONSTRAINT Untainted
CHECK_DEADLOCK FALSE
INVARIANTS ContentsKept ReadersGetText TablesSound
