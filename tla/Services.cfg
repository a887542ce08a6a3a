SPECIFICATION Spec
CONSTANTS
  DiffTrees <- MCTrees
  MergeTrees <- MCMergeTrees
  PlainWcs <- MCPlainWcs
  DiffWcs <- MCWcs
  DiffNames <- MCNames
  TweakPaths <- MCTweakPaths
  WcTexts = {"c"}
  MaxTweaks = 1
  CopyPaths <- PathsC
  FirstTree <- Tree1
  OtherTexts = {"t1"}
  MyText = "mine"
  EditPaths <- EditC
  OtherPaths <- OtherC
  MaxHead = 3
  MaxCommands = 2
  Names = {"p", "q"}
  Values = {"a"}
  IgnoreName = "p"
  Matching = {"a"}
  MaxRev = 2
  MaxClock = 2
  DavPaths <- PathsD
  RevNames <- RevsD
  IdNames <- IdsD
  Activities = {"act1", "act2"}
  Imported <- ImportD
  MaxDavRev = 3
  MaxTxns = 2
  MaxLost = 1
CHECK_DEADLOCK FALSE
INVARIANTS DiffsRight CopiesRight PropsRight AnswerTrue UrlsStable
PROPERTIES MyTextsKept
