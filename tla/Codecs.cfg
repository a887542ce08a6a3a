CONSTANTS Chunk = 4 KeySize = 2 IntBase = 4 LenBase = 2
Texts <- MCTexts
FileNames = {"f"} DirNames = {"d"} Vals = {"none","empty","v"}
MaxCalls = 9 MaxFailing = 6 MaxProps = 1 MaxDepth = 2
LineLen = 8 KeyLineMax = 100 ImplicitMax = 4
Samples <- MCSamples
Stored <- MCStored
KeywordMax = 16 StyleValues = {"none","native","CRLF","CR","odd"}
WorkTexts <- MCWorkTexts
Platforms <- MCPlatforms
Keywords <- MCKeywords
WordLists <- MCWordLists
PathSet <- MCPathSet
TargetLists <- MCTargetLists
ItemSets <- MCItemSets
SPECIFICATION Spec
CHECK_DEADLOCK FALSE
INVARIANTS DeltasRight DrivesRight ConversionsRight CommitDriveRight
