CONSTANTS
  Files = {a, b}
  Documents = {v1, v2}
  Truncated = Truncated
  Broken = Broken
  NoFile = NoFile
  Id = Id
  MaxDrops = 2
  MaxFaults = 2
  MaxLosses = 1
  Locations = {"l1", "l2"}
  MaxNews = 1
  MaxUpdates = 1
  MaxChecks = 2
  MaxMishaps = 1
  Papers = {1, 2}
  NameOf <- MCNameOf
  Texts <- MCTexts
  MaxImports = 2
  MaxAccidents = 1
SPECIFICATION FairScenes
INVARIANTS OriginalIsKept PendingHasItsFile FoldersAreSound DocumentsEnterOnce
PROPERTIES EverythingComesIn NothingIsOverwritten
CHECK_DEADLOCK FALSE
