CONSTANTS
  Captures = {d1}
  LongDocs = {d1}
  OwnNotes = {}
  Chunks = {c1, c2}
  MaxRevision = 1
  BackoffSteps = 0
  MaxInFlight = 2
  Failures = {"capacity", "other"}
  ConsensusProfile = TRUE
  ReviewRequired = FALSE
  MaxCommands = 0
  MaxCrashes = 1
  None = None
SPECIFICATION BuildableSpec
PROPERTY EveryDocumentSettles
