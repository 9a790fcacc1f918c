CONSTANTS
  Captures = {d1}
  LongDocs = {}
  OwnNotes = {}
  Chunks = {}
  MaxRevision = 1
  BackoffSteps = 1
  MaxInFlight = 1
  Failures = {"cut", "other"}
  ConsensusProfile = FALSE
  ReviewRequired = FALSE
  MaxCommands = 1
  MaxCrashes = 1
  None = None
SPECIFICATION FairSpec
PROPERTY WorkSettles
