CONSTANTS
  Captures = {d1}
  LongDocs = {d1}
  OwnNotes = {}
  Chunks = {c1, c2}
  MaxRevision = 2
  BackoffSteps = 0
  MaxInFlight = 2
  Failures = {"other"}
  ConsensusProfile = FALSE
  ReviewRequired = FALSE
  MaxCommands = 1
  MaxCrashes = 0
  None = None
SPECIFICATION Spec
INVARIANT FailedHasNoLiveWorkflow
