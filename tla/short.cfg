CONSTANTS
  Captures = {d1, d2}
  LongDocs = {}
  OwnNotes = {d2}
  Chunks = {}
  MaxRevision = 2
  BackoffSteps = 1
  MaxInFlight = 1
  Failures = {"cut", "image", "other"}
  ConsensusProfile = FALSE
  ReviewRequired = TRUE
  MaxCommands = 2
  MaxCrashes = 1
  None = None
SPECIFICATION Spec
INVARIANTS TypeOK LastRevisionInv AnswersAreCurrent OneExecutionPerTask NothingPendingIsHidden
