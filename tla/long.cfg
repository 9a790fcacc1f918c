CONSTANTS
  Captures = {d1}
  LongDocs = {d1}
  OwnNotes = {}
  Chunks = {c1, c2}
  MaxRevision = 3
  BackoffSteps = 0
  MaxInFlight = 2
  Failures = {}
  ConsensusProfile = FALSE
  ReviewRequired = FALSE
  MaxCommands = 2
  MaxCrashes = 0
  None = None
SPECIFICATION Spec
SYMMETRY ChunkSymmetry
INVARIANTS AtMostOneLive ResultHasEveryChunk FinishedIsQuiet BatchFitsTheLimit
PROPERTY ImplementsLifecycle
