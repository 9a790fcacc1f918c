CONSTANTS
  MaxRevision = 3
  Texts = {doc, renamed}
  MaxEdits = 2
  MaxOutages = 1
  MaxCrashes = 1
  MaxLosses = 1
  NoFile = NoFile
  Partial = Partial
  Edited = Edited
SPECIFICATION Spec
SYMMETRY TextSymmetry
INVARIANTS FilesAreSound PublishedWasInstalled OneNoteInForce RejectedKeepsItsEvidence
PROPERTY EditsAreKept
CHECK_DEADLOCK FALSE
