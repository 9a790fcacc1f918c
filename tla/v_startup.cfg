CONSTANTS
  Notes = {"A", "B", "W"}
  Claims = {"a", "b", "w", "a1", "b1"}
  NoteOf <- MCNoteOf
  Candidates = {1, 2}
  Target <- CrossTarget
  Witness <- SharedWitness
  Successor <- CrossSuccessor
  Relations = {"UNCERTAIN", "EXTENDS"}
  EditMarks = {e1}
  MaxRevision = 2
  MaxEdits = 0
  MaxFaults = 1
  NoFile = NoFile
SPECIFICATION Spec
INVARIANT NoStartFails
CHECK_DEADLOCK FALSE
