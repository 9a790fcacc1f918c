CONSTANTS
  Notes = {"A", "B"}
  Claims = {"a", "b", "a1", "b1"}
  NoteOf <- MCNoteOf
  Candidates = {1, 2}
  Target <- CrossTarget
  Witness <- CrossWitness
  Successor <- CrossSuccessor
  Relations = {"EXTENDS"}
  EditMarks = {e1}
  MaxRevision = 1
  MaxEdits = 1
  MaxFaults = 1
  NoFile = NoFile
SPECIFICATION FairSpec
INVARIANTS TablesAreSound IntentionsDoNotMeet
PROPERTIES EditsAreKept WrittenOnce ImplementsKnowledge StartSettles
CHECK_DEADLOCK FALSE
