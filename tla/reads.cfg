CONSTANTS
    n1 = n1
    c1 = c1
    c2 = c2
    Notes = {n1}
    MaxVersion = 2
    MaxEdits = 1
    NoFile = NoFile
    Models = {A, B}
    Jobs = {1, 2}
    Retrievals = {q1}
    BatchSize = 2
    Backoffs = 1
    MaxChanges = 1
    MaxFaults = 1
    NoModel = NoModel
    NoQuestion = NoQuestion
    Claims = {c1, c2}
    NoClaim = NoClaim
    NoteOf <- MCNoteOf
    DerivedFrom <- MCDerivedFrom
    Locked = {}
    Questions = {"q"}
    Readers = {"api"}
    MaxUpsets = 1
    MaxTries = 1
    MaxServers = 2
    MaxOrders = 2
    MaxLate = 1
    NoServer = NoServer
    MaxData = 2
    MaxLapses = 1
    NoEntry = NoEntry
    Docs = {d1, d2}
    KeepCopies = 1
    MaxCopies = 2
    MaxMoves = 1
    MaxMishaps = 1
    NoCopy = NoCopy
SPECIFICATION FairSpec
INVARIANTS IndexIsSound SessionIsSound
PROPERTIES EverythingCatchesUp AnswersStand
CHECK_DEADLOCK FALSE
