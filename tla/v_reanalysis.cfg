CONSTANTS
    Candidates = {1, 2}
    Kinships <- MCKinships
    MaxEvents = 0
    Nobody = Nobody
    Appliers = {Nobody, b1, 1, 2}
    Batches = {b1}
    NoBatch = NoBatch
    Runs = {1, 2}
    NoRun = NoRun
    Caps = {1}
    PerRun = 1
    Days = 1
    Sentences = {1, 2}
    Related = {1}
    MaxEdits = 1
    MaxAttempts = 2
    MaxSends = 1
    MaxUpsets = 1
    PagedProposals = 1
    MaxPolicies = 2
    MaxKeys = 1
    MaxDecisions = 2
    MaxTurns = 1
    NoPolicy = NoPolicy
    NoSim = NoSim
    NoAnswer = NoAnswer
    Publications = {p1, p2}
    MaxPlans = 2
    MaxReversionLosses = 1
    NoPublication = NoPublication
    NoPlan = NoPlan
    NoReply = NoReply
    Proposed = {1}
    Dialogs = {d1}
    MaxBatches = 1
    MaxSurprises = 1
    MaxChoices = 1
    NoRow = NoRow
SPECIFICATION Spec
CHECK_DEADLOCK FALSE
INVARIANT AnalysisIsInForce
