\* One job, of a well-formed scenario or not, two overlapping ticks, a cancel, a failing tick and a restart.
CONSTANTS
    Nothing = Nothing
    Torn = Torn
    Missing = Missing
    Unread = Unread
    Scenario = S1
    IllFormed = IllFormed
    Jobs = {j1}
    Cancels = {c1}
    Ticks = {k1, k2}
    InitialModels <- MCModels
    FileMayMiss = TRUE
    MaxAborts = 1
    MaxRestarts = 1
    MaxOverlaps = 2
SPECIFICATION FairSpec
INVARIANTS TypeOK PassedHasApproval PipelineHonoured CandidateRegistered RegistryWhole
PROPERTIES JobSettles
