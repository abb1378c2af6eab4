\* Overlapping handlers, one crash, the topology with the widest rights.
CONSTANTS
    DeployMode = "lite"
    NonNumber = NonNumber
    Unhashable = Unhashable
    NoOne = NoOne
    Approvals = {a1, a2}
    Users = {u1, u2}
    Requests = {r1, r2}
    Proposals <- MCProposalsAll
    InitialModels <- MCModels
    Concurrent = TRUE
    RegistryMayRaise = TRUE
    MaxCrashes = 1
SYMMETRY RaceSymmetry
SPECIFICATION Spec
INVARIANTS TypeOK SeparationOfDuties AuditTruth EffectsAuthorised FailuresAlarmed ActiveVersionWasApproved ModelChangedIsRecorded
