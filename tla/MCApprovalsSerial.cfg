\* One handler at a time, no crash: what the workflow promises when requests
\* do not overlap.
CONSTANTS
    DeployMode = "full"
    NonNumber = NonNumber
    Unhashable = Unhashable
    NoOne = NoOne
    Approvals = {a1, a2}
    Users = {u1, u2}
    Requests = {r1, r2}
    Proposals <- MCProposalsSerial
    InitialModels <- MCModels
    Concurrent = FALSE
    RegistryMayRaise = FALSE
    MaxCrashes = 0
SPECIFICATION FairSpec
INVARIANT RegistryMatchesAudit
PROPERTIES RegisterSpec ApprovedGetsEffect
