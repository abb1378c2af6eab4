\* Two overlapping handlers on one approval.
CONSTANTS
    DeployMode = "full"
    NonNumber = NonNumber
    Unhashable = Unhashable
    NoOne = NoOne
    Approvals = {a1}
    Users = {u1, u2}
    Requests = {r1, r2}
    Proposals <- MCProposalsSerial
    InitialModels <- MCModels
    Concurrent = TRUE
    RegistryMayRaise = FALSE
    MaxCrashes = 0
SPECIFICATION FairSpec
PROPERTY DecidedIsTerminal
