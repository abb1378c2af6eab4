\* The escalation, two overlapping requests, a governance alarm and a crash.
CONSTANTS
    Nothing = Nothing
    Requests = {r1, r2}
    MaxGovernance = 1
    MaxCrashes = 1
SPECIFICATION FairSpec
INVARIANTS TypeOK AuditTruth OneActive HandledStaysHandled
PROPERTIES EscalationShown
