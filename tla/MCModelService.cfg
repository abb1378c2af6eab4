\* Three overlapping snapshots of two devices, one redeployment of the service, to
\* a version that sends numbers no float holds.
CONSTANTS
    Nothing = Nothing
    Requests = {r1, r2, r3}
    Devices = {d1, d2}
    TTL = 1
    InfoTTL = 2
    MaxVersions = 2
    Oversized = {2}
    Unrenderable = {2}
SPECIFICATION FairSpec
INVARIANTS TypeOK HerdCollapsed InfoNotOverstated
PROPERTIES Answered
