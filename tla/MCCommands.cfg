\* Two requests that share a key or differ in type, a page of one row, a confirm
\* and a timeout tick, a crash of the worker.
CONSTANTS
    Nothing = Nothing
    Requests = {r1, r2}
    Types = {"cycle.start", "mode.switch"}
    Devices = {d1}
    Keys = {k1}
    Confirmers = {c1}
    Scanners = {s1}
    PageSize = 1
    MaxWorkerCrashes = 1
SPECIFICATION FairSpec
INVARIANTS TypeOK Idempotent AuditTruth EventsAreCommitted
PROPERTIES Settles
