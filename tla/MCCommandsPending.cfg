\* Two stop requests with different keys.
CONSTANTS
    Nothing = Nothing
    Requests = {r1, r2}
    Types = {"safety.stop_request"}
    Devices = {d1}
    Keys = {k1, k2}
    Confirmers = {c1}
    Scanners = {s1}
    PageSize = 2
    MaxWorkerCrashes = 0
SPECIFICATION Spec
INVARIANTS OnePending
