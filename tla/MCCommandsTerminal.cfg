\* A command that is confirmed late, while the timeout scan has it on its list.
CONSTANTS
    Nothing = Nothing
    Requests = {r1, r2}
    Types = {"mode.switch"}
    Devices = {d1}
    Keys = {k1, k2}
    Confirmers = {c1}
    Scanners = {s1}
    PageSize = 2
    MaxWorkerCrashes = 0
SPECIFICATION FairSpec
PROPERTIES TerminalIsFinal
