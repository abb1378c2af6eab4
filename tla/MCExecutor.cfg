\* Four proposals, one more than a page holds, for three devices, and one crash.
CONSTANTS
    N = 4
    Slots = {"Kp", "Acc2", "Acc3"}
    Device <- MCDevice
    Unwritable = {2}
    Fatal <- MCFatal
    Still <- MCStill
    Base = 1
    Slot <- MCSlot
    Current <- MCCurrent
    New <- MCNew
    PageSize = 3
    Missing = Missing
    NonFloat = NonFloat
    Torn = Torn
    MaxCrashes = 1
SPECIFICATION FairSpec
INVARIANTS TypeOK DoneIsReported DeviceMatchesReports TriedOnce
PROPERTIES Executed
\* A torn file keeps the executor from starting again.
CHECK_DEADLOCK FALSE
