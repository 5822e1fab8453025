\* One or two threads add, write, send and delete reports, crash and are killed, in
\* three launches.
SPECIFICATION FairSpec
CONSTANTS
    Threads = {a, b}
    Users = {{a}, {a, b}}
    Calls = {"add", "report", "send", "delete"}
    Behavior = "onSuccess"
    MaxReportCount = 1
    Shift = 2
    LowMod = 4
    SecondsPerMinute = 2
    MaxTime = 3
    MaxRequests = 3
    MaxShared = 2
    MaxDeliveries = 1
    Crashes = TRUE
INVARIANTS NoReportLostAlone
PROPERTIES IDsIncrease IsReportLog PruneKeepsNewest LockReleased
