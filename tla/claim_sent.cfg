\* A thread writes a report while another one sends and deletes.
SPECIFICATION FairSpec
CONSTANTS
    Threads = {a, b}
    Users = {{a}, {a, b}}
    Calls = {"add", "report", "send"}
    Behavior = "onSuccess"
    MaxReportCount = 2
    Shift = 2
    LowMod = 4
    SecondsPerMinute = 2
    MaxTime = 1
    MaxRequests = 3
    MaxShared = 3
    MaxDeliveries = 1
    Crashes = FALSE
INVARIANTS NoReportLost
