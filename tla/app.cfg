\* Launches that report, crash or are killed at any step.
SPECIFICATION MCSpec
CONSTANTS
    Main = Main  other = other
    Others <- OneThread
    InstallPhases <- Anywhere
    FirstPhase = "launching"
    Toggles = TRUE
    Jobs <- AllJobs
    MaxTime = 3
    MaxLaunches = 3
    MaxSessions = 3
    MaxReports = 2
INVARIANTS ExactAlone CarriedOverAlone FlagOnlyAfterReport
