\* The system launches the app in the background.
SPECIFICATION MCSpec
CONSTANTS
    Main = Main  other = other
    Others <- OneThread
    InstallPhases <- InBackground
    FirstPhase = "background"
    Toggles = FALSE
    Jobs <- AllJobs
    MaxTime = 3
    MaxLaunches = 1
    MaxSessions = 3
    MaxReports = 2
INVARIANTS ExactAlone
