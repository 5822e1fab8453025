\* Two threads abort at the same time.
SPECIFICATION FairSpec
CONSTANTS
    Pri = Pri  Sec = Sec
    AppThreads = {t1, t2}
    LateThreads = {}
    Sources = {t1, t2}
    Monitored = {"mach", "signal", "nsexception", "cpp", "user", "deadlock", "appstate"}
    Origins = {"abort"}
    MaxEvents = 2
    MaxNested = 0
PROPERTIES CrashEndsProcess
CHECK_DEADLOCK FALSE
