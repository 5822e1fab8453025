\* One thread crashes or reports, and the handler may crash twice.
SPECIFICATION FairSpec
CONSTANTS
    Pri = Pri  Sec = Sec
    AppThreads = {t1, t2}
    LateThreads = {t2}
    Sources = {t1}
    Monitored = {"mach", "signal", "nsexception", "cpp", "user", "deadlock", "appstate"}
    Origins = {"snapshot", "user", "userAll", "fault", "abort", "objc", "cpp", "deadlock",
               "userFatal", "userFatalAll"}
    MaxEvents = 4
    MaxNested = 2
INVARIANTS TypeOK NextCrashRecordedOnce ReportsSurvive
PROPERTIES CrashEndsProcess
