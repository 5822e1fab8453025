\* Two threads crash or report at the same time. Two threads that suspend
\* each other stop for ever.
SPECIFICATION Spec
CONSTANTS
    Pri = Pri  Sec = Sec
    AppThreads = {t1, t2}
    LateThreads = {}
    Sources = {t1, t2}
    Monitored = {"mach", "signal", "nsexception", "cpp", "user", "deadlock", "appstate"}
    Origins = {"snapshot", "user", "userAll", "fault", "abort", "objc", "cpp", "deadlock",
               "userFatal", "userFatalAll"}
    MaxEvents = 2
    MaxNested = 1
INVARIANTS ReportImpliesCrashFlag ReportsOwnEvent FrozenWorld NobodyLeftSuspended
CHECK_DEADLOCK FALSE
