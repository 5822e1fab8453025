\* Monitors switched beside another reporter, settings changed beside a report,
\* and reports delivered through filters that call back at any time.
SPECIFICATION MCSpec
CONSTANTS
    s1 = s1  s2 = s2  v1 = v1  v2 = v2
    Signals <- TwoSignals
    MaxReserved = 4
    MaxInstalls = 3
    Properties = {p1, p2}
    Values <- TwoValues
    MaxSets = 3
    Filters = {f1, f2}
    Behavior = "onSuccess"
    MaxReports = 2
    MaxSends = 2
    MaxAdds = 2
INVARIANTS EveryoneHears ExceptionThreadsReserved OthersAreExact DeliveriesAreExact
PROPERTIES EverySendAnswered
CHECK_DEADLOCK FALSE
