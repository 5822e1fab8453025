\* Launches in any order, delegates changed during deliveries, warm launches.
SPECIFICATION MCSpec
CONSTANTS
    d1 = d1
    d2 = d2
    first = first
    second = second
    private = private
    Pages = {first, second, private}
    Ignored = {private}
    Delegates = {d1, d2}
    Responders = {d1, d2}
    Workers = {worker}
    worker = worker
    None = None
    Exec = 7
    MaxTime = 20
    MaxCold = 6
INVARIANTS LaunchIsReported
PROPERTIES WholeListTold LaunchIsTold
