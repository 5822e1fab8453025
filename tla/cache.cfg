\* Reports of crashes stop the thread of the cache at any step; others run beside it.
SPECIFICATION MCSpec
CONSTANTS
    t1 = t1  t2 = t2  r1 = r1  r2 = r2
    Threads <- TwoThreads
    Readers <- TwoReaders
    NoReader = NoReader
    Suspends <- Either
    MaxReports = 2
INVARIANTS SuspendedReadsAreSafe CacheStaysWhole
PROPERTIES CacheCatchesUp
