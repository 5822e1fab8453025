\* Tasks of every length; monitors replaced and the interval changed; throws of two
\* threads while their pointers are swapped; objects that are deallocated at once.
SPECIFICATION MCSpec
CONSTANTS
    Intervals <- IdleOrTwo
    IdleInterval = 1
    Durations <- SomeDurations
    Forever = Forever
    Toggles = TRUE
    MaxQueue = 2
    MaxMonitors = 2
    MaxBusy = 5
    Threads = {t1, t2}
    None = None
    Images <- SomeImages
    Loaded <- AppAndLib
    Pointer <- SomePointers
    Bound <- ToOverride
    Rebindable <- AppAndLib
    InitialCapacity = 1
    MaxThrows = 2
    Addresses = {1, 2}
    Hash <- OneSlot
    Classes = {"object"}
    Exceptions = {"exception"}
    MaxObjects = 3
INVARIANTS KillsInTime ThrowsAreWatched ZombiesAreTold
PROPERTIES HangIsCaught
