----------------------------- MODULE CachedData -----------------------------
(***************************************************************************)
(* The cache of thread and queue names (Recording/GrowingCrashCachedData.c). *)
(* A thread of the reporter lists the threads of the process now and then,   *)
(* and replaces the cached arrays one pointer after the other.  A report     *)
(* freezes the cache, looks up the names of the threads, and unfreezes it.   *)
(*                                                                         *)
(* There is no lock.  A report of a crash has suspended all other threads,   *)
(* the one of the cache as well, wherever it was; a report of a user        *)
(* exception may run beside it.  Arrays and the strings they hold are       *)
(* allocated and freed: the arrays of one listing are a generation.          *)
(***************************************************************************)
EXTENDS Naturals, Sequences, FiniteSets

CONSTANTS
    Threads,       \* the threads of the process that are listed
    Readers,       \* threads that write reports
    NoReader,      \* no thread has suspended the others
    Suspends,      \* whether a report may (TRUE), or may not (FALSE), suspend the others
    MaxReports     \* bound: reports

\* The arrays in the order they are replaced (g_allPThreads is never read).
Kinds == {"mach", "names", "queues"}
Order == <<"mach", "names", "queues">>

\* Generations of arrays; a third one is never needed, see NothingLeaks.
NoList == 0
Generations == {1, 2}

ASSUME CachedDataAssumption ==
    /\ IsFiniteSet(Threads) /\ IsFiniteSet(Readers) /\ NoReader \notin Readers
    /\ Suspends \subseteq BOOLEAN /\ MaxReports \in Nat

VARIABLES
    live,        \* the threads that run
    lists,       \* what the arrays of a generation hold
    heap,        \* allocated arrays: pairs of a kind and a generation
    ptr,         \* g_allMachThreads, g_allThreadNames, g_allQueueNames
    count,       \* g_allThreadsCount
    semaphore,   \* g_semaphoreCount
    upc,         \* label of the thread of the cache
    local,       \* its own pointers: the new arrays, then the old ones
    oldCount,    \* oldThreadsCount
    step,        \* position in Order
    suspender,   \* the thread that suspended all others
    rpc, loc,    \* label and locals of each report
    reports,     \* reports so far
    updates      \* history: listings made since the cache was frozen

cacheVars == <<lists, heap, ptr, count>>
updateVars == <<upc, local, oldCount, step>>
readVars == <<rpc, loc, reports>>
vars == <<live, cacheVars, semaphore, updateVars, suspender, readVars, updates>>

IdleLoc == [todo |-> {}, target |-> NoReader, kind |-> "names", index |-> 1,
            found |-> <<NoReader, NoList>>]

Init ==
    /\ live \in SUBSET Threads
    /\ lists = [g \in {NoList} \cup Generations |-> <<>>] /\ heap = {}
    /\ ptr = [k \in Kinds |-> NoList] /\ count = 0
    /\ semaphore = 0
    /\ upc = "check" /\ local = [k \in Kinds |-> NoList] /\ oldCount = 0 /\ step = 1
    /\ suspender = NoReader
    /\ rpc = [r \in Readers |-> "idle"] /\ loc = [r \in Readers |-> IdleLoc]
    /\ reports = 0 /\ updates = 0

(***************************************************************************)
(* The thread of the cache.                                                *)
(***************************************************************************)
Unsuspended == suspender = NoReader

UpdaterAt(l) == Unsuspended /\ upc = l

MayUpdate == semaphore = 0

\* monitorCachedData, after its sleep.
Check ==
    /\ UpdaterAt("check")
    /\ upc' = IF MayUpdate THEN "list" ELSE "check"
    /\ UNCHANGED <<live, cacheVars, semaphore, local, oldCount, step, suspender,
                   readVars, updates>>

\* task_threads lists them in some order.
Listings(S) ==
    {s \in [1 .. Cardinality(S) -> S] : \A i, j \in DOMAIN s : s[i] = s[j] => i = j}

Fresh(g) == \A k \in Kinds : <<k, g>> \notin heap

\* Mutant: the length of the new arrays.
NewCount(s) == Len(s)

OldCount(s) == count

\* updateThreadList up to the new count: the threads are listed, the arrays allocated and
\* filled.
ListThreads ==
    /\ UpdaterAt("list")
    /\ \E g \in Generations, s \in Listings(live) :
         /\ Fresh(g)
         /\ lists' = [lists EXCEPT ![g] = s]
         /\ heap' = heap \cup {<<k, g>> : k \in Kinds}
         /\ local' = [k \in Kinds |-> g]
         /\ oldCount' = OldCount(s)
    /\ upc' = "shrink" /\ step' = 1
    /\ updates' = IF semaphore > 0 THEN updates + 1 ELSE 0
    /\ UNCHANGED <<live, ptr, count, semaphore, suspender, readVars>>

\* task_threads fails.
CannotList ==
    /\ UpdaterAt("list") /\ upc' = "check"
    /\ UNCHANGED <<live, cacheVars, semaphore, local, oldCount, step, suspender,
                   readVars, updates>>

Listed == Len(lists[local["mach"]])

\* Mutant: the count is left as it is until the end.
NotShrunk(c) == c

Shrunk(c) == IF c < Listed THEN c ELSE Listed

Shrink ==
    /\ UpdaterAt("shrink")
    /\ count' = Shrunk(count) /\ upc' = "swap"
    /\ UNCHANGED <<live, lists, heap, ptr, semaphore, local, oldCount, step, suspender,
                   readVars, updates>>

\* SWAP_POINTERS, once for each array.
Swap ==
    /\ UpdaterAt("swap")
    /\ LET k == Order[step] IN
         /\ ptr' = [ptr EXCEPT ![k] = local[k]]
         /\ local' = [local EXCEPT ![k] = ptr[k]]
    /\ IF step < Len(Order) THEN step' = step + 1 /\ UNCHANGED upc
                            ELSE step' = 1 /\ upc' = "grow"
    /\ UNCHANGED <<live, lists, heap, count, semaphore, oldCount, suspender,
                   readVars, updates>>

\* g_allThreadsCount = allThreadsCount.
Grow ==
    /\ UpdaterAt("grow")
    /\ count' = Len(lists[ptr["mach"]])
    /\ upc' = "free"
    /\ UNCHANGED <<live, lists, heap, ptr, semaphore, local, oldCount, step, suspender,
                   readVars, updates>>

Freed(k) == <<k, local[k]>>

\* The strings of an old array, and the array, if there is one.
Free ==
    /\ UpdaterAt("free")
    /\ heap' = heap \ {Freed(Order[step])}
    /\ IF step < Len(Order) THEN step' = step + 1 /\ UNCHANGED upc
                            ELSE step' = 1 /\ upc' = "check"
    /\ UNCHANGED <<live, lists, ptr, count, semaphore, local, oldCount, suspender,
                   readVars, updates>>

Update == Check \/ ListThreads \/ CannotList \/ Shrink \/ Swap \/ Grow \/ Free

(***************************************************************************)
(* Threads start and end.                                                  *)
(***************************************************************************)
Start(t) ==
    /\ Unsuspended /\ t \in Threads \ live /\ live' = live \cup {t}
    /\ UNCHANGED <<cacheVars, semaphore, updateVars, suspender, readVars, updates>>

Exit(t) ==
    /\ Unsuspended /\ t \in live /\ live' = live \ {t}
    /\ UNCHANGED <<cacheVars, semaphore, updateVars, suspender, readVars, updates>>

(***************************************************************************)
(* A report.                                                               *)
(***************************************************************************)
ReaderAt(r, l) == suspender \in {NoReader, r} /\ rpc[r] = l

Goto(r, l) == rpc' = [rpc EXCEPT ![r] = l]

\* The others are suspended, or not, and the threads listed for the report.
Begin(r, suspending) ==
    /\ ReaderAt(r, "idle") /\ reports < MaxReports /\ reports' = reports + 1
    /\ suspender' = IF suspending THEN r ELSE suspender
    /\ loc' = [loc EXCEPT ![r].todo = live]
    /\ Goto(r, "freeze")
    /\ UNCHANGED <<live, cacheVars, semaphore, updateVars, updates>>

\* growingccd_freeze; its usleep gives the thread of the cache time if it runs.
Freeze(r) ==
    /\ ReaderAt(r, "freeze")
    /\ semaphore' = semaphore + 1
    /\ updates' = IF semaphore > 0 THEN updates ELSE 0
    /\ Goto(r, "thread")
    /\ UNCHANGED <<live, cacheVars, updateVars, suspender, loc, reports>>

\* writeAllThreads
NextThread(r) ==
    /\ ReaderAt(r, "thread")
    /\ \/ \E t \in loc[r].todo :
            /\ loc' = [loc EXCEPT ![r] = [IdleLoc EXCEPT !.todo = loc[r].todo \ {t},
                                                         !.target = t]]
            /\ Goto(r, "look")
       \/ loc[r].todo = {} /\ Goto(r, "unfreeze") /\ UNCHANGED loc
    /\ UNCHANGED <<live, cacheVars, semaphore, updateVars, suspender, reports, updates>>

\* The name of the thread is followed by the name of its queue.
Found(r) ==
    IF loc[r].kind = "names"
      THEN Goto(r, "look") /\ loc' = [loc EXCEPT ![r].kind = "queues", ![r].index = 1]
      ELSE Goto(r, "thread") /\ loc' = [loc EXCEPT ![r] = [IdleLoc EXCEPT !.todo = loc[r].todo]]

\* growingccd_getThreadName, growingccd_getQueueName: the array is tested, ...
Look(r) ==
    /\ ReaderAt(r, "look")
    /\ IF ptr[loc[r].kind] = NoList THEN Found(r) ELSE Goto(r, "test") /\ UNCHANGED loc
    /\ UNCHANGED <<live, cacheVars, semaphore, updateVars, suspender, reports, updates>>

\* ... the index against the count, ...
Test(r) ==
    /\ ReaderAt(r, "test")
    /\ IF loc[r].index <= count THEN Goto(r, "compare") /\ UNCHANGED loc ELSE Found(r)
    /\ UNCHANGED <<live, cacheVars, semaphore, updateVars, suspender, reports, updates>>

InBounds(k, i) == <<k, ptr[k]>> \in heap /\ i <= Len(lists[ptr[k]])

\* ... the thread is compared (a read outside of the array gives anything), ...
Compare(r) ==
    /\ ReaderAt(r, "compare")
    /\ LET i == loc[r].index
           same == IF InBounds("mach", i) THEN {lists[ptr["mach"]][i] = loc[r].target}
                                          ELSE BOOLEAN
       IN \E equal \in same :
            IF equal THEN Goto(r, "take") /\ UNCHANGED loc
                     ELSE Goto(r, "test") /\ loc' = [loc EXCEPT ![r].index = @ + 1]
    /\ UNCHANGED <<live, cacheVars, semaphore, updateVars, suspender, reports, updates>>

\* ... and the string found: whose name it is, and its generation.
Take(r) ==
    /\ ReaderAt(r, "take")
    /\ LET k == loc[r].kind  i == loc[r].index IN
         loc' = [loc EXCEPT ![r].found =
                   IF InBounds(k, i) THEN <<lists[ptr[k]][i], ptr[k]>> ELSE <<NoReader, NoList>>]
    /\ Goto(r, "use")
    /\ UNCHANGED <<live, cacheVars, semaphore, updateVars, suspender, reports, updates>>

\* writeThread writes it to the report.
Use(r) ==
    /\ ReaderAt(r, "use") /\ Found(r)
    /\ UNCHANGED <<live, cacheVars, semaphore, updateVars, suspender, reports, updates>>

\* Mutant: the cache stays frozen.
StillFrozen(n) == n

Unfrozen(n) == IF n = 0 THEN n ELSE n - 1

\* growingccd_unfreeze, and the others go on.
Unfreeze(r) ==
    /\ ReaderAt(r, "unfreeze")
    /\ semaphore' = Unfrozen(semaphore)
    /\ suspender' = NoReader
    /\ Goto(r, "idle")
    /\ loc' = [loc EXCEPT ![r] = IdleLoc]
    /\ UNCHANGED <<live, cacheVars, updateVars, reports, updates>>

Read(r) ==
    \/ Freeze(r) \/ NextThread(r) \/ Look(r) \/ Test(r) \/ Compare(r) \/ Take(r) \/ Use(r)
    \/ Unfreeze(r)

Next ==
    \/ Update
    \/ \E t \in Threads : Start(t) \/ Exit(t)
    \/ \E r \in Readers : Read(r) \/ \E s \in Suspends : Begin(r, s)

Spec == Init /\ [][Next]_vars

\* Threads are scheduled, and task_threads does not fail for ever.
Fairness ==
    /\ WF_vars(Check) /\ SF_vars(ListThreads) /\ WF_vars(Shrink \/ Swap \/ Grow \/ Free)
    /\ \A r \in Readers : WF_vars(Read(r))

FairSpec == Spec /\ Fairness

(***************************************************************************)
(* Properties.                                                             *)
(***************************************************************************)
UpdaterLabels == {"check", "list", "shrink", "swap", "grow", "free"}
ReaderLabels == {"idle", "freeze", "thread", "look", "test", "compare", "take", "use", "unfreeze"}
AllGenerations == {NoList} \cup Generations

\* Type invariant.
TypeOK ==
    /\ live \subseteq Threads
    /\ lists \in [AllGenerations -> Seq(Threads)]
    /\ heap \subseteq Kinds \X Generations
    /\ ptr \in [Kinds -> AllGenerations] /\ local \in [Kinds -> AllGenerations]
    /\ count \in Nat /\ oldCount \in Nat /\ semaphore \in 0 .. Cardinality(Readers)
    /\ reports \in 0 .. MaxReports
    /\ updates \in Nat
    /\ upc \in UpdaterLabels /\ step \in 1 .. Len(Order)
    /\ suspender \in Readers \cup {NoReader}
    /\ rpc \in [Readers -> ReaderLabels]
    /\ \A r \in Readers :
         /\ loc[r].todo \subseteq Threads /\ loc[r].target \in Threads \cup {NoReader}
         /\ loc[r].kind \in {"names", "queues"} /\ loc[r].index \in Nat \ {0}

\* What a report is about to read is there: the element of an array within its bounds, a
\* string that was not freed.
SafeRead(r) ==
    /\ rpc[r] = "compare" => InBounds("mach", loc[r].index)
    /\ rpc[r] = "take" => InBounds(loc[r].kind, loc[r].index)
    /\ rpc[r] = "use" => <<loc[r].kind, loc[r].found[2]>> \in heap

\* A report that has suspended the others reads only what is there, at whatever step of an
\* update the thread of the cache was stopped: that is what the order of the count, the
\* pointers and the frees in updateThreadList is for.
SuspendedReadsAreSafe == \A r \in Readers : suspender = r => SafeRead(r)

\* Between two updates nothing but the arrays in use is allocated, they are of the same
\* listing, and the count is theirs: no update frees what it published or forgets what it
\* replaced, whatever reports froze in between; and the strings of a replaced array are
\* freed up to a count (oldThreadsCount, read when the update began) that is its length.
NothingLeaks ==
    /\ upc \in {"check", "list"} =>
        /\ heap = {<<k, ptr[k]>> : k \in {j \in Kinds : ptr[j] # NoList}}
        /\ \A k \in Kinds : ptr[k] = ptr["mach"]
        /\ count = Len(lists[ptr["mach"]])
    /\ upc = "free" => \A j \in step .. Len(Order) : oldCount = Len(lists[local[Order[j]]])

\* The cache is frozen by the reports that are between freeze and unfreeze, and by no other:
\* reports that overlap do not unfreeze each other. While it is, it changes at most once: by
\* an update that had been allowed before.
FrozenWhileReported ==
    /\ semaphore = Cardinality({r \in Readers : rpc[r] \notin {"idle", "freeze"}})
    /\ semaphore > 0 => updates <= 1

\* Whatever reports freeze in between, the cache stays whole.
CacheStaysWhole == NothingLeaks /\ FrozenWhileReported

InCache(t) == \E i \in 1 .. count : lists[ptr["mach"]][i] = t

\* A thread that lives on is cached again and again: no report leaves the cache frozen.
CacheCatchesUp == \A t \in Threads : <>[](t \in live) => []<>InCache(t)
=============================================================================
