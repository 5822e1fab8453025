-------------------------- MODULE CachedDataProofs --------------------------
(***************************************************************************)
(* Two results on the cache, for any number of threads, readers and reports. *)
(* What a report reads while all other threads are suspended is there, at    *)
(* whatever step of an update the thread of the cache was stopped.  And      *)
(* whatever reports freeze it, suspending or not, the cache stays whole: its  *)
(* arrays are allocated exactly while they are used or still to be freed, and *)
(* while it is frozen it changes at most once.                              *)
(***************************************************************************)
EXTENDS CachedData, FiniteSetTheorems, TLAPS

\* Where a report is.
Owners == Threads \cup {NoReader}
Strings == Owners \X AllGenerations
Positive == Nat \ {0}
Places == [todo: SUBSET Threads, target: Owners, kind: {"names", "queues"},
           index: Positive, found: Strings]

\* The types the proof needs.
Shape ==
    /\ live \subseteq Threads
    /\ lists \in [AllGenerations -> Seq(Threads)]
    /\ ptr \in [Kinds -> AllGenerations] /\ local \in [Kinds -> AllGenerations]
    /\ count \in Nat
    /\ upc \in UpdaterLabels /\ step \in {1, 2, 3}
    /\ rpc \in [Readers -> ReaderLabels]
    /\ loc \in [Readers -> Places]

\* The arrays in use are allocated, and none is shorter than the count.
Fits ==
    /\ lists[NoList] = <<>>
    /\ \A k \in Kinds : count <= Len(lists[ptr[k]])
    /\ \A k \in Kinds : ptr[k] # NoList => <<k, ptr[k]>> \in heap

\* Array number j is replaced by the one of generation g, or will be.
Replacing(g, j) ==
    IF j < step THEN ptr[Order[j]] = g ELSE local[Order[j]] = g /\ <<Order[j], g>> \in heap

\* An update replaces all arrays by those of one generation, is not going to free what it
\* has published, and swaps only arrays that are not shorter than the count.
Updating ==
    /\ upc \in {"shrink", "swap"} =>
         \E g \in Generations : \A j \in {1, 2, 3} : Replacing(g, j)
    /\ upc = "shrink" => step = 1
    /\ upc = "swap" => \A k \in Kinds : count <= Len(lists[local[k]])
    /\ upc = "grow" => \A k \in Kinds : ptr[k] = ptr["mach"]
    /\ upc \in {"shrink", "swap", "grow", "free"} => \A k \in Kinds : local[k] # ptr[k]

\* Where a report is that has suspended the others.
Reading(r) ==
    /\ rpc[r] \in {"compare", "take"} => loc[r].index <= count
    /\ rpc[r] = "use" => loc[r].found[2] = ptr[loc[r].kind] /\ ptr[loc[r].kind] # NoList

SuspendedReading == \A r \in Readers : suspender = r => Reading(r)

CacheInv == Shape /\ Fits /\ Updating /\ SuspendedReading

LEMMA Positions ==
    /\ Order[1] = "mach" /\ Order[2] = "names" /\ Order[3] = "queues"
    /\ Len(Order) = 3
    /\ \A k \in Kinds : \E j \in {1, 2, 3} : k = Order[j]
    /\ \A i, j \in {1, 2, 3} : Order[i] = Order[j] => i = j
    /\ \A j \in {1, 2, 3} : Order[j] \in Kinds
  BY DEF Order, Kinds

\* What the update sees of the threads is a sequence of them.
LEMMA ListingsAreSequences ==
    ASSUME NEW S, S \subseteq Threads, NEW s \in Listings(S)
    PROVE  s \in Seq(Threads)
<1>1. IsFiniteSet(S)
  BY CachedDataAssumption, FS_Subset
<1>2. Cardinality(S) \in Nat
  BY <1>1, FS_CardinalityType
<1>. QED
  BY <1>2 DEF Listings

\* What a report does to its place keeps it one.
LEMMA PlacesUpdated ==
    ASSUME NEW p \in Places
    PROVE  /\ \A S \in SUBSET Threads : [p EXCEPT !.todo = S] \in Places
           /\ \A n \in Positive : [p EXCEPT !.index = n] \in Places
           /\ \A f \in Strings : [p EXCEPT !.found = f] \in Places
           /\ [p EXCEPT !.kind = "queues", !.index = 1] \in Places
           /\ \A S \in SUBSET Threads, t \in Threads :
                [p EXCEPT !.todo = S, !.target = t] \in Places
<1>1. 1 \in Positive
  BY DEF Positive
<1>2. \A t \in Threads : t \in Owners
  BY DEF Owners
<1>. QED
  BY <1>1, <1>2 DEF Places

LEMMA IdleIsAPlace == IdleLoc \in Places
<1>1. NoReader \in Owners /\ 1 \in Positive /\ NoList \in AllGenerations
  BY DEF Owners, Positive, AllGenerations
<1>2. <<NoReader, NoList>> \in Strings
  BY <1>1 DEF Strings
<1>. QED
  BY <1>1, <1>2 DEF IdleLoc, Places

LEMMA CacheInit == Init => CacheInv
<1>. SUFFICES ASSUME Init PROVE CacheInv
  OBVIOUS
<1>1. Shape
  BY IdleIsAPlace
     DEF Init, Shape, Kinds, AllGenerations, Generations, NoList, UpdaterLabels, ReaderLabels
<1>2. Fits
  BY DEF Init, Fits, Kinds, Generations, NoList
<1>3. Updating
  BY DEF Init, Updating
<1>4. SuspendedReading
  BY CachedDataAssumption DEF Init, SuspendedReading
<1>. QED
  BY <1>1, <1>2, <1>3, <1>4 DEF CacheInv

\* While it is not suspended an update disturbs no report that suspends.
LEMMA UpdatesAreStopped ==
    ASSUME CacheInv, Unsuspended, UNCHANGED suspender
    PROVE  SuspendedReading'
  BY CachedDataAssumption DEF SuspendedReading, Unsuspended

LEMMA ListThreadsKeeps ==
    ASSUME CacheInv, ListThreads
    PROVE  CacheInv'
<1>. PICK g \in Generations, s \in Listings(live) :
       /\ Fresh(g)
       /\ lists' = [lists EXCEPT ![g] = s]
       /\ heap' = heap \cup {<<k, g>> : k \in Kinds}
       /\ local' = [k \in Kinds |-> g]
  BY DEF ListThreads
<1>1. s \in Seq(Threads)
  BY ListingsAreSequences DEF CacheInv, Shape
<1>2. g \in AllGenerations /\ g # NoList
  BY DEF AllGenerations, Generations, NoList
<1>3. \A k \in Kinds : ptr[k] # g
  BY <1>2 DEF CacheInv, Fits, Fresh
<1>4. UNCHANGED <<ptr, count, live, rpc, loc, suspender>> /\ upc' = "shrink" /\ step' = 1
  BY DEF ListThreads, readVars
<1>5. Shape'
  BY <1>1, <1>2, <1>4 DEF CacheInv, Shape, UpdaterLabels
<1>6. \A k \in Kinds : lists'[ptr[k]] = lists[ptr[k]]
  BY <1>3 DEF CacheInv, Shape
<1>7. Fits'
  BY <1>2, <1>4, <1>6 DEF CacheInv, Fits, Shape, AllGenerations
<1>8. \A j \in {1, 2, 3} : Replacing(g, j)'
  BY <1>4, Positions DEF Replacing
<1>9. Updating'
  BY <1>3, <1>4, <1>8 DEF Updating
<1>10. SuspendedReading'
  BY <1>4, UpdatesAreStopped DEF ListThreads, UpdaterAt
<1>. QED
  BY <1>5, <1>7, <1>9, <1>10 DEF CacheInv

LEMMA ShrinkKeeps ==
    ASSUME CacheInv, Shrink
    PROVE  CacheInv'
<1>. USE DEF CacheInv
<1>1. UNCHANGED <<ptr, lists, heap, local, step, live, rpc, loc, suspender>> /\ upc' = "swap"
      /\ upc = "shrink" /\ count' = Shrunk(count)
  BY DEF Shrink, readVars, UpdaterAt
<1>2. PICK g \in Generations : \A j \in {1, 2, 3} : Replacing(g, j)
  BY <1>1 DEF Updating
<1>3. step = 1
  BY <1>1 DEF Updating
<1>4. \A k \in Kinds : local[k] = g
  BY <1>2, <1>3, Positions DEF Replacing
<1>5. Len(lists[g]) \in Nat /\ count \in Nat
  BY DEF Shape, AllGenerations
<1>6. count' \in Nat /\ count' <= count /\ count' <= Len(lists[g])
  BY <1>1, <1>4, <1>5 DEF Shrunk, Listed, Kinds
<1>7. Shape'
  BY <1>1, <1>6 DEF Shape, UpdaterLabels
<1>8. \A k \in Kinds : Len(lists[ptr[k]]) \in Nat
  BY DEF Shape
<1>9. Fits'
  BY <1>1, <1>5, <1>6, <1>8 DEF Fits
<1>10. \A j \in {1, 2, 3} : Replacing(g, j)'
  BY <1>1, <1>2 DEF Replacing
<1>11. Updating'
  BY <1>1, <1>4, <1>6, <1>10 DEF Updating
<1>12. SuspendedReading'
  BY <1>1, UpdatesAreStopped DEF Shrink, UpdaterAt
<1>. QED
  BY <1>7, <1>9, <1>11, <1>12

LEMMA SwapKeeps ==
    ASSUME CacheInv, Swap
    PROVE  CacheInv'
<1>. USE DEF CacheInv
<1>. DEFINE k == Order[step]
<1>1. /\ UNCHANGED <<lists, heap, count, live, rpc, loc, suspender>> /\ upc = "swap"
      /\ ptr' = [ptr EXCEPT ![k] = local[k]]
      /\ local' = [local EXCEPT ![k] = ptr[k]]
      /\ IF step < 3 THEN step' = step + 1 /\ upc' = "swap"
                     ELSE step' = 1 /\ upc' = "grow"
  BY Positions DEF Swap, readVars, UpdaterAt
<1>2. k \in Kinds
  BY Positions DEF Shape
<1>3. PICK g \in Generations : \A j \in {1, 2, 3} : Replacing(g, j)
  BY <1>1 DEF Updating
<1>4. local[k] = g /\ <<k, g>> \in heap
  <2>1. step \in {1, 2, 3} /\ ~ (step < step)
    BY DEF Shape
  <2>2. Replacing(g, step)
    BY <1>3, <2>1
  <2>. QED
    BY <2>1, <2>2 DEF Replacing
<1>5. Shape'
  BY <1>1, <1>2 DEF Shape, UpdaterLabels
<1>6. \A j \in Kinds : count <= Len(lists[ptr[j]]) /\ count <= Len(lists[local[j]])
  BY <1>1 DEF Updating, Fits
<1>7. \A j \in Kinds : count <= Len(lists[ptr'[j]]) /\ count <= Len(lists[local'[j]])
  BY <1>1, <1>2, <1>6 DEF Shape
<1>8. Fits'
  BY <1>1, <1>2, <1>4, <1>7 DEF Fits, Shape
<1>9. \A j \in Kinds : local'[j] # ptr'[j]
  BY <1>1, <1>2 DEF Updating, Shape
<1>10. CASE step < 3
  <2>1. \A j \in {1, 2, 3} : Replacing(g, j)'
    <3>. SUFFICES ASSUME NEW j \in {1, 2, 3} PROVE Replacing(g, j)'
      OBVIOUS
    <3>1. CASE j = step
      BY <1>1, <1>2, <1>4, <1>10, <3>1 DEF Replacing, Shape
    <3>2. CASE j # step
      <4>1. Order[j] # k /\ Order[j] \in Kinds
        BY <3>2, Positions DEF Shape
      <4>2. ptr'[Order[j]] = ptr[Order[j]] /\ local'[Order[j]] = local[Order[j]]
        BY <1>1, <4>1 DEF Shape
      <4>3. j < step' <=> j < step
        BY <1>1, <1>10, <3>2 DEF Shape
      <4>. QED
        BY <1>1, <1>3, <4>2, <4>3 DEF Replacing
    <3>. QED
      BY <3>1, <3>2
  <2>. QED
    BY <1>1, <1>5, <1>7, <1>8, <1>9, <1>10, <2>1, UpdatesAreStopped
       DEF Updating, Swap, UpdaterAt
<1>11. CASE ~ (step < 3)
  <2>1. step = 3 /\ k = "queues"
    BY <1>11, Positions DEF Shape
  <2>2. ptr["mach"] = g /\ ptr["names"] = g
    BY <1>3, <2>1, Positions DEF Replacing
  <2>3. \A j \in Kinds : ptr'[j] = g
    BY <1>1, <1>4, <2>1, <2>2 DEF Kinds, Shape
  <2>. QED
    BY <1>1, <1>5, <1>8, <1>9, <1>11, <2>3, UpdatesAreStopped
       DEF Updating, Swap, UpdaterAt, Kinds
<1>. QED
  BY <1>10, <1>11

LEMMA GrowKeeps ==
    ASSUME CacheInv, Grow
    PROVE  CacheInv'
<1>. USE DEF CacheInv
<1>1. /\ UNCHANGED <<ptr, lists, heap, local, step, live, rpc, loc, suspender>>
      /\ upc = "grow" /\ upc' = "free" /\ count' = Len(lists[ptr["mach"]])
  BY DEF Grow, readVars, UpdaterAt
<1>2. \A k \in Kinds : ptr[k] = ptr["mach"] /\ local[k] # ptr[k]
  BY <1>1 DEF Updating
<1>3. count' \in Nat
  BY <1>1 DEF Shape, Kinds
<1>4. Shape' /\ Fits' /\ Updating'
  BY <1>1, <1>2, <1>3 DEF Shape, Fits, Updating, UpdaterLabels
<1>. QED
  BY <1>1, <1>4, UpdatesAreStopped DEF Grow, UpdaterAt

LEMMA FreeKeeps ==
    ASSUME CacheInv, Free
    PROVE  CacheInv'
<1>. USE DEF CacheInv
<1>1. /\ UNCHANGED <<ptr, lists, count, local, live, rpc, loc, suspender>>
      /\ upc = "free" /\ upc' \in {"free", "check"} /\ step' \in {1, 2, 3}
      /\ heap' = heap \ {<<Order[step], local[Order[step]]>>}
  BY Positions DEF Free, readVars, UpdaterAt, Freed, Shape
<1>2. \A k \in Kinds : local[k] # ptr[k]
  BY <1>1 DEF Updating
<1>3. Order[step] \in Kinds
  BY Positions DEF Shape
<1>4. Fits'
  BY <1>1, <1>2, <1>3 DEF Fits
<1>5. Shape' /\ Updating'
  BY <1>1, <1>2 DEF Shape, Updating, UpdaterLabels
<1>. QED
  BY <1>1, <1>4, <1>5, UpdatesAreStopped DEF Free, UpdaterAt

\* The other steps of the thread of the cache.
LEMMA WaitKeeps ==
    ASSUME CacheInv, Check \/ CannotList
    PROVE  CacheInv'
<1>. USE DEF CacheInv
<1>1. /\ UNCHANGED <<ptr, lists, heap, count, local, step, live, rpc, loc, suspender>>
      /\ upc' \in {"list", "check"}
  BY DEF Check, CannotList, readVars, cacheVars
<1>2. Shape' /\ Fits' /\ Updating'
  BY <1>1 DEF Shape, Fits, Updating, UpdaterLabels
<1>. QED
  BY <1>1, <1>2, UpdatesAreStopped DEF Check, CannotList, UpdaterAt

\* Steps that leave the cache alone keep what is said of it.
LEMMA CacheUntouched ==
    ASSUME CacheInv, UNCHANGED <<cacheVars, updateVars>>
    PROVE  Fits' /\ Updating'
  BY DEF CacheInv, cacheVars, updateVars, Fits, Updating, Replacing

\* The kernel starts and ends threads that are not suspended.
LEMMA ThreadsKeep ==
    ASSUME CacheInv, NEW t \in Threads, Start(t) \/ Exit(t)
    PROVE  CacheInv'
<1>1. UNCHANGED <<cacheVars, updateVars, suspender, rpc, loc>> /\ live' \subseteq Threads
  BY DEF Start, Exit, readVars, CacheInv, Shape
<1>2. Shape'
  BY <1>1 DEF CacheInv, Shape, cacheVars, updateVars
<1>3. SuspendedReading'
  BY <1>1, UpdatesAreStopped DEF Start, Exit
<1>. QED
  BY <1>1, <1>2, <1>3, CacheUntouched DEF CacheInv

\* A report begins, or ends: it reads nothing, and nobody else was suspending.
LEMMA BeginKeeps ==
    ASSUME CacheInv, NEW r \in Readers, NEW s \in Suspends, Begin(r, s)
    PROVE  CacheInv'
<1>1. /\ UNCHANGED <<cacheVars, updateVars, live>>
      /\ suspender \in {NoReader, r} /\ suspender' \in {NoReader, r}
      /\ rpc' = [rpc EXCEPT ![r] = "freeze"] /\ loc' = [loc EXCEPT ![r].todo = live]
  BY DEF Begin, ReaderAt, Goto
<1>2. [loc[r] EXCEPT !.todo = live] \in Places
  BY PlacesUpdated DEF CacheInv, Shape
<1>5. loc' = [loc EXCEPT ![r] = [loc[r] EXCEPT !.todo = live]]
  BY <1>1
<1>6. Shape'
  BY <1>1, <1>2, <1>5 DEF CacheInv, Shape, cacheVars, updateVars, ReaderLabels
<1>3. rpc'[r] = "freeze"
  BY <1>1 DEF CacheInv, Shape
<1>4. SuspendedReading'
  BY <1>1, <1>3, CachedDataAssumption DEF SuspendedReading, Reading
<1>. QED
  BY <1>1, <1>4, <1>6, CacheUntouched DEF CacheInv

LEMMA ReadKeeps ==
    ASSUME CacheInv, NEW r \in Readers, Read(r)
    PROVE  CacheInv'
<1>. USE DEF CacheInv
<1>1. UNCHANGED <<cacheVars, updateVars, live>>
  BY DEF Read, Freeze, NextThread, Look, Test, Compare, Take, Use, Unfreeze
<1>2. suspender \in {NoReader, r} /\ suspender' \in {suspender, NoReader}
  BY DEF Read, Freeze, NextThread, Look, Test, Compare, Take, Use, Unfreeze, ReaderAt
<1>3. /\ loc[r] \in Places
      /\ count \in Nat /\ ptr \in [Kinds -> AllGenerations]
      /\ lists \in [AllGenerations -> Seq(Threads)]
  BY DEF Shape
\* It is enough to look at what the step does to the place of this report.
<1>4. SUFFICES \E l \in ReaderLabels, p \in Places :
                 /\ rpc' = [rpc EXCEPT ![r] = l] /\ loc' = [loc EXCEPT ![r] = p]
                 /\ l \in {"compare", "take"} /\ suspender = r => p.index <= count
                 /\ l = "use" /\ suspender = r
                      => p.found[2] = ptr[p.kind] /\ ptr[p.kind] # NoList
  <2>1. PICK l \in ReaderLabels, p \in Places :
                 /\ rpc' = [rpc EXCEPT ![r] = l] /\ loc' = [loc EXCEPT ![r] = p]
                 /\ l \in {"compare", "take"} /\ suspender = r => p.index <= count
                 /\ l = "use" /\ suspender = r
                      => p.found[2] = ptr[p.kind] /\ ptr[p.kind] # NoList
    BY <1>4
  <2>2. Shape'
    BY <1>1, <2>1 DEF Shape, cacheVars, updateVars
  <2>3. rpc'[r] = l /\ loc'[r] = p
    BY <2>1 DEF Shape
  <2>4. SuspendedReading'
    BY <1>1, <1>2, <2>1, <2>3, CachedDataAssumption
       DEF SuspendedReading, Reading, cacheVars
  <2>. QED
    BY <1>1, <2>2, <2>4, CacheUntouched
<1>5. IdleLoc \in Places
  BY IdleIsAPlace
<1>6. \A t \in Threads : [IdleLoc EXCEPT !.todo = loc[r].todo \ {t}, !.target = t] \in Places
  <2>1. \A t \in Threads : loc[r].todo \ {t} \in SUBSET Threads
    BY <1>3 DEF Places
  <2>. QED
    BY <1>5, <2>1, PlacesUpdated
<1>7. [IdleLoc EXCEPT !.todo = loc[r].todo] \in Places
  <2>1. loc[r].todo \in SUBSET Threads
    BY <1>3 DEF Places
  <2>. QED
    BY <1>5, <2>1, PlacesUpdated
<1>8. loc = [loc EXCEPT ![r] = loc[r]]
  BY DEF Shape
<1>9. CASE Found(r)
  <2>1. [loc[r] EXCEPT !.kind = "queues", !.index = 1] \in Places
    BY <1>3, PlacesUpdated
  <2>2. CASE loc[r].kind = "names"
    <3>1. loc' = [loc EXCEPT ![r] = [loc[r] EXCEPT !.kind = "queues", !.index = 1]]
      BY <1>9, <2>2 DEF Found
    <3>2. rpc' = [rpc EXCEPT ![r] = "look"] /\ "look" \in ReaderLabels
      BY <1>9, <2>2 DEF Found, Goto, ReaderLabels
    <3>. QED
      BY <2>1, <3>1, <3>2
  <2>3. CASE loc[r].kind # "names"
    BY <1>7, <1>9, <2>3 DEF Found, Goto, ReaderLabels
  <2>. QED
    BY <2>2, <2>3
<1>10. CASE Freeze(r)
  BY <1>3, <1>8, <1>10 DEF Freeze, Goto, ReaderLabels
<1>11. CASE NextThread(r)
  <2>1. CASE Goto(r, "unfreeze") /\ UNCHANGED loc
    BY <1>3, <1>8, <2>1 DEF Goto, ReaderLabels
  <2>2. ASSUME NEW t \in loc[r].todo, Goto(r, "look"),
               loc' = [loc EXCEPT ![r] = [IdleLoc EXCEPT !.todo = loc[r].todo \ {t},
                                                         !.target = t]]
        PROVE  \E l \in ReaderLabels, p \in Places :
                 /\ rpc' = [rpc EXCEPT ![r] = l] /\ loc' = [loc EXCEPT ![r] = p]
                 /\ l \notin {"compare", "take", "use"}
    <3>1. t \in Threads
      BY <1>3 DEF Places
    <3>. QED
      BY <1>6, <2>2, <3>1 DEF Goto, ReaderLabels
  <2>. QED
    BY <1>11, <2>1, <2>2 DEF NextThread
<1>12. CASE Look(r)
  BY <1>3, <1>8, <1>9, <1>12 DEF Look, Goto, ReaderLabels
<1>13. CASE Test(r)
  BY <1>3, <1>8, <1>9, <1>13 DEF Test, Goto, ReaderLabels
<1>14. CASE Compare(r)
  <2>1. [loc[r] EXCEPT !.index = @ + 1] \in Places
    <3>1. loc[r].index + 1 \in Positive
      BY <1>3 DEF Places, Positive
    <3>. QED
      BY <1>3, <3>1, PlacesUpdated
  <2>2. suspender = r => loc[r].index <= count
    BY <1>14 DEF Compare, ReaderAt, SuspendedReading, Reading
  <2>. QED
    BY <1>3, <1>8, <1>14, <2>1, <2>2 DEF Compare, Goto, ReaderLabels
<1>15. CASE Take(r)
  <2>. DEFINE k == loc[r].kind
              i == loc[r].index
              f == IF InBounds(k, i) THEN <<lists[ptr[k]][i], ptr[k]>> ELSE <<NoReader, NoList>>
  <2>1. k \in Kinds /\ i \in Nat /\ i >= 1 /\ ptr[k] \in AllGenerations
    BY <1>3 DEF Kinds, Places, Positive
  <2>2. Len(lists[ptr[k]]) \in Nat /\ lists[ptr[k]] \in Seq(Threads)
    BY <1>3, <2>1
  <2>3. suspender = r => i <= count /\ InBounds(k, i) /\ ptr[k] # NoList
    BY <1>3, <1>15, <2>1, <2>2 DEF Take, ReaderAt, SuspendedReading, Reading, Fits, InBounds
  <2>4. f \in Strings
    BY <2>1, <2>2 DEF InBounds, AllGenerations, Strings, Owners
  <2>5. [loc[r] EXCEPT !.found = f] \in Places
    BY <1>3, <2>4, PlacesUpdated
  <2>6. loc' = [loc EXCEPT ![r] = [loc[r] EXCEPT !.found = f]] /\ rpc' = [rpc EXCEPT ![r] = "use"]
    BY <1>3, <1>15 DEF Take, Goto, Shape
  <2>7. suspender = r => [loc[r] EXCEPT !.found = f].found[2] = ptr[k]
    BY <1>3, <2>3 DEF Places
  <2>8. [loc[r] EXCEPT !.found = f].kind = k
    BY <1>3 DEF Places
  <2>. QED
    BY <2>3, <2>5, <2>6, <2>7, <2>8 DEF ReaderLabels
<1>16. CASE Use(r)
  BY <1>9, <1>16 DEF Use
<1>17. CASE Unfreeze(r)
  BY <1>5, <1>17 DEF Unfreeze, Goto, ReaderLabels
<1>. QED
  BY <1>10, <1>11, <1>12, <1>13, <1>14, <1>15, <1>16, <1>17 DEF Read

LEMMA CacheNext == CacheInv /\ [Next]_vars => CacheInv'
<1>1. ASSUME CacheInv, UNCHANGED vars PROVE CacheInv'
  <2>1. UNCHANGED <<cacheVars, updateVars, suspender, live, rpc, loc>>
    BY <1>1 DEF vars, readVars
  <2>2. Shape' /\ SuspendedReading'
    BY <1>1, <2>1 DEF CacheInv, Shape, SuspendedReading, Reading, cacheVars, updateVars
  <2>. QED
    BY <1>1, <2>1, <2>2, CacheUntouched DEF CacheInv
<1>2. ASSUME CacheInv, Update PROVE CacheInv'
  BY <1>2, ListThreadsKeeps, ShrinkKeeps, SwapKeeps, GrowKeeps, FreeKeeps, WaitKeeps
     DEF Update
<1>. QED
  BY <1>1, <1>2, ThreadsKeep, BeginKeeps, ReadKeeps DEF Next

\* The invariant gives what the run checks.
LEMMA CacheInvIsSafe == CacheInv => SuspendedReadsAreSafe
<1>. SUFFICES ASSUME CacheInv, NEW r \in Readers, suspender = r PROVE SafeRead(r)
  BY DEF SuspendedReadsAreSafe
<1>. USE DEF CacheInv
<1>1. Reading(r)
  BY DEF SuspendedReading
<1>2. /\ loc[r].index \in Nat \ {0} /\ loc[r].kind \in Kinds /\ count \in Nat
      /\ \A k \in Kinds : Len(lists[ptr[k]]) \in Nat
  BY DEF Shape, Kinds, Places, Positive
<1>3. ASSUME NEW k \in Kinds, loc[r].index <= count PROVE InBounds(k, loc[r].index)
  BY <1>2, <1>3 DEF Fits, InBounds
<1>4. "mach" \in Kinds
  BY DEF Kinds
<1>5. rpc[r] = "use" => <<loc[r].kind, loc[r].found[2]>> \in heap
  BY <1>1, <1>2 DEF Reading, Fits
<1>. QED
  BY <1>1, <1>2, <1>3, <1>4, <1>5 DEF Reading, SafeRead

\* A report that has suspended the others reads only what is there.
THEOREM SuspendedReads == Spec => []SuspendedReadsAreSafe
<1>1. Init => CacheInv
  BY CacheInit
<1>2. CacheInv /\ [Next]_vars => CacheInv'
  BY CacheNext
<1>3. CacheInv => SuspendedReadsAreSafe
  BY CacheInvIsSafe
<1>. QED
  BY <1>1, <1>2, <1>3, PTL DEF Spec

-----------------------------------------------------------------------------
(***************************************************************************)
(* The cache stays whole.  At any step of an update there are the arrays of   *)
(* an old listing (or none) and, until the end, those of a new one, and each  *)
(* kind is allocated exactly while it is to be freed or in use (HeapInv).     *)
(* Frozen, the cache can be replaced once more only by an update that has     *)
(* passed its test and not begun (FreezeInv).                               *)
(***************************************************************************)
\* All arrays of n are allocated, and of o those of the kinds in S.
Allocated(o, n, S) ==
    /\ heap \subseteq Kinds \X Generations
    /\ \A k \in Kinds, g \in Generations : <<k, g>> \in heap <=> (g = n \/ (g = o /\ k \in S))

\* The kinds whose old arrays are still to be freed.
Left == {Order[j] : j \in step .. 3}

\* Between two updates.
Settled(o) ==
    /\ \A k \in Kinds : ptr[k] = o
    /\ Allocated(o, o, Kinds)
    /\ count = Len(lists[o])

\* The first arrays are replaced.
Halfway(o, n) ==
    /\ o # n
    /\ \A j \in {1, 2, 3} : IF j < step THEN ptr[Order[j]] = n /\ local[Order[j]] = o
                                        ELSE ptr[Order[j]] = o /\ local[Order[j]] = n
    /\ Allocated(o, n, Kinds)
    /\ oldCount = Len(lists[o])

\* All arrays are replaced.
Replaced(o, n) ==
    /\ o # n /\ \A k \in Kinds : ptr[k] = n /\ local[k] = o
    /\ oldCount = Len(lists[o])

HeapInv ==
    /\ upc \in {"check", "list"} => \E o \in AllGenerations : Settled(o)
    /\ upc \in {"shrink", "swap"} => \E o \in AllGenerations, n \in Generations : Halfway(o, n)
    /\ upc = "grow" => step = 1 /\ \E o \in AllGenerations, n \in Generations :
         Replaced(o, n) /\ Allocated(o, n, Kinds)
    /\ upc = "free" => \E o \in AllGenerations, n \in Generations :
         /\ Replaced(o, n) /\ count = Len(lists[n])
         /\ Allocated(o, n, Left)

Freezing == {r \in Readers : rpc[r] \notin {"idle", "freeze"}}

FreezeInv ==
    /\ semaphore = Cardinality(Freezing)
    /\ updates \in Nat
    /\ semaphore > 0 => updates <= 1 /\ (upc = "list" => updates = 0)

WholeInv == CacheInv /\ HeapInv /\ FreezeInv

LEMMA WholeInit == Init => HeapInv /\ FreezeInv
<1>. SUFFICES ASSUME Init PROVE HeapInv /\ FreezeInv
  OBVIOUS
<1>1. Settled(NoList)
  BY DEF Init, Settled, Allocated, Generations, NoList
<1>2. NoList \in AllGenerations
  BY DEF AllGenerations
<1>3. HeapInv
  BY <1>1, <1>2 DEF Init, HeapInv
<1>4. Freezing = {}
  BY DEF Init, Freezing
<1>5. FreezeInv
  BY <1>4, FS_EmptySet DEF Init, FreezeInv
<1>. QED
  BY <1>3, <1>5

LEMMA ListThreadsWhole ==
    ASSUME CacheInv, HeapInv, ListThreads
    PROVE  HeapInv'
<1>1. PICK g \in Generations, s \in Listings(live) :
       /\ Fresh(g)
       /\ lists' = [lists EXCEPT ![g] = s]
       /\ heap' = heap \cup {<<k, g>> : k \in Kinds}
       /\ local' = [k \in Kinds |-> g]
       /\ oldCount' = OldCount(s)
  BY DEF ListThreads
<1>2. UNCHANGED <<ptr, count>> /\ upc = "list" /\ upc' = "shrink" /\ step' = 1
  BY DEF ListThreads, UpdaterAt
<1>3. PICK o \in AllGenerations : Settled(o)
  BY <1>2 DEF HeapInv
<1>4. o # g
  <2>1. "mach" \in Kinds
    BY DEF Kinds
  <2>. QED
    BY <1>1, <1>3, <2>1 DEF Fresh, Settled, Allocated
<1>5. Len(lists'[o]) = Len(lists[o])
  BY <1>1, <1>4 DEF CacheInv, Shape
<1>6. Allocated(o, g, Kinds)'
  BY <1>1, <1>3 DEF Settled, Allocated
<1>7. Halfway(o, g)'
  BY <1>1, <1>2, <1>3, <1>4, <1>5, <1>6, Positions DEF Halfway, Settled, OldCount
<1>. QED
  BY <1>2, <1>7 DEF HeapInv

LEMMA SwapWhole ==
    ASSUME CacheInv, HeapInv, Swap
    PROVE  HeapInv'
<1>. DEFINE k == Order[step]
<1>1. /\ UNCHANGED <<lists, heap, oldCount>> /\ upc = "swap"
      /\ ptr' = [ptr EXCEPT ![k] = local[k]]
      /\ local' = [local EXCEPT ![k] = ptr[k]]
      /\ IF step < 3 THEN step' = step + 1 /\ upc' = "swap"
                     ELSE step' = 1 /\ upc' = "grow"
  BY Positions DEF Swap, UpdaterAt
<1>2. PICK o \in AllGenerations, n \in Generations : Halfway(o, n)
  BY <1>1 DEF HeapInv
<1>3. step \in {1, 2, 3} /\ k \in Kinds
  BY Positions DEF CacheInv, Shape
<1>4. ptr[k] = o /\ local[k] = n
  <2>1. ~(step < step)
    BY <1>3
  <2>. QED
    BY <1>2, <1>3, <2>1 DEF Halfway
<1>5. ptr'[k] = n /\ local'[k] = o
  BY <1>1, <1>3, <1>4 DEF CacheInv, Shape
<1>6. \A j \in {1, 2, 3} : j # step => ptr'[Order[j]] = ptr[Order[j]] /\ local'[Order[j]] = local[Order[j]]
  BY <1>1, <1>3, Positions DEF CacheInv, Shape
<1>. HIDE DEF k
<1>7. CASE step < 3
  <2>1. \A j \in {1, 2, 3} : IF j < step' THEN ptr'[Order[j]] = n /\ local'[Order[j]] = o
                                          ELSE ptr'[Order[j]] = o /\ local'[Order[j]] = n
    <3>. SUFFICES ASSUME NEW j \in {1, 2, 3}
                  PROVE  IF j < step' THEN ptr'[Order[j]] = n /\ local'[Order[j]] = o
                                      ELSE ptr'[Order[j]] = o /\ local'[Order[j]] = n
      OBVIOUS
    <3>1. CASE j = step
      BY <1>1, <1>3, <1>5, <1>7, <3>1 DEF k
    <3>2. CASE j # step
      <4>1. j < step' <=> j < step
        BY <1>1, <1>3, <1>7, <3>2
      <4>. QED
        BY <1>2, <1>6, <3>2, <4>1 DEF Halfway
    <3>. QED
      BY <3>1, <3>2
  <2>2. Halfway(o, n)'
    BY <1>1, <1>2, <2>1 DEF Halfway, Allocated
  <2>. QED
    BY <1>1, <1>7, <2>2 DEF HeapInv
<1>8. CASE ~(step < 3)
  <2>1. \A j \in {1, 2, 3} : ptr'[Order[j]] = n /\ local'[Order[j]] = o
    <3>. SUFFICES ASSUME NEW j \in {1, 2, 3} PROVE ptr'[Order[j]] = n /\ local'[Order[j]] = o
      OBVIOUS
    <3>1. CASE j = step
      BY <1>5, <3>1 DEF k
    <3>2. CASE j # step
      <4>1. j < step
        BY <1>3, <1>8, <3>2
      <4>. QED
        BY <1>2, <1>6, <3>2, <4>1 DEF Halfway
    <3>. QED
      BY <3>1, <3>2
  <2>2. \A j \in Kinds : ptr'[j] = n /\ local'[j] = o
    BY <2>1, Positions
  <2>3. Replaced(o, n)' /\ Allocated(o, n, Kinds)'
    BY <1>1, <1>2, <2>2 DEF Replaced, Halfway, Allocated
  <2>. QED
    BY <1>1, <1>8, <2>3 DEF HeapInv
<1>. QED
  BY <1>7, <1>8

LEMMA GrowWhole ==
    ASSUME CacheInv, HeapInv, Grow
    PROVE  HeapInv'
<1>1. /\ UNCHANGED <<lists, heap, ptr, local, oldCount, step>>
      /\ upc = "grow" /\ upc' = "free" /\ count' = Len(lists[ptr["mach"]])
  BY DEF Grow, UpdaterAt
<1>2. step = 1
  BY <1>1 DEF HeapInv
<1>3. PICK o \in AllGenerations, n \in Generations : Replaced(o, n) /\ Allocated(o, n, Kinds)
  BY <1>1 DEF HeapInv
<1>4. Kinds = Left'
  BY <1>1, <1>2, Positions DEF Left
<1>5. Allocated(o, n, Left)'
  BY <1>1, <1>3, <1>4 DEF Allocated
<1>6. Replaced(o, n)' /\ count' = Len(lists'[n])
  BY <1>1, <1>3 DEF Replaced, Kinds
<1>. QED
  BY <1>1, <1>5, <1>6 DEF HeapInv

LEMMA FreeWhole ==
    ASSUME CacheInv, HeapInv, Free
    PROVE  HeapInv'
<1>. DEFINE k == Order[step]
<1>1. /\ UNCHANGED <<lists, ptr, count, local, oldCount>> /\ upc = "free"
      /\ heap' = heap \ {<<k, local[k]>>}
      /\ IF step < 3 THEN step' = step + 1 /\ upc' = "free"
                     ELSE step' = 1 /\ upc' = "check"
  BY Positions DEF Free, UpdaterAt, Freed
<1>2. PICK o \in AllGenerations, n \in Generations :
        Replaced(o, n) /\ count = Len(lists[n]) /\ Allocated(o, n, Left)
  BY <1>1 DEF HeapInv
<1>3. step \in {1, 2, 3} /\ k \in Kinds
  BY Positions DEF CacheInv, Shape
<1>4. local[k] = o /\ o # n
  BY <1>2, <1>3 DEF Replaced
<1>5. Replaced(o, n)' /\ count' = Len(lists'[n])
  BY <1>1, <1>2 DEF Replaced
<1>6. k \in Left /\ Left \subseteq Kinds
  BY <1>3, Positions DEF Left
<1>7. /\ heap' \subseteq Kinds \X Generations
      /\ \A j \in Kinds, g \in Generations :
           <<j, g>> \in heap' <=> (g = n \/ (g = o /\ j \in Left /\ j # k))
  <2>1. heap' \subseteq Kinds \X Generations
    BY <1>1, <1>2 DEF Allocated
  <2>2. ASSUME NEW j \in Kinds, NEW g \in Generations
        PROVE  <<j, g>> \in heap' <=> (g = n \/ (g = o /\ j \in Left /\ j # k))
    <3>1. <<j, g>> \in heap <=> (g = n \/ (g = o /\ j \in Left))
      BY <1>2 DEF Allocated
    <3>. QED
      BY <1>1, <1>4, <3>1
  <2>. QED
    BY <2>1, <2>2
<1>. HIDE DEF k
<1>8. CASE step < 3
  <2>1. Left' = Left \ {k}
    BY <1>1, <1>3, <1>8, Positions DEF Left, k
  <2>2. Allocated(o, n, Left)'
    BY <1>7, <2>1 DEF Allocated
  <2>. QED
    BY <1>1, <1>5, <1>8, <2>2 DEF HeapInv
<1>9. CASE ~(step < 3)
  <2>1. Left = {k}
    BY <1>3, <1>9, Positions DEF Left, k
  <2>2. Allocated(n, n, Kinds)'
    BY <1>4, <1>7, <2>1 DEF Allocated
  <2>3. Settled(n)' /\ n \in AllGenerations
    BY <1>5, <2>2 DEF Settled, Replaced, AllGenerations
  <2>. QED
    BY <1>1, <1>9, <2>3 DEF HeapInv
<1>. QED
  BY <1>8, <1>9

\* Steps that change neither the arrays nor where the update is.
LEMMA HeapUntouched ==
    ASSUME HeapInv, UNCHANGED <<lists, heap, ptr, count, local, oldCount, step>>,
           upc' = upc \/ {upc, upc'} \subseteq {"check", "list"}
    PROVE  HeapInv'
<1>1. \A o : Settled(o)' <=> Settled(o)
  BY DEF Settled, Allocated
<1>2. \A o, n : Halfway(o, n)' <=> Halfway(o, n)
  BY DEF Halfway, Allocated
<1>3. \A o, n : (Replaced(o, n)' <=> Replaced(o, n))
  BY DEF Replaced
<1>4. \A o, n : /\ Allocated(o, n, Kinds)' <=> Allocated(o, n, Kinds)
                /\ Allocated(o, n, Left)' <=> Allocated(o, n, Left)
  BY DEF Allocated, Left
<1>. QED
  BY <1>1, <1>2, <1>3, <1>4 DEF HeapInv

LEMMA ShrinkWhole ==
    ASSUME HeapInv, Shrink
    PROVE  HeapInv'
<1>1. UNCHANGED <<lists, heap, ptr, local, oldCount, step>> /\ upc = "shrink" /\ upc' = "swap"
  BY DEF Shrink, UpdaterAt
<1>2. PICK o \in AllGenerations, n \in Generations : Halfway(o, n)
  BY <1>1 DEF HeapInv
<1>3. Halfway(o, n)'
  BY <1>1, <1>2 DEF Halfway, Allocated
<1>. QED
  BY <1>1, <1>3 DEF HeapInv

LEMMA HeapNext == CacheInv /\ HeapInv /\ [Next]_vars => HeapInv'
<1>. SUFFICES ASSUME CacheInv, HeapInv, [Next]_vars PROVE HeapInv'
  OBVIOUS
<1>1. ASSUME Check \/ CannotList PROVE HeapInv'
  BY <1>1, HeapUntouched DEF Check, CannotList, UpdaterAt, cacheVars
<1>2. ASSUME Update PROVE HeapInv'
  BY <1>1, <1>2, ListThreadsWhole, ShrinkWhole, SwapWhole, GrowWhole, FreeWhole DEF Update
<1>3. ASSUME UNCHANGED <<cacheVars, updateVars>> PROVE HeapInv'
  BY <1>3, HeapUntouched DEF cacheVars, updateVars
<1>4. ASSUME NEW t \in Threads, Start(t) \/ Exit(t) PROVE HeapInv'
  BY <1>3, <1>4 DEF Start, Exit
<1>5. ASSUME NEW r \in Readers, Read(r) \/ \E s \in Suspends : Begin(r, s) PROVE HeapInv'
  BY <1>3, <1>5
     DEF Read, Freeze, NextThread, Look, Test, Compare, Take, Use, Unfreeze, Begin
<1>6. ASSUME UNCHANGED vars PROVE HeapInv'
  BY <1>3, <1>6 DEF vars
<1>. QED
  BY <1>2, <1>4, <1>5, <1>6 DEF Next

-----------------------------------------------------------------------------
LEMMA FreezingIsFinite == IsFiniteSet(Freezing) /\ Cardinality(Freezing) \in Nat
<1>1. IsFiniteSet(Freezing)
  BY CachedDataAssumption, FS_Subset DEF Freezing
<1>. QED
  BY <1>1, FS_CardinalityType

\* A report goes on at a label; only the first and the last steps change who freezes.
LEMMA FreezingChanged ==
    ASSUME Shape, NEW r \in Readers, NEW l, rpc' = [rpc EXCEPT ![r] = l]
    PROVE  Freezing' = IF l \in {"idle", "freeze"} THEN Freezing \ {r} ELSE Freezing \cup {r}
BY DEF Shape, Freezing

LEMMA FreezeReads ==
    ASSUME Shape, FreezeInv, NEW r \in Readers, rpc[r] \notin {"idle", "freeze"},
           UNCHANGED <<semaphore, updates, upc>>, Freezing' = Freezing
    PROVE  FreezeInv'
BY DEF FreezeInv

LEMMA FreezeUpdates ==
    ASSUME CacheInv, FreezeInv, Update
    PROVE  FreezeInv'
<1>1. UNCHANGED <<semaphore, rpc>> /\ Freezing' = Freezing
  BY DEF Update, Check, ListThreads, CannotList, Shrink, Swap, Grow, Free, readVars, Freezing
<1>2. CASE ListThreads
  BY <1>1, <1>2 DEF ListThreads, UpdaterAt, FreezeInv
<1>3. CASE Check
  BY <1>1, <1>3 DEF Check, MayUpdate, FreezeInv, CacheInv
<1>4. CASE CannotList \/ Shrink \/ Swap \/ Grow \/ Free
  <2>1. UNCHANGED updates /\ upc' # "list"
    BY <1>4 DEF CannotList, Shrink, Swap, Grow, Free, UpdaterAt
  <2>. QED
    BY <1>1, <2>1 DEF FreezeInv
<1>. QED
  BY <1>2, <1>3, <1>4 DEF Update

LEMMA FreezeFreezes ==
    ASSUME CacheInv, FreezeInv, NEW r \in Readers, Freeze(r)
    PROVE  FreezeInv'
<1>1. /\ rpc[r] = "freeze" /\ rpc' = [rpc EXCEPT ![r] = "thread"] /\ semaphore' = semaphore + 1
      /\ updates' = (IF semaphore > 0 THEN updates ELSE 0) /\ upc' = upc
  BY DEF Freeze, ReaderAt, Goto, updateVars
<1>2. Freezing' = Freezing \cup {r} /\ r \notin Freezing
  BY <1>1, FreezingChanged DEF CacheInv, Freezing
<1>3. Cardinality(Freezing') = Cardinality(Freezing) + 1
  BY <1>2, FreezingIsFinite, FS_AddElement
<1>. QED
  BY <1>1, <1>3, FreezingIsFinite DEF FreezeInv

LEMMA FreezeUnfreezes ==
    ASSUME CacheInv, FreezeInv, NEW r \in Readers, Unfreeze(r)
    PROVE  FreezeInv'
<1>1. /\ rpc[r] = "unfreeze" /\ rpc' = [rpc EXCEPT ![r] = "idle"]
      /\ semaphore' = Unfrozen(semaphore) /\ UNCHANGED <<updates, upc>>
  BY DEF Unfreeze, ReaderAt, Goto, updateVars
<1>2. Freezing' = Freezing \ {r} /\ r \in Freezing
  BY <1>1, FreezingChanged DEF CacheInv, Freezing
<1>3. Cardinality(Freezing') = Cardinality(Freezing) - 1 /\ Cardinality(Freezing') \in Nat
  BY <1>2, FreezingIsFinite, FS_RemoveElement, FS_CardinalityType
<1>. QED
  BY <1>1, <1>3, FreezingIsFinite DEF FreezeInv, Unfrozen

LEMMA FreezeNext == CacheInv /\ FreezeInv /\ [Next]_vars => FreezeInv'
<1>. SUFFICES ASSUME CacheInv, FreezeInv, [Next]_vars PROVE FreezeInv'
  OBVIOUS
<1>1. ASSUME UNCHANGED <<semaphore, updates, upc>>, Freezing' = Freezing PROVE FreezeInv'
  BY <1>1 DEF FreezeInv
<1>2. ASSUME NEW t \in Threads, Start(t) \/ Exit(t) PROVE FreezeInv'
  BY <1>1, <1>2 DEF Start, Exit, readVars, updateVars, Freezing
<1>3. ASSUME NEW r \in Readers, NEW s \in Suspends, Begin(r, s) PROVE FreezeInv'
  <2>1. /\ rpc[r] = "idle" /\ rpc' = [rpc EXCEPT ![r] = "freeze"]
        /\ UNCHANGED <<semaphore, updates, upc>>
    BY <1>3 DEF Begin, ReaderAt, Goto, updateVars
  <2>2. Freezing' = Freezing
    BY <2>1, FreezingChanged DEF CacheInv, Freezing
  <2>. QED
    BY <1>1, <2>1, <2>2
<1>4. ASSUME NEW r \in Readers, Read(r) PROVE FreezeInv'
  <2>1. CASE NextThread(r) \/ Look(r) \/ Test(r) \/ Compare(r) \/ Take(r) \/ Use(r)
    <3>1. /\ rpc[r] \notin {"idle", "freeze"} /\ UNCHANGED <<semaphore, updates, upc>>
          /\ rpc' = rpc \/ \E l \in {"look", "test", "compare", "take", "use", "thread", "unfreeze"} :
               rpc' = [rpc EXCEPT ![r] = l]
      BY <2>1 DEF NextThread, Look, Test, Compare, Take, Use, Found, Goto, ReaderAt, updateVars
    <3>2. Freezing' = Freezing
      <4>1. CASE rpc' = rpc
        BY <4>1 DEF Freezing
      <4>2. ASSUME NEW l \in {"look", "test", "compare", "take", "use", "thread", "unfreeze"},
                   rpc' = [rpc EXCEPT ![r] = l]
            PROVE  Freezing' = Freezing
        BY <3>1, <4>2, FreezingChanged DEF CacheInv, Freezing
      <4>. QED
        BY <3>1, <4>1, <4>2
    <3>. QED
      BY <1>1, <3>1, <3>2
  <2>. QED
    BY <1>4, <2>1, FreezeFreezes, FreezeUnfreezes DEF Read
<1>5. ASSUME UNCHANGED vars PROVE FreezeInv'
  BY <1>1, <1>5 DEF vars, updateVars, readVars, Freezing
<1>. QED
  BY <1>2, <1>3, <1>4, <1>5, FreezeUpdates DEF Next

LEMMA WholeInvIsWhole == WholeInv => CacheStaysWhole
<1>. SUFFICES ASSUME WholeInv PROVE CacheStaysWhole
  OBVIOUS
<1>. USE DEF WholeInv
<1>1. ASSUME upc \in {"check", "list"}
      PROVE  /\ heap = {<<k, ptr[k]>> : k \in {j \in Kinds : ptr[j] # NoList}}
             /\ \A k \in Kinds : ptr[k] = ptr["mach"]
             /\ count = Len(lists[ptr["mach"]])
  <2>1. PICK o \in AllGenerations : Settled(o)
    BY <1>1 DEF HeapInv
  <2>2. \A k \in Kinds : ptr[k] = o
    BY <2>1 DEF Settled
  <2>3. ptr["mach"] = o
    BY <2>2 DEF Kinds
  <2>4. \A k \in Kinds, g \in Generations : <<k, g>> \in heap <=> g = o
    BY <2>1 DEF Settled, Allocated
  <2>5. heap \subseteq Kinds \X Generations
    BY <2>1 DEF Settled, Allocated
  <2>6. o # NoList => o \in Generations
    BY DEF AllGenerations
  <2>7. NoList \notin Generations
    BY DEF NoList, Generations
  <2>. DEFINE used == {<<k, ptr[k]>> : k \in {j \in Kinds : ptr[j] # NoList}}
  <2>8. ASSUME NEW p \in heap PROVE p \in used
    <3>1. PICK k \in Kinds, g \in Generations : p = <<k, g>>
      BY <2>5
    <3>2. g = o /\ ptr[k] = g /\ ptr[k] # NoList
      BY <2>2, <2>4, <2>7, <3>1
    <3>. QED
      BY <3>1, <3>2
  <2>9. ASSUME NEW p \in used PROVE p \in heap
    <3>1. PICK k \in Kinds : ptr[k] # NoList /\ p = <<k, ptr[k]>>
      OBVIOUS
    <3>2. ptr[k] = o /\ o \in Generations
      BY <2>2, <2>6, <3>1
    <3>. QED
      BY <2>4, <3>1, <3>2
  <2>10. heap = used
    BY <2>8, <2>9
  <2>. QED
    BY <2>1, <2>2, <2>3, <2>10 DEF Settled
<1>2. ASSUME upc = "free", NEW j \in step .. Len(Order) PROVE oldCount = Len(lists[local[Order[j]]])
  <2>1. Order[j] \in Kinds
    BY <1>2, Positions DEF CacheInv, Shape
  <2>. QED
    BY <1>2, <2>1 DEF HeapInv, Replaced
<1>3. NothingLeaks
  BY <1>1, <1>2 DEF NothingLeaks
<1>4. FrozenWhileReported
  BY DEF FreezeInv, Freezing, FrozenWhileReported
<1>. QED
  BY <1>3, <1>4 DEF CacheStaysWhole

\* Whatever reports freeze in between and wherever they suspend the thread of the cache: no
\* update frees what it published or forgets what it replaced, reports that overlap do not
\* unfreeze each other, and a frozen cache changes at most once (updateThreadList,
\* growingccd_freeze, growingccd_unfreeze).
THEOREM CacheIsWhole == Spec => []CacheStaysWhole
<1>1. Init => WholeInv
  BY CacheInit, WholeInit DEF WholeInv
<1>2. WholeInv /\ [Next]_vars => WholeInv'
  BY CacheNext, HeapNext, FreezeNext DEF WholeInv
<1>. QED
  BY <1>1, <1>2, WholeInvIsWhole, PTL DEF Spec
=============================================================================
