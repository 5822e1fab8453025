----------------------------- MODULE ZombieTable -----------------------------
(***************************************************************************)
(* The table of deallocated objects (GrowingCrashMonitor_Zombie.c): every dealloc *)
(* notes the class of its object in a slot that is found by the address, and of     *)
(* an exception its name and reason, without a lock.  A crash stops all threads   *)
(* wherever they are, and what the table says goes into the report.            *)
(***************************************************************************)
EXTENDS Naturals, FiniteSets

CONSTANTS
    Threads,
    Addresses,
    Hash,            \* the slot of each address
    Classes,         \* classes of objects that are no exceptions
    Exceptions,      \* NSException and the classes below it
    None,
    MaxObjects       \* bound: objects that are made

VARIABLES
    installed,       \* g_zombieCache is there and the deallocs are replaced
    heap,            \* the object at each address: its class, its number, whether its
                     \* name and its reason are strings that can be copied
    objects,         \* how many were made
    cache,           \* g_zombieCache
    last,            \* g_lastDeallocedException: of which object each part is
    worker,          \* where in handleDealloc each thread is, and of which address
    gone,            \* the class that was last noted for each address
    crossed,         \* slots two threads were in at once, and "exception"
    report           \* what a report tells

vars == <<installed, heap, objects, cache, last, worker, gone, crossed, report>>

Nothing == [object |-> None, class |-> None]
Idle == [at |-> "idle", address |-> None]

Init ==
    /\ installed = FALSE
    /\ heap = [a \in Addresses |-> None] /\ objects = 0
    /\ cache = [s \in {Hash[a] : a \in Addresses} |-> Nothing]
    /\ last = [address |-> None, of |-> None, name |-> 0, reason |-> 0]
    /\ worker = [t \in Threads |-> Idle]
    /\ gone = [a \in Addresses |-> None] /\ crossed = {}
    /\ report = None

Alive == report = None
At(t, place) == Alive /\ worker[t].at = place
Object(t) == heap[worker[t].address]
Busy == {worker[t].address : t \in Threads}

\* setEnabled
Install ==
    /\ Alive /\ ~installed
    /\ installed' = TRUE
    /\ UNCHANGED <<heap, objects, cache, last, worker, gone, crossed, report>>

\* The program makes an object where none is,
Allocate(a) ==
    /\ Alive /\ heap[a] = None /\ objects < MaxObjects
    /\ \E class \in Classes \cup Exceptions, named \in BOOLEAN, reasoned \in BOOLEAN :
          /\ class \in Classes => ~named /\ ~reasoned
          /\ heap' = [heap EXCEPT ![a] =
                [class |-> class, number |-> objects + 1, named |-> named, reasoned |-> reasoned]]
    /\ objects' = objects + 1
    /\ UNCHANGED <<installed, cache, last, worker, gone, crossed, report>>

\* and a thread deallocates one: at once, if nothing is replaced yet.
Free(a) == heap' = [heap EXCEPT ![a] = None]
Go(t, place) == worker' = [worker EXCEPT ![t].at = place]
InSlot(t, s) == worker[t].at = "class" /\ Hash[worker[t].address] = s
Storing(t) == worker[t].at \in {"address", "name", "reason"}

\* handleDealloc: the slot is given to the object,
Dealloc(t, a) ==
    /\ At(t, "idle") /\ heap[a] # None /\ a \notin Busy
    /\ IF ~installed
       THEN Free(a) /\ UNCHANGED <<cache, worker, gone, crossed>>
       ELSE /\ cache' = [cache EXCEPT ![Hash[a]].object = a]
            /\ worker' = [worker EXCEPT ![t] = [at |-> "class", address |-> a]]
            /\ gone' = [gone EXCEPT ![a] = heap[a].class]
            /\ crossed' = IF \E u \in Threads \ {t} : InSlot(u, Hash[a])
                          THEN crossed \cup {Hash[a]} ELSE crossed
            /\ UNCHANGED heap
    /\ UNCHANGED <<installed, objects, last, report>>

\* then to its class,
NoteClass(t) ==
    /\ At(t, "class")
    /\ cache' = [cache EXCEPT ![Hash[worker[t].address]].class = Object(t).class]
    /\ Go(t, IF Object(t).class \in Exceptions THEN "address" ELSE "free")
    /\ UNCHANGED <<installed, heap, objects, last, gone, crossed, report>>

\* storeException: the parts of an exception one after the other; what cannot be copied
\* stays as it was.
StoreAddress(t) ==
    /\ At(t, "address")
    /\ last' = [last EXCEPT !.address = worker[t].address, !.of = Object(t)]
    /\ crossed' = IF \E u \in Threads \ {t} : Storing(u) THEN crossed \cup {"exception"} ELSE crossed
    /\ Go(t, "name")
    /\ UNCHANGED <<installed, heap, objects, cache, gone, report>>

StoreName(t) ==
    /\ At(t, "name")
    /\ last' = IF Object(t).named THEN [last EXCEPT !.name = Object(t).number] ELSE last
    /\ Go(t, "reason")
    /\ UNCHANGED <<installed, heap, objects, cache, gone, crossed, report>>

StoreReason(t) ==
    /\ At(t, "reason")
    /\ last' = IF Object(t).reasoned THEN [last EXCEPT !.reason = Object(t).number] ELSE last
    /\ Go(t, "free")
    /\ UNCHANGED <<installed, heap, objects, cache, gone, crossed, report>>

\* The original dealloc.
FreeObject(t) ==
    /\ At(t, "free")
    /\ Free(worker[t].address)
    /\ worker' = [worker EXCEPT ![t] = Idle]
    /\ UNCHANGED <<installed, objects, cache, last, gone, crossed, report>>

\* Mutant: whatever is in the slot is taken for the object.
WhateverIsThere(a) == cache[Hash[a]].class
ClassName(a) == IF cache[Hash[a]].object = a THEN cache[Hash[a]].class ELSE None

\* A crash: growingcrashzombie_className for whatever address the report meets, and
\* addContextualInfoToEvent.
Crash ==
    /\ Alive
    /\ report' = [class |-> [a \in Addresses |-> ClassName(a)],
                  exception |-> IF installed THEN last ELSE [last EXCEPT !.address = None]]
    /\ UNCHANGED <<installed, heap, objects, cache, last, worker, gone, crossed>>

Next ==
    \/ Install \/ Crash
    \/ \E a \in Addresses : Allocate(a)
    \/ \E t \in Threads : \/ \E a \in Addresses : Dealloc(t, a)
                          \/ NoteClass(t) \/ StoreAddress(t) \/ StoreName(t) \/ StoreReason(t)
                          \/ FreeObject(t)

Spec == Init /\ [][Next]_vars

-----------------------------------------------------------------------------
(* Properties.                                                             *)

\* The class a report tells for an address is that of the object that was last
\* deallocated there, whatever else fell into its slot; only two deallocs that meet in
\* a slot, or one that is stopped between its two stores, leave the class of another
\* object (handleDealloc, growingcrashzombie_className).
ClassIsOfTheObject ==
    report # None =>
        \A a \in Addresses : report.class[a] # None =>
            \/ report.class[a] = gone[a]
            \/ Hash[a] \in crossed
            \/ \E t \in Threads : InSlot(t, Hash[a])

\* The exception that was deallocated last is told with its own name and reason, unless
\* two met or one was stopped on its way; one that has none keeps those of an earlier
\* one (storeException).
ExceptionIsOne ==
    report # None /\ report.exception.address # None /\ "exception" \notin crossed
        /\ ~(\E t \in Threads : Storing(t)) =>
            LET e == report.exception.of
            IN /\ e.named => report.exception.name = e.number
               /\ e.reasoned => report.exception.reason = e.number

\* What a report tells of objects that are gone is true.
ZombiesAreTold == ClassIsOfTheObject /\ ExceptionIsOne
=============================================================================
