---------------------------- MODULE ThrowCapture ----------------------------
(***************************************************************************)
(* The stack of a C++ exception is collected when it is thrown: __cxa_throw is     *)
(* overridden (GrowingCrashMonitor_CPPException.cpp), or the pointer to it in     *)
(* each image is swapped (GrowingCxaThrowSwapper.c), while threads throw and        *)
(* images are loaded.                                                       *)
(***************************************************************************)
EXTENDS Naturals, Sequences, FiniteSets, FiniteSetsExt

CONSTANTS
    Threads,
    Images,
    Loaded,          \* the images that are loaded when the swap is made
    Pointer,         \* what the pointer of each image leads to at first: "runtime",
                     \* "override", or "stub" when it is bound at its first use
    Bound,           \* and where a stub binds it
    Rebindable,      \* images with both sections of pointers in one segment
    None,
    InitialCapacity, \* of g_cxa_originals: 25 in the code
    MaxThrows        \* bound: throws

VARIABLES
    slot,            \* the pointer to __cxa_throw of each image
    pairs,           \* g_cxa_originals: images and their original pointers
    capacity,
    moved,           \* how often the array was moved
    swap,            \* g_cxa_throw_handler and g_cxaSwapEnabled: "off", "rebinding", "on"
    toBind,          \* images dyld has still to call us for, in order
    bindStep,        \* of the first of these: "pair" or "pointer"
    ready,           \* images whose code may run
    thrower,         \* what each thread is doing
    cursor,          \* g_stackCursor: whose throw it is of
    report           \* the report of an exception nobody caught

vars == <<slot, pairs, capacity, moved, swap, toBind, bindStep, ready, thrower, cursor, report>>
loading == <<pairs, capacity, moved, swap, toBind, bindStep, ready>>

Capture(t, n) == [of |-> t, number |-> n]
Torn == [of |-> None, number |-> 0]

Init ==
    /\ slot = Pointer
    /\ pairs = <<>> /\ capacity = InitialCapacity /\ moved = 0
    /\ swap = "off" /\ toBind = <<>> /\ bindStep = "pair"
    /\ ready = Loaded
    /\ thrower = [t \in Threads |-> [at |-> "running", image |-> None, number |-> 0, then |-> None, sees |-> 0,
                                     captured |-> FALSE, should |-> FALSE, passed |-> FALSE, crossed |-> FALSE]]
    /\ cursor = Torn
    /\ report = None

Alive == report = None
At(t, places) == Alive /\ thrower[t].at \in places

-----------------------------------------------------------------------------
(* The swap.                                                               *)

Orders(set) == {s \in [1 .. Cardinality(set) -> set] : \A i, j \in DOMAIN s : s[i] = s[j] => i = j}

\* growingcrashcm_enableSwapCxaThrow: dyld calls for every image that is loaded.
EnableSwap ==
    /\ Alive /\ swap = "off"
    /\ swap' = "rebinding"
    /\ toBind' \in Orders(ready)
    /\ UNCHANGED <<slot, pairs, capacity, moved, bindStep, ready, thrower, cursor, report>>

\* The flag that ends the override's part is set behind that.
SwapEnabled ==
    /\ Alive /\ swap = "rebinding" /\ toBind = <<>>
    /\ swap' = "on"
    /\ thrower' = [t \in Threads |-> [thrower[t] EXCEPT !.passed = TRUE]]
    /\ UNCHANGED <<slot, pairs, capacity, moved, toBind, bindStep, ready, cursor, report>>

\* Later dyld calls for an image before its code runs.
LoadImage ==
    /\ Alive /\ swap = "on" /\ toBind = <<>>
    /\ \E i \in Images \ ready : toBind' = <<i>>
    /\ UNCHANGED <<slot, pairs, capacity, moved, swap, bindStep, ready, thrower, cursor, report>>

\* Mutant: the pointer is swapped before its original is noted.
PointerFirst == "pointer"
FirstStep == "pair"
OtherStep == IF FirstStep = "pair" THEN "pointer" ELSE "pair"

\* rebind_symbols_for_image: nothing of an image that has only one of the sections.
SkipImage ==
    /\ Alive /\ toBind # <<>> /\ Head(toBind) \notin Rebindable
    /\ toBind' = Tail(toBind) /\ ready' = ready \cup {Head(toBind)}
    /\ UNCHANGED <<slot, pairs, capacity, moved, swap, bindStep, thrower, cursor, report>>

Done(step) ==
    IF step = FirstStep THEN bindStep' = OtherStep /\ UNCHANGED <<toBind, ready>>
    ELSE bindStep' = FirstStep /\ toBind' = Tail(toBind) /\ ready' = ready \cup {Head(toBind)}
NextStep == IF bindStep = "pair" THEN FirstStep ELSE OtherStep

\* addPair: into an array that is moved when it is full.
AddPair ==
    /\ Alive /\ toBind # <<>> /\ Head(toBind) \in Rebindable /\ NextStep = "pair"
    /\ IF Len(pairs) = capacity THEN capacity' = 2 * capacity /\ moved' = moved + 1
       ELSE UNCHANGED <<capacity, moved>>
    /\ pairs' = Append(pairs, [image |-> Head(toBind), function |-> slot[Head(toBind)]])
    /\ Done("pair")
    /\ UNCHANGED <<slot, swap, thrower, cursor, report>>

\* perform_rebinding_with_section
SwapPointer ==
    /\ Alive /\ toBind # <<>> /\ Head(toBind) \in Rebindable /\ NextStep = "pointer"
    /\ slot' = [slot EXCEPT ![Head(toBind)] = "decorator"]
    /\ Done("pointer")
    /\ UNCHANGED <<pairs, capacity, moved, swap, thrower, cursor, report>>

-----------------------------------------------------------------------------
(* A throw.                                                                *)

\* Throws are numbered.
Thrown == Max({thrower[t].number : t \in Threads})

\* A thread calls __cxa_throw through the pointer of its image.  It should be
\* captured if the pointer leads to the decorator, or to the override while that is
\* in charge.
Throw(t) ==
    /\ At(t, {"running"}) /\ Thrown < MaxThrows
    /\ \E i \in ready :
          LET target == IF slot[i] = "stub" THEN Bound[i] ELSE slot[i]
          IN thrower' = [thrower EXCEPT ![t] =
                [@ EXCEPT !.at = slot[i], !.image = i, !.number = Thrown + 1, !.captured = FALSE, !.passed = FALSE,
                          !.should = \/ target = "decorator"
                                     \/ target = "override" /\ swap # "on"]]
    /\ UNCHANGED <<slot, loading, cursor, report>>

\* dyld binds the pointer of the image at its first use, whatever it holds now.
BindLazily(t) ==
    /\ At(t, {"stub"})
    /\ LET i == thrower[t].image
       IN /\ slot' = [slot EXCEPT ![i] = Bound[i]]
          /\ thrower' = [thrower EXCEPT ![t].at = Bound[i]]
    /\ UNCHANGED <<loading, cursor, report>>

\* captureStackTrace, which fills the one cursor there is, and goes on to next.  The
\* monitor is enabled, so g_captureNextStackTrace is set (GrowingCrashMonitor_CPPException.cpp:97),
\* but while CPPExceptionTerminate has suspended the others and throws again for the
\* description (:149-181), behind the last step of this module.
BeginCapture(t, next) ==
    /\ cursor' = Torn
    /\ thrower' = [u \in Threads |->
            IF u # t THEN [thrower[u] EXCEPT !.crossed = TRUE]
            ELSE [thrower[t] EXCEPT !.at = "capturing", !.then = next,
                                    !.crossed = \E v \in Threads \ {t} : thrower[v].at = "capturing"]]

EnterDecorator(t) ==
    At(t, {"decorator"}) /\ BeginCapture(t, "scanning") /\ UNCHANGED <<slot, loading, report>>
OverrideCaptures == swap # "on"
EnterOverride(t) ==
    /\ At(t, {"override"})
    /\ IF OverrideCaptures THEN BeginCapture(t, "runtime")
       ELSE thrower' = [thrower EXCEPT ![t].at = "runtime"] /\ UNCHANGED cursor
    /\ UNCHANGED <<slot, loading, report>>

EndCapture(t) ==
    /\ At(t, {"capturing"})
    /\ cursor' = Capture(t, thrower[t].number)
    /\ thrower' = [thrower EXCEPT ![t] = [@ EXCEPT !.at = thrower[t].then, !.captured = TRUE, !.sees = moved]]
    /\ UNCHANGED <<slot, loading, report>>

\* findAddress, from when the capture ended: the first pair of the image, nothing, or
\* anything if the array is moved meanwhile.  Without an original
\* __cxa_throw_decorator returns to code that expects no return.
OriginalOf(i) ==
    LET of == {k \in DOMAIN pairs : pairs[k].image = i}
    IN IF of = {} THEN "returned" ELSE pairs[CHOOSE k \in of : \A l \in of : k <= l].function
FindAddress(t) ==
    /\ At(t, {"scanning"})
    /\ \/ thrower' = [thrower EXCEPT ![t].at = OriginalOf(thrower[t].image)]
       \/ thrower[t].sees # moved /\ thrower' = [thrower EXCEPT ![t].at = "returned"]
    /\ UNCHANGED <<slot, loading, cursor, report>>

\* The runtime finds a handler,
Caught(t) ==
    /\ At(t, {"runtime"})
    /\ thrower' = [thrower EXCEPT ![t].at = "running"]
    /\ UNCHANGED <<slot, loading, cursor, report>>

\* or calls CPPExceptionTerminate, which suspends the others.
Terminate(t) ==
    /\ At(t, {"runtime"})
    /\ report' = [thread |-> t, stack |-> cursor]
    /\ UNCHANGED <<slot, loading, thrower, cursor>>

Next ==
    \/ EnableSwap \/ SwapEnabled \/ LoadImage \/ SkipImage \/ AddPair \/ SwapPointer
    \/ \E t \in Threads : \/ Throw(t) \/ BindLazily(t) \/ EnterDecorator(t) \/ EnterOverride(t)
                          \/ EndCapture(t) \/ FindAddress(t) \/ Caught(t) \/ Terminate(t)

Spec == Init /\ [][Next]_vars

-----------------------------------------------------------------------------
(* Properties.                                                             *)

\* Whoever throws gets to the C++ runtime, though pointers are swapped and images loaded
\* meanwhile, unless the table of originals is moved while it is read
\* (__cxa_throw_decorator, addPair).
ThrowsReachRuntime ==
    \A t \in Threads : thrower[t].at = "returned" => thrower[t].sees # moved

\* The stack in a report of an exception is that of its throw, if no other thread was
\* captured meanwhile or since: there is one cursor.  A throw is not captured if the switch from the
\* override to the swap passed it, or its image has no pointer of ours, and then the
\* stack is an older one or none (captureStackTrace, __cxa_throw).
StackIsOfTheThrow ==
    report # None =>
        LET me == thrower[report.thread]
        IN /\ me.should /\ ~me.passed => me.captured
           /\ me.captured /\ ~me.crossed => report.stack = Capture(report.thread, me.number)

\* A C++ exception is handled as if it had not been watched, and its report tells where it was thrown.
ThrowsAreWatched == ThrowsReachRuntime /\ StackIsOfTheThrow
=============================================================================
