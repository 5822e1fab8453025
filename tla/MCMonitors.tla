----------------------------- MODULE MCMonitors -----------------------------
(***************************************************************************)
(* What monitors watch and remember, for TLC: the main thread, throws, and    *)
(* objects that are deallocated.  They share no state, so that each behaviour *)
(* lets one of them go on.  Of the main thread one instance holds two           *)
(* settings: tasks of every length under one monitor that keeps its interval,   *)
(* and short or endless tasks under monitors that are disabled, replaced and    *)
(* given other intervals at any time.                                       *)
(***************************************************************************)
EXTENDS DeadlockWatchdog, TLC

CONSTANTS Threads, None,
          Images, Loaded, Pointer, Bound, Rebindable, InitialCapacity, MaxThrows,
          Addresses, Hash, Classes, Exceptions, MaxObjects

VARIABLES slot, pairs, capacity, moved, swap, toBind, bindStep, ready, thrower, cursor, thrown,
          installed, heap, objects, cache, last, worker, gone, crossed, told,
          setting       \* "throws", "zombies", or one of the main thread

Throws == INSTANCE ThrowCapture WITH report <- thrown
Zombies == INSTANCE ZombieTable WITH report <- told

\* What the pointers of images can lead to before the swap, and where stubs are bound.
ASSUME ImagesAssumption ==
    /\ IsFiniteSet(Images) /\ Loaded \subseteq Images
    /\ Pointer \in [Images -> {"runtime", "override", "stub"}]
    /\ Bound \in [Images -> {"runtime", "override"}]

throwVars == <<slot, pairs, capacity, moved, swap, toBind, bindStep, ready, thrower, cursor, thrown>>
zombieVars == <<installed, heap, objects, cache, last, worker, gone, crossed, told>>

IdleOrTwo == {0, 2}

\* Shorter than, equal to and longer than the interval.
SomeDurations == {1, 2, 3}

\* The program calls the override, a library is bound at its first throw, and a
\* plug-in that is loaded later calls the override.
AppAndLib == {"app", "lib"}
SomeImages == AppAndLib \cup {"plug"}
SomePointers == "app" :> "override" @@ "lib" :> "stub" @@ "plug" :> "override"
ToOverride == [i \in SomeImages |-> "override"]

\* Two addresses of one slot.
OneSlot == [a \in {1, 2} |-> "slot"]

NoTask == [intervals |-> {2}, longest |-> 0, tasks |-> 0]
Limits ==
    [timing  |-> [intervals |-> {2}, longest |-> 3, tasks |-> 2],
     toggles |-> [intervals |-> {0, 2}, longest |-> 1, tasks |-> 1],
     throws |-> NoTask, zombies |-> NoTask]

Limit == Limits[setting]

QueuedTasks == {i \in DOMAIN queue : queue[i].kind = "task"}

Limited ==
    /\ interval \in Limit.intervals
    /\ task \in (0 .. Limit.longest) \cup {Forever}
    /\ Cardinality(QueuedTasks) <= Limit.tasks
    /\ \A i \in QueuedTasks : queue[i].time \in (1 .. Limit.longest) \cup {Forever}

MCInit == /\ Init /\ Throws!Init /\ Zombies!Init
          /\ setting \in DOMAIN Limits /\ Limited /\ steady = (setting = "timing")

\* Every throw and object there may be has been, or the process ended.
Done == setting \in {"throws", "zombies"} /\ UNCHANGED <<vars, throwVars, zombieVars>>

MCNext ==
    /\ UNCHANGED setting
    /\ \/ setting \in {"timing", "toggles"} /\ Next /\ Limited' /\ UNCHANGED <<throwVars, zombieVars>>
       \/ setting = "throws" /\ Throws!Next /\ UNCHANGED <<vars, zombieVars>>
       \/ setting = "zombies" /\ Zombies!Next /\ UNCHANGED <<vars, throwVars>>
       \/ Done

MCSpec == MCInit /\ [][MCNext]_<<vars, throwVars, zombieVars, setting>> /\ Fairness

\* Every throw that can be seen is, and its stack is the one of the throw
\* (GrowingCxaThrowSwapper.c, GrowingCrashMonitor_CPPException.cpp).
ThrowsAreWatched == Throws!ThrowsAreWatched

\* What is told of a deallocated object was true of one (GrowingCrashMonitor_Zombie.c).
ZombiesAreTold == Zombies!ZombiesAreTold
=============================================================================
