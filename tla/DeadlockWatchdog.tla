-------------------------- MODULE DeadlockWatchdog --------------------------
(***************************************************************************)
(* The watchdog of the main thread                                         *)
(* (Recording/Monitors/GrowingCrashMonitor_Deadlock.m).  A monitor thread    *)
(* wakes up at an interval.  It puts an answer on the queue of the main      *)
(* thread, and if the answer was not run when it wakes up again it suspends  *)
(* all threads, writes a report of the main thread and ends the process.     *)
(*                                                                         *)
(* Time passes in ticks, and only while everybody waits: threads are         *)
(* scheduled as soon as they can run.  What happens at the same time happens *)
(* in any order.                                                           *)
(***************************************************************************)
EXTENDS Naturals, Sequences, FiniteSets

CONSTANTS
    Intervals,     \* values of g_watchdogInterval, 0 is idle
    IdleInterval,  \* kIdleInterval
    Durations,     \* how long a task of the application takes on the main thread
    Forever,       \* a task that does not return
    Toggles,       \* TRUE: the application may disable and enable the monitor
    MaxQueue,      \* bound: tasks that wait for the main thread
    MaxMonitors,   \* bound: monitors created
    MaxBusy        \* bound: time is not told apart beyond it

Monitors == 1 .. MaxMonitors
NoMonitor == 0

ASSUME DeadlockWatchdogAssumption ==
    /\ Intervals \subseteq Nat /\ IdleInterval \in Nat \ {0}
    /\ Durations \subseteq Nat \ {0} /\ Forever \notin Nat
    /\ Toggles \in BOOLEAN
    /\ MaxQueue \in Nat /\ MaxMonitors \in Nat \ {0} /\ MaxBusy \in Nat
    /\ \A i \in Intervals \cup {IdleInterval} : i <= MaxBusy

VARIABLES
    steady,      \* the application neither disables the monitor nor changes its interval
    queue,       \* blocks of the main queue
    task,        \* time left of the task the main thread runs, 0 if it waits
    interval,    \* g_watchdogInterval
    enabled,     \* g_isEnabled
    initialized, \* isInitialized
    mainKnown,   \* g_mainQueueThread was set
    monitor,     \* g_monitor
    pc,          \* label of each monitor thread
    left,        \* time left of its sleep
    slept,       \* sleepInterval
    check,       \* runWatchdogCheck
    awaiting,    \* awaitingResponse
    cancelled,   \* the thread was cancelled
    killed,      \* the monitor that ended the process
    busyFor,     \* history: how long the main thread has been busy without a break
    taskFor      \* history: how long it has been running its task
                 \*          (since the monitor was enabled)

mainVars == <<queue, task, mainKnown>>
settingVars == <<steady, interval, enabled, initialized, monitor, cancelled>>
monitorVars == <<pc, left, slept, check, awaiting>>
historyVars == <<busyFor, taskFor>>
vars == <<mainVars, settingVars, monitorVars, killed, historyVars>>

Task(d) == [kind |-> "task", time |-> d]
Answer(m) == [kind |-> "answer", monitor |-> m]
FindThread == [kind |-> "findThread"]

\* The application starts up on its main thread; the monitor is not enabled yet.
Init ==
    /\ steady \in BOOLEAN
    /\ queue = <<>> /\ task \in Durations \cup {Forever} /\ mainKnown = FALSE
    /\ interval \in Intervals /\ enabled = FALSE /\ initialized = FALSE
    /\ monitor = NoMonitor
    /\ pc = [m \in Monitors |-> "none"] /\ left = [m \in Monitors |-> 0]
    /\ slept = [m \in Monitors |-> 0] /\ check = [m \in Monitors |-> FALSE]
    /\ awaiting = [m \in Monitors |-> FALSE] /\ cancelled = [m \in Monitors |-> FALSE]
    /\ killed = NoMonitor
    /\ busyFor = 0 /\ taskFor = 0

Alive == killed = NoMonitor

(***************************************************************************)
(* The application.                                                        *)
(***************************************************************************)
\* Somebody dispatches a task to the main queue.
Post(t) ==
    /\ Alive /\ Cardinality({i \in DOMAIN queue : queue[i].kind = "task"}) < MaxQueue
    /\ queue' = Append(queue, Task(t))
    /\ UNCHANGED <<task, mainKnown, settingVars, monitorVars, killed, historyVars>>

\* Mutant: an answer is not noted.
Unanswered(a, m) == a

Answered(a, m) == [a EXCEPT ![m] = FALSE]

\* The main thread runs the next block of its queue.
RunBlock ==
    /\ Alive /\ task = 0 /\ queue # <<>>
    /\ queue' = Tail(queue)
    /\ taskFor' = 0
    /\ LET block == Head(queue) IN
         \/ /\ block.kind = "task" /\ task' = block.time
            /\ UNCHANGED <<mainKnown, awaiting>>
         \/ /\ block.kind = "answer" /\ awaiting' = Answered(awaiting, block.monitor)
            /\ UNCHANGED <<task, mainKnown>>
         \/ /\ block.kind = "findThread" /\ mainKnown' = TRUE
            /\ UNCHANGED <<task, awaiting>>
    /\ UNCHANGED <<settingVars, pc, left, slept, check, killed, busyFor>>

\* growingcrashcm_setDeadlockHandlerWatchdogInterval
SetInterval(i) ==
    /\ Alive /\ Toggles /\ ~steady /\ i # interval /\ interval' = i
    /\ UNCHANGED <<mainVars, steady, enabled, initialized, monitor, cancelled, monitorVars,
                   killed, historyVars>>

\* setEnabled(true): initialize, and a new monitor starts its thread.
Enable ==
    /\ Alive /\ ~enabled
    /\ \E m \in Monitors :
         /\ \A n \in Monitors : n < m <=> pc[n] # "none"
         /\ monitor' = m /\ pc' = [pc EXCEPT ![m] = "loop"]
    /\ enabled' = TRUE /\ initialized' = TRUE
    /\ queue' = IF initialized THEN queue ELSE Append(queue, FindThread)
    /\ taskFor' = 0
    /\ UNCHANGED <<task, mainKnown, steady, interval, cancelled, left, slept, check, awaiting,
                   killed, busyFor>>

\* setEnabled(false): the thread of the monitor is cancelled, and not waited for.
Disable ==
    /\ Alive /\ Toggles /\ ~steady /\ enabled
    /\ enabled' = FALSE /\ monitor' = NoMonitor
    /\ cancelled' = [cancelled EXCEPT ![monitor] = TRUE]
    /\ UNCHANGED <<mainVars, steady, interval, initialized, monitorVars, killed, historyVars>>

(***************************************************************************)
(* runMonitor                                                              *)
(***************************************************************************)
At(m, l) == Alive /\ pc[m] = l
Goto(m, l) == pc' = [pc EXCEPT ![m] = l]

\* The interval is read before the sleep.
FallAsleep(m) ==
    /\ At(m, "loop")
    /\ check' = [check EXCEPT ![m] = interval > 0]
    /\ slept' = [slept EXCEPT ![m] = IF interval > 0 THEN interval ELSE IdleInterval]
    /\ left' = [left EXCEPT ![m] = slept'[m]]
    /\ Goto(m, "sleep")
    /\ UNCHANGED <<mainVars, settingVars, awaiting, killed, historyVars>>

\* Mutant: the monitor goes on waiting for an answer.
WaitsOn(m) == IF awaiting[m] THEN "loop" ELSE "pulse"

Judged(m) == IF awaiting[m] THEN "deadlock" ELSE "pulse"

WakeUp(m) ==
    /\ At(m, "sleep") /\ left[m] = 0
    /\ Goto(m, CASE cancelled[m] -> "done"
                 [] ~cancelled[m] /\ ~check[m] -> "loop"
                 [] OTHER -> Judged(m))
    /\ UNCHANGED <<mainVars, settingVars, left, slept, check, awaiting, killed, historyVars>>

\* watchdogPulse: the flag is set, then the answer dispatched.
Pulse(m) ==
    /\ At(m, "pulse")
    /\ awaiting' = [awaiting EXCEPT ![m] = TRUE]
    /\ Goto(m, "dispatch")
    /\ UNCHANGED <<mainVars, settingVars, left, slept, check, killed, historyVars>>

Dispatch(m) ==
    /\ At(m, "dispatch")
    /\ queue' = Append(queue, Answer(m))
    /\ Goto(m, "loop")
    /\ UNCHANGED <<task, mainKnown, settingVars, left, slept, check, awaiting, killed,
                   historyVars>>

\* handleDeadlock: all threads are suspended, the report is written, abort.
HandleDeadlock(m) ==
    /\ At(m, "deadlock")
    /\ killed' = m
    /\ UNCHANGED <<mainVars, settingVars, monitorVars, historyVars>>

Run(m) == FallAsleep(m) \/ WakeUp(m) \/ Pulse(m) \/ Dispatch(m) \/ HandleDeadlock(m)

(***************************************************************************)
(* Time.                                                                   *)
(***************************************************************************)
Capped(n) == IF n < MaxBusy THEN n + 1 ELSE n

Waits(m) == pc[m] \in {"none", "done"} \/ (pc[m] = "sleep" /\ left[m] > 0)

Idle == task = 0

Tick ==
    /\ Alive
    /\ \A m \in Monitors : Waits(m)
    /\ task = 0 => queue = <<>>
    /\ task' = IF task \in {0, Forever} THEN task ELSE task - 1
    /\ left' = [m \in Monitors |-> IF left[m] > 0 THEN left[m] - 1 ELSE 0]
    /\ busyFor' = IF Idle THEN 0 ELSE Capped(busyFor)
    /\ taskFor' = IF Idle THEN 0 ELSE Capped(taskFor)
    /\ UNCHANGED <<queue, mainKnown, settingVars, pc, slept, check, awaiting, killed>>

\* The process ended.
Over == ~Alive /\ UNCHANGED vars

Next ==
    \/ \E t \in Durations \cup {Forever} : Post(t)
    \/ RunBlock \/ Enable \/ Disable \/ \E i \in Intervals : SetInterval(i)
    \/ \E m \in Monitors : Run(m)
    \/ Tick \/ Over

Spec == Init /\ [][Next]_vars

\* Time passes, and threads are scheduled.
Fairness ==
    /\ WF_vars(Tick) /\ WF_vars(RunBlock)
    /\ \A m \in Monitors : WF_vars(Run(m))

FairSpec == Spec /\ Fairness

(***************************************************************************)
(* Properties.                                                             *)
(***************************************************************************)
Blocks == {Task(t) : t \in Durations \cup {Forever}} \cup {Answer(m) : m \in Monitors}
            \cup {FindThread}
Labels == {"none", "loop", "sleep", "pulse", "dispatch", "deadlock", "done"}

\* Type invariant.
TypeOK ==
    /\ \A i \in DOMAIN queue : queue[i] \in Blocks
    /\ Len(queue) <= MaxQueue + MaxMonitors + 1
    /\ steady \in BOOLEAN
    /\ task \in Nat \cup {Forever} /\ mainKnown \in BOOLEAN
    /\ interval \in Intervals /\ enabled \in BOOLEAN /\ initialized \in BOOLEAN
    /\ monitor \in Monitors \cup {NoMonitor} /\ killed \in Monitors \cup {NoMonitor}
    /\ pc \in [Monitors -> Labels] /\ left \in [Monitors -> Nat] /\ slept \in [Monitors -> Nat]
    /\ check \in [Monitors -> BOOLEAN] /\ awaiting \in [Monitors -> BOOLEAN]
    /\ cancelled \in [Monitors -> BOOLEAN]
    /\ busyFor \in 0 .. MaxBusy /\ taskFor \in 0 .. MaxBusy

\* The process is ended only if the main thread was busy, without a break, for at least the
\* interval the monitor slept.
KillsOnlyIfBusy ==
    killed # NoMonitor => busyFor >= slept[killed]

\* While the monitor runs no task occupies the main thread for longer than twice the
\* interval: a pulse may just have been answered.
CaughtInTime == Alive /\ enabled => taskFor <= 2 * interval

\* The watchdog ends the process neither too early nor, under one interval that is not
\* changed, too late (runMonitor).
KillsInTime == KillsOnlyIfBusy /\ (steady /\ interval > 0 => CaughtInTime)

\* If the main thread hangs for good, and the monitor stays enabled with an interval, the
\* process is ended, whatever was set and toggled before.
HangIsCaught ==
    <>[](task = Forever /\ enabled /\ interval > 0) => <>(killed # NoMonitor)
=============================================================================
