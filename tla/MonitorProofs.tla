---------------------------- MODULE MonitorProofs ----------------------------
(***************************************************************************)
(* Proofs about what monitors watch and remember: the main thread, throws,  *)
(* and objects that are deallocated.  Their states have nothing in common.  *)
(*                                                                         *)
(* The watchdog ends the process neither too early nor too late, for any    *)
(* interval, any tasks and any number of monitors.  Too early: while a       *)
(* monitor awaits an answer that answer is in the queue (AnswerInv), so the  *)
(* main thread is busy whenever time passes, and has been for as long as the *)
(* monitor sleeps (BusyInv).  Too late: the task that the main thread runs   *)
(* began after the last answer, and so at most one interval before the pulse *)
(* that was not answered (TaskInv).                                         *)
(*                                                                         *)
(* Every throw reaches the runtime, for any images and threads: an image is  *)
(* in the table of originals before its pointer leads to the decorator       *)
(* (BindInv), so that whoever is in there finds where to go on (RuntimeInv). *)
(*                                                                         *)
(* What is told of a zombie is of one object, for any addresses and any      *)
(* hash: a slot in which no two threads met was written by the one thread    *)
(* that is in it (SlotInv), and a deallocation is of one thread (ObjectInv). *)
(***************************************************************************)
EXTENDS MCMonitors, FiniteSetTheorems, SequenceTheorems, WellFoundedInduction, TLAPS

-----------------------------------------------------------------------------
(* The main thread (DeadlockWatchdog).                                      *)

InQueue(b) == \E i \in 1 .. Len(queue) : queue[i] = b

TypeInv ==
    /\ queue \in Seq(Blocks) /\ task \in Nat \cup {Forever}
    /\ steady \in BOOLEAN /\ interval \in Intervals /\ enabled \in BOOLEAN
    /\ monitor \in Monitors \cup {NoMonitor} /\ killed \in Monitors \cup {NoMonitor}
    /\ pc \in [Monitors -> Labels] /\ left \in [Monitors -> Nat] /\ slept \in [Monitors -> Nat]
    /\ check \in [Monitors -> BOOLEAN] /\ awaiting \in [Monitors -> BOOLEAN]
    /\ cancelled \in [Monitors -> BOOLEAN]
    /\ busyFor \in Nat /\ taskFor \in Nat

AnswerInv(m) == awaiting[m] => InQueue(Answer(m)) \/ pc[m] = "dispatch"

BusyInv(m) ==
    /\ left[m] <= slept[m] /\ slept[m] <= MaxBusy
    /\ pc[m] = "sleep" /\ awaiting[m] => busyFor >= slept[m] - left[m]
    /\ pc[m] = "deadlock" \/ killed = m => busyFor >= slept[m]

TaskInv(m) ==
    /\ ~cancelled[m]
    /\ pc[m] \notin {"none", "done"}
    /\ pc[m] \in {"loop", "pulse", "dispatch"} => taskFor <= interval
    /\ pc[m] \in {"loop", "dispatch"} /\ ~awaiting[m] => taskFor = 0
    /\ pc[m] = "sleep" =>
         /\ check[m] /\ slept[m] = interval /\ left[m] <= slept[m]
         /\ ~awaiting[m] => taskFor <= slept[m] - left[m]
         /\ taskFor <= interval + (slept[m] - left[m])
    /\ pc[m] = "deadlock" => taskFor <= 2 * interval

Inv ==
    /\ TypeInv
    /\ \A m \in Monitors : AnswerInv(m)
    /\ \A m \in Monitors : BusyInv(m)
    /\ steady /\ interval > 0 =>
         /\ \A m \in Monitors : ~cancelled[m]
         /\ enabled => monitor \in Monitors /\ TaskInv(monitor)

LEMMA TypeInit == Init => TypeInv
  <1> SUFFICES ASSUME Init PROVE TypeInv
    OBVIOUS
  <1>1. queue \in Seq(Blocks) /\ task \in Nat \cup {Forever}
    BY DeadlockWatchdogAssumption DEF Init
  <1>2. pc \in [Monitors -> Labels]
    BY DEF Init, Labels
  <1> QED
    BY <1>1, <1>2 DEF Init, TypeInv

LEMMA KindsOfBlocks ==
    ASSUME NEW b \in Blocks
    PROVE  /\ b.kind = "task" => b.time \in Durations \cup {Forever}
           /\ b.kind = "answer" => b.monitor \in Monitors
           /\ \A m \in Monitors : b = Answer(m) => b.kind = "answer" /\ b.monitor = m
BY DEF Blocks, Task, Answer, FindThread

LEMMA SomeBlocks ==
    /\ FindThread \in Blocks
    /\ \A m \in Monitors : Answer(m) \in Blocks
    /\ \A t \in Durations \cup {Forever} : Task(t) \in Blocks
BY DEF Blocks

LEMMA HeadOfQueue ==
    ASSUME TypeInv, queue # <<>>
    PROVE  Head(queue) \in Blocks /\ Tail(queue) \in Seq(Blocks)
BY DEF TypeInv

LEMMA Gone ==
    ASSUME TypeInv, NEW m \in Monitors, NEW l \in Labels, Goto(m, l)
    PROVE  /\ pc' \in [Monitors -> Labels] /\ pc'[m] = l
           /\ \A n \in Monitors : n # m => pc'[n] = pc[n]
BY DEF Goto, TypeInv

LEMMA TypeStep == TypeInv /\ [Next]_vars => TypeInv'
  <1> SUFFICES ASSUME TypeInv, [Next]_vars PROVE TypeInv'
    OBVIOUS
  <1> USE DEF mainVars, settingVars, monitorVars, historyVars
  <1>1. ASSUME NEW t \in Durations \cup {Forever}, Post(t) PROVE TypeInv'
    BY <1>1, SomeBlocks DEF Post, TypeInv
  <1>2. ASSUME RunBlock PROVE TypeInv'
    <2>1. Head(queue) \in Blocks /\ queue' \in Seq(Blocks)
      BY <1>2, HeadOfQueue DEF RunBlock
    <2>2. task' \in Nat \cup {Forever}
      BY <1>2, <2>1, KindsOfBlocks, DeadlockWatchdogAssumption DEF RunBlock, TypeInv
    <2>3. awaiting' \in [Monitors -> BOOLEAN]
      BY <1>2, <2>1, KindsOfBlocks DEF RunBlock, TypeInv, Answered
    <2> QED
      BY <1>2, <2>1, <2>2, <2>3 DEF RunBlock, TypeInv
  <1>3. ASSUME Enable PROVE TypeInv'
    BY <1>3, SomeBlocks DEF Enable, TypeInv, Labels
  <1>4. ASSUME Disable PROVE TypeInv'
    BY <1>4 DEF Disable, TypeInv
  <1>5. ASSUME NEW i \in Intervals, SetInterval(i) PROVE TypeInv'
    BY <1>5 DEF SetInterval, TypeInv
  <1>6. ASSUME NEW m \in Monitors, FallAsleep(m) PROVE TypeInv'
    <2>1. pc' \in [Monitors -> Labels]
      BY <1>6, Gone DEF FallAsleep, Labels
    <2>2. slept' \in [Monitors -> Nat]
      BY <1>6, DeadlockWatchdogAssumption DEF FallAsleep, TypeInv
    <2>3. left' \in [Monitors -> Nat]
      BY <1>6, <2>2 DEF FallAsleep, TypeInv
    <2>4. check' \in [Monitors -> BOOLEAN]
      BY <1>6 DEF FallAsleep, TypeInv
    <2> QED
      BY <1>6, <2>1, <2>2, <2>3, <2>4 DEF FallAsleep, TypeInv
  <1>7. ASSUME NEW m \in Monitors, WakeUp(m) PROVE TypeInv'
    <2>1. pc' \in [Monitors -> Labels]
      BY <1>7, Gone DEF WakeUp, Judged, Labels
    <2> QED
      BY <1>7, <2>1 DEF WakeUp, TypeInv
  <1>8. ASSUME NEW m \in Monitors, Pulse(m) PROVE TypeInv'
    <2>1. pc' \in [Monitors -> Labels]
      BY <1>8, Gone DEF Pulse, Labels
    <2> QED
      BY <1>8, <2>1 DEF Pulse, TypeInv
  <1>9. ASSUME NEW m \in Monitors, Dispatch(m) PROVE TypeInv'
    <2>1. pc' \in [Monitors -> Labels]
      BY <1>9, Gone DEF Dispatch, Labels
    <2> QED
      BY <1>9, <2>1, SomeBlocks DEF Dispatch, TypeInv
  <1>10. ASSUME NEW m \in Monitors, HandleDeadlock(m) PROVE TypeInv'
    BY <1>10 DEF HandleDeadlock, TypeInv
  <1>11. ASSUME Tick PROVE TypeInv'
    <2>1. task' \in Nat \cup {Forever}
      BY <1>11, DeadlockWatchdogAssumption DEF Tick, TypeInv
    <2>2. left' \in [Monitors -> Nat]
      BY <1>11 DEF Tick, TypeInv
    <2>3. busyFor' \in Nat /\ taskFor' \in Nat
      BY <1>11 DEF Tick, TypeInv, Capped
    <2> QED
      BY <1>11, <2>1, <2>2, <2>3 DEF Tick, TypeInv
  <1>12. ASSUME UNCHANGED vars PROVE TypeInv'
    BY <1>12 DEF vars, TypeInv
  <1> QED
    BY <1>1, <1>2, <1>3, <1>4, <1>5, <1>6, <1>7, <1>8, <1>9, <1>10, <1>11, <1>12
       DEF Next, Run, Over

-----------------------------------------------------------------------------
(***************************************************************************)
(* The queue.                                                              *)
(***************************************************************************)
LEMMA AppendQueues ==
    ASSUME TypeInv, NEW b \in Blocks, queue' = Append(queue, b)
    PROVE  InQueue(b)' /\ \A c : InQueue(c) => InQueue(c)'
  <1>1. /\ Len(queue) \in Nat /\ Len(queue') = Len(queue) + 1
        /\ \A i \in 1 .. Len(queue) : queue'[i] = queue[i]
        /\ queue'[Len(queue) + 1] = b
    BY DEF TypeInv
  <1>2. InQueue(b)'
    BY <1>1 DEF InQueue
  <1>3. ASSUME NEW c, NEW i \in 1 .. Len(queue), queue[i] = c PROVE InQueue(c)'
    <2>1. i \in 1 .. Len(queue') /\ queue'[i] = c
      BY <1>1, <1>3
    <2> QED
      BY <2>1 DEF InQueue
  <1> QED
    BY <1>2, <1>3 DEF InQueue

LEMMA TailQueues ==
    ASSUME TypeInv, queue # <<>>, queue' = Tail(queue), NEW c, c # Head(queue)
    PROVE  InQueue(c) => InQueue(c)'
  <1> SUFFICES ASSUME NEW i \in 1 .. Len(queue), queue[i] = c PROVE InQueue(c)'
    BY DEF InQueue
  <1>1. i # 1
    BY DEF TypeInv
  <1>2. i - 1 \in 1 .. Len(queue') /\ queue'[i - 1] = c
    BY <1>1 DEF TypeInv
  <1> QED
    BY <1>2 DEF InQueue

LEMMA EmptyQueue ==
    ASSUME queue = <<>>
    PROVE  \A c : ~InQueue(c)
  <1>1. Len(queue) = 0
    OBVIOUS
  <1> QED
    BY <1>1 DEF InQueue

\* A step after which every answer that was in the queue still is.
LEMMA AnswersStay ==
    ASSUME NEW m \in Monitors, AnswerInv(m), InQueue(Answer(m)) => InQueue(Answer(m))',
           awaiting'[m] => awaiting[m], pc[m] = "dispatch" => pc'[m] = "dispatch"
    PROVE  AnswerInv(m)'
BY DEF AnswerInv

\* A step that leaves the monitor m, its sleep and the time alone.
LEMMA BusyStays ==
    ASSUME NEW m \in Monitors, BusyInv(m), busyFor' = busyFor,
           pc'[m] = pc[m], left'[m] = left[m], slept'[m] = slept[m],
           awaiting'[m] => awaiting[m], killed' = killed
    PROVE  BusyInv(m)'
BY DEF BusyInv

LEMMA TaskStays ==
    ASSUME TypeInv, NEW m \in Monitors, TaskInv(m),
           interval' = interval, cancelled'[m] = cancelled[m],
           pc'[m] = pc[m], left'[m] = left[m], slept'[m] = slept[m], check'[m] = check[m],
           \/ taskFor' = taskFor /\ awaiting'[m] = awaiting[m]
           \/ taskFor' = 0
    PROVE  TaskInv(m)'
  <1>1. interval \in Nat /\ left[m] \in Nat /\ slept[m] \in Nat
    BY DeadlockWatchdogAssumption DEF TypeInv
  <1> QED
    BY <1>1 DEF TaskInv

SteadyInv ==
    steady /\ interval > 0 =>
      /\ \A m \in Monitors : ~cancelled[m]
      /\ enabled => monitor \in Monitors /\ TaskInv(monitor)

MonitorInv(m) == AnswerInv(m) /\ BusyInv(m)

LEMMA StepPost ==
    ASSUME Inv, NEW t \in Durations \cup {Forever}, Post(t)
    PROVE  SteadyInv' /\ \A m \in Monitors : MonitorInv(m)'
  <1> USE DEF mainVars, settingVars, monitorVars, historyVars
  <1>1. ASSUME NEW m \in Monitors PROVE MonitorInv(m)'
    <2>1. InQueue(Answer(m)) => InQueue(Answer(m))'
      BY AppendQueues, SomeBlocks DEF Post, Inv
    <2> QED
      BY <2>1, AnswersStay, BusyStays DEF Post, Inv, MonitorInv
  <1>2. SteadyInv'
    BY TaskStays DEF Post, Inv, SteadyInv
  <1> QED
    BY <1>1, <1>2

LEMMA StepRunBlock ==
    ASSUME Inv, RunBlock
    PROVE  SteadyInv' /\ \A m \in Monitors : MonitorInv(m)'
  <1> USE DEF mainVars, settingVars, monitorVars, historyVars
  <1>1. Head(queue) \in Blocks
    BY HeadOfQueue DEF RunBlock, Inv
  <1>2. \A m \in Monitors : awaiting'[m] => awaiting[m]
    BY <1>1, KindsOfBlocks DEF RunBlock, Inv, TypeInv, Answered
  <1>3. ASSUME NEW m \in Monitors, Head(queue) = Answer(m) PROVE ~awaiting'[m]
    <2>1. Head(queue).kind = "answer" /\ Head(queue).monitor = m
      BY <1>1, <1>3, KindsOfBlocks
    <2> QED
      BY <2>1 DEF RunBlock, Inv, TypeInv, Answered
  <1>4. ASSUME NEW m \in Monitors PROVE MonitorInv(m)'
    <2>1. AnswerInv(m)'
      <3>1. CASE Head(queue) = Answer(m)
        BY <1>3, <3>1 DEF AnswerInv
      <3>2. CASE Head(queue) # Answer(m)
        BY <1>2, <3>2, TailQueues, AnswersStay DEF RunBlock, Inv
      <3> QED
        BY <3>1, <3>2
    <2>2. BusyInv(m)'
      BY <1>2, BusyStays DEF RunBlock, Inv
    <2> QED
      BY <2>1, <2>2 DEF MonitorInv
  <1>5. SteadyInv'
    <2>1. /\ UNCHANGED <<steady, interval, enabled, monitor, cancelled, pc, left, slept, check>>
          /\ taskFor' = 0
      BY DEF RunBlock
    <2>2. ASSUME NEW m \in Monitors, TaskInv(m) PROVE TaskInv(m)'
      BY <2>1, <2>2, TaskStays DEF Inv
    <2> QED
      BY <2>1, <2>2 DEF Inv, SteadyInv
  <1> QED
    BY <1>4, <1>5

LEMMA StepSettings ==
    ASSUME Inv, NEW i \in Intervals, Disable \/ SetInterval(i)
    PROVE  SteadyInv' /\ \A m \in Monitors : MonitorInv(m)'
  <1> USE DEF mainVars, settingVars, monitorVars, historyVars
  <1>1. UNCHANGED <<queue, busyFor, pc, left, slept, awaiting, killed, steady>> /\ ~steady
    BY DEF Disable, SetInterval
  <1>2. ASSUME NEW m \in Monitors PROVE MonitorInv(m)'
    <2>1. InQueue(Answer(m)) => InQueue(Answer(m))'
      BY <1>1 DEF InQueue
    <2> QED
      BY <1>1, <2>1, AnswersStay, BusyStays DEF Inv, MonitorInv
  <1> QED
    BY <1>1, <1>2 DEF SteadyInv

LEMMA StepEnable ==
    ASSUME Inv, Enable
    PROVE  SteadyInv' /\ \A m \in Monitors : MonitorInv(m)'
  <1> USE DEF mainVars, settingVars, monitorVars, historyVars
  <1>1. PICK n \in Monitors :
          pc[n] = "none" /\ monitor' = n /\ pc' = [pc EXCEPT ![n] = "loop"]
    <2>1. PICK n \in Monitors :
            /\ \A m \in Monitors : m < n <=> pc[m] # "none"
            /\ monitor' = n /\ pc' = [pc EXCEPT ![n] = "loop"]
      BY DEF Enable
    <2>2. n \in Nat /\ (n < n <=> pc[n] # "none")
      BY <2>1, DeadlockWatchdogAssumption DEF Monitors
    <2>3. pc[n] = "none"
      BY <2>2
    <2>4. pc[n] = "none" /\ monitor' = n /\ pc' = [pc EXCEPT ![n] = "loop"]
      BY <2>1, <2>3
    <2> QED
      BY <2>4
  <1>2. /\ pc'[n] = "loop" /\ \A m \in Monitors : m # n => pc'[m] = pc[m]
        /\ UNCHANGED <<steady, interval, cancelled, left, slept, check, awaiting, killed, busyFor>>
        /\ taskFor' = 0
    BY <1>1 DEF Enable, Inv, TypeInv
  <1>3. \A m \in Monitors : InQueue(Answer(m)) => InQueue(Answer(m))'
    <2>1. CASE queue' = queue
      BY <2>1 DEF InQueue
    <2>2. CASE queue' = Append(queue, FindThread)
      BY <2>2, AppendQueues, SomeBlocks DEF Inv
    <2> QED
      BY <2>1, <2>2 DEF Enable
  <1>4. ASSUME NEW m \in Monitors PROVE MonitorInv(m)'
    <2>1. AnswerInv(m)'
      BY <1>1, <1>2, <1>3, AnswersStay DEF Inv
    <2>2. BusyInv(m)'
      BY <1>1, <1>2 DEF Inv, BusyInv
    <2> QED
      BY <2>1, <2>2 DEF MonitorInv
  <1>5. SteadyInv'
    <2>1. interval \in Nat
      BY DeadlockWatchdogAssumption DEF Inv, TypeInv
    <2>2. SUFFICES ASSUME steady, interval > 0
                   PROVE  (\A m \in Monitors : ~cancelled[m]) /\ TaskInv(n)'
      BY <1>1, <1>2 DEF SteadyInv
    <2>3. \A m \in Monitors : ~cancelled[m]
      BY <2>2 DEF Inv
    <2> QED
      BY <1>2, <2>1, <2>3 DEF TaskInv
  <1> QED
    BY <1>4, <1>5

LEMMA StepFallAsleep ==
    ASSUME Inv, NEW n \in Monitors, FallAsleep(n)
    PROVE  SteadyInv' /\ \A m \in Monitors : MonitorInv(m)'
  <1> USE DEF mainVars, settingVars, monitorVars, historyVars
  <1> DEFINE d == IF interval > 0 THEN interval ELSE IdleInterval
  <1>1. interval \in Nat /\ d \in Nat /\ d <= MaxBusy
    BY DeadlockWatchdogAssumption DEF Inv, TypeInv
  <1>2. /\ pc[n] = "loop" /\ pc'[n] = "sleep" /\ slept'[n] = d /\ left'[n] = d
        /\ interval > 0 => check'[n]
        /\ UNCHANGED <<queue, task, steady, interval, enabled, monitor, cancelled, awaiting,
                       killed, busyFor, taskFor>> /\ Alive
    BY Gone DEF FallAsleep, At, Inv, TypeInv, Labels
  <1>3. \A m \in Monitors : m # n => /\ pc'[m] = pc[m] /\ slept'[m] = slept[m]
                                     /\ left'[m] = left[m] /\ check'[m] = check[m]
    BY DEF FallAsleep, Goto, Inv, TypeInv
  <1> HIDE DEF d
  <1>4. ASSUME NEW m \in Monitors PROVE MonitorInv(m)'
    <2>1. AnswerInv(m)'
      BY <1>2, <1>3 DEF Inv, AnswerInv, InQueue
    <2>2. BusyInv(m)'
      <3>1. CASE m = n
        BY <1>1, <1>2, <3>1, DeadlockWatchdogAssumption
           DEF BusyInv, Inv, TypeInv, Alive, NoMonitor, Monitors
      <3>2. CASE m # n
        BY <1>2, <1>3, <3>2, BusyStays DEF Inv
      <3> QED
        BY <3>1, <3>2
    <2> QED
      BY <2>1, <2>2 DEF MonitorInv
  <1>5. SteadyInv'
    <2> SUFFICES ASSUME steady, interval > 0, enabled
                 PROVE  monitor \in Monitors /\ TaskInv(monitor)'
      BY <1>2 DEF Inv, SteadyInv
    <2>1. monitor \in Monitors /\ TaskInv(monitor) /\ interval' = interval /\ monitor' = monitor
      BY <1>2 DEF Inv
    <2>2. CASE monitor = n
      <3>1. d = interval /\ taskFor \in Nat
        BY DEF d, Inv, TypeInv
      <3>2. TaskInv(n)'
        <4>1. check'[n] /\ slept'[n] = interval /\ left'[n] = interval /\ ~cancelled'[n]
          BY <1>2, <2>1, <2>2, <3>1 DEF TaskInv
        <4>2. taskFor <= interval /\ (~awaiting[n] => taskFor = 0)
          BY <1>2, <2>1, <2>2 DEF TaskInv
        <4> QED
          BY <1>1, <1>2, <3>1, <4>1, <4>2 DEF TaskInv
      <3> QED
        BY <2>1, <2>2, <3>2
    <2>3. CASE monitor # n
      <3>1. TaskInv(monitor)'
        BY <1>2, <1>3, <2>1, <2>3, TaskStays DEF Inv
      <3> QED
        BY <2>1, <3>1
    <2> QED
      BY <1>2, <2>1, <2>2, <2>3
  <1> QED
    BY <1>4, <1>5

LEMMA StepWakeUp ==
    ASSUME Inv, NEW n \in Monitors, WakeUp(n)
    PROVE  SteadyInv' /\ \A m \in Monitors : MonitorInv(m)'
  <1> USE DEF mainVars, settingVars, monitorVars, historyVars
  <1> DEFINE l == CASE cancelled[n] -> "done"
                    [] ~cancelled[n] /\ ~check[n] -> "loop"
                    [] OTHER -> Judged(n)
  <1>1. /\ pc[n] = "sleep" /\ left[n] = 0 /\ Goto(n, l) /\ Alive
        /\ UNCHANGED <<queue, task, steady, interval, enabled, monitor, cancelled, left, slept,
                       check, awaiting, killed, busyFor, taskFor>>
    BY DEF WakeUp, At
  <1>2. /\ l \in {"done", "loop", "pulse", "deadlock"}
        /\ l = "deadlock" => awaiting[n]
        /\ ~cancelled[n] /\ check[n] => l = Judged(n)
    BY DEF Judged
  <1> HIDE DEF l
  <1>3. pc'[n] = l /\ \A m \in Monitors : m # n => pc'[m] = pc[m]
    BY <1>1, <1>2, Gone DEF Inv, Labels
  <1>4. ASSUME NEW m \in Monitors PROVE MonitorInv(m)'
    <2>1. AnswerInv(m)'
      BY <1>1, <1>3 DEF Inv, AnswerInv, InQueue
    <2>2. BusyInv(m)'
      <3>1. CASE m = n
        <4>1. left[n] = 0 /\ slept[n] \in Nat /\ slept[n] - left[n] = slept[n]
          BY <1>1 DEF Inv, TypeInv
        <4> QED
          BY <1>1, <1>2, <1>3, <3>1, <4>1 DEF BusyInv, Inv
      <3>2. CASE m # n
        BY <1>1, <1>3, <3>2, BusyStays DEF Inv
      <3> QED
        BY <3>1, <3>2
    <2> QED
      BY <2>1, <2>2 DEF MonitorInv
  <1>5. SteadyInv'
    <2> SUFFICES ASSUME steady, interval > 0, enabled
                 PROVE  monitor \in Monitors /\ TaskInv(monitor)'
      BY <1>1 DEF Inv, SteadyInv
    <2>1. monitor \in Monitors /\ TaskInv(monitor)
      BY DEF Inv
    <2>2. CASE monitor = n
      <3>1. /\ slept[n] = interval /\ ~cancelled[n] /\ check[n]
            /\ slept[n] - left[n] = interval /\ interval \in Nat /\ taskFor \in Nat
        BY <1>1, <2>1, <2>2, DeadlockWatchdogAssumption DEF TaskInv, Inv, TypeInv
      <3>2. pc'[n] = Judged(n)
        BY <1>2, <1>3, <3>1
      <3> QED
        BY <1>1, <2>1, <2>2, <3>1, <3>2 DEF TaskInv, Judged
    <2>3. CASE monitor # n
      BY <1>1, <1>3, <2>1, <2>3, TaskStays DEF Inv
    <2> QED
      BY <2>1, <2>2, <2>3
  <1> QED
    BY <1>4, <1>5

LEMMA StepPulse ==
    ASSUME Inv, NEW n \in Monitors, Pulse(n) \/ Dispatch(n)
    PROVE  SteadyInv' /\ \A m \in Monitors : MonitorInv(m)'
  <1> USE DEF mainVars, settingVars, monitorVars, historyVars
  <1>1. /\ UNCHANGED <<task, steady, interval, enabled, monitor, cancelled, left, slept, check,
                       killed, busyFor, taskFor>> /\ Alive
        /\ \A m \in Monitors : m # n => pc'[m] = pc[m] /\ awaiting'[m] = awaiting[m]
        /\ \/ /\ pc[n] = "pulse" /\ pc'[n] = "dispatch" /\ awaiting'[n] = TRUE
              /\ queue' = queue
           \/ /\ pc[n] = "dispatch" /\ pc'[n] = "loop" /\ awaiting'[n] = awaiting[n]
              /\ queue' = Append(queue, Answer(n))
    BY Gone DEF Pulse, Dispatch, At, Inv, TypeInv, Labels
  <1>2. \A m \in Monitors : InQueue(Answer(m)) => InQueue(Answer(m))'
    <2>1. CASE queue' = queue
      BY <2>1 DEF InQueue
    <2>2. CASE queue' = Append(queue, Answer(n))
      BY <2>2, AppendQueues, SomeBlocks DEF Inv
    <2> QED
      BY <1>1, <2>1, <2>2
  <1>3. pc'[n] = "loop" => InQueue(Answer(n))'
    BY <1>1, AppendQueues, SomeBlocks DEF Inv
  <1>4. ASSUME NEW m \in Monitors PROVE MonitorInv(m)'
    <2>1. CASE m = n
      BY <1>1, <1>3, <2>1 DEF MonitorInv, AnswerInv, BusyInv, Inv, Alive
    <2>2. CASE m # n
      BY <1>1, <1>2, <2>2, BusyStays, AnswersStay DEF Inv, MonitorInv
    <2> QED
      BY <2>1, <2>2
  <1>5. SteadyInv'
    <2> SUFFICES ASSUME steady, interval > 0, enabled
                 PROVE  monitor \in Monitors /\ TaskInv(monitor)'
      BY <1>1 DEF Inv, SteadyInv
    <2>1. monitor \in Monitors /\ TaskInv(monitor)
      BY DEF Inv
    <2>2. CASE monitor = n
      BY <1>1, <2>1, <2>2 DEF TaskInv
    <2>3. CASE monitor # n
      BY <1>1, <2>1, <2>3, TaskStays DEF Inv
    <2> QED
      BY <2>1, <2>2, <2>3
  <1> QED
    BY <1>4, <1>5

LEMMA StepHandleDeadlock ==
    ASSUME Inv, NEW n \in Monitors, HandleDeadlock(n)
    PROVE  SteadyInv' /\ \A m \in Monitors : MonitorInv(m)'
  <1>1. /\ UNCHANGED <<mainVars, settingVars, monitorVars, historyVars>>
        /\ pc[n] = "deadlock" /\ killed' = n /\ killed = NoMonitor
    BY DEF HandleDeadlock, At, Alive
  <1>2. UNCHANGED <<queue, task, steady, interval, enabled, monitor, cancelled, pc, left, slept,
                    check, awaiting, busyFor, taskFor>>
    BY <1>1 DEF mainVars, settingVars, monitorVars, historyVars
  <1>3. ASSUME NEW m \in Monitors PROVE MonitorInv(m)'
    BY <1>1, <1>2 DEF MonitorInv, AnswerInv, BusyInv, InQueue, Inv
  <1>4. SteadyInv'
    BY <1>2, TaskStays DEF SteadyInv, Inv
  <1> QED
    BY <1>3, <1>4

LEMMA StepTick ==
    ASSUME Inv, Tick
    PROVE  SteadyInv' /\ \A m \in Monitors : MonitorInv(m)'
  <1>1. /\ UNCHANGED <<queue, steady, interval, enabled, monitor, cancelled, pc, slept, check,
                       awaiting, killed>>
        /\ killed = NoMonitor /\ (task = 0 => queue = <<>>)
        /\ \A m \in Monitors : pc[m] \in {"none", "done"} \/ (pc[m] = "sleep" /\ left[m] > 0)
        /\ \A m \in Monitors : left'[m] = IF left[m] > 0 THEN left[m] - 1 ELSE 0
        /\ busyFor' = (IF task = 0 THEN 0 ELSE Capped(busyFor))
        /\ taskFor' = (IF task = 0 THEN 0 ELSE Capped(taskFor))
    BY DEF Tick, settingVars, Waits, Alive, Idle
  <1>2. /\ busyFor \in Nat /\ taskFor \in Nat /\ MaxBusy \in Nat /\ interval \in Nat
        /\ \A m \in Monitors : left[m] \in Nat /\ slept[m] \in Nat
    BY DeadlockWatchdogAssumption DEF Inv, TypeInv
  <1>3. ASSUME NEW m \in Monitors PROVE MonitorInv(m)'
    <2>1. AnswerInv(m)'
      BY <1>1 DEF AnswerInv, InQueue, Inv
    <2>2. pc[m] = "sleep" /\ awaiting[m] => task # 0
      BY <1>1, EmptyQueue DEF AnswerInv, Inv
    <2>3. BusyInv(m)'
      <3>1. pc[m] # "deadlock" /\ killed # m
        BY <1>1 DEF NoMonitor, Monitors
      <3>2. left'[m] <= slept'[m] /\ slept'[m] <= MaxBusy
        BY <1>1, <1>2 DEF BusyInv, Inv
      <3>3. ASSUME pc[m] = "sleep", awaiting[m]
            PROVE  busyFor' >= slept[m] - left'[m]
        <4>1. /\ left[m] > 0 /\ left'[m] = left[m] - 1 /\ busyFor' = Capped(busyFor)
              /\ busyFor >= slept[m] - left[m] /\ slept[m] <= MaxBusy
              /\ left[m] <= slept[m]
          BY <1>1, <2>2, <3>3 DEF BusyInv, Inv
        <4> QED
          BY <1>2, <4>1 DEF Capped
      <3> QED
        BY <1>1, <3>1, <3>2, <3>3 DEF BusyInv
    <2> QED
      BY <2>1, <2>3 DEF MonitorInv
  <1>4. SteadyInv'
    <2> SUFFICES ASSUME steady, interval > 0, enabled
                 PROVE  monitor \in Monitors /\ TaskInv(monitor)'
      BY <1>1 DEF Inv, SteadyInv
    <2>1. monitor \in Monitors /\ TaskInv(monitor)
      BY DEF Inv
    <2> DEFINE m == monitor
    <2>2. /\ pc[m] = "sleep" /\ left[m] > 0 /\ left'[m] = left[m] - 1
          /\ ~cancelled[m] /\ check[m] /\ slept[m] = interval /\ left[m] <= slept[m]
          /\ ~awaiting[m] => taskFor <= slept[m] - left[m]
          /\ taskFor <= interval + (slept[m] - left[m])
      BY <1>1, <2>1 DEF TaskInv
    <2>3. taskFor' \in Nat /\ taskFor' <= taskFor + 1
      BY <1>1, <1>2 DEF Capped
    <2>4. left[m] \in Nat /\ slept[m] \in Nat /\ interval \in Nat /\ taskFor \in Nat
      BY <1>2, <2>1
    <2>5. /\ left'[m] <= slept[m]
          /\ ~awaiting[m] => taskFor' <= slept[m] - left'[m]
          /\ taskFor' <= interval + (slept[m] - left'[m])
      BY <2>2, <2>3, <2>4
    <2>6. /\ monitor' = monitor /\ pc' = pc /\ check' = check /\ awaiting' = awaiting
          /\ cancelled' = cancelled /\ slept' = slept /\ interval' = interval
      BY <1>1
    <2> QED
      BY <2>1, <2>2, <2>5, <2>6 DEF TaskInv
  <1> QED
    BY <1>3, <1>4

LEMMA InvInit == Init => Inv
  <1> SUFFICES ASSUME Init PROVE Inv
    OBVIOUS
  <1>1. ASSUME NEW m \in Monitors PROVE AnswerInv(m) /\ BusyInv(m)
    BY DeadlockWatchdogAssumption DEF Init, AnswerInv, BusyInv, NoMonitor, Monitors
  <1> QED
    BY <1>1, TypeInit DEF Inv, Init

LEMMA InvStep == Inv /\ [Next]_vars => Inv'
  <1> SUFFICES ASSUME Inv, [Next]_vars PROVE Inv'
    OBVIOUS
  <1>1. TypeInv'
    BY TypeStep DEF Inv
  <1> DEFINE Kept == SteadyInv' /\ \A m \in Monitors : MonitorInv(m)'
  <1>2. ASSUME NEW t \in Durations \cup {Forever}, Post(t) PROVE Kept
    BY <1>2, StepPost
  <1>3. ASSUME RunBlock \/ Enable \/ Tick PROVE Kept
    BY <1>3, StepRunBlock, StepEnable, StepTick
  <1>4. ASSUME Disable PROVE Kept
    <2>1. interval \in Intervals
      BY DEF Inv, TypeInv
    <2> QED
      BY <1>4, <2>1, StepSettings
  <1>5. ASSUME NEW i \in Intervals, SetInterval(i) PROVE Kept
    BY <1>5, StepSettings
  <1>6. ASSUME NEW m \in Monitors, Run(m) PROVE Kept
    BY <1>6, StepFallAsleep, StepWakeUp, StepPulse, StepHandleDeadlock DEF Run
  <1>7. ASSUME UNCHANGED vars PROVE Kept
    <2>1. UNCHANGED <<queue, task, steady, interval, enabled, monitor, cancelled, pc, left,
                      slept, check, awaiting, killed, busyFor, taskFor>>
      BY <1>7 DEF vars, mainVars, settingVars, monitorVars, historyVars
    <2>2. ASSUME NEW m \in Monitors PROVE MonitorInv(m)'
      BY <2>1 DEF MonitorInv, AnswerInv, BusyInv, InQueue, Inv
    <2>3. SteadyInv'
      BY <2>1, TaskStays DEF SteadyInv, Inv
    <2> QED
      BY <2>2, <2>3
  <1>8. Kept
    BY <1>2, <1>3, <1>4, <1>5, <1>6, <1>7 DEF Next, Over
  <1> QED
    BY <1>1, <1>8 DEF Inv, SteadyInv, MonitorInv

\* The watchdog ends a process only after its main thread was busy, without a break, for the
\* interval that the monitor slept, whatever was set, toggled and queued meanwhile; and under
\* an interval that is not changed no task occupies the main thread for more than two
\* (runMonitor, watchdogPulse, watchdogAnswer).
THEOREM WatchdogIsInTime == Spec => []KillsInTime
  <1>1. Inv => KillsInTime
    <2> SUFFICES ASSUME Inv PROVE KillsInTime
      OBVIOUS
    <2>1. KillsOnlyIfBusy
      BY DEF Inv, BusyInv, TypeInv, KillsOnlyIfBusy
    <2>2. ASSUME steady, interval > 0, Alive, enabled PROVE taskFor <= 2 * interval
      <3> DEFINE m == monitor
      <3>1. m \in Monitors /\ TaskInv(m)
        BY <2>2 DEF Inv
      <3>2. /\ interval \in Nat /\ taskFor \in Nat /\ left[m] \in Nat /\ slept[m] \in Nat
            /\ pc[m] \in Labels
        BY <3>1, DeadlockWatchdogAssumption DEF Inv, TypeInv
      <3> QED
        BY <3>1, <3>2 DEF TaskInv, Labels
    <2> QED
      BY <2>1, <2>2 DEF KillsInTime, CaughtInTime
  <1> QED
    BY <1>1, InvInit, InvStep, PTL DEF Spec

-----------------------------------------------------------------------------
(* Throws (ThrowCapture).                                                   *)

\* What a pointer to __cxa_throw leads to, and where a thread can be.
Targets == {"runtime", "override", "stub", "decorator"}
Places == Targets \cup {"running", "capturing", "scanning", "returned"}

ThrowerShape(t) ==
    LET me == thrower[t]
    IN /\ me = [at |-> me.at, image |-> me.image, number |-> me.number, then |-> me.then,
                sees |-> me.sees, captured |-> me.captured, should |-> me.should,
                passed |-> me.passed, crossed |-> me.crossed]
       /\ me.at \in Places /\ me.then \in {None, "scanning", "runtime"} /\ me.sees \in Nat

ThrowShape ==
    /\ slot \in [Images -> Targets]
    /\ pairs \in Seq([image : Images, function : Targets])
    /\ moved \in Nat /\ toBind \in Seq(Images) /\ ready \subseteq Images
    /\ bindStep \in {"pair", "pointer"}
    /\ thrower = [t \in Threads |-> thrower[t]] /\ \A t \in Threads : ThrowerShape(t)

\* The table of originals has the image.
Known(i) == \E k \in DOMAIN pairs : pairs[k].image = i

\* An image is in the table before its pointer leads to the decorator.
BindInv ==
    /\ swap = "off" => toBind = <<>>
    /\ bindStep = "pointer" => toBind # <<>> /\ Head(toBind) \in Rebindable /\ Known(Head(toBind))
    /\ \A i \in Images : slot[i] = "decorator" => Known(i)

\* Whoever is in the decorator came from an image that is in the table.
InDecorator(t) ==
    \/ thrower[t].at \in {"decorator", "scanning"}
    \/ thrower[t].at = "capturing" /\ thrower[t].then = "scanning"

RuntimeInv(t) ==
    /\ InDecorator(t) => thrower[t].image \in Images /\ Known(thrower[t].image)
    /\ thrower[t].at = "stub" => thrower[t].image \in Images
    /\ thrower[t].at = "capturing" => thrower[t].then \in {"scanning", "runtime"}
    /\ thrower[t].sees <= moved
    /\ thrower[t].at = "returned" => thrower[t].sees # moved

\* A throw that should be captured is, or is still on its way there.
CapturedInv(t) ==
    LET me == thrower[t]
    IN /\ me.at = "scanning" => me.captured
       /\ me.should /\ ~me.passed /\ ~me.captured =>
            \/ me.at \in {"decorator", "capturing"}
            \/ me.at = "override" /\ swap # "on"
            \/ me.at = "stub" /\ Bound[me.image] = "override" /\ swap # "on"

\* The cursor is of the throw that was captured last, and nobody else captures unless
\* the throw is marked.
CursorInv(t) ==
    LET me == thrower[t]
    IN ~me.crossed =>
        /\ me.captured \/ me.at = "capturing" =>
               \A u \in Threads \ {t} : thrower[u].at # "capturing"
        /\ me.captured /\ me.at # "capturing" => cursor = Throws!Capture(t, me.number)

ReportedInv ==
    thrown # None =>
        /\ thrown.thread \in Threads /\ thrower[thrown.thread].at = "runtime"
        /\ thrown.stack = cursor

ThrowInv ==
    /\ ThrowShape /\ BindInv /\ ReportedInv
    /\ \A t \in Threads : RuntimeInv(t) /\ CapturedInv(t) /\ CursorInv(t)

\* A set of numbers that is not empty has a first one.
LEMMA FirstOfSet ==
  ASSUME NEW S, S \subseteq Nat, S # {} PROVE \E k \in S : \A l \in S : k <= l
<1> DEFINE R == OpToRel(<, Nat)
<1>1. IsWellFoundedOn(R, Nat)
  BY NatLessThanWellFounded
<1>2. PICK k \in S : \A l \in S : ~(<<l, k>> \in R)
  <2> HIDE DEF R
  <2> QED
    BY <1>1, WFMin
<1>3. \A l \in S : ~(l < k)
  BY <1>2 DEF OpToRel
<1> QED
  BY <1>3

LEMMA ThrowInvInit == Throws!Init => ThrowInv
<1> SUFFICES ASSUME Throws!Init PROVE ThrowInv
  OBVIOUS
<1>1. ThrowShape
  <2>1. thrower = [t \in Threads |-> thrower[t]] /\ \A t \in Threads : ThrowerShape(t)
    BY DEF Throws!Init, ThrowerShape, Places
  <2>2. slot \in [Images -> Targets]
    BY ImagesAssumption DEF Throws!Init, Targets
  <2> QED
    BY <2>1, <2>2, ImagesAssumption DEF Throws!Init, ThrowShape
<1>2. BindInv /\ ReportedInv
  BY ImagesAssumption DEF Throws!Init, BindInv, ReportedInv
<1>3. \A t \in Threads : RuntimeInv(t) /\ CapturedInv(t) /\ CursorInv(t)
  BY DEF Throws!Init, RuntimeInv, InDecorator, CapturedInv, CursorInv
<1> QED
  BY <1>1, <1>2, <1>3 DEF ThrowInv

\* The steps of the swap leave the threads as they are.
Binding == UNCHANGED <<thrower, cursor, thrown>>

LEMMA PairsStay ==
  ASSUME pairs' = pairs, NEW i PROVE Known(i)' = Known(i)
BY DEF Known

LEMMA BindingStep ==
  ASSUME ThrowInv, Binding, moved' \in Nat, moved <= moved',
         swap' = "on" <=> swap = "on",
         \A i \in Images : Known(i) => Known(i)',
         (ThrowShape /\ BindInv)'
  PROVE  ThrowInv'
<1>1. ReportedInv'
  BY DEF Binding, ThrowInv, ReportedInv
<1>2. ASSUME NEW t \in Threads PROVE (RuntimeInv(t) /\ CapturedInv(t) /\ CursorInv(t))'
  <2>1. thrower' = thrower /\ cursor' = cursor /\ thrower[t].sees \in Nat /\ moved \in Nat
    BY DEF Binding, ThrowInv, ThrowShape, ThrowerShape
  <2>2. RuntimeInv(t)'
    BY <2>1 DEF ThrowInv, RuntimeInv, InDecorator
  <2>3. CapturedInv(t)'
    BY <2>1 DEF ThrowInv, CapturedInv
  <2>4. CursorInv(t)'
    BY <2>1 DEF ThrowInv, CursorInv
  <2> QED
    BY <2>2, <2>3, <2>4
<1> QED
  BY <1>1, <1>2 DEF ThrowInv

LEMMA ShapeStays ==
  ASSUME ThrowShape, Binding,
         slot' \in [Images -> Targets], pairs' \in Seq([image : Images, function : Targets]),
         moved' \in Nat, toBind' \in Seq(Images), ready' \subseteq Images,
         bindStep' \in {"pair", "pointer"}
  PROVE  ThrowShape'
BY DEF ThrowShape, Binding, ThrowerShape

LEMMA SameCount == ASSUME NEW S PROVE Throws!Cardinality(S) = Cardinality(S)
BY DEF Throws!Cardinality, Cardinality

LEMMA EnableSwapKeeps ==
  ASSUME ThrowInv, Throws!EnableSwap PROVE ThrowInv'
<1>1. /\ swap = "off" /\ swap' = "rebinding" /\ toBind' \in Throws!Orders(ready)
      /\ Binding /\ UNCHANGED <<slot, pairs, moved, bindStep, ready>>
  BY DEF Throws!EnableSwap, Binding
<1>2. ready \subseteq Images /\ IsFiniteSet(ready)
  BY FS_Subset, ImagesAssumption DEF ThrowInv, ThrowShape
<1>3. Cardinality(ready) \in Nat
  BY <1>2, FS_CardinalityType
<1>4. toBind' \in Seq(Images)
  BY <1>1, <1>2, <1>3, SameCount DEF Throws!Orders
<1>5. ThrowShape'
  BY <1>1, <1>2, <1>4, ShapeStays DEF ThrowInv, ThrowShape
<1>6. BindInv'
  BY <1>1 DEF ThrowInv, BindInv, Known
<1> QED
  BY <1>1, <1>5, <1>6, BindingStep, PairsStay DEF ThrowInv, ThrowShape

LEMMA LoadImageKeeps ==
  ASSUME ThrowInv, Throws!LoadImage PROVE ThrowInv'
<1>1. /\ toBind = <<>> /\ toBind' \in Seq(Images) /\ swap = "on"
      /\ Binding /\ UNCHANGED <<slot, pairs, moved, swap, bindStep, ready>>
  BY DEF Throws!LoadImage, Binding
<1>2. ThrowShape'
  BY <1>1, ShapeStays DEF ThrowInv, ThrowShape
<1>3. BindInv'
  BY <1>1 DEF ThrowInv, BindInv, Known
<1> QED
  BY <1>1, <1>2, <1>3, BindingStep, PairsStay DEF ThrowInv, ThrowShape

LEMMA HeadToBind ==
  ASSUME ThrowShape, toBind # <<>>
  PROVE  Head(toBind) \in Images /\ Tail(toBind) \in Seq(Images)
BY HeadTailProperties DEF ThrowShape

LEMMA SkipImageKeeps ==
  ASSUME ThrowInv, Throws!SkipImage PROVE ThrowInv'
<1>1. /\ toBind # <<>> /\ toBind' = Tail(toBind) /\ ready' = ready \cup {Head(toBind)}
      /\ Head(toBind) \notin Rebindable
      /\ Binding /\ UNCHANGED <<slot, pairs, moved, swap, bindStep>>
  BY DEF Throws!SkipImage, Binding
<1>2. Head(toBind) \in Images /\ Tail(toBind) \in Seq(Images)
  BY <1>1, HeadToBind DEF ThrowInv
<1>3. ThrowShape'
  BY <1>1, <1>2, ShapeStays DEF ThrowInv, ThrowShape
<1>4. BindInv'
  BY <1>1 DEF ThrowInv, BindInv, Known
<1> QED
  BY <1>1, <1>3, <1>4, BindingStep, PairsStay DEF ThrowInv, ThrowShape

LEMMA AddPairKeeps ==
  ASSUME ThrowInv, Throws!AddPair PROVE ThrowInv'
<1> DEFINE new == [image |-> Head(toBind), function |-> slot[Head(toBind)]]
<1>1. /\ toBind # <<>> /\ Head(toBind) \in Rebindable /\ bindStep = "pair"
      /\ moved' = moved + 1 \/ moved' = moved
      /\ pairs' = Append(pairs, new) /\ bindStep' = "pointer"
      /\ Binding /\ UNCHANGED <<slot, swap, toBind, ready>>
  BY DEF Throws!AddPair, Throws!Done, Throws!NextStep, Throws!FirstStep, Throws!OtherStep,
     Binding, ThrowInv, ThrowShape
<1>2. Head(toBind) \in Images
  BY <1>1, HeadToBind DEF ThrowInv
<1>3. new \in [image : Images, function : Targets]
  BY <1>2 DEF ThrowInv, ThrowShape
<1>4. /\ pairs' \in Seq([image : Images, function : Targets])
      /\ \A k \in DOMAIN pairs : k \in DOMAIN pairs' /\ pairs'[k] = pairs[k]
      /\ Len(pairs) + 1 \in DOMAIN pairs' /\ pairs'[Len(pairs) + 1] = new
  BY <1>1, <1>3 DEF ThrowInv, ThrowShape
<1>5. (\A i \in Images : Known(i) => Known(i)') /\ Known(Head(toBind))'
  BY <1>1, <1>4 DEF Known
<1>6. moved' \in Nat /\ moved <= moved'
  BY <1>1 DEF ThrowInv, ThrowShape
<1>7. ThrowShape'
  BY <1>1, <1>4, <1>6, ShapeStays DEF ThrowInv, ThrowShape
<1>8. BindInv'
  BY <1>1, <1>5 DEF ThrowInv, BindInv, Known
<1> QED
  BY <1>1, <1>5, <1>6, <1>7, <1>8, BindingStep

LEMMA SwapPointerKeeps ==
  ASSUME ThrowInv, Throws!SwapPointer PROVE ThrowInv'
<1>1. /\ toBind # <<>> /\ Head(toBind) \in Rebindable /\ bindStep = "pointer"
      /\ slot' = [slot EXCEPT ![Head(toBind)] = "decorator"]
      /\ bindStep' = "pair" /\ toBind' = Tail(toBind) /\ ready' = ready \cup {Head(toBind)}
      /\ Binding /\ UNCHANGED <<pairs, moved, swap>>
  BY DEF Throws!SwapPointer, Throws!Done, Throws!NextStep, Throws!FirstStep, Throws!OtherStep,
     Binding, ThrowInv, ThrowShape
<1>2. Head(toBind) \in Images /\ Tail(toBind) \in Seq(Images)
  BY <1>1, HeadToBind DEF ThrowInv
<1>3. ThrowShape'
  BY <1>1, <1>2, ShapeStays DEF ThrowInv, ThrowShape, Targets
<1>4. BindInv'
  BY <1>1, <1>2, PairsStay DEF ThrowInv, ThrowShape, BindInv
<1> QED
  BY <1>1, <1>3, <1>4, BindingStep, PairsStay DEF ThrowInv, ThrowShape

\* The flag passes all throws that are on their way.
LEMMA SwapEnabledKeeps ==
  ASSUME ThrowInv, Throws!SwapEnabled PROVE ThrowInv'
<1>1. /\ toBind = <<>> /\ swap' = "on"
      /\ thrower' = [t \in Threads |-> [thrower[t] EXCEPT !.passed = TRUE]]
      /\ UNCHANGED <<slot, pairs, moved, toBind, bindStep, ready, cursor, thrown>>
  BY DEF Throws!SwapEnabled
<1>2. ASSUME NEW t \in Threads
      PROVE  /\ ThrowerShape(t)' /\ thrower'[t].passed /\ thrower'[t].at = thrower[t].at
             /\ thrower'[t].image = thrower[t].image /\ thrower'[t].sees = thrower[t].sees
             /\ thrower'[t].then = thrower[t].then
             /\ thrower'[t].captured = thrower[t].captured
             /\ thrower'[t].crossed = thrower[t].crossed
             /\ thrower'[t].number = thrower[t].number
  <2>1. thrower'[t] = [thrower[t] EXCEPT !.passed = TRUE] /\ ThrowerShape(t)
    BY <1>1 DEF ThrowInv, ThrowShape
  <2> QED
    BY <2>1 DEF ThrowerShape
<1>3. ThrowShape'
  BY <1>1, <1>2 DEF ThrowInv, ThrowShape
<1>4. BindInv' /\ ReportedInv'
  BY <1>1, <1>2 DEF ThrowInv, BindInv, ReportedInv, Known
<1>5. ASSUME NEW t \in Threads PROVE (RuntimeInv(t) /\ CapturedInv(t) /\ CursorInv(t))'
  <2>1. RuntimeInv(t)'
    BY <1>1, <1>2 DEF ThrowInv, RuntimeInv, InDecorator, Known
  <2>2. CapturedInv(t)'
    BY <1>2 DEF ThrowInv, CapturedInv
  <2>3. CursorInv(t)'
    <3>1. \A u \in Threads : thrower'[u].at = thrower[u].at
      BY <1>2
    <3>2. /\ CursorInv(t) /\ cursor' = cursor
          /\ thrower'[t].captured = thrower[t].captured
          /\ thrower'[t].crossed = thrower[t].crossed
          /\ thrower'[t].number = thrower[t].number
      BY <1>1, <1>2 DEF ThrowInv
    <3> QED
      BY <3>1, <3>2 DEF CursorInv, Throws!Capture
  <2> QED
    BY <2>1, <2>2, <2>3
<1> QED
  BY <1>3, <1>4, <1>5 DEF ThrowInv

\* A thread that goes on leaves the others where they are, but may mark their throws.
SamePlace(u) ==
    /\ ThrowerShape(u)'
    /\ thrower'[u].at = thrower[u].at /\ thrower'[u].image = thrower[u].image
    /\ thrower'[u].then = thrower[u].then /\ thrower'[u].sees = thrower[u].sees
    /\ thrower'[u].captured = thrower[u].captured /\ thrower'[u].should = thrower[u].should
    /\ thrower'[u].passed = thrower[u].passed /\ thrower'[u].number = thrower[u].number

LEMMA ThreadStep ==
  ASSUME ThrowInv, NEW t \in Threads, thrown = None, thrown' = None,
         UNCHANGED <<pairs, moved, swap, toBind, bindStep, ready>>,
         slot' \in [Images -> Targets],
         \A i \in Images : slot'[i] = "decorator" => slot[i] = "decorator",
         thrower' = [u \in Threads |-> thrower'[u]],
         \A u \in Threads \ {t} : SamePlace(u),
         ThrowerShape(t)', RuntimeInv(t)', CapturedInv(t)',
         \A u \in Threads : CursorInv(u)'
  PROVE  ThrowInv'
<1>1. \A u \in Threads : ThrowerShape(u)'
  BY DEF SamePlace
<1>2. ThrowShape'
  BY <1>1 DEF ThrowInv, ThrowShape
<1>3. BindInv' /\ ReportedInv'
  BY DEF ThrowInv, BindInv, ReportedInv, Known
<1>4. ASSUME NEW u \in Threads \ {t} PROVE RuntimeInv(u)' /\ CapturedInv(u)'
  <2>1. SamePlace(u) /\ RuntimeInv(u) /\ CapturedInv(u)
    BY DEF ThrowInv
  <2>2. RuntimeInv(u)'
    BY <2>1, PairsStay DEF SamePlace, RuntimeInv, InDecorator
  <2>3. CapturedInv(u)'
    BY <2>1 DEF SamePlace, CapturedInv
  <2> QED
    BY <2>2, <2>3
<1> QED
  BY <1>2, <1>3, <1>4 DEF ThrowInv

\* A step that neither begins nor ends to capture.
LEMMA PlainStep ==
  ASSUME ThrowInv, NEW t \in Threads, thrown = None, thrown' = None,
         UNCHANGED <<pairs, moved, swap, toBind, bindStep, ready, cursor>>,
         slot' \in [Images -> Targets],
         \A i \in Images : slot'[i] = "decorator" => slot[i] = "decorator",
         NEW new, thrower' = [thrower EXCEPT ![t] = new],
         ThrowerShape(t)', RuntimeInv(t)', CapturedInv(t)',
         new.at # "capturing", thrower[t].at # "capturing",
         new.captured => thrower[t].captured /\ new.number = thrower[t].number,
         new.crossed = thrower[t].crossed
  PROVE  ThrowInv'
<1>1. /\ thrower = [u \in Threads |-> thrower[u]]
      /\ thrower' = [u \in Threads |-> thrower'[u]] /\ thrower'[t] = new
      /\ \A u \in Threads \ {t} : thrower'[u] = thrower[u]
  BY DEF ThrowInv, ThrowShape
<1>2. \A u \in Threads \ {t} : SamePlace(u)
  BY <1>1 DEF ThrowInv, ThrowShape, ThrowerShape, SamePlace
<1>3. ASSUME NEW u \in Threads PROVE CursorInv(u)'
  <2>1. CursorInv(u) /\ cursor' = cursor
    BY DEF ThrowInv
  <2>2. CASE u = t
    BY <1>1, <2>1, <2>2 DEF CursorInv, Throws!Capture
  <2>3. CASE u # t
    BY <1>1, <2>1, <2>3 DEF CursorInv, Throws!Capture
  <2> QED
    BY <2>2, <2>3
<1> QED
  BY <1>1, <1>2, <1>3, ThreadStep

LEMMA ThrowKeeps ==
  ASSUME ThrowInv, NEW t \in Threads, Throws!Throw(t) PROVE ThrowInv'
<1>1. PICK i \in ready :
        LET target == IF slot[i] = "stub" THEN Bound[i] ELSE slot[i]
        IN thrower' = [thrower EXCEPT ![t] =
             [@ EXCEPT !.at = slot[i], !.image = i, !.number = Throws!Thrown + 1,
                       !.captured = FALSE, !.passed = FALSE,
                       !.should = \/ target = "decorator"
                                  \/ target = "override" /\ swap # "on"]]
  BY DEF Throws!Throw
<1> DEFINE target == IF slot[i] = "stub" THEN Bound[i] ELSE slot[i]
           should == target = "decorator" \/ (target = "override" /\ swap # "on")
           new == [thrower[t] EXCEPT !.at = slot[i], !.image = i, !.number = Throws!Thrown + 1,
                       !.captured = FALSE, !.passed = FALSE, !.should = should]
<1>2. /\ thrown = None /\ thrown' = None /\ thrower[t].at = "running"
      /\ UNCHANGED <<slot, pairs, moved, swap, toBind, bindStep, ready, cursor>>
  BY DEF Throws!Throw, Throws!At, Throws!Alive, Throws!loading
<1>3. thrower' = [thrower EXCEPT ![t] = new]
  BY <1>1
<1>4. i \in Images /\ slot[i] \in Targets /\ ThrowerShape(t)
  BY DEF ThrowInv, ThrowShape
<1>5. thrower'[t] = new
  BY <1>3 DEF ThrowInv, ThrowShape
<1>6. /\ new.at = slot[i] /\ new.image = i /\ new.captured = FALSE /\ new.should = should
      /\ new.then = thrower[t].then /\ new.sees = thrower[t].sees
      /\ new.crossed = thrower[t].crossed
  BY <1>4 DEF ThrowerShape
<1>7. ThrowerShape(t)'
  BY <1>4, <1>5 DEF ThrowerShape, Places
<1>8. RuntimeInv(t)'
  BY <1>2, <1>4, <1>5, <1>6, PairsStay
     DEF ThrowInv, BindInv, RuntimeInv, InDecorator, Targets, ThrowShape
<1>9. CapturedInv(t)'
  <2>1. slot[i] # "scanning"
    BY <1>4 DEF Targets
  <2>2. ASSUME should
        PROVE  \/ slot[i] = "decorator"
               \/ slot[i] = "override" /\ swap # "on"
               \/ slot[i] = "stub" /\ Bound[i] = "override" /\ swap # "on"
    BY <1>4, <2>2, ImagesAssumption
  <2>3. swap' = swap
    BY <1>2
  <2> HIDE DEF new, should
  <2> QED
    BY <1>5, <1>6, <2>1, <2>2, <2>3 DEF CapturedInv
<1> HIDE DEF new
<1> QED
  BY <1>2, <1>3, <1>4, <1>6, <1>7, <1>8, <1>9, PlainStep DEF ThrowInv, ThrowShape, Targets

LEMMA BindLazilyKeeps ==
  ASSUME ThrowInv, NEW t \in Threads, Throws!BindLazily(t) PROVE ThrowInv'
<1> DEFINE i == thrower[t].image
           new == [thrower[t] EXCEPT !.at = Bound[i]]
<1>1. /\ thrown = None /\ thrown' = None /\ thrower[t].at = "stub"
      /\ slot' = [slot EXCEPT ![i] = Bound[i]] /\ thrower' = [thrower EXCEPT ![t] = new]
      /\ UNCHANGED <<pairs, moved, swap, toBind, bindStep, ready, cursor>>
  BY DEF Throws!BindLazily, Throws!At, Throws!Alive, Throws!loading
<1>2. i \in Images /\ Bound[i] \in {"runtime", "override"} /\ ThrowerShape(t)
  BY <1>1, ImagesAssumption DEF ThrowInv, RuntimeInv, ThrowShape
<1>3. thrower'[t] = new
  BY <1>1 DEF ThrowInv, ThrowShape
<1>4. /\ new.at = Bound[i] /\ new.image = i /\ new.captured = thrower[t].captured
      /\ new.should = thrower[t].should /\ new.passed = thrower[t].passed
      /\ new.then = thrower[t].then /\ new.sees = thrower[t].sees
      /\ new.crossed = thrower[t].crossed /\ new.number = thrower[t].number
  BY <1>2 DEF ThrowerShape
<1>5. ThrowerShape(t)'
  BY <1>2, <1>3 DEF ThrowerShape, Places, Targets
<1>6. RuntimeInv(t)'
  BY <1>1, <1>2, <1>3, <1>4 DEF ThrowInv, RuntimeInv, InDecorator
<1>7. CapturedInv(t)'
  BY <1>1, <1>2, <1>3, <1>4 DEF ThrowInv, CapturedInv
<1>8. /\ slot' \in [Images -> Targets]
      /\ \A j \in Images : slot'[j] = "decorator" => slot[j] = "decorator"
  BY <1>1, <1>2 DEF ThrowInv, ThrowShape, Targets
<1> HIDE DEF new
<1> QED
  BY <1>1, <1>2, <1>4, <1>5, <1>6, <1>7, <1>8, PlainStep

LEMMA FindAddressKeeps ==
  ASSUME ThrowInv, NEW t \in Threads, Throws!FindAddress(t) PROVE ThrowInv'
<1>1. PICK place : /\ thrower' = [thrower EXCEPT ![t].at = place]
                   /\ \/ place = Throws!OriginalOf(thrower[t].image)
                      \/ place = "returned" /\ thrower[t].sees # moved
  BY DEF Throws!FindAddress
<1> DEFINE new == [thrower[t] EXCEPT !.at = place]
<1>2. /\ thrown = None /\ thrown' = None /\ thrower[t].at = "scanning"
      /\ UNCHANGED <<slot, pairs, moved, swap, toBind, bindStep, ready, cursor>>
  BY DEF Throws!FindAddress, Throws!At, Throws!Alive, Throws!loading
<1>3. ThrowerShape(t) /\ RuntimeInv(t) /\ CapturedInv(t) /\ thrower[t].captured
  BY <1>2 DEF ThrowInv, ThrowShape, CapturedInv
<1>4. Throws!OriginalOf(thrower[t].image) \in Targets
  <2> DEFINE of == {k \in DOMAIN pairs : pairs[k].image = thrower[t].image}
  <2>1. of # {} /\ of \subseteq Nat
    BY <1>2, <1>3 DEF RuntimeInv, InDecorator, Known, ThrowInv, ThrowShape
  <2>2. PICK k \in of : \A l \in of : k <= l
    BY <2>1, FirstOfSet
  <2>3. (CHOOSE m \in of : \A l \in of : m <= l) \in of
    BY <2>2
  <2>4. Throws!OriginalOf(thrower[t].image) = pairs[CHOOSE m \in of : \A l \in of : m <= l].function
    BY <2>1 DEF Throws!OriginalOf
  <2>5. \A n \in DOMAIN pairs : pairs[n].function \in Targets
    <3>1. pairs \in Seq([image : Images, function : Targets])
      BY DEF ThrowInv, ThrowShape
    <3>2. DOMAIN pairs = 1 .. Len(pairs)
      BY <3>1
    <3>3. \A l \in DOMAIN pairs : pairs[l] \in [image : Images, function : Targets]
      BY <3>1, <3>2, ElementOfSeq
    <3> QED
      BY <3>3
  <2> QED
    BY <2>3, <2>4, <2>5
<1>5. thrower'[t] = new /\ thrower' = [thrower EXCEPT ![t] = new]
  BY <1>1 DEF ThrowInv, ThrowShape
<1>6. /\ new.at = place /\ new.image = thrower[t].image /\ new.captured = thrower[t].captured
      /\ new.should = thrower[t].should /\ new.passed = thrower[t].passed
      /\ new.then = thrower[t].then /\ new.sees = thrower[t].sees
      /\ new.crossed = thrower[t].crossed /\ new.number = thrower[t].number
  BY <1>3 DEF ThrowerShape
<1>7. ThrowerShape(t)'
  BY <1>1, <1>3, <1>4, <1>5 DEF ThrowerShape, Places
<1>8. RuntimeInv(t)'
  BY <1>1, <1>2, <1>3, <1>4, <1>5, <1>6, PairsStay DEF RuntimeInv, InDecorator, Targets
<1>9. CapturedInv(t)'
  BY <1>3, <1>5, <1>6 DEF CapturedInv
<1> HIDE DEF new
<1> QED
  <2>1. place # "capturing"
    BY <1>1, <1>4 DEF Targets
  <2>2. slot' \in [Images -> Targets] /\ \A i \in Images : slot'[i] = slot[i]
    BY <1>2 DEF ThrowInv, ThrowShape
  <2> QED
    BY <1>2, <1>5, <1>6, <1>7, <1>8, <1>9, <2>1, <2>2, PlainStep

LEMMA CaughtKeeps ==
  ASSUME ThrowInv, NEW t \in Threads, Throws!Caught(t) PROVE ThrowInv'
<1> DEFINE new == [thrower[t] EXCEPT !.at = "running"]
<1>1. /\ thrown = None /\ thrown' = None /\ thrower[t].at = "runtime"
      /\ thrower' = [thrower EXCEPT ![t] = new]
      /\ UNCHANGED <<slot, pairs, moved, swap, toBind, bindStep, ready, cursor>>
  BY DEF Throws!Caught, Throws!At, Throws!Alive, Throws!loading
<1>2. ThrowerShape(t) /\ RuntimeInv(t) /\ CapturedInv(t)
  BY DEF ThrowInv, ThrowShape
<1>3. thrower'[t] = new
  BY <1>1 DEF ThrowInv, ThrowShape
<1>4. /\ new.at = "running" /\ new.captured = thrower[t].captured
      /\ new.should = thrower[t].should /\ new.passed = thrower[t].passed
      /\ new.then = thrower[t].then /\ new.sees = thrower[t].sees
      /\ new.crossed = thrower[t].crossed /\ new.number = thrower[t].number
  BY <1>2 DEF ThrowerShape
<1>5. ThrowerShape(t)'
  BY <1>2, <1>3 DEF ThrowerShape, Places
<1>6. RuntimeInv(t)'
  BY <1>1, <1>2, <1>3, <1>4 DEF RuntimeInv, InDecorator
<1>7. CapturedInv(t)'
  BY <1>1, <1>2, <1>3, <1>4 DEF CapturedInv
<1> HIDE DEF new
<1> QED
  BY <1>1, <1>4, <1>5, <1>6, <1>7, PlainStep DEF ThrowInv, ThrowShape

\* A throw that begins to be captured marks all others, and itself if another one is
\* being captured.
LEMMA BeginCaptureKeeps ==
  ASSUME ThrowInv, NEW t \in Threads, NEW next \in {"scanning", "runtime"},
         thrown = None, thrown' = None,
         UNCHANGED <<slot, pairs, moved, swap, toBind, bindStep, ready>>,
         Throws!BeginCapture(t, next),
         next = "scanning" => InDecorator(t),
         thrower[t].at \in {"decorator", "override"},
         thrower[t].at = "override" => swap # "on"
  PROVE  ThrowInv'
<1> DEFINE others == \E v \in Threads \ {t} : thrower[v].at = "capturing"
           new == [thrower[t] EXCEPT !.at = "capturing", !.then = next, !.crossed = others]
<1>1. /\ thrower' = [u \in Threads |-> thrower'[u]] /\ thrower'[t] = new
      /\ \A u \in Threads \ {t} : thrower'[u] = [thrower[u] EXCEPT !.crossed = TRUE]
  BY DEF Throws!BeginCapture
<1>2. ThrowerShape(t) /\ RuntimeInv(t) /\ CapturedInv(t)
  BY DEF ThrowInv, ThrowShape
<1>3. /\ new.at = "capturing" /\ new.then = next /\ new.crossed = others
      /\ new.image = thrower[t].image /\ new.captured = thrower[t].captured
      /\ new.should = thrower[t].should /\ new.passed = thrower[t].passed
      /\ new.sees = thrower[t].sees
  BY <1>2 DEF ThrowerShape
<1>4. ThrowerShape(t)'
  BY <1>1, <1>2 DEF ThrowerShape, Places
<1>5. ASSUME NEW u \in Threads \ {t} PROVE SamePlace(u) /\ thrower'[u].crossed
  <2>1. ThrowerShape(u)
    BY DEF ThrowInv, ThrowShape
  <2> QED
    BY <1>1, <2>1 DEF ThrowerShape, SamePlace
<1>6. RuntimeInv(t)'
  BY <1>1, <1>2, <1>3, PairsStay DEF RuntimeInv, InDecorator
<1>7. CapturedInv(t)'
  BY <1>1, <1>3 DEF CapturedInv
<1>8. \A u \in Threads : CursorInv(u)'
  <2>1. ASSUME NEW u \in Threads \ {t} PROVE CursorInv(u)'
    BY <1>5 DEF CursorInv
  <2>2. CursorInv(t)'
    <3>1. \A u \in Threads \ {t} : thrower'[u].at = thrower[u].at
      BY <1>5 DEF SamePlace
    <3>2. thrower'[t].at = "capturing" /\ (~thrower'[t].crossed => ~others)
      BY <1>1, <1>3
    <3> HIDE DEF new
    <3> QED
      BY <3>1, <3>2 DEF CursorInv
  <2> QED
    BY <2>1, <2>2
<1>9. slot' \in [Images -> Targets] /\ \A i \in Images : slot'[i] = slot[i]
  BY DEF ThrowInv, ThrowShape
<1> QED
  BY <1>1, <1>4, <1>5, <1>6, <1>7, <1>8, <1>9, ThreadStep

LEMMA EnterDecoratorKeeps ==
  ASSUME ThrowInv, NEW t \in Threads, Throws!EnterDecorator(t) PROVE ThrowInv'
<1>1. /\ thrown = None /\ thrown' = None /\ thrower[t].at = "decorator"
      /\ UNCHANGED <<slot, pairs, moved, swap, toBind, bindStep, ready>>
      /\ Throws!BeginCapture(t, "scanning")
  BY DEF Throws!EnterDecorator, Throws!At, Throws!Alive, Throws!loading
<1> QED
  BY <1>1, BeginCaptureKeeps DEF InDecorator

LEMMA EnterOverrideKeeps ==
  ASSUME ThrowInv, NEW t \in Threads, Throws!EnterOverride(t) PROVE ThrowInv'
<1>1. /\ thrown = None /\ thrown' = None /\ thrower[t].at = "override"
      /\ UNCHANGED <<slot, pairs, moved, swap, toBind, bindStep, ready>>
  BY DEF Throws!EnterOverride, Throws!At, Throws!Alive, Throws!loading
<1>2. CASE swap # "on"
  <2>1. Throws!BeginCapture(t, "runtime")
    BY <1>2 DEF Throws!EnterOverride, Throws!OverrideCaptures
  <2> QED
    BY <1>1, <1>2, <2>1, BeginCaptureKeeps
<1>3. CASE swap = "on"
  <2> DEFINE new == [thrower[t] EXCEPT !.at = "runtime"]
  <2>1. thrower' = [thrower EXCEPT ![t] = new] /\ cursor' = cursor
    BY <1>3 DEF Throws!EnterOverride, Throws!OverrideCaptures
  <2>2. ThrowerShape(t) /\ RuntimeInv(t) /\ CapturedInv(t)
    BY DEF ThrowInv, ThrowShape
  <2>3. thrower'[t] = new
    BY <2>1 DEF ThrowInv, ThrowShape
  <2>4. /\ new.at = "runtime" /\ new.captured = thrower[t].captured
        /\ new.should = thrower[t].should /\ new.passed = thrower[t].passed
        /\ new.then = thrower[t].then /\ new.sees = thrower[t].sees
        /\ new.crossed = thrower[t].crossed /\ new.number = thrower[t].number
    BY <2>2 DEF ThrowerShape
  <2>5. ThrowerShape(t)'
    BY <2>2, <2>3 DEF ThrowerShape, Places, Targets
  <2>6. RuntimeInv(t)'
    BY <1>1, <2>2, <2>3, <2>4 DEF RuntimeInv, InDecorator
  <2>7. CapturedInv(t)'
    BY <1>1, <1>3, <2>2, <2>3, <2>4 DEF CapturedInv
  <2>8. slot' \in [Images -> Targets] /\ \A i \in Images : slot'[i] = slot[i]
    BY <1>1 DEF ThrowInv, ThrowShape
  <2> HIDE DEF new
  <2> QED
    BY <1>1, <2>1, <2>4, <2>5, <2>6, <2>7, <2>8, PlainStep
<1> QED
  BY <1>2, <1>3

\* The capture that ends had been marked if another one had begun.
LEMMA EndCaptureKeeps ==
  ASSUME ThrowInv, NEW t \in Threads, Throws!EndCapture(t) PROVE ThrowInv'
<1> DEFINE new == [thrower[t] EXCEPT !.at = thrower[t].then, !.captured = TRUE, !.sees = moved]
<1>1. /\ thrown = None /\ thrown' = None /\ thrower[t].at = "capturing"
      /\ thrower' = [thrower EXCEPT ![t] = new]
      /\ cursor' = Throws!Capture(t, thrower[t].number)
      /\ UNCHANGED <<slot, pairs, moved, swap, toBind, bindStep, ready>>
  BY DEF Throws!EndCapture, Throws!At, Throws!Alive, Throws!loading
<1>2. ThrowerShape(t) /\ RuntimeInv(t) /\ moved \in Nat
  BY DEF ThrowInv, ThrowShape
<1>3. /\ thrower = [u \in Threads |-> thrower[u]]
      /\ thrower' = [u \in Threads |-> thrower'[u]] /\ thrower'[t] = new
      /\ \A u \in Threads \ {t} : thrower'[u] = thrower[u]
  BY <1>1 DEF ThrowInv, ThrowShape
<1>4. /\ new.at = thrower[t].then /\ new.captured = TRUE /\ new.sees = moved
      /\ new.image = thrower[t].image /\ new.then = thrower[t].then
      /\ new.should = thrower[t].should /\ new.passed = thrower[t].passed
      /\ new.crossed = thrower[t].crossed /\ new.number = thrower[t].number
  BY <1>2 DEF ThrowerShape
<1>5. thrower[t].then \in {"scanning", "runtime"}
  BY <1>1, <1>2 DEF RuntimeInv
<1>6. ThrowerShape(t)'
  BY <1>2, <1>3, <1>5 DEF ThrowerShape, Places, Targets
<1>7. RuntimeInv(t)'
  <2>1. thrower'[t].at = "scanning" => thrower[t].image \in Images /\ Known(thrower[t].image)'
    BY <1>1, <1>2, <1>3, <1>4, PairsStay DEF RuntimeInv, InDecorator
  <2>2. /\ thrower'[t].at \in {"scanning", "runtime"} /\ thrower'[t].image = thrower[t].image
        /\ thrower'[t].sees = moved /\ moved' = moved
    BY <1>1, <1>3, <1>4, <1>5
  <2> HIDE DEF new
  <2> QED
    BY <1>2, <2>1, <2>2 DEF RuntimeInv, InDecorator
<1>8. CapturedInv(t)'
  BY <1>3, <1>4 DEF CapturedInv
<1>9. \A u \in Threads \ {t} : SamePlace(u)
  BY <1>3 DEF ThrowInv, ThrowShape, ThrowerShape, SamePlace
<1>10. ASSUME NEW u \in Threads PROVE CursorInv(u)'
  <2>1. CursorInv(u) /\ CursorInv(t)
    BY DEF ThrowInv
  <2>2. CASE u # t
    <3>1. thrower'[u] = thrower[u]
      BY <1>3, <2>2
    <3> HIDE DEF new
    <3> QED
      BY <1>1, <2>1, <2>2, <3>1 DEF CursorInv
  <2>3. CASE u = t
    <3>1. thrower'[u].at # "capturing" /\ cursor' = Throws!Capture(u, thrower'[u].number)
      BY <1>1, <1>3, <1>4, <1>5, <2>3 DEF Throws!Capture
    <3>2. ~thrower'[u].crossed => \A v \in Threads \ {u} : thrower'[v].at # "capturing"
      BY <1>1, <1>3, <1>4, <2>1, <2>3 DEF CursorInv
    <3> HIDE DEF new
    <3> QED
      BY <3>1, <3>2 DEF CursorInv, Throws!Capture
  <2> QED
    BY <2>2, <2>3
<1>11. slot' \in [Images -> Targets] /\ \A i \in Images : slot'[i] = slot[i]
  BY <1>1 DEF ThrowInv, ThrowShape
<1> HIDE DEF new
<1> QED
  BY <1>1, <1>3, <1>6, <1>7, <1>8, <1>9, <1>10, <1>11, ThreadStep

\* The report has the stack of the moment, and nothing happens behind it.
LEMMA TerminateKeeps ==
  ASSUME ThrowInv, NEW t \in Threads, Throws!Terminate(t) PROVE ThrowInv'
<1>1. /\ thrower[t].at = "runtime" /\ thrown' = [thread |-> t, stack |-> cursor]
      /\ UNCHANGED <<slot, pairs, moved, swap, toBind, bindStep, ready, thrower, cursor>>
  BY DEF Throws!Terminate, Throws!At, Throws!loading
<1>2. ThrowShape' /\ BindInv' /\ ReportedInv'
  BY <1>1 DEF ThrowInv, ThrowShape, ThrowerShape, BindInv, ReportedInv, Known
<1>3. \A u \in Threads : RuntimeInv(u)' /\ CapturedInv(u)' /\ CursorInv(u)'
  BY <1>1 DEF ThrowInv, RuntimeInv, InDecorator, CapturedInv, CursorInv, Known, Throws!Capture
<1> QED
  BY <1>2, <1>3 DEF ThrowInv

LEMMA ThrowInvStep ==
  ThrowInv /\ [Throws!Next]_Throws!vars => ThrowInv'
<1> SUFFICES ASSUME ThrowInv, [Throws!Next]_Throws!vars PROVE ThrowInv'
  OBVIOUS
<1>1. CASE UNCHANGED Throws!vars
  <2>1. UNCHANGED <<slot, pairs, moved, swap, toBind, bindStep, ready, thrower, cursor, thrown>>
    BY <1>1 DEF Throws!vars
  <2>2. ThrowShape' /\ BindInv' /\ ReportedInv'
    BY <2>1 DEF ThrowInv, ThrowShape, ThrowerShape, BindInv, ReportedInv, Known
  <2>3. \A u \in Threads : RuntimeInv(u)' /\ CapturedInv(u)' /\ CursorInv(u)'
    BY <2>1 DEF ThrowInv, RuntimeInv, InDecorator, CapturedInv, CursorInv, Known, Throws!Capture
  <2> QED
    BY <2>2, <2>3 DEF ThrowInv
<1>2. CASE Throws!Next
  BY <1>2, EnableSwapKeeps, SwapEnabledKeeps, LoadImageKeeps, SkipImageKeeps, AddPairKeeps,
     SwapPointerKeeps, ThrowKeeps, BindLazilyKeeps, EnterDecoratorKeeps, EnterOverrideKeeps,
     EndCaptureKeeps, FindAddressKeeps, CaughtKeeps, TerminateKeeps DEF Throws!Next
<1> QED
  BY <1>1, <1>2

\* Whoever throws gets to the C++ runtime while pointers are swapped and images are loaded,
\* and a report has the stack of its throw, for any images, threads and throws
\* (__cxa_throw_decorator, addPair, captureStackTrace).
THEOREM ThrowsAreSeen == Throws!Spec => []ThrowsAreWatched
<1>1. ThrowInv => ThrowsAreWatched
  <2> SUFFICES ASSUME ThrowInv PROVE ThrowsAreWatched
    OBVIOUS
  <2>1. Throws!ThrowsReachRuntime
    BY DEF ThrowInv, RuntimeInv, Throws!ThrowsReachRuntime
  <2>2. ASSUME thrown # None
        PROVE  LET me == thrower[thrown.thread]
               IN /\ me.should /\ ~me.passed => me.captured
                  /\ me.captured /\ ~me.crossed =>
                        thrown.stack = Throws!Capture(thrown.thread, me.number)
    <3>1. /\ thrown.thread \in Threads /\ thrower[thrown.thread].at = "runtime"
          /\ thrown.stack = cursor
      BY <2>2 DEF ThrowInv, ReportedInv
    <3>2. CapturedInv(thrown.thread) /\ CursorInv(thrown.thread)
      BY <3>1 DEF ThrowInv
    <3> QED
      BY <3>1, <3>2 DEF CapturedInv, CursorInv
  <2> QED
    BY <2>1, <2>2 DEF ThrowsAreWatched, Throws!ThrowsAreWatched, Throws!StackIsOfTheThrow
<1> QED
  BY <1>1, ThrowInvInit, ThrowInvStep, PTL DEF Throws!Spec

-----------------------------------------------------------------------------
(* Objects that are gone (ZombieTable).                                     *)

Steps == {"idle", "class", "address", "name", "reason", "free"}
Slots == {Hash[a] : a \in Addresses}

WorkerShape(t) ==
    /\ worker[t] = [at |-> worker[t].at, address |-> worker[t].address]
    /\ worker[t].at \in Steps
    /\ worker[t].at # "idle" => worker[t].address \in Addresses

ZombieShape ==
    /\ heap = [a \in Addresses |-> heap[a]] /\ gone = [a \in Addresses |-> gone[a]]
    /\ cache = [s \in Slots |-> cache[s]]
    /\ \A s \in Slots : cache[s] = [object |-> cache[s].object, class |-> cache[s].class]
    /\ worker = [t \in Threads |-> worker[t]] /\ \A t \in Threads : WorkerShape(t)
    /\ last = [address |-> last.address, of |-> last.of, name |-> last.name,
               reason |-> last.reason]

\* An object is deallocated by one thread, and is there until it has been noted.
ObjectInv ==
    \A t \in Threads : worker[t].at # "idle" =>
        /\ heap[worker[t].address] # None
        /\ gone[worker[t].address] = heap[worker[t].address].class
        /\ \A u \in Threads \ {t} : worker[u].at # "idle" =>
               worker[u].address # worker[t].address

\* A slot in which no two threads met belongs to the thread that is in it.
SlotInv ==
    \A t \in Threads : worker[t].at = "class" /\ Hash[worker[t].address] \notin crossed =>
        /\ cache[Hash[worker[t].address]].object = worker[t].address
        /\ \A u \in Threads \ {t} : ~Zombies!InSlot(u, Hash[worker[t].address])

Unclear(s) == s \in crossed \/ \E t \in Threads : Zombies!InSlot(t, s)

ClassInv ==
    \A a \in Addresses :
        cache[Hash[a]].object = a /\ cache[Hash[a]].class # None /\ ~Unclear(Hash[a]) =>
            cache[Hash[a]].class = gone[a]

\* A thread has stored the address, and not everything yet.
InParts(t) == worker[t].at \in {"name", "reason"}

PartsInv ==
    "exception" \notin crossed =>
        /\ \A t \in Threads : InParts(t) =>
              /\ last.of = heap[worker[t].address]
              /\ worker[t].at = "reason" /\ last.of.named => last.name = last.of.number
              /\ \A u \in Threads \ {t} : ~InParts(u)
        /\ (\A t \in Threads : ~InParts(t)) /\ last.address # None =>
              /\ last.of.named => last.name = last.of.number
              /\ last.of.reasoned => last.reason = last.of.number

ToldInv ==
    told # None =>
        /\ told.class = [a \in Addresses |-> Zombies!ClassName(a)]
        /\ told.exception.address # None => told.exception = last

ZombieInv == ZombieShape /\ ObjectInv /\ SlotInv /\ ClassInv /\ PartsInv /\ ToldInv

LEMMA ZombieInvInit == Zombies!Init => ZombieInv
<1> SUFFICES ASSUME Zombies!Init PROVE ZombieInv
  OBVIOUS
<1>1. \A t \in Threads : worker[t] = [at |-> "idle", address |-> None]
  BY DEF Zombies!Init, Zombies!Idle
<1>2. \A s \in Slots : cache[s] = [object |-> None, class |-> None]
  BY DEF Zombies!Init, Zombies!Nothing, Slots
<1>3. ZombieShape
  <2>1. \A t \in Threads : WorkerShape(t)
    BY <1>1 DEF WorkerShape, Steps
  <2>2. /\ heap = [a \in Addresses |-> heap[a]] /\ gone = [a \in Addresses |-> gone[a]]
        /\ worker = [t \in Threads |-> worker[t]]
    BY DEF Zombies!Init
  <2>3. cache = [s \in Slots |-> cache[s]]
    BY DEF Zombies!Init, Slots
  <2>4. last = [address |-> last.address, of |-> last.of, name |-> last.name,
                reason |-> last.reason]
    BY DEF Zombies!Init
  <2> QED
    BY <1>2, <2>1, <2>2, <2>3, <2>4 DEF ZombieShape
<1>4. ObjectInv /\ SlotInv
  BY <1>1 DEF ObjectInv, SlotInv
<1>5. ClassInv
  BY <1>2 DEF ClassInv, Slots
<1>6. PartsInv /\ ToldInv
  BY <1>1 DEF Zombies!Init, PartsInv, InParts, ToldInv
<1> QED
  BY <1>3, <1>4, <1>5, <1>6 DEF ZombieInv

LEMMA SlotOf == \A a \in Addresses : Hash[a] \in Slots
BY DEF Slots

\* What the shape says once it is unfolded.
LEMMA Unchanged ==
  ASSUME ZombieInv, UNCHANGED <<heap, cache, last, worker, gone, crossed, told>>
  PROVE  ZombieInv'
<1>1. ZombieShape'
  BY DEF ZombieInv, ZombieShape, WorkerShape
<1>2. ObjectInv' /\ SlotInv' /\ ClassInv'
  BY DEF ZombieInv, ObjectInv, SlotInv, ClassInv, Unclear, Zombies!InSlot
<1>3. PartsInv' /\ ToldInv'
  BY DEF ZombieInv, PartsInv, InParts, ToldInv, Zombies!ClassName
<1> QED
  BY <1>1, <1>2, <1>3 DEF ZombieInv

LEMMA AllocateKeeps ==
  ASSUME ZombieInv, NEW a \in Addresses, Zombies!Allocate(a) PROVE ZombieInv'
<1>1. PICK new : heap' = [heap EXCEPT ![a] = new]
  BY DEF Zombies!Allocate
<1>2. /\ heap[a] = None /\ told = None
      /\ UNCHANGED <<cache, last, worker, gone, crossed, told>>
  BY DEF Zombies!Allocate, Zombies!Alive
<1>3. /\ heap' = [b \in Addresses |-> heap'[b]]
      /\ \A t \in Threads : worker[t].at # "idle" =>
            heap'[worker[t].address] = heap[worker[t].address]
  BY <1>1, <1>2 DEF ZombieInv, ZombieShape, WorkerShape, ObjectInv
<1>4. ZombieShape'
  BY <1>2, <1>3 DEF ZombieInv, ZombieShape, WorkerShape
<1>5. ObjectInv' /\ SlotInv' /\ ClassInv'
  BY <1>2, <1>3 DEF ZombieInv, ObjectInv, SlotInv, ClassInv, Unclear, Zombies!InSlot
<1>6. PartsInv' /\ ToldInv'
  BY <1>2, <1>3 DEF ZombieInv, PartsInv, InParts, ToldInv
<1> QED
  BY <1>4, <1>5, <1>6 DEF ZombieInv

LEMMA DeallocKeeps ==
  ASSUME ZombieInv, NEW t \in Threads, NEW a \in Addresses, Zombies!Dealloc(t, a)
  PROVE  ZombieInv'
<1> DEFINE s == Hash[a]
<1>1. /\ worker[t].at = "idle" /\ heap[a] # None /\ told = None /\ told' = told /\ last' = last
      /\ \A u \in Threads : worker[u].address # a
  BY DEF Zombies!Dealloc, Zombies!At, Zombies!Alive, Zombies!Busy
<1>2. CASE ~installed
  <2>1. /\ heap' = [heap EXCEPT ![a] = None]
        /\ UNCHANGED <<cache, worker, gone, crossed>>
    BY <1>2 DEF Zombies!Dealloc, Zombies!Free
  <2>2. /\ heap' = [b \in Addresses |-> heap'[b]]
        /\ \A u \in Threads : worker[u].at # "idle" =>
              heap'[worker[u].address] = heap[worker[u].address]
    BY <1>1, <2>1 DEF ZombieInv, ZombieShape, WorkerShape
  <2>3. ZombieShape'
    BY <1>1, <2>1, <2>2 DEF ZombieInv, ZombieShape, WorkerShape
  <2>4. ObjectInv' /\ SlotInv' /\ ClassInv'
    BY <2>1, <2>2 DEF ZombieInv, ObjectInv, SlotInv, ClassInv, Unclear, Zombies!InSlot
  <2>5. PartsInv' /\ ToldInv'
    BY <1>1, <2>1, <2>2 DEF ZombieInv, PartsInv, InParts, ToldInv
  <2> QED
    BY <2>3, <2>4, <2>5 DEF ZombieInv
<1>3. CASE installed
  <2>1. /\ cache' = [cache EXCEPT ![s].object = a] /\ heap' = heap
        /\ worker' = [worker EXCEPT ![t] = [at |-> "class", address |-> a]]
        /\ gone' = [gone EXCEPT ![a] = heap[a].class]
        /\ crossed' = IF \E u \in Threads \ {t} : Zombies!InSlot(u, s)
                      THEN crossed \cup {s} ELSE crossed
    BY <1>3 DEF Zombies!Dealloc
  <2>2. /\ s \in Slots
        /\ cache[s] = [object |-> cache[s].object, class |-> cache[s].class]
        /\ cache = [r \in Slots |-> cache[r]] /\ worker = [u \in Threads |-> worker[u]]
        /\ gone = [b \in Addresses |-> gone[b]]
    BY SlotOf DEF ZombieInv, ZombieShape
  <2>3. /\ cache'[s] = [object |-> a, class |-> cache[s].class]
        /\ \A r \in Slots \ {s} : cache'[r] = cache[r]
        /\ cache' = [r \in Slots |-> cache'[r]]
    BY <2>1, <2>2
  <2>4. /\ worker'[t] = [at |-> "class", address |-> a]
        /\ \A u \in Threads \ {t} : worker'[u] = worker[u]
        /\ worker' = [u \in Threads |-> worker'[u]]
    BY <2>1, <2>2
  <2>5. /\ gone'[a] = heap[a].class /\ \A b \in Addresses \ {a} : gone'[b] = gone[b]
        /\ gone' = [b \in Addresses |-> gone'[b]]
    BY <2>1, <2>2
  <2>6. ZombieShape'
    <3>1. \A u \in Threads : WorkerShape(u)'
      BY <2>4 DEF ZombieInv, ZombieShape, WorkerShape, Steps
    <3>2. \A r \in Slots : cache'[r] = [object |-> cache'[r].object, class |-> cache'[r].class]
      BY <2>3 DEF ZombieInv, ZombieShape
    <3> QED
      BY <1>1, <2>1, <2>3, <2>4, <2>5, <3>1, <3>2 DEF ZombieInv, ZombieShape
  <2>7. ObjectInv'
    BY <1>1, <2>1, <2>4, <2>5 DEF ZombieInv, ZombieShape, WorkerShape, ObjectInv
  <2>8. SlotInv'
    <3>1. ASSUME NEW u \in Threads \ {t}, worker[u].at = "class",
                 Hash[worker[u].address] \notin crossed'
          PROVE  Hash[worker[u].address] # s
      BY <2>1, <3>1 DEF Zombies!InSlot
    <3>2. \A u \in Threads \ {t} : worker[u].at = "class" => Hash[worker[u].address] \in Slots
      BY SlotOf DEF ZombieInv, ZombieShape, WorkerShape
    <3>3. ASSUME NEW u \in Threads \ {t}, worker[u].at = "class",
                 Hash[worker[u].address] \notin crossed'
          PROVE  /\ cache'[Hash[worker[u].address]].object = worker[u].address
                 /\ \A v \in Threads \ {u} : ~Zombies!InSlot(v, Hash[worker[u].address])'
      <4>1. crossed \subseteq crossed'
        BY <2>1
      <4>2. /\ cache[Hash[worker[u].address]].object = worker[u].address
            /\ \A v \in Threads \ {u} : ~Zombies!InSlot(v, Hash[worker[u].address])
        BY <3>3, <4>1 DEF ZombieInv, SlotInv
      <4> QED
        BY <2>3, <2>4, <3>1, <3>2, <3>3, <4>2 DEF Zombies!InSlot
    <3>4. ASSUME s \notin crossed'
          PROVE  /\ cache'[s].object = a
                 /\ \A v \in Threads \ {t} : ~Zombies!InSlot(v, s)'
      BY <2>1, <2>3, <2>4, <3>4 DEF Zombies!InSlot
    <3> QED
      BY <2>4, <3>3, <3>4 DEF SlotInv, Zombies!InSlot
  <2>9. ClassInv'
    <3>1. SUFFICES ASSUME NEW b \in Addresses, cache'[Hash[b]].object = b,
                          cache'[Hash[b]].class # None, ~Unclear(Hash[b])'
                   PROVE  cache'[Hash[b]].class = gone'[b]
      BY DEF ClassInv
    <3>2. b # a
      BY <2>4, <3>1 DEF Unclear, Zombies!InSlot
    <3>3. Hash[b] # s /\ Hash[b] \in Slots
      BY <2>3, <3>1, <3>2, SlotOf
    <3>4. ~Unclear(Hash[b])
      BY <1>1, <2>1, <2>4, <3>1 DEF Unclear, Zombies!InSlot
    <3>5. cache[Hash[b]].class = gone[b]
      BY <2>3, <3>1, <3>3, <3>4 DEF ZombieInv, ClassInv
    <3> QED
      BY <2>3, <2>5, <3>2, <3>3, <3>5
  <2>10. PartsInv'
    <3>1. /\ "exception" \notin crossed' => "exception" \notin crossed
          /\ ~InParts(t) /\ ~InParts(t)'
      BY <1>1, <2>1, <2>4 DEF InParts
    <3>2. \A u \in Threads \ {t} : (InParts(u)' <=> InParts(u)) /\ worker'[u] = worker[u]
      BY <2>4 DEF InParts
    <3> QED
      BY <1>1, <2>1, <3>1, <3>2 DEF ZombieInv, PartsInv
  <2>11. ToldInv'
    BY <1>1 DEF ToldInv
  <2> QED
    BY <2>6, <2>7, <2>8, <2>9, <2>10, <2>11 DEF ZombieInv
<1> QED
  BY <1>2, <1>3

\* A thread that goes on, with what it notes of its object left to say.
LEMMA WorkerMoves ==
  ASSUME ZombieInv, NEW t \in Threads, NEW place \in Steps \ {"idle", "class"},
         worker[t].at # "idle", worker' = [worker EXCEPT ![t].at = place],
         UNCHANGED <<heap, gone>>
  PROVE  /\ worker' = [u \in Threads |-> worker'[u]] /\ \A u \in Threads : WorkerShape(u)'
         /\ worker'[t].at = place /\ worker'[t].address = worker[t].address
         /\ worker[t].address \in Addresses /\ Hash[worker[t].address] \in Slots
         /\ \A u \in Threads \ {t} : worker'[u] = worker[u]
         /\ ObjectInv'
<1>1. worker[t] = [at |-> worker[t].at, address |-> worker[t].address]
  BY DEF ZombieInv, ZombieShape, WorkerShape
<1>2. /\ worker' = [u \in Threads |-> worker'[u]]
      /\ worker'[t] = [at |-> place, address |-> worker[t].address]
      /\ \A u \in Threads \ {t} : worker'[u] = worker[u]
  BY <1>1 DEF ZombieInv, ZombieShape
<1>3. worker[t].address \in Addresses
  BY DEF ZombieInv, ZombieShape, WorkerShape
<1>4. \A u \in Threads : WorkerShape(u)'
  BY <1>2, <1>3 DEF ZombieInv, ZombieShape, WorkerShape
<1>5. ObjectInv'
  BY <1>2 DEF ZombieInv, ObjectInv
<1> QED
  BY <1>2, <1>3, <1>4, <1>5, SlotOf

\* Who stores the parts of an exception touches no slot.
LEMMA SlotsStay ==
  ASSUME ZombieInv, NEW t \in Threads, worker[t].at # "class", worker'[t].at # "class",
         \A u \in Threads \ {t} : worker'[u] = worker[u],
         UNCHANGED <<cache, gone>>, crossed \subseteq crossed'
  PROVE  SlotInv' /\ ClassInv'
<1>1. \A u \in Threads, s \in Slots : Zombies!InSlot(u, s)' <=> Zombies!InSlot(u, s)
  BY DEF Zombies!InSlot
<1>2. SlotInv'
  BY DEF ZombieInv, SlotInv, Zombies!InSlot
<1>3. ClassInv'
  <2>1. ASSUME NEW a \in Addresses PROVE Unclear(Hash[a]) => Unclear(Hash[a])'
    BY <1>1, SlotOf DEF Unclear
  <2> QED
    BY <2>1 DEF ZombieInv, ClassInv
<1> QED
  BY <1>2, <1>3

LEMMA NoteClassKeeps ==
  ASSUME ZombieInv, NEW t \in Threads, Zombies!NoteClass(t) PROVE ZombieInv'
<1> DEFINE a == worker[t].address
           s == Hash[a]
<1>1. PICK place \in {"address", "free"} :
        /\ worker[t].at = "class" /\ told = None
        /\ worker' = [worker EXCEPT ![t].at = place]
        /\ cache' = [cache EXCEPT ![s].class = heap[a].class]
        /\ UNCHANGED <<heap, last, gone, crossed, told>>
  BY DEF Zombies!NoteClass, Zombies!At, Zombies!Alive, Zombies!Go, Zombies!Object
<1>2. /\ worker' = [u \in Threads |-> worker'[u]] /\ \A u \in Threads : WorkerShape(u)'
      /\ worker'[t].at = place /\ a \in Addresses /\ s \in Slots
      /\ \A u \in Threads \ {t} : worker'[u] = worker[u]
      /\ ObjectInv'
  BY <1>1, WorkerMoves DEF Steps
<1>3. /\ cache[s] = [object |-> cache[s].object, class |-> cache[s].class]
      /\ cache = [r \in Slots |-> cache[r]]
  BY <1>2 DEF ZombieInv, ZombieShape
<1>4. /\ cache'[s] = [object |-> cache[s].object, class |-> heap[a].class]
      /\ \A r \in Slots \ {s} : cache'[r] = cache[r]
      /\ cache' = [r \in Slots |-> cache'[r]]
  BY <1>1, <1>2, <1>3
<1>5. ZombieShape'
  <2>1. \A r \in Slots : cache'[r] = [object |-> cache'[r].object, class |-> cache'[r].class]
    BY <1>4 DEF ZombieInv, ZombieShape
  <2> QED
    BY <1>1, <1>2, <1>4, <2>1 DEF ZombieInv, ZombieShape
<1>6. SlotInv'
  <2>1. SUFFICES ASSUME NEW u \in Threads, worker'[u].at = "class",
                        Hash[worker'[u].address] \notin crossed'
                 PROVE  /\ cache'[Hash[worker'[u].address]].object = worker'[u].address
                        /\ \A v \in Threads \ {u} : ~Zombies!InSlot(v, Hash[worker[u].address])'
    BY DEF SlotInv, Zombies!InSlot
  <2>2. u # t /\ worker'[u] = worker[u]
    BY <1>2, <2>1
  <2>3. Hash[worker[u].address] \in Slots
    BY <2>1, <2>2, SlotOf DEF ZombieInv, ZombieShape, WorkerShape
  <2>4. /\ cache[Hash[worker[u].address]].object = worker[u].address
        /\ \A v \in Threads \ {u} : ~Zombies!InSlot(v, Hash[worker[u].address])
    BY <1>1, <2>1, <2>2 DEF ZombieInv, SlotInv
  <2> QED
    BY <1>2, <1>4, <2>2, <2>3, <2>4 DEF Zombies!InSlot
<1>7. ClassInv'
  <2>1. SUFFICES ASSUME NEW b \in Addresses, cache'[Hash[b]].object = b,
                        cache'[Hash[b]].class # None, ~Unclear(Hash[b])'
                 PROVE  cache'[Hash[b]].class = gone'[b]
    BY DEF ClassInv
  <2>2. CASE Hash[b] = s
    <3>1. s \notin crossed
      BY <1>1, <2>1, <2>2 DEF Unclear
    <3>2. cache[s].object = a
      BY <1>1, <3>1 DEF ZombieInv, SlotInv
    <3>3. b = a
      BY <1>4, <2>1, <2>2, <3>2
    <3>4. gone[a] = heap[a].class
      BY <1>1 DEF ZombieInv, ObjectInv
    <3>5. cache'[Hash[b]].class = heap[a].class
      BY <1>4, <2>2
    <3> QED
      BY <1>1, <3>3, <3>4, <3>5
  <2>3. CASE Hash[b] # s
    <3>1. Hash[b] \in Slots /\ cache'[Hash[b]] = cache[Hash[b]]
      BY <1>4, <2>3, SlotOf
    <3>2. ~Unclear(Hash[b])
      BY <1>1, <1>2, <2>1, <2>3 DEF Unclear, Zombies!InSlot
    <3> QED
      BY <1>1, <2>1, <3>1, <3>2 DEF ZombieInv, ClassInv
  <2> QED
    BY <2>2, <2>3
<1>8. PartsInv'
  <2>1. \A u \in Threads : (InParts(u)' <=> InParts(u)) /\ (InParts(u) => worker'[u] = worker[u])
    BY <1>1, <1>2 DEF InParts
  <2> QED
    BY <1>1, <2>1 DEF ZombieInv, PartsInv
<1>9. ToldInv'
  BY <1>1 DEF ToldInv
<1> QED
  BY <1>2, <1>5, <1>6, <1>7, <1>8, <1>9 DEF ZombieInv

LEMMA StoreAddressKeeps ==
  ASSUME ZombieInv, NEW t \in Threads, Zombies!StoreAddress(t) PROVE ZombieInv'
<1>1. /\ worker[t].at = "address" /\ told = None
      /\ worker' = [worker EXCEPT ![t].at = "name"]
      /\ last' = [last EXCEPT !.address = worker[t].address, !.of = heap[worker[t].address]]
      /\ crossed' = IF \E u \in Threads \ {t} : Zombies!Storing(u)
                    THEN crossed \cup {"exception"} ELSE crossed
      /\ UNCHANGED <<heap, cache, gone, told>>
  BY DEF Zombies!StoreAddress, Zombies!At, Zombies!Alive, Zombies!Go, Zombies!Object
<1>2. /\ worker' = [u \in Threads |-> worker'[u]] /\ \A u \in Threads : WorkerShape(u)'
      /\ worker'[t].at = "name" /\ worker'[t].address = worker[t].address
      /\ \A u \in Threads \ {t} : worker'[u] = worker[u]
      /\ ObjectInv'
  BY <1>1, WorkerMoves DEF Steps
<1>3. SlotInv' /\ ClassInv'
  BY <1>1, <1>2, SlotsStay
<1>4. last' = [address |-> worker[t].address, of |-> heap[worker[t].address],
               name |-> last.name, reason |-> last.reason]
  BY <1>1 DEF ZombieInv, ZombieShape
<1>5. ZombieShape'
  BY <1>1, <1>2, <1>4 DEF ZombieInv, ZombieShape
<1>6. PartsInv'
  <2>1. ASSUME "exception" \notin crossed'
        PROVE  \A u \in Threads \ {t} : ~InParts(u)'
    BY <1>1, <1>2, <2>1 DEF InParts, Zombies!Storing
  <2>2. last'.of = heap'[worker'[t].address]
    BY <1>1, <1>2, <1>4
  <2>3. InParts(t)'
    BY <1>2 DEF InParts
  <2> QED
    BY <1>2, <2>1, <2>2, <2>3 DEF PartsInv
<1>7. ToldInv'
  BY <1>1 DEF ToldInv
<1> QED
  BY <1>2, <1>3, <1>5, <1>6, <1>7 DEF ZombieInv

LEMMA StoreNameKeeps ==
  ASSUME ZombieInv, NEW t \in Threads, Zombies!StoreName(t) PROVE ZombieInv'
<1> DEFINE object == heap[worker[t].address]
<1>1. /\ worker[t].at = "name" /\ told = None
      /\ worker' = [worker EXCEPT ![t].at = "reason"]
      /\ last' = IF object.named THEN [last EXCEPT !.name = object.number] ELSE last
      /\ UNCHANGED <<heap, cache, gone, crossed, told>>
  BY DEF Zombies!StoreName, Zombies!At, Zombies!Alive, Zombies!Go, Zombies!Object
<1>2. /\ worker' = [u \in Threads |-> worker'[u]] /\ \A u \in Threads : WorkerShape(u)'
      /\ worker'[t].at = "reason" /\ worker'[t].address = worker[t].address
      /\ \A u \in Threads \ {t} : worker'[u] = worker[u]
      /\ ObjectInv'
  BY <1>1, WorkerMoves DEF Steps
<1>3. SlotInv' /\ ClassInv'
  BY <1>1, <1>2, SlotsStay
<1>4. /\ last' = [address |-> last'.address, of |-> last'.of, name |-> last'.name,
                  reason |-> last'.reason]
      /\ last'.of = last.of /\ (object.named => last'.name = object.number)
  BY <1>1 DEF ZombieInv, ZombieShape
<1>5. ZombieShape'
  BY <1>1, <1>2, <1>4 DEF ZombieInv, ZombieShape
<1>6. PartsInv'
  <2>1. InParts(t) /\ InParts(t)' /\ \A u \in Threads \ {t} : InParts(u)' <=> InParts(u)
    BY <1>1, <1>2 DEF InParts
  <2>2. ASSUME "exception" \notin crossed
        PROVE  last.of = object /\ \A u \in Threads \ {t} : ~InParts(u)
    BY <2>1, <2>2 DEF ZombieInv, PartsInv
  <2>3. heap'[worker'[t].address] = object
    BY <1>1, <1>2
  <2> HIDE DEF object
  <2> QED
    BY <1>1, <1>4, <2>1, <2>2, <2>3 DEF PartsInv
<1>7. ToldInv'
  BY <1>1 DEF ToldInv
<1> QED
  BY <1>2, <1>3, <1>5, <1>6, <1>7 DEF ZombieInv

LEMMA StoreReasonKeeps ==
  ASSUME ZombieInv, NEW t \in Threads, Zombies!StoreReason(t) PROVE ZombieInv'
<1> DEFINE object == heap[worker[t].address]
<1>1. /\ worker[t].at = "reason" /\ told = None
      /\ worker' = [worker EXCEPT ![t].at = "free"]
      /\ last' = IF object.reasoned THEN [last EXCEPT !.reason = object.number] ELSE last
      /\ UNCHANGED <<heap, cache, gone, crossed, told>>
  BY DEF Zombies!StoreReason, Zombies!At, Zombies!Alive, Zombies!Go, Zombies!Object
<1>2. /\ worker' = [u \in Threads |-> worker'[u]] /\ \A u \in Threads : WorkerShape(u)'
      /\ worker'[t].at = "free" /\ worker'[t].address = worker[t].address
      /\ \A u \in Threads \ {t} : worker'[u] = worker[u]
      /\ ObjectInv'
  BY <1>1, WorkerMoves DEF Steps
<1>3. SlotInv' /\ ClassInv'
  BY <1>1, <1>2, SlotsStay
<1>4. /\ last' = [address |-> last'.address, of |-> last'.of, name |-> last'.name,
                  reason |-> last'.reason]
      /\ last'.of = last.of /\ last'.name = last.name
      /\ (object.reasoned => last'.reason = object.number)
  BY <1>1 DEF ZombieInv, ZombieShape
<1>5. ZombieShape'
  BY <1>1, <1>2, <1>4 DEF ZombieInv, ZombieShape
<1>6. PartsInv'
  <2>1. InParts(t) /\ ~InParts(t)' /\ \A u \in Threads \ {t} : InParts(u)' <=> InParts(u)
    BY <1>1, <1>2 DEF InParts
  <2>2. ASSUME "exception" \notin crossed
        PROVE  /\ last.of = object /\ (last.of.named => last.name = last.of.number)
               /\ \A u \in Threads \ {t} : ~InParts(u)
    BY <1>1, <2>1, <2>2 DEF ZombieInv, PartsInv
  <2> HIDE DEF object
  <2> QED
    BY <1>1, <1>4, <2>1, <2>2 DEF PartsInv
<1>7. ToldInv'
  BY <1>1 DEF ToldInv
<1> QED
  BY <1>2, <1>3, <1>5, <1>6, <1>7 DEF ZombieInv

LEMMA FreeObjectKeeps ==
  ASSUME ZombieInv, NEW t \in Threads, Zombies!FreeObject(t) PROVE ZombieInv'
<1> DEFINE a == worker[t].address
<1>1. /\ worker[t].at = "free" /\ told = None
      /\ heap' = [heap EXCEPT ![a] = None]
      /\ worker' = [worker EXCEPT ![t] = [at |-> "idle", address |-> None]]
      /\ UNCHANGED <<cache, last, gone, crossed, told>>
  BY DEF Zombies!FreeObject, Zombies!At, Zombies!Alive, Zombies!Free, Zombies!Idle
<1>2. /\ worker' = [u \in Threads |-> worker'[u]] /\ worker'[t].at = "idle"
      /\ worker'[t] = [at |-> "idle", address |-> None]
      /\ \A u \in Threads \ {t} : worker'[u] = worker[u]
      /\ heap' = [b \in Addresses |-> heap'[b]]
  BY <1>1 DEF ZombieInv, ZombieShape
<1>3. ASSUME NEW u \in Threads \ {t}, worker[u].at # "idle"
      PROVE  heap'[worker[u].address] = heap[worker[u].address]
  <2>1. worker[u].address # a /\ worker[u].address \in Addresses
    BY <1>1, <1>3 DEF ZombieInv, ZombieShape, WorkerShape, ObjectInv
  <2> QED
    BY <1>1, <2>1 DEF ZombieInv, ZombieShape
<1>4. ZombieShape'
  <2>1. \A u \in Threads : WorkerShape(u)'
    BY <1>2 DEF ZombieInv, ZombieShape, WorkerShape, Steps
  <2> QED
    BY <1>1, <1>2, <2>1 DEF ZombieInv, ZombieShape
<1>5. ObjectInv'
  <2>1. SUFFICES ASSUME NEW u \in Threads, worker'[u].at # "idle"
                 PROVE  /\ heap'[worker'[u].address] # None
                        /\ gone'[worker'[u].address] = heap'[worker'[u].address].class
                        /\ \A v \in Threads \ {u} : worker'[v].at # "idle" =>
                               worker'[v].address # worker'[u].address
    BY DEF ObjectInv
  <2>2. u # t /\ worker'[u] = worker[u]
    BY <1>2, <2>1
  <2>3. heap'[worker[u].address] = heap[worker[u].address]
    BY <1>3, <2>1, <2>2
  <2>4. heap'[worker'[u].address] # None /\ gone'[worker'[u].address] = heap'[worker'[u].address].class
    BY <1>1, <2>1, <2>2, <2>3 DEF ZombieInv, ObjectInv
  <2> QED
    BY <1>2, <2>1, <2>2, <2>4 DEF ZombieInv, ObjectInv
<1>6. SlotInv' /\ ClassInv'
  BY <1>1, <1>2, SlotsStay
<1>7. PartsInv'
  <2>1. ~InParts(t) /\ ~InParts(t)' /\ \A u \in Threads \ {t} : InParts(u)' <=> InParts(u)
    BY <1>1, <1>2 DEF InParts
  <2>2. \A u \in Threads \ {t} : InParts(u) =>
            worker'[u] = worker[u] /\ heap'[worker[u].address] = heap[worker[u].address]
    BY <1>2, <1>3 DEF InParts
  <2> QED
    BY <1>1, <2>1, <2>2 DEF ZombieInv, PartsInv
<1>8. ToldInv'
  BY <1>1 DEF ToldInv
<1> QED
  BY <1>4, <1>5, <1>6, <1>7, <1>8 DEF ZombieInv

\* The report has the table as it is, and nothing happens behind it.
LEMMA CrashKeeps == ASSUME ZombieInv, Zombies!Crash PROVE ZombieInv'
<1>1. /\ told' = [class |-> [a \in Addresses |-> Zombies!ClassName(a)],
                  exception |-> IF installed THEN last ELSE [last EXCEPT !.address = None]]
      /\ UNCHANGED <<heap, cache, last, worker, gone, crossed>>
  BY DEF Zombies!Crash
<1>2. ZombieShape'
  BY <1>1 DEF ZombieInv, ZombieShape, WorkerShape
<1>3. ObjectInv' /\ SlotInv' /\ ClassInv'
  BY <1>1 DEF ZombieInv, ObjectInv, SlotInv, ClassInv, Unclear, Zombies!InSlot
<1>4. PartsInv'
  BY <1>1 DEF ZombieInv, PartsInv, InParts
<1>5. ToldInv'
  <2>1. told'.class = [a \in Addresses |-> Zombies!ClassName(a)']
    BY <1>1 DEF Zombies!ClassName
  <2>2. [last EXCEPT !.address = None].address = None
    BY DEF ZombieInv, ZombieShape
  <2>3. told'.exception.address # None => told'.exception = last'
    BY <1>1, <2>2
  <2> QED
    BY <2>1, <2>3 DEF ToldInv
<1> QED
  BY <1>2, <1>3, <1>4, <1>5 DEF ZombieInv

LEMMA ZombieInvStep == ZombieInv /\ [Zombies!Next]_Zombies!vars => ZombieInv'
<1> SUFFICES ASSUME ZombieInv, [Zombies!Next]_Zombies!vars PROVE ZombieInv'
  OBVIOUS
<1>1. CASE UNCHANGED Zombies!vars \/ Zombies!Install
  BY <1>1, Unchanged DEF Zombies!vars, Zombies!Install
<1>2. CASE Zombies!Next /\ ~Zombies!Install
  BY <1>2, AllocateKeeps, DeallocKeeps, NoteClassKeeps, StoreAddressKeeps, StoreNameKeeps,
     StoreReasonKeeps, FreeObjectKeeps, CrashKeeps DEF Zombies!Next
<1> QED
  BY <1>1, <1>2

\* What a report tells of an object that is gone is true of it, unless two deallocs met,
\* for any threads, addresses and slots (handleDealloc, storeException,
\* growingcrashzombie_className).
THEOREM ZombiesAreKnown == Zombies!Spec => []ZombiesAreTold
<1>1. ZombieInv => ZombiesAreTold
  <2> SUFFICES ASSUME ZombieInv PROVE ZombiesAreTold
    OBVIOUS
  <2>1. Zombies!ClassIsOfTheObject
    <3>1. SUFFICES ASSUME told # None, NEW a \in Addresses, told.class[a] # None,
                          ~Unclear(Hash[a])
                   PROVE  told.class[a] = gone[a]
      BY DEF Zombies!ClassIsOfTheObject, Unclear
    <3>2. told.class[a] = Zombies!ClassName(a)
      BY <3>1 DEF ZombieInv, ToldInv
    <3>3. cache[Hash[a]].object = a /\ told.class[a] = cache[Hash[a]].class
      BY <3>1, <3>2 DEF Zombies!ClassName
    <3> QED
      BY <3>1, <3>3 DEF ZombieInv, ClassInv
  <2>2. Zombies!ExceptionIsOne
    <3>1. SUFFICES ASSUME told # None, told.exception.address # None, "exception" \notin crossed,
                          \A t \in Threads : ~Zombies!Storing(t)
                   PROVE  /\ told.exception.of.named =>
                                told.exception.name = told.exception.of.number
                          /\ told.exception.of.reasoned =>
                                told.exception.reason = told.exception.of.number
      BY DEF Zombies!ExceptionIsOne
    <3>2. told.exception = last
      BY <3>1 DEF ZombieInv, ToldInv
    <3>3. \A t \in Threads : ~InParts(t)
      BY <3>1 DEF InParts, Zombies!Storing
    <3> QED
      BY <3>1, <3>2, <3>3 DEF ZombieInv, PartsInv
  <2> QED
    BY <2>1, <2>2 DEF ZombiesAreTold, Zombies!ZombiesAreTold
<1> QED
  BY <1>1, ZombieInvInit, ZombieInvStep, PTL DEF Zombies!Spec
=============================================================================
