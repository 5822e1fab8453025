------------------------ MODULE CrashHandlingProofs ------------------------
(***************************************************************************)
(* Theorems about CrashHandling, for any number of threads and any bounds.  *)
(*                                                                         *)
(* TypeCorrect: the type invariant, strengthened by PathsOK (the writers    *)
(* only touch a report whose path was chosen).                              *)
(*                                                                         *)
(* The others say what a capture may rely on, and what it leaves behind.    *)
(* All but EverybodyResumed assume that no thread of the application is     *)
(* created late.                                                           *)
(*                                                                         *)
(* WorldIsFrozen: a handler that captures has stopped the world.  StopInv   *)
(* is the inductive invariant: the suspend count of a thread covers the     *)
(* handlers that hold it (Balanced), and a handler that has read the thread *)
(* list holds, or will suspend, every application thread but its own       *)
(* (ListsOK).                                                              *)
(*                                                                         *)
(* EverybodyResumed: no thread stays suspended.  ReleaseInv is inductive    *)
(* with late threads too: a thread is suspended at most as often as handlers*)
(* hold it, unless some thread is doomed, that is, has died or crashed or is*)
(* on its way to hand an event on as a signal (Released), and such a thread *)
(* never idles again in a living process.                                   *)
(*                                                                         *)
(* ReportHasFlag: no complete report of a crash without the crash flag.     *)
(* FlagInv is inductive on top of StopInv: a thread that runs at the end of *)
(* its suspension is stopped by nobody, so only one application thread      *)
(* captures (OneCapture) and the shared contexts stay its own (ContextsOK); *)
(* hence the flag is saved for every event that is not a snapshot (FlagOK). *)
(*                                                                         *)
(* ReportsAreOwn: a report describes the event that caused it, although the *)
(* contexts are static.  Two application threads never fill a context at    *)
(* once (StopInv); that the two Mach threads do not, nor the crashed        *)
(* primary one and a thread that reports a signal, is OwnInv, inductive on  *)
(* top of StopInv and FlagInv: a Mach thread that meets another capture has *)
(* been told so by g_handlingFatalException, disables the monitors and ends *)
(* the other one before it fills anything (OneMachContext,                 *)
(* OneSignalContext), because no application thread runs that could change  *)
(* its mind (Margin).                                                      *)
(***************************************************************************)
EXTENDS CrashHandling, FiniteSetTheorems, TLAPS

TypeInv == TypeOK /\ PathsOK

(***************************************************************************)
(* Lemmas about the operators the actions are built from.                  *)
(***************************************************************************)
\* The local variables of a handler have their types.
LEMMA FrameFields ==
  ASSUME ThreadsOK, NEW t \in Threads
  PROVE  /\ frame[t].kind \in Kinds /\ frame[t].ev \in EventIds
         /\ frame[t].served \in Threads /\ frame[t].list \in SUBSET Threads
         /\ frame[t].todo \in SUBSET Threads /\ frame[t].target \in Threads
         /\ frame[t].was \in BOOLEAN /\ frame[t].after \in {"route", "fill", "resume"}
         /\ frame[t].path \in Paths
BY DEF ThreadsOK, Frames

\* The frame with which a handler starts, or with which a thread waits for one.
LEMMA FreshFrame ==
  ASSUME NEW t \in Threads, NEW u \in Threads, NEW k \in Kinds, NEW e \in EventIds
  PROVE  /\ [IdleFrame(t) EXCEPT !.ev = e] \in Frames
         /\ [IdleFrame(t) EXCEPT !.kind = k, !.ev = e] \in Frames
         /\ [IdleFrame(t) EXCEPT !.kind = k, !.ev = e, !.served = u] \in Frames
<1>1. 0 \in EventIds /\ 0 \in Paths
  BY BoundsAssumption DEF EventIds, Paths, MaxReports
<1>2. "signal" \in Kinds
  BY DEF Kinds
<1> QED
  BY <1>1, <1>2 DEF IdleFrame, Frames

\* A thread that starts a handler keeps the types; it is not writing a report yet.
LEMMA StartType ==
  ASSUME ThreadsOK, PathsOK, NEW t \in Threads, NEW k \in Kinds, NEW e \in EventIds,
         Start(t, k, e)
  PROVE  pc' \in [Threads -> Labels] /\ frame' \in [Threads -> Frames] /\ PathsOK'
<1>1. pc' \in [Threads -> Labels]
  BY DEF ThreadsOK, Start, Entry, Tests, Labels
<1>2. frame' \in [Threads -> Frames]
  BY FreshFrame DEF ThreadsOK, Start
<1>3. PathsOK'
  <2> SUFFICES ASSUME NEW u \in Threads,
                      pc'[u] \in {"create", "body", "reopen", "embed", "discard", "rebody"}
               PROVE  frame'[u].path \in ReportIds
    BY DEF PathsOK
  <2>1. u # t
    BY DEF Start, Entry, ThreadsOK
  <2> QED
    BY <2>1 DEF PathsOK, Start, ThreadsOK
<1> QED
  BY <1>1, <1>2, <1>3

\* So does a signal, whether our handler or the default action takes it, ...
LEMMA SignalType ==
  ASSUME ThreadsOK, PathsOK, alive \in BOOLEAN, NEW t \in Threads, NEW e \in EventIds,
         Signal(t, e)
  PROVE  /\ pc' \in [Threads -> Labels] /\ frame' \in [Threads -> Frames] /\ PathsOK'
         /\ alive' \in BOOLEAN
<1>1. CASE "signal" \in enabled
  BY <1>1, StartType DEF Signal, Kinds
<1>2. CASE "signal" \notin enabled
  BY <1>2 DEF Signal, ThreadsOK, PathsOK
<1> QED
  BY <1>1, <1>2

\* ... and a memory fault, whether it goes to the exception port or becomes a signal.
LEMMA FaultType ==
  ASSUME ThreadsOK, PathsOK, alive \in BOOLEAN, queue \subseteq Threads,
         NEW t \in Threads, NEW e \in EventIds, Fault(t, e)
  PROVE  /\ pc' \in [Threads -> Labels] /\ frame' \in [Threads -> Frames] /\ PathsOK'
         /\ alive' \in BOOLEAN /\ queue' \subseteq Threads
<1>1. CASE ports
  <2>1. pc' = [pc EXCEPT ![t] = "blocked"]
        /\ frame' = [frame EXCEPT ![t] = [IdleFrame(t) EXCEPT !.ev = e]]
        /\ queue' = queue \cup {t} /\ alive' = alive
    BY <1>1 DEF Fault
  <2>2. pc' \in [Threads -> Labels]
    BY <2>1 DEF ThreadsOK, Labels
  <2>3. frame' \in [Threads -> Frames]
    BY <2>1, FreshFrame DEF ThreadsOK, Kinds
  <2>4. PathsOK'
    BY <2>1 DEF PathsOK, ThreadsOK
  <2> QED
    BY <2>1, <2>2, <2>3, <2>4
<1>2. CASE ~ports
  BY <1>2, SignalType DEF Fault
<1> QED
  BY <1>1, <1>2

\* A handler always works on one of the monitor contexts.
LEMMA CtxType ==
  ASSUME ThreadsOK, NEW t \in Threads
  PROVE  Ctx(t) \in Contexts
<1>1. frame[t].kind \in Kinds
  BY FrameFields
<1> QED
  BY <1>1 DEF Ctx, Kind, Contexts, Kinds, MonitorOf, UserKinds, Monitors

\* A new report file is well typed.
LEMMA NewReportType ==
  ASSUME ThreadsOK, ReporterOK, NEW t \in Threads
  PROVE  NewReport(t) \in Files
<1>1. ctx[Ctx(t)].event \in EventIds
  BY CtxType DEF ReporterOK
<1> QED
  BY <1>1 DEF NewReport, Files

\* What the writers do to one report file keeps it well typed.
LEMMA FileFields ==
  ASSUME DiskOK, NEW i \in ReportIds
  PROVE  /\ files[i] \in Files /\ aside[i] \in Files
         /\ files[i].of \in EventIds /\ files[i].old \in SUBSET EventIds
         /\ aside[i].of \in EventIds /\ aside[i].old \in SUBSET EventIds
         /\ [files[i] EXCEPT !.state = "full"] \in Files
         /\ \A S \in SUBSET EventIds : [files[i] EXCEPT !.old = S] \in Files
         /\ NoFile \in Files
<1>1. 0 \in EventIds
  BY BoundsAssumption DEF EventIds
<1>2. files[i] \in Files /\ aside[i] \in Files
  BY DEF DiskOK
<1> QED
  BY <1>1, <1>2 DEF Files, NoFile

\* Closing a report completes a file and records its event.
LEMMA CompleteType ==
  ASSUME TypeInv, NEW t \in Threads, frame[t].path \in ReportIds, Complete(t)
  PROVE  files' \in [ReportIds -> Files] /\ written' \subseteq EventIds
<1>1. DiskOK
  BY DEF TypeInv, TypeOK
<1> QED
  BY <1>1, FileFields DEF Complete, DiskOK

\* What the actions assign to the local variables of a handler keeps it well typed.
LEMMA FrameUpdates ==
  ASSUME ThreadsOK, NEW t \in Threads
  PROVE  /\ \A p \in Paths : [frame[t] EXCEPT !.path = p] \in Frames
         /\ \A b \in BOOLEAN : [frame[t] EXCEPT !.was = b] \in Frames
         /\ \A S \in SUBSET Threads :
              [frame[t] EXCEPT !.list = S, !.todo = S] \in Frames
<1>1. frame[t] \in Frames
  BY DEF ThreadsOK
<1>2. \A p \in Paths : [frame[t] EXCEPT !.path = p] \in Frames
  BY <1>1 DEF Frames
<1>3. \A b \in BOOLEAN : [frame[t] EXCEPT !.was = b] \in Frames
  BY <1>1 DEF Frames
<1>4. \A S \in SUBSET Threads : [frame[t] EXCEPT !.list = S, !.todo = S] \in Frames
  BY <1>1 DEF Frames
<1> QED
  BY <1>2, <1>3, <1>4

(***************************************************************************)
(* Every action keeps the types: one lemma per action.                     *)
(***************************************************************************)

\* Action Enter keeps the types.
LEMMA EnterType ==
  ASSUME TypeInv, NEW t \in Threads, Enter(t)
  PROVE  TypeInv'
<1>1. ThreadsOK'
  BY DEF Enter, At, Kind, Goto, MonitorOf, Suspends, AfterSuspend, coreVars,
      machVars, diskVars, envVars, Running, Notifies, TypeInv, TypeOK, ThreadsOK,
      Frames, Labels
<1>2. ReporterOK'
  BY DEF Enter, At, Kind, Goto, MonitorOf, Suspends, AfterSuspend, coreVars,
      machVars, diskVars, envVars, Running, Notifies, TypeInv, TypeOK, ThreadsOK,
      ReporterOK
<1>3. DiskOK' /\ HistoryOK'
  BY DEF Enter, At, Kind, Goto, MonitorOf, Suspends, AfterSuspend, coreVars,
      machVars, diskVars, envVars, Running, Notifies, TypeInv, TypeOK, DiskOK,
      HistoryOK
<1>4. PathsOK'
  BY DEF Enter, At, Kind, Goto, MonitorOf, Suspends, AfterSuspend, coreVars,
      machVars, diskVars, envVars, Running, Notifies, TypeInv, TypeOK, PathsOK,
      ThreadsOK
<1> QED
  BY <1>1, <1>2, <1>3, <1>4 DEF TypeInv, TypeOK

\* Action CallSuspend keeps the types.
LEMMA CallSuspendType ==
  ASSUME TypeInv, NEW t \in Threads, CallSuspend(t)
  PROVE  TypeInv'
<1>1. ThreadsOK'
  BY DEF CallSuspend, At, Goto, coreVars, machVars, diskVars, envVars, Running,
      TypeInv, TypeOK, ThreadsOK, Frames, Labels
<1>2. ReporterOK'
  BY DEF CallSuspend, At, Goto, coreVars, machVars, diskVars, envVars, Running,
      TypeInv, TypeOK, ThreadsOK, ReporterOK
<1>3. DiskOK' /\ HistoryOK'
  BY DEF CallSuspend, At, Goto, coreVars, machVars, diskVars, envVars, Running,
      TypeInv, TypeOK, DiskOK, HistoryOK
<1>4. PathsOK'
  BY DEF CallSuspend, At, Goto, coreVars, machVars, diskVars, envVars, Running,
      TypeInv, TypeOK, PathsOK, ThreadsOK
<1> QED
  BY <1>1, <1>2, <1>3, <1>4 DEF TypeInv, TypeOK

\* Action Suspend keeps the types.
LEMMA SuspendType ==
  ASSUME TypeInv, NEW t \in Threads, Suspend(t)
  PROVE  TypeInv'
<1>1. ThreadsOK'
  BY DEF Suspend, Goto, coreVars, machVars, diskVars, envVars, TypeInv, TypeOK,
      ThreadsOK, Frames, Labels
<1>2. ReporterOK'
  BY DEF Suspend, Goto, coreVars, machVars, diskVars, envVars, TypeInv, TypeOK,
      ThreadsOK, ReporterOK
<1>3. DiskOK' /\ HistoryOK'
  BY DEF Suspend, Goto, coreVars, machVars, diskVars, envVars, TypeInv, TypeOK,
      DiskOK, HistoryOK
<1>4. PathsOK'
  BY DEF Suspend, Goto, coreVars, machVars, diskVars, envVars, TypeInv, TypeOK,
      PathsOK, ThreadsOK
<1> QED
  BY <1>1, <1>2, <1>3, <1>4 DEF TypeInv, TypeOK

\* Action EndSuspend keeps the types.
LEMMA EndSuspendType ==
  ASSUME TypeInv, NEW t \in Threads, EndSuspend(t)
  PROVE  TypeInv'
<1>1. ThreadsOK'
  BY DEF EndSuspend, At, AllSuspended, Goto, AfterSuspend, Kind, coreVars, diskVars,
      envVars, Running, Notifies, TypeInv, TypeOK, ThreadsOK, Frames, Labels
<1>2. ReporterOK'
  BY DEF EndSuspend, At, AllSuspended, Goto, AfterSuspend, Kind, coreVars, diskVars,
      envVars, Running, Notifies, TypeInv, TypeOK, ThreadsOK, ReporterOK
<1>3. DiskOK' /\ HistoryOK'
  BY DEF EndSuspend, At, AllSuspended, Goto, AfterSuspend, Kind, coreVars, diskVars,
      envVars, Running, Notifies, TypeInv, TypeOK, DiskOK, HistoryOK
<1>4. PathsOK'
  BY DEF EndSuspend, At, AllSuspended, Goto, AfterSuspend, Kind, coreVars, diskVars,
      envVars, Running, Notifies, TypeInv, TypeOK, PathsOK, ThreadsOK
<1> QED
  BY <1>1, <1>2, <1>3, <1>4 DEF TypeInv, TypeOK

\* Action MarkFatal keeps the types.
LEMMA MarkFatalType ==
  ASSUME TypeInv, NEW t \in Threads, MarkFatal(t)
  PROVE  TypeInv'
<1>1. ThreadsOK'
  BY DEF MarkFatal, At, CrashedDuring, Kind, Goto, machVars, diskVars, envVars,
      Running, TypeInv, TypeOK, ThreadsOK, Frames, Labels
<1>2. ReporterOK'
  BY DEF MarkFatal, At, CrashedDuring, Kind, Goto, machVars, diskVars, envVars,
      Running, TypeInv, TypeOK, ThreadsOK, ReporterOK
<1>3. DiskOK' /\ HistoryOK'
  BY DEF MarkFatal, At, CrashedDuring, Kind, Goto, machVars, diskVars, envVars,
      Running, TypeInv, TypeOK, DiskOK, HistoryOK
<1>4. PathsOK'
  BY DEF MarkFatal, At, CrashedDuring, Kind, Goto, machVars, diskVars, envVars,
      Running, TypeInv, TypeOK, PathsOK, ThreadsOK
<1> QED
  BY <1>1, <1>2, <1>3, <1>4 DEF TypeInv, TypeOK

\* Action DisableMach keeps the types.
LEMMA DisableMachType ==
  ASSUME TypeInv, NEW t \in Threads, DisableMach(t)
  PROVE  TypeInv'
<1>1. ThreadsOK'
  BY DEF DisableMach, At, Goto, coreVars, machVars, diskVars, envVars, Running,
      TypeInv, TypeOK, ThreadsOK, Frames, Labels
<1>2. ReporterOK'
  BY DEF DisableMach, At, Goto, coreVars, machVars, diskVars, envVars, Running,
      TypeInv, TypeOK, ThreadsOK, ReporterOK
<1>3. DiskOK' /\ HistoryOK'
  BY DEF DisableMach, At, Goto, coreVars, machVars, diskVars, envVars, Running,
      TypeInv, TypeOK, DiskOK, HistoryOK
<1>4. PathsOK'
  BY DEF DisableMach, At, Goto, coreVars, machVars, diskVars, envVars, Running,
      TypeInv, TypeOK, PathsOK, ThreadsOK
<1> QED
  BY <1>1, <1>2, <1>3, <1>4 DEF TypeInv, TypeOK

\* Action UninstallMach keeps the types.
LEMMA UninstallMachType ==
  ASSUME TypeInv, NEW t \in Threads, UninstallMach(t)
  PROVE  TypeInv'
<1>1. ThreadsOK'
  BY DEF UninstallMach, At, coreVars, diskVars, envVars, Running, TypeInv, TypeOK,
      ThreadsOK, Frames, Labels
<1>2. ReporterOK'
  BY DEF UninstallMach, At, coreVars, diskVars, envVars, Running, TypeInv, TypeOK,
      ThreadsOK, ReporterOK
<1>3. DiskOK' /\ HistoryOK'
  BY DEF UninstallMach, At, coreVars, diskVars, envVars, Running, TypeInv, TypeOK,
      DiskOK, HistoryOK
<1>4. PathsOK'
  BY DEF UninstallMach, At, coreVars, diskVars, envVars, Running, TypeInv, TypeOK,
      PathsOK, ThreadsOK
<1> QED
  BY <1>1, <1>2, <1>3, <1>4 DEF TypeInv, TypeOK

\* Action EndCancelled keeps the types.
LEMMA EndCancelledType ==
  ASSUME TypeInv, NEW t \in Threads, EndCancelled(t)
  PROVE  TypeInv'
<1>1. ThreadsOK'
  BY DEF EndCancelled, Running, Goto, coreVars, machVars, diskVars, envVars, TypeInv,
      TypeOK, ThreadsOK, Frames, Labels
<1>2. ReporterOK'
  BY DEF EndCancelled, Running, Goto, coreVars, machVars, diskVars, envVars, TypeInv,
      TypeOK, ThreadsOK, ReporterOK
<1>3. DiskOK' /\ HistoryOK'
  BY DEF EndCancelled, Running, Goto, coreVars, machVars, diskVars, envVars, TypeInv,
      TypeOK, DiskOK, HistoryOK
<1>4. PathsOK'
  BY DEF EndCancelled, Running, Goto, coreVars, machVars, diskVars, envVars, TypeInv,
      TypeOK, PathsOK, ThreadsOK
<1> QED
  BY <1>1, <1>2, <1>3, <1>4 DEF TypeInv, TypeOK

\* Action ActivateSecondary keeps the types.
LEMMA ActivateSecondaryType ==
  ASSUME TypeInv, NEW t \in Threads, ActivateSecondary(t)
  PROVE  TypeInv'
<1>1. ThreadsOK'
  BY DEF ActivateSecondary, At, Goto, coreVars, diskVars, envVars, Running, TypeInv,
      TypeOK, ThreadsOK, Frames, Labels
<1>2. ReporterOK'
  BY DEF ActivateSecondary, At, Goto, coreVars, diskVars, envVars, Running, TypeInv,
      TypeOK, ThreadsOK, ReporterOK
<1>3. DiskOK' /\ HistoryOK'
  BY DEF ActivateSecondary, At, Goto, coreVars, diskVars, envVars, Running, TypeInv,
      TypeOK, DiskOK, HistoryOK
<1>4. PathsOK'
  BY DEF ActivateSecondary, At, Goto, coreVars, diskVars, envVars, Running, TypeInv,
      TypeOK, PathsOK, ThreadsOK
<1> QED
  BY <1>1, <1>2, <1>3, <1>4 DEF TypeInv, TypeOK

\* Action NoteCrash keeps the types.
LEMMA NoteCrashType ==
  ASSUME TypeInv, NEW t \in Threads, NoteCrash(t)
  PROVE  TypeInv'
<1>1. ThreadsOK'
  BY DEF NoteCrash, At, SavesCrash, Goto, Ctx, coreVars, machVars, envVars, Running,
      Kind, MonitorOf, TypeInv, TypeOK, ThreadsOK, Frames, Labels
<1>2. ReporterOK'
  BY DEF NoteCrash, At, SavesCrash, Goto, Ctx, coreVars, machVars, envVars, Running,
      Kind, MonitorOf, TypeInv, TypeOK, ThreadsOK, ReporterOK
<1>3. DiskOK' /\ HistoryOK'
  BY DEF NoteCrash, At, SavesCrash, Goto, Ctx, coreVars, machVars, envVars, Running,
      Kind, MonitorOf, TypeInv, TypeOK, DiskOK, HistoryOK
<1>4. PathsOK'
  BY DEF NoteCrash, At, SavesCrash, Goto, Ctx, coreVars, machVars, envVars, Running,
      Kind, MonitorOf, TypeInv, TypeOK, PathsOK, ThreadsOK
<1> QED
  BY <1>1, <1>2, <1>3, <1>4 DEF TypeInv, TypeOK

\* Action Conclude keeps the types.
LEMMA ConcludeType ==
  ASSUME TypeInv, NEW t \in Threads, Conclude(t)
  PROVE  TypeInv'
<1>1. ThreadsOK'
  BY DEF Conclude, At, IsSnapshot, Goto, machVars, diskVars, envVars, Running, Ctx,
      Kind, MonitorOf, TypeInv, TypeOK, ThreadsOK, Frames, Labels
<1>2. ReporterOK'
  BY DEF Conclude, At, IsSnapshot, Goto, machVars, diskVars, envVars, Running, Ctx,
      Kind, MonitorOf, TypeInv, TypeOK, ThreadsOK, ReporterOK
<1>3. DiskOK' /\ HistoryOK'
  BY DEF Conclude, At, IsSnapshot, Goto, machVars, diskVars, envVars, Running, Ctx,
      Kind, MonitorOf, TypeInv, TypeOK, DiskOK, HistoryOK
<1>4. PathsOK'
  BY DEF Conclude, At, IsSnapshot, Goto, machVars, diskVars, envVars, Running, Ctx,
      Kind, MonitorOf, TypeInv, TypeOK, PathsOK, ThreadsOK
<1> QED
  BY <1>1, <1>2, <1>3, <1>4 DEF TypeInv, TypeOK

\* Action BeginResume keeps the types.
LEMMA BeginResumeType ==
  ASSUME TypeInv, NEW t \in Threads, BeginResume(t)
  PROVE  TypeInv'
<1>1. ThreadsOK'
  BY DEF BeginResume, At, Kind, Resumes, Goto, coreVars, diskVars, envVars, Running,
      Suspends, TypeInv, TypeOK, ThreadsOK, Frames, Labels
<1>2. ReporterOK'
  BY DEF BeginResume, At, Kind, Resumes, Goto, coreVars, diskVars, envVars, Running,
      Suspends, TypeInv, TypeOK, ThreadsOK, ReporterOK
<1>3. DiskOK' /\ HistoryOK'
  BY DEF BeginResume, At, Kind, Resumes, Goto, coreVars, diskVars, envVars, Running,
      Suspends, TypeInv, TypeOK, DiskOK, HistoryOK
<1>4. PathsOK'
  BY DEF BeginResume, At, Kind, Resumes, Goto, coreVars, diskVars, envVars, Running,
      Suspends, TypeInv, TypeOK, PathsOK, ThreadsOK
<1> QED
  BY <1>1, <1>2, <1>3, <1>4 DEF TypeInv, TypeOK

\* Action EndResume keeps the types.
LEMMA EndResumeType ==
  ASSUME TypeInv, NEW t \in Threads, EndResume(t)
  PROVE  TypeInv'
<1>1. ThreadsOK'
  BY DEF EndResume, At, Goto, Kind, coreVars, machVars, diskVars, envVars, Running,
      TypeInv, TypeOK, ThreadsOK, Frames, Labels
<1>2. ReporterOK'
  BY DEF EndResume, At, Goto, Kind, coreVars, machVars, diskVars, envVars, Running,
      TypeInv, TypeOK, ThreadsOK, ReporterOK
<1>3. DiskOK' /\ HistoryOK'
  BY DEF EndResume, At, Goto, Kind, coreVars, machVars, diskVars, envVars, Running,
      TypeInv, TypeOK, DiskOK, HistoryOK
<1>4. PathsOK'
  BY DEF EndResume, At, Goto, Kind, coreVars, machVars, diskVars, envVars, Running,
      TypeInv, TypeOK, PathsOK, ThreadsOK
<1> QED
  BY <1>1, <1>2, <1>3, <1>4 DEF TypeInv, TypeOK

\* Action Spawn keeps the types.
LEMMA SpawnType ==
  ASSUME TypeInv, NEW t \in Threads, Spawn(t)
  PROVE  TypeInv'
<1>1. ThreadsOK'
  BY DEF Spawn, At, threadVars, coreVars, machVars, diskVars, Running, TypeInv,
      TypeOK, ThreadsOK, Frames, Labels
<1>2. ReporterOK'
  BY DEF Spawn, At, threadVars, coreVars, machVars, diskVars, Running, TypeInv,
      TypeOK, ThreadsOK, ReporterOK
<1>3. DiskOK' /\ HistoryOK'
  BY DEF Spawn, At, threadVars, coreVars, machVars, diskVars, Running, TypeInv,
      TypeOK, DiskOK, HistoryOK
<1>4. PathsOK'
  BY DEF Spawn, At, threadVars, coreVars, machVars, diskVars, Running, TypeInv,
      TypeOK, PathsOK, ThreadsOK
<1> QED
  BY <1>1, <1>2, <1>3, <1>4 DEF TypeInv, TypeOK

\* Action ReadThreadList keeps the types.
LEMMA ReadThreadListType ==
  ASSUME TypeInv, NEW t \in Threads, ReadThreadList(t)
  PROVE  TypeInv'
<1> DEFINE others == live \ (Handlers \cup {t})
<1>0. others \in SUBSET Threads
  BY DEF TypeInv, TypeOK, ThreadsOK
<1>1. ThreadsOK'
  <2>1. frame' = [frame EXCEPT ![t] = [frame[t] EXCEPT !.list = others, !.todo =
      others]]
    BY DEF ReadThreadList
  <2>2. frame' \in [Threads -> Frames]
    BY <1>0, <2>1, FrameUpdates DEF TypeInv, TypeOK, ThreadsOK
  <2> QED
    BY <2>2 DEF ReadThreadList, At, Goto, coreVars, machVars, diskVars, envVars,
        Running, TypeInv, TypeOK, ThreadsOK, Labels
<1>2. ReporterOK'
  BY DEF ReadThreadList, At, Goto, coreVars, machVars, diskVars, envVars, Running,
      TypeInv, TypeOK, ThreadsOK, ReporterOK
<1>3. DiskOK' /\ HistoryOK'
  BY DEF ReadThreadList, At, Goto, coreVars, machVars, diskVars, envVars, Running,
      TypeInv, TypeOK, DiskOK, HistoryOK
<1>4. PathsOK'
  BY DEF ReadThreadList, At, Goto, coreVars, machVars, diskVars, envVars, Running,
      TypeInv, TypeOK, PathsOK, ThreadsOK
<1> QED
  BY <1>1, <1>2, <1>3, <1>4 DEF TypeInv, TypeOK

\* Action NotifyFatal keeps the types.
LEMMA NotifyFatalType ==
  ASSUME TypeInv, NEW t \in Threads, NotifyFatal(t)
  PROVE  TypeInv'
<1>0. handling \in BOOLEAN
  BY DEF TypeInv, TypeOK, ReporterOK
<1>1. ThreadsOK'
  <2>1. frame' = [frame EXCEPT ![t] = [frame[t] EXCEPT !.was = handling]]
    BY DEF NotifyFatal, HandlingSeen
  <2>2. frame' \in [Threads -> Frames]
    BY <1>0, <2>1, FrameUpdates DEF TypeInv, TypeOK, ThreadsOK
  <2> QED
    BY <2>2 DEF NotifyFatal, At, HandlingSeen, Goto, coreVars, machVars, diskVars,
        envVars, Running, TypeInv, TypeOK, ThreadsOK, Labels
<1>2. ReporterOK'
  BY DEF NotifyFatal, At, HandlingSeen, Goto, coreVars, machVars, diskVars, envVars,
      Running, TypeInv, TypeOK, ThreadsOK, ReporterOK
<1>3. DiskOK' /\ HistoryOK'
  BY DEF NotifyFatal, At, HandlingSeen, Goto, coreVars, machVars, diskVars, envVars,
      Running, TypeInv, TypeOK, DiskOK, HistoryOK
<1>4. PathsOK'
  BY DEF NotifyFatal, At, HandlingSeen, Goto, coreVars, machVars, diskVars, envVars,
      Running, TypeInv, TypeOK, PathsOK, ThreadsOK
<1> QED
  BY <1>1, <1>2, <1>3, <1>4 DEF TypeInv, TypeOK

\* Action DisableOthers keeps the types.
LEMMA DisableOthersType ==
  ASSUME TypeInv, NEW t \in Threads, DisableOthers(t)
  PROVE  TypeInv'
<1>0. frame[t].after \in {"route", "fill", "resume"}
  BY FrameFields DEF TypeInv, TypeOK
<1>1. ThreadsOK'
  BY <1>0 DEF DisableOthers, At, NoneActive, Goto, coreVars, machVars, diskVars,
      envVars, Running, TypeInv, TypeOK, ThreadsOK, Frames, Labels
<1>2. ReporterOK'
  BY DEF DisableOthers, At, NoneActive, Goto, coreVars, machVars, diskVars, envVars,
      Running, TypeInv, TypeOK, ThreadsOK, ReporterOK
<1>3. DiskOK' /\ HistoryOK'
  BY DEF DisableOthers, At, NoneActive, Goto, coreVars, machVars, diskVars, envVars,
      Running, TypeInv, TypeOK, DiskOK, HistoryOK
<1>4. PathsOK'
  BY <1>0 DEF DisableOthers, At, NoneActive, Goto, coreVars, machVars, diskVars,
      envVars, Running, TypeInv, TypeOK, PathsOK, ThreadsOK
<1> QED
  BY <1>1, <1>2, <1>3, <1>4 DEF TypeInv, TypeOK

\* Action FillContext keeps the types.
LEMMA FillContextType ==
  ASSUME TypeInv, NEW t \in Threads, FillContext(t)
  PROVE  TypeInv'
<1>0. Ctx(t) \in Contexts /\ frame[t].ev \in EventIds
  BY CtxType, FrameFields DEF TypeInv, TypeOK
<1>1. ThreadsOK'
  BY DEF FillContext, At, Ctx, Kind, Goto, coreVars, machVars, diskVars, envVars,
      Running, MonitorOf, TypeInv, TypeOK, ThreadsOK, Frames, Labels
<1>2. ReporterOK'
  BY <1>0 DEF FillContext, At, Kind, Goto, coreVars, machVars, diskVars, envVars,
      Running, TypeInv, TypeOK, ThreadsOK, ReporterOK
<1>3. DiskOK' /\ HistoryOK'
  BY DEF FillContext, At, Ctx, Kind, Goto, coreVars, machVars, diskVars, envVars,
      Running, MonitorOf, TypeInv, TypeOK, DiskOK, HistoryOK
<1>4. PathsOK'
  BY DEF FillContext, At, Ctx, Kind, Goto, coreVars, machVars, diskVars, envVars,
      Running, MonitorOf, TypeInv, TypeOK, PathsOK, ThreadsOK
<1> QED
  BY <1>1, <1>2, <1>3, <1>4 DEF TypeInv, TypeOK

\* Action HandleException keeps the types.
LEMMA HandleExceptionType ==
  ASSUME TypeInv, NEW t \in Threads, HandleException(t)
  PROVE  TypeInv'
<1>0. Ctx(t) \in Contexts /\ frame[t].ev \in EventIds
  BY CtxType, FrameFields DEF TypeInv, TypeOK
<1>1. ThreadsOK'
  BY DEF HandleException, At, Ctx, Recrash, Goto, coreVars, machVars, diskVars,
      envVars, Running, Kind, MonitorOf, TypeInv, TypeOK, ThreadsOK, Frames, Labels
<1>2. ReporterOK'
  BY <1>0 DEF HandleException, At, Recrash, Goto, coreVars, machVars, diskVars,
      envVars, Running, Kind, TypeInv, TypeOK, ThreadsOK, ReporterOK
<1>3. DiskOK' /\ HistoryOK'
  BY DEF HandleException, At, Ctx, Recrash, Goto, coreVars, machVars, diskVars,
      envVars, Running, Kind, MonitorOf, TypeInv, TypeOK, DiskOK, HistoryOK
<1>4. PathsOK'
  BY DEF HandleException, At, Ctx, Recrash, Goto, coreVars, machVars, diskVars,
      envVars, Running, Kind, MonitorOf, TypeInv, TypeOK, PathsOK, ThreadsOK
<1> QED
  BY <1>1, <1>2, <1>3, <1>4 DEF TypeInv, TypeOK

\* Action ChoosePath keeps the types.
LEMMA ChoosePathType ==
  ASSUME TypeInv, NEW t \in Threads, ChoosePath(t)
  PROVE  TypeInv'
<1>0. nextId \in ReportIds /\ nextId \in Paths /\ nextId + 1 \in 1 .. MaxReports + 1
  BY BoundsAssumption DEF ChoosePath, ReportIds, Paths, MaxReports
<1>1. ThreadsOK'
  <2>1. frame' = [frame EXCEPT ![t] = [frame[t] EXCEPT !.path = nextId]]
    BY DEF ChoosePath
  <2>2. frame' \in [Threads -> Frames]
    BY <1>0, <2>1, FrameUpdates DEF TypeInv, TypeOK, ThreadsOK
  <2> QED
    BY <2>2 DEF ChoosePath, At, Goto, coreVars, machVars, envVars, Running, TypeInv,
        TypeOK, ThreadsOK, Labels
<1>2. ReporterOK'
  BY DEF ChoosePath, At, Goto, coreVars, machVars, envVars, Running, TypeInv, TypeOK,
      ThreadsOK, ReporterOK
<1>3. DiskOK' /\ HistoryOK'
  BY <1>0 DEF ChoosePath, At, Goto, coreVars, machVars, envVars, Running, TypeInv,
      TypeOK, DiskOK, HistoryOK
<1>4. PathsOK'
  BY <1>0 DEF ChoosePath, At, Goto, coreVars, machVars, envVars, Running, TypeInv,
      TypeOK, PathsOK, ThreadsOK
<1> QED
  BY <1>1, <1>2, <1>3, <1>4 DEF TypeInv, TypeOK

\* The two writers create a file.
LEMMA CreateReportType ==
  ASSUME TypeInv, NEW t \in Threads, CreateReport(t) \/ CreateRecrash(t)
  PROVE  TypeInv'
<1>0. ThreadsOK /\ ReporterOK /\ DiskOK /\ PathsOK
  BY DEF TypeInv, TypeOK
<1>1. frame[t].path \in ReportIds /\ NewReport(t) \in Files
  BY <1>0, NewReportType DEF CreateReport, CreateRecrash, At, PathsOK
<1>2. DiskOK'
  <2>1. files' \in [ReportIds -> Files]
    BY <1>0, <1>1 DEF CreateReport, CreateRecrash, DiskOK
  <2> QED
    BY <1>0, <2>1 DEF CreateReport, CreateRecrash, DiskOK
<1>3. ThreadsOK' /\ ReporterOK' /\ HistoryOK'
  BY DEF CreateReport, CreateRecrash, Goto, coreVars, machVars, envVars, TypeInv,
      TypeOK,
     ThreadsOK, ReporterOK, HistoryOK, Labels
<1>4. PathsOK'
  BY <1>0, <1>1 DEF CreateReport, CreateRecrash, Goto, PathsOK, ThreadsOK
<1> QED
  BY <1>2, <1>3, <1>4 DEF TypeInv, TypeOK

\* The two writers complete a file.
LEMMA WriteReportType ==
  ASSUME TypeInv, NEW t \in Threads, WriteReport(t) \/ WriteRecrash(t)
  PROVE  TypeInv'
<1>0. ThreadsOK /\ DiskOK /\ PathsOK
  BY DEF TypeInv, TypeOK
<1>1. frame[t].path \in ReportIds /\ Complete(t)
  BY <1>0 DEF WriteReport, WriteRecrash, At, PathsOK
<1>2. DiskOK'
  BY <1>0, <1>1, CompleteType DEF WriteReport, WriteRecrash, DiskOK
<1>3. ThreadsOK' /\ ReporterOK' /\ HistoryOK'
  BY DEF WriteReport, WriteRecrash, Goto, coreVars, machVars, envVars, TypeInv,
      TypeOK,
     ThreadsOK, ReporterOK, HistoryOK, Labels
<1>4. PathsOK'
  BY <1>0, <1>1 DEF WriteReport, WriteRecrash, Goto, PathsOK, ThreadsOK
<1> QED
  BY <1>2, <1>3, <1>4 DEF TypeInv, TypeOK

\* Action RenameOld keeps the types.
LEMMA RenameOldType ==
  ASSUME TypeInv, NEW t \in Threads, RenameOld(t)
  PROVE  TypeInv'
<1>0. ThreadsOK /\ DiskOK /\ PathsOK /\ lastPath \in Paths
  BY DEF TypeInv, TypeOK, DiskOK
<1>1. files' \in [ReportIds -> Files] /\ aside' \in [ReportIds -> Files]
  <2>1. CASE lastPath = 0 \/ files[lastPath].state = "none"
    <3>1. files' = files /\ aside' = aside
      BY <2>1 DEF RenameOld
    <3> QED
      BY <1>0, <3>1 DEF DiskOK
  <2>2. CASE lastPath # 0 /\ files[lastPath].state # "none"
    <3>1. lastPath \in ReportIds
      BY <1>0, <2>2 DEF Paths, ReportIds
    <3>2. /\ aside' = [aside EXCEPT ![lastPath] = files[lastPath]]
          /\ files' = [files EXCEPT ![lastPath] = NoFile]
      BY <2>2 DEF RenameOld
    <3> QED
      BY <1>0, <3>1, <3>2, FileFields DEF DiskOK
  <2> QED
    BY <2>1, <2>2
<1>2. DiskOK'
  BY <1>0, <1>1 DEF RenameOld, DiskOK
<1>3. ThreadsOK'
  <2>1. frame' = [frame EXCEPT ![t] = [frame[t] EXCEPT !.path = lastPath]]
    BY DEF RenameOld
  <2>2. frame' \in [Threads -> Frames]
    BY <1>0, <2>1, FrameUpdates DEF ThreadsOK
  <2> QED
    BY <1>0, <2>2 DEF RenameOld, Goto, envVars, ThreadsOK, Labels
<1>4. ReporterOK' /\ HistoryOK'
  BY DEF RenameOld, coreVars, machVars, envVars, TypeInv, TypeOK, ReporterOK,
      HistoryOK
<1>5. PathsOK'
  <2>1. lastPath # 0 => lastPath \in ReportIds
    BY <1>0 DEF Paths, ReportIds
  <2>2. /\ pc' = [pc EXCEPT ![t] = IF lastPath = 0 THEN "conclude" ELSE "reopen"]
        /\ frame' = [frame EXCEPT ![t].path = lastPath]
    BY DEF RenameOld, Goto
  <2> QED
    BY <1>0, <2>1, <2>2 DEF PathsOK, ThreadsOK, Frames
<1> QED
  BY <1>2, <1>3, <1>4, <1>5 DEF TypeInv, TypeOK

\* The renamed report is embedded and removed.
LEMMA EmbedOldType ==
  ASSUME TypeInv, NEW t \in Threads, EmbedOld(t) \/ RemoveOld(t)
  PROVE  TypeInv'
<1>0. ThreadsOK /\ DiskOK /\ PathsOK
  BY DEF TypeInv, TypeOK
<1>1. frame[t].path \in ReportIds
  BY <1>0 DEF EmbedOld, RemoveOld, At, PathsOK
<1>2. DiskOK'
  <2>1. CASE EmbedOld(t)
    <3>1. Embedded(aside[frame[t].path]) \in SUBSET EventIds
      BY <1>0, <1>1, FileFields DEF Embedded
    <3>2. files' \in [ReportIds -> Files]
      BY <1>0, <1>1, <2>1, <3>1, FileFields DEF EmbedOld, DiskOK
    <3> QED
      BY <1>0, <2>1, <3>2 DEF EmbedOld, DiskOK
  <2>2. CASE RemoveOld(t)
    BY <1>0, <1>1, <2>2, FileFields DEF RemoveOld, DiskOK
  <2> QED
    BY <2>1, <2>2
<1>3. ThreadsOK' /\ ReporterOK' /\ HistoryOK'
  BY DEF EmbedOld, RemoveOld, Goto, coreVars, machVars, envVars, TypeInv, TypeOK,
     ThreadsOK, ReporterOK, HistoryOK, Labels
<1>4. PathsOK'
  BY <1>0, <1>1 DEF EmbedOld, RemoveOld, Goto, PathsOK, ThreadsOK
<1> QED
  BY <1>2, <1>3, <1>4 DEF TypeInv, TypeOK

\* Action Resume keeps the types.
LEMMA ResumeType ==
  ASSUME TypeInv, NEW t \in Threads, Resume(t)
  PROVE  TypeInv'
<1>0. ThreadsOK
  BY DEF TypeInv, TypeOK
<1>1. PICK u \in frame[t].todo : /\ susp' = [susp EXCEPT ![u] = Resumed(@)]
                                 /\ frame' = [frame EXCEPT ![t].todo = @ \ {u}]
  BY DEF Resume
<1>2. u \in Threads
  BY <1>0, FrameFields
<1>3. susp' \in [Threads -> Nat]
  BY <1>0, <1>1, <1>2 DEF Resumed, ThreadsOK
<1>4. frame' \in [Threads -> Frames]
  BY <1>0, <1>1 DEF ThreadsOK, Frames
<1>5. ThreadsOK'
  BY <1>0, <1>3, <1>4 DEF Resume, envVars, ThreadsOK
<1>6. ReporterOK' /\ DiskOK' /\ HistoryOK'
  BY DEF Resume, coreVars, machVars, diskVars, envVars, TypeInv, TypeOK, ReporterOK,
     DiskOK, HistoryOK
<1>7. PathsOK'
  BY <1>1 DEF Resume, TypeInv, TypeOK, PathsOK, ThreadsOK
<1> QED
  BY <1>5, <1>6, <1>7 DEF TypeInv, TypeOK

\* The end of a handler, and the signal that follows a fault.
LEMMA LeaveType ==
  ASSUME TypeInv, NEW t \in Threads, Leave(t) \/ Deliver(t)
  PROVE  TypeInv'
<1> DEFINE Good == /\ pc' \in [Threads -> Labels] /\ frame' \in [Threads -> Frames]
                   /\ PathsOK' /\ alive' \in BOOLEAN
<1>0. ThreadsOK /\ PathsOK /\ alive \in BOOLEAN
  BY DEF TypeInv, TypeOK, ReporterOK
<1>1. frame[t].ev \in EventIds
  BY <1>0, FrameFields
<1>2. CASE Signal(t, frame[t].ev)
  <2> Good
    BY <1>0, <1>1, <1>2, SignalType
  <2> QED
    BY DEF Leave, Deliver, coreVars, machVars, diskVars, envVars, TypeInv, TypeOK,
       ThreadsOK, ReporterOK, DiskOK, HistoryOK
<1>3. CASE Start(t, "nsexception", frame[t].ev) /\ alive' = alive
  <2> Good
    BY <1>0, <1>1, <1>3, StartType DEF Kinds
  <2> QED
    BY DEF Leave, Deliver, coreVars, machVars, diskVars, envVars, TypeInv, TypeOK,
       ThreadsOK, ReporterOK, DiskOK, HistoryOK
<1>4. CASE Leave(t) /\ Kind(t) \in {"snapshot", "mach"}
  <2> Good
    BY <1>0, <1>4 DEF Leave, Goto, ThreadsOK, PathsOK, Labels
  <2> QED
    BY <1>4 DEF Leave, coreVars, machVars, diskVars, envVars, TypeInv, TypeOK,
       ThreadsOK, ReporterOK, DiskOK, HistoryOK
<1> QED
  BY <1>2, <1>3, <1>4 DEF Leave, Deliver

\* Action Receive keeps the types.
LEMMA ReceiveType ==
  ASSUME TypeInv, NEW t \in Threads, Receive(t)
  PROVE  TypeInv'
<1>0. ThreadsOK /\ queue \subseteq Threads
  BY DEF TypeInv, TypeOK, ReporterOK
<1>1. PICK u \in queue :
        /\ queue' = queue \ {u} /\ pc' = [pc EXCEPT ![t] = "enter"]
        /\ frame' = [frame EXCEPT ![t] = [IdleFrame(t) EXCEPT
                        !.kind = "mach", !.ev = frame[u].ev, !.served = u]]
  BY DEF Receive
<1>2. u \in Threads /\ frame[u].ev \in EventIds /\ "mach" \in Kinds
  BY <1>0, FrameFields DEF Kinds
<1>3. frame' \in [Threads -> Frames]
  BY <1>0, <1>1, <1>2, FreshFrame DEF ThreadsOK
<1>4. ThreadsOK'
  BY <1>0, <1>1, <1>3 DEF Receive, ThreadsOK, Labels
<1>5. ReporterOK' /\ DiskOK' /\ HistoryOK'
  BY <1>0, <1>1 DEF Receive, coreVars, diskVars, TypeInv, TypeOK, ReporterOK, DiskOK,
     HistoryOK
<1>6. PathsOK'
  BY <1>0, <1>1 DEF TypeInv, PathsOK, ThreadsOK
<1> QED
  BY <1>4, <1>5, <1>6 DEF TypeInv, TypeOK

\* A new event has a number within the bound and an origin.
LEMMA NewEventType ==
  ASSUME TypeInv, NEW o \in FatalOrigins \cup NonFatalOrigins, NewEvent(o)
  PROVE  /\ events + 1 \in EventIds /\ events' \in EventIds
         /\ origin' \in [1 .. MaxEvents ->
                            FatalOrigins \cup NonFatalOrigins \cup {"none"}]
<1>1. events \in EventIds /\ events < MaxEvents /\ events' = events + 1
      /\ origin' = [origin EXCEPT ![events + 1] = o]
  BY DEF NewEvent, TypeInv, TypeOK, HistoryOK
<1>2. events + 1 \in EventIds /\ events + 1 \in 1 .. MaxEvents
  BY <1>1, BoundsAssumption DEF EventIds
<1> QED
  BY <1>1, <1>2 DEF TypeInv, TypeOK, HistoryOK

\* Action HandlerFault keeps the types.
LEMMA HandlerFaultType ==
  ASSUME TypeInv, NEW t \in Threads, HandlerFault(t)
  PROVE  TypeInv'
<1>0. ThreadsOK /\ PathsOK /\ alive \in BOOLEAN /\ queue \subseteq Threads
  BY DEF TypeInv, TypeOK, ReporterOK
<1>1. events + 1 \in EventIds /\ HistoryOK'
  BY NewEventType DEF HandlerFault, FatalOrigins, TypeInv, TypeOK, HistoryOK
<1>2. /\ pc' \in [Threads -> Labels] /\ frame' \in [Threads -> Frames] /\ PathsOK'
      /\ alive' \in BOOLEAN /\ queue' \subseteq Threads
  BY <1>0, <1>1, FaultType DEF HandlerFault
<1>3. ThreadsOK' /\ ReporterOK' /\ DiskOK'
  BY <1>2 DEF HandlerFault, coreVars, diskVars, TypeInv, TypeOK, ThreadsOK,
      ReporterOK,
     DiskOK
<1> QED
  BY <1>1, <1>2, <1>3 DEF TypeInv, TypeOK

\* What NewEventOn starts: a fault, a signal or one of the handlers.
LEMMA NewEventStarts ==
  ASSUME NEW t \in Threads, NEW o \in Origins, NewEventOn(t, o)
  PROVE  \/ Fault(t, events + 1)
         \/ Signal(t, events + 1) /\ queue' = queue
         \/ /\ alive' = alive /\ queue' = queue
            /\ \E k \in Kinds : Start(t, k, events + 1) /\ (k = "snapshot" => o = k)
<1>1. CASE o = "fault"
  BY <1>1 DEF NewEventOn
<1>2. CASE o = "abort"
  BY <1>2 DEF NewEventOn
<1>3. CASE o = "objc"
  BY <1>3 DEF NewEventOn, Kinds
<1>4. CASE o \in {"cpp", "deadlock"}
  BY <1>4 DEF NewEventOn, Kinds
<1>5. CASE o \in UserKinds \cup {"snapshot"}
  BY <1>5 DEF NewEventOn, Kinds, UserKinds
<1> QED
  BY <1>1, <1>2, <1>3, <1>4, <1>5, MonitorsAssumption
     DEF UserKinds, FatalOrigins, NonFatalOrigins

\* Action NewEventOn keeps the types.
LEMMA NewEventOnType ==
  ASSUME TypeInv, NEW t \in Threads, NEW o \in Origins, NewEventOn(t, o)
  PROVE  TypeInv'
<1>0. ThreadsOK /\ PathsOK /\ alive \in BOOLEAN /\ queue \subseteq Threads
  BY DEF TypeInv, TypeOK, ReporterOK
<1>1. events + 1 \in EventIds /\ HistoryOK'
  BY NewEventType, MonitorsAssumption DEF NewEventOn, TypeInv, TypeOK, HistoryOK
<1>2. /\ pc' \in [Threads -> Labels] /\ frame' \in [Threads -> Frames] /\ PathsOK'
      /\ alive' \in BOOLEAN /\ queue' \subseteq Threads
  BY <1>0, <1>1, NewEventStarts, FaultType, SignalType, StartType
<1>3. ThreadsOK' /\ ReporterOK' /\ DiskOK'
  BY <1>2 DEF NewEventOn, coreVars, diskVars, TypeInv, TypeOK, ThreadsOK, ReporterOK,
     DiskOK
<1> QED
  BY <1>1, <1>2, <1>3 DEF TypeInv, TypeOK

\* The initial state is well typed.
LEMMA InitType == Init => TypeInv
<1> SUFFICES ASSUME Init PROVE TypeInv
  OBVIOUS
<1>0. 0 \in EventIds /\ 0 \in Paths /\ 1 \in 1 .. MaxReports + 1
  BY BoundsAssumption DEF EventIds, Paths, MaxReports
<1>1. \A t \in Threads : IdleFrame(t) \in Frames
  BY <1>0 DEF IdleFrame, Frames, Kinds
<1>2. ThreadsOK
  BY <1>1 DEF Init, ThreadsOK, Threads, Handlers, Labels
<1>3. ReporterOK
  <2>1. ports \in BOOLEAN
    BY DEF Init
  <2>2. ctx \in [Contexts -> [event: EventIds, recrash: BOOLEAN, snapshot: BOOLEAN]]
    BY <1>0 DEF Init
  <2>3. /\ alive \in BOOLEAN /\ enabled \subseteq Monitored
        /\ handling \in BOOLEAN /\ crashedDuring \in BOOLEAN /\ busy \in BOOLEAN
        /\ known \subseteq Handlers /\ cancelled \subseteq Handlers
        /\ queue \subseteq Threads
    BY DEF Init
  <2> QED
    BY <2>1, <2>2, <2>3 DEF ReporterOK
<1>4. DiskOK
  BY <1>0 DEF Init, DiskOK, Files, NoFile
<1>5. HistoryOK
  BY <1>0 DEF Init, HistoryOK
<1>6. PathsOK
  BY DEF Init, PathsOK, Handlers
<1> QED
  BY <1>2, <1>3, <1>4, <1>5, <1>6 DEF TypeInv, TypeOK

\* So is every state that a step leads to.
LEMMA NextType == TypeInv /\ [Next]_vars => TypeInv'
<1> SUFFICES ASSUME TypeInv, [Next]_vars PROVE TypeInv'
  OBVIOUS
<1>1. CASE UNCHANGED vars
  BY <1>1 DEF vars, threadVars, coreVars, machVars, diskVars, envVars, TypeInv,
      TypeOK,
     ThreadsOK, ReporterOK, DiskOK, HistoryOK, PathsOK
<1>2. ASSUME NEW t \in Threads, Step(t) PROVE TypeInv'
  BY <1>2, EnterType, CallSuspendType, SuspendType, EndSuspendType, MarkFatalType,
      DisableMachType, UninstallMachType, EndCancelledType, ActivateSecondaryType,
      NoteCrashType, ConcludeType, BeginResumeType, EndResumeType,
      ReadThreadListType, NotifyFatalType, DisableOthersType, FillContextType,
      HandleExceptionType, ChoosePathType, CreateReportType, WriteReportType,
      RenameOldType, EmbedOldType, ResumeType, LeaveType, ReceiveType DEF Step
<1>3. ASSUME NEW t \in Threads, Env(t) PROVE TypeInv'
  BY <1>3, NewEventOnType, HandlerFaultType, SpawnType DEF Env
<1> QED
  BY <1>1, <1>2, <1>3 DEF Next, Rest

\* Every variable keeps its type, and no writer works on a path nobody chose.
THEOREM TypeCorrect == Spec => []TypeOK
<1>1. Spec => []TypeInv
  BY InitType, NextType, PTL DEF Spec
<1>2. TypeInv => TypeOK
  BY DEF TypeInv
<1> QED
  BY <1>1, <1>2, PTL

(***************************************************************************)
(* The world is frozen.                                                    *)
(***************************************************************************)

\* Labels of a thread that holds no other thread.
Passive == Labels \ (Capturing \cup {"suspending", "inKernel", "resume", "resuming"})

\* In this step thread u suspends nobody.
Keeps(u) ==
  /\ Held(u)' \subseteq Held(u)
  /\ pc'[u] = "enter" => frame'[u].list = {}
  /\ Stopping(u)' => AppThreads \ {u} \subseteq frame'[u].list

(***************************************************************************)
(* Lemmas: the holders of a thread, and what suspends nobody.              *)
(***************************************************************************)
\* There are finitely many threads, ...
LEMMA ThreadsFinite == IsFiniteSet(Threads)
<1>1. IsFiniteSet({Pri} \cup {Sec})
  BY FS_Singleton, FS_AddElement
<1> QED
  BY <1>1, FS_Union, ThreadsAssumption DEF Threads, Handlers

\* ... so the holders of a thread can be counted.
LEMMA HoldersFinite ==
  ASSUME NEW u \in Threads
  PROVE  IsFiniteSet(Holders(u)) /\ Cardinality(Holders(u)) \in Nat
<1>1. Holders(u) \subseteq Threads
  BY DEF Holders
<1> QED
  BY <1>1, ThreadsFinite, FS_Subset, FS_CardinalityType

\* Suspensions stay balanced when no suspend count changes and nobody holds more.
LEMMA StopStep ==
  ASSUME TypeInv, StopInv, susp' = susp, live \subseteq live',
         \A u \in Threads : Keeps(u)
  PROVE  StopInv'
<1>1. Balanced'
  <2> SUFFICES ASSUME NEW u \in Threads
               PROVE  Cardinality(Holders(u)') <= susp[u]
    BY DEF Balanced
  <2>1. Holders(u)' \subseteq Holders(u)
    BY DEF Holders, Keeps
  <2>2. /\ Cardinality(Holders(u)') <= Cardinality(Holders(u))
        /\ IsFiniteSet(Holders(u)')
    BY <2>1, HoldersFinite, FS_Subset
  <2>3. Cardinality(Holders(u)') \in Nat
    BY <2>2, FS_CardinalityType
  <2>4. Cardinality(Holders(u)) <= susp[u] /\ susp[u] \in Nat
    BY DEF StopInv, Balanced, TypeInv, TypeOK, ThreadsOK
  <2> QED
    BY <2>2, <2>3, <2>4, HoldersFinite
<1>2. ListsOK'
  BY DEF StopInv, ListsOK, Keeps
<1> QED
  BY <1>1, <1>2 DEF StopInv

\* A thread that does not move suspends nobody.
LEMMA StillKeeps ==
  ASSUME StopInv, NEW u \in Threads, pc'[u] = pc[u], frame'[u] = frame[u]
  PROVE  Keeps(u)
BY DEF Keeps, Held, Stopping, Kind, StopInv, ListsOK

\* Nor does a thread that ends up where it holds nobody.
LEMMA PassiveKeeps ==
  ASSUME NEW u \in Threads, pc'[u] \in Passive,
         pc'[u] = "enter" => frame'[u].list = {}
  PROVE  Keeps(u)
BY DEF Keeps, Held, Stopping, Passive

\* Nor does a step of the capture.
LEMMA CaptureKeeps ==
  ASSUME StopInv, NEW u \in Threads,
         pc[u] \in Capturing, pc'[u] \in Capturing \cup {"resume"},
         frame'[u].list = frame[u].list, frame'[u].kind = frame[u].kind
  PROVE  Keeps(u)
<1>1. /\ pc[u] \notin {"enter", "suspending", "inKernel", "resume", "resuming"}
      /\ pc'[u] \notin {"enter", "suspending", "inKernel", "resuming"}
  BY DEF Capturing, Vulnerable
<1>2. Held(u) = frame[u].list /\ Held(u)' = frame'[u].list
  BY <1>1 DEF Held
<1>3. Stopping(u)' => AppThreads \ {u} \subseteq frame'[u].list
  BY <1>1 DEF Stopping, Kind, StopInv, ListsOK
<1> QED
  BY <1>1, <1>2, <1>3 DEF Keeps

\* The steps of a capture that move no other thread.
CaptureAction(t) ==
  \/ NotifyFatal(t) \/ MarkFatal(t) \/ DisableMach(t) \/ DisableOthers(t)
  \/ FillContext(t) \/ HandleException(t) \/ NoteCrash(t) \/ ChoosePath(t)
  \/ CreateReport(t) \/ WriteReport(t) \/ RenameOld(t) \/ CreateRecrash(t)
  \/ EmbedOld(t) \/ RemoveOld(t) \/ WriteRecrash(t) \/ Conclude(t)

\* What they do to the threads.
CaptureMove(t) ==
  /\ pc[t] \in Capturing /\ pc'[t] \in Capturing \cup {"resume"}
  /\ frame'[t].list = frame[t].list /\ frame'[t].kind = frame[t].kind
  /\ frame'[t].ev = frame[t].ev
  /\ \A u \in Threads \ {t} : pc'[u] = pc[u] /\ frame'[u] = frame[u]
  /\ UNCHANGED <<susp, live>>

\* What they do not change besides.
LEMMA CaptureSame ==
  ASSUME NEW t \in Threads, CaptureAction(t)
  PROVE  UNCHANGED <<susp, live, alive, known>>
BY DEF CaptureAction, NotifyFatal, MarkFatal, DisableMach, DisableOthers, FillContext,
   HandleException, NoteCrash, ChoosePath, CreateReport, WriteReport, RenameOld,
   CreateRecrash, EmbedOld, RemoveOld, WriteRecrash, Conclude, machVars, envVars

\* Each of them goes from one label of the capture to another, or to its end.
LEMMA CapturePath ==
  ASSUME TypeInv, NEW t \in Threads, CaptureAction(t)
  PROVE  /\ pc[t] \in Capturing
         /\ \E l \in Capturing \cup {"resume"} : pc' = [pc EXCEPT ![t] = l]
<1>1. CASE NotifyFatal(t)
  BY <1>1 DEF NotifyFatal, At, Goto, Capturing, Vulnerable
<1>2. CASE MarkFatal(t)
  BY <1>2 DEF MarkFatal, At, Goto, Capturing, Vulnerable
<1>3. CASE DisableMach(t)
  BY <1>3 DEF DisableMach, At, Goto, Capturing, Vulnerable
<1>4. CASE FillContext(t)
  BY <1>4 DEF FillContext, At, Goto, Capturing, Vulnerable
<1>5. CASE HandleException(t)
  BY <1>5 DEF HandleException, At, Goto, Capturing, Vulnerable
<1>6. CASE NoteCrash(t)
  BY <1>6 DEF NoteCrash, At, Goto, Capturing, Vulnerable
<1>7. CASE ChoosePath(t)
  BY <1>7 DEF ChoosePath, At, Goto, Capturing, Vulnerable
<1>8. CASE CreateReport(t)
  BY <1>8 DEF CreateReport, At, Goto, Capturing, Vulnerable
<1>9. CASE WriteReport(t)
  BY <1>9 DEF WriteReport, At, Goto, Capturing, Vulnerable
<1>10. CASE RenameOld(t)
  BY <1>10 DEF RenameOld, At, Goto, Capturing, Vulnerable
<1>11. CASE CreateRecrash(t)
  BY <1>11 DEF CreateRecrash, At, Goto, Capturing, Vulnerable
<1>12. CASE EmbedOld(t)
  BY <1>12 DEF EmbedOld, At, Goto, Capturing, Vulnerable
<1>13. CASE RemoveOld(t)
  BY <1>13 DEF RemoveOld, At, Goto, Capturing, Vulnerable
<1>14. CASE WriteRecrash(t)
  BY <1>14 DEF WriteRecrash, At, Goto, Capturing, Vulnerable
<1>15. CASE Conclude(t)
  BY <1>15 DEF Conclude, At, Goto, Capturing, Vulnerable
<1>16. CASE DisableOthers(t)
  BY <1>16, FrameFields DEF DisableOthers, TypeInv, TypeOK, At, Goto, Capturing, Vulnerable
<1> QED
  BY <1>1, <1>2, <1>3, <1>4, <1>5, <1>6, <1>7, <1>8, <1>9, <1>10, <1>11, <1>12, <1>13,
     <1>14, <1>15, <1>16 DEF CaptureAction

\* None of them changes the list, the kind or the event of a frame, or another frame.
LEMMA CaptureFrames ==
  ASSUME TypeInv, NEW t \in Threads, CaptureAction(t)
  PROVE  \A u \in Threads : /\ frame'[u].list = frame[u].list
                            /\ frame'[u].kind = frame[u].kind
                            /\ frame'[u].ev = frame[u].ev
                            /\ u # t => frame'[u] = frame[u]
<1>1. CASE frame' = frame
  BY <1>1
<1>2. CASE NotifyFatal(t)
  BY <1>2 DEF NotifyFatal, TypeInv, TypeOK, ThreadsOK, Frames
<1>3. CASE MarkFatal(t)
  BY <1>3 DEF MarkFatal, TypeInv, TypeOK, ThreadsOK, Frames
<1>4. CASE ChoosePath(t)
  BY <1>4 DEF ChoosePath, TypeInv, TypeOK, ThreadsOK, Frames
<1>5. CASE RenameOld(t)
  BY <1>5 DEF RenameOld, TypeInv, TypeOK, ThreadsOK, Frames
<1>6. CASE Conclude(t)
  BY <1>6 DEF Conclude, TypeInv, TypeOK, ThreadsOK, Frames
<1> QED
  BY <1>1, <1>2, <1>3, <1>4, <1>5, <1>6
     DEF CaptureAction, DisableMach, FillContext, HandleException, NoteCrash,
     CreateReport, WriteReport, CreateRecrash, EmbedOld, RemoveOld, WriteRecrash,
     DisableOthers

\* So each of them is a CaptureMove.
LEMMA CaptureMoves ==
  ASSUME TypeInv, NEW t \in Threads, CaptureAction(t)
  PROVE  CaptureMove(t)
<1>1. PICK l \in Capturing \cup {"resume"} : pc' = [pc EXCEPT ![t] = l]
  BY CapturePath
<1>2. pc'[t] = l /\ \A u \in Threads \ {t} : pc'[u] = pc[u]
  BY <1>1 DEF TypeInv, TypeOK, ThreadsOK
<1> QED
  BY <1>2, CapturePath, CaptureFrames, CaptureSame DEF CaptureMove

\* A step of the capture in which no other thread moves.
LEMMA CaptureStop ==
  ASSUME TypeInv, StopInv, NEW t \in Threads, CaptureAction(t)
  PROVE  StopInv'
<1>1. CaptureMove(t)
  BY CaptureMoves
<1>2. \A u \in Threads : Keeps(u)
  BY <1>1, CaptureKeeps, StillKeeps DEF CaptureMove
<1> QED
  BY <1>1, <1>2, StopStep DEF CaptureMove

\* A step to a place where no other thread is held.
LEMMA PassiveStep ==
  ASSUME TypeInv, StopInv, NEW t \in Threads,
         pc'[t] \in Passive, pc'[t] = "enter" => frame'[t].list = {},
         \A u \in Threads \ {t} : pc'[u] = pc[u] /\ frame'[u] = frame[u],
         susp' = susp, live' = live
  PROVE  StopInv'
<1>1. \A u \in Threads : Keeps(u)
  BY PassiveKeeps, StillKeeps
<1> QED
  BY <1>1, StopStep

\* A handler starts where it holds nobody; so does the wait for one.
LEMMA StartPassive ==
  ASSUME TypeInv, NEW t \in Threads, NEW k \in Kinds, NEW e \in EventIds, Start(t, k, e)
  PROVE  /\ pc'[t] \in Passive
         /\ pc'[t] = "enter" => frame'[t].list = {}
         /\ \A u \in Threads \ {t} : pc'[u] = pc[u] /\ frame'[u] = frame[u]
BY DEF Start, Entry, Tests, IdleFrame, Passive, Labels, Capturing, Vulnerable, TypeInv,
   TypeOK, ThreadsOK

\* A signal or a fault stops the capture of the thread, whatever it leads to.
LEMMA FaultStep ==
  ASSUME TypeInv, StopInv, NEW t \in Threads, NEW e \in EventIds,
         Fault(t, e) \/ Signal(t, e), susp' = susp, live' = live
  PROVE  StopInv'
<1>1. CASE UNCHANGED <<pc, frame>>
  BY <1>1, StillKeeps, StopStep
<1>2. CASE Start(t, "signal", e)
  BY <1>2, StartPassive, PassiveStep DEF Kinds
<1>3. CASE /\ pc' = [pc EXCEPT ![t] = "blocked"]
           /\ frame' = [frame EXCEPT ![t] = [IdleFrame(t) EXCEPT !.ev = e]]
  BY <1>3, PassiveStep DEF Passive, Labels, Capturing, Vulnerable, TypeInv, TypeOK,
     ThreadsOK
<1> QED
  BY <1>1, <1>2, <1>3 DEF Fault, Signal

(***************************************************************************)
(* Every action keeps StopInv.                                             *)
(***************************************************************************)

\* UninstallMach is a step of the capture that ends other threads.
LEMMA UninstallMachStop ==
  ASSUME TypeInv, StopInv, NEW t \in Threads, UninstallMach(t)
  PROVE  StopInv'
<1>1. pc[t] = "uninstall" /\ pc'[t] = "mask" /\ UNCHANGED <<frame, susp, live>>
  BY DEF UninstallMach, At, envVars
<1>2. \A u \in Threads \ {t} : pc'[u] = pc[u] \/ pc'[u] = "dead"
  BY DEF UninstallMach
<1>3. Keeps(t)
  BY <1>1, CaptureKeeps DEF Capturing, Vulnerable
<1>4. \A u \in Threads \ {t} : Keeps(u)
  BY <1>1, <1>2, StillKeeps, PassiveKeeps DEF Passive, Labels, Capturing, Vulnerable
<1> QED
  BY <1>1, <1>3, <1>4, StopStep

\* ActivateSecondary is a step of the capture that lets the secondary thread wait.
LEMMA ActivateSecondaryStop ==
  ASSUME TypeInv, StopInv, NEW t \in Threads, ActivateSecondary(t)
  PROVE  StopInv'
<1>1. pc[t] = "route" /\ UNCHANGED <<frame, susp, live>>
  BY DEF ActivateSecondary, At, envVars
<1>2. pc'[t] = "fill" /\ \A u \in Threads \ {t} : pc'[u] = pc[u] \/ pc'[u] = "wait"
  BY ThreadsAssumption DEF ActivateSecondary, Goto, TypeInv, TypeOK, ThreadsOK,
     Handlers,
     Threads
<1>3. Keeps(t)
  BY <1>1, <1>2, CaptureKeeps DEF Capturing, Vulnerable
<1>4. \A u \in Threads \ {t} : Keeps(u)
  BY <1>1, <1>2, StillKeeps, PassiveKeeps DEF Passive, Labels, Capturing, Vulnerable
<1> QED
  BY <1>1, <1>3, <1>4, StopStep

\* A handler that has not suspended anybody holds nobody (its list is still empty).
LEMMA EnterStop ==
  ASSUME TypeInv, StopInv, NEW t \in Threads, Enter(t)
  PROVE  StopInv'
<1>1. /\ pc[t] = "enter" /\ frame[t].list = {} /\ UNCHANGED <<frame, susp, live>>
      /\ \A u \in Threads \ {t} : pc'[u] = pc[u]
  BY DEF Enter, At, Goto, envVars, StopInv, ListsOK, TypeInv, TypeOK, ThreadsOK
<1>2. \/ pc'[t] \in {"idle", "leave", "suspend"}
      \/ Kind(t) \notin Suspends /\ pc'[t] \in {"resume", "notify", "fill"}
  BY DEF Enter, Goto, AfterSuspend, TypeInv, TypeOK, ThreadsOK
<1>3. Keeps(t)
  BY <1>1, <1>2 DEF Keeps, Held, Stopping, Kind, Capturing, Vulnerable
<1> QED
  BY <1>1, <1>3, StillKeeps, StopStep

\* The thread list holds every application thread but the caller.
LEMMA ReadThreadListStop ==
  ASSUME TypeInv, StopInv, NEW t \in Threads, ReadThreadList(t)
  PROVE  StopInv'
<1>1. /\ pc'[t] = "suspending" /\ UNCHANGED <<susp, live>>
      /\ frame'[t].list = live \ (Handlers \cup {t}) /\ frame'[t].todo = frame'[t].list
      /\ \A u \in Threads \ {t} : pc'[u] = pc[u] /\ frame'[u] = frame[u]
  BY DEF ReadThreadList, Goto, envVars, TypeInv, TypeOK, ThreadsOK, Frames
<1>2. AppThreads \ {t} \subseteq frame'[t].list
  BY <1>1, ThreadsAssumption DEF StopInv, ListsOK, Handlers
<1>3. Keeps(t)
  BY <1>1, <1>2 DEF Keeps, Held, Capturing, Vulnerable
<1> QED
  BY <1>1, <1>3, StillKeeps, StopStep

\* The target of a call is not held before the kernel suspends it.
LEMMA CallSuspendStop ==
  ASSUME TypeInv, StopInv, NEW t \in Threads, CallSuspend(t)
  PROVE  StopInv'
<1>1. PICK v \in frame[t].todo :
        frame' = [frame EXCEPT ![t].target = v, ![t].todo = @ \ {v}]
  BY DEF CallSuspend
<1>2. /\ pc[t] = "suspending" /\ pc'[t] = "inKernel" /\ UNCHANGED <<susp, live>>
      /\ \A u \in Threads \ {t} : pc'[u] = pc[u] /\ frame'[u] = frame[u]
  BY <1>1 DEF CallSuspend, At, Goto, envVars, TypeInv, TypeOK, ThreadsOK, Frames
<1>3. /\ frame'[t].list = frame[t].list /\ frame'[t].kind = frame[t].kind
      /\ frame'[t].target = v /\ frame'[t].todo = frame[t].todo \ {v}
  BY <1>1 DEF TypeInv, TypeOK, ThreadsOK, Frames
<1>4. Held(t)' \subseteq Held(t)
  BY <1>2, <1>3 DEF Held, Capturing, Vulnerable
<1>5. Stopping(t)' => AppThreads \ {t} \subseteq frame'[t].list
  BY <1>2, <1>3 DEF Stopping, Kind, StopInv, ListsOK
<1>6. Keeps(t)
  BY <1>2, <1>4, <1>5 DEF Keeps
<1> QED
  BY <1>2, <1>6, StillKeeps, StopStep

\* thread_suspend adds at most the caller to the holders, and one to the count.
LEMMA SuspendStop ==
  ASSUME TypeInv, StopInv, NEW t \in Threads, Suspend(t)
  PROVE  StopInv'
<1> DEFINE v == frame[t].target
<1>0. v \in Threads
  BY FrameFields DEF TypeInv, TypeOK
<1>1. /\ pc[t] = "inKernel" /\ pc'[t] = "suspending" /\ UNCHANGED <<frame, live>>
      /\ \A u \in Threads \ {t} : pc'[u] = pc[u]
      /\ susp' = [susp EXCEPT ![v] = @ + 1]
  BY DEF Suspend, Goto, envVars, TypeInv, TypeOK, ThreadsOK
<1>2. Held(t)' \subseteq Held(t) \cup {v}
  BY <1>1 DEF Held, Capturing, Vulnerable
<1>3. \A u \in Threads \ {t} : Held(u)' = Held(u)
  BY <1>1 DEF Held
<1>4. ASSUME NEW u \in Threads PROVE Cardinality(Holders(u)') <= susp'[u]
  <2>1. /\ Holders(u)' \subseteq Holders(u) \cup {t}
        /\ u # v => Holders(u)' \subseteq Holders(u)
    BY <1>2, <1>3 DEF Holders
  <2>2. IsFiniteSet(Holders(u)) /\ Cardinality(Holders(u)) \in Nat
    BY HoldersFinite
  <2>3. Cardinality(Holders(u)) <= susp[u] /\ susp[u] \in Nat
    BY DEF StopInv, Balanced, TypeInv, TypeOK, ThreadsOK
  <2>4. CASE u = v
    <3>1. /\ IsFiniteSet(Holders(u) \cup {t})
          /\ Cardinality(Holders(u) \cup {t}) <= Cardinality(Holders(u)) + 1
      BY <2>2, FS_AddElement
    <3>2. /\ Cardinality(Holders(u)') <= Cardinality(Holders(u) \cup {t})
          /\ Cardinality(Holders(u)') \in Nat /\ Cardinality(Holders(u) \cup {t}) \in Nat
      BY <2>1, <3>1, FS_Subset, FS_CardinalityType
    <3>3. susp'[u] = susp[u] + 1
      BY <1>1, <2>4 DEF TypeInv, TypeOK, ThreadsOK
    <3> QED
      BY <2>2, <2>3, <3>1, <3>2, <3>3
  <2>5. CASE u # v
    <3>1. /\ Cardinality(Holders(u)') <= Cardinality(Holders(u))
          /\ Cardinality(Holders(u)') \in Nat
      BY <2>1, <2>2, <2>5, FS_Subset, FS_CardinalityType
    <3>2. susp'[u] = susp[u]
      BY <1>1, <2>5 DEF TypeInv, TypeOK, ThreadsOK
    <3> QED
      BY <2>2, <2>3, <3>1, <3>2
  <2> QED
    BY <2>4, <2>5
<1>5. Balanced'
  BY <1>4 DEF Balanced
<1>6. ListsOK'
  BY <1>1 DEF StopInv, ListsOK, Stopping, Kind
<1> QED
  BY <1>5, <1>6 DEF StopInv

\* When every thread of the list is suspended the capture begins.
LEMMA EndSuspendStop ==
  ASSUME TypeInv, StopInv, NEW t \in Threads, EndSuspend(t)
  PROVE  StopInv'
<1>1. /\ pc[t] = "suspending" /\ frame[t].todo = {} /\ UNCHANGED <<frame, susp, live>>
      /\ pc'[t] \in {"resume", "notify", "fill"}
      /\ \A u \in Threads \ {t} : pc'[u] = pc[u]
  BY DEF EndSuspend, At, AllSuspended, Goto, AfterSuspend, envVars, TypeInv, TypeOK,
     ThreadsOK
<1>2. Held(t)' \subseteq Held(t)
  BY <1>1 DEF Held
<1>3. Stopping(t)' => AppThreads \ {t} \subseteq frame'[t].list
  BY <1>1 DEF Stopping, Kind, StopInv, ListsOK
<1>4. Keeps(t)
  BY <1>1, <1>2, <1>3 DEF Keeps
<1> QED
  BY <1>1, <1>4, StillKeeps, StopStep

\* The resumption starts with the threads of the list, or with none.
LEMMA BeginResumeStop ==
  ASSUME TypeInv, StopInv, NEW t \in Threads, BeginResume(t)
  PROVE  StopInv'
<1>1. /\ pc[t] = "resume" /\ pc'[t] = "resuming" /\ UNCHANGED <<susp, live>>
      /\ frame'[t].todo \subseteq frame[t].list
      /\ \A u \in Threads \ {t} : pc'[u] = pc[u] /\ frame'[u] = frame[u]
  BY DEF BeginResume, At, Goto, envVars, TypeInv, TypeOK, ThreadsOK, Frames
<1>2. Keeps(t)
  BY <1>1 DEF Keeps, Held, Stopping, Capturing, Vulnerable
<1> QED
  BY <1>1, <1>2, StillKeeps, StopStep

\* thread_resume takes the caller off the holders, and one off the count.
LEMMA ResumeStop ==
  ASSUME TypeInv, StopInv, NEW t \in Threads, Resume(t)
  PROVE  StopInv'
<1>1. PICK v \in frame[t].todo : /\ susp' = [susp EXCEPT ![v] = Resumed(@)]
                                 /\ frame' = [frame EXCEPT ![t].todo = @ \ {v}]
  BY DEF Resume
<1>2. /\ pc[t] = "resuming" /\ UNCHANGED <<pc, live>>
      /\ \A u \in Threads \ {t} : frame'[u] = frame[u]
      /\ frame'[t].todo = frame[t].todo \ {v} /\ frame'[t].list = frame[t].list
  BY <1>1 DEF Resume, At, envVars, TypeInv, TypeOK, ThreadsOK, Frames
<1>3. v \in Threads
  BY FrameFields DEF TypeInv, TypeOK
<1>4. Held(t)' = Held(t) \ {v} /\ v \in Held(t)
  BY <1>2 DEF Held
<1>5. \A u \in Threads \ {t} : Held(u)' = Held(u)
  BY <1>2 DEF Held
<1>6. ASSUME NEW u \in Threads PROVE Cardinality(Holders(u)') <= susp'[u]
  <2>1. IsFiniteSet(Holders(u)) /\ Cardinality(Holders(u)) \in Nat
    BY HoldersFinite
  <2>2. Cardinality(Holders(u)) <= susp[u] /\ susp[u] \in Nat
    BY DEF StopInv, Balanced, TypeInv, TypeOK, ThreadsOK
  <2>3. CASE u = v
    <3>1. t \in Holders(u) /\ Holders(u)' = Holders(u) \ {t}
      BY <1>4, <1>5, <2>3 DEF Holders
    <3>2. Cardinality(Holders(u)') = Cardinality(Holders(u)) - 1
      BY <2>1, <3>1, FS_RemoveElement
    <3>3. Holders(u) # {}
      BY <3>1
    <3>4. Cardinality(Holders(u)) # 0
      BY <2>1, <3>3, FS_EmptySet
    <3>5. susp'[u] = Resumed(susp[u])
      BY <1>1, <1>3, <2>3 DEF TypeInv, TypeOK, ThreadsOK
    <3> QED
      BY <2>1, <2>2, <3>2, <3>4, <3>5 DEF Resumed
  <2>4. CASE u # v
    <3>1. Holders(u)' = Holders(u)
      BY <1>4, <1>5, <2>4 DEF Holders
    <3>2. susp'[u] = susp[u]
      BY <1>1, <2>4 DEF TypeInv, TypeOK, ThreadsOK
    <3> QED
      BY <2>2, <3>1, <3>2
  <2> QED
    BY <2>3, <2>4
<1>7. Balanced'
  BY <1>6 DEF Balanced
<1>8. ListsOK'
  BY <1>2 DEF StopInv, ListsOK, Stopping, Kind, Capturing, Vulnerable
<1> QED
  BY <1>7, <1>8 DEF StopInv

\* EndResume leaves the thread where it holds nobody.
LEMMA EndResumeStop ==
  ASSUME TypeInv, StopInv, NEW t \in Threads, EndResume(t)
  PROVE  StopInv'
<1>1. /\ pc'[t] \in {"idle", "leave"} /\ UNCHANGED <<frame, susp, live>>
      /\ \A u \in Threads \ {t} : pc'[u] = pc[u]
  BY DEF EndResume, Goto, envVars, TypeInv, TypeOK, ThreadsOK
<1> QED
  BY <1>1, PassiveStep DEF Passive, Labels, Capturing, Vulnerable

\* A cancelled thread that ends holds nobody in the sense of Balanced.
LEMMA EndCancelledStop ==
  ASSUME TypeInv, StopInv, NEW t \in Threads, EndCancelled(t)
  PROVE  StopInv'
<1>1. /\ pc'[t] = "dead" /\ UNCHANGED <<frame, susp, live>>
      /\ \A u \in Threads \ {t} : pc'[u] = pc[u]
  BY DEF EndCancelled, Goto, envVars, TypeInv, TypeOK, ThreadsOK
<1> QED
  BY <1>1, PassiveStep DEF Passive, Labels, Capturing, Vulnerable

\* Leave ends a handler, or hands the event to the next one.
LEMMA LeaveStop ==
  ASSUME TypeInv, StopInv, NEW t \in Threads, Leave(t)
  PROVE  StopInv'
<1>0. frame[t].ev \in EventIds
  BY FrameFields DEF TypeInv, TypeOK
<1>1. susp' = susp /\ live' = live
  BY DEF Leave, envVars
<1>2. CASE Signal(t, frame[t].ev)
  BY <1>0, <1>1, <1>2, FaultStep
<1>3. CASE Start(t, "nsexception", frame[t].ev)
  BY <1>0, <1>1, <1>3, StartPassive, PassiveStep DEF Kinds
<1>4. CASE /\ frame' = frame
           /\ \A u \in Threads : pc'[u] = pc[u] \/ pc'[u] \in {"idle", "done", "signalled"}
  <2>1. \A u \in Threads : Keeps(u)
    BY <1>4, StillKeeps, PassiveKeeps DEF Passive, Labels, Capturing, Vulnerable
  <2> QED
    BY <1>1, <2>1, StopStep
<1>5. \/ Signal(t, frame[t].ev) \/ Start(t, "nsexception", frame[t].ev)
      \/ /\ frame' = frame
         /\ \A u \in Threads : pc'[u] = pc[u] \/ pc'[u] \in {"idle", "done", "signalled"}
  BY DEF Leave, Goto, TypeInv, TypeOK, ThreadsOK
<1> QED
  BY <1>2, <1>3, <1>4, <1>5

\* A Mach thread that receives a message holds nobody yet.
LEMMA ReceiveStop ==
  ASSUME TypeInv, StopInv, NEW t \in Threads, Receive(t)
  PROVE  StopInv'
<1>1. PICK v \in queue : frame' = [frame EXCEPT ![t] = [IdleFrame(t) EXCEPT
                           !.kind = "mach", !.ev = frame[v].ev, !.served = v]]
  BY DEF Receive
<1>2. /\ pc'[t] = "enter" /\ frame'[t].list = {} /\ UNCHANGED <<susp, live>>
      /\ \A u \in Threads \ {t} : pc'[u] = pc[u] /\ frame'[u] = frame[u]
  BY <1>1 DEF Receive, IdleFrame, TypeInv, TypeOK, ThreadsOK
<1> QED
  BY <1>2, PassiveStep DEF Passive, Labels, Capturing, Vulnerable

\* A signal that is delivered starts the signal handler, or ends the process.
LEMMA DeliverStop ==
  ASSUME TypeInv, StopInv, NEW t \in Threads, Deliver(t)
  PROVE  StopInv'
<1>1. frame[t].ev \in EventIds
  BY FrameFields DEF TypeInv, TypeOK
<1> QED
  BY <1>1, FaultStep DEF Deliver, envVars

\* An event starts a handler, or makes the thread wait for one.
LEMMA NewEventOnStop ==
  ASSUME TypeInv, StopInv, NEW t \in Threads, NEW o \in Origins, NewEventOn(t, o)
  PROVE  StopInv'
<1>1. events + 1 \in EventIds
  BY NewEventType, MonitorsAssumption DEF NewEventOn, TypeInv, TypeOK
<1>2. susp' = susp /\ live' = live
  BY DEF NewEventOn
<1> QED
  BY <1>1, <1>2, NewEventStarts, FaultStep, StartPassive, PassiveStep

\* A handler that crashes gives up what it holds.
LEMMA HandlerFaultStop ==
  ASSUME TypeInv, StopInv, NEW t \in Threads, HandlerFault(t)
  PROVE  StopInv'
<1>1. events + 1 \in EventIds
  BY NewEventType DEF HandlerFault, TypeInv, TypeOK, FatalOrigins
<1> QED
  BY <1>1, FaultStep DEF HandlerFault

\* A new thread is not held by anybody.
LEMMA SpawnStop ==
  ASSUME TypeInv, StopInv, NEW t \in Threads, Spawn(t)
  PROVE  StopInv'
BY StillKeeps, StopStep DEF Spawn, threadVars

(***************************************************************************)
(* The world is frozen.                                                    *)
(***************************************************************************)
\* Initially every application thread exists and no thread is suspended.
LEMMA InitStop == ASSUME LateThreads = {} PROVE Init => StopInv
<1> SUFFICES ASSUME Init PROVE StopInv
  OBVIOUS
<1>1. \A t \in Threads : pc[t] \in {"wait", "parked", "done", "idle"}
  BY DEF Init
<1>2. \A t \in Threads : Held(t) = {} /\ ~Stopping(t) /\ pc[t] # "enter"
  BY <1>1 DEF Held, Stopping, Capturing, Vulnerable
<1>3. \A u \in Threads : Holders(u) = {}
  BY <1>2 DEF Holders
<1>4. Balanced
  <2>1. \A u \in Threads : susp[u] = 0
    BY DEF Init
  <2> QED
    BY <1>3, <2>1, FS_EmptySet DEF Balanced
<1>5. AppThreads \subseteq live
  BY DEF Init
<1> QED
  BY <1>2, <1>4, <1>5 DEF StopInv, ListsOK

\* Every step keeps StopInv.
LEMMA NextStop == TypeInv /\ StopInv /\ [Next]_vars => StopInv'
<1> SUFFICES ASSUME TypeInv, StopInv, [Next]_vars PROVE StopInv'
  OBVIOUS
<1>1. CASE UNCHANGED vars
  BY <1>1, StillKeeps, StopStep DEF vars, threadVars, envVars
<1>2. ASSUME NEW t \in Threads, Step(t) PROVE StopInv'
  BY <1>2, EnterStop, ReadThreadListStop, CallSuspendStop, SuspendStop, EndSuspendStop,
     UninstallMachStop, EndCancelledStop, ActivateSecondaryStop, CaptureStop,
     BeginResumeStop, ResumeStop, EndResumeStop, LeaveStop, DeliverStop, ReceiveStop
     DEF Step, CaptureAction
<1>3. ASSUME NEW t \in Threads, Env(t) PROVE StopInv'
  BY <1>3, NewEventOnStop, HandlerFaultStop, SpawnStop DEF Env
<1> QED
  BY <1>1, <1>2, <1>3 DEF Next, Rest

\* While a thread captures with the others stopped, somebody holds each of them.
LEMMA StopMeansFrozen == TypeInv /\ StopInv => FrozenWorld
<1> SUFFICES ASSUME TypeInv, StopInv, NEW t \in live, pc[t] \in Capturing,
                    Kind(t) \in Suspends, NEW u \in (live \cap AppThreads) \ {t}
             PROVE  susp[u] > 0
  BY DEF FrozenWorld
<1>1. t \in Threads /\ u \in Threads
  BY DEF TypeInv, TypeOK, ThreadsOK
<1>2. u \in frame[t].list
  BY <1>1 DEF StopInv, ListsOK, Stopping
<1>3. t \in Holders(u)
  BY <1>1, <1>2 DEF Holders, Held, Capturing, Vulnerable
<1>4. Cardinality(Holders(u)) # 0 /\ Cardinality(Holders(u)) \in Nat
  BY <1>1, <1>3, HoldersFinite, FS_EmptySet
<1>5. Cardinality(Holders(u)) <= susp[u] /\ susp[u] \in Nat
  BY <1>1 DEF StopInv, Balanced, TypeInv, TypeOK, ThreadsOK
<1> QED
  BY <1>4, <1>5

\* growingcrashmc_suspendEnvironment stops every other application thread for as long
\* as a handler captures, however many handlers run and crash, if no thread is created
\* after the installation.
THEOREM WorldIsFrozen == ASSUME LateThreads = {} PROVE Spec => []FrozenWorld
<1>1. Init => TypeInv /\ StopInv
  BY InitType, InitStop
<1>2. TypeInv /\ StopInv /\ [Next]_vars => (TypeInv /\ StopInv)'
  BY NextType, NextStop
<1>3. TypeInv /\ StopInv => FrozenWorld
  BY StopMeansFrozen
<1> QED
  BY <1>1, <1>2, <1>3, PTL DEF Spec

(***************************************************************************)
(* Nobody is left suspended.                                               *)
(***************************************************************************)
\* In this step thread u gives up nobody that it holds, and its handler still ends in a
\* signal if it did.
Bears(u) ==
  /\ Held(u) \subseteq Held(u)'
  /\ Doomed(u) => Doomed(u)'
  /\ SuspendOK(u)'

\* A thread that does not move bears what it bore.
LEMMA StillBears ==
  ASSUME ReleaseInv, live \subseteq live', NEW u \in Threads,
         pc'[u] = pc[u], frame'[u] = frame[u]
  PROVE  Bears(u)
BY DEF Bears, Held, Doomed, ReleaseInv, SuspendOK, Kind

\* So does a capture that goes on.
LEMMA CaptureBears ==
  ASSUME ReleaseInv, live \subseteq live', NEW u \in Threads,
         pc[u] \in Capturing, pc'[u] \in Capturing \cup {"resume"},
         frame'[u].list = frame[u].list, frame'[u].kind = frame[u].kind
  PROVE  Bears(u)
<1>1. /\ pc[u] \notin {"suspend", "suspending", "inKernel", "resuming", "idle", "done",
                       "dead", "blocked", "signalled"}
      /\ pc'[u] \notin {"suspend", "suspending", "inKernel", "resuming", "idle", "wait",
                        "parked", "done", "dead", "blocked", "signalled"}
  BY DEF Capturing, Vulnerable
<1>2. Held(u) = frame[u].list /\ Held(u)' = frame'[u].list
  BY <1>1 DEF Held
<1>3. Doomed(u) => Doomed(u)'
  BY <1>1 DEF Doomed, Kind
<1>4. SuspendOK(u)'
  BY <1>1 DEF ReleaseInv, SuspendOK, Kind
<1> QED
  BY <1>2, <1>3, <1>4 DEF Bears

\* No suspend count changes, and nobody gives up whom it holds.
LEMMA BearStep ==
  ASSUME TypeInv, ReleaseInv, susp' = susp, live \subseteq live', known' \subseteq known,
         alive' => alive, \A u \in Threads : Bears(u)
  PROVE  ReleaseInv'
<1>1. ASSUME alive', \A u \in live' : ~Doomed(u)', NEW u \in Threads
      PROVE  susp'[u] <= Cardinality(Holders(u)')
  <2>1. \A v \in live : ~Doomed(v)
    BY <1>1 DEF Bears, TypeInv, TypeOK, ThreadsOK
  <2>2. susp[u] <= Cardinality(Holders(u)) /\ susp[u] \in Nat
    BY <1>1, <2>1 DEF ReleaseInv, Released, TypeInv, TypeOK, ThreadsOK
  <2>3. Holders(u) \subseteq Holders(u)' /\ Holders(u)' \subseteq Threads
    BY DEF Holders, Bears
  <2>4. IsFiniteSet(Holders(u)')
    BY <2>3, ThreadsFinite, FS_Subset
  <2>5. /\ Cardinality(Holders(u)) <= Cardinality(Holders(u)')
        /\ Cardinality(Holders(u)) \in Nat /\ Cardinality(Holders(u)') \in Nat
    BY <2>3, <2>4, HoldersFinite, FS_Subset, FS_CardinalityType
  <2> QED
    BY <2>2, <2>5
<1> QED
  BY <1>1 DEF ReleaseInv, Released, Bears

\* A step after which a handler ends in a signal may abandon anybody.
LEMMA DoomStep ==
  ASSUME ReleaseInv, live \subseteq live', known' \subseteq known,
         \A u \in Threads : SuspendOK(u)', alive' => \E u \in live : Doomed(u)'
  PROVE  ReleaseInv'
BY DEF ReleaseInv, Released

\* A step in which only one thread moves.
LEMMA OneBears ==
  ASSUME TypeInv, ReleaseInv, NEW t \in Threads, Bears(t),
         \A u \in Threads \ {t} : pc'[u] = pc[u] /\ frame'[u] = frame[u],
         susp' = susp, live' = live, known' = known, alive' = alive
  PROVE  ReleaseInv'
<1>1. \A u \in Threads : Bears(u)
  BY StillBears
<1> QED
  BY <1>1, BearStep

\* A handler that starts has suspended nobody.
LEMMA StartOK ==
  ASSUME TypeInv, ReleaseInv, NEW t \in Threads, NEW k \in Kinds, NEW e \in EventIds,
         t \in live, Start(t, k, e), live' = live
  PROVE  /\ \A u \in Threads : SuspendOK(u)'
         /\ k \in {"signal", "nsexception"} => Doomed(t)'
         /\ \A u \in Threads \ {t} : pc'[u] = pc[u] /\ frame'[u] = frame[u]
<1>1. /\ pc'[t] = Entry(k) /\ frame'[t] = [IdleFrame(t) EXCEPT !.kind = k, !.ev = e]
      /\ \A u \in Threads \ {t} : pc'[u] = pc[u] /\ frame'[u] = frame[u]
  BY DEF Start, TypeInv, TypeOK, ThreadsOK
<1>2. Kind(t)' = k /\ frame'[t].list = {}
  BY <1>1 DEF Kind, IdleFrame
<1>3. /\ pc'[t] \in {"enter", "suspend"} /\ (pc'[t] = "suspend" => k \in Suspends)
      /\ k \in {"signal", "nsexception"} => pc'[t] = "enter"
  BY <1>1 DEF Entry, Tests, Suspends
<1>4. SuspendOK(t)' /\ (k \in {"signal", "nsexception"} => Doomed(t)')
  BY <1>2, <1>3 DEF SuspendOK, Doomed
<1>5. \A u \in Threads \ {t} : SuspendOK(u)'
  BY <1>1 DEF ReleaseInv, SuspendOK, Kind
<1> QED
  BY <1>1, <1>4, <1>5

\* A signal or a fault abandons everything, and leads to the end of the process.
LEMMA FaultRelease ==
  ASSUME TypeInv, ReleaseInv, NEW t \in Threads, NEW e \in EventIds, t \in live,
         Fault(t, e) \/ Signal(t, e), live' = live, known' = known
  PROVE  ReleaseInv'
<1>1. CASE alive' = FALSE /\ UNCHANGED <<pc, frame>>
  <2>1. \A u \in Threads : SuspendOK(u)'
    BY <1>1 DEF ReleaseInv, SuspendOK, Kind
  <2> QED
    BY <1>1, <2>1, DoomStep
<1>2. CASE Start(t, "signal", e)
  BY <1>2, StartOK, DoomStep DEF Kinds
<1>3. CASE /\ pc' = [pc EXCEPT ![t] = "blocked"]
           /\ frame' = [frame EXCEPT ![t] = [IdleFrame(t) EXCEPT !.ev = e]]
  <2>1. /\ pc'[t] = "blocked" /\ Kind(t)' = "signal"
        /\ \A u \in Threads \ {t} : pc'[u] = pc[u] /\ frame'[u] = frame[u]
    BY <1>3 DEF Kind, IdleFrame, TypeInv, TypeOK, ThreadsOK
  <2>2. Doomed(t)' /\ SuspendOK(t)'
    BY <2>1 DEF Doomed, SuspendOK, Suspends, Kinds
  <2>3. \A u \in Threads \ {t} : SuspendOK(u)'
    BY <2>1 DEF ReleaseInv, SuspendOK, Kind
  <2> QED
    BY <2>2, <2>3, DoomStep
<1> QED
  BY <1>1, <1>2, <1>3 DEF Fault, Signal

\* A step of the capture suspends and resumes nobody.
LEMMA CaptureRelease ==
  ASSUME TypeInv, ReleaseInv, NEW t \in Threads, CaptureAction(t)
  PROVE  ReleaseInv'
<1>1. CaptureMove(t) /\ alive' = alive /\ known' = known
  BY CaptureMoves, CaptureSame
<1>2. Bears(t)
  BY <1>1, CaptureBears DEF CaptureMove
<1> QED
  BY <1>1, <1>2, OneBears DEF CaptureMove

\* A Mach thread that is terminated abandons whom it had suspended, for the rest of the
\* process.
LEMMA UninstallMachRelease ==
  ASSUME TypeInv, ReleaseInv, NEW t \in Threads, UninstallMach(t)
  PROVE  ReleaseInv'
<1>1. /\ pc[t] = "uninstall" /\ pc'[t] = "mask" /\ known' \subseteq known
      /\ UNCHANGED <<frame, susp, live, alive>>
  BY DEF UninstallMach, At, envVars
<1>2. \A u \in Threads \ {t} : pc'[u] = pc[u] \/ (pc'[u] = "dead" /\ u \in live)
  BY DEF UninstallMach, ReleaseInv
<1>3. Bears(t)
  BY <1>1, CaptureBears DEF Capturing, Vulnerable
<1>4. ASSUME NEW u \in Threads \ {t} PROVE SuspendOK(u)'
  BY <1>1, <1>2 DEF ReleaseInv, SuspendOK, Kind
<1>5. CASE \E u \in live : pc'[u] = "dead"
  BY <1>1, <1>3, <1>4, <1>5, DoomStep DEF Bears, Doomed
<1>6. CASE ~ \E u \in live : pc'[u] = "dead"
  <2>1. \A u \in Threads : Bears(u)
    BY <1>1, <1>2, <1>3, <1>6, StillBears
  <2> QED
    BY <1>1, <2>1, BearStep
<1> QED
  BY <1>5, <1>6

\* So does one that is cancelled.
LEMMA EndCancelledRelease ==
  ASSUME TypeInv, ReleaseInv, NEW t \in Threads, EndCancelled(t)
  PROVE  ReleaseInv'
<1>1. /\ pc'[t] = "dead" /\ t \in live /\ UNCHANGED <<frame, susp, live, known>>
      /\ \A u \in Threads \ {t} : pc'[u] = pc[u]
  BY DEF EndCancelled, Running, Goto, envVars, machVars, TypeInv, TypeOK, ThreadsOK
<1>2. \A u \in Threads : SuspendOK(u)'
  BY <1>1 DEF ReleaseInv, SuspendOK, Kind
<1> QED
  BY <1>1, <1>2, DoomStep DEF Doomed

\* The secondary thread held nobody while it was parked.
LEMMA ActivateSecondaryRelease ==
  ASSUME TypeInv, ReleaseInv, NEW t \in Threads, ActivateSecondary(t)
  PROVE  ReleaseInv'
<1>1. pc[t] = "route" /\ UNCHANGED <<frame, susp, live, alive, known>>
  BY DEF ActivateSecondary, At, envVars
<1>2. /\ pc'[t] = "fill"
      /\ \A u \in Threads \ {t} :
           pc'[u] = pc[u] \/ (pc[u] = "parked" /\ pc'[u] = "wait" /\ u \in known)
  BY ThreadsAssumption
     DEF ActivateSecondary, Goto, TypeInv, TypeOK, ThreadsOK, Handlers, Threads
<1>3. Bears(t)
  BY <1>1, <1>2, CaptureBears DEF Capturing, Vulnerable
<1>4. ASSUME NEW u \in Threads \ {t}, pc[u] = "parked", pc'[u] = "wait", u \in known
      PROVE  Bears(u)
  <2>1. Held(u) = {} /\ ~Doomed(u)
    BY <1>4 DEF Held, Doomed, Capturing, Vulnerable
  <2>2. SuspendOK(u)'
    BY <1>1, <1>4 DEF ReleaseInv, SuspendOK, Kind
  <2> QED
    BY <2>1, <2>2 DEF Bears
<1>5. \A u \in Threads : Bears(u)
  BY <1>1, <1>2, <1>3, <1>4, StillBears
<1> QED
  BY <1>1, <1>5, BearStep

\* Enter: nobody is suspended yet; a handler that ends in a signal does not just return.
LEMMA EnterRelease ==
  ASSUME TypeInv, ReleaseInv, NEW t \in Threads, Enter(t)
  PROVE  ReleaseInv'
<1>1. /\ pc[t] = "enter" /\ t \in live /\ UNCHANGED <<frame, susp, live, alive, known>>
      /\ \A u \in Threads \ {t} : pc'[u] = pc[u]
  BY DEF Enter, At, Running, Goto, envVars, machVars, TypeInv, TypeOK, ThreadsOK
<1>2. \/ pc'[t] = "idle" /\ Kind(t) \in UserKinds
      \/ pc'[t] = "leave"
      \/ pc'[t] = "suspend" /\ Kind(t) \in Suspends
      \/ pc'[t] \in {"resume", "notify", "fill"}
  BY DEF Enter, Goto, AfterSuspend, TypeInv, TypeOK, ThreadsOK
<1>3. Held(t) = {}
  BY <1>1 DEF Held, Capturing, Vulnerable
<1>4. Doomed(t) => Doomed(t)'
  BY <1>1, <1>2 DEF Doomed, Kind, UserKinds
<1>5. SuspendOK(t)'
  BY <1>1, <1>2 DEF ReleaseInv, SuspendOK, Kind
<1>6. Bears(t)
  BY <1>3, <1>4, <1>5 DEF Bears
<1> QED
  BY <1>1, <1>6, OneBears

\* ReadThreadList: all of the list is still to be suspended.
LEMMA ReadThreadListRelease ==
  ASSUME TypeInv, ReleaseInv, NEW t \in Threads, ReadThreadList(t)
  PROVE  ReleaseInv'
<1>1. /\ pc[t] = "suspend" /\ t \in live /\ UNCHANGED <<susp, live, alive, known>>
      /\ pc'[t] = "suspending" /\ frame'[t].todo = frame'[t].list
      /\ frame'[t].kind = frame[t].kind
      /\ \A u \in Threads \ {t} : pc'[u] = pc[u] /\ frame'[u] = frame[u]
  BY DEF ReadThreadList, At, Running, Goto, envVars, machVars, TypeInv, TypeOK,
     ThreadsOK, Frames
<1>2. Held(t) = {}
  BY <1>1 DEF Held, Capturing, Vulnerable
<1>3. Doomed(t) => Doomed(t)'
  BY <1>1 DEF Doomed, Kind
<1>4. SuspendOK(t)'
  BY <1>1 DEF ReleaseInv, SuspendOK, Kind
<1>5. Bears(t)
  BY <1>2, <1>3, <1>4 DEF Bears
<1> QED
  BY <1>1, <1>5, OneBears

\* CallSuspend: the target of the call is not held yet.
LEMMA CallSuspendRelease ==
  ASSUME TypeInv, ReleaseInv, NEW t \in Threads, CallSuspend(t)
  PROVE  ReleaseInv'
<1>1. PICK v \in frame[t].todo :
        frame' = [frame EXCEPT ![t].target = v, ![t].todo = @ \ {v}]
  BY DEF CallSuspend
<1>2. /\ pc[t] = "suspending" /\ t \in live /\ UNCHANGED <<susp, live, alive, known>>
      /\ pc'[t] = "inKernel"
      /\ frame'[t].target = v /\ frame'[t].todo = frame[t].todo \ {v}
      /\ frame'[t].kind = frame[t].kind /\ frame'[t].list = frame[t].list
      /\ \A u \in Threads \ {t} : pc'[u] = pc[u] /\ frame'[u] = frame[u]
  BY <1>1 DEF CallSuspend, At, Running, Goto, envVars, machVars, TypeInv, TypeOK,
     ThreadsOK, Frames
<1>3. Held(t) \subseteq Held(t)'
  <2>1. Held(t) = frame[t].list \ frame[t].todo
    BY <1>2 DEF Held, Capturing, Vulnerable
  <2>2. Held(t)' = frame'[t].list \ (frame'[t].todo \cup {frame'[t].target})
    BY <1>2 DEF Held, Capturing, Vulnerable
  <2> QED
    BY <1>2, <2>1, <2>2
<1>4. Doomed(t) => Doomed(t)'
  BY <1>2 DEF Doomed, Kind
<1>5. SuspendOK(t)'
  BY <1>2 DEF ReleaseInv, SuspendOK, Kind
<1>6. Bears(t)
  BY <1>3, <1>4, <1>5 DEF Bears
<1> QED
  BY <1>2, <1>6, OneBears

\* thread_suspend adds one to the count of its target, and the caller to the holders.
LEMMA SuspendRelease ==
  ASSUME TypeInv, ReleaseInv, NEW t \in Threads, Suspend(t)
  PROVE  ReleaseInv'
<1> DEFINE v == frame[t].target
<1>0. v \in Threads
  BY FrameFields DEF TypeInv, TypeOK
<1>1. /\ pc[t] = "inKernel" /\ pc'[t] = "suspending"
      /\ UNCHANGED <<frame, live, alive, known>>
      /\ \A u \in Threads \ {t} : pc'[u] = pc[u]
      /\ susp' = [susp EXCEPT ![v] = @ + 1]
  BY DEF Suspend, Goto, envVars, machVars, TypeInv, TypeOK, ThreadsOK
<1>2. v \in Held(t)' /\ Held(t) \subseteq Held(t)' /\ v \notin Held(t)
  <2>1. Held(t) = frame[t].list \ (frame[t].todo \cup {v})
    BY <1>1 DEF Held, Capturing, Vulnerable
  <2>2. Held(t)' = frame[t].list \ frame[t].todo
    BY <1>1 DEF Held, Capturing, Vulnerable
  <2>3. v \in frame[t].list \ frame[t].todo
    BY <1>1 DEF ReleaseInv, SuspendOK
  <2> QED
    BY <2>1, <2>2, <2>3
<1>3. Bears(t)
  BY <1>1, <1>2 DEF Bears, Doomed, Kind, ReleaseInv, SuspendOK
<1>4. \A u \in Threads : Bears(u)
  BY <1>1, <1>3, StillBears
<1>5. ASSUME alive, \A u \in live : ~Doomed(u)', NEW u \in Threads
      PROVE  susp'[u] <= Cardinality(Holders(u)')
  <2>1. \A w \in live : ~Doomed(w)
    BY <1>4, <1>5 DEF Bears, TypeInv, TypeOK, ThreadsOK
  <2>2. susp[u] <= Cardinality(Holders(u)) /\ susp[u] \in Nat
    BY <1>5, <2>1 DEF ReleaseInv, Released, TypeInv, TypeOK, ThreadsOK
  <2>3. Holders(u) \subseteq Holders(u)' /\ Holders(u)' \subseteq Threads
    BY <1>4 DEF Holders, Bears
  <2>4. IsFiniteSet(Holders(u)')
    BY <2>3, ThreadsFinite, FS_Subset
  <2>5. CASE u = v
    <3>1. t \notin Holders(u) /\ Holders(u) \cup {t} \subseteq Holders(u)'
      BY <1>2, <2>3, <2>5 DEF Holders
    <3>2. /\ IsFiniteSet(Holders(u) \cup {t})
          /\ Cardinality(Holders(u) \cup {t}) = Cardinality(Holders(u)) + 1
      BY <3>1, HoldersFinite, FS_AddElement
    <3>3. Cardinality(Holders(u) \cup {t}) <= Cardinality(Holders(u)')
      BY <2>4, <3>1, FS_Subset
    <3>4. /\ Cardinality(Holders(u)) \in Nat /\ Cardinality(Holders(u)') \in Nat
          /\ susp'[u] = susp[u] + 1
      BY <1>1, <2>4, <2>5, HoldersFinite, FS_CardinalityType
         DEF TypeInv, TypeOK, ThreadsOK
    <3> QED
      BY <2>2, <3>2, <3>3, <3>4
  <2>6. CASE u # v
    <3>1. /\ Cardinality(Holders(u)) <= Cardinality(Holders(u)')
          /\ Cardinality(Holders(u)) \in Nat /\ Cardinality(Holders(u)') \in Nat
      BY <2>3, <2>4, HoldersFinite, FS_Subset, FS_CardinalityType
    <3>2. susp'[u] = susp[u]
      BY <1>1, <2>6 DEF TypeInv, TypeOK, ThreadsOK
    <3> QED
      BY <2>2, <3>1, <3>2
  <2> QED
    BY <2>5, <2>6
<1> QED
  BY <1>1, <1>4, <1>5 DEF ReleaseInv, Released, Bears

\* EndSuspend: the whole list is held.
LEMMA EndSuspendRelease ==
  ASSUME TypeInv, ReleaseInv, NEW t \in Threads, EndSuspend(t)
  PROVE  ReleaseInv'
<1>1. /\ pc[t] = "suspending" /\ t \in live
      /\ UNCHANGED <<frame, susp, live, alive, known>>
      /\ pc'[t] \in {"resume", "notify", "fill"}
      /\ \A u \in Threads \ {t} : pc'[u] = pc[u]
  BY DEF EndSuspend, At, Running, Goto, AfterSuspend, envVars, TypeInv, TypeOK,
     ThreadsOK
<1>2. Held(t) \subseteq Held(t)'
  BY <1>1 DEF Held, Capturing, Vulnerable
<1>3. (Doomed(t) => Doomed(t)') /\ SuspendOK(t)'
  BY <1>1 DEF Doomed, Kind, ReleaseInv, SuspendOK
<1>4. Bears(t)
  BY <1>2, <1>3 DEF Bears
<1> QED
  BY <1>1, <1>4, OneBears

\* BeginResume: whom the NSException monitor does not resume is abandoned with a signal
\* to come.
LEMMA BeginResumeRelease ==
  ASSUME TypeInv, ReleaseInv, NEW t \in Threads, BeginResume(t)
  PROVE  ReleaseInv'
<1>1. /\ pc[t] = "resume" /\ pc'[t] = "resuming" /\ t \in live
      /\ UNCHANGED <<susp, live, alive, known>>
      /\ frame'[t].list = frame[t].list /\ frame'[t].kind = frame[t].kind
      /\ Kind(t) \in Resumes => frame'[t].todo = frame[t].list
      /\ \A u \in Threads \ {t} : pc'[u] = pc[u] /\ frame'[u] = frame[u]
  BY DEF BeginResume, At, Running, Goto, envVars, TypeInv, TypeOK, ThreadsOK, Frames
<1>2. (Doomed(t) => Doomed(t)') /\ SuspendOK(t)'
  BY <1>1 DEF Doomed, Kind, ReleaseInv, SuspendOK
<1>3. CASE Kind(t) = "nsexception"
  <2>1. Doomed(t)'
    BY <1>1, <1>3 DEF Doomed, Kind
  <2>2. \A u \in Threads : SuspendOK(u)'
    BY <1>1, <1>2 DEF ReleaseInv, SuspendOK, Kind
  <2> QED
    BY <1>1, <2>1, <2>2, DoomStep
<1>4. CASE Kind(t) # "nsexception"
  <2>1. Kind(t) \in Resumes \/ frame[t].list = {}
    BY <1>4 DEF ReleaseInv, SuspendOK, Resumes
  <2>2. Held(t) \subseteq Held(t)'
    BY <1>1, <2>1 DEF Held, Capturing, Vulnerable
  <2>3. Bears(t)
    BY <1>2, <2>2 DEF Bears
  <2> QED
    BY <1>1, <2>3, OneBears
<1> QED
  BY <1>3, <1>4

\* thread_resume takes one off the count of a thread, and the caller off its holders.
LEMMA ResumeRelease ==
  ASSUME TypeInv, ReleaseInv, NEW t \in Threads, Resume(t)
  PROVE  ReleaseInv'
<1>1. PICK v \in frame[t].todo : /\ susp' = [susp EXCEPT ![v] = Resumed(@)]
                                 /\ frame' = [frame EXCEPT ![t].todo = @ \ {v}]
  BY DEF Resume
<1>2. /\ pc[t] = "resuming" /\ UNCHANGED <<pc, live, alive, known>>
      /\ \A u \in Threads \ {t} : frame'[u] = frame[u]
      /\ frame'[t].todo = frame[t].todo \ {v} /\ frame'[t].list = frame[t].list
      /\ frame'[t].kind = frame[t].kind
  BY <1>1 DEF Resume, At, envVars, machVars, TypeInv, TypeOK, ThreadsOK, Frames
<1>3. v \in Threads
  BY FrameFields DEF TypeInv, TypeOK
<1>4. Held(t)' = Held(t) \ {v} /\ v \in Held(t)
  BY <1>2 DEF Held
<1>5. \A u \in Threads \ {t} : Held(u)' = Held(u)
  BY <1>2 DEF Held
<1>6. \A u \in Threads : (Doomed(u) => Doomed(u)') /\ SuspendOK(u)'
  BY <1>2 DEF Doomed, Kind, ReleaseInv, SuspendOK
<1>7. ASSUME alive, \A u \in live : ~Doomed(u)', NEW u \in Threads
      PROVE  susp'[u] <= Cardinality(Holders(u)')
  <2>1. \A w \in live : ~Doomed(w)
    BY <1>6, <1>7 DEF TypeInv, TypeOK, ThreadsOK
  <2>2. susp[u] <= Cardinality(Holders(u)) /\ susp[u] \in Nat
    BY <1>7, <2>1 DEF ReleaseInv, Released, TypeInv, TypeOK, ThreadsOK
  <2>3. IsFiniteSet(Holders(u)) /\ Cardinality(Holders(u)) \in Nat
    BY HoldersFinite
  <2>4. CASE u = v
    <3>1. t \in Holders(u) /\ Holders(u)' = Holders(u) \ {t}
      BY <1>4, <1>5, <2>4 DEF Holders
    <3>2. Cardinality(Holders(u)') = Cardinality(Holders(u)) - 1
      BY <2>3, <3>1, FS_RemoveElement
    <3>3. Cardinality(Holders(u)) # 0
      BY <2>3, <3>1, FS_EmptySet
    <3>4. susp'[u] = Resumed(susp[u])
      BY <1>1, <1>3, <2>4 DEF TypeInv, TypeOK, ThreadsOK
    <3> QED
      BY <2>2, <2>3, <3>2, <3>3, <3>4 DEF Resumed
  <2>5. CASE u # v
    <3>1. Holders(u)' = Holders(u)
      BY <1>4, <1>5, <2>5 DEF Holders
    <3>2. susp'[u] = susp[u]
      BY <1>1, <2>5 DEF TypeInv, TypeOK, ThreadsOK
    <3> QED
      BY <2>2, <3>1, <3>2
  <2> QED
    BY <2>4, <2>5
<1> QED
  BY <1>2, <1>6, <1>7 DEF ReleaseInv, Released

\* EndResume: everybody is resumed.
LEMMA EndResumeRelease ==
  ASSUME TypeInv, ReleaseInv, NEW t \in Threads, EndResume(t)
  PROVE  ReleaseInv'
<1>1. /\ pc[t] = "resuming" /\ frame[t].todo = {} /\ t \in live
      /\ UNCHANGED <<frame, susp, live, alive, known>>
      /\ pc'[t] # "leave" => pc'[t] = "idle" /\ Kind(t) \in NonFatalOrigins
      /\ \A u \in Threads \ {t} : pc'[u] = pc[u]
  BY DEF EndResume, At, Running, Goto, envVars, machVars, TypeInv, TypeOK, ThreadsOK
<1>2. Held(t) = {}
  BY <1>1 DEF Held, Capturing, Vulnerable
<1>3. (Doomed(t) => Doomed(t)') /\ SuspendOK(t)'
  BY <1>1 DEF Doomed, Kind, ReleaseInv, SuspendOK, NonFatalOrigins
<1>4. Bears(t)
  BY <1>2, <1>3 DEF Bears
<1> QED
  BY <1>1, <1>4, OneBears

\* Leave: a handler that ends in a signal does not end quietly.
LEMMA LeaveRelease ==
  ASSUME TypeInv, ReleaseInv, NEW t \in Threads, Leave(t)
  PROVE  ReleaseInv'
<1>0. frame[t].ev \in EventIds
  BY FrameFields DEF TypeInv, TypeOK
<1>1. pc[t] = "leave" /\ t \in live /\ UNCHANGED <<susp, live, known>>
  BY DEF Leave, At, Running, envVars, machVars
<1>2. CASE Signal(t, frame[t].ev)
  BY <1>0, <1>1, <1>2, FaultRelease
<1>3. CASE Start(t, "nsexception", frame[t].ev)
  BY <1>0, <1>1, <1>3, StartOK, DoomStep DEF Kinds
<1>4. CASE /\ UNCHANGED <<frame, alive>> /\ Kind(t) \in {"snapshot", "mach"}
           /\ pc'[t] \in {"idle", "done"}
           /\ \A u \in Threads \ {t} :
                pc'[u] = pc[u] \/ (pc[u] = "blocked" /\ pc'[u] = "signalled")
  <2>1. Held(t) = {} /\ ~Doomed(t) /\ SuspendOK(t)'
    BY <1>1, <1>4 DEF Held, Doomed, ReleaseInv, SuspendOK, Kind, Capturing, Vulnerable
  <2>2. ASSUME NEW u \in Threads \ {t}, pc[u] = "blocked", pc'[u] = "signalled"
        PROVE  Held(u) = {} /\ Doomed(u)' /\ SuspendOK(u)'
    BY <1>1, <1>4, <2>2
       DEF Held, Doomed, ReleaseInv, SuspendOK, Kind, Capturing, Vulnerable
  <2>3. \A u \in Threads : Bears(u)
    BY <1>1, <1>4, <2>1, <2>2, StillBears DEF Bears
  <2> QED
    BY <1>1, <1>4, <2>3, BearStep
<1>5. \/ Signal(t, frame[t].ev) \/ Start(t, "nsexception", frame[t].ev)
      \/ /\ UNCHANGED <<frame, alive>> /\ Kind(t) \in {"snapshot", "mach"}
         /\ pc'[t] \in {"idle", "done"}
         /\ \A u \in Threads \ {t} :
              pc'[u] = pc[u] \/ (pc[u] = "blocked" /\ pc'[u] = "signalled")
  BY <1>1 DEF Leave, Goto, TypeInv, TypeOK, ThreadsOK
<1> QED
  BY <1>2, <1>3, <1>4, <1>5

\* Deliver starts the signal handler, or ends the process.
LEMMA DeliverRelease ==
  ASSUME TypeInv, ReleaseInv, NEW t \in Threads, Deliver(t)
  PROVE  ReleaseInv'
<1>1. frame[t].ev \in EventIds
  BY FrameFields DEF TypeInv, TypeOK
<1> QED
  BY <1>1, FaultRelease DEF Deliver, At, Running, envVars, machVars

\* Receive: a Mach thread that waited held nobody.
LEMMA ReceiveRelease ==
  ASSUME TypeInv, ReleaseInv, NEW t \in Threads, Receive(t)
  PROVE  ReleaseInv'
<1>1. PICK v \in queue : frame' = [frame EXCEPT ![t] = [IdleFrame(t) EXCEPT
                           !.kind = "mach", !.ev = frame[v].ev, !.served = v]]
  BY DEF Receive
<1>2. /\ pc[t] = "wait" /\ t \in live /\ UNCHANGED <<susp, live, alive, known>>
      /\ pc'[t] = "enter" /\ frame'[t].list = {} /\ Kind(t)' = "mach"
      /\ \A u \in Threads \ {t} : pc'[u] = pc[u] /\ frame'[u] = frame[u]
  BY <1>1 DEF Receive, At, Running, IdleFrame, Kind, TypeInv, TypeOK, ThreadsOK
<1>3. Held(t) = {} /\ ~Doomed(t) /\ SuspendOK(t)'
  BY <1>2 DEF Held, Doomed, SuspendOK, Capturing, Vulnerable
<1>4. Bears(t)
  BY <1>3 DEF Bears
<1> QED
  BY <1>2, <1>4, OneBears

\* NewEventOn: an idle thread held nobody.
LEMMA NewEventOnRelease ==
  ASSUME TypeInv, ReleaseInv, NEW t \in Threads, NEW o \in Origins, NewEventOn(t, o)
  PROVE  ReleaseInv'
<1>1. events + 1 \in EventIds
  BY NewEventType, MonitorsAssumption DEF NewEventOn, TypeInv, TypeOK
<1>2. pc[t] = "idle" /\ t \in live /\ UNCHANGED <<susp, live, known>>
  BY DEF NewEventOn, At, Running
<1>3. CASE Fault(t, events + 1) \/ Signal(t, events + 1)
  BY <1>1, <1>2, <1>3, FaultRelease
<1>4. ASSUME NEW k \in Kinds, Start(t, k, events + 1), alive' = alive
      PROVE  ReleaseInv'
  <2>1. Held(t) = {} /\ ~Doomed(t)
    BY <1>2 DEF Held, Doomed, Capturing, Vulnerable
  <2>2. Bears(t)
    BY <1>1, <1>2, <1>4, <2>1, StartOK DEF Bears
  <2> QED
    BY <1>1, <1>2, <1>4, <2>2, StartOK, OneBears
<1> QED
  BY <1>3, <1>4, NewEventStarts

\* HandlerFault: whom the handler held is abandoned with a signal to come.
LEMMA HandlerFaultRelease ==
  ASSUME TypeInv, ReleaseInv, NEW t \in Threads, HandlerFault(t)
  PROVE  ReleaseInv'
<1>1. events + 1 \in EventIds
  BY NewEventType DEF HandlerFault, TypeInv, TypeOK, FatalOrigins
<1> QED
  BY <1>1, FaultRelease DEF HandlerFault, Running

\* Spawn: a new thread holds nobody.
LEMMA SpawnRelease ==
  ASSUME TypeInv, ReleaseInv, NEW t \in Threads, Spawn(t)
  PROVE  ReleaseInv'
<1>1. live \subseteq live' /\ UNCHANGED <<pc, frame, susp, alive, known>>
  BY DEF Spawn, threadVars, machVars
<1>2. \A u \in Threads : Bears(u)
  BY <1>1, StillBears
<1> QED
  BY <1>1, <1>2, BearStep

\* Initially no thread is suspended.
LEMMA InitRelease == Init => ReleaseInv
<1> SUFFICES ASSUME Init PROVE ReleaseInv
  OBVIOUS
<1>1. \A t \in Threads : /\ Kind(t) = "signal" /\ pc[t] \notin {"suspending", "inKernel"}
                         /\ t \notin live => pc[t] \in {"idle", "done"}
  BY DEF Init, Kind, IdleFrame, Handlers, Threads
<1>2. \A t \in Threads : SuspendOK(t)
  BY <1>1 DEF SuspendOK, Suspends, Kinds
<1>3. \A u \in Threads : susp[u] = 0 /\ Cardinality(Holders(u)) \in Nat
  BY HoldersFinite DEF Init
<1>4. Released
  BY <1>3 DEF Released
<1> QED
  BY <1>2, <1>4 DEF ReleaseInv, Init

\* Every step keeps ReleaseInv.
LEMMA NextRelease == TypeInv /\ ReleaseInv /\ [Next]_vars => ReleaseInv'
<1> SUFFICES ASSUME TypeInv, ReleaseInv, [Next]_vars PROVE ReleaseInv'
  OBVIOUS
<1>1. CASE UNCHANGED vars
  <2>1. UNCHANGED <<pc, frame, susp, live, alive, known>>
    BY <1>1 DEF vars, threadVars, machVars, envVars
  <2> QED
    BY <2>1, StillBears, BearStep
<1>2. ASSUME NEW t \in Threads, Step(t) PROVE ReleaseInv'
  BY <1>2, EnterRelease, ReadThreadListRelease, CallSuspendRelease, SuspendRelease,
     EndSuspendRelease, UninstallMachRelease, EndCancelledRelease,
     ActivateSecondaryRelease, CaptureRelease, BeginResumeRelease, ResumeRelease,
     EndResumeRelease, LeaveRelease, DeliverRelease, ReceiveRelease
     DEF Step, CaptureAction
<1>3. ASSUME NEW t \in Threads, Env(t) PROVE ReleaseInv'
  BY <1>3, NewEventOnRelease, HandlerFaultRelease, SpawnRelease DEF Env
<1> QED
  BY <1>1, <1>2, <1>3 DEF Next, Rest

\* growingcrashmc_resumeEnvironment undoes what growingcrashmc_suspendEnvironment did:
\* when no handler runs in a living process, every thread that exists runs, whatever
\* handlers ran, crashed or were interrupted, and however many threads there are.
THEOREM EverybodyResumed == Spec => []NobodyLeftSuspended
<1>1. Init => TypeInv /\ ReleaseInv
  BY InitType, InitRelease
<1>2. TypeInv /\ ReleaseInv /\ [Next]_vars => (TypeInv /\ ReleaseInv)'
  BY NextType, NextRelease
<1>3. TypeInv /\ ReleaseInv => NobodyLeftSuspended
  <2> SUFFICES ASSUME TypeInv, ReleaseInv, alive, NEW u \in live,
                      \A t \in live : pc[t] \in {"idle", "wait", "parked"}
               PROVE  susp[u] = 0
    BY DEF NobodyLeftSuspended
  <2>1. \A t \in live : ~Doomed(t)
    BY DEF Doomed
  <2>2. u \in Threads /\ susp[u] \in Nat
    BY DEF TypeInv, TypeOK, ThreadsOK
  <2>3. susp[u] <= Cardinality(Holders(u))
    BY <2>1, <2>2 DEF ReleaseInv, Released
  <2>4. \A t \in Threads : pc[t] \in {"idle", "wait", "parked", "done"}
    BY DEF ReleaseInv, SuspendOK
  <2>5. Holders(u) = {}
    BY <2>4 DEF Holders, Held, Capturing, Vulnerable
  <2> QED
    BY <2>2, <2>3, <2>5, FS_EmptySet
<1> QED
  BY <1>1, <1>2, <1>3, PTL DEF Spec

(***************************************************************************)
(* The crash flag.                                                         *)
(***************************************************************************)
\* In this step thread u does not capture, or stays where it is.
Calm(u) ==
  \/ pc'[u] = pc[u] /\ frame'[u] = frame[u]
  \/ /\ pc'[u] \in Capturing => pc'[u] \in {"fill", "notify"} /\ Kind(u)' \notin Suspends
     /\ frame'[u].ev <= events
     /\ u \in Handlers => Kind(u)' \in {"mach", "signal"}
     /\ Kind(u)' = "snapshot" => frame'[u].ev # 0 /\ origin[frame'[u].ev] = "snapshot"

\* What the invariant reads, besides where the threads are.
recordVars == <<enabled, crashedDuring, ctx, files, crashFlag, events, origin>>

\* Calm threads cannot disturb the invariant.
LEMMA CalmStep ==
  ASSUME TypeInv, FlagInv, \A u \in Threads : Calm(u), UNCHANGED recordVars
  PROVE  FlagInv'
<1>1. KindsOK'
  BY DEF FlagInv, KindsOK, Calm, Kind, Threads
<1>2. OneCapture'
  BY DEF FlagInv, OneCapture, Calm, Kind, Threads
<1>3. ContextsOK'
  BY DEF FlagInv, ContextsOK, Calm, Kind, recordVars, Capturing, Vulnerable, Suspends,
     Kinds
<1>4. EventsOK'
  BY DEF FlagInv, EventsOK, Calm, Kind, recordVars
<1>5. FlagOK'
  BY DEF FlagInv, FlagOK, Calm, Kind, recordVars, Fatal, Capturing, Vulnerable
<1> QED
  BY <1>1, <1>2, <1>3, <1>4, <1>5 DEF FlagInv

\* A thread that goes on with its handler, but does not capture, is calm.
LEMMA CalmMove ==
  ASSUME TypeInv, FlagInv, NEW t \in Threads,
         pc'[t] \in Capturing => pc'[t] \in {"fill", "notify"} /\ Kind(t) \notin Suspends,
         frame'[t].kind = frame[t].kind, frame'[t].ev = frame[t].ev,
         \A u \in Threads \ {t} : pc'[u] = pc[u] /\ frame'[u] = frame[u],
         UNCHANGED recordVars
  PROVE  FlagInv'
<1>1. Calm(t)
  BY DEF Calm, Kind, FlagInv, KindsOK, EventsOK
<1>2. \A u \in Threads \ {t} : Calm(u)
  BY DEF Calm
<1> QED
  BY <1>1, <1>2, CalmStep

\* Enter is calm.
LEMMA EnterFlag ==
  ASSUME TypeInv, FlagInv, NEW t \in Threads, Enter(t)
  PROVE  FlagInv'
<1>1. UNCHANGED recordVars
  BY DEF Enter, recordVars, coreVars, diskVars, envVars
<1>2. /\ \/ pc'[t] \in {"idle", "leave", "suspend", "resume"}
         \/ pc'[t] \in {"fill", "notify"} /\ Kind(t) \notin Suspends
      /\ frame'[t].kind = frame[t].kind /\ frame'[t].ev = frame[t].ev
      /\ \A u \in Threads \ {t} : pc'[u] = pc[u] /\ frame'[u] = frame[u]
  BY DEF Enter, Goto, AfterSuspend, TypeInv, TypeOK, ThreadsOK, Frames
<1>3. pc'[t] \in Capturing => pc'[t] \in {"fill", "notify"} /\ Kind(t) \notin Suspends
  BY <1>2 DEF Capturing, Vulnerable
<1> QED
  BY <1>1, <1>2, <1>3, CalmMove

\* ReadThreadList is calm.
LEMMA ReadThreadListFlag ==
  ASSUME TypeInv, FlagInv, NEW t \in Threads, ReadThreadList(t)
  PROVE  FlagInv'
<1>1. UNCHANGED recordVars
  BY DEF ReadThreadList, recordVars, coreVars, diskVars, envVars
<1>2. /\ pc'[t] = "suspending"
      /\ frame'[t].kind = frame[t].kind /\ frame'[t].ev = frame[t].ev
      /\ \A u \in Threads \ {t} : pc'[u] = pc[u] /\ frame'[u] = frame[u]
  BY DEF ReadThreadList, Goto, TypeInv, TypeOK, ThreadsOK, Frames
<1>3. pc'[t] \notin Capturing
  BY <1>2 DEF Capturing, Vulnerable
<1> QED
  BY <1>1, <1>2, <1>3, CalmMove

\* CallSuspend is calm.
LEMMA CallSuspendFlag ==
  ASSUME TypeInv, FlagInv, NEW t \in Threads, CallSuspend(t)
  PROVE  FlagInv'
<1>1. UNCHANGED recordVars
  BY DEF CallSuspend, recordVars, coreVars, diskVars, envVars
<1>2. /\ pc'[t] = "inKernel"
      /\ frame'[t].kind = frame[t].kind /\ frame'[t].ev = frame[t].ev
      /\ \A u \in Threads \ {t} : pc'[u] = pc[u] /\ frame'[u] = frame[u]
  BY DEF CallSuspend, Goto, TypeInv, TypeOK, ThreadsOK, Frames
<1>3. pc'[t] \notin Capturing
  BY <1>2 DEF Capturing, Vulnerable
<1> QED
  BY <1>1, <1>2, <1>3, CalmMove

\* Suspend is calm.
LEMMA SuspendFlag ==
  ASSUME TypeInv, FlagInv, NEW t \in Threads, Suspend(t)
  PROVE  FlagInv'
<1>1. UNCHANGED recordVars
  BY DEF Suspend, recordVars, coreVars, diskVars, envVars
<1>2. /\ pc'[t] = "suspending"
      /\ frame'[t].kind = frame[t].kind /\ frame'[t].ev = frame[t].ev
      /\ \A u \in Threads \ {t} : pc'[u] = pc[u] /\ frame'[u] = frame[u]
  BY DEF Suspend, Goto, TypeInv, TypeOK, ThreadsOK, Frames
<1>3. pc'[t] \notin Capturing
  BY <1>2 DEF Capturing, Vulnerable
<1> QED
  BY <1>1, <1>2, <1>3, CalmMove

\* BeginResume is calm.
LEMMA BeginResumeFlag ==
  ASSUME TypeInv, FlagInv, NEW t \in Threads, BeginResume(t)
  PROVE  FlagInv'
<1>1. UNCHANGED recordVars
  BY DEF BeginResume, recordVars, coreVars, diskVars, envVars
<1>2. /\ pc'[t] = "resuming"
      /\ frame'[t].kind = frame[t].kind /\ frame'[t].ev = frame[t].ev
      /\ \A u \in Threads \ {t} : pc'[u] = pc[u] /\ frame'[u] = frame[u]
  BY DEF BeginResume, Goto, TypeInv, TypeOK, ThreadsOK, Frames
<1>3. pc'[t] \notin Capturing
  BY <1>2 DEF Capturing, Vulnerable
<1> QED
  BY <1>1, <1>2, <1>3, CalmMove

\* Resume is calm.
LEMMA ResumeFlag ==
  ASSUME TypeInv, FlagInv, NEW t \in Threads, Resume(t)
  PROVE  FlagInv'
<1>1. UNCHANGED recordVars
  BY DEF Resume, recordVars, coreVars, diskVars, envVars
<1>2. /\ pc[t] = "resuming" /\ pc'[t] = pc[t]
      /\ frame'[t].kind = frame[t].kind /\ frame'[t].ev = frame[t].ev
      /\ \A u \in Threads \ {t} : pc'[u] = pc[u] /\ frame'[u] = frame[u]
  BY DEF Resume, At, TypeInv, TypeOK, ThreadsOK, Frames
<1>3. pc'[t] \notin Capturing
  BY <1>2 DEF Capturing, Vulnerable
<1> QED
  BY <1>1, <1>2, <1>3, CalmMove

\* EndResume is calm.
LEMMA EndResumeFlag ==
  ASSUME TypeInv, FlagInv, NEW t \in Threads, EndResume(t)
  PROVE  FlagInv'
<1>1. UNCHANGED recordVars
  BY DEF EndResume, recordVars, coreVars, diskVars, envVars
<1>2. /\ pc'[t] \in {"idle", "leave"}
      /\ frame'[t].kind = frame[t].kind /\ frame'[t].ev = frame[t].ev
      /\ \A u \in Threads \ {t} : pc'[u] = pc[u] /\ frame'[u] = frame[u]
  BY DEF EndResume, Goto, TypeInv, TypeOK, ThreadsOK, Frames
<1>3. pc'[t] \notin Capturing
  BY <1>2 DEF Capturing, Vulnerable
<1> QED
  BY <1>1, <1>2, <1>3, CalmMove

\* EndCancelled is calm.
LEMMA EndCancelledFlag ==
  ASSUME TypeInv, FlagInv, NEW t \in Threads, EndCancelled(t)
  PROVE  FlagInv'
<1>1. UNCHANGED recordVars
  BY DEF EndCancelled, recordVars, coreVars, diskVars, envVars
<1>2. /\ pc'[t] = "dead"
      /\ frame'[t].kind = frame[t].kind /\ frame'[t].ev = frame[t].ev
      /\ \A u \in Threads \ {t} : pc'[u] = pc[u] /\ frame'[u] = frame[u]
  BY DEF EndCancelled, Goto, TypeInv, TypeOK, ThreadsOK, Frames
<1>3. pc'[t] \notin Capturing
  BY <1>2 DEF Capturing, Vulnerable
<1> QED
  BY <1>1, <1>2, <1>3, CalmMove

\* A new thread is calm.
LEMMA SpawnFlag ==
  ASSUME TypeInv, FlagInv, NEW t \in Threads, Spawn(t)
  PROVE  FlagInv'
BY CalmStep DEF Spawn, Calm, recordVars, threadVars, coreVars, diskVars

\* A signal starts the signal handler with an event that has happened, or kills.
LEMMA SignalFlag ==
  ASSUME TypeInv, FlagInv, NEW t \in Threads, NEW e \in EventIds, e <= events,
         Signal(t, e), UNCHANGED recordVars
  PROVE  FlagInv'
<1>1. CASE UNCHANGED <<pc, frame>>
  BY <1>1, CalmStep DEF Calm
<1>2. CASE Start(t, "signal", e)
  <2>1. /\ pc'[t] = "enter" /\ Kind(t)' = "signal" /\ frame'[t].ev = e
        /\ \A u \in Threads \ {t} : pc'[u] = pc[u] /\ frame'[u] = frame[u]
    BY <1>2 DEF Start, Entry, Tests, Kinds, Kind, IdleFrame, TypeInv, TypeOK, ThreadsOK
  <2>2. Calm(t) /\ \A u \in Threads \ {t} : Calm(u)
    BY <2>1 DEF Calm, Capturing, Vulnerable
  <2> QED
    BY <2>2, CalmStep
<1> QED
  BY <1>1, <1>2 DEF Signal

\* Leave ends a handler, or hands its event to the next one.
LEMMA LeaveFlag ==
  ASSUME TypeInv, FlagInv, NEW t \in Threads, Leave(t)
  PROVE  FlagInv'
<1>0. frame[t].ev \in EventIds /\ frame[t].ev <= events
  BY FrameFields DEF TypeInv, TypeOK, FlagInv, EventsOK
<1>1. UNCHANGED recordVars
  BY DEF Leave, recordVars, coreVars, diskVars, envVars
<1>2. CASE Signal(t, frame[t].ev)
  BY <1>0, <1>1, <1>2, SignalFlag
<1>3. CASE Kind(t) = "objc" /\ Start(t, "nsexception", frame[t].ev)
  <2>1. /\ pc'[t] = "enter" /\ Kind(t)' = "nsexception" /\ frame'[t].ev = frame[t].ev
        /\ \A u \in Threads \ {t} : pc'[u] = pc[u] /\ frame'[u] = frame[u]
    BY <1>3 DEF Start, Entry, Tests, Kinds, Kind, IdleFrame, TypeInv, TypeOK, ThreadsOK
  <2>2. t \notin Handlers
    BY <1>3 DEF FlagInv, KindsOK
  <2>3. Calm(t) /\ \A u \in Threads \ {t} : Calm(u)
    BY <1>0, <2>1, <2>2 DEF Calm, Capturing, Vulnerable
  <2> QED
    BY <1>1, <2>3, CalmStep
<1>4. CASE /\ frame' = frame
           /\ \A u \in Threads : pc'[u] = pc[u] \/ pc'[u] \in {"idle", "done", "signalled"}
  <2>1. ASSUME NEW u \in Threads PROVE Calm(u)
    <3>1. pc'[u] = pc[u] \/ pc'[u] \notin Capturing
      BY <1>4 DEF Capturing, Vulnerable
    <3> QED
      BY <1>4, <3>1 DEF Calm, Kind, FlagInv, KindsOK, EventsOK
  <2> QED
    BY <1>1, <2>1, CalmStep
<1>5. \/ Signal(t, frame[t].ev)
      \/ Kind(t) = "objc" /\ Start(t, "nsexception", frame[t].ev)
      \/ /\ frame' = frame
         /\ \A u \in Threads : pc'[u] = pc[u] \/ pc'[u] \in {"idle", "done", "signalled"}
  BY DEF Leave, Goto, TypeInv, TypeOK, ThreadsOK
<1> QED
  BY <1>2, <1>3, <1>4, <1>5

\* A signal that is delivered starts the signal handler, or ends the process.
LEMMA DeliverFlag ==
  ASSUME TypeInv, FlagInv, NEW t \in Threads, Deliver(t)
  PROVE  FlagInv'
<1>0. frame[t].ev \in EventIds /\ frame[t].ev <= events
  BY FrameFields DEF TypeInv, TypeOK, FlagInv, EventsOK
<1> QED
  BY <1>0, SignalFlag DEF Deliver, recordVars, coreVars, diskVars, envVars

\* A Mach thread receives an event that has happened.
LEMMA ReceiveFlag ==
  ASSUME TypeInv, FlagInv, NEW t \in Threads, Receive(t)
  PROVE  FlagInv'
<1>1. PICK v \in queue : frame' = [frame EXCEPT ![t] = [IdleFrame(t) EXCEPT
                           !.kind = "mach", !.ev = frame[v].ev, !.served = v]]
  BY DEF Receive
<1>2. v \in Threads
  BY DEF TypeInv, TypeOK, ReporterOK
<1>3. /\ pc'[t] = "enter" /\ Kind(t)' = "mach" /\ frame'[t].ev = frame[v].ev
      /\ \A u \in Threads \ {t} : pc'[u] = pc[u] /\ frame'[u] = frame[u]
  BY <1>1 DEF Receive, IdleFrame, Kind, TypeInv, TypeOK, ThreadsOK
<1>4. Calm(t) /\ \A u \in Threads \ {t} : Calm(u)
  BY <1>2, <1>3 DEF Calm, Capturing, Vulnerable, FlagInv, EventsOK
<1> QED
  BY <1>4, CalmStep DEF Receive, recordVars, coreVars, diskVars

\* A new event is none of those that are being reported.
LEMMA NewEventFlag ==
  ASSUME TypeInv, NEW o, NewEvent(o)
  PROVE  /\ events' \in Nat /\ events' = events + 1 /\ events' # 0
         /\ origin'[events'] = o
         /\ \A e \in EventIds : e <= events => e <= events'
         /\ \A e \in EventIds : e <= events /\ e # 0 => origin'[e] = origin[e]
         /\ \A e \in EventIds : e <= events => (Fatal(e)' <=> Fatal(e))
<1>1. events \in Nat /\ events + 1 \in 1 .. MaxEvents
  BY BoundsAssumption DEF NewEvent, TypeInv, TypeOK, HistoryOK, EventIds
<1>2. DOMAIN origin = 1 .. MaxEvents
  BY DEF TypeInv, TypeOK, HistoryOK
<1>3. origin'[events + 1] = o
  BY <1>1, <1>2 DEF NewEvent
<1>4. \A e \in EventIds : e <= events => e # events + 1 /\ (e # 0 => origin'[e] = origin[e])
  BY <1>1, <1>2, BoundsAssumption DEF NewEvent, EventIds
<1>5. \A e \in EventIds : e <= events => (Fatal(e)' <=> Fatal(e))
  BY <1>4 DEF Fatal
<1>6. \A e \in EventIds : e <= events => e <= events'
  BY <1>1 DEF NewEvent, EventIds
<1> QED
  BY <1>1, <1>3, <1>4, <1>5, <1>6 DEF NewEvent

\* So a thread that starts to handle a new event disturbs nothing.
LEMMA EventStep ==
  ASSUME TypeInv, FlagInv, NEW t \in Threads,
         NEW o \in FatalOrigins \cup NonFatalOrigins, NewEvent(o),
         \A u \in Threads \ {t} : pc'[u] = pc[u] /\ frame'[u] = frame[u],
         \/ UNCHANGED <<pc, frame>>
         \/ /\ pc'[t] \notin Capturing /\ frame'[t].ev = events + 1
            /\ t \in Handlers => Kind(t)' \in {"mach", "signal"}
            /\ Kind(t)' = "snapshot" => o = "snapshot",
         UNCHANGED <<enabled, crashedDuring, ctx, files, crashFlag>>
  PROVE  FlagInv'
<1>1. KindsOK'
  BY DEF FlagInv, KindsOK, Kind, Threads
<1>2. OneCapture'
  BY DEF FlagInv, OneCapture, Kind, Threads
<1>3. ContextsOK'
  BY DEF FlagInv, ContextsOK, Kind, Capturing
<1>4. EventsOK'
  <2>1. ASSUME NEW u \in Threads
        PROVE  /\ frame'[u].ev <= events'
               /\ Kind(u)' = "snapshot" => /\ frame'[u].ev # 0
                                           /\ origin'[frame'[u].ev] = "snapshot"
    <3>1. /\ frame[u].ev \in EventIds /\ frame[u].ev <= events
          /\ Kind(u) = "snapshot" => frame[u].ev # 0 /\ origin[frame[u].ev] = "snapshot"
      BY FrameFields DEF TypeInv, TypeOK, FlagInv, EventsOK
    <3>2. CASE frame'[u] = frame[u]
      BY <3>1, <3>2, NewEventFlag, ZenonT(30) DEF Kind
    <3>3. CASE /\ u = t /\ frame'[t].ev = events + 1
               /\ Kind(t)' = "snapshot" => o = "snapshot"
      BY <3>3, NewEventFlag
    <3> QED
      BY <3>2, <3>3
  <2>2. \A c \in Contexts : ctx'[c].event <= events'
    <3>1. \A c \in Contexts : ctx[c].event \in EventIds /\ ctx[c].event <= events
      BY DEF TypeInv, TypeOK, ReporterOK, FlagInv, EventsOK
    <3> QED
      BY <3>1, NewEventFlag
  <2>3. \A i \in ReportIds : files'[i].of <= events'
    <3>1. \A i \in ReportIds : files[i].of \in EventIds /\ files[i].of <= events
      BY FileFields DEF TypeInv, TypeOK, FlagInv, EventsOK
    <3> QED
      BY <3>1, NewEventFlag
  <2> QED
    BY <2>1, <2>2, <2>3 DEF EventsOK
<1>5. FlagOK'
  <2>1. \A i \in ReportIds : Fatal(files[i].of)' => Fatal(files[i].of)
    <3>1. \A i \in ReportIds : files[i].of \in EventIds /\ files[i].of <= events
      BY FileFields DEF TypeInv, TypeOK, FlagInv, EventsOK
    <3> QED
      BY <3>1, NewEventFlag DEF Fatal
  <2>2. \A u \in Threads : pc'[u] \in Capturing => pc'[u] = pc[u] /\ frame'[u] = frame[u]
    OBVIOUS
  <2> QED
    BY <2>1, <2>2 DEF FlagInv, FlagOK, Kind, Capturing, Vulnerable
<1> QED
  BY <1>1, <1>2, <1>3, <1>4, <1>5 DEF FlagInv

\* An event starts the handler of a thread of the application, with its own number.
LEMMA NewEventOnFlag ==
  ASSUME TypeInv, FlagInv, NEW t \in Threads, NEW o \in Origins, NewEventOn(t, o)
  PROVE  FlagInv'
<1>1. NewEvent(o) /\ t \in AppThreads /\ t \notin Handlers
      /\ UNCHANGED <<enabled, crashedDuring, ctx, files, crashFlag>>
  BY ThreadsAssumption DEF NewEventOn, Handlers, coreVars, diskVars
<1>2. \A u \in Threads \ {t} : pc'[u] = pc[u] /\ frame'[u] = frame[u]
  BY NewEventStarts DEF Fault, Signal, Start, TypeInv, TypeOK, ThreadsOK
<1>3. \/ UNCHANGED <<pc, frame>>
      \/ /\ pc'[t] \in {"blocked", "enter", "suspend"} /\ frame'[t].ev = events + 1
         /\ Kind(t)' = "snapshot" => o = "snapshot"
  <2>1. CASE \E k \in Kinds : Start(t, k, events + 1) /\ (k = "snapshot" => o = k)
    BY <2>1 DEF Start, Entry, IdleFrame, Kind, TypeInv, TypeOK, ThreadsOK
  <2>2. CASE Signal(t, events + 1)
    BY <2>2 DEF Signal, Start, Entry, IdleFrame, Kind, TypeInv, TypeOK, ThreadsOK
  <2>3. CASE Fault(t, events + 1) /\ ports
    BY <2>3 DEF Fault, IdleFrame, Kind, TypeInv, TypeOK, ThreadsOK
  <2> QED
    BY <2>1, <2>2, <2>3, NewEventStarts DEF Fault
<1>4. o \in FatalOrigins \cup NonFatalOrigins
  BY MonitorsAssumption
<1>5. \/ UNCHANGED <<pc, frame>>
      \/ /\ pc'[t] \notin Capturing /\ frame'[t].ev = events + 1
         /\ Kind(t)' = "snapshot" => o = "snapshot"
  BY <1>3 DEF Capturing, Vulnerable
<1> QED
  BY <1>1, <1>2, <1>4, <1>5, EventStep

\* A handler that crashes starts anew, with the event of its crash.
LEMMA HandlerFaultFlag ==
  ASSUME TypeInv, FlagInv, NEW t \in Threads, HandlerFault(t)
  PROVE  FlagInv'
<1>1. NewEvent("fault") /\ Fault(t, events + 1)
      /\ UNCHANGED <<enabled, crashedDuring, ctx, files, crashFlag>>
  BY DEF HandlerFault, coreVars, diskVars
<1>2. \A u \in Threads \ {t} : pc'[u] = pc[u] /\ frame'[u] = frame[u]
  BY <1>1 DEF Fault, Signal, Start, TypeInv, TypeOK, ThreadsOK
<1>3. \/ UNCHANGED <<pc, frame>>
      \/ /\ pc'[t] \in {"blocked", "enter"} /\ frame'[t].ev = events + 1
         /\ Kind(t)' = "signal"
  <2>1. CASE ports
    BY <1>1, <2>1 DEF Fault, IdleFrame, Kind, TypeInv, TypeOK, ThreadsOK
  <2>2. CASE ~ports
    <3>1. Signal(t, events + 1)
      BY <1>1, <2>2 DEF Fault
    <3>2. CASE "signal" \in enabled
      <4>1. Start(t, "signal", events + 1)
        BY <3>1, <3>2 DEF Signal
      <4>2. pc \in [Threads -> Labels] /\ frame \in [Threads -> Frames]
        BY DEF TypeInv, TypeOK, ThreadsOK
      <4>3. Entry("signal") = "enter"
        BY DEF Entry, Tests, Kinds
      <4>4. pc'[t] = "enter" /\ frame'[t] = [IdleFrame(t) EXCEPT !.kind = "signal", !.ev = events + 1]
        BY <4>1, <4>2, <4>3 DEF Start
      <4>5. frame'[t].ev = events + 1 /\ frame'[t].kind = "signal"
        BY <4>4 DEF IdleFrame
      <4> QED
        BY <4>4, <4>5 DEF Kind
    <3>3. CASE "signal" \notin enabled
      BY <3>1, <3>3 DEF Signal
    <3> QED
      BY <3>2, <3>3
  <2> QED
    BY <2>1, <2>2
<1>4. pc'[t] \in {"blocked", "enter"} => pc'[t] \notin Capturing
  BY DEF Capturing, Vulnerable
<1>5. "fault" \in FatalOrigins
  BY DEF FatalOrigins
<1> QED
  BY <1>1, <1>2, <1>3, <1>4, <1>5, EventStep

\* Threads that go on capturing keep their kinds, their events and the places apart.
LEMMA CaptureThreads ==
  ASSUME TypeInv, FlagInv, NEW t \in Threads, pc[t] \in Capturing,
         \A u \in Threads : /\ frame'[u].kind = frame[u].kind /\ frame'[u].ev = frame[u].ev
                            /\ u # t => pc'[u] = pc[u] \/ pc'[u] \in {"dead", "wait"},
         UNCHANGED <<events, origin>>
  PROVE  /\ KindsOK' /\ OneCapture'
         /\ \A u \in Threads :
              /\ frame'[u].ev <= events'
              /\ Kind(u)' = "snapshot" => /\ frame'[u].ev # 0
                                          /\ origin'[frame'[u].ev] = "snapshot"
<1>1. KindsOK'
  BY DEF FlagInv, KindsOK, Kind, Threads
<1>2. "dead" \notin Capturing /\ "wait" \notin Capturing
  BY DEF Capturing, Vulnerable
<1>3. OneCapture'
  BY <1>2 DEF FlagInv, OneCapture, Kind, Threads
<1>4. \A u \in Threads :
              /\ frame'[u].ev <= events'
              /\ Kind(u)' = "snapshot" => /\ frame'[u].ev # 0
                                          /\ origin'[frame'[u].ev] = "snapshot"
  BY DEF FlagInv, EventsOK, Kind
<1> QED
  BY <1>1, <1>3, <1>4

\* UninstallMach: the handler goes on, other Mach threads may end.
LEMMA UninstallMachFlag ==
  ASSUME TypeInv, FlagInv, NEW t \in Threads, UninstallMach(t)
  PROVE  FlagInv'
<1>1. /\ pc[t] = "uninstall" /\ pc'[t] = "mask"
      /\ UNCHANGED <<ctx, files, crashFlag, enabled, crashedDuring, events, origin>>
  BY DEF UninstallMach, Goto, At, coreVars, diskVars, envVars, TypeInv, TypeOK,
     ThreadsOK
<1>2. \A u \in Threads : /\ frame'[u].kind = frame[u].kind /\ frame'[u].ev = frame[u].ev
                         /\ u # t => pc'[u] = pc[u] \/ pc'[u] \in {"dead", "wait"}
  BY DEF UninstallMach, Goto, TypeInv, TypeOK, ThreadsOK, Frames
<1>3. pc[t] \in Capturing
  BY <1>1 DEF Capturing, Vulnerable
<1>4. KindsOK' /\ OneCapture'
  BY <1>1, <1>2, <1>3, CaptureThreads
<1>5. ContextsOK'
  BY <1>1, <1>2 DEF FlagInv, ContextsOK, Kind, Vulnerable
<1>6. EventsOK'
  BY <1>1, <1>2, <1>3, CaptureThreads DEF FlagInv, EventsOK
<1>7. FlagOK'
  BY <1>1, <1>2 DEF FlagInv, FlagOK, Kind, Fatal, Vulnerable
<1> QED
  BY <1>4, <1>5, <1>6, <1>7 DEF FlagInv

\* ActivateSecondary: the handler goes on, the secondary thread may wait.
LEMMA ActivateSecondaryFlag ==
  ASSUME TypeInv, FlagInv, NEW t \in Threads, ActivateSecondary(t)
  PROVE  FlagInv'
<1>1. /\ pc[t] = "route" /\ pc'[t] = "fill"
      /\ UNCHANGED <<ctx, files, crashFlag, enabled, crashedDuring, events, origin>>
  BY DEF ActivateSecondary, Goto, Handlers, Threads, At, coreVars, diskVars,
     envVars, TypeInv, TypeOK, ThreadsOK
<1>2. \A u \in Threads : /\ frame'[u].kind = frame[u].kind /\ frame'[u].ev = frame[u].ev
                         /\ u # t => pc'[u] = pc[u] \/ pc'[u] \in {"dead", "wait"}
  BY DEF ActivateSecondary, Goto, Handlers, Threads, TypeInv, TypeOK, ThreadsOK, Frames
<1>3. pc[t] \in Capturing
  BY <1>1 DEF Capturing, Vulnerable
<1>4. KindsOK' /\ OneCapture'
  BY <1>1, <1>2, <1>3, CaptureThreads
<1>5. ContextsOK'
  BY <1>1, <1>2 DEF FlagInv, ContextsOK, Kind, Vulnerable
<1>6. EventsOK'
  BY <1>1, <1>2, <1>3, CaptureThreads DEF FlagInv, EventsOK
<1>7. FlagOK'
  BY <1>1, <1>2 DEF FlagInv, FlagOK, Kind, Fatal, Vulnerable
<1> QED
  BY <1>4, <1>5, <1>6, <1>7 DEF FlagInv

\* NotifyFatal: only the local copy of the flag changes.
LEMMA NotifyFatalFlag ==
  ASSUME TypeInv, FlagInv, NEW t \in Threads, NotifyFatal(t)
  PROVE  FlagInv'
<1>1. /\ pc[t] = "notify" /\ pc'[t] = "mark"
      /\ UNCHANGED <<ctx, files, crashFlag, enabled, crashedDuring, events, origin>>
  BY DEF NotifyFatal, Goto, At, coreVars, diskVars, envVars, TypeInv, TypeOK, ThreadsOK
<1>2. \A u \in Threads : /\ frame'[u].kind = frame[u].kind /\ frame'[u].ev = frame[u].ev
                         /\ u # t => pc'[u] = pc[u] \/ pc'[u] \in {"dead", "wait"}
  BY DEF NotifyFatal, Goto, TypeInv, TypeOK, ThreadsOK, Frames
<1>3. pc[t] \in Capturing
  BY <1>1 DEF Capturing, Vulnerable
<1>4. KindsOK' /\ OneCapture'
  BY <1>1, <1>2, <1>3, CaptureThreads
<1>5. ContextsOK'
  BY <1>1, <1>2 DEF FlagInv, ContextsOK, Kind, Vulnerable
<1>6. EventsOK'
  BY <1>1, <1>2, <1>3, CaptureThreads DEF FlagInv, EventsOK
<1>7. FlagOK'
  BY <1>1, <1>2 DEF FlagInv, FlagOK, Kind, Fatal, Vulnerable
<1> QED
  BY <1>4, <1>5, <1>6, <1>7 DEF FlagInv

\* DisableMach: the Mach monitor is not the application state.
LEMMA DisableMachFlag ==
  ASSUME TypeInv, FlagInv, NEW t \in Threads, DisableMach(t)
  PROVE  FlagInv'
<1>1. /\ /\ pc[t] = "disable" /\ pc'[t] \in {"uninstall", "mask"}
         /\ enabled' = enabled \ {"mach"}
      /\ UNCHANGED <<ctx, files, crashFlag, crashedDuring, events, origin>>
  BY DEF DisableMach, Goto, At, coreVars, diskVars, envVars, TypeInv, TypeOK, ThreadsOK
<1>2. \A u \in Threads : /\ frame'[u].kind = frame[u].kind /\ frame'[u].ev = frame[u].ev
                         /\ u # t => pc'[u] = pc[u] \/ pc'[u] \in {"dead", "wait"}
  BY DEF DisableMach, Goto, TypeInv, TypeOK, ThreadsOK, Frames
<1>3. pc[t] \in Capturing
  BY <1>1 DEF Capturing, Vulnerable
<1>4. KindsOK' /\ OneCapture'
  BY <1>1, <1>2, <1>3, CaptureThreads
<1>5. ContextsOK'
  BY <1>1, <1>2 DEF FlagInv, ContextsOK, Kind, Vulnerable
<1>6. EventsOK'
  BY <1>1, <1>2, <1>3, CaptureThreads DEF FlagInv, EventsOK
<1>7. FlagOK'
  BY <1>1, <1>2 DEF FlagInv, FlagOK, Kind, Fatal, Vulnerable
<1> QED
  BY <1>4, <1>5, <1>6, <1>7 DEF FlagInv

\* MarkFatal: a crash of the handler voids the promise.
LEMMA MarkFatalFlag ==
  ASSUME TypeInv, FlagInv, NEW t \in Threads, MarkFatal(t)
  PROVE  FlagInv'
<1>1. /\ /\ pc[t] = "mark" /\ pc'[t] \in {"disable", "route", "fill"}
         /\ pc'[t] = "disable" => crashedDuring'
         /\ crashedDuring => crashedDuring'
      /\ UNCHANGED <<ctx, files, crashFlag, enabled, events, origin>>
  BY DEF MarkFatal, Goto, CrashedDuring, At, coreVars, diskVars, envVars, TypeInv,
     TypeOK, ThreadsOK
<1>2. \A u \in Threads : /\ frame'[u].kind = frame[u].kind /\ frame'[u].ev = frame[u].ev
                         /\ u # t => pc'[u] = pc[u] \/ pc'[u] \in {"dead", "wait"}
  BY DEF MarkFatal, Goto, CrashedDuring, TypeInv, TypeOK, ThreadsOK, Frames
<1>3. pc[t] \in Capturing
  BY <1>1 DEF Capturing, Vulnerable
<1>4. KindsOK' /\ OneCapture'
  BY <1>1, <1>2, <1>3, CaptureThreads
<1>5. ContextsOK'
  BY <1>1, <1>2 DEF FlagInv, ContextsOK, Kind, Vulnerable
<1>6. EventsOK'
  BY <1>1, <1>2, <1>3, CaptureThreads DEF FlagInv, EventsOK
<1>7. FlagOK'
  BY <1>1, <1>2 DEF FlagInv, FlagOK, Kind, Fatal, Vulnerable
<1> QED
  BY <1>4, <1>5, <1>6, <1>7 DEF FlagInv

\* DisableOthers: the flag is on disk before the monitor that saves it goes.
LEMMA DisableOthersFlag ==
  ASSUME TypeInv, FlagInv, NEW t \in Threads, DisableOthers(t)
  PROVE  FlagInv'
<1>1. /\ /\ pc[t] = "mask" /\ pc'[t] \in {"route", "fill", "resume"}
         /\ enabled' = {}
      /\ UNCHANGED <<ctx, files, crashFlag, crashedDuring, events, origin>>
  BY DEF DisableOthers, Goto, NoneActive, Frames, At, coreVars, diskVars, envVars,
     TypeInv, TypeOK, ThreadsOK
<1>2. \A u \in Threads : /\ frame'[u].kind = frame[u].kind /\ frame'[u].ev = frame[u].ev
                         /\ u # t => pc'[u] = pc[u] \/ pc'[u] \in {"dead", "wait"}
  BY DEF DisableOthers, Goto, NoneActive, Frames, TypeInv, TypeOK, ThreadsOK, Frames
<1>3. pc[t] \in Capturing
  BY <1>1 DEF Capturing, Vulnerable
<1>4. KindsOK' /\ OneCapture'
  BY <1>1, <1>2, <1>3, CaptureThreads
<1>5. ContextsOK'
  BY <1>1, <1>2 DEF FlagInv, ContextsOK, Kind, Vulnerable
<1>6. EventsOK'
  BY <1>1, <1>2, <1>3, CaptureThreads DEF FlagInv, EventsOK
<1>7. FlagOK'
  BY <1>1, <1>2 DEF FlagInv, FlagOK, Kind, Fatal, Vulnerable
<1> QED
  BY <1>4, <1>5, <1>6, <1>7 DEF FlagInv

\* The context of the NSException monitor belongs to its two handlers.
LEMMA CtxOwner ==
  ASSUME TypeInv, NEW t \in Threads
  PROVE  Ctx(t) = "nsexception" <=> Kind(t) \in {"snapshot", "nsexception"}
<1>1. Kind(t) \in Kinds
  BY FrameFields DEF Kind, TypeInv, TypeOK
<1>2. t # "nsexception"
  BY ThreadsAssumption DEF Monitors
<1> QED
  BY <1>1, <1>2 DEF Ctx, MonitorOf, UserKinds, Kinds

\* What a handler has in its context is never taken for a snapshot when it is none, and
\* never for the event of another handler when it is one.
LEMMA OwnContext ==
  ASSUME TypeInv, FlagInv, NEW t \in Threads, pc[t] \in Vulnerable \ {"fill"}
  PROVE  /\ ctx[Ctx(t)].snapshot <=> Kind(t) = "snapshot"
         /\ Kind(t) = "snapshot" => /\ ctx[Ctx(t)].event = frame[t].ev
                                    /\ ~Fatal(ctx[Ctx(t)].event)
<1>1. Ctx(t) \in Contexts
  BY CtxType DEF TypeInv, TypeOK
<1>2. CASE Ctx(t) = "nsexception"
  <2>1. Kind(t) \in {"snapshot", "nsexception"}
    BY <1>2, CtxOwner
  <2>2. /\ ctx["nsexception"].event = frame[t].ev
        /\ ctx["nsexception"].snapshot = (Kind(t) = "snapshot")
    BY <2>1 DEF FlagInv, ContextsOK
  <2>3. Kind(t) = "snapshot" => origin[frame[t].ev] = "snapshot"
    BY DEF FlagInv, EventsOK
  <2>4. "snapshot" \notin FatalOrigins
    BY DEF FatalOrigins
  <2> QED
    BY <1>2, <2>2, <2>3, <2>4 DEF Fatal
<1>3. CASE Ctx(t) # "nsexception"
  BY <1>1, <1>3, CtxOwner DEF FlagInv, ContextsOK
<1> QED
  BY <1>2, <1>3

\* FillContext: the handler that fills the shared context is alone.
LEMMA FillContextFlag ==
  ASSUME TypeInv, FlagInv, NEW t \in Threads, FillContext(t)
  PROVE  FlagInv'
<1>1. /\ pc[t] = "fill" /\ pc'[t] = "event"
      /\ UNCHANGED <<files, crashFlag, enabled, crashedDuring, events, origin>>
  BY DEF FillContext, Goto, At, coreVars, diskVars, envVars, TypeInv, TypeOK, ThreadsOK
<1>2. \A u \in Threads : /\ frame'[u].kind = frame[u].kind /\ frame'[u].ev = frame[u].ev
                         /\ u # t => pc'[u] = pc[u] \/ pc'[u] \in {"dead", "wait"}
  BY DEF FillContext, Goto, TypeInv, TypeOK, ThreadsOK, Frames
<1>3. pc[t] \in Capturing
  BY <1>1 DEF Capturing, Vulnerable
<1>4. KindsOK' /\ OneCapture'
  BY <1>1, <1>2, <1>3, CaptureThreads
<1>5. ContextsOK'
  <2>0. Ctx(t) \in Contexts
    BY CtxType DEF TypeInv, TypeOK
  <2>1. /\ ctx'[Ctx(t)].event = frame[t].ev
        /\ ctx'[Ctx(t)].snapshot = (Kind(t) = "snapshot")
        /\ \A c \in Contexts \ {Ctx(t)} : ctx'[c] = ctx[c]
    BY <2>0 DEF FillContext, TypeInv, TypeOK, ReporterOK
  <2>2. \A c \in Contexts \ {"nsexception"} : ~ctx'[c].snapshot
    BY <2>1, CtxOwner DEF FlagInv, ContextsOK
  <2>3. ASSUME NEW u \in Threads, Kind(u) \in {"snapshot", "nsexception"},
               pc'[u] \in Vulnerable \ {"fill"}
        PROVE  /\ ctx'["nsexception"].event = frame[u].ev
               /\ ctx'["nsexception"].snapshot = (Kind(u) = "snapshot")
    <3>1. CASE u = t
      BY <2>1, <2>3, <3>1, CtxOwner
    <3>2. CASE u # t
      <4>1. pc[u] \in Vulnerable \ {"fill"} /\ u \in AppThreads /\ Kind(u) \in Suspends
        BY <1>2, <2>3, <3>2 DEF FlagInv, KindsOK, Threads, Vulnerable, Suspends, Kinds
      <4>2. Kind(t) \notin {"snapshot", "nsexception"}
        BY <1>3, <3>2, <4>1 DEF FlagInv, KindsOK, OneCapture, Threads, Capturing,
           Suspends, Kinds
      <4>3. ctx'["nsexception"] = ctx["nsexception"]
        BY <2>1, <4>2, CtxOwner DEF Contexts, Monitors
      <4> QED
        BY <2>3, <4>1, <4>3 DEF FlagInv, ContextsOK
    <3> QED
      BY <3>1, <3>2
  <2> QED
    BY <1>2, <2>2, <2>3 DEF ContextsOK, Kind
<1>6. EventsOK'
  <2>1. frame[t].ev <= events
    BY DEF FlagInv, EventsOK
  <2>2. \A c \in Contexts : ctx'[c].event <= events
    BY <2>1 DEF FillContext, TypeInv, TypeOK, ReporterOK, FlagInv, EventsOK
  <2> QED
    BY <1>1, <1>2, <1>3, <2>2, CaptureThreads DEF FlagInv, EventsOK
<1>7. FlagOK'
  BY <1>1, <1>2 DEF FlagInv, FlagOK, Kind, Fatal, Vulnerable
<1> QED
  BY <1>4, <1>5, <1>6, <1>7 DEF FlagInv

\* HandleException: only the recrash mark of the context changes.
LEMMA HandleExceptionFlag ==
  ASSUME TypeInv, FlagInv, NEW t \in Threads, HandleException(t)
  PROVE  FlagInv'
<1>1. /\ pc[t] = "event" /\ pc'[t] = "note"
      /\ UNCHANGED <<files, crashFlag, enabled, crashedDuring, events, origin>>
  BY DEF HandleException, Goto, At, coreVars, diskVars, envVars, TypeInv, TypeOK,
     ThreadsOK
<1>2. \A u \in Threads : /\ frame'[u].kind = frame[u].kind /\ frame'[u].ev = frame[u].ev
                         /\ u # t => pc'[u] = pc[u] \/ pc'[u] \in {"dead", "wait"}
  BY DEF HandleException, Goto, TypeInv, TypeOK, ThreadsOK, Frames
<1>3. pc[t] \in Capturing
  BY <1>1 DEF Capturing, Vulnerable
<1>4. KindsOK' /\ OneCapture'
  BY <1>1, <1>2, <1>3, CaptureThreads
<1>5. ContextsOK'
  <2>1. \A c \in Contexts : /\ ctx'[c].event = ctx[c].event
                            /\ ctx'[c].snapshot = ctx[c].snapshot
    BY DEF HandleException, TypeInv, TypeOK, ReporterOK
  <2>2. "nsexception" \in Contexts
    BY DEF Contexts, Monitors
  <2> QED
    BY <1>1, <1>2, <2>1, <2>2 DEF FlagInv, ContextsOK, Kind, Vulnerable
<1>6. EventsOK'
  <2>1. \A c \in Contexts : ctx'[c].event = ctx[c].event
    BY DEF HandleException, TypeInv, TypeOK, ReporterOK
  <2> QED
    BY <1>1, <1>2, <1>3, <2>1, CaptureThreads DEF FlagInv, EventsOK
<1>7. FlagOK'
  BY <1>1, <1>2 DEF FlagInv, FlagOK, Kind, Fatal, Vulnerable
<1> QED
  BY <1>4, <1>5, <1>6, <1>7 DEF FlagInv

\* NoteCrash: the flag is saved unless this is a snapshot, or was saved before.
LEMMA NoteCrashFlag ==
  ASSUME TypeInv, FlagInv, NEW t \in Threads, NoteCrash(t)
  PROVE  FlagInv'
<1>1. /\ pc[t] = "note" /\ pc'[t] \in {"rename", "choose"}
      /\ UNCHANGED <<ctx, files, enabled, crashedDuring, events, origin>>
  BY DEF NoteCrash, Goto, At, coreVars, diskVars, envVars, TypeInv, TypeOK, ThreadsOK
<1>2. \A u \in Threads : /\ frame'[u].kind = frame[u].kind /\ frame'[u].ev = frame[u].ev
                         /\ u # t => pc'[u] = pc[u] \/ pc'[u] \in {"dead", "wait"}
  BY DEF NoteCrash, Goto, TypeInv, TypeOK, ThreadsOK, Frames
<1>3. pc[t] \in Capturing
  BY <1>1 DEF Capturing, Vulnerable
<1>4. KindsOK' /\ OneCapture'
  BY <1>1, <1>2, <1>3, CaptureThreads
<1>5. ContextsOK'
  BY <1>1, <1>2 DEF FlagInv, ContextsOK, Kind, Vulnerable
<1>6. EventsOK'
  BY <1>1, <1>2, <1>3, CaptureThreads DEF FlagInv, EventsOK
<1>7. FlagOK'
  <2>1. crashFlag' = (crashFlag \/ (Kind(t) # "snapshot" /\ "appstate" \in enabled))
    BY <1>1, OwnContext DEF NoteCrash, SavesCrash, Vulnerable
  <2>2. "appstate" \in Monitored /\ ~crashedDuring /\ Kind(t) # "snapshot" => crashFlag'
    BY <2>1 DEF FlagInv, FlagOK
  <2> QED
    BY <1>1, <1>2, <2>1, <2>2 DEF FlagInv, FlagOK, Kind, Fatal, Vulnerable
<1> QED
  BY <1>4, <1>5, <1>6, <1>7 DEF FlagInv

\* ChoosePath: the path is not a flag.
LEMMA ChoosePathFlag ==
  ASSUME TypeInv, FlagInv, NEW t \in Threads, ChoosePath(t)
  PROVE  FlagInv'
<1>1. /\ pc[t] = "choose" /\ pc'[t] = "create"
      /\ UNCHANGED <<ctx, files, crashFlag, enabled, crashedDuring, events, origin>>
  BY DEF ChoosePath, Goto, At, coreVars, diskVars, envVars, TypeInv, TypeOK, ThreadsOK
<1>2. \A u \in Threads : /\ frame'[u].kind = frame[u].kind /\ frame'[u].ev = frame[u].ev
                         /\ u # t => pc'[u] = pc[u] \/ pc'[u] \in {"dead", "wait"}
  BY DEF ChoosePath, Goto, TypeInv, TypeOK, ThreadsOK, Frames
<1>3. pc[t] \in Capturing
  BY <1>1 DEF Capturing, Vulnerable
<1>4. KindsOK' /\ OneCapture'
  BY <1>1, <1>2, <1>3, CaptureThreads
<1>5. ContextsOK'
  BY <1>1, <1>2 DEF FlagInv, ContextsOK, Kind, Vulnerable
<1>6. EventsOK'
  BY <1>1, <1>2, <1>3, CaptureThreads DEF FlagInv, EventsOK
<1>7. FlagOK'
  BY <1>1, <1>2 DEF FlagInv, FlagOK, Kind, Fatal, Vulnerable
<1> QED
  BY <1>4, <1>5, <1>6, <1>7 DEF FlagInv

\* CreateReport: the flag is on disk before the file of a crash.
LEMMA CreateReportFlag ==
  ASSUME TypeInv, FlagInv, NEW t \in Threads, CreateReport(t)
  PROVE  FlagInv'
<1>1. /\ pc[t] = "create" /\ pc'[t] \in {"body", "conclude"}
      /\ UNCHANGED <<ctx, crashFlag, enabled, crashedDuring, events, origin>>
  BY DEF CreateReport, Goto, At, coreVars, diskVars, envVars, TypeInv, TypeOK, ThreadsOK
<1>2. \A u \in Threads : /\ frame'[u].kind = frame[u].kind /\ frame'[u].ev = frame[u].ev
                         /\ u # t => pc'[u] = pc[u] \/ pc'[u] \in {"dead", "wait"}
  BY DEF CreateReport, Goto, TypeInv, TypeOK, ThreadsOK, Frames
<1>3. pc[t] \in Capturing
  BY <1>1 DEF Capturing, Vulnerable
<1>4. KindsOK' /\ OneCapture'
  BY <1>1, <1>2, <1>3, CaptureThreads
<1>5. ContextsOK'
  BY <1>1, <1>2 DEF FlagInv, ContextsOK, Kind, Vulnerable
<1>6. EventsOK'
  <2>1. \A i \in ReportIds : files'[i].of = files[i].of \/ files'[i].of = ctx[Ctx(t)].event
    BY DEF CreateReport, NewReport, TypeInv, TypeOK, DiskOK
  <2>2. ctx[Ctx(t)].event <= events
    BY CtxType DEF TypeInv, TypeOK, FlagInv, EventsOK
  <2>3. \A i \in ReportIds : files'[i].of <= events
    BY <2>1, <2>2 DEF FlagInv, EventsOK
  <2> QED
    BY <1>1, <1>2, <1>3, <2>3, CaptureThreads DEF FlagInv, EventsOK
<1>7. FlagOK'
  <2>1. \A i \in ReportIds : files'[i].of = files[i].of \/ files'[i].of = ctx[Ctx(t)].event
    BY DEF CreateReport, NewReport, TypeInv, TypeOK, DiskOK
  <2>2. Kind(t) = "snapshot" => ~Fatal(ctx[Ctx(t)].event)
    BY <1>1, OwnContext DEF Vulnerable
  <2>3. "appstate" \in Monitored /\ ~crashedDuring /\ Kind(t) # "snapshot" => crashFlag
    BY <1>1 DEF FlagInv, FlagOK, Vulnerable
  <2> QED
    BY <1>1, <1>2, <2>1, <2>2, <2>3 DEF FlagInv, FlagOK, Kind, Fatal, Vulnerable
<1> QED
  BY <1>4, <1>5, <1>6, <1>7 DEF FlagInv

\* CreateRecrash: the flag is on disk before the file of a crash.
LEMMA CreateRecrashFlag ==
  ASSUME TypeInv, FlagInv, NEW t \in Threads, CreateRecrash(t)
  PROVE  FlagInv'
<1>1. /\ pc[t] = "reopen" /\ pc'[t] \in {"embed", "conclude"}
      /\ UNCHANGED <<ctx, crashFlag, enabled, crashedDuring, events, origin>>
  BY DEF CreateRecrash, Goto, At, coreVars, diskVars, envVars, TypeInv, TypeOK,
     ThreadsOK
<1>2. \A u \in Threads : /\ frame'[u].kind = frame[u].kind /\ frame'[u].ev = frame[u].ev
                         /\ u # t => pc'[u] = pc[u] \/ pc'[u] \in {"dead", "wait"}
  BY DEF CreateRecrash, Goto, TypeInv, TypeOK, ThreadsOK, Frames
<1>3. pc[t] \in Capturing
  BY <1>1 DEF Capturing, Vulnerable
<1>4. KindsOK' /\ OneCapture'
  BY <1>1, <1>2, <1>3, CaptureThreads
<1>5. ContextsOK'
  BY <1>1, <1>2 DEF FlagInv, ContextsOK, Kind, Vulnerable
<1>6. EventsOK'
  <2>1. \A i \in ReportIds : files'[i].of = files[i].of \/ files'[i].of = ctx[Ctx(t)].event
    BY DEF CreateRecrash, NewReport, TypeInv, TypeOK, DiskOK
  <2>2. ctx[Ctx(t)].event <= events
    BY CtxType DEF TypeInv, TypeOK, FlagInv, EventsOK
  <2>3. \A i \in ReportIds : files'[i].of <= events
    BY <2>1, <2>2 DEF FlagInv, EventsOK
  <2> QED
    BY <1>1, <1>2, <1>3, <2>3, CaptureThreads DEF FlagInv, EventsOK
<1>7. FlagOK'
  <2>1. \A i \in ReportIds : files'[i].of = files[i].of \/ files'[i].of = ctx[Ctx(t)].event
    BY DEF CreateRecrash, NewReport, TypeInv, TypeOK, DiskOK
  <2>2. Kind(t) = "snapshot" => ~Fatal(ctx[Ctx(t)].event)
    BY <1>1, OwnContext DEF Vulnerable
  <2>3. "appstate" \in Monitored /\ ~crashedDuring /\ Kind(t) # "snapshot" => crashFlag
    BY <1>1 DEF FlagInv, FlagOK, Vulnerable
  <2> QED
    BY <1>1, <1>2, <2>1, <2>2, <2>3 DEF FlagInv, FlagOK, Kind, Fatal, Vulnerable
<1> QED
  BY <1>4, <1>5, <1>6, <1>7 DEF FlagInv

\* WriteReport: the report keeps its event.
LEMMA WriteReportFlag ==
  ASSUME TypeInv, FlagInv, NEW t \in Threads, WriteReport(t)
  PROVE  FlagInv'
<1>1. /\ pc[t] = "body" /\ pc'[t] = "conclude"
      /\ UNCHANGED <<ctx, crashFlag, enabled, crashedDuring, events, origin>>
  BY DEF WriteReport, Goto, At, coreVars, diskVars, envVars, TypeInv, TypeOK, ThreadsOK
<1>2. \A u \in Threads : /\ frame'[u].kind = frame[u].kind /\ frame'[u].ev = frame[u].ev
                         /\ u # t => pc'[u] = pc[u] \/ pc'[u] \in {"dead", "wait"}
  BY DEF WriteReport, Goto, TypeInv, TypeOK, ThreadsOK, Frames
<1>3. pc[t] \in Capturing
  BY <1>1 DEF Capturing, Vulnerable
<1>4. KindsOK' /\ OneCapture'
  BY <1>1, <1>2, <1>3, CaptureThreads
<1>5. ContextsOK'
  BY <1>1, <1>2 DEF FlagInv, ContextsOK, Kind, Vulnerable
<1>6. EventsOK'
  <2>1. \A i \in ReportIds : files'[i].of = files[i].of
    BY DEF WriteReport, Complete, TypeInv, TypeOK, DiskOK
  <2> QED
    BY <1>1, <1>2, <1>3, <2>1, CaptureThreads, BoundsAssumption
       DEF FlagInv, EventsOK, TypeInv, TypeOK, HistoryOK, EventIds
<1>7. FlagOK'
  <2>1. \A i \in ReportIds : files'[i].of = files[i].of
    BY DEF WriteReport, Complete, TypeInv, TypeOK, DiskOK
  <2> QED
    BY <1>1, <1>2, <2>1 DEF FlagInv, FlagOK, Kind, Fatal, Vulnerable
<1> QED
  BY <1>4, <1>5, <1>6, <1>7 DEF FlagInv

\* WriteRecrash: the report keeps its event.
LEMMA WriteRecrashFlag ==
  ASSUME TypeInv, FlagInv, NEW t \in Threads, WriteRecrash(t)
  PROVE  FlagInv'
<1>1. /\ pc[t] = "rebody" /\ pc'[t] = "conclude"
      /\ UNCHANGED <<ctx, crashFlag, enabled, crashedDuring, events, origin>>
  BY DEF WriteRecrash, Goto, At, coreVars, diskVars, envVars, TypeInv, TypeOK, ThreadsOK
<1>2. \A u \in Threads : /\ frame'[u].kind = frame[u].kind /\ frame'[u].ev = frame[u].ev
                         /\ u # t => pc'[u] = pc[u] \/ pc'[u] \in {"dead", "wait"}
  BY DEF WriteRecrash, Goto, TypeInv, TypeOK, ThreadsOK, Frames
<1>3. pc[t] \in Capturing
  BY <1>1 DEF Capturing, Vulnerable
<1>4. KindsOK' /\ OneCapture'
  BY <1>1, <1>2, <1>3, CaptureThreads
<1>5. ContextsOK'
  BY <1>1, <1>2 DEF FlagInv, ContextsOK, Kind, Vulnerable
<1>6. EventsOK'
  <2>1. \A i \in ReportIds : files'[i].of = files[i].of
    BY DEF WriteRecrash, Complete, TypeInv, TypeOK, DiskOK
  <2> QED
    BY <1>1, <1>2, <1>3, <2>1, CaptureThreads, BoundsAssumption
       DEF FlagInv, EventsOK, TypeInv, TypeOK, HistoryOK, EventIds
<1>7. FlagOK'
  <2>1. \A i \in ReportIds : files'[i].of = files[i].of
    BY DEF WriteRecrash, Complete, TypeInv, TypeOK, DiskOK
  <2> QED
    BY <1>1, <1>2, <2>1 DEF FlagInv, FlagOK, Kind, Fatal, Vulnerable
<1> QED
  BY <1>4, <1>5, <1>6, <1>7 DEF FlagInv

\* EmbedOld: the report keeps its event.
LEMMA EmbedOldFlag ==
  ASSUME TypeInv, FlagInv, NEW t \in Threads, EmbedOld(t)
  PROVE  FlagInv'
<1>1. /\ pc[t] = "embed" /\ pc'[t] = "discard"
      /\ UNCHANGED <<ctx, crashFlag, enabled, crashedDuring, events, origin>>
  BY DEF EmbedOld, Goto, At, coreVars, diskVars, envVars, TypeInv, TypeOK, ThreadsOK
<1>2. \A u \in Threads : /\ frame'[u].kind = frame[u].kind /\ frame'[u].ev = frame[u].ev
                         /\ u # t => pc'[u] = pc[u] \/ pc'[u] \in {"dead", "wait"}
  BY DEF EmbedOld, Goto, TypeInv, TypeOK, ThreadsOK, Frames
<1>3. pc[t] \in Capturing
  BY <1>1 DEF Capturing, Vulnerable
<1>4. KindsOK' /\ OneCapture'
  BY <1>1, <1>2, <1>3, CaptureThreads
<1>5. ContextsOK'
  BY <1>1, <1>2 DEF FlagInv, ContextsOK, Kind, Vulnerable
<1>6. EventsOK'
  <2>1. \A i \in ReportIds : files'[i].of = files[i].of
    BY DEF EmbedOld, Complete, TypeInv, TypeOK, DiskOK
  <2> QED
    BY <1>1, <1>2, <1>3, <2>1, CaptureThreads, BoundsAssumption
       DEF FlagInv, EventsOK, TypeInv, TypeOK, HistoryOK, EventIds
<1>7. FlagOK'
  <2>1. \A i \in ReportIds : files'[i].of = files[i].of
    BY DEF EmbedOld, Complete, TypeInv, TypeOK, DiskOK
  <2> QED
    BY <1>1, <1>2, <2>1 DEF FlagInv, FlagOK, Kind, Fatal, Vulnerable
<1> QED
  BY <1>4, <1>5, <1>6, <1>7 DEF FlagInv

\* RenameOld: a report is taken away.
LEMMA RenameOldFlag ==
  ASSUME TypeInv, FlagInv, NEW t \in Threads, RenameOld(t)
  PROVE  FlagInv'
<1>1. /\ pc[t] = "rename" /\ pc'[t] \in {"conclude", "reopen"}
      /\ UNCHANGED <<ctx, crashFlag, enabled, crashedDuring, events, origin>>
  BY DEF RenameOld, Goto, At, coreVars, diskVars, envVars, TypeInv, TypeOK, ThreadsOK
<1>2. \A u \in Threads : /\ frame'[u].kind = frame[u].kind /\ frame'[u].ev = frame[u].ev
                         /\ u # t => pc'[u] = pc[u] \/ pc'[u] \in {"dead", "wait"}
  BY DEF RenameOld, Goto, TypeInv, TypeOK, ThreadsOK, Frames
<1>3. pc[t] \in Capturing
  BY <1>1 DEF Capturing, Vulnerable
<1>4. KindsOK' /\ OneCapture'
  BY <1>1, <1>2, <1>3, CaptureThreads
<1>5. ContextsOK'
  BY <1>1, <1>2 DEF FlagInv, ContextsOK, Kind, Vulnerable
<1>6. EventsOK'
  <2>1. \A i \in ReportIds : files'[i].of = files[i].of \/ files'[i].of = 0
    BY DEF RenameOld, NoFile, TypeInv, TypeOK, DiskOK
  <2> QED
    BY <1>1, <1>2, <1>3, <2>1, CaptureThreads, BoundsAssumption
       DEF FlagInv, EventsOK, TypeInv, TypeOK, HistoryOK, EventIds
<1>7. FlagOK'
  <2>1. \A i \in ReportIds : files'[i].of = files[i].of \/ files'[i].of = 0
    BY DEF RenameOld, NoFile, TypeInv, TypeOK, DiskOK
  <2> QED
    BY <1>1, <1>2, <2>1 DEF FlagInv, FlagOK, Kind, Fatal, Vulnerable
<1> QED
  BY <1>4, <1>5, <1>6, <1>7 DEF FlagInv

\* RemoveOld: the reports stay.
LEMMA RemoveOldFlag ==
  ASSUME TypeInv, FlagInv, NEW t \in Threads, RemoveOld(t)
  PROVE  FlagInv'
<1>1. /\ pc[t] = "discard" /\ pc'[t] = "rebody"
      /\ UNCHANGED <<ctx, files, crashFlag, enabled, crashedDuring, events, origin>>
  BY DEF RemoveOld, Goto, At, coreVars, diskVars, envVars, TypeInv, TypeOK, ThreadsOK
<1>2. \A u \in Threads : /\ frame'[u].kind = frame[u].kind /\ frame'[u].ev = frame[u].ev
                         /\ u # t => pc'[u] = pc[u] \/ pc'[u] \in {"dead", "wait"}
  BY DEF RemoveOld, Goto, TypeInv, TypeOK, ThreadsOK, Frames
<1>3. pc[t] \in Capturing
  BY <1>1 DEF Capturing, Vulnerable
<1>4. KindsOK' /\ OneCapture'
  BY <1>1, <1>2, <1>3, CaptureThreads
<1>5. ContextsOK'
  BY <1>1, <1>2 DEF FlagInv, ContextsOK, Kind, Vulnerable
<1>6. EventsOK'
  BY <1>1, <1>2, <1>3, CaptureThreads DEF FlagInv, EventsOK
<1>7. FlagOK'
  BY <1>1, <1>2 DEF FlagInv, FlagOK, Kind, Fatal, Vulnerable
<1> QED
  BY <1>4, <1>5, <1>6, <1>7 DEF FlagInv

\* Conclude: a handler that uninstalls the monitors has saved the flag.
LEMMA ConcludeFlag ==
  ASSUME TypeInv, FlagInv, NEW t \in Threads, Conclude(t)
  PROVE  FlagInv'
<1>1. /\ /\ pc[t] = "conclude" /\ pc'[t] \in {"resume", "disable"}
         /\ pc'[t] = "disable" => ~IsSnapshot(t)
      /\ UNCHANGED <<ctx, files, crashFlag, enabled, crashedDuring, events, origin>>
  BY DEF Conclude, Goto, At, coreVars, diskVars, envVars, TypeInv, TypeOK, ThreadsOK
<1>2. \A u \in Threads : /\ frame'[u].kind = frame[u].kind /\ frame'[u].ev = frame[u].ev
                         /\ u # t => pc'[u] = pc[u] \/ pc'[u] \in {"dead", "wait"}
  BY DEF Conclude, Goto, TypeInv, TypeOK, ThreadsOK, Frames
<1>3. pc[t] \in Capturing
  BY <1>1 DEF Capturing, Vulnerable
<1>4. KindsOK' /\ OneCapture'
  BY <1>1, <1>2, <1>3, CaptureThreads
<1>5. ContextsOK'
  BY <1>1, <1>2 DEF FlagInv, ContextsOK, Kind, Vulnerable
<1>6. EventsOK'
  BY <1>1, <1>2, <1>3, CaptureThreads DEF FlagInv, EventsOK
<1>7. FlagOK'
  <2>1. pc'[t] = "disable" => Kind(t) # "snapshot"
    BY <1>1, OwnContext DEF IsSnapshot, Vulnerable
  <2> QED
    BY <1>1, <1>2, <2>1 DEF FlagInv, FlagOK, Kind, Fatal, Vulnerable
<1> QED
  BY <1>4, <1>5, <1>6, <1>7 DEF FlagInv

\* A thread that runs is not stopped by another one: it alone begins to capture.
LEMMA EndSuspendFlag ==
  ASSUME TypeInv, StopInv, FlagInv, NEW t \in Threads, EndSuspend(t)
  PROVE  FlagInv'
<1>1. /\ pc[t] = "suspending" /\ pc'[t] \in {"resume", "notify", "fill"}
      /\ alive /\ susp[t] = 0
      /\ \A u \in Threads \ {t} : pc'[u] = pc[u]
      /\ UNCHANGED <<frame, recordVars>>
  BY DEF EndSuspend, At, Running, Goto, AfterSuspend, recordVars, coreVars, diskVars,
     envVars, TypeInv, TypeOK, ThreadsOK
<1>2. ASSUME NEW u \in AppThreads \ {t}, t \in AppThreads, pc[u] \in Capturing,
             Kind(u) \in Suspends
      PROVE  FALSE
  <2>1. u \in live /\ t \in live
    BY <1>2 DEF StopInv, ListsOK
  <2>2. susp[t] > 0
    BY <1>1, <1>2, <2>1, StopMeansFrozen DEF FrozenWorld
  <2> QED
    BY <1>1, <2>2
<1>3. KindsOK'
  BY <1>1 DEF FlagInv, KindsOK, Kind
<1>4. OneCapture'
  <2>1. \A u \in AppThreads : u \in Threads
    BY DEF Threads
  <2> QED
    BY <1>1, <1>2, <2>1 DEF FlagInv, OneCapture, Kind
<1>5. ContextsOK'
  BY <1>1 DEF recordVars, FlagInv, ContextsOK, Kind, Vulnerable
<1>6. EventsOK'
  BY <1>1 DEF recordVars, FlagInv, EventsOK, Kind
<1>7. FlagOK'
  BY <1>1 DEF recordVars, FlagInv, FlagOK, Kind, Fatal, Vulnerable
<1> QED
  BY <1>3, <1>4, <1>5, <1>6, <1>7 DEF FlagInv

\* Initially nothing has happened.
LEMMA InitFlag == Init => FlagInv
<1> SUFFICES ASSUME Init PROVE FlagInv
  OBVIOUS
<1>1. \A t \in Threads : pc[t] \in {"wait", "parked", "done", "idle"}
  BY DEF Init
<1>2. \A t \in Threads : frame[t].kind = "signal" /\ frame[t].ev = 0
  BY DEF Init, IdleFrame
<1>3. KindsOK
  BY <1>2 DEF KindsOK, Kind, Threads
<1>4. OneCapture
  BY <1>1 DEF OneCapture, Threads, Capturing, Vulnerable
<1>5. ContextsOK
  BY <1>2 DEF ContextsOK, Init, Kind
<1>6. EventsOK
  BY <1>2 DEF EventsOK, Init, Kind, NoFile
<1>7. FlagOK
  <2>1. \A i \in ReportIds : ~Fatal(files[i].of)
    BY DEF Init, NoFile, Fatal
  <2>2. enabled = Monitored
    BY DEF Init
  <2> QED
    BY <1>1, <2>1, <2>2 DEF FlagOK, Vulnerable
<1> QED
  BY <1>3, <1>4, <1>5, <1>6, <1>7 DEF FlagInv

\* Every step keeps FlagInv.
LEMMA NextFlag == TypeInv /\ StopInv /\ FlagInv /\ [Next]_vars => FlagInv'
<1> SUFFICES ASSUME TypeInv, StopInv, FlagInv, [Next]_vars PROVE FlagInv'
  OBVIOUS
<1>1. CASE UNCHANGED vars
  BY <1>1, CalmStep DEF vars, Calm, recordVars, threadVars, coreVars, diskVars, envVars
<1>2. ASSUME NEW t \in Threads, Step(t) PROVE FlagInv'
  BY <1>2, EnterFlag, ReadThreadListFlag, CallSuspendFlag, SuspendFlag, EndSuspendFlag,
     NotifyFatalFlag, MarkFatalFlag, DisableMachFlag, UninstallMachFlag,
     EndCancelledFlag, DisableOthersFlag, ActivateSecondaryFlag, FillContextFlag,
     HandleExceptionFlag, NoteCrashFlag, ChoosePathFlag, CreateReportFlag,
     WriteReportFlag, RenameOldFlag, CreateRecrashFlag, EmbedOldFlag, RemoveOldFlag,
     WriteRecrashFlag, ConcludeFlag, BeginResumeFlag, ResumeFlag, EndResumeFlag,
     LeaveFlag, DeliverFlag, ReceiveFlag DEF Step
<1>3. ASSUME NEW t \in Threads, Env(t) PROVE FlagInv'
  BY <1>3, NewEventOnFlag, HandlerFaultFlag, SpawnFlag DEF Env
<1> QED
  BY <1>1, <1>2, <1>3 DEF Next, Rest

\* A complete report of a crash is never on disk without the crash flag, unless the
\* reporter itself crashed, if no thread is created after the installation: for any
\* number of threads that crash or report, and any order of their steps.
THEOREM ReportHasFlag ==
  ASSUME LateThreads = {} PROVE Spec => []ReportImpliesCrashFlag
<1>1. Init => TypeInv /\ StopInv /\ FlagInv
  BY InitType, InitStop, InitFlag
<1>2. TypeInv /\ StopInv /\ FlagInv /\ [Next]_vars => (TypeInv /\ StopInv /\ FlagInv)'
  BY NextType, NextStop, NextFlag
<1>3. FlagInv => ReportImpliesCrashFlag
  BY DEF FlagInv, FlagOK, ReportImpliesCrashFlag, FullReports
<1> QED
  BY <1>1, <1>2, <1>3, PTL DEF Spec

(***************************************************************************)
(* A report describes its own event.                                       *)
(***************************************************************************)
\* A handler that captures with the world stopped holds every application thread, ...
LEMMA CaptureHolds ==
  ASSUME StopInv, NEW u \in Threads, pc[u] \in Capturing, Kind(u) \in Suspends,
         NEW v \in AppThreads \ {u}
  PROVE  u \in Holders(v)
<1>1. Stopping(u) /\ pc[u] \notin {"suspending", "inKernel", "resume", "resuming"}
  BY DEF Stopping, Capturing, Vulnerable
<1>2. Held(u) = frame[u].list
  BY <1>1 DEF Held
<1> QED
  BY <1>1, <1>2 DEF StopInv, ListsOK, Holders

\* ... which is therefore stopped.
LEMMA CaptureStops ==
  ASSUME TypeInv, StopInv, NEW u \in Threads, pc[u] \in Capturing, Kind(u) \in Suspends,
         NEW v \in AppThreads \ {u}
  PROVE  susp[v] > 0
<1>1. v \in Threads /\ Holders(v) # {}
  BY CaptureHolds DEF Threads
<1>2. Cardinality(Holders(v)) # 0 /\ Cardinality(Holders(v)) \in Nat
  BY <1>1, HoldersFinite, FS_EmptySet
<1> QED
  BY <1>1, <1>2 DEF StopInv, Balanced, TypeInv, TypeOK, ThreadsOK

\* What holds a thread besides the primary Mach thread can be counted.
LEMMA OthersFinite ==
  ASSUME NEW u \in Threads
  PROVE  /\ IsFiniteSet(Holders(u) \ {Pri})
         /\ Cardinality(Holders(u) \ {Pri}) \in Nat
BY HoldersFinite, FS_Subset, FS_CardinalityType

\* A margin stays when no suspend count changes and nobody but the primary thread holds
\* more.
LEMMA MarginStays ==
  ASSUME TypeInv, Margin, susp' = susp,
         \A w \in Threads \ {Pri} : Held(w)' \subseteq Held(w)
  PROVE  Margin'
<1> SUFFICES ASSUME NEW u \in AppThreads
             PROVE  Cardinality((Holders(u) \ {Pri})') + 1 <= susp[u]
  BY DEF Margin
<1>1. u \in Threads
  BY DEF Threads
<1>2. (Holders(u) \ {Pri})' \subseteq Holders(u) \ {Pri}
  BY DEF Holders
<1>3. /\ Cardinality((Holders(u) \ {Pri})') <= Cardinality(Holders(u) \ {Pri})
      /\ Cardinality((Holders(u) \ {Pri})') \in Nat
  BY <1>1, <1>2, OthersFinite, FS_Subset, FS_CardinalityType
<1>4. /\ Cardinality(Holders(u) \ {Pri}) + 1 <= susp[u] /\ susp[u] \in Nat
      /\ Cardinality(Holders(u) \ {Pri}) \in Nat
  BY <1>1, OthersFinite DEF Margin, TypeInv, TypeOK, ThreadsOK
<1> QED
  BY <1>3, <1>4

\* A thread that is not suspended leaves no margin.
LEMMA RunningThread ==
  ASSUME TypeInv, Margin, NEW t \in AppThreads
  PROVE  susp[t] # 0
<1>1. t \in Threads
  BY DEF Threads
<1>2. Cardinality(Holders(t) \ {Pri}) + 1 <= susp[t]
  BY DEF Margin
<1> QED
  BY <1>1, <1>2, OthersFinite

\* While a Mach thread captures there is a margin without the primary thread, if it is
\* the primary one.
LEMMA PrimaryMargin ==
  ASSUME TypeInv, StopInv, FlagInv, pc[Pri] \in Capturing
  PROVE  Margin
<1>1. Kind(Pri) \in Suspends /\ Pri \in Threads /\ Pri \notin AppThreads
  BY ThreadsAssumption
     DEF FlagInv, KindsOK, Handlers, Threads, Suspends, Kinds, UserKinds
<1> SUFFICES ASSUME NEW u \in AppThreads
             PROVE  Cardinality(Holders(u) \ {Pri}) + 1 <= susp[u]
  BY DEF Margin
<1>2. u \in Threads /\ Pri \in Holders(u)
  BY <1>1, CaptureHolds DEF Threads
<1>3. Cardinality(Holders(u) \ {Pri}) = Cardinality(Holders(u)) - 1
  BY <1>2, HoldersFinite, FS_RemoveElement
<1> QED
  BY <1>2, <1>3, HoldersFinite DEF StopInv, Balanced, TypeInv, TypeOK, ThreadsOK

\* A Mach thread that captures has stopped every application thread.
LEMMA MachCaptureStops ==
  ASSUME TypeInv, StopInv, FlagInv, NEW h \in Handlers, pc[h] \in Capturing,
         NEW t \in AppThreads
  PROVE  susp[t] # 0
<1>1. Kind(h) \in Suspends /\ h \in Threads /\ h \notin AppThreads
  BY ThreadsAssumption
     DEF FlagInv, KindsOK, Handlers, Threads, Suspends, Kinds, UserKinds
<1> QED
  BY <1>1, CaptureStops DEF TypeInv, TypeOK, ThreadsOK, Threads

(***************************************************************************)
(* The steps of the application.                                           *)
(***************************************************************************)
\* What a step of application thread t does to the Mach threads and the switches.
AppStep(t) ==
  /\ \A h \in Handlers : frame'[h] = frame[h] /\ (pc'[h] = pc[h] \/ pc'[h] = "dead")
  /\ \A u \in AppThreads \ {t} : frame'[u] = frame[u] /\ pc'[u] = pc[u]
  /\ frame'[t].kind # "mach"
  /\ frame'[t].kind = "signal" /\ pc'[t] \in Noted => handling'
  /\ enabled' \in {enabled, enabled \ {"mach"}, {}}
  /\ ports' => ports
  /\ known' = known \/ ~ports'

\* An application thread runs only if no Mach thread captures, and no second Mach
\* exception can start a capture.
LEMMA AppOwn ==
  ASSUME TypeInv, StopInv, FlagInv, OwnInv, NEW t \in AppThreads, susp[t] = 0, AppStep(t)
  PROVE  OwnInv'
<1>1. ~Margin
  BY RunningThread
<1>2. /\ Pri \in Handlers /\ Sec \in Handlers
      /\ pc[Pri] \notin Capturing /\ pc[Sec] \notin Capturing
  BY MachCaptureStops DEF Handlers
<1>3. /\ "dead" \notin Capturing /\ Vulnerable \subseteq Capturing
      /\ Disabling \subseteq Capturing
      /\ "route" \in Capturing /\ "notify" \in Capturing /\ "mark" \in Capturing
  BY DEF Capturing, Vulnerable, Disabling
<1>4. /\ frame'[Pri] = frame[Pri] /\ frame'[Sec] = frame[Sec]
      /\ pc'[Pri] = pc[Pri] \/ pc'[Pri] = "dead"
      /\ pc'[Sec] = pc[Sec] \/ pc'[Sec] = "dead"
  BY <1>2 DEF AppStep
<1>5. pc'[Pri] \notin Capturing /\ pc'[Sec] \notin Capturing
  BY <1>2, <1>3, <1>4
<1>6. MachKinds'
  BY <1>3, <1>4, <1>5 DEF OwnInv, MachKinds, AppStep, Kind, Unstarted, Handlers
<1>7. TwoSteps'
  BY DEF OwnInv, TwoSteps, AppStep
<1>8. PortsGiven'
  BY <1>3, <1>4, <1>5 DEF OwnInv, PortsGiven, AppStep, Unstarted, Crashing, Kind
<1>9. SecondWaits'
  BY <1>3, <1>4, <1>5 DEF OwnInv, SecondWaits, Unstarted, Kind, Routing, Entering
<1>10. FirstIsNoted' /\ OneMachContext'
  BY <1>3, <1>5 DEF FirstIsNoted, OneMachContext, Routing
<1>11. SecondIsNested'
  <2>1. pc[Sec] \in Entering \cup {"wait"} => enabled = {}
    BY <1>1 DEF OwnInv, SecondIsNested
  <2>2. pc'[Sec] \in Entering \cup {"wait"} => enabled' = {}
    BY <1>4, <2>1 DEF AppStep, Entering
  <2> QED
    BY <2>2, <1>3, <1>5 DEF SecondIsNested
<1>12. CrashIsNested'
  <2>1. Crashing' => Crashing /\ pc'[Pri] = pc[Pri]
    BY <1>4 DEF Crashing, Kind
  <2>2. Crashing => pc[Pri] \in Resuming /\ enabled = {}
    BY <1>1 DEF OwnInv, CrashIsNested
  <2>3. enabled = {} => enabled' = {}
    BY DEF AppStep
  <2> QED
    BY <2>1, <2>2, <2>3 DEF CrashIsNested, Resuming, Entering
<1>13. OneSignalContext'
  <2>1. \A x \in AppThreads : Kind(x)' = "signal" /\ pc'[x] \in Noted => handling'
    <3> SUFFICES ASSUME NEW x \in AppThreads \ {t}, frame'[x].kind = "signal", pc'[x] \in Noted
                 PROVE  FALSE
      BY DEF AppStep, Kind
    <3>1. x \in Threads /\ Kind(x) = "signal" /\ pc[x] \in Capturing
      BY DEF AppStep, Kind, Noted, Threads
    <3>2. Kind(x) \in Suspends
      BY <3>1 DEF Suspends, Kinds
    <3> QED
      BY <3>1, <3>2, CaptureStops DEF TypeInv, TypeOK, ThreadsOK
  <2>2. Crashing' => Crashing /\ pc'[Pri] = pc[Pri]
    BY <1>4 DEF Crashing, Kind
  <2>3. Crashing => pc[Pri] \in Resuming
    BY <1>1 DEF OwnInv, CrashIsNested
  <2> QED
    BY <1>3, <1>5, <2>1, <2>2, <2>3 DEF OneSignalContext
<1> QED
  BY <1>6, <1>7, <1>8, <1>9, <1>10, <1>11, <1>12, <1>13 DEF OwnInv

\* A step of the capture of an application thread.
LEMMA AppCapture ==
  ASSUME TypeInv, StopInv, FlagInv, OwnInv, NEW t \in AppThreads, CaptureAction(t)
  PROVE  OwnInv'
<1>1. t \in Threads /\ t \notin Handlers /\ susp[t] = 0 /\ t # Pri /\ t # Sec
  BY ThreadsAssumption
     DEF Threads, Handlers, CaptureAction, NotifyFatal, MarkFatal, DisableMach, DisableOthers,
     FillContext, HandleException, NoteCrash, ChoosePath, CreateReport, WriteReport,
     RenameOld, CreateRecrash, EmbedOld, RemoveOld, WriteRecrash, Conclude, At, Running
<1>2. CaptureMove(t)
  BY <1>1, CaptureMoves
<1>3. enabled' \in {enabled, enabled \ {"mach"}, {}} /\ ports' = ports /\ known' = known
  BY DEF CaptureAction, NotifyFatal, MarkFatal, DisableMach, DisableOthers, FillContext,
     HandleException, NoteCrash, ChoosePath, CreateReport, WriteReport, RenameOld,
     CreateRecrash, EmbedOld, RemoveOld, WriteRecrash, Conclude, machVars, NoneActive
<1>4. Kind(t) # "mach"
  BY DEF OwnInv, MachKinds
<1>5. ASSUME Kind(t) = "signal", pc'[t] \in Noted
      PROVE  handling'
  <2>1. CASE NotifyFatal(t)
    BY <1>1, <1>5, <2>1 DEF NotifyFatal, Goto, Noted, TypeInv, TypeOK, ThreadsOK
  <2>2. CASE MarkFatal(t)
    BY <2>2 DEF MarkFatal
  <2>3. CASE Conclude(t)
    <3>1. pc[t] = "conclude"
      BY <2>3 DEF Conclude, At
    <3>2. ~IsSnapshot(t)
      BY <1>1, <1>5, <3>1, OwnContext DEF IsSnapshot, Vulnerable
    <3>3. handling' = handling /\ pc[t] \in Noted
      BY <2>3, <3>1, <3>2 DEF Conclude, Noted, Capturing, Vulnerable
    <3> QED
      BY <1>5, <3>3 DEF OwnInv, OneSignalContext
  <2>4. CASE handling' = handling /\ pc[t] \in Noted
    BY <1>5, <2>4 DEF OwnInv, OneSignalContext
  <2> QED
    BY <2>1, <2>2, <2>3, <2>4
       DEF CaptureAction, DisableMach, DisableOthers, FillContext, HandleException, NoteCrash,
       ChoosePath, CreateReport, WriteReport, RenameOld, CreateRecrash, EmbedOld, RemoveOld,
       WriteRecrash, coreVars, At, Noted, Capturing, Vulnerable
<1>6. AppStep(t)
  BY <1>1, <1>2, <1>3, <1>4, <1>5 DEF AppStep, CaptureMove, Kind, Threads
<1> QED
  BY <1>1, <1>6, AppOwn

\* A signal that reaches an application thread starts at a place that is not noted.
LEMMA AppSignal ==
  ASSUME TypeInv, NEW t \in AppThreads, NEW e \in EventIds, Fault(t, e) \/ Signal(t, e),
         Kind(t) # "mach", Kind(t) = "signal" /\ pc[t] \in Noted => handling,
         handling' = handling, UNCHANGED <<enabled, ports, known>>
  PROVE  AppStep(t)
<1>1. t \in Threads /\ t \notin Handlers
  BY ThreadsAssumption DEF Threads, Handlers
<1>2. /\ pc \in [Threads -> Labels] /\ frame \in [Threads -> Frames]
      /\ Entry("signal") = "enter" /\ "enter" \notin Noted /\ "blocked" \notin Noted
  BY DEF TypeInv, TypeOK, ThreadsOK, Entry, Tests, Kinds, Noted, Capturing, Vulnerable
<1>3. CASE UNCHANGED <<pc, frame>>
  BY <1>1, <1>3 DEF AppStep, Kind
<1>4. CASE Start(t, "signal", e)
  BY <1>1, <1>2, <1>4 DEF Start, AppStep, IdleFrame, Handlers, Threads
<1>5. CASE /\ pc' = [pc EXCEPT ![t] = "blocked"]
           /\ frame' = [frame EXCEPT ![t] = [IdleFrame(t) EXCEPT !.ev = e]]
  BY <1>1, <1>2, <1>5 DEF AppStep, IdleFrame, Handlers, Threads
<1> QED
  BY <1>3, <1>4, <1>5 DEF Fault, Signal

\* A handler that starts on an application thread has noted nothing.
LEMMA AppStart ==
  ASSUME TypeInv, NEW t \in AppThreads, NEW e \in EventIds, NEW k \in Kinds \ {"mach"},
         Start(t, k, e), UNCHANGED <<enabled, ports, known>>
  PROVE  AppStep(t)
<1>1. t \in Threads /\ t \notin Handlers
  BY ThreadsAssumption DEF Threads, Handlers
<1>2. /\ pc \in [Threads -> Labels] /\ frame \in [Threads -> Frames]
      /\ Entry(k) \notin Noted
  BY DEF TypeInv, TypeOK, ThreadsOK, Entry, Noted, Capturing, Vulnerable
<1> QED
  BY <1>1, <1>2 DEF Start, AppStep, IdleFrame, Handlers, Threads

\* The other steps of an application thread, thread_suspend in the kernel excepted.
LEMMA AppHandler ==
  ASSUME TypeInv, StopInv, FlagInv, OwnInv, NEW t \in AppThreads,
         \/ Enter(t) \/ ReadThreadList(t) \/ CallSuspend(t) \/ EndSuspend(t)
         \/ BeginResume(t) \/ Resume(t) \/ EndResume(t) \/ EndCancelled(t)
         \/ UninstallMach(t) \/ ActivateSecondary(t)
  PROVE  OwnInv'
<1>1. t \in Threads /\ t \notin Handlers /\ susp[t] = 0 /\ t # Pri /\ t # Sec
  BY ThreadsAssumption
     DEF Threads, Handlers, Enter, ReadThreadList, CallSuspend, EndSuspend, BeginResume,
     Resume, EndResume, EndCancelled, UninstallMach, ActivateSecondary, At, Running
<1>2. pc \in [Threads -> Labels] /\ frame \in [Threads -> Frames]
  BY DEF TypeInv, TypeOK, ThreadsOK
<1>3. /\ \A h \in Handlers : pc'[h] = pc[h] \/ pc'[h] = "dead"
      /\ \A u \in AppThreads \ {t} : pc'[u] = pc[u]
      /\ known' = known \/ ~ports'
  <2>1. CASE UninstallMach(t)
    <3>1. \A u \in AppThreads : u \notin known
      BY ThreadsAssumption DEF TypeInv, TypeOK, ReporterOK, Handlers
    <3>2. \A h \in Threads \ {t} : pc'[h] = pc[h] \/ (pc'[h] = "dead" /\ h \in known)
      BY <2>1 DEF UninstallMach
    <3>3. ~ports'
      BY <2>1 DEF UninstallMach
    <3> QED
      BY <1>1, <3>1, <3>2, <3>3 DEF Threads
  <2>2. CASE ~UninstallMach(t)
    BY <1>1, <1>2, <2>2
       DEF Enter, ReadThreadList, CallSuspend, EndSuspend, BeginResume, Resume, EndResume,
       EndCancelled, ActivateSecondary, Goto, machVars, Threads
  <2> QED
    BY <2>1, <2>2
<1>4. /\ \A u \in Threads \ {t} : frame'[u] = frame[u]
      /\ frame'[t].kind = frame[t].kind
  <2>1. CASE ReadThreadList(t)
    BY <1>1, <1>2, <2>1 DEF ReadThreadList, Frames
  <2>2. CASE CallSuspend(t)
    <3>1. PICK v \in frame[t].todo :
            frame' = [frame EXCEPT ![t].target = v, ![t].todo = @ \ {v}]
      BY <2>2 DEF CallSuspend
    <3> QED
      BY <1>1, <1>2, <3>1 DEF Frames
  <2>3. CASE BeginResume(t)
    BY <1>1, <1>2, <2>3 DEF BeginResume, Frames
  <2>4. CASE Resume(t)
    <3>1. PICK v \in frame[t].todo : frame' = [frame EXCEPT ![t].todo = @ \ {v}]
      BY <2>4 DEF Resume
    <3> QED
      BY <1>1, <1>2, <3>1 DEF Frames
  <2>5. CASE frame' = frame
    BY <2>5
  <2> QED
    BY <2>1, <2>2, <2>3, <2>4, <2>5
       DEF Enter, EndSuspend, EndResume, EndCancelled, UninstallMach, ActivateSecondary
<1>5. handling' = handling /\ enabled' = enabled /\ (ports' => ports)
  BY DEF Enter, ReadThreadList, CallSuspend, EndSuspend, BeginResume, Resume, EndResume,
     EndCancelled, UninstallMach, ActivateSecondary, coreVars, machVars
<1>6. Kind(t) = "signal" /\ pc'[t] \in Noted => pc[t] \in Noted
  BY <1>1, <1>2
     DEF Enter, ReadThreadList, CallSuspend, EndSuspend, BeginResume, Resume, EndResume,
     EndCancelled, UninstallMach, ActivateSecondary, Goto, At, Noted, Capturing, Vulnerable,
     AfterSuspend, Notifies, Kinds, UserKinds, Suspends
<1>7. AppStep(t)
  BY <1>1, <1>3, <1>4, <1>5, <1>6
     DEF AppStep, OwnInv, MachKinds, OneSignalContext, Kind, Threads
<1> QED
  BY <1>1, <1>7, AppOwn

\* A crash of its handler, an event or a signal on an application thread.
LEMMA AppEvent ==
  ASSUME TypeInv, StopInv, FlagInv, OwnInv, NEW t \in AppThreads,
         \/ \E o \in Origins : NewEventOn(t, o)
         \/ HandlerFault(t) \/ Deliver(t) \/ Leave(t)
  PROVE  OwnInv'
<1>1. t \in Threads /\ t \notin Handlers /\ susp[t] = 0 /\ t # Pri /\ t # Sec
  BY ThreadsAssumption
     DEF Threads, Handlers, NewEventOn, HandlerFault, Deliver, Leave, At, Running
<1>2. /\ Kind(t) # "mach"
      /\ Kind(t) = "signal" /\ pc[t] \in Noted => handling
  BY DEF OwnInv, MachKinds, OneSignalContext
<1>3. frame[t].ev \in EventIds
  BY <1>1, FrameFields DEF TypeInv, TypeOK
<1>4. CASE \E o \in Origins : NewEventOn(t, o)
  <2>1. PICK o \in Origins : NewEventOn(t, o)
    BY <1>4
  <2>2. events + 1 \in EventIds
    BY <2>1, NewEventType, MonitorsAssumption DEF NewEventOn, TypeInv, TypeOK
  <2>3. handling' = handling /\ UNCHANGED <<enabled, ports, known>>
    BY <2>1 DEF NewEventOn, coreVars
  <2>4. \/ Fault(t, events + 1) \/ Signal(t, events + 1)
        \/ \E k \in Kinds \ {"mach"} : Start(t, k, events + 1)
    BY <2>1, MonitorsAssumption DEF NewEventOn, Kinds, NonFatalOrigins, FatalOrigins, UserKinds
  <2> QED
    BY <1>1, <1>2, <2>2, <2>3, <2>4, AppSignal, AppStart, AppOwn
<1>5. CASE HandlerFault(t)
  <2>1. events + 1 \in EventIds
    BY <1>5, NewEventType DEF HandlerFault, TypeInv, TypeOK, FatalOrigins
  <2> QED
    BY <1>1, <1>2, <1>5, <2>1, AppSignal, AppOwn DEF HandlerFault, coreVars
<1>6. CASE Deliver(t)
  BY <1>1, <1>2, <1>3, <1>6, AppSignal, AppOwn DEF Deliver, coreVars, machVars
<1>7. CASE Leave(t)
  <2>1. handling' = handling /\ UNCHANGED <<enabled, ports, known>>
    BY <1>7 DEF Leave, coreVars, machVars
  <2>2. CASE Kind(t) = "snapshot"
    <3>1. pc' = [pc EXCEPT ![t] = "idle"] /\ frame' = frame
      BY <1>7, <2>2 DEF Leave, Goto
    <3>2. AppStep(t)
      BY <1>1, <1>2, <2>1, <2>2, <3>1
         DEF AppStep, Kind, TypeInv, TypeOK, ThreadsOK, Handlers, Threads
    <3> QED
      BY <1>1, <3>2, AppOwn
  <2>3. CASE Kind(t) = "objc" /\ "nsexception" \in enabled
    <3>1. Start(t, "nsexception", frame[t].ev)
      BY <1>7, <2>3 DEF Leave
    <3> QED
      BY <1>1, <1>3, <2>1, <3>1, AppStart, AppOwn DEF Kinds
  <2>4. CASE Kind(t) # "snapshot" /\ ~(Kind(t) = "objc" /\ "nsexception" \in enabled)
    <3>1. Signal(t, frame[t].ev)
      BY <1>2, <1>7, <2>4 DEF Leave
    <3> QED
      BY <1>1, <1>2, <1>3, <2>1, <3>1, AppSignal, AppOwn
  <2> QED
    BY <2>2, <2>3, <2>4
<1> QED
  BY <1>4, <1>5, <1>6, <1>7

(***************************************************************************)
(* thread_suspend, by any thread.                                          *)
(***************************************************************************)
\* Whoever calls it, the margin stays.
LEMMA SuspendMargin ==
  ASSUME TypeInv, Margin, NEW t \in Threads, Suspend(t)
  PROVE  Margin'
<1> DEFINE v == frame[t].target
           H(u) == Holders(u) \ {Pri}
<1> HIDE DEF H
<1> SUFFICES ASSUME NEW u \in AppThreads
             PROVE  Cardinality(H(u)') + 1 <= susp'[u]
  BY DEF Margin, H
<1>0. v \in Threads /\ u \in Threads
  BY FrameFields DEF TypeInv, TypeOK, Threads
<1>1. /\ pc[t] = "inKernel" /\ pc'[t] = "suspending" /\ frame' = frame
      /\ \A w \in Threads \ {t} : pc'[w] = pc[w]
      /\ susp' = [susp EXCEPT ![v] = @ + 1]
  BY DEF Suspend, Goto, TypeInv, TypeOK, ThreadsOK
<1>2. Held(t)' \subseteq Held(t) \cup {v}
  BY <1>1 DEF Held, Capturing, Vulnerable
<1>3. \A w \in Threads \ {t} : Held(w)' = Held(w)
  BY <1>1 DEF Held
<1>4. /\ H(u)' \subseteq H(u) \cup {t}
      /\ u # v => H(u)' \subseteq H(u)
  BY <1>2, <1>3 DEF H, Holders
<1>5. IsFiniteSet(H(u)) /\ Cardinality(H(u)) \in Nat
  BY <1>0, OthersFinite DEF H
<1>6. Cardinality(H(u)) + 1 <= susp[u] /\ susp[u] \in Nat
  BY <1>0 DEF Margin, H, TypeInv, TypeOK, ThreadsOK
<1>7. CASE u = v
  <2>1. /\ IsFiniteSet(H(u) \cup {t})
        /\ Cardinality(H(u) \cup {t}) <= Cardinality(H(u)) + 1
    BY <1>5, FS_AddElement
  <2>2. /\ Cardinality(H(u)') <= Cardinality(H(u) \cup {t})
        /\ Cardinality(H(u)') \in Nat /\ Cardinality(H(u) \cup {t}) \in Nat
    BY <1>4, <2>1, FS_Subset, FS_CardinalityType
  <2>3. susp'[u] = susp[u] + 1
    BY <1>0, <1>1, <1>7 DEF TypeInv, TypeOK, ThreadsOK
  <2> QED
    BY <1>5, <1>6, <2>1, <2>2, <2>3
<1>8. CASE u # v
  <2>1. Cardinality(H(u)') <= Cardinality(H(u)) /\ Cardinality(H(u)') \in Nat
    BY <1>4, <1>5, <1>8, FS_Subset, FS_CardinalityType
  <2>2. susp'[u] = susp[u]
    BY <1>0, <1>1, <1>8 DEF TypeInv, TypeOK, ThreadsOK
  <2> QED
    BY <1>5, <1>6, <2>1, <2>2
<1> QED
  BY <1>7, <1>8

\* The caller is at two labels that OwnInv does not tell apart.
LEMMA SuspendOwn ==
  ASSUME TypeInv, OwnInv, NEW t \in Threads, Suspend(t)
  PROVE  OwnInv'
<1>1. /\ pc[t] = "inKernel" /\ pc'[t] = "suspending"
      /\ \A w \in Threads \ {t} : pc'[w] = pc[w]
      /\ UNCHANGED <<frame, enabled, handling, crashedDuring, ports, known, busy>>
  BY DEF Suspend, Goto, TypeInv, TypeOK, ThreadsOK, coreVars, machVars
<1>2. Margin => Margin'
  BY SuspendMargin
<1>3. /\ Pri \in Threads /\ Sec \in Threads
      /\ \A w \in Threads : \/ pc'[w] = pc[w]
                            \/ pc[w] = "inKernel" /\ pc'[w] = "suspending"
  BY <1>1 DEF Threads, Handlers
<1>4. MachKinds' /\ TwoSteps' /\ PortsGiven'
  BY <1>1, <1>3
     DEF OwnInv, MachKinds, TwoSteps, PortsGiven, Crashing, Unstarted, Kind, Disabling,
     Vulnerable, Handlers
<1>5. SecondWaits' /\ FirstIsNoted' /\ OneMachContext'
  BY <1>1, <1>3
     DEF OwnInv, SecondWaits, FirstIsNoted, OneMachContext, Unstarted, Kind, Routing,
     Disabling, Vulnerable, Entering
<1>6. SecondIsNested'
  BY <1>1, <1>2, <1>3
     DEF OwnInv, SecondIsNested, Kind, Disabling, Vulnerable, Entering, Resuming
<1>7. CrashIsNested'
  BY <1>1, <1>2, <1>3
     DEF OwnInv, CrashIsNested, Crashing, Kind, Vulnerable, Entering, Resuming
<1>8. OneSignalContext'
  BY <1>1, <1>3
     DEF OwnInv, OneSignalContext, Crashing, Clash, Kind, Capturing, Vulnerable, Noted,
     Resuming, Threads
<1> QED
  BY <1>4, <1>5, <1>6, <1>7, <1>8 DEF OwnInv

(***************************************************************************)
(* The steps of the Mach threads.                                          *)
(***************************************************************************)
\* A Mach thread changes no application thread, but for a fault that becomes a signal.
AppsStay ==
  \A u \in AppThreads : frame'[u] = frame[u] /\ (pc'[u] = pc[u] \/ pc'[u] = "signalled")

\* So an application thread that reports a signal did so before.
LEMMA SameApps ==
  ASSUME OwnInv, AppsStay
  PROVE  /\ \A x \in AppThreads : Kind(x)' # "mach"
         /\ \A x \in AppThreads :
              Kind(x)' = "signal" /\ pc'[x] \in Noted => Kind(x) = "signal" /\ pc[x] \in Noted
         /\ \A x \in AppThreads : Kind(x)' = "signal" /\ pc'[x] \in Noted => handling
         /\ Clash' => Clash
BY DEF OwnInv, MachKinds, OneSignalContext, AppsStay, Kind, Noted, Clash, Capturing,
   Vulnerable

Switches == <<enabled, handling, crashedDuring, ports, known>>

\* Where a Mach thread goes without touching a switch.
HandlerPath(t) ==
  \/ pc[t] = "wait" /\ pc'[t] = "enter" /\ frame'[t].kind = "mach"
  \/ pc[t] = "enter" /\ pc'[t] = "leave" /\ Kind(t) \notin enabled
  \/ pc[t] = "enter" /\ pc'[t] = "suspend" /\ Kind(t) \in enabled
  \/ /\ pc[t] \in {"suspend", "suspending", "inKernel"}
     /\ pc'[t] \in {"suspending", "inKernel", "notify"}
     /\ pc'[t] = "notify" /\ Kind(t) = "mach" => busy'
  \/ pc[t] = "notify" /\ pc'[t] = "mark" /\ frame'[t].was = handling
  \/ pc[t] \in Vulnerable /\ pc'[t] \in Vulnerable
  \/ pc[t] = "conclude" /\ pc'[t] = "disable" /\ frame'[t].after = "resume"
  \/ pc[t] = "conclude" /\ pc'[t] = "resume" /\ (~handling \/ crashedDuring)
  \/ pc[t] \in {"resume", "resuming"} /\ pc'[t] \in {"resuming", "leave"}
  \/ pc[t] = "leave" /\ pc'[t] = "done"
  \/ pc[t] \in Vulnerable \cup {"wait"} /\ pc'[t] = "dead"

HandlerMove(t) ==
  /\ AppsStay
  /\ \A h \in Handlers \ {t} : pc'[h] = pc[h] /\ frame'[h] = frame[h]
  /\ UNCHANGED Switches
  /\ frame'[t].kind = frame[t].kind \/ pc[t] = "wait"
  /\ busy => busy' \/ pc[t] = "resume"
  /\ HandlerPath(t)

\* Such a step of the secondary thread keeps it apart from the primary one.
LEMMA SecondOwn ==
  ASSUME OwnInv, HandlerMove(Sec), Margin => Margin'
  PROVE  OwnInv'
<1>0. pc'[Pri] = pc[Pri] /\ frame'[Pri] = frame[Pri]
  BY ThreadsAssumption DEF HandlerMove, Handlers
<1>1. UNCHANGED <<enabled, handling, crashedDuring, ports, known>>
  BY DEF HandlerMove, Switches
<1>2. MachKinds' /\ TwoSteps'
  <2>1. pc'[Sec] \notin {"blocked", "signalled", "idle"}
    BY DEF HandlerMove, HandlerPath, Vulnerable
  <2>2. pc'[Sec] \in {"dead", "done", "wait"} \/ Kind(Sec)' = "mach"
    BY DEF OwnInv, MachKinds, HandlerMove, HandlerPath, Kind, Unstarted, Vulnerable
  <2>3. \A h \in Handlers : pc'[h] \notin {"blocked", "signalled", "idle"}
    BY <1>0, <2>1 DEF OwnInv, MachKinds, Handlers
  <2>4. Kind(Pri)' = "mach" /\ pc'[Pri] \in Disabling => frame'[Pri].after # "fill"
    BY <1>0 DEF OwnInv, MachKinds, Kind
  <2>5. MachKinds'
    BY <2>2, <2>3, <2>4, SameApps DEF MachKinds, HandlerMove, Unstarted, Kind
  <2> QED
    BY <1>1, <2>5 DEF OwnInv, TwoSteps
<1>3. ~Unstarted(Sec)
  BY DEF HandlerMove, HandlerPath, Unstarted, Vulnerable
<1>4. PortsGiven'
  BY <1>0, <1>1, <1>3 DEF OwnInv, HandlerMove, PortsGiven, Crashing, Kind
<1>5. SecondWaits' /\ ~(pc[Pri] = "wait" \/ (Kind(Pri) = "mach" /\ (pc[Pri] \in Entering \/ Routing)))
  BY <1>0, <1>1, <1>3 DEF OwnInv, HandlerMove, SecondWaits, Kind, Routing, Unstarted
<1>6. FirstIsNoted'
  BY <1>0, <1>1, <1>3, <1>5
     DEF OwnInv, HandlerMove, FirstIsNoted, OneMachContext, Kind, Routing, Entering
<1>7. OneMachContext'
  BY <1>0, <1>1, <1>3
     DEF OwnInv, HandlerMove, HandlerPath, MachKinds, OneMachContext, SecondIsNested, Kind,
     Unstarted, Entering, Vulnerable
<1>8. SecondIsNested'
  BY <1>0, <1>1
     DEF OwnInv, HandlerMove, HandlerPath, SecondIsNested, Kind, Entering, Vulnerable
<1>9. CrashIsNested'
  BY <1>0, <1>1 DEF OwnInv, HandlerMove, CrashIsNested, Crashing, Kind
<1>10. OneSignalContext'
  BY <1>0, <1>1, SameApps DEF OwnInv, HandlerMove, OneSignalContext, Crashing, Kind
<1> QED
  BY <1>2, <1>4, <1>5, <1>6, <1>7, <1>8, <1>9, <1>10 DEF OwnInv

\* It stays apart too.
LEMMA PrimaryOwn ==
  ASSUME OwnInv, FlagInv, HandlerMove(Pri), pc[Pri] \in {"resume", "resuming"} \/ (Margin => Margin'), enabled \subseteq Monitored
  PROVE  OwnInv'
<1>1. UNCHANGED <<enabled, handling, crashedDuring, ports, known>>
  BY DEF HandlerMove, Switches
<1>0. Kind(Pri) \in {"mach", "signal"}
  BY DEF FlagInv, KindsOK, Handlers
<1>11. pc'[Sec] = pc[Sec] /\ frame'[Sec] = frame[Sec]
  BY ThreadsAssumption DEF HandlerMove, Handlers
<1>2. MachKinds' /\ TwoSteps'
  BY <1>11, <1>1, SameApps
     DEF OwnInv, HandlerMove, HandlerPath, MachKinds, TwoSteps, Kind, Unstarted, Handlers,
     Vulnerable, Disabling
<1>4. PortsGiven'
  BY <1>11, <1>1 DEF OwnInv, HandlerMove, HandlerPath, PortsGiven, Crashing, Unstarted, Kind,
     Vulnerable
<1>5. SecondWaits'
  BY <1>11, <1>1
     DEF OwnInv, HandlerMove, HandlerPath, SecondWaits, Kind, Routing, Unstarted, Entering,
     Vulnerable, Disabling
<1>6. FirstIsNoted'
  BY <1>11, <1>1
     DEF OwnInv, HandlerMove, HandlerPath, FirstIsNoted, Kind, Routing, Disabling, Vulnerable
<1>7. OneMachContext'
  BY <1>11, <1>1
     DEF OwnInv, HandlerMove, HandlerPath, OneMachContext, Kind, Unstarted, Vulnerable
<1>8. SecondIsNested'
  <2>1. ASSUME pc[Sec] \in Entering \cup {"wait"}, enabled # {}
        PROVE  /\ handling /\ Margin /\ ~Unstarted(Sec)
               /\ pc[Sec] = "mark" => frame[Sec].was
               /\ pc[Pri] \notin Resuming
               /\ crashedDuring =>
                    pc[Pri] = "dead" \/ (Kind(Pri) = "signal" /\ pc[Pri] \in Disabling)
    BY <2>1 DEF OwnInv, SecondIsNested, Unstarted, Entering
  <2>2. ASSUME pc[Sec] \in Entering \cup {"wait"}, enabled # {}
        PROVE  pc'[Pri] \notin Resuming
    <3>1. CASE pc[Pri] = "enter"
      <4>1. Kind(Pri) = "signal"
        BY <1>0, <2>1, <2>2, <3>1 DEF OwnInv, SecondWaits, Entering
      <4>2. "signal" \in enabled
        BY <2>2, <3>1, <4>1 DEF OwnInv, CrashIsNested, Crashing, TwoSteps
      <4> QED
        BY <3>1, <4>1, <4>2 DEF HandlerMove, HandlerPath, Resuming, Vulnerable
    <3>2. CASE pc[Pri] # "enter"
      BY <2>1, <2>2, <3>2
         DEF HandlerMove, HandlerPath, Resuming, Vulnerable, Disabling
    <3> QED
      BY <3>1, <3>2
  <2>3. ASSUME pc[Sec] \in Entering \cup {"wait"}, enabled # {}, crashedDuring
        PROVE  pc'[Pri] = "dead"
    <3>1. pc[Pri] \in {"dead", "disable", "uninstall", "mask"}
      BY <2>1, <2>3 DEF Disabling
    <3> QED
      BY <3>1 DEF HandlerMove, HandlerPath, Vulnerable
  <2>4. ASSUME pc[Sec] \in Entering \cup {"wait"}, enabled # {}
        PROVE  Margin'
    BY <2>1, <2>4 DEF Resuming
  <2> QED
    BY <1>11, <1>1, <2>1, <2>2, <2>3, <2>4 DEF OwnInv, HandlerMove, SecondIsNested
<1>9. CrashIsNested'
  BY <1>11, <1>1 DEF OwnInv, HandlerMove, HandlerPath, CrashIsNested, TwoSteps, Crashing, Kind, Entering, Vulnerable, Resuming
<1>10. OneSignalContext'
  <2>1. Clash => handling
    BY DEF OwnInv, OneSignalContext, Clash, Noted, Capturing, Vulnerable
  <2>2. Kind(Pri)' = "mach" /\ Clash' =>
          /\ pc'[Pri] = "mark" => frame'[Pri].was
          /\ pc'[Pri] \in Vulnerable \cup {"route"} => enabled = {}
    BY <2>1, SameApps
       DEF OwnInv, HandlerMove, HandlerPath, OneSignalContext, Kind, Vulnerable
  <2>3. Crashing' /\ pc'[Pri] \notin Resuming => Crashing /\ pc[Pri] \notin Resuming
    BY DEF HandlerMove, HandlerPath, Crashing, Kind, Resuming, Vulnerable
  <2>4. \A x \in AppThreads : Kind(x)' = "signal" /\ pc'[x] \in Noted => handling'
    BY <1>11, <1>1, SameApps DEF HandlerMove
  <2>5. Crashing' /\ pc'[Pri] \notin Resuming => ~Clash'
    BY <2>3, SameApps DEF OwnInv, OneSignalContext, HandlerMove
  <2> QED
    BY <1>11, <1>1, <2>2, <2>4, <2>5 DEF OneSignalContext
<1> QED
  BY <1>2, <1>4, <1>5, <1>6, <1>7, <1>8, <1>9, <1>10 DEF OwnInv

\* The steps of a handler that touch no switch: those that report, ...
WritingAction(t) ==
  \/ FillContext(t) \/ HandleException(t) \/ NoteCrash(t) \/ ChoosePath(t)
  \/ CreateReport(t) \/ WriteReport(t) \/ RenameOld(t) \/ CreateRecrash(t) \/ EmbedOld(t)
  \/ RemoveOld(t) \/ WriteRecrash(t)

\* ... and the others.
PlainAction(t) ==
  \/ Receive(t) \/ Enter(t) \/ ReadThreadList(t) \/ CallSuspend(t) \/ EndSuspend(t)
  \/ NotifyFatal(t) \/ WritingAction(t) \/ Conclude(t) \/ BeginResume(t) \/ Resume(t)
  \/ EndResume(t) \/ EndCancelled(t)

\* They move no other thread.
LEMMA PlainSame ==
  ASSUME TypeInv, NEW t \in Threads, PlainAction(t)
  PROVE  \A u \in Threads \ {t} : pc'[u] = pc[u] /\ frame'[u] = frame[u]
<1>1. pc \in [Threads -> Labels] /\ frame \in [Threads -> Frames]
  BY DEF TypeInv, TypeOK, ThreadsOK
<1>2. CASE NotifyFatal(t) \/ WritingAction(t) \/ Conclude(t)
  BY <1>2, CaptureMoves DEF CaptureMove, CaptureAction, WritingAction
<1>3. CASE Receive(t) \/ Resume(t) \/ EndCancelled(t)
  BY <1>1, <1>3 DEF Receive, Resume, EndCancelled, Goto
<1>4. CASE Enter(t) \/ ReadThreadList(t) \/ EndSuspend(t) \/ BeginResume(t) \/ EndResume(t)
  BY <1>1, <1>4 DEF Enter, ReadThreadList, EndSuspend, BeginResume, EndResume, Goto
<1>5. CASE CallSuspend(t)
  BY <1>1, <1>5 DEF CallSuspend, Goto
<1> QED
  BY <1>2, <1>3, <1>4, <1>5 DEF PlainAction

\* On a Mach thread they are handler moves.
LEMMA PlainMoves ==
  ASSUME TypeInv, FlagInv, NEW t \in Handlers, PlainAction(t)
  PROVE  HandlerMove(t)
<1>1. /\ pc \in [Threads -> Labels] /\ frame \in [Threads -> Frames]
      /\ t \in Threads /\ t \notin AppThreads
  BY ThreadsAssumption DEF TypeInv, TypeOK, ThreadsOK, Threads, Handlers
<1>2. Kind(t) \in {"mach", "signal"}
  BY DEF FlagInv, KindsOK
<1>3. /\ AppsStay
      /\ \A h \in Handlers \ {t} : pc'[h] = pc[h] /\ frame'[h] = frame[h]
  BY <1>1, PlainSame DEF AppsStay, Threads
<1>4. CASE NotifyFatal(t) \/ WritingAction(t) \/ Conclude(t)
  <2>1. frame'[t].kind = frame[t].kind
    BY <1>1, <1>4, CaptureMoves DEF CaptureMove, CaptureAction, WritingAction
  <2>2. CASE NotifyFatal(t)
    BY <1>1, <1>3, <2>1, <2>2
       DEF NotifyFatal, At, Goto, HandlerMove, HandlerPath, Switches, machVars, coreVars,
       HandlingSeen, Frames
  <2>3. CASE Conclude(t)
    <3>1. pc[t] = "conclude" /\ pc[t] \in Vulnerable
      BY <2>3 DEF Conclude, At, Vulnerable
    <3>2. ~IsSnapshot(t)
      BY <1>1, <1>2, <3>1, OwnContext DEF IsSnapshot, Vulnerable
    <3>3. /\ frame'[t].after = "resume"
          /\ UNCHANGED <<handling, crashedDuring, enabled, ports, known, busy>>
      BY <1>1, <2>3, <3>2 DEF Conclude, machVars, Frames
    <3>4. pc'[t] = IF handling /\ ~crashedDuring THEN "disable" ELSE "resume"
      BY <1>1, <2>3, <3>2 DEF Conclude, Goto
    <3>5. HandlerPath(t)
      BY <3>1, <3>3, <3>4 DEF HandlerPath
    <3> QED
      BY <1>3, <2>1, <3>3, <3>5 DEF HandlerMove, Switches
  <2>4. CASE WritingAction(t)
    <3>1. UNCHANGED <<enabled, handling, crashedDuring, ports, known, busy>>
      BY <2>4
         DEF WritingAction, FillContext, HandleException, NoteCrash, ChoosePath, CreateReport,
         WriteReport, RenameOld, CreateRecrash, EmbedOld, RemoveOld, WriteRecrash, machVars,
         coreVars
    <3>2. pc[t] \in Vulnerable /\ pc'[t] \in Vulnerable
      BY <1>1, <2>4
         DEF WritingAction, FillContext, HandleException, NoteCrash, ChoosePath, CreateReport,
         WriteReport, RenameOld, CreateRecrash, EmbedOld, RemoveOld, WriteRecrash, At, Goto,
         Vulnerable
    <3> QED
      BY <1>3, <2>1, <3>1, <3>2 DEF HandlerMove, HandlerPath, Switches
  <2> QED
    BY <1>4, <2>2, <2>3, <2>4
<1>5. CASE Receive(t)
  <2>1. frame'[t].kind = "mach" /\ pc[t] = "wait" /\ pc'[t] = "enter"
    BY <1>1, <1>5 DEF Receive, At, IdleFrame
  <2> QED
    BY <1>3, <1>5, <2>1 DEF Receive, HandlerMove, HandlerPath, Switches, coreVars
<1>6. CASE Enter(t)
  <2>1. /\ pc[t] = "enter" /\ frame' = frame
        /\ pc'[t] = IF Kind(t) \in enabled THEN "suspend" ELSE "leave"
    BY <1>1, <1>2, <1>6 DEF Enter, At, Goto, MonitorOf, UserKinds, Suspends, Kinds
  <2> QED
    BY <1>3, <1>6, <2>1 DEF Enter, HandlerMove, HandlerPath, Switches, coreVars, machVars
<1>7. CASE ReadThreadList(t)
  <2>1. /\ pc[t] = "suspend" /\ pc'[t] = "suspending" /\ frame'[t].kind = frame[t].kind
    BY <1>1, <1>7 DEF ReadThreadList, At, Goto, Frames
  <2> QED
    BY <1>3, <1>7, <2>1 DEF ReadThreadList, HandlerMove, HandlerPath, Switches, coreVars, machVars
<1>8. CASE CallSuspend(t)
  <2>1. PICK v \in frame[t].todo :
            frame' = [frame EXCEPT ![t].target = v, ![t].todo = @ \ {v}]
    BY <1>8 DEF CallSuspend
  <2>2. /\ pc[t] = "suspending" /\ pc'[t] = "inKernel" /\ frame'[t].kind = frame[t].kind
    BY <1>1, <1>8, <2>1 DEF CallSuspend, At, Goto, Frames
  <2> QED
    BY <1>3, <1>8, <2>2 DEF CallSuspend, HandlerMove, HandlerPath, Switches, coreVars, machVars
<1>9. CASE EndSuspend(t)
  <2>1. /\ pc[t] = "suspending" /\ pc'[t] = "notify" /\ frame' = frame
    BY <1>1, <1>2, <1>9 DEF EndSuspend, At, Goto, AfterSuspend, Notifies, Kinds
  <2>2. busy' = (busy \/ Kind(t) = "mach")
    BY <1>9 DEF EndSuspend
  <2>3. UNCHANGED <<enabled, handling, crashedDuring, ports, known>>
    BY <1>9 DEF EndSuspend, coreVars
  <2> QED
    BY <1>3, <2>1, <2>2, <2>3 DEF HandlerMove, HandlerPath, Switches
<1>10. CASE BeginResume(t)
  <2>1. /\ pc[t] = "resume" /\ pc'[t] = "resuming" /\ frame'[t].kind = frame[t].kind
    BY <1>1, <1>10 DEF BeginResume, At, Goto, Frames
  <2> QED
    BY <1>3, <1>10, <2>1 DEF BeginResume, HandlerMove, HandlerPath, Switches, coreVars
<1>11. CASE Resume(t)
  <2>1. PICK v \in frame[t].todo : frame' = [frame EXCEPT ![t].todo = @ \ {v}]
    BY <1>11 DEF Resume
  <2>2. /\ pc[t] = "resuming" /\ pc' = pc /\ frame'[t].kind = frame[t].kind
    BY <1>1, <1>11, <2>1 DEF Resume, At, Frames
  <2> QED
    BY <1>3, <1>11, <2>2 DEF Resume, HandlerMove, HandlerPath, Switches, coreVars, machVars
<1>12. CASE EndResume(t)
  <2>1. /\ pc[t] = "resuming" /\ pc'[t] = "leave" /\ frame' = frame
    BY <1>1, <1>2, <1>12 DEF EndResume, At, Goto, NonFatalOrigins
  <2> QED
    BY <1>3, <1>12, <2>1 DEF EndResume, HandlerMove, HandlerPath, Switches, coreVars, machVars
<1>13. CASE EndCancelled(t)
  <2>1. /\ pc[t] \in Vulnerable \cup {"wait"} /\ pc'[t] = "dead" /\ frame' = frame
    BY <1>1, <1>13 DEF EndCancelled, CancellationPoints, Vulnerable, Goto
  <2> QED
    BY <1>3, <1>13, <2>1 DEF EndCancelled, HandlerMove, HandlerPath, Switches, coreVars, machVars
<1> QED
  BY <1>4, <1>5, <1>6, <1>7, <1>8, <1>9, <1>10, <1>11, <1>12, <1>13
     DEF PlainAction

\* None of them but a resumption changes a suspend count, and none holds more threads.
LEMMA PlainHolds ==
  ASSUME TypeInv, StopInv, NEW t \in Threads, PlainAction(t)
  PROVE  Held(t)' \subseteq Held(t) /\ (Resume(t) \/ susp' = susp)
<1>1. pc \in [Threads -> Labels] /\ frame \in [Threads -> Frames]
  BY DEF TypeInv, TypeOK, ThreadsOK
<1>2. Resume(t) \/ susp' = susp
  BY DEF PlainAction, WritingAction, FillContext, HandleException, NoteCrash, ChoosePath,
     CreateReport, WriteReport, RenameOld, CreateRecrash, EmbedOld, RemoveOld, WriteRecrash,
     NotifyFatal, Conclude, Receive, Enter, ReadThreadList, CallSuspend, EndSuspend,
     BeginResume, EndResume, EndCancelled
<1>3. CASE NotifyFatal(t) \/ WritingAction(t) \/ Conclude(t)
  <2>1. CaptureMove(t)
    BY <1>3, CaptureMoves DEF CaptureAction, WritingAction
  <2> QED
    BY <1>2, <2>1, CaptureKeeps DEF CaptureMove, Keeps
<1>4. CASE Receive(t) \/ Enter(t) \/ EndResume(t) \/ EndCancelled(t)
  <2>1. \/ pc'[t] \in {"enter", "leave", "idle", "suspend", "dead"}
        \/ Enter(t) /\ pc'[t] \in {"notify", "fill", "resume"} /\ frame' = frame
    BY <1>1, <1>4
       DEF Receive, Enter, EndResume, EndCancelled, Goto, AfterSuspend, Suspends, Kinds
  <2>2. CASE pc'[t] \in {"enter", "leave", "idle", "suspend", "dead"}
    BY <1>2, <2>2 DEF Held, Capturing, Vulnerable
  <2>3. CASE Enter(t) /\ pc'[t] \in {"notify", "fill", "resume"} /\ frame' = frame
    <3>1. frame'[t].list = {}
      BY <2>3 DEF Enter, At, StopInv, ListsOK
    <3> QED
      BY <1>2, <2>3, <3>1 DEF Held, Capturing, Vulnerable
  <2> QED
    BY <1>2, <2>1, <2>2, <2>3
<1>5. CASE ReadThreadList(t)
  <2>1. pc'[t] = "suspending" /\ frame'[t].list = frame'[t].todo
    BY <1>1, <1>5 DEF ReadThreadList, Goto, Frames
  <2> QED
    BY <1>2, <2>1 DEF Held, Capturing, Vulnerable
<1>6. CASE CallSuspend(t)
  <2>1. PICK v \in frame[t].todo :
          frame' = [frame EXCEPT ![t].target = v, ![t].todo = @ \ {v}]
    BY <1>6 DEF CallSuspend
  <2>2. /\ pc[t] = "suspending" /\ pc'[t] = "inKernel"
        /\ frame'[t].list = frame[t].list
        /\ frame'[t].target = v /\ frame'[t].todo = frame[t].todo \ {v}
    BY <1>1, <1>6, <2>1 DEF CallSuspend, At, Goto, Frames
  <2> QED
    BY <1>2, <2>2 DEF Held, Capturing, Vulnerable
<1>7. CASE EndSuspend(t)
  <2>1. /\ pc[t] = "suspending" /\ frame[t].todo = {} /\ frame' = frame
        /\ pc'[t] \in {"resume", "notify", "fill"}
    BY <1>1, <1>7 DEF EndSuspend, At, AllSuspended, Goto, AfterSuspend
  <2> QED
    BY <1>2, <2>1 DEF Held, Capturing, Vulnerable
<1>8. CASE BeginResume(t)
  <2>1. /\ pc[t] = "resume" /\ pc'[t] = "resuming"
        /\ frame'[t].todo \subseteq frame[t].list
    BY <1>1, <1>8 DEF BeginResume, At, Goto, Frames
  <2> QED
    BY <1>2, <2>1 DEF Held, Capturing, Vulnerable
<1>9. CASE Resume(t)
  <2>1. PICK v \in frame[t].todo : frame' = [frame EXCEPT ![t].todo = @ \ {v}]
    BY <1>9 DEF Resume
  <2>2. /\ pc[t] = "resuming" /\ pc' = pc /\ frame'[t].todo \subseteq frame[t].todo
    BY <1>1, <1>9, <2>1 DEF Resume, At, Frames
  <2> QED
    BY <1>9, <2>2 DEF Held, Capturing, Vulnerable
<1> QED
  BY <1>3, <1>4, <1>5, <1>6, <1>7, <1>8, <1>9 DEF PlainAction

\* A resumption by the secondary thread takes it off the holders, and one off the count.
LEMMA ResumeMargin ==
  ASSUME TypeInv, Margin, NEW t \in Threads \ {Pri}, Resume(t)
  PROVE  Margin'
<1> DEFINE H(u) == Holders(u) \ {Pri}
<1> HIDE DEF H
<1> SUFFICES ASSUME NEW u \in AppThreads
             PROVE  Cardinality(H(u)') + 1 <= susp'[u]
  BY DEF Margin, H
<1>1. PICK v \in frame[t].todo : /\ susp' = [susp EXCEPT ![v] = Resumed(@)]
                                 /\ frame' = [frame EXCEPT ![t].todo = @ \ {v}]
  BY DEF Resume
<1>2. /\ pc[t] = "resuming" /\ pc' = pc
      /\ \A w \in Threads \ {t} : frame'[w] = frame[w]
      /\ frame'[t].todo = frame[t].todo \ {v}
  BY <1>1 DEF Resume, At, TypeInv, TypeOK, ThreadsOK, Frames
<1>3. v \in Threads /\ u \in Threads
  BY FrameFields DEF TypeInv, TypeOK, Threads
<1>4. Held(t)' = Held(t) \ {v} /\ v \in Held(t)
  BY <1>2 DEF Held, Capturing, Vulnerable
<1>5. \A w \in Threads \ {t} : Held(w)' = Held(w)
  BY <1>2 DEF Held
<1>6. IsFiniteSet(H(u)) /\ Cardinality(H(u)) \in Nat
  BY <1>3, OthersFinite DEF H
<1>7. Cardinality(H(u)) + 1 <= susp[u] /\ susp[u] \in Nat
  BY <1>3 DEF Margin, H, TypeInv, TypeOK, ThreadsOK
<1>8. CASE u = v
  <2>1. t \in H(u) /\ H(u)' = H(u) \ {t}
    BY <1>4, <1>5, <1>8 DEF H, Holders
  <2>2. Cardinality(H(u)') = Cardinality(H(u)) - 1
    BY <1>6, <2>1, FS_RemoveElement
  <2>3. susp'[u] = susp[u] - 1
    BY <1>1, <1>3, <1>6, <1>7, <1>8 DEF Resumed, TypeInv, TypeOK, ThreadsOK
  <2> QED
    BY <1>6, <1>7, <2>2, <2>3
<1>9. CASE u # v
  <2>1. H(u)' = H(u)
    BY <1>4, <1>5, <1>9 DEF H, Holders
  <2>2. susp'[u] = susp[u]
    BY <1>1, <1>9 DEF TypeInv, TypeOK, ThreadsOK
  <2> QED
    BY <1>7, <2>1, <2>2
<1> QED
  BY <1>8, <1>9

\* The steps of the Mach threads that touch no switch.
LEMMA PlainOwn ==
  ASSUME TypeInv, StopInv, FlagInv, OwnInv, NEW t \in Handlers, PlainAction(t)
  PROVE  OwnInv'
<1>1. t \in Threads /\ HandlerMove(t)
  BY PlainMoves DEF Threads
<1>2. CASE ~Resume(t)
  <2>1. \A w \in Threads : Held(w)' \subseteq Held(w)
    <3>1. \A w \in Threads \ {t} : Held(w)' = Held(w)
      BY <1>1, PlainSame DEF Held
    <3> QED
      BY <1>1, <3>1, PlainHolds
  <2>2. Margin => Margin'
    BY <1>1, <1>2, <2>1, PlainHolds, MarginStays
  <2> QED
    BY <1>1, <2>2, SecondOwn, PrimaryOwn DEF Handlers, TypeInv, TypeOK, ReporterOK
<1>3. CASE Resume(t) /\ t # Pri
  BY <1>1, <1>3, ResumeMargin, SecondOwn DEF Handlers
<1>4. CASE Resume(t) /\ t = Pri
  BY <1>1, <1>4, PrimaryOwn DEF Resume, At, TypeInv, TypeOK, ReporterOK
<1> QED
  BY <1>2, <1>3, <1>4

\* What the steps that touch a switch do to the threads: thread t moves, in the capture,
\* and a Mach thread may end or be started.
SwitchMove(t) ==
  /\ AppsStay
  /\ \A h \in Handlers \ {t} : frame'[h] = frame[h] /\ pc'[h] \in {pc[h], "dead", "wait"}
  /\ frame'[t].kind = frame[t].kind /\ frame'[t].was = frame[t].was
  /\ pc[t] \in Capturing /\ pc'[t] \in Capturing \cup {"resume"}
  /\ busy' = busy /\ (ports' => ports)
  /\ Margin => Margin'

\* They leave the margin as it is.
LEMMA SwitchMoves ==
  ASSUME TypeInv, NEW t \in Handlers,
         \/ MarkFatal(t) \/ DisableMach(t) \/ UninstallMach(t) \/ DisableOthers(t)
         \/ ActivateSecondary(t)
  PROVE  SwitchMove(t)
<1>1. /\ pc \in [Threads -> Labels] /\ frame \in [Threads -> Frames]
      /\ t \in Threads /\ t \notin AppThreads
  BY ThreadsAssumption DEF TypeInv, TypeOK, ThreadsOK, Threads, Handlers
<1>2. /\ frame'[t].kind = frame[t].kind /\ frame'[t].was = frame[t].was
      /\ frame'[t].list = frame[t].list
      /\ \A u \in Threads \ {t} : frame'[u] = frame[u]
  BY <1>1
     DEF MarkFatal, DisableMach, UninstallMach, DisableOthers, ActivateSecondary, Frames
<1>3. /\ pc[t] \in Capturing /\ pc'[t] \in Capturing \cup {"resume"}
      /\ \A u \in Threads \ {t} : \/ pc'[u] = pc[u]
                                  \/ u \in Handlers /\ pc'[u] \in {"dead", "wait"}
  <2>1. CASE UninstallMach(t)
    <3>1. known \subseteq Handlers
      BY DEF TypeInv, TypeOK, ReporterOK
    <3>2. /\ \A u \in Threads \ {t} : pc'[u] = pc[u] \/ (u \in known /\ pc'[u] = "dead")
          /\ pc'[t] = "mask" /\ pc[t] = "uninstall"
      BY <1>1, <2>1 DEF UninstallMach, At
    <3> QED
      BY <3>1, <3>2 DEF Capturing, Vulnerable
  <2>2. CASE ActivateSecondary(t)
    BY <1>1, <2>2, ThreadsAssumption DEF ActivateSecondary, At, Goto, Handlers, Capturing, Vulnerable
  <2>3. CASE MarkFatal(t) \/ DisableMach(t) \/ DisableOthers(t)
    BY <1>1, <2>3, FrameFields
       DEF MarkFatal, DisableMach, DisableOthers, At, Goto, Capturing, Vulnerable, TypeInv, TypeOK
  <2> QED
    BY <2>1, <2>2, <2>3
<1>4. busy' = busy /\ susp' = susp /\ (ports' => ports)
  BY DEF MarkFatal, DisableMach, UninstallMach, DisableOthers, ActivateSecondary, machVars
<1>5. ASSUME NEW w \in Threads PROVE Held(w)' \subseteq Held(w)
  <2>1. CASE w = t
    BY <1>2, <1>3, <2>1 DEF Held, Capturing, Vulnerable
  <2>2. CASE w # t
    BY <1>2, <1>3, <2>2 DEF Held, Capturing, Vulnerable
  <2> QED
    BY <2>1, <2>2
<1>6. Margin => Margin'
  BY <1>4, <1>5, MarginStays
<1> QED
  BY <1>1, <1>2, <1>3, <1>4, <1>6, ThreadsAssumption
     DEF SwitchMove, AppsStay, Threads, Handlers

\* MarkFatal: a handler that finds a crash noted disables the monitors first.
LEMMA MarkFatalOwn ==
  ASSUME TypeInv, StopInv, FlagInv, OwnInv, NEW t \in Handlers, MarkFatal(t)
  PROVE  OwnInv'
<1>1. /\ pc \in [Threads -> Labels] /\ frame \in [Threads -> Frames]
      /\ t \in Threads /\ Pri \in Handlers /\ Sec \in Handlers
  BY DEF TypeInv, TypeOK, ThreadsOK, Threads, Handlers
<1>2. SwitchMove(t)
  BY SwitchMoves
<1>3. /\ pc[t] = "mark" /\ handling' /\ crashedDuring' = (crashedDuring \/ frame[t].was)
      /\ UNCHANGED <<enabled, ports, known, busy>>
      /\ \A h \in Handlers \ {t} : pc'[h] = pc[h] /\ frame'[h] = frame[h]
      /\ frame'[t].after = (IF Kind(t) = "mach" THEN "route" ELSE "fill")
      /\ frame'[t].kind = frame[t].kind
      /\ pc'[t] = IF crashedDuring' THEN "disable"
                  ELSE IF Kind(t) = "mach" THEN "route" ELSE "fill"
  BY <1>1 DEF MarkFatal, At, Goto, CrashedDuring, machVars, Frames, Threads
<1>4. Kind(t) \in {"mach", "signal"}
  BY DEF FlagInv, KindsOK
<1>5. Kind(Pri)' = Kind(Pri) /\ Kind(Sec)' = Kind(Sec)
  BY <1>1, <1>3 DEF Kind
<1>6. MachKinds'
  BY <1>1, <1>2, <1>3, <1>5, SameApps
     DEF OwnInv, MachKinds, SwitchMove, Unstarted, Disabling, Handlers, Kind
<1>7. TwoSteps' /\ PortsGiven'
  BY <1>1, <1>3, <1>4 DEF OwnInv, TwoSteps, PortsGiven, Crashing, Unstarted, Kind, Vulnerable
<1>8. SecondWaits'
  BY <1>1, <1>3, <1>5 DEF OwnInv, SecondWaits, Routing, Unstarted, Disabling, Entering
<1>9. FirstIsNoted'
  <2>1. CASE t = Pri
    BY <1>3, <1>5, <2>1 DEF OwnInv, FirstIsNoted, Routing, Vulnerable, Disabling
  <2>2. CASE t = Sec
    BY <1>1, <1>3, <1>5, <2>2, ThreadsAssumption
       DEF OwnInv, FirstIsNoted, SecondWaits, Unstarted, Routing
  <2> QED
    BY <2>1, <2>2 DEF Handlers
<1>10. OneMachContext'
  BY <1>1, <1>3, <1>5 DEF OwnInv, OneMachContext, Unstarted, Vulnerable, Entering
<1>11. SecondIsNested'
  <2>1. CASE t = Pri
    <3>1. pc'[Sec] = pc[Sec] /\ frame'[Sec] = frame[Sec]
      BY <1>1, <1>3, <2>1, ThreadsAssumption
    <3>2. ASSUME pc[Sec] \in Entering \cup {"wait"}, enabled # {}
          PROVE  Kind(Pri) = "signal" /\ frame[Pri].was /\ Margin
      BY <1>3, <1>4, <2>1, <3>2
         DEF OwnInv, SecondIsNested, SecondWaits, CrashIsNested, Crashing, Unstarted, Entering
    <3> QED
      BY <1>2, <1>3, <1>5, <2>1, <3>1, <3>2
         DEF OwnInv, SecondIsNested, SwitchMove, Disabling, Resuming
  <2>2. CASE t = Sec
    BY <1>3, <2>2 DEF OwnInv, SecondIsNested, Vulnerable, Entering
  <2> QED
    BY <2>1, <2>2 DEF Handlers
<1>12. CrashIsNested'
  BY <1>1, <1>2, <1>3, <1>5 DEF OwnInv, CrashIsNested, Crashing, SwitchMove, Vulnerable, Entering, Resuming
<1>13. OneSignalContext'
  BY <1>1, <1>2, <1>3, <1>5, SameApps DEF OwnInv, OneSignalContext, Crashing, SwitchMove, Vulnerable, Resuming
<1> QED
  BY <1>6, <1>7, <1>8, <1>9, <1>10, <1>11, <1>12, <1>13 DEF OwnInv

\* DisableMach: the first of the two steps that disable the monitors.
LEMMA DisableMachOwn ==
  ASSUME TypeInv, StopInv, FlagInv, OwnInv, NEW t \in Handlers, DisableMach(t)
  PROVE  OwnInv'
<1>1. /\ pc \in [Threads -> Labels] /\ t \in Threads /\ Pri \in Handlers /\ Sec \in Handlers
  BY DEF TypeInv, TypeOK, ThreadsOK, Threads, Handlers
<1>2. SwitchMove(t)
  BY SwitchMoves
<1>3. /\ pc[t] = "disable" /\ enabled' = enabled \ {"mach"} /\ frame' = frame
      /\ UNCHANGED <<handling, crashedDuring, ports, known, busy>>
      /\ \A h \in Handlers \ {t} : pc'[h] = pc[h]
      /\ pc'[t] = IF "mach" \in enabled THEN "uninstall" ELSE "mask"
  BY <1>1 DEF DisableMach, At, Goto, coreVars, machVars, Threads
<1>4. Kind(Pri)' = Kind(Pri) /\ Kind(Sec)' = Kind(Sec) /\ Routing' = Routing
  BY <1>1, <1>3 DEF Kind, Routing, Disabling
<1>5. MachKinds'
  BY <1>1, <1>2, <1>3, <1>4, SameApps
     DEF OwnInv, MachKinds, SwitchMove, Unstarted, Disabling, Handlers, Kind
<1>6. TwoSteps' /\ PortsGiven'
  BY <1>1, <1>3, <1>4 DEF OwnInv, TwoSteps, PortsGiven, Crashing, Unstarted, Vulnerable
<1>7. SecondWaits'
  BY <1>1, <1>3, <1>4 DEF OwnInv, SecondWaits, Unstarted, Entering
<1>8. FirstIsNoted'
  BY <1>1, <1>3, <1>4 DEF OwnInv, FirstIsNoted, Vulnerable
<1>9. OneMachContext'
  <2>1. CASE t = Pri
    BY <1>3, <2>1 DEF OneMachContext, Vulnerable
  <2>2. CASE t = Sec
    BY <1>1, <1>3, <1>4, <2>2, ThreadsAssumption
       DEF OwnInv, OneMachContext, Unstarted, Vulnerable, Entering
  <2> QED
    BY <2>1, <2>2 DEF Handlers
<1>10. SecondIsNested'
  BY <1>1, <1>2, <1>3, <1>4
     DEF OwnInv, SecondIsNested, SwitchMove, Vulnerable, Entering, Disabling, Resuming
<1>11. CrashIsNested'
  BY <1>1, <1>2, <1>3, <1>4
     DEF OwnInv, CrashIsNested, Crashing, SwitchMove, Vulnerable, Entering, Resuming
<1>12. OneSignalContext'
  BY <1>1, <1>2, <1>3, <1>4, SameApps
     DEF OwnInv, OneSignalContext, Crashing, SwitchMove, Vulnerable, Resuming
<1> QED
  BY <1>5, <1>6, <1>7, <1>8, <1>9, <1>10, <1>11, <1>12 DEF OwnInv

\* UninstallMach: the primary thread ends with its context, if it has filled it.
LEMMA UninstallMachOwn ==
  ASSUME TypeInv, StopInv, FlagInv, OwnInv, NEW t \in Handlers, UninstallMach(t)
  PROVE  OwnInv'
<1>1. /\ pc \in [Threads -> Labels] /\ t \in Threads /\ Pri \in Handlers /\ Sec \in Handlers
      /\ Handlers \subseteq Threads
  BY DEF TypeInv, TypeOK, ThreadsOK, Threads, Handlers
<1>2. SwitchMove(t)
  BY SwitchMoves
<1>3. /\ pc[t] = "uninstall" /\ pc'[t] = "mask" /\ ~ports' /\ frame' = frame
      /\ known' = known \cap {t}
      /\ UNCHANGED <<handling, crashedDuring, enabled, busy>>
  BY <1>1 DEF UninstallMach, At, coreVars
<1>4. \A h \in Handlers \ {t} : pc'[h] = IF busy /\ h \in known THEN "dead" ELSE pc[h]
  BY <1>1 DEF UninstallMach
<1>5. Kind(Pri)' = Kind(Pri) /\ Kind(Sec)' = Kind(Sec)
  BY <1>1, <1>3 DEF Kind
<1>6. MachKinds'
  BY <1>1, <1>2, <1>3, <1>4, <1>5, SameApps
     DEF OwnInv, MachKinds, SwitchMove, Unstarted, Disabling, Handlers, Kind
<1>7. TwoSteps' /\ PortsGiven'
  BY <1>3 DEF OwnInv, TwoSteps, PortsGiven
<1>8. SecondWaits'
  BY <1>1, <1>3, <1>4, <1>5
     DEF OwnInv, SecondWaits, Unstarted, Entering, Routing, Disabling
<1>9. FirstIsNoted'
  BY <1>1, <1>3, <1>4, <1>5 DEF OwnInv, FirstIsNoted, Vulnerable, Routing, Disabling
<1>10. OneMachContext'
  <2>1. CASE t = Pri
    BY <1>3, <2>1 DEF OneMachContext, Vulnerable
  <2>2. CASE t = Sec /\ Kind(Pri) = "mach" /\ pc[Pri] \in Vulnerable
    <3>1. busy /\ Pri \in known
      BY <1>3, <2>2 DEF OwnInv, FirstIsNoted, OneMachContext, Unstarted
    <3> QED
      BY <1>1, <1>4, <2>2, <3>1, ThreadsAssumption DEF OneMachContext, Vulnerable
  <2>3. CASE t = Sec /\ ~(Kind(Pri) = "mach" /\ pc[Pri] \in Vulnerable)
    BY <1>1, <1>4, <1>5, <2>3, ThreadsAssumption DEF OneMachContext, Vulnerable
  <2> QED
    BY <2>1, <2>2, <2>3 DEF Handlers
<1>11. SecondIsNested'
  BY <1>1, <1>2, <1>3, <1>4, <1>5
     DEF OwnInv, SecondIsNested, SwitchMove, Vulnerable, Entering, Disabling, Resuming
<1>12. CrashIsNested'
  BY <1>1, <1>2, <1>3, <1>4, <1>5
     DEF OwnInv, CrashIsNested, Crashing, SwitchMove, Vulnerable, Entering, Resuming
<1>13. OneSignalContext'
  BY <1>1, <1>2, <1>3, <1>4, <1>5, SameApps
     DEF OwnInv, OneSignalContext, Crashing, SwitchMove, Vulnerable, Resuming
<1> QED
  BY <1>6, <1>7, <1>8, <1>9, <1>10, <1>11, <1>12, <1>13 DEF OwnInv

\* DisableOthers: with nothing enabled, no handler starts to capture.
LEMMA DisableOthersOwn ==
  ASSUME TypeInv, StopInv, FlagInv, OwnInv, NEW t \in Handlers, DisableOthers(t)
  PROVE  OwnInv'
<1>1. /\ pc \in [Threads -> Labels] /\ t \in Threads /\ Pri \in Handlers /\ Sec \in Handlers
  BY DEF TypeInv, TypeOK, ThreadsOK, Threads, Handlers
<1>2. SwitchMove(t)
  BY SwitchMoves
<1>3. /\ pc[t] = "mask" /\ pc'[t] = frame[t].after /\ enabled' = {} /\ frame' = frame
      /\ UNCHANGED <<handling, crashedDuring, ports, known, busy>>
      /\ \A h \in Handlers \ {t} : pc'[h] = pc[h]
      /\ frame[t].after \in {"route", "fill", "resume"}
  BY <1>1, FrameFields
     DEF DisableOthers, NoneActive, At, Goto, coreVars, machVars, Threads, TypeInv, TypeOK
<1>4. Kind(Pri)' = Kind(Pri) /\ Kind(Sec)' = Kind(Sec) /\ Kind(Pri) \in {"mach", "signal"}
  BY <1>1, <1>3 DEF Kind, FlagInv, KindsOK
<1>5. MachKinds'
  BY <1>1, <1>2, <1>3, <1>4, SameApps
     DEF OwnInv, MachKinds, SwitchMove, Unstarted, Disabling, Handlers, Kind
<1>6. TwoSteps' /\ PortsGiven'
  BY <1>1, <1>3, <1>4
     DEF OwnInv, MachKinds, TwoSteps, PortsGiven, Crashing, Unstarted, Disabling, Vulnerable
<1>7. SecondWaits'
  BY <1>1, <1>3, <1>4 DEF OwnInv, SecondWaits, Unstarted, Entering, Routing, Disabling
<1>8. FirstIsNoted'
  BY <1>1, <1>3, <1>4
     DEF OwnInv, MachKinds, FirstIsNoted, Vulnerable, Routing, Disabling
<1>9. OneMachContext'
  <2>1. CASE t = Pri
    BY <1>3, <1>4, <2>1
       DEF OwnInv, MachKinds, OneMachContext, Vulnerable, Disabling
  <2>2. CASE t = Sec
    BY <1>1, <1>3, <1>4, <2>2, ThreadsAssumption
       DEF OwnInv, OneMachContext, Unstarted, Vulnerable, Entering
  <2> QED
    BY <2>1, <2>2 DEF Handlers
<1>10. SecondIsNested'
  BY <1>3 DEF SecondIsNested
<1>11. CrashIsNested'
  BY <1>1, <1>2, <1>3, <1>4
     DEF OwnInv, CrashIsNested, Crashing, SwitchMove, Vulnerable, Entering, Resuming
<1>12. OneSignalContext'
  BY <1>1, <1>2, <1>3, <1>4, SameApps
     DEF OwnInv, OneSignalContext, Crashing, SwitchMove, Vulnerable, Resuming
<1> QED
  BY <1>5, <1>6, <1>7, <1>8, <1>9, <1>10, <1>11, <1>12 DEF OwnInv

\* ActivateSecondary: the secondary thread starts to wait with the world stopped and the
\* first exception noted.
LEMMA ActivateSecondaryOwn ==
  ASSUME TypeInv, StopInv, FlagInv, OwnInv, NEW t \in Handlers, ActivateSecondary(t)
  PROVE  OwnInv'
<1>1. /\ pc \in [Threads -> Labels] /\ t \in Threads /\ Pri \in Handlers /\ Sec \in Handlers
      /\ Sec \in Threads /\ Pri # Sec
  BY ThreadsAssumption DEF TypeInv, TypeOK, ThreadsOK, Threads, Handlers
<1>2. SwitchMove(t)
  BY SwitchMoves
<1>3. /\ pc[t] = "route" /\ pc'[t] = "fill" /\ frame' = frame
      /\ UNCHANGED <<handling, crashedDuring, enabled, known, busy>>
  BY <1>1 DEF ActivateSecondary, At, Goto, coreVars
<1>4. Kind(Pri)' = Kind(Pri) /\ Kind(Sec)' = Kind(Sec)
  BY <1>1, <1>3 DEF Kind
<1>5. CASE t = Pri
  <2>1. \/ pc'[Sec] = pc[Sec]
        \/ pc[Sec] = "parked" /\ pc'[Sec] = "wait" /\ Pri \in known
    BY <1>1, <1>5 DEF ActivateSecondary, Goto
  <2>2. ~ports'
    BY <1>5 DEF ActivateSecondary, OwnInv, PortsGiven
  <2>3. Margin /\ Margin'
    BY <1>2, <1>3, <1>5, PrimaryMargin DEF SwitchMove
  <2>4. Kind(Pri) = "mach" => Unstarted(Sec)
    BY <1>3, <1>5 DEF OwnInv, SecondWaits, Routing
  <2>5. Kind(Pri) = "mach" => handling /\ busy /\ (enabled = {} \/ ~crashedDuring)
    BY <1>3, <1>5 DEF OwnInv, FirstIsNoted, Routing
  <2>6. Kind(Pri) = "signal" => enabled = {}
    BY <1>3, <1>5 DEF OwnInv, CrashIsNested, Crashing
  <2>7. Kind(Pri) \in {"mach", "signal"}
    BY <1>1 DEF FlagInv, KindsOK
  <2>8. MachKinds'
    BY <1>1, <1>2, <1>3, <1>4, <1>5, <2>1, SameApps
       DEF OwnInv, MachKinds, SwitchMove, Unstarted, Disabling, Handlers, Kind
  <2>9. TwoSteps' /\ PortsGiven'
    BY <1>3, <2>2 DEF OwnInv, TwoSteps, PortsGiven
  <2>10. SecondWaits'
    BY <1>3, <1>5 DEF SecondWaits, Entering, Routing, Disabling
  <2>11. FirstIsNoted'
    BY <1>3, <1>4, <1>5, <2>5 DEF FirstIsNoted
  <2>12. OneMachContext'
    BY <1>3, <1>4, <2>1, <2>4 DEF OneMachContext, Unstarted
  <2>13. SecondIsNested'
    <3>1. pc'[Sec] \in Vulnerable \cup {"route"} => pc[Sec] \in Vulnerable \cup {"route"}
      BY <2>1 DEF Vulnerable
    <3>2. enabled # {} => handling /\ ~crashedDuring /\ pc'[Sec] # "mark"
      BY <1>1, <2>1, <2>4, <2>5, <2>6, <2>7 DEF Unstarted
    <3>3. pc'[Pri] \notin Resuming
      BY <1>3, <1>5 DEF Resuming
    <3> QED
      BY <1>3, <2>3, <3>1, <3>2, <3>3 DEF OwnInv, SecondIsNested
  <2>14. CrashIsNested'
    BY <1>3, <1>4, <1>5, <2>3, <2>6 DEF CrashIsNested, Crashing, Entering
  <2>15. OneSignalContext'
    BY <1>2, <1>3, <1>4, <1>5, SameApps
       DEF OwnInv, OneSignalContext, Crashing, SwitchMove, Resuming
  <2> QED
    BY <2>8, <2>9, <2>10, <2>11, <2>12, <2>13, <2>14, <2>15 DEF OwnInv
<1>6. CASE t = Sec
  <2>1. pc'[Pri] = pc[Pri] /\ ports' = ports
    BY <1>1, <1>6 DEF ActivateSecondary, Goto, Threads, Handlers
  <2>2. enabled = {} /\ ~Unstarted(Sec)
    BY <1>3, <1>6 DEF OwnInv, SecondIsNested, Unstarted
  <2>3. ~(Kind(Pri) = "mach" /\ pc[Pri] \in Vulnerable)
    BY <1>3, <1>6 DEF OwnInv, OneMachContext, Unstarted, Entering
  <2>4. MachKinds'
    BY <1>1, <1>2, <1>3, <1>4, <1>6, <2>1, <2>2, SameApps
       DEF OwnInv, MachKinds, SwitchMove, Unstarted, Disabling, Handlers, Kind
  <2>5. TwoSteps' /\ PortsGiven'
    BY <1>3, <1>4, <2>1, <2>2 DEF OwnInv, TwoSteps, PortsGiven, Crashing
  <2>6. SecondWaits'
    BY <1>3, <1>4, <2>1, <2>2 DEF OwnInv, SecondWaits, Routing
  <2>7. FirstIsNoted'
    BY <1>3, <1>4, <2>1 DEF OwnInv, FirstIsNoted, Routing
  <2>8. OneMachContext'
    BY <1>4, <2>1, <2>3 DEF OneMachContext
  <2>9. SecondIsNested'
    BY <1>3, <2>2 DEF SecondIsNested
  <2>10. CrashIsNested'
    BY <1>2, <1>3, <1>4, <2>1 DEF OwnInv, CrashIsNested, Crashing, SwitchMove
  <2>11. OneSignalContext'
    BY <1>2, <1>3, <1>4, <2>1, SameApps
       DEF OwnInv, OneSignalContext, Crashing, SwitchMove
  <2> QED
    BY <2>4, <2>5, <2>6, <2>7, <2>8, <2>9, <2>10, <2>11 DEF OwnInv
<1> QED
  BY <1>5, <1>6 DEF Handlers

\* A step that changes nothing OwnInv mentions, but for a fault that becomes a signal.
LEMMA NothingOwn ==
  ASSUME TypeInv, OwnInv, AppsStay, UNCHANGED <<Switches, busy, susp>>,
         \A h \in Handlers : pc'[h] = pc[h] /\ frame'[h] = frame[h]
  PROVE  OwnInv'
<1>1. UNCHANGED <<enabled, handling, crashedDuring, ports, known, busy, susp>>
  BY DEF Switches
<1>2. /\ pc'[Pri] = pc[Pri] /\ frame'[Pri] = frame[Pri]
      /\ pc'[Sec] = pc[Sec] /\ frame'[Sec] = frame[Sec]
  BY DEF Handlers
<1>3. Margin => Margin'
  <2>1. ASSUME NEW w \in Threads PROVE Held(w)' \subseteq Held(w)
    BY <1>2, <2>1 DEF AppsStay, Held, Threads, Handlers, Capturing, Vulnerable
  <2> QED
    BY <1>1, <2>1, MarginStays
<1>4. MachKinds' /\ TwoSteps' /\ PortsGiven'
  BY <1>1, <1>2, SameApps
     DEF OwnInv, MachKinds, TwoSteps, PortsGiven, Unstarted, Crashing, Kind, Handlers
<1>5. SecondWaits' /\ FirstIsNoted' /\ OneMachContext'
  BY <1>1, <1>2
     DEF OwnInv, SecondWaits, FirstIsNoted, OneMachContext, Unstarted, Routing, Kind
<1>6. SecondIsNested' /\ CrashIsNested'
  BY <1>1, <1>2, <1>3 DEF OwnInv, SecondIsNested, CrashIsNested, Crashing, Kind
<1>7. OneSignalContext'
  BY <1>1, <1>2, SameApps DEF OwnInv, OneSignalContext, Crashing, Kind
<1> QED
  BY <1>4, <1>5, <1>6, <1>7 DEF OwnInv

\* A Mach thread that crashes has given the ports up; the secondary one has no signal
\* handler left either, the primary one has noted its event and stopped the application.
LEMMA HandlerFaultOwn ==
  ASSUME TypeInv, StopInv, FlagInv, OwnInv, NEW t \in Handlers, HandlerFault(t)
  PROVE  OwnInv'
<1>1. /\ pc \in [Threads -> Labels] /\ frame \in [Threads -> Frames]
      /\ t \in Threads /\ Pri \in Handlers /\ Sec \in Handlers /\ Pri # Sec
      /\ Pri \notin AppThreads /\ Pri \in Threads /\ pc[t] \in Vulnerable
  BY ThreadsAssumption DEF TypeInv, TypeOK, ThreadsOK, Threads, Handlers, HandlerFault
<1>2. UNCHANGED <<susp, enabled, handling, crashedDuring, ports, known, busy>>
  BY DEF HandlerFault, coreVars
<1>3. ~ports
  BY <1>1 DEF OwnInv, PortsGiven, Handlers, Unstarted, Vulnerable
<1>4. Signal(t, events + 1)
  BY <1>3 DEF HandlerFault, Fault
<1>5. CASE "signal" \notin enabled
  BY <1>1, <1>2, <1>4, <1>5, NothingOwn DEF Signal, AppsStay, Switches
<1>6. CASE "signal" \in enabled
  <2>1. t = Pri
    BY <1>1, <1>6 DEF OwnInv, SecondIsNested, Handlers
  <2>2. Entry("signal") = "enter"
    BY DEF Entry, Tests, Kinds
  <2>3. /\ pc' = [pc EXCEPT ![Pri] = "enter"]
        /\ frame' = [frame EXCEPT ![Pri] =
                       [IdleFrame(Pri) EXCEPT !.kind = "signal", !.ev = events + 1]]
    BY <1>4, <1>6, <2>1, <2>2 DEF Signal, Start
  <2>4. /\ pc'[Pri] = "enter" /\ frame'[Pri].kind = "signal"
        /\ \A u \in Threads \ {Pri} : pc'[u] = pc[u] /\ frame'[u] = frame[u]
    BY <1>1, <2>3 DEF IdleFrame
  <2>5. AppsStay /\ pc'[Sec] = pc[Sec] /\ frame'[Sec] = frame[Sec]
    BY <1>1, <2>4 DEF AppsStay, Threads, Handlers
  <2>6. Margin /\ Margin'
    <3>1. \A w \in Threads \ {Pri} : Held(w)' = Held(w)
      BY <2>4 DEF Held
    <3>2. Margin
      BY <1>1, <2>1, PrimaryMargin DEF Capturing
    <3> QED
      BY <1>2, <3>1, <3>2, MarginStays
  <2>7. Kind(Pri) = "mach"
    BY <1>1, <1>6, <2>1
       DEF OwnInv, CrashIsNested, Crashing, FlagInv, KindsOK, Vulnerable
  <2>8. handling /\ ~Clash
    BY <1>1, <1>6, <2>1, <2>7 DEF OwnInv, FirstIsNoted, OneSignalContext
  <2>9. MachKinds' /\ TwoSteps' /\ PortsGiven'
    BY <1>2, <1>3, <2>4, <2>5, SameApps
       DEF OwnInv, MachKinds, TwoSteps, PortsGiven, Unstarted, Kind, Handlers
  <2>10. SecondWaits' /\ FirstIsNoted' /\ OneMachContext'
    BY <2>4 DEF SecondWaits, FirstIsNoted, OneMachContext, Kind, Routing, Disabling, Vulnerable
  <2>11. SecondIsNested'
    <3>1. pc[Pri] # "dead" /\ pc[Pri] \notin Disabling
      BY <1>1, <2>1 DEF Vulnerable, Disabling
    <3> QED
      BY <1>2, <2>4, <2>5, <2>6, <3>1 DEF OwnInv, SecondIsNested, Resuming
  <2>12. CrashIsNested'
    <3>1. "signal" \in Monitored
      BY <1>6 DEF TypeInv, TypeOK, ReporterOK
    <3> QED
      BY <1>2, <2>4, <2>6, <2>8, <3>1 DEF CrashIsNested, Vulnerable, Resuming
  <2>13. OneSignalContext'
    BY <1>2, <2>4, <2>5, <2>8, SameApps DEF OneSignalContext, Kind
  <2> QED
    BY <2>9, <2>10, <2>11, <2>12, <2>13 DEF OwnInv
<1> QED
  BY <1>5, <1>6

\* A Mach thread replies to the exception, or finds no signal handler for its crash.
LEMMA LeaveOwn ==
  ASSUME TypeInv, StopInv, FlagInv, OwnInv, NEW t \in Handlers, Leave(t)
  PROVE  OwnInv'
<1>1. /\ pc \in [Threads -> Labels] /\ t \in Threads /\ frame[t].served \in Threads
      /\ Pri \in Handlers /\ Sec \in Handlers /\ pc[t] = "leave" /\ t \notin AppThreads
  BY FrameFields, ThreadsAssumption
     DEF TypeInv, TypeOK, ThreadsOK, Threads, Handlers, Leave, At
<1>2. UNCHANGED <<susp, enabled, handling, crashedDuring, ports, known, busy>>
  BY DEF Leave, coreVars, machVars
<1>3. CASE Kind(t) = "mach"
  <2> DEFINE v == frame[t].served
  <2>1. frame' = frame
    BY <1>3 DEF Leave
  <2>2. \/ pc' = [pc EXCEPT ![t] = "done"]
        \/ pc[v] = "blocked" /\ pc' = [pc EXCEPT ![t] = "done", ![v] = "signalled"]
    BY <1>3 DEF Leave, Goto
  <2>3. pc[v] = "blocked" => v \notin Handlers
    BY DEF OwnInv, MachKinds
  <2>4. /\ pc'[t] = "done" /\ AppsStay
        /\ \A h \in Handlers \ {t} : pc'[h] = pc[h]
    BY <1>1, <2>1, <2>2, <2>3 DEF AppsStay, Threads
  <2>5. HandlerMove(t)
    BY <1>1, <1>2, <2>1, <2>4 DEF HandlerMove, HandlerPath, Switches
  <2>6. ASSUME NEW w \in Threads PROVE Held(w)' \subseteq Held(w)
    <3>1. pc'[w] = pc[w] \/ pc'[w] \in {"done", "signalled"}
      BY <2>4 DEF AppsStay, Threads
    <3> QED
      BY <2>1, <3>1 DEF Held, Capturing, Vulnerable
  <2>7. Margin => Margin'
    BY <1>2, <2>6, MarginStays
  <2> QED
    BY <2>5, <2>7, SecondOwn, PrimaryOwn DEF Handlers, TypeInv, TypeOK, ReporterOK
<1>4. CASE Kind(t) # "mach"
  <2>1. t = Pri /\ Kind(Pri) = "signal"
    BY <1>1, <1>4 DEF OwnInv, MachKinds, Unstarted, FlagInv, KindsOK, Handlers
  <2>2. enabled = {}
    BY <1>1, <2>1 DEF OwnInv, CrashIsNested, Crashing, Resuming
  <2>3. Signal(t, frame[t].ev)
    BY <2>1 DEF Leave
  <2>4. UNCHANGED <<pc, frame>>
    BY <2>2, <2>3 DEF Signal
  <2> QED
    BY <1>2, <2>4, NothingOwn DEF AppsStay, Switches
<1> QED
  BY <1>3, <1>4

\* Initially the secondary thread is parked, or there is no Mach thread.
LEMMA InitOwn == Init => OwnInv
<1> SUFFICES ASSUME Init PROVE OwnInv
  OBVIOUS
<1>1. /\ \A t \in Threads : frame[t] = IdleFrame(t) /\ frame[t].kind = "signal"
      /\ \A t \in AppThreads : pc[t] = "idle"
      /\ pc[Pri] \in {"wait", "done"} /\ pc[Sec] \in {"parked", "done"}
  BY ThreadsAssumption DEF Init, IdleFrame, Threads, Handlers
<1>2. Pri \in Threads /\ Sec \in Threads /\ AppThreads \subseteq Threads
  BY DEF Threads, Handlers
<1>3. MachKinds
  BY <1>1, <1>2 DEF MachKinds, Unstarted, Kind, Handlers
<1>4. TwoSteps /\ PortsGiven
  BY <1>1, <1>2
     DEF Init, TwoSteps, PortsGiven, Unstarted, Crashing, Vulnerable, Handlers
<1>5. SecondWaits /\ FirstIsNoted /\ OneMachContext
  BY <1>1, <1>2 DEF SecondWaits, FirstIsNoted, OneMachContext, Unstarted, Kind
<1>6. SecondIsNested /\ CrashIsNested
  BY <1>1, <1>2 DEF SecondIsNested, CrashIsNested, Crashing, Entering, Vulnerable
<1>7. OneSignalContext
  BY <1>1, <1>2
     DEF OneSignalContext, Crashing, Clash, Noted, Capturing, Vulnerable, Kind
<1> QED
  BY <1>3, <1>4, <1>5, <1>6, <1>7 DEF OwnInv

\* Every step keeps OwnInv.
LEMMA NextOwn ==
  ASSUME LateThreads = {}
  PROVE  TypeInv /\ StopInv /\ FlagInv /\ OwnInv /\ [Next]_vars => OwnInv'
<1> SUFFICES ASSUME TypeInv, StopInv, FlagInv, OwnInv, [Next]_vars PROVE OwnInv'
  OBVIOUS
<1>1. CASE UNCHANGED vars
  BY <1>1, NothingOwn
     DEF vars, threadVars, coreVars, machVars, AppsStay, Switches
<1>2. ASSUME NEW t \in AppThreads, Step(t) \/ Env(t) PROVE OwnInv'
  <2>1. t \in Threads /\ t \notin Handlers /\ ~Spawn(t)
    BY ThreadsAssumption DEF Threads, Handlers, Spawn
  <2>2. CASE CaptureAction(t)
    BY <2>2, AppCapture
  <2>3. CASE Suspend(t)
    BY <2>1, <2>3, SuspendOwn
  <2>4. CASE ~CaptureAction(t) /\ ~Suspend(t)
    BY <1>2, <2>1, <2>4, AppHandler, AppEvent DEF Step, Env, CaptureAction, Receive
  <2> QED
    BY <2>2, <2>3, <2>4
<1>3. ASSUME NEW t \in Handlers, Step(t) \/ Env(t) PROVE OwnInv'
  <2>1. t \in Threads /\ t \notin AppThreads
    BY ThreadsAssumption DEF Threads, Handlers
  <2>2. ~Spawn(t) /\ (\A o \in Origins : ~NewEventOn(t, o)) /\ ~Deliver(t)
    BY <2>1, ThreadsAssumption DEF Spawn, NewEventOn, Deliver, At, OwnInv, MachKinds
  <2>3. CASE PlainAction(t)
    BY <2>3, PlainOwn
  <2>4. CASE ~PlainAction(t)
    BY <1>3, <2>1, <2>2, <2>4, SuspendOwn, MarkFatalOwn, DisableMachOwn, UninstallMachOwn,
       DisableOthersOwn, ActivateSecondaryOwn, HandlerFaultOwn, LeaveOwn
       DEF Step, Env, PlainAction, WritingAction
  <2> QED
    BY <2>3, <2>4
<1> QED
  BY <1>1, <1>2, <1>3 DEF Next, Rest, Threads

(***************************************************************************)
(* The contexts.                                                           *)
(***************************************************************************)
\* Labels at which a handler has filled its context.
Filled == Vulnerable \ {"fill"}

\* Every handler that has filled its context finds its own event there.
OwnEvents == \A t \in Threads : pc[t] \in Filled => ctx[Ctx(t)].event = frame[t].ev

\* Two threads of which one fills its context do not share it.
LEMMA NoSharing ==
  ASSUME TypeInv, StopInv, FlagInv, OwnInv, NEW t \in Threads, NEW u \in Threads \ {t},
         At(t, "fill"), pc[u] \in Vulnerable
  PROVE  Ctx(t) # Ctx(u)
<1>1. Kind(t) \in Kinds /\ Kind(u) \in Kinds
  BY FrameFields DEF Kind, TypeInv, TypeOK
<1>2. t \notin Monitors /\ u \notin Monitors
  BY ThreadsAssumption
<1>3. \A k \in Kinds \ UserKinds : MonitorOf(k) \in Monitors
  BY DEF MonitorOf, Kinds, UserKinds, Monitors
<1>4. CASE Kind(t) \in UserKinds \/ Kind(u) \in UserKinds
  BY <1>1, <1>2, <1>3, <1>4 DEF Ctx
<1>5. CASE Kind(t) \notin UserKinds /\ Kind(u) \notin UserKinds
  <2>1. /\ Ctx(t) = MonitorOf(Kind(t)) /\ Ctx(u) = MonitorOf(Kind(u))
        /\ Kind(t) \in Suspends /\ Kind(u) \in Suspends
    BY <1>1, <1>5 DEF Ctx, Suspends, UserKinds
  <2>2. pc[t] \in Capturing /\ pc[u] \in Capturing /\ susp[t] = 0 /\ pc[t] \in Vulnerable
    BY DEF At, Running, Capturing, Vulnerable
  <2>3. CASE t \in AppThreads /\ u \in AppThreads
    BY <2>1, <2>2, <2>3 DEF FlagInv, OneCapture
  <2>4. CASE t \in AppThreads /\ u \in Handlers
    BY <2>2, <2>4, MachCaptureStops
  <2>5. CASE t \in Handlers /\ u \in AppThreads
    <3>1. Kind(t) \in {"mach", "signal"} /\ Kind(u) # "mach"
      BY <2>5 DEF FlagInv, KindsOK, OwnInv, MachKinds
    <3>2. CASE Kind(t) = "mach"
      BY <1>1, <2>1, <3>1, <3>2 DEF MonitorOf, Kinds, UserKinds
    <3>3. CASE Kind(t) = "signal" /\ Kind(u) = "signal"
      <4>1. t = Pri /\ Crashing /\ pc[Pri] \notin Resuming
        BY <2>2, <2>5, <3>3
           DEF OwnInv, MachKinds, Unstarted, Crashing, Resuming, Vulnerable, Handlers
      <4>2. Clash
        BY <2>5, <3>3 DEF Clash
      <4> QED
        BY <4>1, <4>2 DEF OwnInv, OneSignalContext
    <3>4. CASE Kind(t) = "signal" /\ Kind(u) # "signal"
      BY <1>1, <2>1, <3>1, <3>4 DEF MonitorOf, Kinds, UserKinds
    <3> QED
      BY <3>1, <3>2, <3>3, <3>4
  <2>6. CASE t \in Handlers /\ u \in Handlers
    <3>1. {Kind(t), Kind(u)} \subseteq {"mach", "signal"}
      BY <2>6 DEF FlagInv, KindsOK
    <3>2. pc[Pri] \in Vulnerable /\ pc[Sec] \in Vulnerable
      BY <2>2, <2>6 DEF Handlers
    <3>3. Kind(Sec) = "mach"
      BY <3>2 DEF OwnInv, MachKinds, Unstarted, Vulnerable
    <3>4. Kind(Pri) # "mach"
      BY <3>2 DEF OwnInv, OneMachContext, Unstarted, Vulnerable, Entering
    <3>5. Kind(Pri) = "signal"
      BY <2>6, <3>1, <3>3, <3>4 DEF Handlers
    <3> QED
      BY <2>1, <2>6, <3>3, <3>5 DEF MonitorOf, UserKinds, Handlers
  <2> QED
    BY <2>3, <2>4, <2>5, <2>6 DEF Threads
<1> QED
  BY <1>4, <1>5

\* In this step thread u fills no context, and handles the event it handled before.
Refills(u) ==
  pc'[u] \in Filled =>
    pc[u] \in Filled /\ frame'[u].kind = frame[u].kind /\ frame'[u].ev = frame[u].ev

\* Then what is in the contexts stays true.
LEMMA RefillStep ==
  ASSUME OwnEvents, \A u \in Threads : Refills(u),
         \A c \in Contexts : ctx'[c].event = ctx[c].event, TypeInv
  PROVE  OwnEvents'
<1> SUFFICES ASSUME NEW u \in Threads, pc'[u] \in Filled
             PROVE  ctx'[Ctx(u)'].event = frame'[u].ev
  BY DEF OwnEvents
<1>1. pc[u] \in Filled /\ Ctx(u)' = Ctx(u) /\ frame'[u].ev = frame[u].ev
  BY DEF Refills, Ctx, Kind
<1>2. Ctx(u) \in Contexts
  BY CtxType DEF TypeInv, TypeOK
<1> QED
  BY <1>1, <1>2 DEF OwnEvents

\* A step of the capture other than FillContext.
LEMMA CaptureRefills ==
  ASSUME TypeInv, NEW t \in Threads, CaptureAction(t), ~FillContext(t)
  PROVE  /\ \A u \in Threads : Refills(u)
         /\ \A c \in Contexts : ctx'[c].event = ctx[c].event
<1>1. CaptureMove(t)
  BY CaptureMoves
<1>2. pc \in [Threads -> Labels]
  BY DEF TypeInv, TypeOK, ThreadsOK
<1>3. pc'[t] \in Filled => pc[t] \in Filled
  <2>1. CASE NotifyFatal(t) \/ MarkFatal(t) \/ DisableMach(t)
    BY <1>2, <2>1
       DEF NotifyFatal, MarkFatal, DisableMach, Goto, Filled, Vulnerable
  <2>2. CASE DisableOthers(t)
    BY <1>2, <2>2, FrameFields
       DEF DisableOthers, Goto, Filled, Vulnerable, TypeInv, TypeOK
  <2>3. CASE pc[t] \in Filled
    BY <2>3
  <2> QED
    BY <2>1, <2>2, <2>3
       DEF CaptureAction, HandleException, NoteCrash, ChoosePath, CreateReport, WriteReport,
       RenameOld, CreateRecrash, EmbedOld, RemoveOld, WriteRecrash, Conclude, At, Filled,
       Vulnerable
<1>4. \A c \in Contexts : ctx'[c].event = ctx[c].event
  <2>1. CASE HandleException(t)
    BY <2>1 DEF HandleException, TypeInv, TypeOK, ReporterOK
  <2>2. CASE ctx' = ctx
    BY <2>2
  <2> QED
    BY <2>1, <2>2
       DEF CaptureAction, NotifyFatal, MarkFatal, DisableMach, DisableOthers, NoteCrash,
       ChoosePath, CreateReport, WriteReport, RenameOld, CreateRecrash, EmbedOld, RemoveOld,
       WriteRecrash, Conclude
<1> QED
  BY <1>1, <1>3, <1>4 DEF CaptureMove, Refills

\* FillContext: the thread fills its own context.
LEMMA FillContextOwns ==
  ASSUME TypeInv, StopInv, FlagInv, OwnInv, OwnEvents, NEW t \in Threads, FillContext(t)
  PROVE  OwnEvents'
<1>1. CaptureMove(t) /\ At(t, "fill")
  BY CaptureMoves DEF CaptureAction, FillContext
<1>2. \A u \in Threads : Ctx(u)' = Ctx(u) /\ frame'[u].ev = frame[u].ev /\ Ctx(u) \in Contexts
  BY <1>1, CtxType DEF FillContext, Ctx, Kind, TypeInv, TypeOK
<1>3. /\ ctx'[Ctx(t)].event = frame[t].ev
      /\ \A c \in Contexts \ {Ctx(t)} : ctx'[c] = ctx[c]
  BY <1>2 DEF FillContext, TypeInv, TypeOK, ReporterOK
<1>4. ASSUME NEW u \in Threads \ {t}, pc'[u] \in Filled
      PROVE  ctx'[Ctx(u)'].event = frame'[u].ev
  <2>1. pc[u] \in Filled
    BY <1>1, <1>4 DEF CaptureMove
  <2>2. Ctx(u) # Ctx(t)
    BY <1>1, <2>1, NoSharing DEF Filled
  <2> QED
    BY <1>2, <1>3, <2>1, <2>2 DEF OwnEvents
<1> QED
  BY <1>2, <1>3, <1>4 DEF OwnEvents

\* A signal, a fault or a handler that starts fills no context.
LEMMA StartRefills ==
  ASSUME TypeInv, NEW t \in Threads, NEW e \in EventIds,
         Fault(t, e) \/ Signal(t, e) \/ \E k \in Kinds : Start(t, k, e)
  PROVE  \A u \in Threads : Refills(u)
<1>1. pc \in [Threads -> Labels] /\ frame \in [Threads -> Frames]
  BY DEF TypeInv, TypeOK, ThreadsOK
<1>2. CASE UNCHANGED <<pc, frame>>
  BY <1>2 DEF Refills
<1>3. CASE \E k \in Kinds : Start(t, k, e)
  BY <1>1, <1>3 DEF Start, Entry, Refills, Filled, Vulnerable
<1>4. CASE /\ pc' = [pc EXCEPT ![t] = "blocked"]
           /\ frame' = [frame EXCEPT ![t] = [IdleFrame(t) EXCEPT !.ev = e]]
  BY <1>1, <1>4 DEF Refills, Filled, Vulnerable
<1> QED
  BY <1>2, <1>3, <1>4 DEF Fault, Signal, Kinds

\* No other step fills one.
LEMMA OtherRefills ==
  ASSUME TypeInv, NEW t \in Threads, Step(t) \/ Env(t), ~CaptureAction(t)
  PROVE  (\A u \in Threads : Refills(u)) /\ ctx' = ctx
<1>1. /\ pc \in [Threads -> Labels] /\ frame \in [Threads -> Frames]
      /\ frame[t].ev \in EventIds
  BY FrameFields DEF TypeInv, TypeOK, ThreadsOK
<1>2. CASE \/ Enter(t) \/ ReadThreadList(t) \/ CallSuspend(t) \/ Suspend(t) \/ EndSuspend(t)
           \/ BeginResume(t) \/ Resume(t) \/ EndResume(t) \/ EndCancelled(t) \/ Receive(t)
  <2>1. /\ \A u \in Threads \ {t} : pc'[u] = pc[u] /\ frame'[u] = frame[u]
        /\ ctx' = ctx
    <3>1. CASE Suspend(t)
      BY <1>1, <3>1 DEF Suspend, Goto
    <3>2. CASE ~Suspend(t)
      BY <1>2, <3>2, PlainSame
         DEF PlainAction, Enter, ReadThreadList, CallSuspend, EndSuspend, BeginResume, Resume,
         EndResume, EndCancelled, Receive
    <3> QED
      BY <3>1, <3>2
  <2>2. pc'[t] \notin Filled
    BY <1>1, <1>2
       DEF Enter, ReadThreadList, CallSuspend, Suspend, EndSuspend, BeginResume, Resume,
       EndResume, EndCancelled, Receive, Goto, At, AfterSuspend, Filled, Vulnerable
  <2> QED
    BY <2>1, <2>2 DEF Refills
<1>3. CASE UninstallMach(t) \/ ActivateSecondary(t)
  <2>1. /\ \A u \in Threads : pc'[u] = pc[u] \/ pc'[u] \in {"mask", "dead", "fill", "wait"}
        /\ frame' = frame /\ ctx' = ctx
    BY <1>1, <1>3 DEF UninstallMach, ActivateSecondary, Goto
  <2> QED
    BY <2>1 DEF Refills, Filled, Vulnerable
<1>4. CASE Leave(t)
  <2>1. CASE /\ frame' = frame
             /\ \A u \in Threads : pc'[u] = pc[u] \/ pc'[u] \in {"idle", "done", "signalled"}
    BY <1>4, <2>1 DEF Leave, Refills, Filled, Vulnerable
  <2>2. CASE Signal(t, frame[t].ev) \/ Start(t, "nsexception", frame[t].ev)
    BY <1>1, <1>4, <2>2, StartRefills DEF Leave, Kinds
  <2> QED
    BY <1>1, <1>4, <2>1, <2>2 DEF Leave, Goto
<1>5. CASE Deliver(t)
  BY <1>1, <1>5, StartRefills DEF Deliver
<1>6. CASE HandlerFault(t)
  <2>1. events + 1 \in EventIds
    BY <1>6, NewEventType DEF HandlerFault, TypeInv, TypeOK, FatalOrigins
  <2> QED
    BY <1>6, <2>1, StartRefills DEF HandlerFault
<1>7. CASE \E o \in Origins : NewEventOn(t, o)
  <2>1. PICK o \in Origins : NewEventOn(t, o)
    BY <1>7
  <2>2. events + 1 \in EventIds
    BY <2>1, NewEventType, MonitorsAssumption DEF NewEventOn, TypeInv, TypeOK
  <2> QED
    BY <2>1, <2>2, NewEventStarts, StartRefills DEF NewEventOn
<1>8. CASE Spawn(t)
  BY <1>8 DEF Spawn, threadVars, Refills
<1> QED
  BY <1>2, <1>3, <1>4, <1>5, <1>6, <1>7, <1>8 DEF Step, Env, CaptureAction

\* A report describes the event that caused it, if no thread is created after the
\* installation: for any number of threads that crash or report, any order of their
\* steps, and any number of crashes of the handlers of the two Mach threads, whose
\* contexts are the only ones that two handlers work on at a time.
THEOREM ReportsAreOwn ==
  ASSUME LateThreads = {} PROVE Spec => []ReportsOwnEvent
<1> DEFINE I == TypeInv /\ StopInv /\ FlagInv /\ OwnInv /\ OwnEvents
<1>1. Init => OwnEvents
  BY ThreadsAssumption DEF Init, OwnEvents, Filled, Vulnerable
<1>2. Init => I
  BY <1>1, InitType, InitStop, InitFlag, InitOwn
<1>3. I /\ [Next]_vars => OwnEvents'
  <2> SUFFICES ASSUME I, [Next]_vars PROVE OwnEvents'
    OBVIOUS
  <2>1. CASE UNCHANGED vars
    BY <2>1, RefillStep DEF vars, threadVars, Refills
  <2>2. ASSUME NEW t \in Threads, Step(t) \/ Env(t) PROVE OwnEvents'
    BY <2>2, FillContextOwns, CaptureRefills, OtherRefills, RefillStep
  <2> QED
    BY <2>1, <2>2 DEF Next, Rest
<1>4. I /\ [Next]_vars => I'
  BY <1>3, NextType, NextStop, NextFlag, NextOwn
<1>5. I => ReportsOwnEvent
  BY DEF OwnEvents, ReportsOwnEvent, Filled, TypeInv, TypeOK, ThreadsOK
<1> QED
  BY <1>2, <1>4, <1>5, PTL DEF Spec

=============================================================================
