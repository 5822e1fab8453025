------------------------- MODULE CrashReportProofs -------------------------
(***************************************************************************)
(* The reports of a process in which one thread of the application crashes  *)
(* or reports, for any number of crashes of the handlers.                   *)
(*                                                                         *)
(* The handlers of such a process follow one another (OneAtATime): the      *)
(* thread whose fault is in the port, or whose signal is pending, waits for  *)
(* the next handler.  So whatever a handler has read or filled stays as it   *)
(* is until its own next step, and the invariant says of the one thread that *)
(* is busy what its label allows (Busy(t) => ...).                          *)
(*                                                                         *)
(* OneReportOfCrash: RecordInv.  All reports of crashes are at lastPath      *)
(* while a fatal event is handled; a handler that chooses a new path has     *)
(* found none, because g_handlingFatalException was not set (WriterOK); and  *)
(* if no handler crashed, the monitors are uninstalled only after the report *)
(* of the crash is complete, which is what a process that dies of a signal   *)
(* has gone through (SavedOK).                                              *)
(*                                                                         *)
(* NothingWrittenIsLost: SurviveInv.  The events of the report that a      *)
(* recrash report replaces are on disk, in the file put aside or in the one*)
(* that embeds it, at every step of the rewriting (InFlight).  What could  *)
(* stop the rewriting is a second crash, which the property leaves out, or *)
(* the death of a Mach thread that another one cancels.  MachInv rules that*)
(* out: a Mach thread gives the ports up before it runs code that may crash,*)
(* and one that is cancelled or terminated runs no handler (MachLabels,    *)
(* PortsOK).                                                               *)
(***************************************************************************)
EXTENDS CrashHandlingProofs

OneSource == \A t, u \in Sources : t = u

\* The monitors without which a crash ends the process, or a report returns, unseen.
LastResort == {"signal", "user"} \subseteq Monitored

(***************************************************************************)
(* One handler at a time.                                                  *)
(***************************************************************************)
AtRest == {"idle", "wait", "parked", "done", "dead", "blocked"}

\* Thread t runs a handler, or is the next one to have one run.
Busy(t) == t \in queue \/ pc[t] \notin AtRest

OneAtATime ==
  /\ \A t, u \in Threads : Busy(t) /\ Busy(u) => t = u
  /\ \A u \in queue : pc[u] = "blocked"
  /\ \A s \in Sources : pc[s] = "idle" => \A t \in Threads : ~Busy(t)

(***************************************************************************)
(* What has happened.                                                      *)
(***************************************************************************)
Crashed == \E e \in 1 .. events : Fatal(e)

CrashReports == {i \in ReportIds : files[i].state # "none" /\ Fatal(files[i].of)}

Saved == \E i \in FullReports : Fatal(files[i].of)

\* Events are numbered as they happen.
NumbersOK ==
  /\ \A t \in Threads : frame[t].ev <= events
  /\ \A c \in Contexts : ctx[c].event <= events
  /\ \A i \in ReportIds : files[i].of <= events

\* A thread that waits for the handler of its fault has crashed.
WaitingOK ==
  \A t \in Threads : pc[t] = "blocked" => Kind(t) = "signal" /\ Fatal(frame[t].ev)

\* Labels before and after the handler has set g_handlingFatalException.
Before == {"blocked", "enter", "suspend", "suspending", "inKernel", "notify"}
Ending == {"signalled", "resume", "resuming", "leave"}

\* A report that returns leaves the reporter as it was.
ReportOK(t) ==
  Kind(t) \in NonFatalOrigins =>
    /\ ~Crashed /\ ~crashedDuring /\ enabled = Monitored
    /\ handling => Kind(t) = "snapshot" /\ pc[t] \in Noted
    /\ pc[t] = "mark" => ~frame[t].was
    /\ pc[t] \notin {"blocked", "signalled"} \cup Disabling
    /\ pc[t] \in {"notify", "mark", "leave"} => Kind(t) = "snapshot"

\* Any other handler is there for a crash, and has said so before it writes.
CrashOK(t) ==
  Kind(t) \notin NonFatalOrigins =>
    /\ Fatal(frame[t].ev)
    /\ Kind(t) = "objc" => pc[t] \notin Capturing /\ ~handling
    /\ Kind(t) \in UserKinds /\ pc[t] = "enter" => "user" \in enabled
    /\ pc[t] \in Noted => handling

\* A new path is chosen only while there is no report of a crash.
WriterOK(t) ==
  /\ pc[t] \in Disabling /\ frame[t].after # "resume" => crashedDuring
  /\ pc[t] = "mark" /\ ~frame[t].was /\ ~crashedDuring => CrashReports = {}
  /\ pc[t] \in {"route", "fill", "event", "note"} /\ ~crashedDuring => CrashReports = {}
  /\ pc[t] = "note" /\ crashedDuring => ctx[Ctx(t)].recrash
  /\ pc[t] \in {"choose", "create"} => CrashReports = {}
  /\ pc[t] \in {"create", "body", "reopen"} => frame[t].path = lastPath
  /\ pc[t] \in Vulnerable \ {"fill"} =>
       /\ ctx[Ctx(t)].event = frame[t].ev
       /\ ctx[Ctx(t)].snapshot <=> Kind(t) = "snapshot"

\* If no handler crashed, a crash is noted once and its report is on the way.
SavedOK(t) ==
  nested = 0 =>
    /\ pc[t] \in Before => ~handling
    /\ pc[t] \in Ending /\ handling => "signal" \notin enabled
    /\ pc[t] = "mark" => ~frame[t].was
    /\ pc[t] \notin {"rename", "reopen", "embed", "discard", "rebody"}
    /\ pc[t] = "create" => files[frame[t].path].state = "none"
    /\ pc[t] = "body" => files[frame[t].path].of = frame[t].ev
    /\ pc[t] = "conclude" /\ Kind(t) \notin NonFatalOrigins => Saved
    /\ pc[t] \in Disabling => Saved

BusyOK(t) == ReportOK(t) /\ CrashOK(t) /\ WriterOK(t) /\ SavedOK(t)

\* While the application runs, the reporter is as it was installed.
IdleOK ==
  \A s \in Sources : pc[s] = "idle" =>
    ~Crashed /\ ~handling /\ ~crashedDuring /\ enabled = Monitored

\* All reports of crashes are one, that of the crash that is being handled.
FilesOK ==
  /\ \A i \in ReportIds : files[i].state = "none" => files[i].of = 0
  /\ CrashReports # {} => handling
  /\ CrashReports \subseteq {lastPath}
  /\ lastPath < nextId

\* If no handler crashed, the process is only defenceless once the crash is saved.
DeathOK ==
  /\ ~alive => "signal" \notin enabled
  /\ nested = 0 =>
       /\ ~crashedDuring /\ \A c \in Contexts : ~ctx[c].recrash
       /\ "signal" \notin enabled => Saved
       /\ \A i \in ReportIds : i >= nextId => files[i].state = "none"

RecordInv ==
  /\ OneAtATime /\ NumbersOK /\ WaitingOK /\ IdleOK /\ FilesOK /\ DeathOK
  /\ \A t \in Threads : Busy(t) => BusyOK(t)

(***************************************************************************)
(* What was written.                                                       *)
(***************************************************************************)
Rewriting == {"reopen", "embed", "discard", "rebody"}

\* Event e can be read from a complete report, ...
Kept(e) == \E i \in FullReports : e = files[i].of \/ e \in files[i].old

\* ... or from what thread t is turning into one.
InFlight(t, e) ==
  \/ pc[t] \in {"reopen", "embed"} /\ e \in Embedded(aside[frame[t].path])
  \/ pc[t] \in {"discard", "rebody"} /\ e \in files[frame[t].path].old

\* Where the primary Mach thread can be before it gives up the exception ports.
MachLabels == {"wait", "done", "enter", "suspend", "suspending", "inKernel", "notify",
               "mark", "disable", "uninstall", "route", "leave"}

\* While the exception ports are ours, only the primary Mach thread handles exceptions,
\* and it gives them up before it runs code that may crash.
PortsOK ==
  ports =>
    /\ pc[Sec] = "parked" /\ Pri \in known
    /\ pc[Pri] \in MachLabels /\ (pc[Pri] # "wait" => Kind(Pri) = "mach")
    /\ "mach" \in enabled \/ \E t \in Threads : pc[t] = "uninstall"
    /\ \A t \in Threads : pc[t] # "mask"

\* So no Mach thread waits for the handler of its own fault, and one that is cancelled
\* runs no handler any more.
MachInv ==
  /\ PortsOK
  /\ \A h \in Handlers : pc[h] # "blocked"
  /\ \A h \in cancelled : ~Busy(h)
  /\ cancelled # {} => ~ports /\ queue = {}

\* A report that is being rewritten is put aside, then opened anew.
RewriteOK(t) ==
  /\ pc[t] = "reopen" => files[frame[t].path].state = "none"
  /\ pc[t] \in {"embed", "discard", "rebody"} => files[frame[t].path].state = "open"

\* What one crash of a handler may undo is only in flight.
SurviveInv ==
  /\ \A t \in Threads : RewriteOK(t)
  /\ nested <= 1 =>
       /\ \A e \in written : Kept(e) \/ \E t \in Threads : InFlight(t, e)
       /\ ~alive => \A t \in Threads : pc[t] \notin Rewriting

(***************************************************************************)
(* Lemmas: one handler at a time.                                          *)
(***************************************************************************)
\* No thread but t is busy.
Alone(t) == \A u \in Threads \ {t} : ~Busy(u)

\* A thread that runs a handler is alone, and no thread that crashes is idle.
LEMMA MoverIsAlone ==
  ASSUME TypeInv, OneAtATime, NEW t \in Threads, pc[t] \notin AtRest
  PROVE  /\ queue = {} /\ Alone(t)
         /\ \A u \in Threads \ {t} : pc[u] \in AtRest
         /\ \A s \in Sources : pc[s] # "idle"
<1>1. Busy(t) /\ Alone(t)
  BY DEF Busy, Alone, OneAtATime
<1>2. queue = {}
  <2> SUFFICES ASSUME NEW u \in queue PROVE FALSE
    OBVIOUS
  <2>1. u \in Threads
    BY DEF TypeInv, TypeOK, ReporterOK
  <2>2. u = t
    BY <1>1, <2>1 DEF Busy, OneAtATime
  <2> QED
    BY <2>2 DEF OneAtATime, AtRest
<1> QED
  BY <1>1, <1>2 DEF Alone, Busy, OneAtATime

\* After a step that only one thread may leave busy, there is one at a time again.
LEMMA OneStaysAlone ==
  ASSUME OneSource, NEW t \in Threads,
         queue' \subseteq {t}, t \in queue' => pc'[t] = "blocked",
         \A u \in Threads \ {t} : pc'[u] \in AtRest,
         \A s \in Sources \ {t} : pc'[s] # "idle"
  PROVE  OneAtATime' /\ Alone(t)'
<1>1. Alone(t)'
  BY DEF Alone, Busy
<1>2. \A s \in Sources : pc'[s] = "idle" => \A u \in Threads : ~Busy(u)'
  BY <1>1 DEF Busy, Alone, AtRest
<1> QED
  BY <1>1, <1>2 DEF OneAtATime, Alone

\* A step of the thread that runs a handler: the others stay at rest.
LEMMA PlainAlone ==
  ASSUME TypeInv, OneSource, OneAtATime, NEW t \in Threads, pc[t] \notin AtRest,
         queue' = queue,
         \A u \in Threads \ {t} : pc'[u] = pc[u] \/ pc'[u] \in {"dead", "wait"}
  PROVE  OneAtATime' /\ Alone(t)' /\ \A s \in Sources \ {t} : pc'[s] # "idle"
<1>1. /\ queue = {} /\ \A u \in Threads \ {t} : pc[u] \in AtRest
      /\ \A s \in Sources : pc[s] # "idle"
  BY MoverIsAlone
<1>2. \A u \in Threads \ {t} : pc'[u] \in AtRest
  BY <1>1 DEF AtRest
<1>3. \A s \in Sources \ {t} : pc'[s] # "idle"
  BY <1>1, ThreadsAssumption DEF Threads
<1> QED
  BY <1>1, <1>2, <1>3, OneStaysAlone

(***************************************************************************)
(* Lemmas: what the invariant is made of.                                  *)
(***************************************************************************)
\* What has happened stays so.
LEMMA SameEvents ==
  ASSUME UNCHANGED <<events, origin>>
  PROVE  (\A e : Fatal(e)' <=> Fatal(e)) /\ (Crashed' <=> Crashed)
BY DEF Fatal, Crashed

\* The reports of crashes depend on the files alone.
LEMMA SameReports ==
  ASSUME UNCHANGED <<files, events, origin>>
  PROVE  CrashReports' = CrashReports /\ (Saved' <=> Saved)
BY DEF CrashReports, Saved, FullReports, Fatal

\* A report of a crash is of an event that has happened.
LEMMA ReportsAreOfEvents ==
  ASSUME TypeInv, NumbersOK, ~Crashed
  PROVE  CrashReports = {} /\ \A t \in Threads : ~Fatal(frame[t].ev)
<1>1. \A e \in EventIds : e <= events => ~Fatal(e)
  BY BoundsAssumption DEF Crashed, Fatal, EventIds, TypeInv, TypeOK, HistoryOK
<1>2. \A i \in ReportIds : files[i].of \in EventIds
  BY FileFields DEF TypeInv, TypeOK
<1>3. \A t \in Threads : frame[t].ev \in EventIds
  BY FrameFields DEF TypeInv, TypeOK
<1> QED
  BY <1>1, <1>2, <1>3 DEF CrashReports, NumbersOK

\* The part of the state that the invariant reads, besides where the threads are.
reporterVars == <<handling, crashedDuring, enabled, alive, ctx, files, lastPath, nextId,
                events, nested, origin>>

\* A step that changes none of it.
LEMMA SameRecord ==
  ASSUME RecordInv, UNCHANGED reporterVars, \A t \in Threads : frame'[t].ev <= events
  PROVE  NumbersOK' /\ FilesOK' /\ DeathOK'
<1>1. /\ CrashReports' = CrashReports /\ (Saved' <=> Saved)
      /\ UNCHANGED <<handling, crashedDuring, enabled, alive, ctx, files, lastPath, nextId,
                     events, nested>>
  BY SameReports DEF reporterVars
<1>2. NumbersOK'
  BY <1>1 DEF RecordInv, NumbersOK
<1>3. FilesOK'
  BY <1>1 DEF RecordInv, FilesOK
<1>4. DeathOK'
  BY <1>1 DEF RecordInv, DeathOK
<1> QED
  BY <1>2, <1>3, <1>4

\* A step of the thread that runs a handler keeps the invariant, if it leaves the
\* thread, the files and the defence of the process in order.
LEMMA PlainStep ==
  ASSUME TypeInv, OneSource, RecordInv, NEW t \in Threads, pc[t] \notin AtRest,
         pc'[t] # "blocked", queue' = queue,
         \A u \in Threads \ {t} : /\ pc'[u] = pc[u] \/ pc'[u] \in {"dead", "wait"}
                                  /\ frame'[u] = frame[u],
         UNCHANGED <<events, origin>>,
         NumbersOK', FilesOK', DeathOK', pc'[t] \notin AtRest => BusyOK(t)',
         pc'[t] = "idle" => ~Crashed /\ ~handling' /\ ~crashedDuring' /\ enabled' = Monitored
  PROVE  RecordInv'
<1>1. OneAtATime' /\ Alone(t)' /\ \A s \in Sources \ {t} : pc'[s] # "idle"
  BY PlainAlone DEF RecordInv
<1>2. \A u \in Threads : Busy(u)' => BusyOK(u)'
  <2>1. queue = {}
    BY MoverIsAlone DEF RecordInv
  <2> QED
    BY <1>1, <2>1 DEF Alone, Busy
<1>3. IdleOK'
  BY <1>1, SameEvents DEF IdleOK
<1>4. WaitingOK'
  BY SameEvents DEF RecordInv, WaitingOK, Kind
<1> QED
  BY <1>1, <1>2, <1>3, <1>4 DEF RecordInv

(***************************************************************************)
(* Steps outside of the reporting itself: suspension and resumption.        *)
(***************************************************************************)
\* The ways of a handler before it notes its crash and after it has concluded.
Passes(t) ==
  \/ pc[t] = "enter" /\ pc'[t] = "idle" /\ Kind(t) \in UserKinds /\ "user" \notin enabled
  \/ pc[t] = "enter" /\ pc'[t] = "leave" /\ Kind(t) \notin UserKinds
  \/ pc[t] = "enter" /\ pc'[t] = "suspend"
  \/ pc[t] = "enter" /\ pc'[t] = "notify" /\ Kind(t) = "userFatal"
  \/ pc[t] = "enter" /\ pc'[t] = "fill" /\ Kind(t) = "user"
  \/ pc[t] = "suspend" /\ pc'[t] = "suspending"
  \/ pc[t] = "suspending" /\ pc'[t] = "inKernel"
  \/ pc[t] = "inKernel" /\ pc'[t] = "suspending"
  \/ pc[t] = "suspending" /\ pc'[t] = AfterSuspend(Kind(t))
  \/ pc[t] = "route" /\ pc'[t] = "fill"
  \/ pc[t] = "resume" /\ pc'[t] = "resuming"
  \/ pc[t] = "resuming" /\ pc'[t] = "resuming"
  \/ pc[t] = "resuming" /\ pc'[t] = "idle" /\ Kind(t) \in NonFatalOrigins
  \/ pc[t] = "resuming" /\ pc'[t] = "leave" /\ Kind(t) \notin NonFatalOrigins

PassLabels == {"enter", "suspend", "suspending", "inKernel", "route", "resume",
               "resuming"}

\* A step on these ways keeps the invariant.
LEMMA PassStep ==
  ASSUME TypeInv, OneSource, LastResort, RecordInv, NEW t \in Threads, Passes(t),
         queue' = queue,
         \A u \in Threads \ {t} : /\ pc'[u] = pc[u] \/ pc'[u] \in {"dead", "wait"}
                                  /\ frame'[u] = frame[u],
         frame'[t].kind = frame[t].kind, frame'[t].ev = frame[t].ev,
         frame'[t].was = frame[t].was, frame'[t].path = frame[t].path,
         UNCHANGED reporterVars
  PROVE  RecordInv'
<1>1. /\ pc[t] \in PassLabels /\ pc[t] \notin AtRest
      /\ pc'[t] \in PassLabels \cup {"idle", "leave", "notify", "fill"}
  BY DEF Passes, PassLabels, AfterSuspend, AtRest
<1>2. BusyOK(t) /\ NumbersOK
  BY <1>1 DEF RecordInv, Busy
<1>3. /\ UNCHANGED <<handling, crashedDuring, enabled, events, origin, nested>>
      /\ (\A e : Fatal(e)' <=> Fatal(e)) /\ (Crashed' <=> Crashed)
      /\ CrashReports' = CrashReports
  BY SameEvents, SameReports DEF reporterVars
<1>4. Kind(t)' = Kind(t) /\ Kind(t) \in Kinds
  BY FrameFields DEF Kind, TypeInv, TypeOK
<1>0. /\ pc[t] = "route" => pc'[t] = "fill"
      /\ pc'[t] = "fill" => pc[t] = "route" \/ Kind(t) \in {"user", "userAll"}
      /\ pc'[t] = "notify" => Kind(t) # "objc"
      /\ pc'[t] \notin {"enter", "route"}
      /\ pc'[t] = "idle" => \/ pc[t] = "resuming" /\ Kind(t) \in NonFatalOrigins
                            \/ /\ pc[t] = "enter" /\ Kind(t) \in UserKinds
                               /\ "user" \notin enabled
  BY <1>4 DEF Passes, AfterSuspend, Notifies, Kinds, UserKinds
<1>5. \A u \in Threads : frame'[u].ev <= events
  BY <1>2 DEF NumbersOK
<1>6. NumbersOK' /\ FilesOK' /\ DeathOK'
  BY <1>5, SameRecord
<1>7. Kind(t) \in NonFatalOrigins =>
        /\ ~Crashed /\ ~crashedDuring /\ enabled = Monitored /\ CrashReports = {}
        /\ handling => pc[t] = "route"
        /\ pc'[t] \in {"notify", "leave"} => Kind(t) = "snapshot"
  <2>1. Kind(t) \in NonFatalOrigins =>
          /\ ~Crashed /\ ~crashedDuring /\ enabled = Monitored
          /\ handling => pc[t] \in Noted
    BY <1>2 DEF BusyOK, ReportOK
  <2>2. Kind(t) \in NonFatalOrigins =>
          (pc'[t] \in {"notify", "leave"} => Kind(t) = "snapshot")
    BY <1>1 DEF Passes, NonFatalOrigins, UserKinds, AfterSuspend, Notifies, PassLabels
  <2> QED
    BY <1>1, <1>2, <2>1, <2>2, ReportsAreOfEvents
       DEF Noted, Capturing, Vulnerable, PassLabels
<1>8. pc'[t] # "idle" => ReportOK(t)'
  <2>1. handling /\ Kind(t) \in NonFatalOrigins => Kind(t) = "snapshot"
    BY <1>2 DEF BusyOK, ReportOK
  <2> QED
    BY <1>0, <1>1, <1>3, <1>4, <1>7, <2>1
       DEF ReportOK, Noted, Capturing, Vulnerable, PassLabels, Disabling
<1>9. pc'[t] # "idle" => CrashOK(t)'
  <2>1. Kind(t) \notin NonFatalOrigins =>
          /\ Fatal(frame[t].ev)
          /\ Kind(t) = "objc" => ~handling /\ pc[t] # "route"
          /\ pc[t] = "route" => handling
    BY <1>2 DEF BusyOK, CrashOK, Capturing, Vulnerable, Noted
  <2>2. pc'[t] \in Noted => pc'[t] = "fill"
    BY <1>0, <1>1 DEF PassLabels, Noted, Capturing, Vulnerable
  <2>3. pc'[t] \in Capturing => pc'[t] \in {"fill", "notify"}
    BY <1>0, <1>1 DEF PassLabels, Noted, Capturing, Vulnerable
  <2> QED
    BY <1>0, <1>3, <1>4, <2>1, <2>2, <2>3 DEF CrashOK, NonFatalOrigins
<1>10. pc'[t] # "idle" => WriterOK(t)'
  <2>1. pc'[t] = "fill" /\ ~crashedDuring => CrashReports = {}
    BY <1>0, <1>2, <1>7 DEF BusyOK, WriterOK, NonFatalOrigins
  <2> QED
    BY <1>0, <1>1, <1>3, <2>1 DEF WriterOK, PassLabels, Vulnerable, Disabling
<1>11. pc'[t] # "idle" => SavedOK(t)'
  <2>1. /\ pc'[t] \in Before => pc[t] \in Before
        /\ pc'[t] \in Ending => pc[t] \in Before \cup Ending
    BY <1>0, <1>1 DEF Passes, PassLabels, Before, Ending
  <2>2. nested = 0 => /\ pc[t] \in Before => ~handling
                      /\ pc[t] \in Ending /\ handling => "signal" \notin enabled
    BY <1>2 DEF BusyOK, SavedOK
  <2> QED
    BY <1>0, <1>1, <1>3, <2>1, <2>2 DEF SavedOK, PassLabels, Disabling
<1>12. pc'[t] = "idle" => ~Crashed /\ ~handling' /\ ~crashedDuring' /\ enabled' = Monitored
  <2>1. Kind(t) \in UserKinds /\ pc[t] = "enter" => "user" \in enabled
    BY <1>2, <1>7 DEF BusyOK, CrashOK, LastResort
  <2> QED
    BY <1>0, <1>3, <1>7, <2>1
<1>13. pc'[t] \notin AtRest => BusyOK(t)'
  BY <1>8, <1>9, <1>10, <1>11 DEF BusyOK, AtRest
<1>14. pc'[t] # "blocked" /\ UNCHANGED <<events, origin>>
  BY <1>1, <1>3 DEF PassLabels
<1> QED
  BY <1>1, <1>6, <1>12, <1>13, <1>14, PlainStep

\* The entry of a handler, the suspension and the resumption are such steps.
PassAction(t) ==
  \/ Enter(t) \/ ReadThreadList(t) \/ CallSuspend(t) \/ Suspend(t) \/ EndSuspend(t)
  \/ BeginResume(t) \/ Resume(t) \/ EndResume(t)

LEMMA EnterPasses ==
  ASSUME TypeInv, NEW t \in Threads, Enter(t)
  PROVE  Passes(t) /\ pc[t] = "enter"
<1>1. pc[t] = "enter"
  BY DEF Enter, At
<1>2. Kind(t) \in Kinds
  BY FrameFields DEF Kind, TypeInv, TypeOK
<1>3. Kind(t) \in UserKinds => MonitorOf(Kind(t)) = "user"
  BY DEF MonitorOf, UserKinds
<1>4. Kind(t) \notin Suspends =>
        \/ Kind(t) = "user" /\ AfterSuspend(Kind(t)) = "fill"
        \/ Kind(t) = "userFatal" /\ AfterSuspend(Kind(t)) = "notify"
  BY <1>2 DEF Suspends, AfterSuspend, Notifies, Kinds
<1>5. pc'[t] = IF MonitorOf(Kind(t)) \notin enabled
                 THEN IF Kind(t) \in UserKinds THEN "idle" ELSE "leave"
                 ELSE IF Kind(t) \in Suspends THEN "suspend" ELSE AfterSuspend(Kind(t))
  BY DEF Enter, Goto, TypeInv, TypeOK, ThreadsOK
<1>6. CASE MonitorOf(Kind(t)) \notin enabled
  BY <1>1, <1>3, <1>5, <1>6 DEF Passes
<1>7. CASE MonitorOf(Kind(t)) \in enabled
  BY <1>1, <1>4, <1>5, <1>7 DEF Passes
<1> QED
  BY <1>1, <1>6, <1>7

LEMMA PassMoves ==
  ASSUME TypeInv, NEW t \in Threads, PassAction(t)
  PROVE  /\ Passes(t) /\ pc[t] # "route"
         /\ UNCHANGED <<reporterVars, ports, known, cancelled, queue, aside, written>>
         /\ \A u \in Threads \ {t} : pc'[u] = pc[u] /\ frame'[u] = frame[u]
         /\ frame'[t].kind = frame[t].kind /\ frame'[t].ev = frame[t].ev
         /\ frame'[t].was = frame[t].was /\ frame'[t].path = frame[t].path
<1>1. UNCHANGED <<reporterVars, ports, known, cancelled, queue, aside, written>>
  BY DEF PassAction, Enter, ReadThreadList, CallSuspend, Suspend, EndSuspend,
     BeginResume, Resume, EndResume, reporterVars, coreVars, machVars, diskVars, envVars
<1>2. Passes(t) /\ pc[t] # "route"
  BY EnterPasses
     DEF PassAction, ReadThreadList, CallSuspend, Suspend, EndSuspend, BeginResume,
     Resume, EndResume, Passes, At, Goto, TypeInv, TypeOK, ThreadsOK
<1>3. \A u \in Threads \ {t} : pc'[u] = pc[u]
  BY DEF PassAction, Enter, ReadThreadList, CallSuspend, Suspend, EndSuspend,
     BeginResume, Resume, EndResume, Goto, TypeInv, TypeOK, ThreadsOK
<1>4. /\ \A u \in Threads \ {t} : frame'[u] = frame[u]
      /\ frame'[t].kind = frame[t].kind /\ frame'[t].ev = frame[t].ev
      /\ frame'[t].was = frame[t].was /\ frame'[t].path = frame[t].path
  <2>1. CASE CallSuspend(t)
    <3>1. PICK v \in frame[t].todo :
            frame' = [frame EXCEPT ![t].target = v, ![t].todo = @ \ {v}]
      BY <2>1 DEF CallSuspend
    <3> QED
      BY <3>1 DEF TypeInv, TypeOK, ThreadsOK, Frames
  <2>2. CASE ReadThreadList(t)
    BY <2>2 DEF ReadThreadList, TypeInv, TypeOK, ThreadsOK, Frames
  <2>3. CASE Enter(t) \/ Suspend(t) \/ EndSuspend(t) \/ EndResume(t)
    BY <2>3 DEF Enter, Suspend, EndSuspend, EndResume
  <2>4. CASE BeginResume(t) \/ Resume(t)
    BY <2>4 DEF BeginResume, Resume, TypeInv, TypeOK, ThreadsOK, Frames
  <2> QED
    BY <2>1, <2>2, <2>3, <2>4 DEF PassAction
<1> QED
  BY <1>1, <1>2, <1>3, <1>4

LEMMA PassRecord ==
  ASSUME TypeInv, OneSource, LastResort, RecordInv, NEW t \in Threads, PassAction(t)
  PROVE  RecordInv'
BY PassMoves, PassStep

\* ActivateSecondary.
LEMMA ActivateSecondaryRecord ==
  ASSUME TypeInv, OneSource, LastResort, RecordInv, NEW t \in Threads,
         ActivateSecondary(t)
  PROVE  RecordInv'
<1>1. pc[t] = "route" /\ UNCHANGED <<frame, queue, reporterVars>>
  BY DEF ActivateSecondary, At, reporterVars, coreVars, diskVars, envVars
<1>2. pc'[t] = "fill" /\ \A u \in Threads \ {t} : pc'[u] = pc[u] \/ pc'[u] = "wait"
  BY ThreadsAssumption
     DEF ActivateSecondary, Goto, TypeInv, TypeOK, ThreadsOK, Handlers, Threads
<1>3. Passes(t)
  BY <1>1, <1>2 DEF Passes
<1> QED
  BY <1>1, <1>2, <1>3, PassStep

(***************************************************************************)
(* The steps of the reporting.                                             *)
(***************************************************************************)
\* What a handler that reports knows, and what its steps leave alone.
LEMMA WriterKnows ==
  ASSUME TypeInv, RecordInv, NEW t \in Threads, CaptureAction(t)
  PROVE  /\ BusyOK(t) /\ NumbersOK /\ FilesOK /\ DeathOK
         /\ pc[t] \notin AtRest /\ pc'[t] \in Capturing \cup {"resume"}
         /\ Kind(t)' = Kind(t) /\ frame'[t].ev = frame[t].ev
         /\ \A u \in Threads : frame'[u].ev <= events
         /\ UNCHANGED <<queue, events, origin, nested, alive>>
         /\ (\A e : Fatal(e)' <=> Fatal(e)) /\ (Crashed' <=> Crashed)
<1>1. CaptureMove(t)
  BY CaptureMoves
<1>2. pc[t] \notin AtRest
  BY <1>1 DEF CaptureMove, AtRest, Capturing, Vulnerable
<1>3. BusyOK(t) /\ NumbersOK /\ FilesOK /\ DeathOK
  BY <1>2 DEF RecordInv, Busy
<1>4. UNCHANGED <<queue, events, origin, nested, alive>>
  BY DEF CaptureAction, NotifyFatal, MarkFatal, DisableMach, DisableOthers, FillContext,
     HandleException, NoteCrash, ChoosePath, CreateReport, WriteReport, RenameOld,
     CreateRecrash, EmbedOld, RemoveOld, WriteRecrash, Conclude, machVars, envVars
<1>5. \A u \in Threads : frame'[u].ev <= events
  BY <1>3, CaptureFrames DEF NumbersOK
<1> QED
  BY <1>1, <1>2, <1>3, <1>4, <1>5, SameEvents DEF CaptureMove, Kind

\* So only the thread itself and what it writes need be looked at.
LEMMA WriterStep ==
  ASSUME TypeInv, OneSource, RecordInv, NEW t \in Threads, CaptureAction(t),
         NumbersOK', FilesOK', DeathOK', BusyOK(t)'
  PROVE  RecordInv'
<1>1. CaptureMove(t)
  BY CaptureMoves
<1>2. /\ pc[t] \notin AtRest /\ UNCHANGED <<queue, events, origin>>
      /\ pc'[t] \notin {"blocked", "idle"}
  BY WriterKnows DEF Capturing, Vulnerable
<1> QED
  BY <1>1, <1>2, PlainStep DEF CaptureMove

\* NotifyFatal: a first crash has found no report of another.
LEMMA NotifyFatalRecord ==
  ASSUME TypeInv, OneSource, RecordInv, NEW t \in Threads, NotifyFatal(t)
  PROVE  RecordInv'
<1>0. CaptureAction(t)
  BY DEF CaptureAction
<1>1. /\ pc[t] = "notify" /\ pc'[t] = "mark" /\ UNCHANGED reporterVars
      /\ frame'[t].was = handling
  BY DEF NotifyFatal, HandlingSeen, At, Goto, reporterVars, coreVars, diskVars, envVars,
     TypeInv, TypeOK, ThreadsOK, Frames
<1>2. NumbersOK' /\ FilesOK' /\ DeathOK'
  BY <1>0, <1>1, SameRecord, WriterKnows
<1>3. /\ BusyOK(t) /\ FilesOK /\ Kind(t)' = Kind(t) /\ frame'[t].ev = frame[t].ev
      /\ (\A e : Fatal(e)' <=> Fatal(e)) /\ (Crashed' <=> Crashed)
      /\ UNCHANGED <<handling, crashedDuring, enabled, nested>>
      /\ CrashReports' = CrashReports
  BY <1>0, <1>1, WriterKnows, SameReports DEF reporterVars
<1>4. ReportOK(t)'
  BY <1>1, <1>3 DEF BusyOK, ReportOK, Noted, Disabling
<1>5. CrashOK(t)'
  BY <1>1, <1>3 DEF BusyOK, CrashOK, Noted, Capturing
<1>6. WriterOK(t)'
  BY <1>1, <1>3 DEF FilesOK, WriterOK, Disabling, Vulnerable
<1>7. SavedOK(t)'
  BY <1>1, <1>3 DEF BusyOK, SavedOK, Before, Ending, Disabling
<1> QED
  BY <1>0, <1>2, <1>4, <1>5, <1>6, <1>7, WriterStep DEF BusyOK

\* MarkFatal: a crash that found another being handled is a crash of its handler.
LEMMA MarkFatalRecord ==
  ASSUME TypeInv, OneSource, RecordInv, NEW t \in Threads, MarkFatal(t)
  PROVE  RecordInv'
<1>0. CaptureAction(t)
  BY DEF CaptureAction
<1>1. /\ pc[t] = "mark" /\ handling' = TRUE
      /\ crashedDuring' <=> crashedDuring \/ frame[t].was
      /\ crashedDuring' => pc'[t] = "disable"
      /\ ~crashedDuring' => pc'[t] = IF Kind(t) = "mach" THEN "route" ELSE "fill"
      /\ UNCHANGED <<ctx, files, enabled, lastPath, nextId>>
  BY DEF MarkFatal, CrashedDuring, At, Goto, diskVars, TypeInv, TypeOK, ThreadsOK
<1>3. /\ BusyOK(t) /\ NumbersOK /\ FilesOK /\ DeathOK
      /\ Kind(t)' = Kind(t) /\ frame'[t].ev = frame[t].ev
      /\ \A u \in Threads : frame'[u].ev <= events
      /\ (\A e : Fatal(e)' <=> Fatal(e)) /\ (Crashed' <=> Crashed)
      /\ UNCHANGED <<events, origin, nested, alive>>
  BY <1>0, WriterKnows
<1>4. CrashReports' = CrashReports /\ (Saved' <=> Saved)
  BY <1>1, <1>3, SameReports
<1>5. NumbersOK' /\ FilesOK'
  BY <1>1, <1>3, <1>4 DEF NumbersOK, FilesOK
<1>6. nested = 0 => ~crashedDuring'
  BY <1>1, <1>3 DEF BusyOK, SavedOK, DeathOK
<1>7. DeathOK'
  BY <1>1, <1>3, <1>4, <1>6 DEF DeathOK
<1>8. ReportOK(t)'
  BY <1>1, <1>3 DEF BusyOK, ReportOK, Noted, Capturing, Vulnerable, Disabling
<1>9. CrashOK(t)'
  BY <1>1, <1>3 DEF BusyOK, CrashOK, Capturing
<1>10. WriterOK(t)'
  BY <1>1, <1>3, <1>4 DEF BusyOK, WriterOK, Disabling, Vulnerable
<1>11. SavedOK(t)'
  BY <1>1, <1>3, <1>6 DEF SavedOK, Before, Ending, Disabling
<1> QED
  BY <1>0, <1>5, <1>7, <1>8, <1>9, <1>10, <1>11, WriterStep DEF BusyOK

\* DisableMach: the other monitors are still there.
LEMMA DisableMachRecord ==
  ASSUME TypeInv, OneSource, RecordInv, NEW t \in Threads, DisableMach(t)
  PROVE  RecordInv'
<1>0. CaptureAction(t)
  BY DEF CaptureAction
<1>1. /\ pc[t] = "disable" /\ pc'[t] \in {"uninstall", "mask"}
      /\ enabled' = enabled \ {"mach"}
      /\ UNCHANGED <<frame, ctx, files, handling, crashedDuring, lastPath, nextId>>
  BY DEF DisableMach, At, Goto, coreVars, diskVars, TypeInv, TypeOK, ThreadsOK
<1>3. /\ BusyOK(t) /\ NumbersOK /\ FilesOK /\ DeathOK /\ Kind(t)' = Kind(t)
      /\ (\A e : Fatal(e)' <=> Fatal(e)) /\ (Crashed' <=> Crashed)
      /\ UNCHANGED <<events, origin, nested, alive>>
  BY <1>0, WriterKnows
<1>4. CrashReports' = CrashReports /\ (Saved' <=> Saved)
  BY <1>1, <1>3, SameReports
<1>5. NumbersOK' /\ FilesOK'
  BY <1>1, <1>3, <1>4 DEF NumbersOK, FilesOK
<1>6. DeathOK'
  BY <1>1, <1>3, <1>4 DEF DeathOK
<1>7. ReportOK(t)'
  BY <1>1, <1>3 DEF BusyOK, ReportOK, Disabling
<1>8. CrashOK(t)'
  BY <1>1, <1>3 DEF BusyOK, CrashOK, Noted, Capturing, Vulnerable
<1>9. WriterOK(t)'
  BY <1>1, <1>3, <1>4 DEF BusyOK, WriterOK, Disabling, Vulnerable
<1>10. SavedOK(t)'
  BY <1>1, <1>3, <1>4 DEF BusyOK, SavedOK, Before, Ending, Disabling
<1> QED
  BY <1>0, <1>5, <1>6, <1>7, <1>8, <1>9, <1>10, WriterStep DEF BusyOK

\* DisableOthers: if no handler crashed, the crash is saved before.
LEMMA DisableOthersRecord ==
  ASSUME TypeInv, OneSource, RecordInv, NEW t \in Threads, DisableOthers(t)
  PROVE  RecordInv'
<1>0. CaptureAction(t)
  BY DEF CaptureAction
<1>1. /\ pc[t] = "mask" /\ pc'[t] = frame[t].after
      /\ frame[t].after \in {"route", "fill", "resume"} /\ enabled' = {}
      /\ UNCHANGED <<frame, ctx, files, handling, crashedDuring, lastPath, nextId>>
  BY FrameFields DEF DisableOthers, NoneActive, At, Goto, coreVars, diskVars, TypeInv,
     TypeOK, ThreadsOK
<1>3. /\ BusyOK(t) /\ NumbersOK /\ FilesOK /\ DeathOK /\ Kind(t)' = Kind(t)
      /\ (\A e : Fatal(e)' <=> Fatal(e)) /\ (Crashed' <=> Crashed)
      /\ UNCHANGED <<events, origin, nested, alive>>
  BY <1>0, WriterKnows
<1>4. CrashReports' = CrashReports /\ (Saved' <=> Saved)
  BY <1>1, <1>3, SameReports
<1>5. NumbersOK' /\ FilesOK'
  BY <1>1, <1>3, <1>4 DEF NumbersOK, FilesOK
<1>6. DeathOK'
  BY <1>1, <1>3, <1>4 DEF DeathOK, BusyOK, SavedOK, Disabling
<1>7. Kind(t) \notin NonFatalOrigins
  BY <1>1, <1>3 DEF BusyOK, ReportOK, Disabling
<1>8. ReportOK(t)'
  BY <1>3, <1>7 DEF ReportOK
<1>9. CrashOK(t)'
  BY <1>1, <1>3, <1>7 DEF BusyOK, CrashOK, Noted, Capturing, Vulnerable
<1>10. WriterOK(t)'
  BY <1>1, <1>3, <1>4 DEF BusyOK, WriterOK, Disabling, Vulnerable
<1>11. SavedOK(t)'
  BY <1>1, <1>3, <1>4 DEF BusyOK, SavedOK, Before, Ending, Disabling
<1> QED
  BY <1>0, <1>5, <1>6, <1>8, <1>9, <1>10, <1>11, WriterStep DEF BusyOK

\* The context of a handler is its own as long as its frame is.
LEMMA SameContext ==
  ASSUME NEW t \in Threads, Kind(t)' = Kind(t)
  PROVE  Ctx(t)' = Ctx(t)
BY DEF Ctx

\* FillContext: the handler describes its own event.
LEMMA FillContextRecord ==
  ASSUME TypeInv, OneSource, RecordInv, NEW t \in Threads, FillContext(t)
  PROVE  RecordInv'
<1> DEFINE c == Ctx(t)
<1>0. CaptureAction(t)
  BY DEF CaptureAction
<1>1. /\ pc[t] = "fill" /\ pc'[t] = "event"
      /\ UNCHANGED <<frame, files, handling, crashedDuring, enabled, lastPath, nextId>>
  BY DEF FillContext, At, Goto, coreVars, diskVars, TypeInv, TypeOK, ThreadsOK
<1>2. /\ c \in Contexts /\ ctx'[c].event = frame[t].ev
      /\ (ctx'[c].snapshot <=> Kind(t) = "snapshot")
      /\ ctx'[c].recrash => ctx[c].recrash
      /\ \A d \in Contexts \ {c} : ctx'[d] = ctx[d]
  BY CtxType DEF FillContext, TypeInv, TypeOK, ReporterOK
<1>3. /\ BusyOK(t) /\ NumbersOK /\ FilesOK /\ DeathOK /\ Kind(t)' = Kind(t)
      /\ (\A e : Fatal(e)' <=> Fatal(e)) /\ (Crashed' <=> Crashed)
      /\ UNCHANGED <<events, origin, nested, alive>>
  BY <1>0, WriterKnows
<1>4. /\ CrashReports' = CrashReports /\ (Saved' <=> Saved) /\ Ctx(t)' = c
  BY <1>1, <1>3, SameReports, SameContext
<1> HIDE DEF c
<1>5. NumbersOK' /\ FilesOK'
  BY <1>1, <1>2, <1>3, <1>4 DEF NumbersOK, FilesOK
<1>6. DeathOK'
  BY <1>1, <1>2, <1>3, <1>4 DEF DeathOK
<1>7. ReportOK(t)'
  BY <1>1, <1>3 DEF BusyOK, ReportOK, Noted, Capturing, Vulnerable, Disabling
<1>8. CrashOK(t)'
  BY <1>1, <1>3 DEF BusyOK, CrashOK, Noted, Capturing, Vulnerable
<1>9. WriterOK(t)'
  BY <1>1, <1>2, <1>3, <1>4 DEF BusyOK, WriterOK, Disabling
<1>10. SavedOK(t)'
  BY <1>1 DEF SavedOK, Before, Ending, Disabling
<1> QED
  BY <1>0, <1>5, <1>6, <1>7, <1>8, <1>9, <1>10, WriterStep DEF BusyOK

\* HandleException: the context of the crash of a handler says so.
LEMMA HandleExceptionRecord ==
  ASSUME TypeInv, OneSource, RecordInv, NEW t \in Threads, HandleException(t)
  PROVE  RecordInv'
<1> DEFINE c == Ctx(t)
<1>0. CaptureAction(t)
  BY DEF CaptureAction
<1>1. /\ pc[t] = "event" /\ pc'[t] = "note"
      /\ UNCHANGED <<frame, files, handling, crashedDuring, enabled, lastPath, nextId>>
  BY DEF HandleException, At, Goto, coreVars, diskVars, TypeInv, TypeOK, ThreadsOK
<1>2. /\ c \in Contexts /\ ctx'[c].event = ctx[c].event
      /\ ctx'[c].snapshot = ctx[c].snapshot
      /\ (ctx'[c].recrash <=> ctx[c].recrash \/ crashedDuring)
      /\ \A d \in Contexts \ {c} : ctx'[d] = ctx[d]
  BY CtxType DEF HandleException, Recrash, TypeInv, TypeOK, ReporterOK
<1>3. /\ BusyOK(t) /\ NumbersOK /\ FilesOK /\ DeathOK /\ Kind(t)' = Kind(t)
      /\ (\A e : Fatal(e)' <=> Fatal(e)) /\ (Crashed' <=> Crashed)
      /\ UNCHANGED <<events, origin, nested, alive>>
  BY <1>0, WriterKnows
<1>4. /\ CrashReports' = CrashReports /\ (Saved' <=> Saved) /\ Ctx(t)' = c
      /\ ctx[c].event = frame[t].ev /\ (ctx[c].snapshot <=> Kind(t) = "snapshot")
  BY <1>1, <1>3, SameReports, SameContext DEF BusyOK, WriterOK, Vulnerable
<1> HIDE DEF c
<1>5. NumbersOK' /\ FilesOK'
  BY <1>1, <1>2, <1>3, <1>4 DEF NumbersOK, FilesOK
<1>6. DeathOK'
  BY <1>1, <1>2, <1>3, <1>4 DEF DeathOK
<1>7. ReportOK(t)'
  BY <1>1, <1>3 DEF BusyOK, ReportOK, Noted, Capturing, Vulnerable, Disabling
<1>8. CrashOK(t)'
  BY <1>1, <1>3 DEF BusyOK, CrashOK, Noted, Capturing, Vulnerable
<1>9. WriterOK(t)'
  BY <1>1, <1>2, <1>3, <1>4 DEF BusyOK, WriterOK, Disabling
<1>10. SavedOK(t)'
  BY <1>1 DEF SavedOK, Before, Ending, Disabling
<1> QED
  BY <1>0, <1>5, <1>6, <1>7, <1>8, <1>9, <1>10, WriterStep DEF BusyOK

\* NoteCrash: only a first crash chooses a new path.
LEMMA NoteCrashRecord ==
  ASSUME TypeInv, OneSource, RecordInv, NEW t \in Threads, NoteCrash(t)
  PROVE  RecordInv'
<1>0. CaptureAction(t)
  BY DEF CaptureAction
<1>1. /\ pc[t] = "note" /\ UNCHANGED <<frame, reporterVars>>
      /\ ctx[Ctx(t)].recrash => pc'[t] = "rename"
      /\ ~ctx[Ctx(t)].recrash => pc'[t] = "choose"
  BY DEF NoteCrash, At, Goto, reporterVars, coreVars, envVars, TypeInv, TypeOK, ThreadsOK
<1>2. NumbersOK' /\ FilesOK' /\ DeathOK'
  BY <1>0, <1>1, SameRecord, WriterKnows
<1>3. /\ BusyOK(t) /\ DeathOK /\ Kind(t)' = Kind(t)
      /\ (\A e : Fatal(e)' <=> Fatal(e)) /\ (Crashed' <=> Crashed)
      /\ UNCHANGED <<handling, crashedDuring, enabled, nested, ctx>>
      /\ CrashReports' = CrashReports /\ Ctx(t)' = Ctx(t) /\ Ctx(t) \in Contexts
  BY <1>0, <1>1, WriterKnows, SameReports, SameContext, CtxType
     DEF reporterVars, TypeInv, TypeOK
<1>4. ReportOK(t)'
  BY <1>1, <1>3 DEF BusyOK, ReportOK, Noted, Capturing, Vulnerable, Disabling
<1>5. CrashOK(t)'
  BY <1>1, <1>3 DEF BusyOK, CrashOK, Noted, Capturing, Vulnerable
<1>6. WriterOK(t)'
  BY <1>1, <1>3 DEF BusyOK, WriterOK, Disabling, Vulnerable
<1>7. SavedOK(t)'
  BY <1>1, <1>3 DEF DeathOK, SavedOK, Before, Ending, Disabling
<1> QED
  BY <1>0, <1>2, <1>4, <1>5, <1>6, <1>7, WriterStep DEF BusyOK

\* ChoosePath: there is no report of a crash, so lastPath may change.
LEMMA ChoosePathRecord ==
  ASSUME TypeInv, OneSource, RecordInv, NEW t \in Threads, ChoosePath(t)
  PROVE  RecordInv'
<1>0. CaptureAction(t)
  BY DEF CaptureAction
<1>1. /\ pc[t] = "choose" /\ pc'[t] = "create" /\ nextId \in ReportIds
      /\ frame'[t].path = nextId /\ lastPath' = nextId /\ nextId' = nextId + 1
      /\ UNCHANGED <<ctx, files, handling, crashedDuring, enabled>>
  BY DEF ChoosePath, At, Goto, coreVars, TypeInv, TypeOK, ThreadsOK, Frames
<1>3. /\ BusyOK(t) /\ NumbersOK /\ FilesOK /\ DeathOK
      /\ Kind(t)' = Kind(t) /\ frame'[t].ev = frame[t].ev
      /\ \A u \in Threads : frame'[u].ev <= events
      /\ (\A e : Fatal(e)' <=> Fatal(e)) /\ (Crashed' <=> Crashed)
      /\ UNCHANGED <<events, origin, nested, alive>>
  BY <1>0, WriterKnows
<1>4. /\ CrashReports' = CrashReports /\ (Saved' <=> Saved) /\ Ctx(t)' = Ctx(t)
      /\ CrashReports = {}
  BY <1>1, <1>3, SameReports, SameContext DEF BusyOK, WriterOK
<1>5. nextId \in Nat /\ \A i \in ReportIds : i \in Nat
  BY <1>1 DEF ReportIds
<1>6. NumbersOK' /\ FilesOK'
  BY <1>1, <1>3, <1>4, <1>5 DEF NumbersOK, FilesOK
<1>7. DeathOK'
  BY <1>1, <1>3, <1>4, <1>5 DEF DeathOK
<1>8. ReportOK(t)'
  BY <1>1, <1>3 DEF BusyOK, ReportOK, Noted, Capturing, Vulnerable, Disabling
<1>9. CrashOK(t)'
  BY <1>1, <1>3 DEF BusyOK, CrashOK, Noted, Capturing, Vulnerable
<1>10. WriterOK(t)'
  BY <1>1, <1>3, <1>4 DEF BusyOK, WriterOK, Disabling, Vulnerable
<1>11. SavedOK(t)'
  <2>1. nested = 0 => files[nextId].state = "none"
    BY <1>1, <1>3, <1>5 DEF DeathOK
  <2> QED
    BY <1>1, <1>3, <2>1 DEF SavedOK, Before, Ending, Disabling
<1> QED
  BY <1>0, <1>6, <1>7, <1>8, <1>9, <1>10, <1>11, WriterStep DEF BusyOK


\* A handler of an event that is not fatal reports no crash; any other says it handles one.
LEMMA OnlyCrashesAreFatal ==
  ASSUME TypeInv, NumbersOK, NEW t \in Threads, ReportOK(t), CrashOK(t), pc[t] \in Noted,
         Fatal(frame[t].ev)
  PROVE  handling /\ Kind(t) \notin NonFatalOrigins
BY ReportsAreOfEvents DEF ReportOK, CrashOK

\* CreateReport and CreateRecrash: the new report is at lastPath.
LEMMA CreateRecord ==
  ASSUME TypeInv, OneSource, RecordInv, NEW t \in Threads,
         CreateReport(t) \/ CreateRecrash(t)
  PROVE  RecordInv'
<1> DEFINE p == frame[t].path
<1>0. CaptureAction(t)
  BY DEF CaptureAction
<1>1. /\ \/ pc[t] = "create" /\ pc'[t] \in {"body", "conclude"}
         \/ pc[t] = "reopen" /\ pc'[t] \in {"embed", "conclude"}
      /\ UNCHANGED <<frame, ctx, handling, crashedDuring, enabled, lastPath, nextId>>
  BY DEF CreateReport, CreateRecrash, At, Goto, coreVars, TypeInv, TypeOK, ThreadsOK
<1>2. /\ p \in ReportIds /\ pc[t] \in Noted
      /\ pc[t] \in Vulnerable \ {"fill"}
      /\ pc'[t] \in Noted /\ pc'[t] \in Vulnerable \ {"fill"}
  BY <1>1 DEF TypeInv, PathsOK, Noted, Capturing, Vulnerable
<1>3. /\ BusyOK(t) /\ NumbersOK /\ FilesOK /\ DeathOK /\ Kind(t)' = Kind(t)
      /\ (\A e : Fatal(e)' <=> Fatal(e)) /\ (Crashed' <=> Crashed)
      /\ UNCHANGED <<events, origin, nested, alive>>
  BY <1>0, WriterKnows
<1>4. /\ Ctx(t)' = Ctx(t) /\ p = lastPath /\ ctx[Ctx(t)].event = frame[t].ev
      /\ Fatal(frame[t].ev) => handling
      /\ pc[t] = "create" => CrashReports = {}
      /\ nested = 0 => pc[t] = "create" /\ files[p].state = "none"
  BY <1>1, <1>2, <1>3, SameContext, OnlyCrashesAreFatal DEF BusyOK, WriterOK, SavedOK
<1>5. /\ files[p].state = "none" => /\ files'[p].of = frame[t].ev
                                    /\ files'[p].state = "open"
                                    /\ pc'[t] # "conclude"
      /\ files[p].state # "none" => files' = files /\ pc'[t] = "conclude"
      /\ \A i \in ReportIds \ {p} : files'[i] = files[i]
  <2>1. pc \in [Threads -> Labels]
    BY DEF TypeInv, TypeOK, ThreadsOK
  <2>2. files \in [ReportIds -> Files]
    BY DEF TypeInv, TypeOK, DiskOK
  <2>3. NewReport(t).of = frame[t].ev /\ NewReport(t).state = "open"
    BY <1>4 DEF NewReport
  <2> HIDE DEF p
  <2>4. \/ /\ files[p].state = "none" /\ files' = [files EXCEPT ![p] = NewReport(t)]
           /\ Goto(t, "body") \/ Goto(t, "embed")
        \/ /\ files[p].state # "none" /\ files' = files /\ Goto(t, "conclude")
    BY DEF CreateReport, CreateRecrash, p
  <2>5. p \in ReportIds
    BY <1>2
  <2> QED
    BY <2>1, <2>2, <2>3, <2>4, <2>5 DEF Goto
<1> HIDE DEF p
<1>6. NumbersOK'
  BY <1>1, <1>3, <1>5 DEF NumbersOK
<1>7. FilesOK'
  BY <1>1, <1>2, <1>3, <1>4, <1>5 DEF FilesOK, CrashReports
<1>8. DeathOK'
  <2>1. nested = 0 => ~Saved
    BY <1>4 DEF Saved, FullReports, CrashReports
  <2>2. \A i \in ReportIds : i >= nextId => i # p
    BY <1>2, <1>3, <1>4 DEF FilesOK, TypeInv, TypeOK, DiskOK, ReportIds
  <2> QED
    BY <1>1, <1>2, <1>3, <1>5, <2>1, <2>2 DEF DeathOK
<1>9. ReportOK(t)'
  BY <1>1, <1>2, <1>3 DEF BusyOK, ReportOK, Noted, Disabling
<1>10. CrashOK(t)'
  BY <1>1, <1>2, <1>3 DEF BusyOK, CrashOK, Noted
<1>11. WriterOK(t)'
  BY <1>1, <1>2, <1>3, <1>4 DEF BusyOK, WriterOK, Disabling, p
<1>12. SavedOK(t)'
  <2>1. /\ pc'[t] \notin {"mark", "rename", "reopen", "discard", "rebody", "create"}
        /\ pc'[t] \notin Before /\ pc'[t] \notin Ending /\ pc'[t] \notin Disabling
        /\ nested = 0 => pc'[t] = "body" /\ files'[p].of = frame[t].ev
    BY <1>1, <1>4, <1>5 DEF Before, Ending, Disabling
  <2> QED
    BY <1>1, <1>3, <2>1 DEF SavedOK, p
<1> QED
  BY <1>0, <1>6, <1>7, <1>8, <1>9, <1>10, <1>11, <1>12, WriterStep DEF BusyOK

\* WriteReport and WriteRecrash: the report of the crash is saved.
LEMMA CompleteRecord ==
  ASSUME TypeInv, OneSource, RecordInv, NEW t \in Threads,
         WriteReport(t) \/ WriteRecrash(t)
  PROVE  RecordInv'
<1> DEFINE p == frame[t].path
<1>0. CaptureAction(t)
  BY DEF CaptureAction
<1>1. /\ pc[t] \in {"body", "rebody"} /\ pc'[t] = "conclude"
      /\ UNCHANGED <<frame, ctx, handling, crashedDuring, enabled, lastPath, nextId>>
  BY DEF WriteReport, WriteRecrash, At, Goto, coreVars, TypeInv, TypeOK, ThreadsOK
<1>2. p \in ReportIds /\ pc[t] \in Noted /\ pc[t] \in Vulnerable \ {"fill"}
  BY <1>1 DEF TypeInv, PathsOK, Noted, Capturing, Vulnerable
<1>3. /\ BusyOK(t) /\ NumbersOK /\ FilesOK /\ DeathOK /\ Kind(t)' = Kind(t)
      /\ (\A e : Fatal(e)' <=> Fatal(e)) /\ (Crashed' <=> Crashed)
      /\ UNCHANGED <<events, origin, nested, alive>>
  BY <1>0, WriterKnows
<1>4. /\ Ctx(t)' = Ctx(t) /\ ctx[Ctx(t)].event = frame[t].ev
      /\ pc[t] = "body" => p = lastPath
      /\ nested = 0 => pc[t] = "body" /\ files[p].of = frame[t].ev
  BY <1>1, <1>2, <1>3, SameContext DEF BusyOK, WriterOK, SavedOK
<1>5. /\ files'[p].state = "full" /\ \A i \in ReportIds : files'[i].of = files[i].of
      /\ \A i \in ReportIds \ {p} : files'[i] = files[i]
  <2>1. files \in [ReportIds -> Files]
    BY DEF TypeInv, TypeOK, DiskOK
  <2> QED
    BY <1>2, <2>1 DEF WriteReport, WriteRecrash, Complete, Files
<1> HIDE DEF p
<1>6. NumbersOK'
  BY <1>1, <1>3, <1>5 DEF NumbersOK
<1>7. FilesOK'
  <2>1. ~Fatal(0)
    BY DEF Fatal
  <2>2. CrashReports' = CrashReports
    BY <1>2, <1>3, <1>5, <2>1 DEF FilesOK, CrashReports
  <2> QED
    BY <1>1, <1>2, <1>3, <1>5, <2>2 DEF FilesOK
<1>8. DeathOK'
  <2>1. Saved => Saved'
    BY <1>2, <1>3, <1>5 DEF Saved, FullReports
  <2>2. nested = 0 => \A i \in ReportIds : i >= nextId => i # p
    BY <1>2, <1>3, <1>4 DEF FilesOK, TypeInv, TypeOK, DiskOK, ReportIds
  <2> QED
    BY <1>1, <1>2, <1>3, <1>5, <2>1, <2>2 DEF DeathOK
<1>9. ReportOK(t)'
  BY <1>1, <1>2, <1>3 DEF BusyOK, ReportOK, Noted, Capturing, Vulnerable, Disabling
<1>10. CrashOK(t)'
  BY <1>1, <1>2, <1>3 DEF BusyOK, CrashOK, Noted, Capturing, Vulnerable
<1>11. WriterOK(t)'
  BY <1>1, <1>2, <1>3, <1>4 DEF BusyOK, WriterOK, Vulnerable, Disabling
<1>12. SavedOK(t)'
  <2>1. nested = 0 /\ Kind(t) \notin NonFatalOrigins => Saved'
    BY <1>2, <1>3, <1>4, <1>5 DEF BusyOK, CrashOK, Saved, FullReports
  <2> QED
    BY <1>1, <1>3, <2>1 DEF SavedOK, Before, Ending, Disabling
<1> QED
  BY <1>0, <1>6, <1>7, <1>8, <1>9, <1>10, <1>11, <1>12, WriterStep DEF BusyOK

\* RenameOld: one report of a crash less, until the new one is created.
LEMMA RenameOldRecord ==
  ASSUME TypeInv, OneSource, RecordInv, NEW t \in Threads, RenameOld(t)
  PROVE  RecordInv'
<1>0. CaptureAction(t)
  BY DEF CaptureAction
<1>1. /\ pc[t] = "rename" /\ pc'[t] \in {"reopen", "conclude"}
      /\ frame'[t].path = lastPath
      /\ UNCHANGED <<ctx, handling, crashedDuring, enabled, lastPath, nextId>>
  BY DEF RenameOld, At, Goto, coreVars, TypeInv, TypeOK, ThreadsOK, Frames
<1>2. /\ pc[t] \in Noted /\ pc[t] \in Vulnerable \ {"fill"}
      /\ pc'[t] \in Noted
  BY <1>1 DEF Noted, Capturing, Vulnerable
<1>3. /\ BusyOK(t) /\ NumbersOK /\ FilesOK /\ DeathOK /\ Kind(t)' = Kind(t)
      /\ frame'[t].ev = frame[t].ev /\ \A u \in Threads : frame'[u].ev <= events
      /\ (\A e : Fatal(e)' <=> Fatal(e)) /\ (Crashed' <=> Crashed)
      /\ UNCHANGED <<events, origin, nested, alive>>
  BY <1>0, WriterKnows
<1>4. /\ Ctx(t)' = Ctx(t) /\ ctx[Ctx(t)].event = frame[t].ev /\ nested # 0
  BY <1>1, <1>2, <1>3, SameContext DEF BusyOK, WriterOK, SavedOK
<1>5. \A i \in ReportIds : files'[i] = files[i] \/ files'[i] = NoFile
  <2>1. files \in [ReportIds -> Files]
    BY DEF TypeInv, TypeOK, DiskOK
  <2> QED
    BY <2>1 DEF RenameOld
<1>6. NumbersOK'
  BY <1>1, <1>3, <1>5 DEF NumbersOK, NoFile, TypeInv, TypeOK, HistoryOK, EventIds
<1>7. FilesOK'
  <2>1. CrashReports' \subseteq CrashReports
    BY <1>3, <1>5 DEF CrashReports, NoFile
  <2> QED
    BY <1>1, <1>3, <1>5, <2>1 DEF FilesOK, NoFile
<1>8. DeathOK'
  BY <1>1, <1>3, <1>4 DEF DeathOK
<1>9. ReportOK(t)'
  BY <1>1, <1>2, <1>3 DEF BusyOK, ReportOK, Disabling
<1>10. CrashOK(t)'
  BY <1>1, <1>2, <1>3 DEF BusyOK, CrashOK, Noted
<1>11. WriterOK(t)'
  BY <1>1, <1>2, <1>3, <1>4 DEF BusyOK, WriterOK, Disabling
<1>12. SavedOK(t)'
  BY <1>3, <1>4 DEF SavedOK
<1> QED
  BY <1>0, <1>6, <1>7, <1>8, <1>9, <1>10, <1>11, <1>12, WriterStep DEF BusyOK

\* EmbedOld and RemoveOld: what the new report embeds.
LEMMA EmbedRecord ==
  ASSUME TypeInv, OneSource, RecordInv, NEW t \in Threads, EmbedOld(t) \/ RemoveOld(t)
  PROVE  RecordInv'
<1>0. CaptureAction(t)
  BY DEF CaptureAction
<1>1. /\ pc[t] \in {"embed", "discard"} /\ pc'[t] \in {"discard", "rebody"}
      /\ UNCHANGED <<frame, ctx, handling, crashedDuring, enabled, lastPath, nextId>>
  BY DEF EmbedOld, RemoveOld, At, Goto, coreVars, TypeInv, TypeOK, ThreadsOK
<1>2. /\ pc[t] \in Noted /\ pc[t] \in Vulnerable \ {"fill"} /\ pc'[t] \in Noted
  BY <1>1 DEF Noted, Capturing, Vulnerable
<1>3. /\ BusyOK(t) /\ NumbersOK /\ FilesOK /\ DeathOK /\ Kind(t)' = Kind(t)
      /\ (\A e : Fatal(e)' <=> Fatal(e)) /\ (Crashed' <=> Crashed)
      /\ UNCHANGED <<events, origin, nested, alive>>
  BY <1>0, WriterKnows
<1>4. /\ Ctx(t)' = Ctx(t) /\ ctx[Ctx(t)].event = frame[t].ev /\ nested # 0
  BY <1>1, <1>2, <1>3, SameContext DEF BusyOK, WriterOK, SavedOK
<1>5. \A i \in ReportIds : files'[i].of = files[i].of /\ files'[i].state = files[i].state
  <2>1. files \in [ReportIds -> Files]
    BY DEF TypeInv, TypeOK, DiskOK
  <2> QED
    BY <2>1 DEF EmbedOld, RemoveOld, Files
<1>6. CrashReports' = CrashReports
  BY <1>3, <1>5 DEF CrashReports
<1>7. NumbersOK' /\ FilesOK'
  BY <1>1, <1>3, <1>5, <1>6 DEF NumbersOK, FilesOK
<1>8. DeathOK'
  BY <1>1, <1>3, <1>4 DEF DeathOK
<1>9. ReportOK(t)'
  BY <1>1, <1>2, <1>3 DEF BusyOK, ReportOK, Disabling
<1>10. CrashOK(t)'
  BY <1>1, <1>2, <1>3 DEF BusyOK, CrashOK, Noted
<1>11. WriterOK(t)'
  BY <1>1, <1>2, <1>3, <1>4 DEF BusyOK, WriterOK, Disabling
<1>12. SavedOK(t)'
  BY <1>3, <1>4 DEF SavedOK
<1> QED
  BY <1>0, <1>7, <1>8, <1>9, <1>10, <1>11, <1>12, WriterStep DEF BusyOK

\* Conclude: only a snapshot takes back that an exception is being handled.
LEMMA ConcludeRecord ==
  ASSUME TypeInv, OneSource, RecordInv, NEW t \in Threads, Conclude(t)
  PROVE  RecordInv'
<1>0. CaptureAction(t)
  BY DEF CaptureAction
<1>1. /\ pc[t] = "conclude" /\ pc'[t] \in {"disable", "resume"}
      /\ frame'[t].after = "resume"
      /\ IsSnapshot(t) => ~handling' /\ pc'[t] = "resume"
      /\ ~IsSnapshot(t) => /\ handling' = handling
                           /\ pc'[t] = "disable" <=> handling /\ ~crashedDuring
      /\ UNCHANGED <<ctx, files, crashedDuring, enabled, lastPath, nextId>>
  BY DEF Conclude, At, Goto, diskVars, TypeInv, TypeOK, ThreadsOK, Frames
<1>2. pc[t] \in Noted /\ pc[t] \in Vulnerable \ {"fill"}
  BY <1>1 DEF Noted, Capturing, Vulnerable
<1>3. /\ BusyOK(t) /\ NumbersOK /\ FilesOK /\ DeathOK /\ Kind(t)' = Kind(t)
      /\ frame'[t].ev = frame[t].ev /\ \A u \in Threads : frame'[u].ev <= events
      /\ (\A e : Fatal(e)' <=> Fatal(e)) /\ (Crashed' <=> Crashed)
      /\ UNCHANGED <<events, origin, nested, alive>>
  BY <1>0, WriterKnows
<1>4. /\ CrashReports' = CrashReports /\ (Saved' <=> Saved)
      /\ IsSnapshot(t) <=> Kind(t) = "snapshot"
  BY <1>1, <1>2, <1>3, SameReports DEF BusyOK, WriterOK, IsSnapshot
<1>5. Kind(t) \in NonFatalOrigins => ~handling' /\ pc'[t] = "resume" /\ CrashReports = {}
  BY <1>1, <1>2, <1>3, <1>4, ReportsAreOfEvents DEF BusyOK, ReportOK
<1>6. NumbersOK' /\ FilesOK'
  BY <1>1, <1>3, <1>4, <1>5 DEF NumbersOK, FilesOK, NonFatalOrigins
<1>7. DeathOK'
  BY <1>1, <1>3, <1>4 DEF DeathOK
<1>8. ReportOK(t)'
  BY <1>1, <1>2, <1>3, <1>5 DEF BusyOK, ReportOK, Disabling
<1>9. CrashOK(t)'
  <2>1. pc'[t] \in Noted => handling'
    BY <1>1, <1>3, <1>4 DEF Noted, Capturing, Vulnerable
  <2> QED
    BY <1>1, <1>2, <1>3, <2>1 DEF BusyOK, CrashOK, Noted
<1>10. WriterOK(t)'
  BY <1>1, <1>2 DEF WriterOK, Disabling, Vulnerable
<1>11. SavedOK(t)'
  <2>1. nested = 0 => ~crashedDuring /\ (Kind(t) \notin NonFatalOrigins => Saved)
    BY <1>1, <1>3 DEF BusyOK, SavedOK, DeathOK
  <2>2. nested = 0 /\ pc'[t] = "resume" => ~handling'
    BY <1>1, <2>1
  <2>3. pc'[t] = "disable" => Kind(t) \notin NonFatalOrigins
    BY <1>5
  <2> QED
    BY <1>1, <1>3, <1>4, <2>1, <2>2, <2>3 DEF SavedOK, Before, Ending, Disabling
<1> QED
  BY <1>0, <1>6, <1>7, <1>8, <1>9, <1>10, <1>11, WriterStep DEF BusyOK

\* UninstallMach: the other Mach threads run no handler.
LEMMA UninstallMachRecord ==
  ASSUME TypeInv, OneSource, RecordInv, NEW t \in Threads, UninstallMach(t)
  PROVE  RecordInv'
<1>1. /\ pc[t] = "uninstall" /\ pc'[t] = "mask"
      /\ \A u \in Threads \ {t} : pc'[u] \in {pc[u], "dead"}
      /\ UNCHANGED <<frame, reporterVars, queue>>
  BY DEF UninstallMach, At, reporterVars, coreVars, diskVars, envVars
<1>2. pc[t] \notin AtRest /\ BusyOK(t)
  BY <1>1 DEF AtRest, RecordInv, Busy
<1>3. NumbersOK' /\ FilesOK' /\ DeathOK'
  BY <1>1, SameRecord DEF RecordInv, NumbersOK
<1>4. /\ CrashReports' = CrashReports /\ (Saved' <=> Saved) /\ Ctx(t)' = Ctx(t)
      /\ (\A e : Fatal(e)' <=> Fatal(e)) /\ (Crashed' <=> Crashed) /\ Kind(t)' = Kind(t)
      /\ UNCHANGED <<handling, crashedDuring, enabled, ctx, files, nested, events, origin>>
  BY <1>1, SameReports, SameContext, SameEvents DEF reporterVars, Kind
<1>5. ReportOK(t)'
  BY <1>1, <1>2, <1>4 DEF BusyOK, ReportOK, Disabling
<1>6. CrashOK(t)'
  BY <1>1, <1>2, <1>4 DEF BusyOK, CrashOK, Noted, Capturing, Vulnerable
<1>7. WriterOK(t)'
  BY <1>1, <1>2, <1>4 DEF BusyOK, WriterOK, Disabling, Vulnerable
<1>8. SavedOK(t)'
  BY <1>1, <1>2, <1>4 DEF BusyOK, SavedOK, Before, Ending, Disabling
<1> QED
  BY <1>1, <1>2, <1>3, <1>4, <1>5, <1>6, <1>7, <1>8, PlainStep DEF BusyOK

(***************************************************************************)
(* The start and the end of a handler.                                     *)
(***************************************************************************)
\* A step after which at most one thread is busy, and that thread in order.
LEMMA BusyStep ==
  ASSUME OneSource, NEW t \in Threads,
         queue' \subseteq {t}, t \in queue' => pc'[t] = "blocked",
         \A u \in Threads \ {t} : pc'[u] \in AtRest,
         \A s \in Sources \ {t} : pc'[s] # "idle",
         NumbersOK', FilesOK', DeathOK', WaitingOK', Busy(t)' => BusyOK(t)',
         pc'[t] = "idle" => ~Crashed' /\ ~handling' /\ ~crashedDuring' /\ enabled' = Monitored
  PROVE  RecordInv'
<1>1. OneAtATime' /\ Alone(t)'
  BY OneStaysAlone
<1>2. \A u \in Threads : Busy(u)' => BusyOK(u)'
  BY <1>1 DEF Alone
<1>3. IdleOK'
  BY DEF IdleOK
<1> QED
  BY <1>1, <1>2, <1>3 DEF RecordInv

\* A handler that starts, or is waited for, has left nothing behind yet.
LEMMA EntryOK ==
  ASSUME NEW t \in Threads, pc'[t] \in {"blocked", "enter", "suspend"},
         pc'[t] = "blocked" => Kind(t)' = "signal",
         Kind(t)' \in NonFatalOrigins =>
           ~Crashed' /\ ~handling' /\ ~crashedDuring' /\ enabled' = Monitored,
         Kind(t)' \notin NonFatalOrigins => Fatal(frame[t].ev)',
         Kind(t)' = "objc" => ~handling',
         Kind(t)' \in UserKinds => "user" \in enabled',
         nested' = 0 => ~handling'
  PROVE  BusyOK(t)'
<1>1. ReportOK(t)'
  BY DEF ReportOK, Disabling, NonFatalOrigins
<1>2. CrashOK(t)'
  BY DEF CrashOK, Noted, Capturing, Vulnerable
<1>3. WriterOK(t)'
  BY DEF WriterOK, Disabling, Vulnerable
<1>4. SavedOK(t)'
  BY DEF SavedOK, Before, Ending, Disabling
<1> QED
  BY <1>1, <1>2, <1>3, <1>4 DEF BusyOK

\* What Start does.
LEMMA Started ==
  ASSUME TypeInv, NEW t \in Threads, NEW k \in Kinds, NEW e, Start(t, k, e)
  PROVE  /\ pc'[t] \in {"enter", "suspend"} /\ Kind(t)' = k /\ frame'[t].ev = e
         /\ \A u \in Threads \ {t} : pc'[u] = pc[u] /\ frame'[u] = frame[u]
BY DEF Start, Entry, IdleFrame, Kind, TypeInv, TypeOK, ThreadsOK

\* At the end of the handler of a crash a signal starts the next, or ends the process.
LEMMA SignalRecord ==
  ASSUME TypeInv, OneSource, RecordInv, NEW t \in Threads,
         pc[t] \in {"leave", "signalled"}, Kind(t) \notin NonFatalOrigins,
         Signal(t, frame[t].ev), queue' = queue,
         UNCHANGED <<handling, crashedDuring, enabled, ctx, files, lastPath, nextId, events,
                     nested, origin>>
  PROVE  RecordInv'
<1>1. /\ pc[t] \notin AtRest /\ BusyOK(t) /\ NumbersOK /\ FilesOK /\ DeathOK /\ WaitingOK
      /\ OneAtATime
  BY DEF AtRest, RecordInv, Busy
<1>2. /\ queue = {} /\ \A u \in Threads \ {t} : pc[u] \in AtRest
      /\ \A s \in Sources : pc[s] # "idle"
  BY <1>1, MoverIsAlone
<1>3. /\ CrashReports' = CrashReports /\ (Saved' <=> Saved)
      /\ (\A e : Fatal(e)' <=> Fatal(e)) /\ (Crashed' <=> Crashed)
  BY SameReports, SameEvents
<1>4. Fatal(frame[t].ev) /\ (nested = 0 /\ "signal" \in enabled => ~handling)
  BY <1>1 DEF BusyOK, CrashOK, SavedOK, Ending
<1>5. FilesOK' /\ Sources \subseteq Threads
  BY <1>1, <1>3, ThreadsAssumption DEF FilesOK, Threads
<1>6. CASE "signal" \in enabled
  <2>1. Start(t, "signal", frame[t].ev) /\ alive' = alive
    BY <1>6 DEF Signal
  <2>2. /\ pc'[t] \in {"enter", "suspend"} /\ Kind(t)' = "signal"
        /\ frame'[t].ev = frame[t].ev
        /\ \A u \in Threads \ {t} : pc'[u] = pc[u] /\ frame'[u] = frame[u]
    BY <2>1, Started DEF Kinds
  <2>3. NumbersOK'
    BY <1>1, <2>2 DEF NumbersOK
  <2>4. DeathOK'
    BY <1>1, <1>3, <2>1 DEF DeathOK
  <2>5. WaitingOK'
    BY <1>1, <1>3, <2>2 DEF WaitingOK, Kind
  <2>6. BusyOK(t)'
    BY <1>3, <1>4, <1>6, <2>2, EntryOK DEF NonFatalOrigins, UserKinds
  <2> QED
    BY <1>2, <1>5, <2>2, <2>3, <2>4, <2>5, <2>6, BusyStep
<1>7. CASE "signal" \notin enabled
  <2>1. ~alive' /\ UNCHANGED <<pc, frame>>
    BY <1>7 DEF Signal
  <2>2. NumbersOK'
    BY <1>1, <2>1 DEF NumbersOK
  <2>3. DeathOK'
    BY <1>1, <1>3, <1>7 DEF DeathOK
  <2>4. WaitingOK'
    BY <1>1, <1>3, <2>1 DEF WaitingOK, Kind
  <2>5. Kind(t)' = Kind(t) /\ Ctx(t)' = Ctx(t)
    BY <2>1, SameContext DEF Kind
  <2>6. BusyOK(t)'
    BY <1>1, <1>3, <2>1, <2>5 DEF BusyOK, ReportOK, CrashOK, WriterOK, SavedOK
  <2> QED
    BY <1>1, <1>2, <1>5, <2>1, <2>2, <2>3, <2>4, <2>6, BusyStep DEF AtRest
<1> QED
  BY <1>6, <1>7

\* Deliver.
LEMMA DeliverRecord ==
  ASSUME TypeInv, OneSource, RecordInv, NEW t \in Threads, Deliver(t)
  PROVE  RecordInv'
<1>1. pc[t] = "signalled" /\ Signal(t, frame[t].ev)
      /\ UNCHANGED <<queue, handling, crashedDuring, enabled, ctx, files, lastPath, nextId,
                     events, nested, origin>>
  BY DEF Deliver, At, coreVars, machVars, diskVars, envVars
<1>2. Kind(t) \notin NonFatalOrigins
  BY <1>1 DEF RecordInv, Busy, AtRest, BusyOK, ReportOK
<1> QED
  BY <1>1, <1>2, SignalRecord

\* Leave: the event goes to a signal, to the handler of NSExceptions, or to the thread
\* that waits for the Mach handler; only a snapshot returns.
LEMMA LeaveRecord ==
  ASSUME TypeInv, OneSource, RecordInv, NEW t \in Threads, Leave(t)
  PROVE  RecordInv'
<1>0. PICK v \in Threads : v = frame[t].served
  BY FrameFields DEF TypeInv, TypeOK
<1>1. pc[t] = "leave" /\ UNCHANGED <<queue, handling, crashedDuring, enabled, ctx, files,
                                     lastPath, nextId, events, nested, origin>>
  BY DEF Leave, At, coreVars, machVars, diskVars, envVars
<1>2. /\ pc[t] \notin AtRest /\ BusyOK(t) /\ NumbersOK /\ FilesOK /\ DeathOK /\ WaitingOK
      /\ OneAtATime
  BY <1>1 DEF AtRest, RecordInv, Busy
<1>3. /\ queue = {} /\ \A u \in Threads \ {t} : pc[u] \in AtRest
      /\ \A s \in Sources : pc[s] # "idle"
  BY <1>2, MoverIsAlone
<1>4. /\ CrashReports' = CrashReports /\ (Saved' <=> Saved)
      /\ (\A e : Fatal(e)' <=> Fatal(e)) /\ (Crashed' <=> Crashed)
  BY <1>1, SameReports, SameEvents
<1>5. /\ Kind(t) \in NonFatalOrigins =>
           Kind(t) = "snapshot" /\ ~Crashed /\ ~handling /\ ~crashedDuring /\ enabled = Monitored
      /\ Kind(t) \notin NonFatalOrigins => Fatal(frame[t].ev)
      /\ Kind(t) = "objc" => ~handling
      /\ nested = 0 /\ handling => "signal" \notin enabled
  BY <1>1, <1>2 DEF BusyOK, ReportOK, CrashOK, SavedOK, Ending, Noted, Capturing, Vulnerable
<1>6. FilesOK' /\ Sources \subseteq Threads
  BY <1>1, <1>2, <1>4, ThreadsAssumption DEF FilesOK, Threads
<1>7. \/ Kind(t) = "snapshot" /\ Goto(t, "idle") /\ UNCHANGED <<frame, alive>>
      \/ Kind(t) = "mach" /\ pc[v] # "blocked" /\ Goto(t, "done") /\ UNCHANGED <<frame, alive>>
      \/ /\ Kind(t) = "mach" /\ pc[v] = "blocked" /\ UNCHANGED <<frame, alive>>
         /\ pc' = [pc EXCEPT ![t] = "done", ![v] = "signalled"]
      \/ Kind(t) = "objc" /\ Start(t, "nsexception", frame[t].ev) /\ UNCHANGED alive
      \/ Kind(t) # "snapshot" /\ Signal(t, frame[t].ev)
  BY <1>0 DEF Leave
<1>8. CASE /\ UNCHANGED <<frame, alive>>
           /\ \/ Kind(t) = "snapshot" /\ Goto(t, "idle")
              \/ Kind(t) = "mach" /\ Goto(t, "done")
  <2>1. /\ pc'[t] \in {"idle", "done"} /\ \A u \in Threads \ {t} : pc'[u] = pc[u]
        /\ pc'[t] = "idle" => Kind(t) \in NonFatalOrigins
    BY <1>8 DEF Goto, NonFatalOrigins, TypeInv, TypeOK, ThreadsOK
  <2>2. NumbersOK' /\ DeathOK'
    BY <1>1, <1>2, <1>4, <1>8 DEF NumbersOK, DeathOK
  <2> QED
    BY <1>1, <1>2, <1>4, <1>5, <1>6, <1>8, <2>1, <2>2, PlainStep DEF AtRest
<1>9. CASE /\ Kind(t) = "mach" /\ pc[v] = "blocked" /\ UNCHANGED <<frame, alive>>
           /\ pc' = [pc EXCEPT ![t] = "done", ![v] = "signalled"]
  <2>1. /\ v # t /\ pc'[t] = "done" /\ pc'[v] = "signalled"
        /\ \A u \in Threads \ {t, v} : pc'[u] = pc[u]
    BY <1>1, <1>6, <1>9 DEF TypeInv, TypeOK, ThreadsOK
  <2>2. NumbersOK' /\ DeathOK'
    BY <1>1, <1>2, <1>4, <1>9 DEF NumbersOK, DeathOK
  <2>3. WaitingOK'
    BY <1>2, <1>4, <1>9, <2>1 DEF WaitingOK, Kind
  <2>4. Kind(v)' = "signal" /\ Fatal(frame[v].ev)'
    BY <1>2, <1>4, <1>6, <1>9 DEF WaitingOK, Kind
  <2>5. BusyOK(v)'
    <3>1. ReportOK(v)'
      BY <2>4 DEF ReportOK, NonFatalOrigins
    <3>2. CrashOK(v)'
      BY <2>1, <2>4 DEF CrashOK, UserKinds, Noted, Capturing, Vulnerable
    <3>3. WriterOK(v)'
      BY <2>1 DEF WriterOK, Disabling, Vulnerable
    <3>4. SavedOK(v)'
      BY <1>1, <1>5, <2>1 DEF SavedOK, Before, Ending, Disabling
    <3> QED
      BY <3>1, <3>2, <3>3, <3>4 DEF BusyOK
  <2>6. \A u \in Threads \ {v} : pc'[u] \in AtRest
    BY <1>3, <2>1 DEF AtRest
  <2>7. \A s \in Sources \ {v} : pc'[s] # "idle"
    BY <1>3, <1>6, <2>1
  <2> QED
    BY <1>1, <1>3, <1>6, <2>1, <2>2, <2>3, <2>5, <2>6, <2>7, BusyStep
<1>10. CASE Kind(t) = "objc" /\ Start(t, "nsexception", frame[t].ev) /\ UNCHANGED alive
  <2>1. /\ pc'[t] \in {"enter", "suspend"} /\ Kind(t)' = "nsexception"
        /\ frame'[t].ev = frame[t].ev
        /\ \A u \in Threads \ {t} : pc'[u] = pc[u] /\ frame'[u] = frame[u]
    BY <1>10, Started DEF Kinds
  <2>2. NumbersOK' /\ DeathOK'
    BY <1>1, <1>2, <1>4, <1>10, <2>1 DEF NumbersOK, DeathOK
  <2>3. WaitingOK'
    BY <1>2, <1>4, <2>1 DEF WaitingOK, Kind
  <2>4. BusyOK(t)'
    BY <1>1, <1>4, <1>5, <1>10, <2>1, EntryOK DEF NonFatalOrigins, UserKinds
  <2> QED
    BY <1>1, <1>3, <1>6, <2>1, <2>2, <2>3, <2>4, BusyStep
<1>11. CASE Kind(t) # "snapshot" /\ Signal(t, frame[t].ev)
  BY <1>1, <1>5, <1>11, SignalRecord
<1> QED
  BY <1>7, <1>8, <1>9, <1>10, <1>11

\* Receive: the handler of the thread that waits takes over its event.
LEMMA ReceiveRecord ==
  ASSUME TypeInv, OneSource, RecordInv, NEW t \in Threads, Receive(t)
  PROVE  RecordInv'
<1>1. /\ pc[t] = "wait" /\ pc'[t] = "enter"
      /\ \A u \in Threads \ {t} : pc'[u] = pc[u] /\ frame'[u] = frame[u]
      /\ UNCHANGED reporterVars
  BY DEF Receive, At, reporterVars, coreVars, diskVars, TypeInv, TypeOK, ThreadsOK
<1>2. PICK v \in queue : /\ queue' = queue \ {v}
                         /\ frame' = [frame EXCEPT ![t] = [IdleFrame(t) EXCEPT
                                        !.kind = "mach", !.ev = frame[v].ev, !.served = v]]
  BY DEF Receive
<1>3. /\ v \in Threads /\ Busy(v) /\ pc[v] = "blocked"
      /\ \A u \in queue : u \in Threads /\ Busy(u)
  BY DEF TypeInv, TypeOK, ReporterOK, Busy, RecordInv, OneAtATime
<1>4. /\ queue' = {} /\ \A u \in Threads : pc[u] \in AtRest
      /\ \A s \in Sources : pc[s] # "idle" /\ s \in Threads
  <2>1. \A u \in Threads : Busy(u) => u = v
    BY <1>3 DEF RecordInv, OneAtATime
  <2>2. \A s \in Sources : pc[s] # "idle"
    BY <1>3 DEF RecordInv, OneAtATime
  <2> QED
    BY <1>2, <1>3, <2>1, <2>2, ThreadsAssumption DEF Threads, Busy, AtRest
<1>5. Kind(t)' = "mach" /\ frame'[t].ev = frame[v].ev
  BY <1>2 DEF Kind, IdleFrame, TypeInv, TypeOK, ThreadsOK
<1>6. /\ BusyOK(v) /\ Fatal(frame[v].ev) /\ frame[v].ev <= events
      /\ nested = 0 => ~handling
  BY <1>3 DEF RecordInv, WaitingOK, NumbersOK, BusyOK, SavedOK, Before
<1>7. \A u \in Threads : frame'[u].ev <= events
  BY <1>1, <1>5, <1>6 DEF RecordInv, NumbersOK
<1>8. NumbersOK' /\ FilesOK' /\ DeathOK'
  BY <1>1, <1>7, SameRecord
<1>9. /\ (\A e : Fatal(e)' <=> Fatal(e)) /\ UNCHANGED <<handling, nested>>
  BY <1>1, SameEvents DEF reporterVars
<1>10. WaitingOK'
  BY <1>1, <1>9 DEF RecordInv, WaitingOK, Kind
<1>11. BusyOK(t)'
  <2>1. Fatal(frame[t].ev)'
    BY <1>5, <1>6, <1>9
  <2> QED
    BY <1>1, <1>5, <1>6, <1>9, <2>1, EntryOK DEF NonFatalOrigins, UserKinds
<1> QED
  BY <1>1, <1>4, <1>8, <1>10, <1>11, BusyStep

\* A new event changes neither what was fatal nor what is on disk.
LEMMA NewEventRecord ==
  ASSUME TypeInv, NumbersOK, NEW o, NewEvent(o), files' = files
  PROVE  /\ \A e \in EventIds : e <= events => e <= events' /\ (Fatal(e)' <=> Fatal(e))
         /\ \A t \in Threads : frame[t].ev \in EventIds /\ frame[t].ev <= events
         /\ \A c \in Contexts : ctx[c].event <= events'
         /\ \A i \in ReportIds : files[i].of <= events'
         /\ CrashReports' = CrashReports /\ (Saved' <=> Saved)
         /\ events + 1 \in EventIds /\ events' = events + 1 /\ events + 1 <= events'
         /\ \A e : e = events + 1 => (Fatal(e)' <=> o \in FatalOrigins)
         /\ o \notin FatalOrigins /\ ~Crashed => ~Crashed'
<1>1. /\ \A t \in Threads : frame[t].ev \in EventIds /\ frame[t].ev <= events
      /\ \A c \in Contexts : ctx[c].event \in EventIds /\ ctx[c].event <= events
      /\ \A i \in ReportIds : files[i].of \in EventIds /\ files[i].of <= events
  BY FrameFields, FileFields DEF NumbersOK, TypeInv, TypeOK, ReporterOK
<1>2. /\ \A e \in EventIds : e <= events => e <= events' /\ (Fatal(e)' <=> Fatal(e))
      /\ events' = events + 1 /\ events' # 0 /\ events' \in Nat /\ origin'[events'] = o
  BY NewEventFlag
<1>3. events + 1 \in EventIds /\ events + 1 <= events'
  BY <1>2, BoundsAssumption DEF NewEvent, EventIds, TypeInv, TypeOK, HistoryOK
<1>5. CrashReports' = CrashReports
  BY <1>1, <1>2 DEF CrashReports
<1>6. Saved' <=> Saved
  BY <1>1, <1>2 DEF Saved, FullReports
<1>7. \A e : e = events + 1 => (Fatal(e)' <=> o \in FatalOrigins)
  BY <1>2 DEF Fatal
<1>8. o \notin FatalOrigins /\ ~Crashed => ~Crashed'
  <2> SUFFICES ASSUME o \notin FatalOrigins, ~Crashed, NEW e \in 1 .. events', Fatal(e)'
               PROVE  FALSE
    BY DEF Crashed
  <2>1. e = events' \/ (e \in EventIds /\ e <= events /\ e \in 1 .. events)
    BY <1>2, <1>3, BoundsAssumption DEF EventIds, TypeInv, TypeOK, HistoryOK
  <2>2. CASE e = events'
    BY <1>2, <2>2 DEF Fatal
  <2>3. CASE e \in EventIds /\ e <= events /\ e \in 1 .. events
    BY <1>2, <2>3 DEF Crashed
  <2> QED
    BY <2>1, <2>2, <2>3
<1> QED
  BY <1>1, <1>2, <1>3, <1>5, <1>6, <1>7, <1>8

\* An event starts the handler of its kind, or that of a crash; as the signal monitor is
\* still there, the process lives.
LEMMA EventHandler ==
  ASSUME TypeInv, NEW t \in Threads, NEW o \in Origins, NewEventOn(t, o),
         "signal" \in enabled
  PROVE  /\ alive' = alive
         /\ \/ \E k \in Kinds : /\ Start(t, k, events + 1) /\ queue' = queue
                                /\ k \in NonFatalOrigins => o = k
                                /\ k \notin NonFatalOrigins => o \in FatalOrigins
            \/ /\ o = "fault" /\ queue' = queue \cup {t}
               /\ pc' = [pc EXCEPT ![t] = "blocked"]
               /\ frame' = [frame EXCEPT ![t] = [IdleFrame(t) EXCEPT !.ev = events + 1]]
<1>1. Signal(t, events + 1) <=> Start(t, "signal", events + 1) /\ alive' = alive
  BY DEF Signal
<1>2. CASE o = "fault"
  BY <1>1, <1>2 DEF NewEventOn, Fault, Kinds, NonFatalOrigins, FatalOrigins
<1>3. CASE o = "abort"
  BY <1>1, <1>3 DEF NewEventOn, Kinds, NonFatalOrigins, FatalOrigins
<1>4. CASE o = "objc"
  BY <1>1, <1>4 DEF NewEventOn, Kinds, NonFatalOrigins, FatalOrigins
<1>5. CASE o \in {"cpp", "deadlock"}
  BY <1>1, <1>5 DEF NewEventOn, Kinds, NonFatalOrigins, FatalOrigins
<1>6. CASE o \in UserKinds \cup {"snapshot"}
  BY <1>6 DEF NewEventOn, Kinds, UserKinds, NonFatalOrigins, FatalOrigins
<1> QED
  BY <1>2, <1>3, <1>4, <1>5, <1>6, MonitorsAssumption
     DEF UserKinds, FatalOrigins, NonFatalOrigins

\* NewEventOn: the application runs, so there is no handler and no report of a crash.
LEMMA NewEventOnRecord ==
  ASSUME TypeInv, OneSource, LastResort, RecordInv, NEW t \in Threads, NEW o \in Origins,
         NewEventOn(t, o)
  PROVE  RecordInv'
<1>1. /\ pc[t] = "idle" /\ t \in Sources /\ NewEvent(o)
      /\ UNCHANGED <<handling, crashedDuring, enabled, ctx, files, lastPath, nextId, nested>>
  BY DEF NewEventOn, At, coreVars, diskVars
<1>2. /\ NumbersOK /\ FilesOK /\ DeathOK /\ WaitingOK
      /\ ~Crashed /\ ~handling /\ ~crashedDuring /\ enabled = Monitored
      /\ "signal" \in enabled /\ "user" \in enabled
      /\ \A u \in Threads : ~Busy(u)
  BY <1>1 DEF RecordInv, IdleOK, OneAtATime, LastResort
<1>3. queue = {} /\ (\A u \in Threads : pc[u] \in AtRest) /\ Sources = {t}
  BY <1>1, <1>2 DEF Busy, OneSource, TypeInv, TypeOK, ReporterOK
<1>4. /\ \A e \in EventIds : e <= events => e <= events' /\ (Fatal(e)' <=> Fatal(e))
      /\ \A u \in Threads : frame[u].ev \in EventIds /\ frame[u].ev <= events
      /\ \A c \in Contexts : ctx[c].event <= events'
      /\ \A i \in ReportIds : files[i].of <= events'
      /\ CrashReports' = CrashReports /\ (Saved' <=> Saved)
      /\ events + 1 <= events' /\ events + 1 \in EventIds
      /\ \A e : e = events + 1 => (Fatal(e)' <=> o \in FatalOrigins)
      /\ o \notin FatalOrigins /\ ~Crashed => ~Crashed'
  BY <1>1, <1>2, NewEventRecord
<1>5. alive' = alive
  BY <1>2, EventHandler
<1>6. FilesOK' /\ DeathOK'
  BY <1>1, <1>2, <1>4, <1>5 DEF FilesOK, DeathOK
<1>7. PICK k \in Kinds :
        /\ queue' \subseteq {t} /\ (t \in queue' => pc'[t] = "blocked")
        /\ pc'[t] \in {"blocked", "enter", "suspend"} /\ Kind(t)' = k
        /\ frame'[t].ev = events + 1
        /\ \A u \in Threads \ {t} : pc'[u] = pc[u] /\ frame'[u] = frame[u]
        /\ k \in NonFatalOrigins => o = k
        /\ k \notin NonFatalOrigins => o \in FatalOrigins
        /\ pc'[t] = "blocked" => k = "signal"
  <2>1. CASE \E k \in Kinds : /\ Start(t, k, events + 1) /\ queue' = queue
                              /\ k \in NonFatalOrigins => o = k
                              /\ k \notin NonFatalOrigins => o \in FatalOrigins
    <3>1. PICK k \in Kinds : /\ Start(t, k, events + 1) /\ queue' = queue
                             /\ k \in NonFatalOrigins => o = k
                             /\ k \notin NonFatalOrigins => o \in FatalOrigins
      BY <2>1
    <3>2. /\ pc'[t] \in {"enter", "suspend"} /\ Kind(t)' = k /\ frame'[t].ev = events + 1
          /\ \A u \in Threads \ {t} : pc'[u] = pc[u] /\ frame'[u] = frame[u]
      BY <3>1, Started
    <3>3. queue' = {} /\ pc'[t] # "blocked" /\ pc'[t] \in {"blocked", "enter", "suspend"}
      BY <1>3, <3>1, <3>2
    <3> QED
      BY <3>1, <3>2, <3>3
  <2>2. CASE /\ o = "fault" /\ queue' = queue \cup {t}
             /\ pc' = [pc EXCEPT ![t] = "blocked"]
             /\ frame' = [frame EXCEPT ![t] = [IdleFrame(t) EXCEPT !.ev = events + 1]]
    <3>1. /\ queue' = {t} /\ pc'[t] = "blocked" /\ Kind(t)' = "signal"
          /\ frame'[t].ev = events + 1
          /\ \A u \in Threads \ {t} : pc'[u] = pc[u] /\ frame'[u] = frame[u]
      BY <1>3, <2>2 DEF Kind, IdleFrame, TypeInv, TypeOK, ThreadsOK
    <3>2. "signal" \in Kinds /\ "signal" \notin NonFatalOrigins /\ o \in FatalOrigins
      BY <2>2 DEF Kinds, NonFatalOrigins, FatalOrigins
    <3> QED
      BY <3>1, <3>2
  <2> QED
    BY <1>2, <2>1, <2>2, EventHandler
<1>8. NumbersOK'
  BY <1>1, <1>4, <1>7 DEF NumbersOK
<1>9. Kind(t)' \notin NonFatalOrigins => Fatal(frame[t].ev)'
  BY <1>4, <1>7
<1>10. Kind(t)' \in NonFatalOrigins => ~Crashed'
  <2>1. Kind(t)' \in NonFatalOrigins => o \notin FatalOrigins
    BY <1>7 DEF NonFatalOrigins, FatalOrigins
  <2> QED
    BY <1>2, <1>4, <2>1
<1>11. BusyOK(t)'
  BY <1>1, <1>2, <1>7, <1>9, <1>10, EntryOK
<1>12. WaitingOK'
  <2>1. ASSUME NEW u \in Threads \ {t}, pc'[u] = "blocked"
        PROVE  Kind(u)' = "signal" /\ Fatal(frame[u].ev)'
    BY <1>2, <1>4, <1>7, <2>1 DEF WaitingOK, Kind
  <2>2. pc'[t] = "blocked" => Kind(t)' = "signal" /\ Fatal(frame[t].ev)'
    BY <1>7, <1>9 DEF NonFatalOrigins
  <2> QED
    BY <2>1, <2>2 DEF WaitingOK
<1> QED
  BY <1>3, <1>6, <1>7, <1>8, <1>11, <1>12, BusyStep

\* HandlerFault: from here on the promises of a process without such a crash are void.
LEMMA HandlerFaultRecord ==
  ASSUME TypeInv, OneSource, LastResort, RecordInv, NEW t \in Threads, HandlerFault(t)
  PROVE  RecordInv'
<1>1. /\ pc[t] \in Vulnerable /\ NewEvent("fault") /\ Fault(t, events + 1)
      /\ nested' = nested + 1 /\ nested \in Nat
      /\ UNCHANGED <<handling, crashedDuring, enabled, ctx, files, lastPath, nextId>>
  BY DEF HandlerFault, coreVars, diskVars, TypeInv, TypeOK, HistoryOK
<1>2. pc[t] \notin AtRest /\ pc[t] \in Noted
  BY <1>1 DEF Vulnerable, AtRest, Noted, Capturing
<1>3. BusyOK(t) /\ NumbersOK /\ FilesOK /\ DeathOK /\ WaitingOK /\ OneAtATime
  BY <1>2 DEF RecordInv, Busy
<1>4. /\ queue = {} /\ \A u \in Threads \ {t} : pc[u] \in AtRest
      /\ \A s \in Sources : pc[s] # "idle" /\ s \in Threads
  BY <1>2, <1>3, MoverIsAlone, ThreadsAssumption DEF Threads
<1>5. /\ \A e \in EventIds : e <= events => e <= events' /\ (Fatal(e)' <=> Fatal(e))
      /\ \A u \in Threads : frame[u].ev \in EventIds /\ frame[u].ev <= events
      /\ \A c \in Contexts : ctx[c].event <= events'
      /\ \A i \in ReportIds : files[i].of <= events'
      /\ CrashReports' = CrashReports /\ (Saved' <=> Saved)
      /\ events + 1 <= events' /\ events + 1 \in EventIds
      /\ \A e : e = events + 1 => (Fatal(e)' <=> "fault" \in FatalOrigins)
  BY <1>1, <1>3, NewEventRecord
<1>6. "fault" \in FatalOrigins /\ nested' # 0
  BY <1>1 DEF FatalOrigins
<1>7. FilesOK'
  BY <1>1, <1>3, <1>5 DEF FilesOK
<1>8. CASE ports \/ "signal" \in enabled
  <2>1. alive' = alive
    BY <1>1, <1>8 DEF Fault, Signal
  <2>2. /\ queue' \subseteq {t} /\ (t \in queue' => pc'[t] = "blocked")
        /\ pc'[t] \in {"blocked", "enter", "suspend"} /\ Kind(t)' = "signal"
        /\ frame'[t].ev = events + 1
        /\ \A u \in Threads \ {t} : pc'[u] = pc[u] /\ frame'[u] = frame[u]
    <3>1. CASE ports
      BY <1>1, <1>4, <3>1 DEF Fault, Kind, IdleFrame, TypeInv, TypeOK, ThreadsOK
    <3>2. CASE ~ports
      <4>1. Start(t, "signal", events + 1) /\ queue' = queue
        BY <1>1, <1>8, <3>2 DEF Fault, Signal
      <4> QED
        BY <1>4, <4>1, Started DEF Kinds
    <3> QED
      BY <3>1, <3>2
  <2>3. DeathOK'
    BY <1>1, <1>3, <1>6, <2>1 DEF DeathOK
  <2>4. NumbersOK'
    BY <1>1, <1>5, <2>2 DEF NumbersOK
  <2>5. Fatal(frame[t].ev)'
    BY <1>5, <1>6, <2>2
  <2>6. BusyOK(t)'
    BY <1>6, <2>2, <2>5, EntryOK DEF NonFatalOrigins, UserKinds
  <2>7. WaitingOK'
    <3>1. ASSUME NEW u \in Threads \ {t}, pc'[u] = "blocked"
          PROVE  Kind(u)' = "signal" /\ Fatal(frame[u].ev)'
      BY <1>3, <1>5, <2>2, <3>1 DEF WaitingOK, Kind
    <3> QED
      BY <2>2, <2>5, <3>1 DEF WaitingOK
  <2> QED
    BY <1>4, <1>7, <2>2, <2>3, <2>4, <2>6, <2>7, BusyStep
<1>9. CASE ~ports /\ "signal" \notin enabled
  <2>1. ~alive' /\ UNCHANGED <<pc, frame, queue>>
    BY <1>1, <1>9 DEF Fault, Signal
  <2>2. DeathOK'
    BY <1>1, <1>6, <1>9 DEF DeathOK
  <2>3. NumbersOK'
    BY <1>1, <1>5, <2>1 DEF NumbersOK
  <2>4. WaitingOK'
    BY <1>3, <1>5, <2>1 DEF WaitingOK, Kind
  <2>5. Kind(t)' = Kind(t) /\ Ctx(t)' = Ctx(t) /\ (Fatal(frame[t].ev)' <=> Fatal(frame[t].ev))
    BY <1>5, <2>1, SameContext DEF Kind
  <2>6. Kind(t) \notin NonFatalOrigins
    BY <1>3, <1>9 DEF BusyOK, ReportOK, LastResort
  <2>7. ReportOK(t)'
    BY <2>5, <2>6 DEF ReportOK
  <2>8. CrashOK(t)'
    BY <1>1, <1>3, <2>1, <2>5 DEF BusyOK, CrashOK
  <2>9. WriterOK(t)'
    BY <1>1, <1>3, <1>5, <2>1, <2>5 DEF BusyOK, WriterOK
  <2>10. BusyOK(t)'
    BY <1>6, <2>7, <2>8, <2>9 DEF BusyOK, SavedOK
  <2>11. pc'[t] # "idle"
    BY <1>2, <2>1 DEF AtRest
  <2> QED
    BY <1>4, <1>7, <2>1, <2>2, <2>3, <2>4, <2>10, <2>11, BusyStep
<1> QED
  BY <1>8, <1>9

\* A thread that ends while it waits or writes, and a step that changes nothing here.
LEMMA QuietRecord ==
  ASSUME TypeInv, RecordInv, UNCHANGED <<frame, queue, reporterVars>>,
         \A u \in Threads : \/ pc'[u] = pc[u]
                            \/ pc'[u] = "dead" /\ pc[u] # "blocked"
  PROVE  RecordInv'
<1>1. \A u \in Threads : Busy(u)' => Busy(u) /\ pc'[u] = pc[u]
  BY DEF Busy, AtRest, RecordInv, OneAtATime
<1>2. NumbersOK' /\ FilesOK' /\ DeathOK'
  BY SameRecord DEF RecordInv, NumbersOK
<1>3. /\ (\A e : Fatal(e)' <=> Fatal(e)) /\ (Crashed' <=> Crashed)
      /\ CrashReports' = CrashReports /\ (Saved' <=> Saved)
      /\ UNCHANGED <<handling, crashedDuring, enabled, ctx, files, lastPath, nested, queue>>
      /\ \A u \in Threads : Kind(u)' = Kind(u) /\ Ctx(u)' = Ctx(u)
  BY SameEvents, SameReports, SameContext DEF reporterVars, Kind
<1>4. Sources \subseteq Threads
  BY ThreadsAssumption DEF Threads
<1>5. OneAtATime'
  <2>1. \A u \in queue : u \in Threads /\ pc'[u] = "blocked"
    BY DEF RecordInv, OneAtATime, TypeInv, TypeOK, ReporterOK
  <2>2. \A s \in Sources : pc'[s] = "idle" => pc[s] = "idle"
    BY <1>4
  <2> QED
    BY <1>1, <1>3, <2>1, <2>2 DEF RecordInv, OneAtATime
<1>6. WaitingOK'
  BY <1>3 DEF RecordInv, WaitingOK
<1>7. IdleOK'
  BY <1>3, <1>4 DEF RecordInv, IdleOK
<1>8. ASSUME NEW t \in Threads, Busy(t)' PROVE BusyOK(t)'
  <2>1. BusyOK(t) /\ pc'[t] = pc[t]
    BY <1>1, <1>8 DEF RecordInv
  <2>2. ReportOK(t)' /\ CrashOK(t)'
    BY <1>3, <2>1 DEF BusyOK, ReportOK, CrashOK
  <2>3. WriterOK(t)' /\ SavedOK(t)'
    BY <1>3, <2>1 DEF BusyOK, WriterOK, SavedOK
  <2> QED
    BY <2>2, <2>3 DEF BusyOK
<1> QED
  BY <1>2, <1>5, <1>6, <1>7, <1>8 DEF RecordInv

\* EndCancelled and Spawn.
LEMMA EndCancelledRecord ==
  ASSUME TypeInv, RecordInv, NEW t \in Threads, EndCancelled(t) \/ Spawn(t)
  PROVE  RecordInv'
<1>1. UNCHANGED <<frame, queue, reporterVars>>
  BY DEF EndCancelled, Spawn, threadVars, coreVars, machVars, diskVars, envVars,
     reporterVars
<1>2. \A u \in Threads : pc'[u] = pc[u] \/ (pc'[u] = "dead" /\ pc[u] # "blocked")
  BY DEF EndCancelled, Spawn, threadVars, Goto, CancellationPoints, TypeInv, TypeOK,
     ThreadsOK
<1> QED
  BY <1>1, <1>2, QuietRecord

(***************************************************************************)
(* One report of a crash.                                                  *)
(***************************************************************************)
\* Initially the application runs and there is no report.
LEMMA InitRecord == ASSUME LastResort PROVE Init => RecordInv
<1> SUFFICES ASSUME Init PROVE RecordInv
  OBVIOUS
<1>1. \A t \in Threads : ~Busy(t) /\ pc[t] \notin {"blocked"}
  BY DEF Init, Busy, AtRest
<1>2. ~Crashed /\ CrashReports = {}
  BY DEF Init, Crashed, CrashReports, NoFile
<1>3. OneAtATime /\ WaitingOK
  BY <1>1 DEF Init, OneAtATime, WaitingOK
<1>4. NumbersOK
  BY DEF Init, NumbersOK, IdleFrame, NoFile
<1>5. IdleOK
  BY <1>2 DEF Init, IdleOK
<1>6. FilesOK
  BY <1>2 DEF Init, FilesOK, NoFile
<1>7. DeathOK
  BY DEF Init, DeathOK, LastResort, NoFile
<1> QED
  BY <1>1, <1>3, <1>4, <1>5, <1>6, <1>7 DEF RecordInv

\* Every step keeps RecordInv.
LEMMA NextRecord ==
  ASSUME OneSource, LastResort
  PROVE  TypeInv /\ RecordInv /\ [Next]_vars => RecordInv'
<1> SUFFICES ASSUME TypeInv, RecordInv, [Next]_vars PROVE RecordInv'
  OBVIOUS
<1>1. CASE UNCHANGED vars
  <2>1. UNCHANGED <<pc, frame, queue, reporterVars>>
    BY <1>1 DEF vars, threadVars, coreVars, machVars, diskVars, envVars, reporterVars
  <2> QED
    BY <2>1, QuietRecord
<1>2. ASSUME NEW t \in Threads, Step(t) PROVE RecordInv'
  BY <1>2, PassRecord, NotifyFatalRecord, MarkFatalRecord, DisableMachRecord,
     UninstallMachRecord, EndCancelledRecord, DisableOthersRecord,
     ActivateSecondaryRecord, FillContextRecord, HandleExceptionRecord, NoteCrashRecord,
     ChoosePathRecord, CreateRecord, CompleteRecord, RenameOldRecord, EmbedRecord,
     ConcludeRecord, LeaveRecord, DeliverRecord, ReceiveRecord DEF Step, PassAction
<1>3. ASSUME NEW t \in Threads, Env(t) PROVE RecordInv'
  BY <1>3, NewEventOnRecord, HandlerFaultRecord, EndCancelledRecord DEF Env
<1> QED
  BY <1>1, <1>2, <1>3 DEF Next, Rest

\* "The reporter will record the next crash and then terminate the program"
\* (GrowingCrashC.h:60): a process leaves at most one report of a crash, and one that has
\* died of a crash, if no handler crashed, leaves a complete one.  For any threads, any
\* number of events, and any number of crashes of the handlers, if one thread of the
\* application crashes or reports and the signal and user monitors are enabled.
THEOREM OneReportOfCrash ==
  ASSUME OneSource, LastResort PROVE Spec => []NextCrashRecordedOnce
<1>1. Init => TypeInv /\ RecordInv
  BY InitType, InitRecord
<1>2. TypeInv /\ RecordInv /\ [Next]_vars => (TypeInv /\ RecordInv)'
  BY NextType, NextRecord
<1>3. RecordInv => NextCrashRecordedOnce
  <2> SUFFICES ASSUME RecordInv PROVE OneCrashReport /\ NextCrashRecorded
    BY DEF NextCrashRecordedOnce
  <2>1. OneCrashReport
    <3>1. CrashReports \subseteq {lastPath}
      BY DEF RecordInv, FilesOK
    <3>2. IsFiniteSet({lastPath}) /\ Cardinality({lastPath}) = 1
      BY FS_Singleton
    <3>3. IsFiniteSet(CrashReports) /\ Cardinality(CrashReports) <= 1
      BY <3>1, <3>2, FS_Subset
    <3> QED
      BY <3>3 DEF OneCrashReport, CrashReports
  <2>2. NextCrashRecorded
    <3>1. ~alive /\ nested = 0 => Saved
      BY DEF RecordInv, DeathOK
    <3> QED
      BY <3>1 DEF NextCrashRecorded, Saved
  <2> QED
    BY <2>1, <2>2
<1> QED
  BY <1>1, <1>2, <1>3, PTL DEF Spec

(***************************************************************************)
(* The Mach threads.                                                       *)
(***************************************************************************)
\* A step that moves one thread only.
LEMMA MachStep ==
  ASSUME TypeInv, MachInv, NEW t \in Threads,
         \A u \in Threads \ {t} : pc'[u] = pc[u] /\ Kind(u)' = Kind(u),
         ports' => ports, UNCHANGED <<known, cancelled>>,
         queue' \subseteq queue \cup {t}, cancelled # {} => queue' = {},
         t \in cancelled => ~Busy(t)',
         t \in Handlers => pc'[t] # "blocked",
         t = Sec /\ ports' => pc'[t] = pc[t],
         t = Pri /\ ports' => /\ pc'[t] \in MachLabels
                              /\ pc'[t] # "wait" => Kind(t)' = "mach",
         ports' => /\ pc'[t] # "mask"
                   /\ "mach" \in enabled' \/ \E u \in Threads : pc'[u] = "uninstall"
  PROVE  MachInv'
<1>1. Pri \in Threads /\ Sec \in Threads /\ Handlers = {Pri, Sec} /\ Pri # Sec
  BY ThreadsAssumption DEF Threads, Handlers
<1>2. PortsOK'
  BY <1>1 DEF MachInv, PortsOK
<1>3. \A h \in Handlers : pc'[h] # "blocked"
  BY <1>1 DEF MachInv
<1>4. \A h \in cancelled : ~Busy(h)'
  <2> SUFFICES ASSUME NEW h \in cancelled, h # t PROVE ~Busy(h)'
    OBVIOUS
  <2>1. ~Busy(h) /\ queue' = {}
    BY DEF MachInv
  <2>2. pc'[h] = pc[h]
    BY DEF TypeInv, TypeOK, ReporterOK, Threads
  <2> QED
    BY <2>1, <2>2 DEF Busy
<1>5. cancelled' # {} => ~ports' /\ queue' = {}
  BY DEF MachInv
<1> QED
  BY <1>2, <1>3, <1>4, <1>5 DEF MachInv

\* While the ports are ours and nobody uninstalls, the Mach monitor is enabled.
LEMMA MachEnabled ==
  ASSUME TypeInv, RecordInv, MachInv, NEW t \in Threads, pc[t] \notin AtRest,
         pc[t] # "uninstall", ports
  PROVE  /\ "mach" \in enabled /\ pc[t] # "mask" /\ t # Sec
         /\ t = Pri => pc[t] \in MachLabels /\ Kind(t) = "mach"
<1>1. \A u \in Threads \ {t} : pc[u] \in AtRest
  BY MoverIsAlone DEF RecordInv
<1>2. PortsOK
  BY DEF MachInv
<1> QED
  BY <1>1, <1>2 DEF PortsOK, AtRest

\* A step of the thread that runs a handler, on its way to the next label.
LEMMA MachMove ==
  ASSUME TypeInv, RecordInv, MachInv, NEW t \in Threads, pc[t] \notin AtRest,
         pc[t] # "uninstall", pc'[t] # "blocked",
         \A u \in Threads \ {t} : pc'[u] = pc[u] /\ Kind(u)' = Kind(u),
         UNCHANGED <<ports, known, cancelled, queue>>,
         ports => /\ pc'[t] # "mask"
                  /\ t = Pri => pc'[t] \in MachLabels /\ Kind(t)' = Kind(t)
                  /\ "mach" \in enabled' \/ pc'[t] = "uninstall"
  PROVE  MachInv'
<1>1. ports => /\ t # Sec
               /\ t = Pri => Kind(t) = "mach"
  BY MachEnabled
<1>2. t \notin cancelled
  BY DEF MachInv, Busy
<1>3. cancelled # {} => queue' = {}
  BY DEF MachInv
<1> QED
  BY <1>1, <1>2, <1>3, MachStep

\* The entry of a handler, the suspension and the resumption.
LEMMA PassMach ==
  ASSUME TypeInv, RecordInv, MachInv, NEW t \in Threads, PassAction(t)
  PROVE  MachInv'
<1>1. /\ Passes(t) /\ pc[t] # "route"
      /\ UNCHANGED <<enabled, ports, known, cancelled, queue>>
      /\ \A u \in Threads \ {t} : pc'[u] = pc[u] /\ Kind(u)' = Kind(u)
      /\ Kind(t)' = Kind(t)
  BY PassMoves DEF reporterVars, Kind
<1>2. /\ pc[t] \notin AtRest /\ pc[t] # "uninstall"
      /\ pc'[t] \notin {"blocked", "mask"}
  BY <1>1 DEF Passes, AtRest, AfterSuspend
<1>3. Kind(t) = "mach" /\ pc[t] \in MachLabels => pc'[t] \in MachLabels
  BY <1>1 DEF Passes, MachLabels, AfterSuspend, Notifies, Kinds, UserKinds, NonFatalOrigins
<1> QED
  BY <1>1, <1>2, <1>3, MachEnabled, MachMove

\* The capture: the primary Mach thread gives up the ports before it writes.
LEMMA CaptureMach ==
  ASSUME TypeInv, RecordInv, MachInv, NEW t \in Threads, CaptureAction(t)
  PROVE  MachInv'
<1>1. CaptureMove(t)
  BY CaptureMoves
<1>2. /\ \A u \in Threads \ {t} : pc'[u] = pc[u] /\ Kind(u)' = Kind(u)
      /\ Kind(t)' = Kind(t) /\ pc'[t] # "blocked"
  BY <1>1 DEF CaptureMove, Kind, Capturing, Vulnerable
<1>3. /\ pc[t] \notin AtRest /\ UNCHANGED <<ports, known, cancelled, queue>>
      /\ pc[t] # "uninstall"
  <2>1. pc[t] \notin AtRest
    BY WriterKnows
  <2> QED
    BY <2>1
       DEF CaptureAction, NotifyFatal, MarkFatal, DisableMach, DisableOthers, FillContext,
       HandleException, NoteCrash, ChoosePath, CreateReport, WriteReport, RenameOld,
       CreateRecrash, EmbedOld, RemoveOld, WriteRecrash, Conclude, machVars, At
<1>4. ports => /\ "mach" \in enabled /\ pc[t] # "mask"
               /\ t = Pri => pc[t] \in MachLabels /\ Kind(t) = "mach"
  BY <1>3, MachEnabled
<1>5. CASE NotifyFatal(t)
  <2>1. pc'[t] = "mark" /\ enabled' = enabled
    BY <1>5 DEF NotifyFatal, Goto, TypeInv, TypeOK, ThreadsOK
  <2> QED
    BY <1>2, <1>3, <1>4, <2>1, MachMove DEF MachLabels
<1>6. CASE MarkFatal(t)
  <2>1. /\ pc'[t] \in {"disable", "route", "fill"} /\ enabled' = enabled
        /\ Kind(t) = "mach" => pc'[t] # "fill"
    BY <1>6 DEF MarkFatal, Goto, TypeInv, TypeOK, ThreadsOK
  <2> QED
    BY <1>2, <1>3, <1>4, <2>1, MachMove DEF MachLabels
<1>7. CASE DisableMach(t)
  <2>1. "mach" \in enabled => pc'[t] = "uninstall"
    BY <1>7 DEF DisableMach, Goto, TypeInv, TypeOK, ThreadsOK
  <2> QED
    BY <1>2, <1>3, <1>4, <2>1, MachMove DEF MachLabels
<1>8. CASE DisableOthers(t)
  <2>1. ~ports
    BY <1>4, <1>8 DEF DisableOthers, At
  <2> QED
    BY <1>2, <1>3, <2>1, MachMove
<1>9. CASE ~(NotifyFatal(t) \/ MarkFatal(t) \/ DisableMach(t) \/ DisableOthers(t))
  <2>1. pc[t] \in Vulnerable /\ enabled' = enabled
    BY <1>9
       DEF CaptureAction, FillContext, HandleException, NoteCrash, ChoosePath,
       CreateReport, WriteReport, RenameOld, CreateRecrash, EmbedOld, RemoveOld,
       WriteRecrash, Conclude, At, Vulnerable
  <2>2. pc'[t] # "mask"
    BY <1>9
       DEF CaptureAction, FillContext, HandleException, NoteCrash, ChoosePath,
       CreateReport, WriteReport, RenameOld, CreateRecrash, EmbedOld, RemoveOld,
       WriteRecrash, Conclude, Goto, TypeInv, TypeOK, ThreadsOK
  <2>3. ports => t # Pri
    BY <1>4, <2>1 DEF MachLabels, Vulnerable
  <2> QED
    BY <1>2, <1>3, <1>4, <2>1, <2>2, <2>3, MachMove
<1> QED
  BY <1>5, <1>6, <1>7, <1>8, <1>9

\* ActivateSecondary: the primary thread has given up the ports.
LEMMA ActivateSecondaryMach ==
  ASSUME TypeInv, RecordInv, MachInv, NEW t \in Threads, ActivateSecondary(t)
  PROVE  MachInv'
<1>1. /\ pc[t] = "route" /\ UNCHANGED <<frame, enabled, known, cancelled, queue>>
  BY DEF ActivateSecondary, At
<1>2. pc[t] \notin AtRest /\ pc[t] # "uninstall" /\ \A u \in Threads : Kind(u)' = Kind(u)
  BY <1>1 DEF AtRest, Kind
<1>3. CASE t = Pri /\ Pri \in known
  <2>1. /\ ~ports' /\ pc'[t] = "fill"
        /\ \A u \in Threads \ {t} : pc'[u] = pc[u] \/ pc'[u] = "wait"
    BY <1>3, ThreadsAssumption
       DEF ActivateSecondary, TypeInv, TypeOK, ThreadsOK, Handlers, Threads
  <2>2. \A h \in Handlers : h \in Threads
    BY DEF Threads
  <2>3. PortsOK' /\ \A h \in Handlers : pc'[h] # "blocked"
    BY <2>1, <2>2 DEF MachInv, PortsOK
  <2>4. \A h \in cancelled : h \in Threads /\ h # t /\ ~Busy(h)
    BY <1>2, <2>2 DEF MachInv, Busy, TypeInv, TypeOK, ReporterOK
  <2>5. \A h \in cancelled : ~Busy(h)'
    BY <1>1, <2>1, <2>4 DEF Busy, AtRest
  <2> QED
    BY <1>1, <2>1, <2>3, <2>5 DEF MachInv
<1>4. CASE ~(t = Pri /\ Pri \in known)
  <2>1. /\ ports' = ports /\ pc'[t] = "fill" /\ \A u \in Threads \ {t} : pc'[u] = pc[u]
    BY <1>4 DEF ActivateSecondary, Goto, TypeInv, TypeOK, ThreadsOK
  <2>2. ports => t # Pri /\ "mach" \in enabled
    BY <1>2, <1>4, MachEnabled DEF MachInv, PortsOK
  <2> QED
    BY <1>1, <1>2, <2>1, <2>2, MachMove
<1> QED
  BY <1>3, <1>4

\* UninstallMach: the threads that it cancels run no handler, for it runs one itself.
LEMMA UninstallMachMach ==
  ASSUME TypeInv, RecordInv, MachInv, NEW t \in Threads, UninstallMach(t)
  PROVE  MachInv'
<1>1. /\ pc[t] = "uninstall" /\ ~ports' /\ pc'[t] = "mask"
      /\ \A u \in Threads \ {t} : pc'[u] = pc[u] \/ pc'[u] = "dead"
      /\ queue' = queue /\ \A h \in cancelled' : h \in cancelled \/ h \in known \ {t}
  BY DEF UninstallMach, At
<1>2. queue = {} /\ Alone(t) /\ Busy(t)
  BY <1>1, MoverIsAlone DEF AtRest, RecordInv, Busy
<1>3. \A h \in Handlers : h \in Threads
  BY DEF Threads
<1>4. \A h \in cancelled' : h \in Threads \ {t} /\ ~Busy(h)
  BY <1>1, <1>2, <1>3 DEF Alone, MachInv, TypeInv, TypeOK, ReporterOK
<1>5. \A h \in cancelled' : ~Busy(h)'
  BY <1>1, <1>2, <1>4 DEF Busy, AtRest
<1>6. \A h \in Handlers : pc'[h] # "blocked"
  BY <1>1, <1>3 DEF MachInv
<1> QED
  BY <1>1, <1>2, <1>5, <1>6 DEF MachInv, PortsOK

\* What a signal does to the thread that it reaches.
LEMMA SignalMoves ==
  ASSUME TypeInv, NEW t \in Threads, NEW e, Signal(t, e)
  PROVE  /\ \A u \in Threads \ {t} : pc'[u] = pc[u] /\ frame'[u] = frame[u]
         /\ \/ pc'[t] \in {"enter", "suspend"} /\ alive' = alive
            \/ UNCHANGED <<pc, frame>> /\ ~alive'
<1>1. CASE "signal" \in enabled
  <2>1. Start(t, "signal", e) /\ alive' = alive
    BY <1>1 DEF Signal
  <2> QED
    BY <2>1, Started DEF Kinds
<1>2. CASE "signal" \notin enabled
  BY <1>2 DEF Signal
<1> QED
  BY <1>1, <1>2

\* Leave: a thread that waits for a Mach handler is not one of its own.
LEMMA LeaveMoves ==
  ASSUME TypeInv, NEW t \in Threads, Leave(t)
  PROVE  /\ pc[t] = "leave"
         /\ UNCHANGED <<ports, known, cancelled, queue, enabled, files, aside, written, nested>>
         /\ \/ /\ \A u \in Threads \ {t} : pc'[u] = pc[u] /\ frame'[u] = frame[u]
               /\ \/ pc'[t] \in {"idle", "done"} /\ frame' = frame /\ alive' = alive
                  \/ /\ Kind(t) # "mach"
                     /\ \/ pc'[t] \in {"enter", "suspend"} /\ alive' = alive
                        \/ UNCHANGED <<pc, frame>> /\ ~alive'
            \/ /\ pc'[t] = "done" /\ frame' = frame /\ alive' = alive
               /\ \A u \in Threads \ {t} : \/ pc'[u] = pc[u]
                                           \/ pc[u] = "blocked" /\ pc'[u] = "signalled"
<1>1. pc[t] = "leave"
  BY DEF Leave, At
<1>2. UNCHANGED <<ports, known, cancelled, queue, enabled, files, aside, written, nested>>
  BY DEF Leave, machVars, diskVars, envVars
<1>3. CASE Kind(t) = "snapshot"
  BY <1>1, <1>2, <1>3 DEF Leave, Goto, TypeInv, TypeOK, ThreadsOK
<1>4. CASE Kind(t) = "mach"
  BY <1>1, <1>2, <1>4 DEF Leave, Goto, TypeInv, TypeOK, ThreadsOK
<1>5. CASE Kind(t) \notin {"snapshot", "mach"}
  <2>1. \/ Start(t, "nsexception", frame[t].ev) /\ alive' = alive
        \/ Signal(t, frame[t].ev)
    BY <1>5 DEF Leave
  <2>2. CASE Start(t, "nsexception", frame[t].ev) /\ alive' = alive
    BY <1>1, <1>2, <1>5, <2>2, Started DEF Kinds
  <2>3. CASE Signal(t, frame[t].ev)
    BY <1>1, <1>2, <1>5, <2>3, SignalMoves
  <2> QED
    BY <2>1, <2>2, <2>3
<1> QED
  BY <1>3, <1>4, <1>5

LEMMA LeaveMach ==
  ASSUME TypeInv, RecordInv, MachInv, NEW t \in Threads, Leave(t)
  PROVE  MachInv'
<1>1. /\ pc[t] = "leave" /\ pc[t] \notin AtRest /\ pc[t] # "uninstall"
      /\ UNCHANGED <<ports, known, cancelled, queue, enabled>>
  BY LeaveMoves DEF AtRest
<1>2. ports => "mach" \in enabled /\ (t = Pri => Kind(t) = "mach")
  BY <1>1, MachEnabled
<1>3. CASE /\ \A u \in Threads \ {t} : pc'[u] = pc[u] /\ frame'[u] = frame[u]
           /\ \/ pc'[t] = "done" /\ frame' = frame
              \/ pc'[t] \in {"idle", "enter", "suspend", "leave"} /\ Kind(t) # "mach"
  BY <1>1, <1>2, <1>3, MachMove DEF Kind, MachLabels
<1>4. CASE /\ pc'[t] = "done" /\ frame' = frame
           /\ \A u \in Threads \ {t} : \/ pc'[u] = pc[u]
                                       \/ pc[u] = "blocked" /\ pc'[u] = "signalled"
  <2>1. \A h \in Handlers : h \in Threads
    BY DEF Threads
  <2>2. \A h \in Handlers \ {t} : pc'[h] = pc[h]
    BY <1>4, <2>1 DEF MachInv
  <2>3. \A u \in Threads : pc'[u] \in {pc[u], "done", "signalled"}
    BY <1>4
  <2>4. PortsOK'
    <3>1. ports => t # Sec
      BY <1>1, MachEnabled
    <3>2. \A u \in Threads : Kind(u)' = Kind(u)
      BY <1>4 DEF Kind
    <3>3. Pri \in Handlers /\ Sec \in Handlers
      BY DEF Handlers
    <3> QED
      BY <1>1, <1>2, <1>4, <2>1, <2>2, <2>3, <3>1, <3>2, <3>3
         DEF PortsOK, MachInv, MachLabels
  <2>5. \A h \in Handlers : pc'[h] # "blocked"
    BY <1>4, <2>2 DEF MachInv
  <2>6. \A h \in cancelled : ~Busy(h)'
    <3>1. t \notin cancelled
      BY <1>1 DEF MachInv, Busy
    <3>2. \A h \in cancelled : h \in Handlers \ {t}
      BY <3>1 DEF TypeInv, TypeOK, ReporterOK
    <3> QED
      BY <1>1, <2>2, <3>2 DEF MachInv, Busy
  <2> QED
    BY <1>1, <2>4, <2>5, <2>6 DEF MachInv
<1>5. Kind(t) = "snapshot" => Kind(t) # "mach"
  OBVIOUS
<1>6. pc'[t] = "idle" => Kind(t) # "mach"
  <2>1. CASE Kind(t) = "mach"
    BY <1>1, <2>1 DEF Leave, Goto, TypeInv, TypeOK, ThreadsOK
  <2> QED
    BY <2>1
<1> QED
  BY <1>1, <1>3, <1>4, <1>6, LeaveMoves

LEMMA DeliverMach ==
  ASSUME TypeInv, RecordInv, MachInv, NEW t \in Threads, Deliver(t)
  PROVE  MachInv'
<1>1. /\ pc[t] = "signalled" /\ Signal(t, frame[t].ev)
      /\ UNCHANGED <<ports, known, cancelled, queue, enabled>>
  BY DEF Deliver, At, machVars
<1>2. /\ \A u \in Threads \ {t} : pc'[u] = pc[u] /\ frame'[u] = frame[u]
      /\ pc'[t] \in {"enter", "suspend", "signalled"}
  BY <1>1, SignalMoves
<1>3. ports => "mach" \in enabled /\ t # Pri
  BY <1>1, MachEnabled DEF AtRest, MachLabels
<1> QED
  BY <1>1, <1>2, <1>3, MachMove DEF Kind, AtRest

\* Receive: while a thread waits for a handler, no Mach thread is cancelled.
LEMMA ReceiveMach ==
  ASSUME TypeInv, RecordInv, MachInv, NEW t \in Threads, Receive(t)
  PROVE  MachInv'
<1>1. /\ pc[t] = "wait" /\ pc'[t] = "enter" /\ queue # {} /\ queue' \subseteq queue
      /\ UNCHANGED <<ports, known, cancelled, enabled>>
      /\ \A u \in Threads \ {t} : pc'[u] = pc[u] /\ Kind(u)' = Kind(u)
      /\ Kind(t)' = "mach"
  BY DEF Receive, At, Kind, IdleFrame, TypeInv, TypeOK, ThreadsOK
<1>2. cancelled = {}
  BY <1>1 DEF MachInv
<1>3. ports => /\ t # Sec
               /\ "mach" \in enabled' \/ \E u \in Threads : pc'[u] = "uninstall"
  <2>1. ports => /\ pc[Sec] = "parked"
                 /\ "mach" \in enabled \/ \E u \in Threads \ {t} : pc[u] = "uninstall"
    BY <1>1 DEF MachInv, PortsOK
  <2> QED
    BY <1>1, <2>1
<1> QED
  BY <1>1, <1>2, <1>3, MachStep DEF MachLabels

\* NewEventOn: only threads of the application start events.
LEMMA NewEventOnMach ==
  ASSUME TypeInv, OneSource, LastResort, RecordInv, MachInv, NEW t \in Threads,
         NEW o \in Origins, NewEventOn(t, o)
  PROVE  MachInv'
<1>1. /\ pc[t] = "idle" /\ t \in Sources /\ UNCHANGED <<ports, known, cancelled, enabled>>
      /\ t \notin Handlers
  BY ThreadsAssumption DEF NewEventOn, At, Handlers
<1>2. "signal" \in enabled /\ (ports => "mach" \in enabled)
  <2>1. enabled = Monitored
    BY <1>1 DEF RecordInv, IdleOK
  <2>2. \A u \in Threads : pc[u] # "uninstall"
    BY <1>1 DEF RecordInv, OneAtATime, Busy, AtRest
  <2> QED
    BY <2>1, <2>2 DEF LastResort, MachInv, PortsOK
<1>3. CASE \E k \in Kinds : Start(t, k, events + 1) /\ queue' = queue
  <2>1. /\ pc'[t] \in {"enter", "suspend"} /\ queue' = queue
        /\ \A u \in Threads \ {t} : pc'[u] = pc[u] /\ frame'[u] = frame[u]
    BY <1>3, Started
  <2>2. cancelled # {} => queue' = {}
    BY <2>1 DEF MachInv
  <2> QED
    BY <1>1, <1>2, <2>1, <2>2, MachStep DEF Kind, Handlers, TypeInv, TypeOK, ReporterOK
<1>4. CASE /\ ports /\ queue' = queue \cup {t}
           /\ pc' = [pc EXCEPT ![t] = "blocked"]
           /\ frame' = [frame EXCEPT ![t] = [IdleFrame(t) EXCEPT !.ev = events + 1]]
  <2>1. /\ pc'[t] = "blocked"
        /\ \A u \in Threads \ {t} : pc'[u] = pc[u] /\ frame'[u] = frame[u]
    BY <1>4 DEF TypeInv, TypeOK, ThreadsOK
  <2>2. cancelled = {}
    BY <1>4 DEF MachInv
  <2> QED
    BY <1>1, <1>2, <1>4, <2>1, <2>2, MachStep DEF Kind, Handlers
<1>5. o = "fault" /\ ~ports => \E k \in Kinds : Start(t, k, events + 1) /\ queue' = queue
  BY <1>2 DEF NewEventOn, Fault, Signal, Kinds
<1>6. \/ \E k \in Kinds : Start(t, k, events + 1) /\ queue' = queue
      \/ /\ o = "fault" /\ queue' = queue \cup {t}
         /\ pc' = [pc EXCEPT ![t] = "blocked"]
         /\ frame' = [frame EXCEPT ![t] = [IdleFrame(t) EXCEPT !.ev = events + 1]]
  BY <1>2, EventHandler
<1> QED
  BY <1>3, <1>4, <1>5, <1>6

\* HandlerFault: a Mach thread that crashes has given up the ports.
LEMMA HandlerFaultMach ==
  ASSUME TypeInv, RecordInv, MachInv, NEW t \in Threads, HandlerFault(t)
  PROVE  MachInv'
<1>1. /\ pc[t] \in Vulnerable /\ Fault(t, events + 1)
      /\ UNCHANGED <<ports, known, cancelled, enabled>>
  BY DEF HandlerFault
<1>2. /\ pc[t] \notin AtRest /\ pc[t] \notin {"uninstall", "mask"} /\ pc[t] \notin MachLabels
  BY <1>1 DEF Vulnerable, AtRest, MachLabels
<1>3. t \notin cancelled
  BY <1>2 DEF MachInv, Busy
<1>4. CASE ports
  <2>1. /\ pc'[t] = "blocked" /\ queue' = queue \cup {t}
        /\ \A u \in Threads \ {t} : pc'[u] = pc[u] /\ frame'[u] = frame[u]
    BY <1>1, <1>4 DEF Fault, TypeInv, TypeOK, ThreadsOK
  <2>2. t \notin Handlers /\ "mach" \in enabled /\ cancelled = {}
    BY <1>2, <1>4, MachEnabled DEF Handlers, MachInv
  <2> QED
    BY <1>1, <1>3, <1>4, <2>1, <2>2, MachStep DEF Kind, Handlers
<1>5. CASE ~ports
  <2>1. Signal(t, events + 1) /\ queue' = queue
    BY <1>1, <1>5 DEF Fault
  <2>2. /\ \A u \in Threads \ {t} : pc'[u] = pc[u] /\ frame'[u] = frame[u]
        /\ pc'[t] \in {"enter", "suspend"} \cup Vulnerable
    BY <1>1, <2>1, SignalMoves
  <2>3. pc'[t] # "blocked"
    BY <2>2 DEF Vulnerable
  <2> QED
    BY <1>1, <1>2, <1>5, <2>1, <2>2, <2>3, MachMove DEF Kind
<1> QED
  BY <1>4, <1>5

\* EndCancelled, Spawn, and a step that changes nothing here.
LEMMA QuietMach ==
  ASSUME TypeInv, MachInv, UNCHANGED <<frame, ports, known, cancelled, queue, enabled>>,
         \A u \in Threads : \/ pc'[u] = pc[u]
                            \/ pc'[u] = "dead" /\ u \in cancelled
  PROVE  MachInv'
<1>1. \A u \in Threads : Kind(u)' = Kind(u)
  BY DEF Kind
<1>2. \A h \in Handlers : h \in Threads
  BY DEF Threads
<1>3. ports => \A u \in Threads : pc'[u] = pc[u]
  BY DEF MachInv
<1>4. PortsOK'
  BY <1>1, <1>2, <1>3 DEF MachInv, PortsOK, Handlers
<1>5. \A h \in cancelled : ~Busy(h)'
  <2> SUFFICES ASSUME NEW h \in cancelled PROVE ~Busy(h)'
    OBVIOUS
  <2>1. h \in Threads /\ ~Busy(h)
    BY <1>2 DEF MachInv, TypeInv, TypeOK, ReporterOK
  <2> QED
    BY <2>1 DEF Busy, AtRest
<1>6. \A h \in Handlers : pc'[h] # "blocked"
  BY <1>2 DEF MachInv
<1> QED
  BY <1>4, <1>5, <1>6 DEF MachInv

\* Initially the primary Mach thread waits, and the secondary one is parked.
LEMMA InitMach == Init => MachInv
<1> SUFFICES ASSUME Init PROVE MachInv
  OBVIOUS
<1>1. /\ \A t \in Threads : pc[t] \in {"idle", "wait", "parked", "done"}
      /\ ports => pc[Pri] = "wait" /\ pc[Sec] = "parked"
  BY ThreadsAssumption DEF Init, Threads, Handlers
<1>2. PortsOK
  BY <1>1 DEF Init, PortsOK, MachLabels, Handlers
<1> QED
  BY <1>1, <1>2 DEF Init, MachInv, Threads

\* Every step keeps MachInv.
LEMMA NextMach ==
  ASSUME OneSource, LastResort
  PROVE  TypeInv /\ RecordInv /\ MachInv /\ [Next]_vars => MachInv'
<1> SUFFICES ASSUME TypeInv, RecordInv, MachInv, [Next]_vars PROVE MachInv'
  OBVIOUS
<1>1. CASE UNCHANGED vars
  BY <1>1, QuietMach DEF vars, threadVars, machVars
<1>2. ASSUME NEW t \in Threads, EndCancelled(t) \/ Spawn(t) PROVE MachInv'
  BY <1>2, QuietMach
     DEF EndCancelled, Spawn, Goto, threadVars, machVars, TypeInv, TypeOK, ThreadsOK
<1>3. ASSUME NEW t \in Threads, Step(t) PROVE MachInv'
  BY <1>2, <1>3, PassMach, CaptureMach, ActivateSecondaryMach, UninstallMachMach,
     LeaveMach, DeliverMach, ReceiveMach DEF Step, PassAction, CaptureAction
<1>4. ASSUME NEW t \in Threads, Env(t) PROVE MachInv'
  BY <1>2, <1>4, NewEventOnMach, HandlerFaultMach DEF Env
<1> QED
  BY <1>1, <1>3, <1>4 DEF Next, Rest

(***************************************************************************)
(* What was written survives one crash of a handler.                       *)
(***************************************************************************)
\* Only the thread that runs a handler rewrites a report, after a crash of a handler.
LEMMA OneRewrites ==
  ASSUME TypeInv, RecordInv, NEW t \in Threads, pc[t] \notin AtRest
  PROVE  /\ \A u \in Threads \ {t} : pc[u] \notin Rewriting
         /\ pc[t] \in Rewriting => nested # 0
<1>1. \A u \in Threads \ {t} : pc[u] \in AtRest
  BY MoverIsAlone DEF RecordInv
<1>2. SavedOK(t)
  BY DEF RecordInv, Busy, BusyOK
<1> QED
  BY <1>1, <1>2 DEF AtRest, Rewriting, SavedOK

\* A step that neither writes nor leaves a report that is being rewritten.
LEMMA SurviveStep ==
  ASSUME SurviveInv, UNCHANGED <<files, aside, written, nested>>,
         \A u \in Threads :
           \/ /\ pc[u] \notin Rewriting /\ pc'[u] \notin Rewriting
           \/ pc'[u] = pc[u] /\ frame'[u].path = frame[u].path,
         ~alive' => ~alive \/ \A u \in Threads : pc'[u] \notin Rewriting
  PROVE  SurviveInv'
<1>1. \A u \in Threads : RewriteOK(u)'
  BY DEF SurviveInv, RewriteOK, Rewriting
<1>2. \A e : Kept(e)' <=> Kept(e)
  BY DEF Kept, FullReports
<1>3. \A e : \A u \in Threads : InFlight(u, e) => InFlight(u, e)'
  BY DEF InFlight, Rewriting, Embedded
<1>4. nested <= 1 /\ ~alive' => \A u \in Threads : pc'[u] \notin Rewriting
  BY DEF SurviveInv, Rewriting
<1> QED
  BY <1>1, <1>2, <1>3, <1>4 DEF SurviveInv

\* A step of the thread that runs a handler, before or after the writing.
LEMMA SurviveMove ==
  ASSUME TypeInv, RecordInv, SurviveInv, NEW t \in Threads, pc[t] \notin AtRest,
         pc[t] \notin Rewriting, pc'[t] \notin Rewriting,
         UNCHANGED <<files, aside, written, nested>>,
         \A u \in Threads \ {t} : pc'[u] = pc[u] \/ pc'[u] \notin Rewriting
  PROVE  SurviveInv'
<1>1. \A u \in Threads \ {t} : pc[u] \notin Rewriting
  BY OneRewrites
<1> QED
  BY <1>1, SurviveStep

\* A step of the writers while the process lives: nobody but t is rewriting.
LEMMA WriteStep ==
  ASSUME TypeInv, RecordInv, SurviveInv, NEW t \in Threads, CaptureAction(t),
         RewriteOK(t)',
         nested <= 1 => \A e \in written' : Kept(e)' \/ InFlight(t, e)'
  PROVE  SurviveInv'
<1>1. CaptureMove(t) /\ nested' = nested /\ alive' = alive /\ pc[t] \notin AtRest
  BY CaptureMoves, WriterKnows
<1>2. alive
  BY DEF CaptureAction, NotifyFatal, MarkFatal, DisableMach, DisableOthers, FillContext,
     HandleException, NoteCrash, ChoosePath, CreateReport, WriteReport, RenameOld,
     CreateRecrash, EmbedOld, RemoveOld, WriteRecrash, Conclude, At, Running
<1>3. \A u \in Threads \ {t} : pc'[u] \notin Rewriting
  BY <1>1, OneRewrites DEF CaptureMove
<1>4. \A u \in Threads : RewriteOK(u)'
  BY <1>3 DEF RewriteOK, Rewriting
<1> QED
  BY <1>1, <1>2, <1>4 DEF SurviveInv

\* What a writer finds: the events written so far are kept, or it has them in flight.
LEMMA WriterFinds ==
  ASSUME TypeInv, RecordInv, SurviveInv, NEW t \in Threads, CaptureAction(t), nested <= 1,
         NEW e \in written
  PROVE  Kept(e) \/ InFlight(t, e)
<1>1. pc[t] \notin AtRest
  BY WriterKnows
<1>2. \A u \in Threads \ {t} : ~InFlight(u, e)
  BY <1>1, OneRewrites DEF InFlight, Rewriting
<1> QED
  BY <1>2 DEF SurviveInv

\* CreateReport and CreateRecrash write where there is no file.
LEMMA CreateSurvives ==
  ASSUME TypeInv, RecordInv, SurviveInv, NEW t \in Threads,
         CreateReport(t) \/ CreateRecrash(t)
  PROVE  SurviveInv'
<1>0. CaptureAction(t)
  BY DEF CaptureAction
<1>1. PICK p \in ReportIds : p = frame[t].path
  BY DEF CreateReport, CreateRecrash, At, TypeInv, PathsOK
<1>2. /\ UNCHANGED <<frame, aside, written>>
      /\ \/ pc[t] = "create" /\ pc'[t] \in {"body", "conclude"}
         \/ pc[t] = "reopen" /\ pc'[t] \in {"embed", "conclude"}
      /\ files[p].state = "none" => pc'[t] # "conclude"
  BY <1>1 DEF CreateReport, CreateRecrash, At, Goto, TypeInv, TypeOK, ThreadsOK
<1>3. /\ pc[t] = "reopen" => files[p].state = "none"
      /\ files[p].state = "none" => files'[p].state = "open"
      /\ \A i \in ReportIds \ {p} : files'[i] = files[i]
      /\ files[p].state # "none" => files' = files
  <2>1. files \in [ReportIds -> Files]
    BY DEF TypeInv, TypeOK, DiskOK
  <2>2. NewReport(t).state = "open"
    BY DEF NewReport
  <2>3. pc[t] = "reopen" => files[p].state = "none"
    BY <1>1 DEF SurviveInv, RewriteOK
  <2>4. \/ files[p].state = "none" /\ files' = [files EXCEPT ![p] = NewReport(t)]
        \/ files[p].state # "none" /\ files' = files
    BY <1>1 DEF CreateReport, CreateRecrash
  <2> QED
    BY <2>1, <2>2, <2>3, <2>4
<1>4. \A e : Kept(e) => Kept(e)'
  BY <1>3 DEF Kept, FullReports
<1>5. \A e : InFlight(t, e) => InFlight(t, e)'
  BY <1>1, <1>2, <1>3 DEF InFlight, Embedded
<1>6. RewriteOK(t)'
  BY <1>1, <1>2, <1>3 DEF RewriteOK
<1> QED
  BY <1>0, <1>2, <1>4, <1>5, <1>6, WriteStep, WriterFinds

\* WriteReport and WriteRecrash: what was in flight is in the report that is complete.
LEMMA CompleteSurvives ==
  ASSUME TypeInv, RecordInv, SurviveInv, NEW t \in Threads,
         WriteReport(t) \/ WriteRecrash(t)
  PROVE  SurviveInv'
<1>0. CaptureAction(t)
  BY DEF CaptureAction
<1>1. PICK p \in ReportIds : p = frame[t].path
  BY DEF WriteReport, WriteRecrash, At, TypeInv, PathsOK
<1>2. /\ pc[t] \in {"body", "rebody"} /\ pc'[t] = "conclude"
      /\ written' = written \cup {files[p].of}
  BY <1>1 DEF WriteReport, WriteRecrash, Complete, At, Goto, TypeInv, TypeOK, ThreadsOK
<1>3. /\ files'[p].state = "full"
      /\ \A i \in ReportIds : files'[i].of = files[i].of /\ files'[i].old = files[i].old
      /\ \A i \in ReportIds \ {p} : files'[i] = files[i]
  BY <1>1 DEF WriteReport, WriteRecrash, Complete, Files, TypeInv, TypeOK, DiskOK
<1>4. \A e : Kept(e) \/ InFlight(t, e) => Kept(e)'
  <2>1. \A i \in FullReports : i \in FullReports'
    BY <1>3 DEF FullReports
  <2>2. p \in FullReports'
    BY <1>3 DEF FullReports
  <2>3. ASSUME NEW e, Kept(e) PROVE Kept(e)'
    BY <1>3, <2>1, <2>3 DEF Kept, FullReports
  <2>4. ASSUME NEW e, InFlight(t, e) PROVE Kept(e)'
    <3>1. e \in files[p].old
      BY <1>1, <1>2, <2>4 DEF InFlight
    <3> QED
      BY <1>3, <2>2, <3>1 DEF Kept
  <2> QED
    BY <2>3, <2>4
<1>5. \A e : e = files[p].of => Kept(e)'
  BY <1>3 DEF Kept, FullReports
<1>6. RewriteOK(t)'
  BY <1>2 DEF RewriteOK
<1>7. nested <= 1 => \A e \in written' : Kept(e)'
  BY <1>0, <1>2, <1>4, <1>5, WriterFinds
<1> QED
  BY <1>0, <1>6, <1>7, WriteStep

\* RenameOld: the events of the report that is put aside are in flight.
LEMMA RenameSurvives ==
  ASSUME TypeInv, RecordInv, SurviveInv, NEW t \in Threads, RenameOld(t)
  PROVE  SurviveInv'
<1>0. CaptureAction(t)
  BY DEF CaptureAction
<1>1. /\ pc[t] = "rename" /\ frame'[t].path = lastPath /\ written' = written
      /\ lastPath = 0 => pc'[t] = "conclude" /\ UNCHANGED <<files, aside>>
      /\ lastPath # 0 => pc'[t] = "reopen"
  BY DEF RenameOld, At, Goto, TypeInv, TypeOK, ThreadsOK, Frames
<1>2. \A e : ~InFlight(t, e)
  BY <1>1 DEF InFlight
<1>3. CASE lastPath = 0
  <2>1. \A e : Kept(e) => Kept(e)'
    BY <1>1, <1>3 DEF Kept, FullReports
  <2>2. RewriteOK(t)'
    BY <1>1, <1>3 DEF RewriteOK
  <2> QED
    BY <1>0, <1>1, <1>2, <2>1, <2>2, WriteStep, WriterFinds
<1>4. CASE lastPath # 0
  <2>1. PICK p \in ReportIds : p = lastPath
    BY <1>4 DEF TypeInv, TypeOK, DiskOK, Paths, ReportIds, MaxReports
  <2>2. /\ files'[p].state = "none"
        /\ \A i \in ReportIds \ {p} : files'[i] = files[i]
        /\ files[p].state # "none" => aside'[p] = files[p]
    <3>1. files \in [ReportIds -> Files] /\ aside \in [ReportIds -> Files]
      BY DEF TypeInv, TypeOK, DiskOK
    <3>2. CASE files[p].state = "none"
      BY <1>4, <2>1, <3>2 DEF RenameOld
    <3>3. CASE files[p].state # "none"
      BY <1>4, <2>1, <3>1, <3>3 DEF RenameOld, NoFile
    <3> QED
      BY <3>2, <3>3
  <2>3. frame'[t].path = p /\ pc'[t] = "reopen"
    BY <1>1, <1>4, <2>1
  <2>4. ASSUME NEW e, Kept(e) PROVE Kept(e)' \/ InFlight(t, e)'
    <3>1. PICK i \in FullReports : e = files[i].of \/ e \in files[i].old
      BY <2>4 DEF Kept
    <3>2. CASE i # p
      <4>1. i \in FullReports' /\ files'[i] = files[i]
        BY <2>2, <3>2 DEF FullReports
      <4> QED
        BY <3>1, <4>1 DEF Kept
    <3>3. CASE i = p
      <4>1. files[p].state = "full" /\ aside'[p] = files[p]
        BY <2>2, <3>3 DEF FullReports
      <4>2. e \in Embedded(files[p])
        BY <3>1, <3>3, <4>1 DEF Embedded
      <4> QED
        BY <2>3, <4>1, <4>2 DEF InFlight, Embedded
    <3> QED
      BY <3>2, <3>3
  <2>5. RewriteOK(t)'
    BY <2>2, <2>3 DEF RewriteOK
  <2> QED
    BY <1>0, <1>1, <1>2, <2>4, <2>5, WriteStep, WriterFinds
<1> QED
  BY <1>3, <1>4

\* EmbedOld and RemoveOld: ... and then in the report that is being written.
LEMMA EmbedSurvives ==
  ASSUME TypeInv, RecordInv, SurviveInv, NEW t \in Threads, EmbedOld(t) \/ RemoveOld(t)
  PROVE  SurviveInv'
<1>0. CaptureAction(t)
  BY DEF CaptureAction
<1>1. PICK p \in ReportIds : p = frame[t].path
  BY DEF EmbedOld, RemoveOld, At, TypeInv, PathsOK
<1>2. /\ UNCHANGED <<frame, written>>
      /\ pc[t] \in {"embed", "discard"} /\ pc'[t] \in {"discard", "rebody"}
      /\ files[p].state = "open"
  BY <1>1 DEF EmbedOld, RemoveOld, At, Goto, TypeInv, TypeOK, ThreadsOK, SurviveInv,
     RewriteOK
<1>3. /\ files'[p].state = "open" /\ \A i \in ReportIds \ {p} : files'[i] = files[i]
      /\ pc[t] = "embed" => files'[p].old = Embedded(aside[p])
      /\ pc[t] = "discard" => files' = files
  BY <1>1, <1>2 DEF EmbedOld, RemoveOld, At, Files, TypeInv, TypeOK, DiskOK
<1>4. \A e : Kept(e) => Kept(e)'
  BY <1>2, <1>3 DEF Kept, FullReports
<1>5. \A e : InFlight(t, e) => InFlight(t, e)'
  <2> SUFFICES ASSUME NEW e, InFlight(t, e) PROVE e \in files'[p].old
    BY <1>1, <1>2 DEF InFlight
  <2> QED
    BY <1>1, <1>2, <1>3 DEF InFlight
<1>6. RewriteOK(t)'
  BY <1>1, <1>2, <1>3 DEF RewriteOK
<1> QED
  BY <1>0, <1>2, <1>4, <1>5, <1>6, WriteStep, WriterFinds

\* The other steps of a handler: entry, suspension, the rest of the capture, resumption,
\* and the end of the handler.
LEMMA OtherSurvives ==
  ASSUME TypeInv, RecordInv, SurviveInv, NEW t \in Threads,
         \/ PassAction(t) \/ ActivateSecondary(t) \/ UninstallMach(t) \/ Leave(t)
         \/ Deliver(t) \/ NotifyFatal(t) \/ MarkFatal(t) \/ DisableMach(t)
         \/ DisableOthers(t) \/ FillContext(t) \/ HandleException(t) \/ NoteCrash(t)
         \/ ChoosePath(t) \/ Conclude(t)
  PROVE  SurviveInv'
<1>1. CASE PassAction(t)
  <2>1. Passes(t) /\ UNCHANGED <<files, aside, written, nested>>
        /\ \A u \in Threads \ {t} : pc'[u] = pc[u]
    BY <1>1, PassMoves DEF reporterVars
  <2>2. /\ pc[t] \notin AtRest /\ pc[t] \notin Rewriting /\ pc'[t] \notin Rewriting
    BY <2>1 DEF Passes, AtRest, Rewriting, AfterSuspend
  <2> QED
    BY <2>1, <2>2, SurviveMove
<1>2. CASE ActivateSecondary(t)
  <2>1. /\ pc[t] = "route" /\ pc'[t] = "fill"
        /\ UNCHANGED <<files, aside, written, nested>>
        /\ \A u \in Threads \ {t} : pc'[u] = pc[u] \/ pc'[u] = "wait"
    BY <1>2, ThreadsAssumption
       DEF ActivateSecondary, At, Goto, diskVars, envVars, TypeInv, TypeOK, ThreadsOK,
       Handlers, Threads
  <2> QED
    BY <2>1, SurviveMove DEF AtRest, Rewriting
<1>3. CASE UninstallMach(t)
  <2>1. /\ pc[t] = "uninstall" /\ pc'[t] = "mask"
        /\ UNCHANGED <<files, aside, written, nested>>
        /\ \A u \in Threads \ {t} : pc'[u] = pc[u] \/ pc'[u] = "dead"
    BY <1>3 DEF UninstallMach, At, diskVars, envVars
  <2> QED
    BY <2>1, SurviveMove DEF AtRest, Rewriting
<1>4. CASE Leave(t)
  <2>1. /\ pc[t] = "leave" /\ UNCHANGED <<files, aside, written, nested>>
        /\ \A u \in Threads \ {t} : pc'[u] = pc[u] \/ pc'[u] = "signalled"
        /\ pc'[t] \in {"idle", "done", "enter", "suspend", "leave"}
    BY <1>4, LeaveMoves
  <2> QED
    BY <2>1, SurviveMove DEF AtRest, Rewriting
<1>5. CASE Deliver(t)
  <2>1. /\ pc[t] = "signalled" /\ Signal(t, frame[t].ev)
        /\ UNCHANGED <<files, aside, written, nested>>
    BY <1>5 DEF Deliver, At, diskVars, envVars
  <2>2. /\ \A u \in Threads \ {t} : pc'[u] = pc[u]
        /\ pc'[t] \in {"enter", "suspend", "signalled"}
    BY <2>1, SignalMoves
  <2> QED
    BY <2>1, <2>2, SurviveMove DEF AtRest, Rewriting
<1>6. CASE ~(PassAction(t) \/ ActivateSecondary(t) \/ UninstallMach(t) \/ Leave(t)
             \/ Deliver(t))
  <2>1. CaptureAction(t)
    BY <1>6 DEF CaptureAction
  <2>2. /\ pc[t] \notin AtRest /\ nested' = nested
        /\ \A u \in Threads \ {t} : pc'[u] = pc[u]
    BY <2>1, WriterKnows, CaptureMoves DEF CaptureMove
  <2>3. pc[t] \notin Rewriting /\ UNCHANGED <<files, aside, written>>
    BY <1>6
       DEF NotifyFatal, MarkFatal, DisableMach, DisableOthers, FillContext,
       HandleException, NoteCrash, ChoosePath, Conclude, At, Rewriting, diskVars
  <2>4. frame[t].after \in {"route", "fill", "resume"}
    BY FrameFields DEF TypeInv, TypeOK
  <2>5. pc'[t] \notin Rewriting
    BY <1>6, <2>4
       DEF NotifyFatal, MarkFatal, DisableMach, DisableOthers, FillContext,
       HandleException, NoteCrash, ChoosePath, Conclude, Goto, Rewriting, TypeInv, TypeOK,
       ThreadsOK
  <2> QED
    BY <2>2, <2>3, <2>5, SurviveMove
<1> QED
  BY <1>1, <1>2, <1>3, <1>4, <1>5, <1>6

\* Receive: a Mach thread that waits writes nothing.
LEMMA ReceiveSurvives ==
  ASSUME TypeInv, SurviveInv, NEW t \in Threads, Receive(t)
  PROVE  SurviveInv'
<1>1. /\ pc[t] = "wait" /\ pc'[t] = "enter"
      /\ UNCHANGED <<files, aside, written, nested, alive>>
      /\ \A u \in Threads \ {t} : pc'[u] = pc[u] /\ frame'[u] = frame[u]
  BY DEF Receive, At, diskVars, TypeInv, TypeOK, ThreadsOK
<1> QED
  BY <1>1, SurviveStep DEF Rewriting

\* NewEventOn: no thread is rewriting a report while the application runs.
LEMMA NewEventOnSurvives ==
  ASSUME TypeInv, LastResort, RecordInv, SurviveInv, NEW t \in Threads, NEW o \in Origins,
         NewEventOn(t, o)
  PROVE  SurviveInv'
<1>1. /\ pc[t] = "idle" /\ t \in Sources /\ UNCHANGED <<files, aside, written, nested>>
  BY DEF NewEventOn, At, diskVars
<1>2. "signal" \in enabled /\ \A u \in Threads : pc[u] \notin Rewriting
  BY <1>1 DEF RecordInv, IdleOK, OneAtATime, Busy, AtRest, Rewriting, LastResort
<1>3. CASE \E k \in Kinds : Start(t, k, events + 1)
  <2>1. \A u \in Threads : pc'[u] \in {pc[u], "enter", "suspend"}
    BY <1>3, Started
  <2> QED
    BY <1>1, <1>2, <2>1, SurviveStep DEF Rewriting
<1>4. CASE pc' = [pc EXCEPT ![t] = "blocked"]
  <2>1. \A u \in Threads : pc'[u] \in {pc[u], "blocked"}
    BY <1>4 DEF TypeInv, TypeOK, ThreadsOK
  <2> QED
    BY <1>1, <1>2, <2>1, SurviveStep DEF Rewriting
<1> QED
  BY <1>2, <1>3, <1>4, EventHandler

\* HandlerFault: only the first crash of a handler counts, and it finds no report that
\* is being rewritten.
LEMMA HandlerFaultSurvives ==
  ASSUME TypeInv, RecordInv, SurviveInv, NEW t \in Threads, HandlerFault(t)
  PROVE  SurviveInv'
<1>1. /\ pc[t] \in Vulnerable /\ Fault(t, events + 1)
      /\ nested' = nested + 1 /\ nested \in Nat /\ UNCHANGED <<files, aside, written>>
  BY DEF HandlerFault, diskVars, TypeInv, TypeOK, HistoryOK
<1>2. /\ pc[t] \notin AtRest /\ \A u \in Threads \ {t} : pc[u] \notin Rewriting
      /\ pc[t] \in Rewriting => nested # 0
  <2>1. pc[t] \notin AtRest
    BY <1>1 DEF Vulnerable, AtRest
  <2> QED
    BY <2>1, OneRewrites
<1>3. /\ \A u \in Threads \ {t} : pc'[u] = pc[u] /\ frame'[u] = frame[u]
      /\ pc'[t] \in {"blocked", "enter", "suspend"} \/ UNCHANGED <<pc, frame>>
  <2>1. CASE ports
    BY <1>1, <2>1 DEF Fault, TypeInv, TypeOK, ThreadsOK
  <2>2. CASE ~ports
    BY <1>1, <2>2, SignalMoves DEF Fault
  <2> QED
    BY <2>1, <2>2
<1>4. \A u \in Threads : RewriteOK(u)'
  BY <1>1, <1>3 DEF SurviveInv, RewriteOK
<1>5. CASE nested = 0
  <2>1. \A u \in Threads : pc[u] \notin Rewriting /\ pc'[u] \notin Rewriting
    BY <1>2, <1>3, <1>5 DEF Rewriting
  <2>2. \A e \in written : Kept(e)
    BY <1>5, <2>1 DEF SurviveInv, InFlight, Rewriting
  <2>3. \A e \in written' : Kept(e)'
    BY <1>1, <2>2 DEF Kept, FullReports
  <2> QED
    BY <1>4, <2>1, <2>3 DEF SurviveInv
<1>6. CASE nested # 0
  <2>1. ~(nested' <= 1)
    BY <1>1, <1>6
  <2> QED
    BY <1>4, <2>1 DEF SurviveInv
<1> QED
  BY <1>5, <1>6

\* EndCancelled: the thread that ends runs no handler.
LEMMA EndCancelledSurvives ==
  ASSUME TypeInv, MachInv, SurviveInv, NEW t \in Threads, EndCancelled(t)
  PROVE  SurviveInv'
<1>1. /\ t \in cancelled /\ pc'[t] = "dead" /\ \A u \in Threads \ {t} : pc'[u] = pc[u]
      /\ UNCHANGED <<frame, files, aside, written, nested, alive>>
  BY DEF EndCancelled, Goto, diskVars, envVars, TypeInv, TypeOK, ThreadsOK
<1>2. pc[t] \notin Rewriting /\ pc'[t] \notin Rewriting
  BY <1>1 DEF MachInv, Busy, AtRest, Rewriting
<1> QED
  BY <1>1, <1>2, SurviveStep

\* Initially nothing was written.
LEMMA InitSurvives == Init => SurviveInv
<1> SUFFICES ASSUME Init PROVE SurviveInv
  OBVIOUS
<1>1. \A t \in Threads : pc[t] \in {"idle", "wait", "parked", "done"}
  BY DEF Init
<1> QED
  BY <1>1 DEF Init, SurviveInv, RewriteOK, Rewriting

\* Every step keeps SurviveInv.
LEMMA NextSurvives ==
  ASSUME LastResort
  PROVE  TypeInv /\ RecordInv /\ MachInv /\ SurviveInv /\ [Next]_vars => SurviveInv'
<1> SUFFICES ASSUME TypeInv, RecordInv, MachInv, SurviveInv, [Next]_vars
             PROVE  SurviveInv'
  OBVIOUS
<1>1. CASE UNCHANGED <<pc, frame, alive, files, aside, written, nested>>
  BY <1>1, SurviveStep
<1>2. ASSUME NEW t \in Threads, Step(t) PROVE SurviveInv'
  BY <1>2, OtherSurvives, CreateSurvives, CompleteSurvives, RenameSurvives, EmbedSurvives,
     EndCancelledSurvives, ReceiveSurvives DEF Step, PassAction
<1>3. ASSUME NEW t \in Threads, Env(t) PROVE SurviveInv'
  BY <1>1, <1>3, NewEventOnSurvives, HandlerFaultSurvives
     DEF Env, Spawn, threadVars, diskVars
<1>4. UNCHANGED vars => UNCHANGED <<pc, frame, alive, files, aside, written, nested>>
  BY DEF vars, threadVars, diskVars, envVars
<1> QED
  BY <1>1, <1>2, <1>3, <1>4 DEF Next, Rest

\* A complete report is not lost when one crash of the handler rewrites it: once the
\* process is dead or no handler runs, the events of all reports that were ever completed
\* can be read from the complete reports on disk.  Under the assumptions of
\* OneReportOfCrash; two crashes of the handlers may lose a report.
THEOREM NothingWrittenIsLost ==
  ASSUME OneSource, LastResort PROVE Spec => []ReportsSurvive
<1> DEFINE I == TypeInv /\ ReleaseInv /\ RecordInv /\ MachInv /\ SurviveInv
<1>1. Init => I
  BY InitType, InitRelease, InitRecord, InitMach, InitSurvives
<1>2. I /\ [Next]_vars => I'
  BY NextType, NextRelease, NextRecord, NextMach, NextSurvives
<1>3. I => ReportsSurvive
  <2> SUFFICES ASSUME I, Quiet, nested <= 1, NEW e \in written PROVE Kept(e)
    BY DEF ReportsSurvive, Kept
  <2>1. \A t \in Threads : pc[t] \notin Rewriting
    <3>1. CASE ~alive
      BY <3>1 DEF SurviveInv
    <3>2. CASE \A t \in live : pc[t] \in {"idle", "wait", "parked", "done"}
      BY <3>2 DEF ReleaseInv, SuspendOK, Rewriting
    <3> QED
      BY <3>1, <3>2 DEF Quiet
  <2>2. \A t \in Threads : ~InFlight(t, e)
    BY <2>1 DEF InFlight, Rewriting
  <2> QED
    BY <2>2 DEF SurviveInv
<1> HIDE DEF I
<1> QED
  BY <1>1, <1>2, <1>3, PTL DEF Spec
=============================================================================
