---------------------------- MODULE CrashHandling ----------------------------
(***************************************************************************)
(* What happens between a crash and the end of the process.                *)
(*                                                                         *)
(* The threads of the application, and the two Mach exception threads of   *)
(* the crash reporter, run the handlers of the monitors                    *)
(* (Recording/Monitors/GrowingCrashMonitor_*.{c,m,cpp}), the dispatch they  *)
(* share (GrowingCrashMonitor.c), the callback that writes the report       *)
(* (onCrash in GrowingCrashC.c, the two writers of GrowingCrashReport.c)    *)
(* and the suspension of the other threads (GrowingCrashMachineContext.c).  *)
(* Every thread has a program counter; one action is one step of the code   *)
(* between two places where another thread, a suspension or a crash of the  *)
(* handler itself can make a difference.                                    *)
(*                                                                         *)
(* The contents of a report are the number of the event it describes and    *)
(* the events of the older reports it embeds; a handler that crashes does   *)
(* so with a memory fault.  The kernel (exception ports, signals,           *)
(* thread_suspend) is external and modelled from how the code uses it.      *)
(***************************************************************************)
EXTENDS Naturals, FiniteSets

CONSTANTS
    AppThreads,     \* threads of the application
    LateThreads,    \* those of them that do not exist yet when the app starts
    Sources,        \* those of them on which events start
    Pri, Sec,       \* primary and secondary Mach exception thread
    Monitored,      \* the monitors that were enabled at installation
    Origins,        \* the kinds of events that may start
    MaxEvents,      \* bound: events of one process, crashes of a handler included
    MaxNested       \* bound: crashes of a handler

Handlers == {Pri, Sec}
Threads == AppThreads \cup Handlers

Monitors == {"mach", "signal", "nsexception", "cpp", "user", "deadlock",
             "appstate"}

\* Why an event starts: a memory fault, abort(), an uncaught Objective-C or C++
\* exception, a watchdog that gives up, or a call that reports an exception
\* (userAll and userFatalAll also log all threads, the fatal ones terminate).
NonFatalOrigins == {"snapshot", "user", "userAll"}
FatalOrigins == {"fault", "abort", "objc", "cpp", "deadlock", "userFatal",
                 "userFatalAll"}
UserKinds == {"user", "userAll", "userFatal", "userFatalAll"}

\* The handlers.  "objc" is the C++ terminate handler that meets an NSException.
Kinds == {"mach", "signal", "nsexception", "snapshot", "objc", "cpp", "deadlock"}
            \cup UserKinds

MonitorOf(k) == CASE k = "snapshot" -> "nsexception"
                  [] k = "objc" -> "cpp"
                  [] k \in UserKinds -> "user"
                  [] OTHER -> k

ASSUME ThreadsAssumption ==
    /\ Pri # Sec
    /\ Pri \notin AppThreads /\ Sec \notin AppThreads
    /\ Threads \cap Monitors = {}
    /\ IsFiniteSet(AppThreads)
    /\ LateThreads \subseteq AppThreads
    /\ Sources \subseteq AppThreads
ASSUME MonitorsAssumption ==
    /\ Monitored \subseteq Monitors
    /\ Origins \subseteq NonFatalOrigins \cup FatalOrigins
ASSUME BoundsAssumption == MaxEvents \in Nat /\ MaxNested \in Nat

EventIds == 0 .. MaxEvents        \* 0: no event
MaxReports == 2 * MaxEvents
ReportIds == 1 .. MaxReports
Paths == 0 .. MaxReports          \* 0: the empty path

\* Static contexts (one per monitor), and a stack context per user report.
Contexts == Monitors \cup Threads

Labels == {"idle", "blocked", "wait", "parked", "done", "dead", "enter", "suspend",
           "suspending", "inKernel", "notify", "mark", "disable", "uninstall",
           "mask", "route", "fill", "event", "note", "choose", "create", "body",
           "rename", "reopen", "embed", "discard", "rebody", "conclude", "resume",
           "resuming", "leave", "signalled"}

\* Labels at which a thread runs code of the reporter that may itself crash.
Vulnerable == {"fill", "event", "note", "choose", "create", "body", "rename",
               "reopen", "embed", "discard", "rebody", "conclude"}

CancellationPoints == {"wait", "note", "create", "body", "reopen", "embed", "rebody"}

\* Labels from the end of a suspension to the start of the resumption.
Capturing == Vulnerable \cup {"notify", "mark", "disable", "uninstall", "mask",
                              "route"}

NoFile == [state |-> "none", of |-> 0, old |-> {}]

VARIABLES
    pc,              \* the label each thread is at
    frame,           \* the local variables of its handler
    susp,            \* kernel: suspend count of each thread
    live,            \* threads that exist
    alive,           \* FALSE once the process has died
    enabled,         \* monitors whose g_isEnabled is set
    handling,        \* g_handlingFatalException
    crashedDuring,   \* g_crashedDuringExceptionHandling
    ports,           \* our exception ports are installed
    known,           \* Mach threads recorded in g_primaryPThread, g_secondaryPThread
    busy,            \* g_isHandlingCrash
    cancelled,       \* Mach threads with a pending pthread_cancel
    queue,           \* kernel: threads whose exception message is in the port
    ctx,             \* the monitor contexts
    lastPath,        \* g_lastCrashReportFilePath
    nextId,          \* next report ID
    files, aside,    \* disk: <id>.json and its renamed .old
    written,         \* history: events whose report was completed
    crashFlag,       \* disk: "crashed this launch" in the state file
    events, nested,  \* numbers of events so far
    origin           \* history: why each event started

threadVars == <<pc, frame, susp>>
coreVars == <<handling, crashedDuring>>
machVars == <<ports, known, busy, cancelled, queue>>
diskVars == <<lastPath, nextId, files, aside, written, crashFlag>>
envVars == <<live, events, nested, origin>>
vars == <<threadVars, alive, enabled, coreVars, machVars, ctx, diskVars, envVars>>

Frames == [kind: Kinds, ev: EventIds, served: Threads, list: SUBSET Threads,
           todo: SUBSET Threads, target: Threads, was: BOOLEAN,
           after: {"route", "fill", "resume"}, path: Paths]

IdleFrame(t) == [kind |-> "signal", ev |-> 0, served |-> t, list |-> {}, todo |-> {},
                 target |-> t, was |-> FALSE, after |-> "fill", path |-> 0]

Init ==
    /\ pc = [t \in Threads |-> CASE t = Pri /\ "mach" \in Monitored -> "wait"
                                 [] t = Sec /\ "mach" \in Monitored -> "parked"
                                 [] t \in Handlers /\ "mach" \notin Monitored -> "done"
                                 [] OTHER -> "idle"]
    /\ frame = [t \in Threads |-> IdleFrame(t)]
    /\ susp = [t \in Threads |-> 0]
    /\ live = (AppThreads \ LateThreads) \cup
                 (IF "mach" \in Monitored THEN Handlers ELSE {})
    /\ alive = TRUE
    /\ enabled = Monitored
    /\ handling = FALSE /\ crashedDuring = FALSE
    /\ ports = ("mach" \in Monitored)
    /\ known = IF "mach" \in Monitored THEN Handlers ELSE {}
    /\ busy = FALSE /\ cancelled = {} /\ queue = {}
    /\ ctx = [c \in Contexts |-> [event |-> 0, recrash |-> FALSE, snapshot |-> FALSE]]
    /\ lastPath = 0 /\ nextId = 1
    /\ files = [i \in ReportIds |-> NoFile]
    /\ aside = [i \in ReportIds |-> NoFile]
    /\ written = {} /\ crashFlag = FALSE
    /\ events = 0 /\ nested = 0
    /\ origin = [e \in 1 .. MaxEvents |-> "none"]

(***************************************************************************)
(* Helpers.                                                                *)
(***************************************************************************)
Running(t) == alive /\ t \in live /\ susp[t] = 0

At(t, l) == Running(t) /\ pc[t] = l

Goto(t, l) == pc' = [pc EXCEPT ![t] = l]

Kind(t) == frame[t].kind

\* Mutant: a static context for user reports too.
CtxAllStatic(t) == MonitorOf(Kind(t))

\* The monitor context the handler of t works on: one of its own on the stack for a
\* user report, else the static one of the monitor.
Ctx(t) == IF Kind(t) \in UserKinds THEN t ELSE MonitorOf(Kind(t))

Suspends == Kinds \ {"user", "userFatal"}

\* Mutant: a report that returns does not resume.
ResumesFatalOnly == Suspends \ {"nsexception", "userAll"}

\* Handlers that suspend the environment, that resume it, that call
\* growingcrashcm_notifyFatalExceptionCaptured, and that test g_isEnabled first.
Resumes == Suspends \ {"nsexception"}
Notifies == Kinds \ {"objc", "user", "userAll"}
Tests == Kinds \ {"objc", "cpp", "deadlock"}

AfterSuspend(k) == CASE k = "objc" -> "resume"
                     [] k \in Notifies -> "notify"
                     [] OTHER -> "fill"

Entry(k) == IF k \in Tests THEN "enter" ELSE "suspend"

\* Thread t starts handler k for event e; what was in its frame is lost.
Start(t, k, e) ==
    /\ pc' = [pc EXCEPT ![t] = Entry(k)]
    /\ frame' = [frame EXCEPT ![t] = [IdleFrame(t) EXCEPT !.kind = k, !.ev = e]]

\* A signal reaches t: our handler if it is installed, else the default action.
Signal(t, e) ==
    IF "signal" \in enabled
      THEN Start(t, "signal", e) /\ UNCHANGED alive
      ELSE alive' = FALSE /\ UNCHANGED <<pc, frame>>

\* A memory fault of t: the exception port if it is ours, else a signal.
Fault(t, e) ==
    IF ports
      THEN /\ queue' = queue \cup {t}
           /\ pc' = [pc EXCEPT ![t] = "blocked"]
           /\ frame' = [frame EXCEPT ![t] = [IdleFrame(t) EXCEPT !.ev = e]]
           /\ UNCHANGED alive
      ELSE Signal(t, e) /\ UNCHANGED queue

(***************************************************************************)
(* Events.                                                                 *)
(***************************************************************************)
NewEvent(o) ==
    /\ events < MaxEvents
    /\ events' = events + 1
    /\ origin' = [origin EXCEPT ![events + 1] = o]

\* An idle application thread crashes or reports an exception.  A user report
\* is an ordinary call; the snapshot handler can be called once it was set.
NewEventOn(t, o) ==
    /\ At(t, "idle") /\ t \in Sources
    /\ o \in Origins
    /\ NewEvent(o)
    /\ LET e == events + 1 IN
         CASE o = "fault" -> Fault(t, e)
           [] o = "abort" -> Signal(t, e) /\ UNCHANGED queue
           [] o = "objc" ->
                /\ IF "cpp" \in enabled THEN Start(t, "objc", e) /\ UNCHANGED alive
                   ELSE IF "nsexception" \in enabled
                     THEN Start(t, "nsexception", e) /\ UNCHANGED alive
                     ELSE Signal(t, e)
                /\ UNCHANGED queue
           [] o \in {"cpp", "deadlock"} ->
                /\ o = "deadlock" => "deadlock" \in enabled
                /\ IF o \in enabled THEN Start(t, o, e) /\ UNCHANGED alive
                                    ELSE Signal(t, e)
                /\ UNCHANGED queue
           [] OTHER ->
                /\ o = "snapshot" => "nsexception" \in Monitored
                /\ Start(t, o, e) /\ UNCHANGED <<alive, queue>>
    /\ UNCHANGED <<susp, live, nested, enabled, coreVars, ports, known, busy,
                   cancelled, ctx, diskVars>>

\* The handler that t runs crashes.
HandlerFault(t) ==
    /\ Running(t) /\ pc[t] \in Vulnerable
    /\ nested < MaxNested /\ nested' = nested + 1
    /\ NewEvent("fault")
    /\ Fault(t, events + 1)
    /\ UNCHANGED <<susp, live, enabled, coreVars, ports, known, busy, cancelled, ctx,
                   diskVars>>

\* A running application thread starts a thread.
Spawn(t) ==
    /\ t \in LateThreads \ live
    /\ \E u \in AppThreads : At(u, "idle")
    /\ live' = live \cup {t}
    /\ UNCHANGED <<threadVars, alive, enabled, coreVars, machVars, ctx, diskVars,
                   events, nested, origin>>

\* A Mach thread receives the exception message of a blocked thread.
Receive(h) ==
    /\ h \in Handlers /\ At(h, "wait")
    /\ \E u \in queue :
         /\ queue' = queue \ {u}
         /\ pc' = [pc EXCEPT ![h] = "enter"]
         /\ frame' = [frame EXCEPT ![h] = [IdleFrame(h) EXCEPT
                        !.kind = "mach", !.ev = frame[u].ev, !.served = u]]
    /\ UNCHANGED <<susp, live, alive, enabled, coreVars, ports, known, busy, cancelled,
                   ctx, diskVars, events, nested, origin>>

\* "if(g_isEnabled)" of a handler; a user report that is not enabled returns.
Enter(t) ==
    /\ At(t, "enter")
    /\ LET k == Kind(t) IN
         Goto(t, IF MonitorOf(k) \notin enabled
                   THEN IF k \in UserKinds THEN "idle" ELSE "leave"
                   ELSE IF k \in Suspends THEN "suspend" ELSE AfterSuspend(k))
    /\ UNCHANGED <<frame, susp, alive, enabled, coreVars, machVars, ctx, diskVars,
                   envVars>>

(***************************************************************************)
(* growingcrashmc_suspendEnvironment: the thread list is read once, then    *)
(* every thread that is neither the caller nor reserved is suspended.  A    *)
(* thread_suspend that has entered the kernel completes even if its caller  *)
(* is suspended meanwhile.                                                 *)
(***************************************************************************)
ReadThreadList(t) ==
    /\ At(t, "suspend")
    /\ LET others == live \ (Handlers \cup {t}) IN
         frame' = [frame EXCEPT ![t].list = others, ![t].todo = others]
    /\ Goto(t, "suspending")
    /\ UNCHANGED <<susp, alive, enabled, coreVars, machVars, ctx, diskVars, envVars>>

CallSuspend(t) ==
    /\ At(t, "suspending")
    /\ \E u \in frame[t].todo :
         frame' = [frame EXCEPT ![t].target = u, ![t].todo = @ \ {u}]
    /\ Goto(t, "inKernel")
    /\ UNCHANGED <<susp, alive, enabled, coreVars, machVars, ctx, diskVars, envVars>>

Suspend(t) ==
    /\ alive /\ pc[t] = "inKernel"
    /\ susp' = [susp EXCEPT ![frame[t].target] = @ + 1]
    /\ Goto(t, "suspending")
    /\ UNCHANGED <<frame, alive, enabled, coreVars, machVars, ctx, diskVars, envVars>>

AllSuspended(t) == frame[t].todo = {}

EndSuspend(t) ==
    /\ At(t, "suspending") /\ AllSuspended(t)
    /\ Goto(t, AfterSuspend(Kind(t)))
    /\ busy' = (busy \/ Kind(t) = "mach")
    /\ UNCHANGED <<frame, susp, alive, enabled, coreVars, ports, known, cancelled,
                   queue, ctx, diskVars, envVars>>

(***************************************************************************)
(* growingcrashcm_notifyFatalExceptionCaptured and the uninstallation of    *)
(* every monitor, growingcrashcm_setActiveMonitors(None).                   *)
(***************************************************************************)
\* Mutant: the flag is set before it is read.
HandlingSeenLate == TRUE

HandlingSeen == handling

NotifyFatal(t) ==
    /\ At(t, "notify")
    /\ frame' = [frame EXCEPT ![t].was = HandlingSeen]
    /\ Goto(t, "mark")
    /\ UNCHANGED <<susp, alive, enabled, coreVars, machVars, ctx, diskVars, envVars>>

CrashedDuring(t) == crashedDuring \/ frame[t].was

MarkFatal(t) ==
    /\ At(t, "mark")
    /\ crashedDuring' = CrashedDuring(t)
    /\ handling' = TRUE
    /\ LET next == IF Kind(t) = "mach" THEN "route" ELSE "fill" IN
         /\ frame' = [frame EXCEPT ![t].after = next]
         /\ Goto(t, IF crashedDuring' THEN "disable" ELSE next)
    /\ UNCHANGED <<susp, alive, enabled, machVars, ctx, diskVars, envVars>>

\* The Mach monitor is the first of g_monitors.
DisableMach(t) ==
    /\ At(t, "disable")
    /\ Goto(t, IF "mach" \in enabled THEN "uninstall" ELSE "mask")
    /\ enabled' = enabled \ {"mach"}
    /\ UNCHANGED <<frame, susp, alive, coreVars, machVars, ctx, diskVars, envVars>>

\* uninstallExceptionHandler: the other Mach threads are terminated while a Mach
\* exception is handled.  Otherwise they are cancelled.
UninstallMach(t) ==
    /\ At(t, "uninstall")
    /\ ports' = FALSE
    /\ known' = known \cap {t}
    /\ LET others == known \ {t}
           ended == IF busy THEN others ELSE {}
       IN /\ cancelled' = cancelled \cup (others \ ended)
          /\ pc' = [h \in Threads |-> IF h = t THEN "mask"
                                     ELSE IF h \in ended THEN "dead" ELSE pc[h]]
    /\ UNCHANGED <<frame, susp, alive, enabled, coreVars, busy, queue, ctx, diskVars,
                   envVars>>

\* A cancelled thread ends at a cancellation point: where it waits, or when it
\* opens or writes a file.
EndCancelled(t) ==
    /\ t \in cancelled /\ Running(t) /\ pc[t] \in CancellationPoints
    /\ Goto(t, "dead")
    /\ UNCHANGED <<frame, susp, alive, enabled, coreVars, machVars, ctx, diskVars,
                   envVars>>

\* Mutant: the signal handlers are left installed.
SignalLeftActive == enabled \cap {"signal"}

\* What is left of the monitors by growingcrashcm_setActiveMonitors(None).
NoneActive == {}

DisableOthers(t) ==
    /\ At(t, "mask")
    /\ enabled' = NoneActive
    /\ Goto(t, frame[t].after)
    /\ UNCHANGED <<frame, susp, alive, coreVars, machVars, ctx, diskVars, envVars>>

\* The primary Mach thread restores the ports and resumes the secondary one.
ActivateSecondary(t) ==
    /\ At(t, "route")
    /\ IF t = Pri /\ Pri \in known
         THEN /\ ports' = FALSE
              /\ pc' = [pc EXCEPT ![t] = "fill",
                                  ![Sec] = IF @ = "parked" /\ Sec \in known
                                             THEN "wait" ELSE @]
         ELSE Goto(t, "fill") /\ UNCHANGED ports
    /\ UNCHANGED <<frame, susp, alive, enabled, coreVars, known, busy, cancelled, queue,
                   ctx, diskVars, envVars>>

(***************************************************************************)
(* growingcrashcm_handleException and onCrash.                              *)
(***************************************************************************)
\* The handler fills its context; the one of the Mach monitor is not cleared.
FillContext(t) ==
    /\ At(t, "fill")
    /\ ctx' = [ctx EXCEPT ![Ctx(t)] =
                 [event |-> frame[t].ev,
                  recrash |-> Kind(t) = "mach" /\ @.recrash,
                  snapshot |-> Kind(t) = "snapshot"]]
    /\ Goto(t, "event")
    /\ UNCHANGED <<frame, susp, alive, enabled, coreVars, machVars, diskVars, envVars>>

Recrash == crashedDuring

HandleException(t) ==
    /\ At(t, "event")
    /\ ctx' = [ctx EXCEPT ![Ctx(t)].recrash = @ \/ Recrash]
    /\ Goto(t, "note")
    /\ UNCHANGED <<frame, susp, alive, enabled, coreVars, machVars, diskVars, envVars>>

\* Mutant: the test is the wrong way round.
SavesSnapshot(t) == ctx[Ctx(t)].snapshot /\ "appstate" \in enabled

SavesCrash(t) == ~ctx[Ctx(t)].snapshot /\ "appstate" \in enabled

\* onCrash saves the application state, then chooses the writer.
NoteCrash(t) ==
    /\ At(t, "note")
    /\ crashFlag' = (crashFlag \/ SavesCrash(t))
    /\ Goto(t, IF ctx[Ctx(t)].recrash THEN "rename" ELSE "choose")
    /\ UNCHANGED <<frame, susp, alive, enabled, coreVars, machVars, ctx, lastPath,
                   nextId, files, aside, written, envVars>>

ChoosePath(t) ==
    /\ At(t, "choose")
    /\ nextId \in ReportIds
    /\ frame' = [frame EXCEPT ![t].path = nextId]
    /\ lastPath' = nextId
    /\ nextId' = nextId + 1
    /\ Goto(t, "create")
    /\ UNCHANGED <<susp, alive, enabled, coreVars, machVars, ctx, files, aside,
                   written, crashFlag, envVars>>

\* A new report file, that starts with the event of the context.
NewReport(t) == [state |-> "open", of |-> ctx[Ctx(t)].event, old |-> {}]

\* The rest of the report is written and the file closed.
Complete(t) ==
    /\ files' = [files EXCEPT ![frame[t].path].state = "full"]
    /\ written' = written \cup {files[frame[t].path].of}

\* growingcrashreport_writeStandardReport; O_EXCL refuses an existing file.
CreateReport(t) ==
    /\ At(t, "create")
    /\ LET p == frame[t].path IN
         IF files[p].state = "none"
           THEN /\ files' = [files EXCEPT ![p] = NewReport(t)]
                /\ Goto(t, "body")
           ELSE Goto(t, "conclude") /\ UNCHANGED files
    /\ UNCHANGED <<frame, susp, alive, enabled, coreVars, machVars, ctx, lastPath,
                   nextId, aside, written, crashFlag, envVars>>

WriteReport(t) ==
    /\ At(t, "body")
    /\ Complete(t)
    /\ Goto(t, "conclude")
    /\ UNCHANGED <<frame, susp, alive, enabled, coreVars, machVars, ctx, lastPath,
                   nextId, aside, crashFlag, envVars>>

\* growingcrashreport_writeRecrashReport: the last report is renamed, ...  Where no path
\* was chosen yet the source also writes before the string with the other path
\* (GrowingCrashReport.c:1617); what that overwrites is not modelled.
RenameOld(t) ==
    /\ At(t, "rename")
    /\ frame' = [frame EXCEPT ![t].path = lastPath]
    /\ IF lastPath = 0
         THEN Goto(t, "conclude") /\ UNCHANGED <<files, aside>>
         ELSE /\ Goto(t, "reopen")
              /\ IF files[lastPath].state = "none" THEN UNCHANGED <<files, aside>>
                 ELSE /\ aside' = [aside EXCEPT ![lastPath] = files[lastPath]]
                      /\ files' = [files EXCEPT ![lastPath] = NoFile]
    /\ UNCHANGED <<susp, alive, enabled, coreVars, machVars, ctx, lastPath, nextId,
                   written, crashFlag, envVars>>

CreateRecrash(t) ==
    /\ At(t, "reopen")
    /\ LET p == frame[t].path IN
         IF files[p].state = "none"
           THEN /\ files' = [files EXCEPT ![p] = NewReport(t)]
                /\ Goto(t, "embed")
           ELSE Goto(t, "conclude") /\ UNCHANGED files
    /\ UNCHANGED <<frame, susp, alive, enabled, coreVars, machVars, ctx, lastPath,
                   nextId, aside, written, crashFlag, envVars>>

\* Mutant: the old report itself is not embedded.
EmbeddedOlder(old) == old.old

\* A complete report is taken to be one that can be embedded: that it can be too deep, or
\* have a text that is too long to be copied, is JSONCodec's and ReportText's subject.
Embedded(old) == old.old \cup (IF old.state = "full" THEN {old.of} ELSE {})

\* ... embedded in the new one, ...
EmbedOld(t) ==
    /\ At(t, "embed")
    /\ LET p == frame[t].path IN
         files' = [files EXCEPT ![p].old = Embedded(aside[p])]
    /\ Goto(t, "discard")
    /\ UNCHANGED <<frame, susp, alive, enabled, coreVars, machVars, ctx, lastPath,
                   nextId, aside, written, crashFlag, envVars>>

\* ... removed, and the minimal report of this event completed.
RemoveOld(t) ==
    /\ At(t, "discard")
    /\ aside' = [aside EXCEPT ![frame[t].path] = NoFile]
    /\ Goto(t, "rebody")
    /\ UNCHANGED <<frame, susp, alive, enabled, coreVars, machVars, ctx, lastPath,
                   nextId, files, written, crashFlag, envVars>>

WriteRecrash(t) ==
    /\ At(t, "rebody")
    /\ Complete(t)
    /\ Goto(t, "conclude")
    /\ UNCHANGED <<frame, susp, alive, enabled, coreVars, machVars, ctx, lastPath,
                   nextId, aside, crashFlag, envVars>>

IsSnapshot(t) == ctx[Ctx(t)].snapshot

\* The end of growingcrashcm_handleException.
Conclude(t) ==
    /\ At(t, "conclude")
    /\ frame' = [frame EXCEPT ![t].after = "resume"]
    /\ IF IsSnapshot(t)
         THEN handling' = FALSE /\ Goto(t, "resume")
         ELSE /\ UNCHANGED handling
              /\ Goto(t, IF handling /\ ~crashedDuring THEN "disable" ELSE "resume")
    /\ UNCHANGED <<susp, alive, enabled, crashedDuring, machVars, ctx, diskVars, envVars>>

(***************************************************************************)
(* growingcrashmc_resumeEnvironment, and how each handler ends.             *)
(***************************************************************************)
BeginResume(t) ==
    /\ At(t, "resume")
    /\ busy' = (busy /\ Kind(t) # "mach")
    /\ frame' = [frame EXCEPT ![t].todo = IF Kind(t) \in Resumes
                                            THEN frame[t].list ELSE {}]
    /\ Goto(t, "resuming")
    /\ UNCHANGED <<susp, alive, enabled, coreVars, ports, known, cancelled, queue, ctx,
                   diskVars, envVars>>

\* Mutants: a thread is resumed twice, or whatever its suspend count is.
ResumedTwice(count) == IF count = 0 THEN 0 ELSE count - 2
ResumedAtOnce(count) == 0 * count

\* thread_resume fails on a thread that is not suspended.
Resumed(count) == IF count = 0 THEN 0 ELSE count - 1

Resume(t) ==
    /\ At(t, "resuming")
    /\ \E u \in frame[t].todo :
         /\ susp' = [susp EXCEPT ![u] = Resumed(@)]
         /\ frame' = [frame EXCEPT ![t].todo = @ \ {u}]
    /\ UNCHANGED <<pc, alive, enabled, coreVars, machVars, ctx, diskVars, envVars>>

EndResume(t) ==
    /\ At(t, "resuming") /\ frame[t].todo = {}
    /\ Goto(t, IF Kind(t) \in NonFatalOrigins THEN "idle" ELSE "leave")
    /\ UNCHANGED <<frame, susp, alive, enabled, coreVars, machVars, ctx, diskVars,
                   envVars>>

\* A Mach thread replies KERN_FAILURE: the kernel turns the fault into a signal,
\* delivered when the faulting thread runs.  The terminate handler hands an NSException on; every
\* other handler ends in raise() or abort().
Leave(t) ==
    /\ At(t, "leave")
    /\ LET e == frame[t].ev
           u == frame[t].served
       IN CASE Kind(t) = "snapshot" -> Goto(t, "idle") /\ UNCHANGED <<frame, alive>>
            [] Kind(t) = "mach" ->
                 IF pc[u] # "blocked"
                   THEN Goto(t, "done") /\ UNCHANGED <<frame, alive>>
                   ELSE /\ pc' = [pc EXCEPT ![t] = "done", ![u] = "signalled"]
                        /\ UNCHANGED <<frame, alive>>
            [] Kind(t) = "objc" /\ "nsexception" \in enabled ->
                 Start(t, "nsexception", e) /\ UNCHANGED alive
            [] OTHER -> Signal(t, e)
    /\ UNCHANGED <<susp, enabled, coreVars, machVars, ctx, diskVars, envVars>>

Deliver(t) ==
    /\ At(t, "signalled")
    /\ Signal(t, frame[t].ev)
    /\ UNCHANGED <<susp, enabled, coreVars, machVars, ctx, diskVars, envVars>>

(***************************************************************************)
(* The specification.                                                      *)
(***************************************************************************)
Step(t) ==
    \/ Enter(t) \/ ReadThreadList(t) \/ CallSuspend(t) \/ Suspend(t) \/ EndSuspend(t)
    \/ NotifyFatal(t) \/ MarkFatal(t) \/ DisableMach(t) \/ UninstallMach(t)
    \/ EndCancelled(t) \/ DisableOthers(t) \/ ActivateSecondary(t) \/ FillContext(t)
    \/ HandleException(t) \/ NoteCrash(t) \/ ChoosePath(t) \/ CreateReport(t)
    \/ WriteReport(t) \/ RenameOld(t) \/ CreateRecrash(t) \/ EmbedOld(t)
    \/ RemoveOld(t) \/ WriteRecrash(t) \/ Conclude(t) \/ BeginResume(t)
    \/ Resume(t) \/ EndResume(t) \/ Leave(t) \/ Deliver(t) \/ Receive(t)

Env(t) == (\E o \in Origins : NewEventOn(t, o)) \/ HandlerFault(t) \/ Spawn(t)

\* The process is dead, or it runs on with no handler active.
Quiet == ~alive \/ \A t \in live : pc[t] \in {"idle", "wait", "parked", "done"}

Rest == Quiet /\ UNCHANGED vars

Next == (\E t \in Threads : Step(t) \/ Env(t)) \/ Rest

Spec == Init /\ [][Next]_vars

\* Every thread that can run is scheduled; nobody has to crash.
FairSpec == Spec /\ \A t \in Threads : WF_vars(Step(t))

(***************************************************************************)
(* Properties.                                                             *)
(***************************************************************************)
Files == [state: {"none", "open", "full"}, of: EventIds, old: SUBSET EventIds]

ThreadsOK ==
    /\ pc \in [Threads -> Labels]
    /\ frame \in [Threads -> Frames]
    /\ susp \in [Threads -> Nat]
    /\ live \subseteq Threads

ReporterOK ==
    /\ alive \in BOOLEAN
    /\ enabled \subseteq Monitored
    /\ handling \in BOOLEAN /\ crashedDuring \in BOOLEAN
    /\ ports \in BOOLEAN /\ busy \in BOOLEAN
    /\ known \subseteq Handlers /\ cancelled \subseteq Handlers
    /\ queue \subseteq Threads
    /\ ctx \in [Contexts -> [event: EventIds, recrash: BOOLEAN, snapshot: BOOLEAN]]

DiskOK ==
    /\ lastPath \in Paths
    /\ nextId \in 1 .. MaxReports + 1
    /\ files \in [ReportIds -> Files] /\ aside \in [ReportIds -> Files]
    /\ written \subseteq EventIds /\ crashFlag \in BOOLEAN

HistoryOK ==
    /\ events \in EventIds /\ nested \in Nat
    /\ origin \in [1 .. MaxEvents -> FatalOrigins \cup NonFatalOrigins \cup {"none"}]

\* A report is only written to a path that was chosen.
PathsOK ==
    \A t \in Threads :
        pc[t] \in {"create", "body", "reopen", "embed", "discard", "rebody"} =>
            frame[t].path \in ReportIds

\* Type invariant of every variable of the process, the kernel and the disk.
TypeOK == ThreadsOK /\ ReporterOK /\ DiskOK /\ HistoryOK

Fatal(e) == e # 0 /\ origin[e] \in FatalOrigins

FullReports == {i \in ReportIds : files[i].state = "full"}

\* onCrash saves the state before it writes the report (GrowingCrashC.c:141-156): a
\* complete report of a crash is never on disk without the flag that the next launch
\* reads as crashedLastLaunch, unless the reporter itself crashed.
ReportImpliesCrashFlag ==
    "appstate" \in Monitored /\ ~crashedDuring =>
        \A i \in FullReports : Fatal(files[i].of) => crashFlag

\* The contexts are static and shared by all runs of a handler: from the moment a
\* handler has filled its context, nobody else changes what it will report, so a
\* report describes the event that caused it.
ReportsOwnEvent ==
    \A t \in live :
        pc[t] \in Vulnerable \ {"fill"} => ctx[Ctx(t)].event = frame[t].ev

\* growingcrashmc_suspendEnvironment: while a handler that suspends the environment
\* captures, every other application thread is stopped.
FrozenWorld ==
    \A t \in live :
        alive /\ pc[t] \in Capturing /\ Kind(t) \in Suspends =>
            \A u \in (live \cap AppThreads) \ {t} : susp[u] > 0

\* Suspensions are balanced: when no handler runs in a living process, no thread is
\* left suspended by a handler that has returned.
NobodyLeftSuspended ==
    alive /\ (\A t \in live : pc[t] \in {"idle", "wait", "parked"}) =>
        \A t \in live : susp[t] = 0

\* "The reporter will record the next crash and then terminate the program"
\* (GrowingCrashC.h:60): one process leaves at most one report of a crash.
OneCrashReport ==
    Cardinality({i \in ReportIds : files[i].state # "none" /\ Fatal(files[i].of)}) <= 1

\* The same claim, from below: a process that died after a crash, and in which no handler
\* crashed, leaves a complete report of a crash, its own or an older one that it embeds.
NextCrashRecorded ==
    ~alive /\ nested = 0 /\ (\E e \in 1 .. events : Fatal(e)) =>
        \E i \in FullReports : \E e \in files[i].old \cup {files[i].of} : Fatal(e)

\* A crash is recorded once: neither is it lost nor does a crash of its handler make a
\* second report of it.
NextCrashRecordedOnce == OneCrashReport /\ NextCrashRecorded

\* A complete report is not lost when one crash of the handler rewrites it: once the
\* process is dead or no handler runs, the events of all reports that were ever
\* completed can be read from the complete reports on disk.
ReportsSurvive ==
    Quiet /\ nested <= 1 =>
        \A e \in written :
            \E i \in FullReports : e = files[i].of \/ e \in files[i].old

\* A crash ends the process: the handlers do not hang on each other or on the threads
\* they suspended.
CrashEndsProcess == (\E e \in 1 .. events : Fatal(e)) ~> ~alive

(***************************************************************************)
(* The inductive invariant behind FrozenWorld and ReportImpliesCrashFlag.   *)
(***************************************************************************)
\* The threads that the handler of t has suspended and not resumed.
Held(t) ==
    CASE pc[t] = "suspending" -> frame[t].list \ frame[t].todo
      [] pc[t] = "inKernel" -> frame[t].list \ (frame[t].todo \cup {frame[t].target})
      [] pc[t] \in Capturing \cup {"resume"} -> frame[t].list
      [] pc[t] = "resuming" -> frame[t].todo
      [] OTHER -> {}

Holders(u) == {t \in Threads : u \in Held(t)}

\* The suspend count of a thread covers the handlers that hold it.
Balanced == \A u \in Threads : Cardinality(Holders(u)) <= susp[u]

\* Thread t suspends, or has suspended, every other thread for its handler.
Stopping(t) ==
    Kind(t) \in Suspends /\ pc[t] \in {"suspending", "inKernel"} \cup Capturing

ListsOK ==
    /\ AppThreads \subseteq live
    /\ \A t \in Threads : pc[t] = "enter" => frame[t].list = {}
    /\ \A t \in Threads : Stopping(t) => AppThreads \ {t} \subseteq frame[t].list

\* No thread is created while the others are being stopped (else FrozenWorld is false).
StopInv == Balanced /\ ListsOK

KindsOK == \A t \in Handlers : Kind(t) \in {"mach", "signal"}

\* Two application threads never capture at the same time with the others stopped.
OneCapture ==
    \A t, u \in AppThreads :
        t # u => ~ /\ pc[t] \in Capturing /\ Kind(t) \in Suspends
                   /\ pc[u] \in Capturing /\ Kind(u) \in Suspends

\* The NSException monitor's context, the only one whose snapshot flag is ever set,
\* belongs to the one handler that has filled it.
ContextsOK ==
    /\ \A c \in Contexts \ {"nsexception"} : ~ctx[c].snapshot
    /\ \A t \in Threads :
         Kind(t) \in {"snapshot", "nsexception"} /\ pc[t] \in Vulnerable \ {"fill"} =>
             /\ ctx["nsexception"].event = frame[t].ev
             /\ ctx["nsexception"].snapshot = (Kind(t) = "snapshot")

\* Everything that is being reported has happened, and keeps its origin.
EventsOK ==
    /\ \A t \in Threads : frame[t].ev <= events
    /\ \A c \in Contexts : ctx[c].event <= events
    /\ \A i \in ReportIds : files[i].of <= events
    /\ \A t \in Threads :
         Kind(t) = "snapshot" => frame[t].ev # 0 /\ origin[frame[t].ev] = "snapshot"

\* Where the flag is known to be on disk, unless the handler has crashed.
FlagOK ==
    "appstate" \in Monitored /\ ~crashedDuring =>
        /\ "appstate" \notin enabled => crashFlag
        /\ \A t \in Threads : pc[t] \in {"disable", "uninstall", "mask"} => crashFlag
        /\ \A t \in Threads :
             /\ pc[t] \in Vulnerable \ {"fill", "event", "note"}
             /\ Kind(t) # "snapshot"
             => crashFlag
        /\ \A i \in ReportIds : Fatal(files[i].of) => crashFlag

FlagInv == KindsOK /\ OneCapture /\ ContextsOK /\ EventsOK /\ FlagOK

(***************************************************************************)
(* The inductive invariant behind NobodyLeftSuspended.                     *)
(***************************************************************************)
\* Thread t never ends a handler quietly: it is ended, or runs, or will run, a handler
\* that hands the event on to a signal.
Doomed(t) ==
    \/ pc[t] \in {"dead", "blocked", "signalled"}
    \/ /\ Kind(t) \in {"signal", "nsexception"}
       /\ pc[t] \notin {"idle", "wait", "parked", "done"}

\* Only a handler that is abandoned by its crash, by its end, or by the NSException
\* monitor's missing resumption leaves a thread suspended that nobody holds.
Released ==
    alive => \/ \E t \in live : Doomed(t)
             \/ \A u \in Threads : susp[u] <= Cardinality(Holders(u))

\* What is still to be suspended is on the list, which a handler that does not suspend
\* never reads; only a thread that exists runs.
SuspendOK(t) ==
    /\ pc[t] = "suspending" => frame[t].todo \subseteq frame[t].list
    /\ pc[t] = "inKernel" =>
         /\ frame[t].target \in frame[t].list \ frame[t].todo
         /\ frame[t].todo \subseteq frame[t].list
    /\ Kind(t) \notin Suspends =>
         frame[t].list = {} /\ pc[t] \notin {"suspend", "suspending", "inKernel"}
    /\ t \notin live => pc[t] \in {"idle", "done"}

ReleaseInv == Released /\ (\A t \in Threads : SuspendOK(t)) /\ known \subseteq live

(***************************************************************************)
(* The inductive invariant behind ReportsOwnEvent.  The two Mach threads    *)
(* share a context, and so do the primary one, once its own handler has     *)
(* crashed, and an application thread that handles a signal.               *)
(***************************************************************************)
Noted == Capturing \ {"notify", "mark"}
Disabling == {"disable", "uninstall", "mask"}
Entering == {"enter", "suspend", "suspending", "inKernel", "notify", "mark"}
Resuming == {"resume", "resuming", "leave"}

Unstarted(h) == pc[h] \in {"parked", "done", "dead"}

\* The only signal handler a Mach thread runs is that of its own crash.
MachKinds ==
    /\ \A t \in AppThreads : Kind(t) # "mach"
    /\ Unstarted(Sec) \/ pc[Sec] = "wait" \/ Kind(Sec) = "mach"
    /\ \A h \in Handlers : pc[h] \notin {"blocked", "signalled", "idle"}
    /\ Kind(Pri) = "mach" /\ pc[Pri] \in Disabling => frame[Pri].after # "fill"

\* The monitors are disabled in two steps, the Mach monitor first.
TwoSteps == enabled # {} => Monitored \ {"mach"} \subseteq enabled

\* The primary thread handles the signal of the crash of its handler.
Crashing == Kind(Pri) = "signal" /\ pc[Pri] \notin {"wait", "done", "dead"}

\* Code that may crash runs on a Mach thread after the ports were given up.
PortsGiven ==
    /\ Pri \notin known => ~ports
    /\ ~Unstarted(Sec) => ~ports
    /\ pc[Pri] \in Vulnerable \/ Crashing => ~ports

\* The primary thread handles a Mach exception and has not routed the next one away.
Routing ==
    \/ pc[Pri] = "route"
    \/ pc[Pri] \in Disabling /\ frame[Pri].after = "route"

SecondWaits ==
    \/ pc[Pri] = "wait"
    \/ Kind(Pri) = "mach" /\ (pc[Pri] \in Entering \/ Routing)
    => Unstarted(Sec)

\* It has set g_handlingFatalException and g_isHandlingCrash.
FirstIsNoted ==
    Kind(Pri) = "mach" =>
        /\ Routing \/ pc[Pri] \in Vulnerable => handling
        /\ Routing \/ pc[Pri] \in Vulnerable \cup {"notify", "mark"} => busy
        /\ pc[Pri] = "route" => enabled = {} \/ ~crashedDuring

\* The secondary thread ends the primary one, in uninstallExceptionHandler, before
\* it comes to fill the context that they share.
OneMachContext ==
    Kind(Pri) = "mach" /\ pc[Pri] \in Vulnerable =>
        \/ Unstarted(Sec)
        \/ Pri \in known /\ pc[Sec] \in {"wait", "enter", "leave", "uninstall"}
        \/ /\ Pri \in known /\ "mach" \in enabled
           /\ pc[Sec] \in Entering \cup {"disable"}
           /\ pc[Sec] = "mark" => frame[Sec].was

\* Every application thread is held by a Mach thread other than the primary one, or
\* by its crashed handler, for ever.
Margin == \A u \in AppThreads : Cardinality(Holders(u) \ {Pri}) + 1 <= susp[u]

\* A second Mach exception finds the first one noted and the application stopped, or
\* nothing left enabled.
SecondIsNested ==
    /\ pc[Sec] \in Entering \cup {"wait"} /\ enabled # {} =>
         /\ handling /\ Margin
         /\ pc[Sec] = "mark" => frame[Sec].was
         /\ pc[Pri] \notin Resuming
         /\ crashedDuring =>
              pc[Pri] = "dead" \/ (Kind(Pri) = "signal" /\ pc[Pri] \in Disabling)
    /\ pc[Sec] \in Vulnerable \cup {"route"} => enabled = {}

\* So does the signal of that crash.
CrashIsNested ==
    Crashing =>
        /\ pc[Pri] \in Entering =>
             enabled = {} \/ (handling /\ (pc[Pri] = "mark" => frame[Pri].was))
        /\ pc[Pri] \in Vulnerable \cup Resuming \cup {"route"} => enabled = {}
        /\ pc[Pri] \notin Resuming => Margin
        /\ pc[Pri] = "enter" => "signal" \in Monitored

\* An application thread stopped while it reports a signal.
Clash == \E x \in AppThreads : Kind(x) = "signal" /\ pc[x] \in Vulnerable

\* It has been noted: the primary thread does not crash on top of it.
OneSignalContext ==
    /\ \A x \in AppThreads : Kind(x) = "signal" /\ pc[x] \in Noted => handling
    /\ Kind(Pri) = "mach" /\ Clash =>
         /\ pc[Pri] = "mark" => frame[Pri].was
         /\ pc[Pri] \in Vulnerable \cup {"route"} => enabled = {}
    /\ Crashing /\ pc[Pri] \notin Resuming => ~Clash

OwnInv ==
    /\ MachKinds /\ TwoSteps /\ PortsGiven /\ SecondWaits /\ FirstIsNoted
    /\ OneMachContext /\ SecondIsNested /\ CrashIsNested /\ OneSignalContext
=============================================================================
