------------------------------ MODULE AppState ------------------------------
(***************************************************************************)
(* The application state monitor                                           *)
(* (Recording/Monitors/GrowingCrashMonitor_AppState.c): how long the app    *)
(* was active and in the background, how often it was launched since the    *)
(* last crash, and whether the last launch crashed; kept in memory, and in  *)
(* a state file that the next launch reads.                                *)
(*                                                                         *)
(* The main thread is told of the phases of the app (GrowingCrash.m,        *)
(* through GrowingCrashC.c, which remembers the last phase it was told of   *)
(* before the installation).  Any thread may report an exception, and then  *)
(* updates the same state without a lock.  The process may be killed at any *)
(* time, also while it writes the file, whose keys are written in order.    *)
(*                                                                         *)
(* Time is a counter that only grows.  Variables real* record what really   *)
(* happened, whatever the monitor makes of it.                             *)
(***************************************************************************)
EXTENDS Naturals, FiniteSets

CONSTANTS
    Main, Others,     \* the main thread and the other ones that may report
    InstallPhases,    \* phases of the app in which the reporter is installed
    FirstPhase,       \* "launching", or "background" if the system launches it there
    Toggles,          \* TRUE: the application may disable and enable the monitor
    Jobs,             \* what a thread may do: "snapshot", "report", "crash"
    MaxTime,          \* bound: the clock
    MaxLaunches,      \* bound: launches of the application
    MaxSessions,      \* bound: sessions of a launch
    MaxReports        \* bound: exceptions reported in a launch

Threads == {Main} \cup Others
Phases == {"launching", "active", "inactive", "background"}

ASSUME AppStateAssumption ==
    /\ Main \notin Others /\ IsFiniteSet(Others)
    /\ InstallPhases \subseteq Phases
    /\ FirstPhase \in {"launching", "background"}
    /\ Toggles \in BOOLEAN
    /\ Jobs \subseteq {"snapshot", "report", "crash"}
    /\ MaxTime \in Nat /\ MaxLaunches \in Nat \ {0}
    /\ MaxSessions \in Nat \ {0} /\ MaxReports \in Nat

\* The keys of the state file, in the order they are written: the format version,
\* the crash flag, two durations and two counters.
Keys == 6

VARIABLES
    alone,        \* the application reports from the main thread alone, and has the
                  \* reporter installed before anything else and never disabled
    now,          \* the clock
    phase,        \* the real phase of the app
    lastTold,     \* g_lastApplicationState
    installed,    \* g_installed
    alive,        \* the process runs
    crasher,      \* threads that crashed (the others are stopped)
    enabled,      \* g_isEnabled
    state,        \* g_state
    file,         \* disk: the values of the state file, and how many keys it has
    pc, loc,      \* label and locals of each thread
    launches,     \* number of launches so far
    reports,      \* exceptions reported in this launch
    real,         \* history: real durations of this launch
    realSince,    \* history: real durations and launches since the last crash
    noted,        \* history: "begun" when a crash was noted in this launch, then "saved"
    lastNoted,    \* history: noted, in the last launch that began to save
    cut           \* history: a process was killed before a save was complete

appVars == <<phase, lastTold, installed>>
processVars == <<alive, crasher, launches, reports>>
threadVars == <<pc, loc>>
historyVars == <<real, realSince, noted, lastNoted, cut>>
vars == <<alone, now, appVars, processVars, enabled, state, file, threadVars, historyVars>>

NoTime == [p \in Phases |-> 0]

\* growingcrashstate_notifyObjCLoad: memset, then the flags and the time.
LoadedState ==
    [active |-> 0, background |-> 0, activeSince |-> 0, backgroundSince |-> 0,
     launchesSince |-> 0, sessions |-> 0, sessionsSince |-> 0,
     crashedLastLaunch |-> FALSE, crashedThisLaunch |-> FALSE,
     isActive |-> TRUE, inForeground |-> FALSE, transition |-> now]

IdleLoc == [job |-> "none", duration |-> 0, again |-> FALSE]

Init ==
    /\ alone \in BOOLEAN
    /\ now = 0
    /\ phase = FirstPhase /\ lastTold = "none" /\ installed = FALSE
    /\ alive = TRUE /\ crasher = {} /\ launches = 1 /\ reports = 0
    /\ enabled = FALSE
    /\ state = LoadedState
    /\ file = [keys |-> 0, crashed |-> FALSE, active |-> 0, background |-> 0,
               launches |-> 0, sessions |-> 0]
    /\ pc = [t \in Threads |-> "idle"] /\ loc = [t \in Threads |-> IdleLoc]
    /\ real = NoTime
    /\ realSince = [time |-> NoTime, launches |-> 0]
    /\ noted = "no" /\ lastNoted = "no" /\ cut = FALSE

(***************************************************************************)
(* Helpers.                                                                *)
(***************************************************************************)
Running(t) == alive /\ crasher \subseteq {t}

At(t, l) == Running(t) /\ pc[t] = l

Goto(t, l) == pc' = [pc EXCEPT ![t] = l]

TimeSince(time) == now - time

\* saveState: crashedThisLaunch is what the next launch reads as crashedLastLaunch.
\* Mutant: the flag of the last launch is saved with it.
SavedFlagOfEither(s) == s.crashedLastLaunch \/ s.crashedThisLaunch

SavedFlag(s) == s.crashedThisLaunch

Saved(s) ==
    [keys |-> Keys, crashed |-> SavedFlag(s), active |-> s.activeSince,
     background |-> s.backgroundSince, launches |-> s.launchesSince,
     sessions |-> s.sessionsSince]

\* loadState: the keys that are there are decoded into g_state, then the end of an
\* incomplete file is an error that nobody looks at.
Load(s) ==
    [s EXCEPT
       !.crashedLastLaunch = IF file.keys >= 2 THEN file.crashed ELSE @,
       !.activeSince = IF file.keys >= 3 THEN file.active ELSE @,
       !.backgroundSince = IF file.keys >= 4 THEN file.background ELSE @,
       !.launchesSince = IF file.keys >= 5 THEN file.launches ELSE @,
       !.sessionsSince = IF file.keys >= 6 THEN file.sessions ELSE @]

\* growingcrashstate_reset; the durations and counters since the last crash start anew
\* if the last launch crashed.
\* Mutant: they are kept.
KeptCounters(s) == s

Cleared(s) ==
    IF s.crashedLastLaunch
      THEN [s EXCEPT !.activeSince = 0, !.backgroundSince = 0,
                     !.launchesSince = 0, !.sessionsSince = 0]
      ELSE s

Reset(s) ==
    [Cleared(s) EXCEPT
       !.sessions = 1, !.active = 0, !.background = 0, !.crashedThisLaunch = FALSE,
       !.launchesSince = @ + 1, !.sessionsSince = @ + 1, !.inForeground = TRUE]

AddActive(s, d) == [s EXCEPT !.active = @ + d, !.activeSince = @ + d]
AddBackground(s, d) == [s EXCEPT !.background = @ + d, !.backgroundSince = @ + d]

Stamped(s) == [s EXCEPT !.transition = now]

(***************************************************************************)
(* growingcrashstate_notifyAppActive, growingcrashstate_notifyAppInForeground *)
(* and what they do to the state; going to the background also saves it.     *)
(***************************************************************************)
Told(s, what) ==
    CASE what = "becomeActive" -> [s EXCEPT !.isActive = TRUE, !.transition = now]
      [] what = "resignActive" ->
           [AddActive(s, TimeSince(s.transition)) EXCEPT !.isActive = FALSE]
      [] what = "enterForeground" ->
           [AddBackground(s, TimeSince(s.transition)) EXCEPT
              !.inForeground = TRUE, !.sessions = @ + 1, !.sessionsSince = @ + 1]
      [] what = "enterBackground" -> [Stamped(s) EXCEPT !.inForeground = FALSE]
      [] OTHER -> s

NextPhase(what) ==
    CASE what = "becomeActive" -> "active"
      [] what \in {"resignActive", "enterForeground"} -> "inactive"
      [] what = "enterBackground" -> "background"

MayFollow(what) ==
    CASE what = "becomeActive" -> phase \in {"launching", "inactive"}
      [] what = "resignActive" -> phase = "active"
      [] what = "enterForeground" -> phase = "background" /\ state.sessions < MaxSessions
      [] what = "enterBackground" -> phase = "inactive"

\* The app changes its phase, and the main thread tells the monitor.
Notify(what) ==
    /\ At(Main, "idle") /\ MayFollow(what)
    /\ phase' = NextPhase(what) /\ lastTold' = what
    /\ IF enabled
         THEN /\ state' = Told(state, what)
              /\ Goto(Main, IF what = "enterBackground" THEN "truncate" ELSE "idle")
         ELSE UNCHANGED <<state, pc>>
    /\ UNCHANGED <<now, installed, processVars, enabled, file, loc, historyVars>>

\* growingcrashstate_notifyAppTerminate; the process ends when it returns.
Terminate ==
    /\ At(Main, "idle") /\ phase # "launching"
    /\ lastTold' = "terminate"
    /\ IF enabled
         THEN /\ Goto(Main, "read")
              /\ loc' = [loc EXCEPT ![Main] = [IdleLoc EXCEPT !.job = "terminate"]]
              /\ UNCHANGED alive
         ELSE alive' = FALSE /\ UNCHANGED threadVars
    /\ UNCHANGED <<now, phase, installed, crasher, launches, reports, enabled, state,
                   file, historyVars>>

(***************************************************************************)
(* growingcrash_install: the file is loaded, the monitor enabled and reset,  *)
(* and the last notification that came before is passed on.                 *)
(***************************************************************************)
Install ==
    /\ At(Main, "idle") /\ ~installed /\ phase \in InstallPhases
    /\ alone => phase = FirstPhase
    /\ installed' = TRUE /\ enabled' = TRUE
    /\ LET loaded == Load(state) IN
         /\ state' = Reset(loaded)
         /\ realSince' =
              IF loaded.crashedLastLaunch
                THEN [time |-> real, launches |-> 1]
                ELSE [realSince EXCEPT !.launches = @ + 1]
    /\ Goto(Main, "truncate")
    /\ loc' = [loc EXCEPT ![Main] = [IdleLoc EXCEPT !.job = "install"]]
    /\ UNCHANGED <<now, phase, lastTold, processVars, file, real, noted, lastNoted, cut>>

\* notifyOfBeforeInstallationState: as if it were told now.
Replay ==
    /\ At(Main, "replay")
    /\ state' = Told(state, lastTold)
    /\ loc' = [loc EXCEPT ![Main] = IdleLoc]
    /\ Goto(Main, IF lastTold = "enterBackground" THEN "truncate" ELSE "idle")
    /\ UNCHANGED <<now, appVars, processVars, enabled, file, historyVars>>

\* growingcrash_setMonitoring without, or again with, this monitor.
Disable ==
    /\ Toggles /\ ~alone /\ At(Main, "idle") /\ enabled
    /\ enabled' = FALSE
    /\ UNCHANGED <<now, appVars, processVars, state, file, threadVars, historyVars>>

Enable ==
    /\ Toggles /\ At(Main, "idle") /\ installed /\ ~enabled
    /\ reports < MaxReports /\ reports' = reports + 1
    /\ enabled' = TRUE
    /\ state' = Reset(state)
    /\ Goto(Main, "truncate")
    /\ UNCHANGED <<now, appVars, alive, crasher, launches, file, loc, historyVars>>

(***************************************************************************)
(* An exception: growingcrashcm_handleException asks the monitor for its     *)
(* values (addContextualInfoToEvent), and onCrash notes a crash, unless it   *)
(* is a snapshot.  Both begin with updateAppState.                          *)
(***************************************************************************)
Report(t, job) ==
    /\ At(t, "idle") /\ job \in Jobs /\ enabled
    /\ alone => t = Main
    /\ reports < MaxReports /\ reports' = reports + 1
    /\ crasher' = IF job = "crash" THEN {t} ELSE crasher
    /\ Goto(t, "read")
    /\ loc' = [loc EXCEPT ![t] = [job |-> job, duration |-> 0, again |-> job # "snapshot"]]
    /\ UNCHANGED <<now, appVars, alive, launches, enabled, state, file, historyVars>>

\* updateAppState: the duration is read, ...
UpdateRead(t) ==
    /\ At(t, "read")
    /\ loc' = [loc EXCEPT ![t].duration = TimeSince(state.transition)]
    /\ Goto(t, "stamp")
    /\ UNCHANGED <<now, appVars, processVars, enabled, state, file, historyVars>>

\* ... the transition moved to the present, ...
UpdateStamp(t) ==
    /\ At(t, "stamp")
    /\ state' = Stamped(state)
    /\ Goto(t, "add")
    /\ UNCHANGED <<now, appVars, processVars, enabled, file, loc, historyVars>>

\* Mutant: background time is added to the active time.
CountedActive(s, d) == IF s.isActive \/ ~s.inForeground THEN AddActive(s, d) ELSE s

Counted(s, d) ==
    IF s.isActive THEN AddActive(s, d)
    ELSE IF ~s.inForeground THEN AddBackground(s, d)
    ELSE s

\* ... and the duration added to what the app was doing.
UpdateAdd(t) ==
    /\ At(t, "add")
    /\ LET counted == Counted(state, loc[t].duration)
           notes == loc[t].job \in {"report", "crash"} /\ ~loc[t].again
           saves == notes \/ loc[t].job = "terminate"
       IN /\ state' = [counted EXCEPT !.crashedThisLaunch = @ \/ notes]
          /\ noted' = IF notes /\ noted = "no" THEN "begun" ELSE noted
          /\ Goto(t, IF saves THEN "truncate" ELSE IF loc[t].again THEN "read" ELSE "idle")
          /\ loc' = [loc EXCEPT ![t] = IF saves \/ @.again THEN [@ EXCEPT !.again = FALSE]
                                                            ELSE IdleLoc]
    /\ UNCHANGED <<now, appVars, processVars, enabled, file, real, realSince, lastNoted, cut>>

(***************************************************************************)
(* saveState: the file is opened with O_TRUNC, and then written.  Two savers  *)
(* may both truncate it before one of them writes, but each writes its keys as *)
(* if it were alone: a file made of the keys of two savers is not modelled.   *)
(***************************************************************************)
Truncate(t) ==
    /\ At(t, "truncate")
    /\ file' = [file EXCEPT !.keys = 0]
    /\ Goto(t, "write")
    /\ UNCHANGED <<now, appVars, processVars, enabled, state, loc, historyVars>>

Write(t) ==
    /\ At(t, "write")
    /\ file' = Saved(state)
    /\ noted' = IF loc[t].job \in {"report", "crash"} THEN "saved" ELSE noted
    /\ alive' = (loc[t].job \notin {"crash", "terminate"})
    /\ Goto(t, IF loc[t].job = "install" THEN "replay" ELSE "idle")
    /\ loc' = [loc EXCEPT ![t] = IdleLoc]
    /\ UNCHANGED <<now, appVars, crasher, launches, reports, enabled, state, real, realSince,
                   lastNoted, cut>>

\* The system kills the process: a file that is being written is cut off anywhere.
Kill ==
    /\ alive /\ alive' = FALSE
    /\ cut' = (cut \/ \E t \in Threads : pc[t] \in {"truncate", "write"})
    /\ IF \E t \in Threads : pc[t] = "write"
         THEN \E k \in 0 .. Keys - 1 : file' = [Saved(state) EXCEPT !.keys = k]
         ELSE UNCHANGED file
    /\ UNCHANGED <<now, appVars, crasher, launches, reports, enabled, state, threadVars,
                   real, realSince, noted, lastNoted>>

\* This launch was killed before the save of its reset: it left the file as it was.
LeftFile == ~installed \/ (noted = "no" /\ pc[Main] = "truncate" /\ loc[Main].job = "install")

\* The next launch.
Launch ==
    /\ ~alive /\ alive' = TRUE
    /\ launches < MaxLaunches /\ launches' = launches + 1
    /\ crasher' = {} /\ reports' = 0
    /\ phase' = FirstPhase /\ lastTold' = "none" /\ installed' = FALSE /\ enabled' = FALSE
    /\ state' = LoadedState
    /\ pc' = [t \in Threads |-> "idle"] /\ loc' = [t \in Threads |-> IdleLoc]
    /\ real' = NoTime
    /\ noted' = "no" /\ lastNoted' = IF LeftFile THEN lastNoted ELSE noted
    /\ UNCHANGED <<now, file, realSince, cut>>

\* Time passes, in the phase the app is in; none that counts passes between the two calls
\* of gettimeofday of one update.
Tick ==
    /\ \A t \in Threads : pc[t] # "stamp"
    /\ alive /\ now < MaxTime /\ now' = now + 1
    /\ real' = [real EXCEPT ![phase] = @ + 1]
    /\ realSince' = [realSince EXCEPT !.time[phase] = @ + 1]
    /\ UNCHANGED <<appVars, processVars, enabled, state, file, threadVars, noted, lastNoted,
                   cut>>

Notification == {"becomeActive", "resignActive", "enterForeground", "enterBackground"}

\* The last launch of the bound is over.
Over == ~alive /\ launches = MaxLaunches /\ UNCHANGED vars

Step ==
    \/ \E what \in Notification : Notify(what)
    \/ Terminate \/ Install \/ Replay \/ Disable \/ Enable
    \/ \E t \in Threads :
         \/ \E job \in Jobs : Report(t, job)
         \/ UpdateRead(t) \/ UpdateStamp(t) \/ UpdateAdd(t) \/ Truncate(t) \/ Write(t)
    \/ Kill \/ Launch \/ Tick \/ Over

Next == Step /\ UNCHANGED alone

Spec == Init /\ [][Next]_vars

(***************************************************************************)
(* Properties.                                                             *)
(***************************************************************************)
Times == 0 .. MaxTime
Durations == 0 .. 2 * MaxTime     \* some are counted twice, see below
Counts == 0 .. (MaxLaunches + MaxReports) * (MaxSessions + 1)

\* Type invariant.
TypeOK ==
    /\ alone \in BOOLEAN /\ now \in Times /\ phase \in Phases
    /\ lastTold \in Notification \cup {"none", "terminate"}
    /\ installed \in BOOLEAN /\ alive \in BOOLEAN /\ enabled \in BOOLEAN
    /\ crasher \subseteq Threads
    /\ state \in [active: Durations, background: Durations, activeSince: Durations,
                  backgroundSince: Durations, launchesSince: Counts, sessions: Counts,
                  sessionsSince: Counts, crashedLastLaunch: BOOLEAN,
                  crashedThisLaunch: BOOLEAN, isActive: BOOLEAN, inForeground: BOOLEAN,
                  transition: Times]
    /\ file \in [keys: 0 .. Keys, crashed: BOOLEAN, active: Durations,
                 background: Durations, launches: Counts, sessions: Counts]
    /\ \A t \in Threads : loc[t].duration \in Times

\* No thread is between reading a duration and adding it.
Settled == enabled /\ \A t \in Threads : pc[t] \notin {"replay", "stamp", "add"}

\* What updateAppState would add now.
PendingActive == IF state.isActive THEN TimeSince(state.transition) ELSE 0
PendingBackground ==
    IF ~state.isActive /\ ~state.inForeground THEN TimeSince(state.transition) ELSE 0

\* "Total active time elapsed since launch", "Total time backgrounded elapsed since
\* launch" (GrowingCrashMonitor_AppState.h:75-78), whatever is reported in between: the
\* monitor counts the background time exactly, and the active time up to the time before
\* the app first became active.
DurationsExact ==
    Settled =>
        /\ state.background + PendingBackground = real["background"]
        /\ state.active + PendingActive >= real["active"]
        /\ state.active + PendingActive <= real["active"] + real["launching"]

\* The durations since the last crash go through the state file, which may be lost or cut
\* off: they never contain more than the time since the last crash.
DurationsSinceCrash ==
    Settled =>
        /\ state.backgroundSince + PendingBackground <= realSince.time["background"]
        /\ state.activeSince + PendingActive
             <= realSince.time["active"] + realSince.time["launching"]

\* "Number of app launches since the last crash." (GrowingCrashMonitor_AppState.h:69):
\* exact over crashes and launches, unless a process was killed while it saved.
LaunchesCounted ==
    installed => /\ state.launchesSince <= realSince.launches
                 /\ ~cut => state.launchesSince = realSince.launches

\* The flag that onCrash saves reaches the next launch that installs the reporter, and
\* only that one, unless a process was killed while it saved.
FlagReachesNextLaunch ==
    installed /\ ~cut => (state.crashedLastLaunch <=> lastNoted = "saved")

\* "If true, the application crashed on the previous launch."
\* (GrowingCrashMonitor_AppState.h:84): the flag is never set without a report of the
\* launch before (the last one that wrote the file), whichever threads save at the same
\* time, wherever a save is cut off, and however often the monitor is reset.
FlagOnlyAfterReport ==
    installed /\ state.crashedLastLaunch => lastNoted # "no"

\* When the main thread alone reports, and the monitor is enabled from the launch on, the
\* durations of this launch are the real ones (growingcrashstate_currentState).
ExactAlone == alone => DurationsExact

\* Then, too, the state file hands over to the next launch the durations and counters since
\* the last crash, and whether there was one, for as much of the file as was written
\* (saveState and loadState).
CarriedOverAlone ==
    alone => DurationsSinceCrash /\ LaunchesCounted /\ FlagReachesNextLaunch
=============================================================================
