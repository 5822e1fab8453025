-------------------------- MODULE MonitorLifecycle --------------------------
(***************************************************************************)
(* The monitors as they are switched on and off at run time                 *)
(* (growingcrash_setMonitoring, growingcrashcm_setActiveMonitors), with       *)
(* installations that fail, beside another crash reporter in the process.      *)
(*                                                                         *)
(* A channel is what the system offers one handler for: the exception ports of *)
(* the task, each fatal signal, the handler of uncaught exceptions, the        *)
(* terminate handler.  Whoever installs a handler keeps the one it found, calls *)
(* it last, and puts it back when it goes.                                    *)
(***************************************************************************)
EXTENDS Naturals, Sequences, FiniteSets

CONSTANTS
    Signals,        \* the fatal signals, in order
    MaxReserved,    \* reserved threads: 10 in the code
    MaxInstalls     \* bound: installations

\* g_monitors, those with handlers and the one for user reports.
Monitors == <<"mach", "signal", "ns", "cpp", "user">>
DebuggerUnsafe == {"mach", "signal", "ns", "cpp"}
SignalSet == {Signals[i] : i \in DOMAIN Signals}

ASSUME LifecycleAssumption ==
    /\ MaxReserved \in Nat /\ MaxInstalls \in Nat
    /\ Signals \in Seq(SignalSet) /\ SignalSet \cap {"mach", "signal", "ns", "cpp"} = {}
    /\ \A i, j \in DOMAIN Signals : Signals[i] = Signals[j] => i = j

Channels == {"mach", "ns", "cpp"} \cup SignalSet
MonitorAt(c) == IF c \in SignalSet THEN "signal" ELSE c

VARIABLES
    wanted, step,   \* setActiveMonitors: what is asked for, the next monitor
    enabled,        \* g_isEnabled of each monitor
    active,         \* g_activeMonitors
    handler,        \* the handler of each channel
    previous,       \* the handlers the monitors have kept
    kept,           \* g_previousExceptionPorts.count
    threads,        \* the exception threads that run
    reserved,       \* g_reservedThreads
    installs,       \* history: installations
    failed,         \* history: enabled monitors whose installation failed
    other,          \* the handlers the other reporter has kept, or "none"
    spoiled         \* history: channels where a handler went out of turn

callVars == <<wanted, step, enabled, active>>
machVars == <<kept, threads, reserved>>
handlerVars == <<handler, previous>>
vars == <<callVars, machVars, handlerVars, installs, failed, other, spoiled>>

Init ==
    /\ wanted = {} /\ step = 0 /\ enabled = {} /\ active = {}
    /\ handler = [c \in Channels |-> "default"]
    /\ previous = [c \in Channels |-> "unset"]
    /\ kept = 0 /\ threads = {} /\ reserved = <<>>
    /\ installs = 0 /\ failed = {}
    /\ other = [c \in Channels |-> "none"] /\ spoiled = {}

-----------------------------------------------------------------------------
\* setActiveMonitors, while a debugger is attached or not.
SetActiveMonitors(monitors, traced) ==
    /\ step = 0 /\ installs < MaxInstalls
    /\ wanted' = IF traced THEN monitors \ DebuggerUnsafe ELSE monitors
    /\ step' = 1
    /\ UNCHANGED <<enabled, active, machVars, handlerVars, installs, failed, other, spoiled>>

\* addReservedThread: there is no room for more, and none is ever removed.
AddReserved(list, thread) ==
    IF Len(list) < MaxReserved THEN Append(list, thread) ELSE list

Take(channels) ==
    /\ previous' = [c \in Channels |-> IF c \in channels THEN handler[c] ELSE previous[c]]
    /\ handler' = [c \in Channels |-> IF c \in channels THEN "ours" ELSE handler[c]]

GiveBack(channels) ==
    /\ handler' = [c \in Channels |-> IF c \in channels THEN previous[c] ELSE handler[c]]
    /\ UNCHANGED previous

Secondary == <<"secondary", installs + 1>>
Primary == <<"primary", installs + 1>>

\* Mutant: only the primary thread is reserved.
OnePerInstall ==
    \/ /\ Take({"mach"}) /\ kept' = 1
       /\ threads' = {Secondary, Primary}
       /\ reserved' = AddReserved(reserved, Primary)
       /\ UNCHANGED failed
    \/ /\ kept' = 0 /\ UNCHANGED <<handlerVars, threads, reserved>>
       /\ failed' = failed \cup {"mach"}

\* installExceptionHandler: it succeeds; or it fails before a thread exists, or
\* at the second one.  Then all is taken back but the reservation.
InstallExceptionHandler ==
    \/ /\ Take({"mach"}) /\ kept' = 1
       /\ threads' = {Secondary, Primary}
       /\ reserved' = AddReserved(AddReserved(reserved, Secondary), Primary)
       /\ UNCHANGED failed
    \/ /\ \E list \in {reserved, AddReserved(reserved, Secondary)} : reserved' = list
       /\ kept' = 0 /\ UNCHANGED <<handlerVars, threads>>
       /\ failed' = failed \cup {"mach"}

\* uninstallExceptionHandler
UninstallExceptionHandler ==
    /\ IF kept > 0 THEN GiveBack({"mach"}) ELSE UNCHANGED handlerVars
    /\ kept' = 0 /\ threads' = {} /\ UNCHANGED reserved

\* Mutant: the first signal is not given back.
RollBackToSecond(n) ==
    /\ previous' = [c \in Channels |-> IF \E i \in 1 .. n : Signals[i] = c
                                       THEN handler[c] ELSE previous[c]]
    /\ handler' = IF n > 0 THEN [handler EXCEPT ![Signals[1]] = "ours"] ELSE handler

\* Only the first n signals could be set, and they are given back.
RollBack(n) ==
    /\ previous' = [c \in Channels |-> IF \E i \in 1 .. n : Signals[i] = c
                                       THEN handler[c] ELSE previous[c]]
    /\ UNCHANGED handler

\* installSignalHandler
InstallSignalHandler ==
    \/ Take(SignalSet) /\ UNCHANGED failed
    \/ \E n \in 0 .. Len(Signals) - 1 : RollBack(n) /\ failed' = failed \cup {"signal"}

Install(m) ==
    \/ m = "mach" /\ InstallExceptionHandler
    \/ m = "signal" /\ InstallSignalHandler /\ UNCHANGED machVars
    \/ m \in {"ns", "cpp"} /\ Take({m}) /\ UNCHANGED <<machVars, failed>>
    \/ m = "user" /\ UNCHANGED <<handlerVars, machVars, failed>>

\* uninstallSignalHandler gives all signals back, whatever was installed.
Uninstall(m) ==
    \/ m = "mach" /\ UninstallExceptionHandler
    \/ m = "signal" /\ GiveBack(SignalSet) /\ UNCHANGED machVars
    \/ m \in {"ns", "cpp"} /\ GiveBack({m}) /\ UNCHANGED machVars
    \/ m = "user" /\ UNCHANGED <<handlerVars, machVars>>

\* A handler is put back over one that came later, or by a monitor that never
\* had it.
OutOfTurn(m) == {c \in Channels : MonitorAt(c) = m /\ handler[c] # "ours"
                                    /\ ~(m = "mach" /\ kept = 0)}

\* setEnabled of the next monitor.
SetEnabled ==
    /\ step \in DOMAIN Monitors
    /\ LET m == Monitors[step]
       IN \/ /\ m \in wanted /\ m \notin enabled
             /\ Install(m) /\ enabled' = enabled \cup {m}
             /\ installs' = IF m = "mach" THEN installs + 1 ELSE installs
             /\ UNCHANGED spoiled
          \/ /\ m \notin wanted /\ m \in enabled
             /\ Uninstall(m) /\ enabled' = enabled \ {m}
             /\ failed' = failed \ {m} /\ spoiled' = spoiled \cup OutOfTurn(m)
             /\ UNCHANGED installs
          \/ /\ m \in wanted <=> m \in enabled
             /\ UNCHANGED <<enabled, handlerVars, machVars, failed, spoiled, installs>>
    /\ step' = step + 1 /\ UNCHANGED <<wanted, active, other>>

Activated ==
    /\ step > Len(Monitors)
    /\ active' = enabled /\ step' = 0
    /\ UNCHANGED <<wanted, enabled, machVars, handlerVars, installs, failed, other, spoiled>>

-----------------------------------------------------------------------------
(* The other reporter.                                                     *)

OtherInstalls(c) ==
    /\ other[c] = "none"
    /\ other' = [other EXCEPT ![c] = handler[c]]
    /\ handler' = [handler EXCEPT ![c] = "other"]
    /\ UNCHANGED <<callVars, machVars, previous, installs, failed, spoiled>>

OtherUninstalls(c) ==
    /\ other[c] # "none"
    /\ handler' = [handler EXCEPT ![c] = other[c]]
    /\ other' = [other EXCEPT ![c] = "none"]
    /\ spoiled' = IF handler[c] = "other" THEN spoiled ELSE spoiled \cup {c}
    /\ UNCHANGED <<callVars, machVars, previous, installs, failed>>

Next ==
    \/ \E monitors \in SUBSET DebuggerUnsafe, traced \in BOOLEAN :
        SetActiveMonitors(monitors \cup {"user"}, traced)
    \/ SetEnabled \/ Activated
    \/ \E c \in Channels : OtherInstalls(c) \/ OtherUninstalls(c)

Spec == Init /\ [][Next]_vars

-----------------------------------------------------------------------------
\* The handler that is called after another one.
After(c, h) == CASE h = "ours" -> previous[c] [] h = "other" -> other[c] [] OTHER -> h

Installed(c) == MonitorAt(c) \in enabled \ failed

\* On every channel where handlers came and went in turn, an event reaches each
\* reporter that is installed, and at last the default: none is lost, none calls
\* itself, and nothing is left of an installation that failed or was undone.
EveryoneHears ==
    \A c \in Channels \ spoiled :
        LET h1 == handler[c]  h2 == After(c, h1)  h3 == After(c, h2)
        IN /\ h3 = "default"
           /\ {h1, h2, h3} = {"default"} \cup (IF Installed(c) THEN {"ours"} ELSE {})
                                \cup (IF other[c] # "none" THEN {"other"} ELSE {})

\* The exception threads are never stopped by a report, as long as the table of
\* reserved threads has had room: five installations of the Mach monitor.
ExceptionThreadsReserved ==
    2 * installs <= MaxReserved => \A t \in threads : \E i \in DOMAIN reserved : reserved[i] = t
=============================================================================
