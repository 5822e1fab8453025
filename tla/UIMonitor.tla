------------------------------ MODULE UIMonitor ------------------------------
(***************************************************************************)
(* Launches and pages (Sources/UIMonitor, Sources/Core/GrowingAPM.m).        *)
(* The main thread notes when the process starts, when the first page        *)
(* appears and when the application comes back from the background, and       *)
(* tells the delegates of it: one cold launch, then pages and warm launches. *)
(* Delegates are told under a lock, and any thread may add or remove one.    *)
(*                                                                         *)
(* The clock advances where the code reads it, so that times of different    *)
(* notifications differ.  With prewarming the system executes the process up *)
(* to main, or with scenes through didFinishLaunching, before the user        *)
(* launches it (GrowingAPMUIMonitor.m:163-166).                              *)
(***************************************************************************)
EXTENDS Naturals, FiniteSets, Sequences, SequencesExt

CONSTANTS
    Pages,          \* view controllers of the application
    Ignored,        \* those of private or GrowingTK classes
    Delegates,
    Responders,     \* delegates that implement the method of the protocol
    Workers,        \* threads other than the main thread
    None,
    Exec,           \* when the system executes the process
    MaxTime,        \* bound: the clock
    MaxCold         \* kMaxColdRebootDuration

ASSUME UIMonitorAssumption ==
    /\ Ignored \subseteq Pages /\ Responders \subseteq Delegates
    /\ None \notin Pages \cup Workers \cup {"main"}
    /\ MaxTime \in Nat /\ MaxCold \in Nat

\* The clock counts from 1970: a time that was never noted, which is 0, is
\* longer ago than any launch that is told.
ASSUME ClockAssumption == Exec \in Nat /\ MaxCold < Exec /\ Exec < MaxTime

VARIABLES
    now,
    prewarm,       \* kIsActivePrewarm
    execTime,      \* what getExecTime returns, 0 if it fails
    cppInit,       \* kCppInitTime
    mainStart,     \* kMainStartTime
    didFinish,     \* kDidFinishLaunchingStartTime
    firstAppear,   \* kFirstPageDidAppearTime
    firstPage,     \* firstPageName and firstPageloadDuration
    didSend,       \* didSendColdReboot
    config,        \* config of GrowingAPM: none, with or without this monitor
    blocks,        \* blocks of startMonitor on the main queue
    delegates,     \* the array of weak pointers
    alive,         \* delegates that exist
    lock,          \* holder of delegateLock
    pages,         \* progress, times and growingapm_didAppear of each page
    visible,       \* the page the window shows
    app,           \* state of the application
    times,         \* appWillResignActiveTime, ... of GrowingULAppLifecycle
    main,          \* what the main thread delivers
    told,          \* history: what each delegate was told
    userLaunch     \* history: when the user launched the application

launchVars == <<prewarm, execTime, cppInit, mainStart, didFinish, userLaunch, config>>
coldVars == <<firstAppear, firstPage, didSend>>
delegateVars == <<delegates, alive, lock>>
pageVars == <<pages, visible>>
appVars == <<app, times>>
vars == <<now, launchVars, coldVars, blocks, delegateVars, pageVars, appVars,
          main, told>>

-----------------------------------------------------------------------------
(* The delegates of a monitor (this one and GrowingAPMCrashMonitor.m): an       *)
(* NSPointerArray of weak pointers.  The pointer to an object that is gone      *)
(* reads as NULL and keeps its place and its share in the count, but it is      *)
(* not among allObjects.                                                      *)

\* The places of allObjects, in their order.
AllObjects(list, living) == {i \in DOMAIN list : list[i] \in living}

\* containsObject:
IsAmong(list, living, d) == \E i \in AllObjects(list, living) : list[i] = d

\* The index of a delegate among allObjects.
IndexOf(list, living, d) ==
    LET place == CHOOSE i \in AllObjects(list, living) : list[i] = d
    IN Cardinality({i \in AllObjects(list, living) : i <= place})

\* addMonitorDelegate: a living delegate is added once.
Added(list, living, d) ==
    IF IsAmong(list, living, d) THEN list ELSE Append(list, d)

\* removeMonitorDelegate: the index among allObjects is used in the array.
Removed(list, living, d) ==
    IF IsAmong(list, living, d) THEN RemoveAt(list, IndexOf(list, living, d)) ELSE list

-----------------------------------------------------------------------------
Idle == [pc |-> "idle"]
NewPage == [at |-> "none", load |-> 0, will |-> 0, didAppear |-> FALSE]
NoPage == [page |-> None, duration |-> 0]

Report(page, duration, reboot, warm) ==
    [page |-> page, duration |-> duration, reboot |-> reboot, warm |-> warm]

\* The process starts; C++ initializers run one tick later.
Init ==
    /\ prewarm \in BOOLEAN /\ execTime \in {0, Exec}
    /\ cppInit = Exec + 1 /\ now = Exec + 1
    /\ mainStart = 0 /\ didFinish = 0 /\ userLaunch = 0 /\ config = "none"
    /\ firstAppear = 0 /\ firstPage = NoPage /\ didSend = FALSE
    /\ blocks = 0
    /\ delegates = <<>> /\ alive = Delegates /\ lock = None
    /\ pages = [p \in Pages |-> NewPage] /\ visible = None
    /\ app = "exec"
    /\ times = [resign |-> 0, background |-> 0, foreground |-> 0, active |-> 0]
    /\ main = Idle
    /\ told = [d \in Delegates |-> <<>>]

\* The clock is read: time has passed since it was read last.
Advance == now < MaxTime /\ now' = now + 1

MainIsIdle == main = Idle

-----------------------------------------------------------------------------
(* Launch. *)

\* +setupMonitors, in main.
Setup ==
    /\ MainIsIdle /\ app = "exec" /\ Advance
    /\ app' = "main"
    /\ mainStart' = IF prewarm THEN 0 ELSE now'
    /\ userLaunch' = IF prewarm THEN 0 ELSE Exec
    /\ UNCHANGED <<prewarm, execTime, cppInit, didFinish, config, coldVars,
                   blocks, delegateVars, pageVars, times, main, told>>

\* The user launches what the system has prewarmed.
UserLaunches ==
    /\ MainIsIdle /\ app = "main" /\ prewarm /\ userLaunch = 0 /\ Advance
    /\ userLaunch' = now'
    /\ UNCHANGED <<prewarm, execTime, cppInit, mainStart, didFinish, config,
                   coldVars, blocks, delegateVars, pageVars, appVars, main, told>>

\* Pages are loaded and the application becomes active for the user alone.
Launched == app # "exec" /\ userLaunch # 0

\* +didFinishLaunching, which throws when it is called twice.  With scenes it is
\* called while the process is prewarmed, so it does not wait for the user.
DidFinishLaunching ==
    /\ MainIsIdle /\ app # "exec" /\ didFinish = 0 /\ Advance
    /\ didFinish' = now'
    /\ UNCHANGED <<prewarm, execTime, cppInit, mainStart, userLaunch, config,
                   coldVars, blocks, delegateVars, pageVars, appVars, main, told>>

\* +startWithConfig: the first configuration counts.  The application calls it
\* where it likes, so also while it is prewarmed.
StartWithConfig(monitors) ==
    /\ MainIsIdle /\ app # "exec" /\ config = "none"
    /\ config' = monitors
    /\ IF monitors = "ui"
       THEN /\ Advance
            /\ didFinish' = IF didFinish = 0 THEN now' ELSE didFinish
            /\ blocks' = blocks + 1
       ELSE UNCHANGED <<now, didFinish, blocks>>
    /\ UNCHANGED <<prewarm, execTime, cppInit, mainStart, userLaunch, coldVars,
                   delegateVars, pageVars, appVars, main, told>>

-----------------------------------------------------------------------------
(* Delivery: the main thread takes the lock, tells one delegate after the    *)
(* other and gives the lock back.                                           *)

Deliver(report, cold) ==
    main' = [pc |-> "lock", report |-> report, cold |-> cold, next |-> 1]

\* Mutant: everything counts since the process was started.
TotalFromExec(appear) == appear - execTime

\* exec to C++ initializers, unless prewarmed; then main (when prewarmed:
\* the launch) to the appearance of the first page.
Total(appear) ==
    (IF prewarm \/ execTime = 0 \/ cppInit = 0 THEN 0 ELSE cppInit - execTime)
    + (appear - (IF prewarm THEN didFinish ELSE mainStart))

RebootTime(appear) ==
    IF Total(appear) > MaxCold \/ Total(appear) < 0 THEN 0 ELSE Total(appear)

\* Mutant: one delegate is taken for none.
SendToSeveral(kept, appear) ==
    IF ~didSend /\ kept.duration # 0 /\ Len(delegates) > 1
    THEN Deliver(Report(kept.page, kept.duration, RebootTime(appear), FALSE), TRUE)
    ELSE UNCHANGED main

\* sendColdReboot for a first page.  A pointer to a dead delegate counts.
SendColdReboot(kept, appear) ==
    IF ~didSend /\ kept.duration # 0 /\ Len(delegates) # 0
    THEN Deliver(Report(kept.page, kept.duration, RebootTime(appear), FALSE), TRUE)
    ELSE UNCHANGED main

\* The block of startMonitor.
RunBlock ==
    /\ MainIsIdle /\ blocks > 0
    /\ blocks' = blocks - 1
    /\ SendColdReboot(firstPage, firstAppear)
    /\ UNCHANGED <<now, launchVars, coldVars, delegateVars, pageVars, appVars, told>>

Lock ==
    /\ main.pc = "lock" /\ lock = None
    /\ lock' = "main"
    /\ main' = [main EXCEPT !.pc = "tell"]
    /\ UNCHANGED <<now, launchVars, coldVars, blocks, delegates, alive, pageVars,
                   appVars, told>>

\* A weak pointer is read: the delegate may be gone by now.
Tell ==
    /\ main.pc = "tell" /\ main.next <= Len(delegates)
    /\ LET d == delegates[main.next]
       IN told' = IF d \in alive \cap Responders
                  THEN [told EXCEPT ![d] = Append(@, main.report)] ELSE told
    /\ main' = [main EXCEPT !.next = @ + 1]
    /\ UNCHANGED <<now, launchVars, coldVars, blocks, delegateVars, pageVars, appVars>>

Unlock ==
    /\ main.pc = "tell" /\ main.next > Len(delegates)
    /\ lock' = None
    /\ didSend' = (didSend \/ main.cold)
    /\ main' = Idle
    /\ UNCHANGED <<now, launchVars, firstAppear, firstPage, blocks, delegates,
                   alive, pageVars, appVars, told>>

-----------------------------------------------------------------------------
(* Pages.  The methods of a page are replaced when it is created.            *)

\* initWithNibName: or initWithCoder:, then loadView and viewDidLoad.
LoadPage(p) ==
    /\ MainIsIdle /\ Launched /\ pages[p].at = "none" /\ Advance
    /\ pages' = [pages EXCEPT ![p].at = "loaded", ![p].load = now' - now]
    /\ UNCHANGED <<launchVars, coldVars, blocks, delegateVars, visible, appVars,
                   main, told>>

WillAppear(p) ==
    /\ MainIsIdle /\ pages[p].at \in {"loaded", "gone"} /\ Advance
    /\ pages' = [pages EXCEPT ![p].at = "appearing", ![p].will = now' - now]
    /\ UNCHANGED <<launchVars, coldVars, blocks, delegateVars, visible, appVars,
                   main, told>>

\* An appearance that is cancelled, or a page that disappears.
Disappear(p) ==
    /\ MainIsIdle /\ pages[p].at \in {"appearing", "shown"}
    /\ pages' = [pages EXCEPT ![p].at = "gone"]
    /\ visible' = IF visible = p THEN None ELSE visible
    /\ UNCHANGED <<now, launchVars, coldVars, blocks, delegateVars, appVars, main, told>>

\* pageLoadCompleted.  Until the cold launch was sent only the first page is kept.
PageLoadCompleted(p, duration, time) ==
    LET isFirst == firstAppear = 0
        kept == IF isFirst THEN [page |-> p, duration |-> duration] ELSE firstPage
        appear == IF isFirst THEN time ELSE firstAppear
    IN IF didSend
       THEN /\ Deliver(Report(p, duration, 0, FALSE), FALSE)
            /\ UNCHANGED <<firstAppear, firstPage>>
       ELSE /\ firstPage' = kept /\ firstAppear' = appear
            /\ SendColdReboot(kept, appear)

\* viewDidAppear: the first appearance of a page completes its loading.
DidAppear(p) ==
    /\ MainIsIdle /\ pages[p].at = "appearing" /\ Advance
    /\ pages' = [pages EXCEPT ![p].at = "shown", ![p].didAppear = TRUE]
    /\ visible' = p
    /\ IF pages[p].didAppear \/ p \in Ignored
       THEN UNCHANGED <<firstAppear, firstPage, main>>
       ELSE PageLoadCompleted(p, pages[p].load + pages[p].will + (now' - now), now')
    /\ UNCHANGED <<launchVars, didSend, blocks, delegateVars, appVars, told>>

-----------------------------------------------------------------------------
(* The application leaves and comes back.                                   *)

Notified(from, to, time) ==
    /\ MainIsIdle /\ app = from /\ Advance
    /\ app' = to
    /\ times' = [times EXCEPT ![time] = now']
    /\ UNCHANGED <<launchVars, coldVars, blocks, delegateVars, pageVars, told>>

WillResignActive == Notified("active", "inactive", "resign") /\ UNCHANGED main
DidEnterBackground ==
    /\ \E from \in {"inactive", "foreground"} : Notified(from, "background", "background")
    /\ UNCHANGED main
WillEnterForeground == Notified("background", "foreground", "foreground") /\ UNCHANGED main

IsWarm ==
    /\ times.background # 0
    /\ times.foreground >= times.resign
    /\ visible # None

\* applicationDidBecomeActive
DidBecomeActive ==
    /\ \E from \in {"main", "inactive", "foreground"} :
        /\ from = "main" => Launched
        /\ Notified(from, "active", "active")
    /\ IF config = "ui" /\ IsWarm
       THEN LET duration == times'.active - times.foreground
            IN Deliver(Report(visible, duration, duration, TRUE), FALSE)
       ELSE UNCHANGED main

-----------------------------------------------------------------------------
(* Delegates come and go on any thread.                                     *)

\* Mutant: without the lock.
ChangeAnytime(t) == app # "exec" /\ (t = "main" => MainIsIdle)

\* The lock is free, and the main thread does nothing else when it is the caller.
MayChange(t) == lock = None /\ app # "exec" /\ (t = "main" => MainIsIdle)

AddDelegate(t, d) ==
    /\ MayChange(t) /\ d \in alive
    /\ delegates' = Added(delegates, alive, d)
    /\ UNCHANGED <<now, launchVars, coldVars, blocks, alive, lock, pageVars, appVars,
                   main, told>>

RemoveDelegate(t, d) ==
    /\ MayChange(t) /\ d \in alive
    /\ delegates' = Removed(delegates, alive, d)
    /\ UNCHANGED <<now, launchVars, coldVars, blocks, alive, lock, pageVars, appVars,
                   main, told>>

\* The last strong reference to a delegate goes.
DelegateDies(d) ==
    /\ d \in alive
    /\ alive' = alive \ {d}
    /\ UNCHANGED <<now, launchVars, coldVars, blocks, delegates, lock, pageVars,
                   appVars, main, told>>

Delivery == Lock \/ Tell \/ Unlock

Next ==
    \/ Setup \/ UserLaunches \/ DidFinishLaunching
    \/ \E monitors \in {"ui", "other"} : StartWithConfig(monitors)
    \/ RunBlock \/ Delivery
    \/ \E p \in Pages : LoadPage(p) \/ WillAppear(p) \/ Disappear(p) \/ DidAppear(p)
    \/ WillResignActive \/ DidEnterBackground \/ WillEnterForeground \/ DidBecomeActive
    \/ \E t \in Workers \cup {"main"}, d \in Delegates : AddDelegate(t, d) \/ RemoveDelegate(t, d)
    \/ \E d \in Delegates : DelegateDies(d)

\* The run loop of the main thread goes on, and so does what it has begun.
Fairness == WF_vars(RunBlock) /\ WF_vars(Delivery)
Spec == Init /\ [][Next]_vars /\ Fairness

-----------------------------------------------------------------------------
TypeOK ==
    /\ now \in 0 .. MaxTime /\ blocks \in 0 .. 1
    /\ {mainStart, didFinish, firstAppear, userLaunch} \subseteq 0 .. MaxTime
    /\ firstPage.page \in Pages \cup {None} /\ didSend \in BOOLEAN
    /\ config \in {"none", "ui", "other"}
    /\ delegates \in Seq(Delegates) /\ alive \subseteq Delegates
    /\ lock \in {None, "main"} /\ (lock = "main" <=> main.pc = "tell")
    /\ visible \in Pages \cup {None}

\* A delegate is told of a page at most once, never of an ignored one, and of
\* the launch, which is the first page, before it is told of any other page
\* (didSendColdReboot, growingapm_didAppear).
LaunchThenPages ==
    \A d \in Delegates : \A i \in DOMAIN told[d] :
        ~told[d][i].warm =>
            /\ told[d][i].page \notin Ignored
            /\ \A j \in 1 .. i - 1 : ~told[d][j].warm =>
                    told[d][i].page \notin {told[d][j].page, firstPage.page}

\* didFinishLaunching ran while the process was prewarmed.
RanAhead == prewarm /\ didFinish # 0 /\ didFinish < userLaunch

\* The time of a launch is 0 or within the bound, and never longer than the user
\* has waited, whatever the system did in advance; unless it ran
\* didFinishLaunching in advance, in which case it is 0 or counts from there,
\* which may be longer than the user has waited.  When the process was not
\* prewarmed the time is the one from its start to the first page, without that
\* between the C++ initializers and main, or 0 if it is longer than the bound
\* (sendColdReboot).
LaunchTimeIsReal ==
    \A d \in Delegates : \A i \in DOMAIN told[d] :
        LET r == told[d][i]
            waited == firstAppear - userLaunch
            shown == waited - (mainStart - cppInit)
        IN ~r.warm =>
            IF r.page # firstPage.page THEN r.reboot = 0
            ELSE /\ r.reboot \in 0 .. MaxCold
                 /\ IF RanAhead THEN r.reboot \in {0, firstAppear - didFinish}
                    ELSE r.reboot <= waited
                 /\ ~prewarm /\ execTime # 0 =>
                        r.reboot = (IF shown <= MaxCold THEN shown ELSE 0)

\* What delegates are told of a launch and its pages is what the user saw.
LaunchIsReported == LaunchThenPages /\ LaunchTimeIsReal

\* When a delivery ends, every delegate that is registered and lives was told
\* of it, whatever other threads added and removed meanwhile (delegateLock).
WholeListTold ==
    [][main.pc = "tell" /\ main' = Idle => \A d \in alive \cap Responders \cap ToSet(delegates) :
            told[d] # <<>> /\ Last(told[d]) = main.report]_vars

\* A delegate that is registered when the block of a late start is still to
\* run is told of the launch, unless it is removed or dies before.
LaunchIsTold ==
    \A d \in Responders :
        (/\ blocks > 0 /\ ~didSend /\ firstAppear # 0
         /\ d \in alive \cap ToSet(delegates))
        ~> (\/ \E i \in DOMAIN told[d] : told[d][i].page = firstPage.page /\ ~told[d][i].warm
            \/ d \notin alive \cap ToSet(delegates))
=============================================================================
