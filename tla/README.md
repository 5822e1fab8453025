# Verification of the GrowingIO performance SDK for iOS

TLA+ models of the crash reporter (`Sources/CrashMonitor`, a fork of KSCrash)
and the UI monitor (`Sources/UIMonitor`) of this repository, configurations that
TLC checks on small instances, and theorems that TLAPS proves for every value of
the constants.  Paths below are relative to `src/Sources/CrashMonitor/` unless
they begin with `Sources/`; names of files in `Recording/` are shortened in
section 4.

## 1. The system

The SDK has two modules, started once by `Sources/Core/GrowingAPM.m`: the crash
monitor, which records a crash and sends it at the next launch, and the UI
monitor, which measures launches and pages.

| Component | State | Operations | Hard behaviour | What makes it correct |
|---|---|---|---|---|
| Dispatch (`Recording/Monitors/GrowingCrashMonitor.c`) | active monitors, `g_handlingFatalException`, `g_crashedDuringExceptionHandling` | notify, handle, set active monitors | several threads crash at once; the reporter itself crashes | one report per crash; the reporter is entered at most twice; the process ends |
| Monitors (`Recording/Monitors/GrowingCrashMonitor_*`: Mach exceptions, signals, NSException, C++, user) | enabled flags, exception ports, two exception threads, one static context each | install, uninstall, handlers | a handler runs in any state of the process, while other handlers run; installations fail, beside another reporter | a report describes its own event; nobody's handler is lost |
| Machine context (`Recording/Tools/GrowingCrashMachineContext.c`) | suspend counts (kernel), reserved threads | suspend and resume the environment | threads suspend each other, threads are created meanwhile | nobody else runs during a capture, nobody stays suspended |
| Report writer (`Recording/GrowingCrashReport.c`, `onCrash` of `GrowingCrashC.c`) | path of the last report, user data | standard and recrash report | a crash between two writes; data that changes under it; memory that refers to itself | a completed report survives its rewriting; it reads as it was meant |
| JSON codec (`Recording/Tools/GrowingCrashJSONCodec.c`, `...ObjC.m`) | containers open, a small buffer | encode, decode, copy a document | texts cut anywhere, strings too long | what was written is read back |
| Fixer, doctor, Apple format (`Recording/GrowingCrashReportFixer.c`, `GrowingCrashDoctor.m`, `Reporting/Filters/GrowingCrashReportFilterAppleFmt.m`) | none | read a report | reports that lack sections, widths of numbers | cause and crashed thread are the real ones |
| Report store (`Recording/GrowingCrashReportStore.c`) and delivery (`Recording/GrowingCrash.m`) | files, two halves of the next ID, a mutex | add, get path, list, read, delete, prune, send all | calls of several threads, kills, launches, wrap-around of the ID | IDs increase, no file is overwritten, no report is lost |
| Application state (`Recording/Monitors/GrowingCrashMonitor_AppState.c`) | `g_state`, a state file | notifications, report, save, load | any thread reports without a lock; a save is cut off | durations and counters are the real ones; the crash flag is right |
| Thread cache (`Recording/GrowingCrashCachedData.c`) | four arrays, a count, a semaphore | poll, freeze, look up, unfreeze | no lock; a crash stops an update anywhere | reads are within the arrays and of live strings |
| Deadlock monitor (`Recording/Monitors/GrowingCrashMonitor_Deadlock.m`) | interval, the monitor object and its thread, a pending answer | pulse, judge, toggle | late answers, replaced monitors, time | only a busy main thread is shut down, and a hung one is |
| System and zombie monitors (`..._System.m`, `..._Zombie.c`) | device data; a table of deallocated objects | collect, dealloc, add to an event | enabled before it is filled; slots shared without a lock | what a report says was true |
| C++ throws (`..._CPPException.cpp`, `Recording/Tools/GrowingCxaThrowSwapper.c`) | pointers of the images, the last stack | throw, swap, report | throws during the swap, images loaded later | a throw reaches the runtime; its stack is the one reported |
| Stacks and symbols (`Recording/Tools/GrowingCrashStackCursor_*`, `GrowingCrashCPU_*`, `GrowingCrashDynamicLinker.c`, `GrowingCrashSymbolicator.c`) | a cursor | advance, find the image and symbol | frames that are not made yet, signed pointers, a call at the end of a function | the trace names the functions that ran |
| Objective-C introspection (`Recording/Tools/GrowingCrashObjC.c`, `GrowingCrashMemory.c`, `GrowingCrashString.c`) | none | is there an object, what is in it | memory that may be anything | nothing is read that was not checked |
| Files (`Recording/Tools/GrowingCrashFileUtils.c`) | small buffers, positions | write, read, make and empty directories | disks that are full, files others change | files are whole |
| Installations (`Installations/`), filters (`Reporting/Filters/`), `GrowingAPMCrashMonitor.m` | report fields, pipeline, delegates | set a field, send, add a delegate | a crash reads fields that are being set; filters answer at any time | fields that are not being set are read right; deliveries end, and each goes through its own filters |
| UI monitor (`Sources/UIMonitor/`) | launch times, delegates, ignored pages | page loaded, foreground, send cold start | order of notifications, a lock held over delegates, prewarming | a launch is reported once, first, with the time a user waited (not if the system ran `didFinishLaunching` in advance) |
| Demangler (`swift/Basic/`) | words, names and types seen, a stack of nodes | read a symbol, operator by operator | letters that count what came before, parts that may be missing | names and symbols are those the compiler wrote |

How they interact: `growingcrash_install` (`GrowingCrashC.c`) sets `onCrash` as
the callback of the dispatcher, prepares the store, the thread cache and the
application state, and activates the monitors.  A handler of a monitor suspends
the other threads, tells the dispatcher, fills its context and calls
`growingcrashcm_handleException`, which lets the other monitors add to the
context and calls `onCrash`.  That one saves the application state, asks the
store for a path (or reuses the last path when the handler itself crashed) and
calls the report writer, which freezes and reads the thread cache, walks the
stacks, looks at the memory registers point to, and copies what the application
has set.  The next launch loads the state file, prunes the store and sends what
is left: each report is fixed, diagnosed, and given to a pipeline of filters.

## 2. Modules

Each module is named after the component; actions are named after the
functions or the steps of a function; `PROJECT.json` maps each definition to
its lines.  One action is one step of the code between two places where
another thread, a suspension, a crash or a kill makes a difference.  A module
about one function that nothing interrupts takes the whole call as an action.

### A crash, the store, and what runs beside them

**CrashHandling** models a crash from the event to the end of the process.
`pc` and `frame` are the place and the locals of each thread; `susp` is the
kernel's suspend count; `enabled`, `handling`, `crashedDuring`, `ports`, `known`,
`busy` are the globals of the dispatcher and of the Mach monitor; `ctx` the
monitor contexts; `files`, `aside`, `lastPath`, `nextId` the store as the
reporter sees it.  `NewEventOn` starts an event of one of ten origins,
`HandlerFault` a crash of the handler at any label where it runs code of the
reporter, `Spawn` a thread.  The two Mach threads receive messages, activate,
cancel and terminate each other as the code does.  The content of a report is
the event it describes and the events of the reports it embeds.  The kernel
(ports, signals, `thread_suspend`) is external.

**MonitorLifecycle** models `setActiveMonitors`: a channel for the Mach ports,
each signal, and the two handlers of uncaught exceptions, with a chain of
whoever installed there, the installation signal by signal with its failures
and roll-back, and another reporter that comes and goes.

**ReportStore** models the files, the IDs and the lock over several launches.
A thread adds a report (under the lock), has one written by the reporter
(without it), sends all, or deletes one.  A thread that sends hands its reports to
the sink and goes on; the sink answers when it likes, on any thread
(`SinkAnswers`), and the deletion of the reports follows its answer.  `Crash` is of a
thread that uses the store and stops all others, `Kill` ends the process anywhere,
`Launch` prunes.  IDs are made of a clock: two
of the calendar fields are kept, with the leap second that makes a minute 61
units long; the units per second (`Shift`) and the width of the low half
(`LowMod`) are constants, so that overflow happens in small instances.
**ReportLog** is what the store promises: IDs grow, a report is stored once,
what has left does not come back.  `IsReportLog` is the refinement.

**AppState** models `g_state` and the state file, with `updateAppState` as three
steps (read, stamp, add) and a save as two (truncate, write; a kill in between
leaves any prefix of the keys).  `real` and `realSince` record what happened.
Between the two `gettimeofday` calls of one update no time passes.

**CachedData** models the arrays of the cache as generations that are allocated
and freed, the update one assignment at a time, and the look-up of names one
test at a time.  A report has suspended all other threads, or none.
A pointer and the element behind it are loaded in one step, and identities of
threads are not reused.

**DeadlockWatchdog** models the main queue as a sequence of blocks, the monitor
thread around its sleep, and the toggles.  Time passes only while everybody
waits, so scheduling delays are zero; what happens at the same time happens in
any order.

**ThrowCapture** models the override of `__cxa_throw` and the swap of the pointers to
it, a step at a time, with images that are loaded and threads that throw meanwhile.
**ZombieTable** models the table of deallocated objects, an assignment at a time on
several threads, and the last exception that is kept apart.

**CrashSettings** models the fields of an installation, the user information and
the restricted classes, set pointer by pointer while a report that stopped the
setter, or runs beside it, reads them.

**ReportDelivery** models deliveries through the pipeline of filters: each filter
of the application calls back when it likes, filters are added meanwhile,
`Combine` joins results by position, and the delete behaviour of `GrowingCrash.m`
follows.

**UIMonitor** models the process from its execution to its pages, launches that
the system prepares in advance (prewarming), the cold launch that is told once,
warm launches, and the delegates that are told under a lock, with the array of
weak pointers in which the crash monitor keeps its delegates too.

### The text of a report

**CrashEvent** says what each monitor's handler fills into the context of an
event, and what the others add.  **JSONCodec** is the encoder and decoder, an
element at a time: objects, arrays and leaves, the copy of a text into a
document, the copy of a file through a buffer.  **ReportDocument** writes the
sections of a report and of a recrash report through it, the memory that
registers and stacks refer to included.  **ReportReaders** are the fixer (the
callbacks of the decoder, with the depth of the element each of them is given), the
doctor and the Apple format (the processor a report is of, and what it means for the
registers, the images and the version).  **ReportText** composes them: a crash, perhaps a
second one after any element of the report, the writing, the loading, the
format.

**ObjCObjects** reads a memory of words as `GrowingCrashObjC.c` does: every word
may be anything, `Safe` reads go through the kernel, direct ones are recorded if
nothing is there, tagged pointers, dates and numbers included.  **TextCoding** has
strings character by character: JSON escapes through a buffer, `\u` sequences,
numbers, data as hexadecimal digits, UUIDs, UTF-16, strings of 8 bits and tagged
ones, the labels of queues, texts and addresses found in memory; **Punycode** the names of Swift, and **SwiftNames** those names inside a
symbol: words, substitutions, merged letters and operators, written by the rules
of `ManglingUtils.h` and read by those of `Demangler.cpp`.  **UserInfo** is
`setUserInfo:` and what `encodeObject` makes of a dictionary.

**SwiftSymbols** is the demangler as a machine, one operator in each step: it takes
nodes off its stack and puts one there, as each function of `Demangler.cpp` does.
**SwiftGrammar** has the trees, the tables of the operators that only take what
they are made of, and the letters of conventions, constraints and options.
**SwiftMangler** is the compiler, which is not in this repository: it writes a tree
children first and refers by number to what it wrote before, so that what it writes
is known, and each operator of the reader is asked for it.  A text has one token for
each character of an operator, one for a name (SwiftNames spells it) and one for a
number from 0 to 9; a tree is a root of one kind over children of few kinds.  What
is hard is what no operator says: whether a signature, a list of labels or a private
name is there, where a list begins, and which types have a number.

**FileBuffers** is the buffered writer and reader, the read of an entire file, of
bytes and of a line, and a text that is formatted and written; **FileTree** makes paths and empties directories.  **StackTraces** walks the
frames of four processors from where a function was stopped, to the images and
symbols.  **SystemInfo** is what is collected of the device (through `sysctl`, which
is asked for a length and then for the value), its memory, and the commands of the
images a report reads.  **ReportContainers** are the key
paths into a report and the filters that use them.

### Instances

The `MC*` modules instantiate them.  `MCAppState`, `MCCachedData`,
`MCMonitors` and `MCUIMonitor` add a variable chosen initially (`setting`)
that selects one of several sets of bounds, so that one run covers deep behaviours
of one thread and shallower ones of two.  Three models have such a variable
themselves, because a property that is proved speaks of it: `users` of ReportStore
(the threads that use the store, one of the sets `Users`; with more than one,
`MaxShared` bounds their requests), `alone` of AppState (only the main thread
reports, the reporter is installed in the first phase, and the monitor is never
disabled) and `steady` of DeadlockWatchdog (the monitor is never disabled and its
interval never changed).  They keep their initial value.
`MCInstallation` (monitors, settings, deliveries), `MCMonitors` (the watchdog,
throws, zombies) and `MCReportText` with `MCReportParts` (the modules of the text of a
report) hold several
components that share no state; the variable `part` (`setting` in `MCMonitors`) selects
which of them moves in a behaviour, so that the state space is their sum and not their product.  They
only restrict `Next`; nothing of the models is replaced.

## 3. Runs

| Run | Instance | What it shows |
|---|---|---|
| `crash_nested` | one thread starts events, one more may be created; 4 events, 2 of them crashes of the handler | `NextCrashRecordedOnce`: a crash, and the crashes of its handler, leave one crash report, and without a crash of the handler the crash is on disk. `ReportsSurvive`: rewriting a report loses nothing (with one crash of the handler; with two, a report may be lost between the rename and the embedding). `CrashEndsProcess` (fair), `TypeOK` |
| `crash_concurrent` | two threads, 2 events, one may be a crash of a handler | `FrozenWorld`, `NobodyLeftSuspended`, `ReportsOwnEvent`, `ReportImpliesCrashFlag` with two handlers at once |
| `store_log` | one user with 3 requests, or two with 2; 3 seconds, IDs that wrap around | `IDsIncrease`, the refinement `IsReportLog`, `PruneKeepsNewest`, `LockReleased` (fair), and for one user `NoReportLostAlone`: a report is lost only if it was completed between the handing over of a delivery and the end of the deletion that follows the sink's answer |
| `app` | one launch with 3 ticks; 3 launches; two threads, toggles, any phase of installation | with the main thread alone: `ExactAlone` (durations are the real ones) and `CarriedOverAlone` (what a launch takes over from a file that was cut off anywhere is right); always: `FlagOnlyAfterReport` |
| `cache` | `single`, `crashes` (two reports in a row), `overlap` (two reports at once) | `SuspendedReadsAreSafe`; `CacheStaysWhole` (no update leaks or frees too much, at most one change under a frozen cache); `CacheCatchesUp` (fair) |
| `watch` | `timing` (one interval, tasks of 1, 2, 3 ticks or endless), `toggles` (two monitors, intervals 0 and 2), `throws` (two threads, two throws, three images of which one is loaded late), `zombies` (two threads, three objects at two addresses of one slot) | `KillsInTime` (only after an interval of a busy main thread), `HangIsCaught` (fair); `ThrowsAreWatched`; `ZombiesAreTold` |
| `ui` | `launch` (any order of launch, start and pages, prewarming, private pages), `delegates` (two, added, removed and gone during deliveries), `warm` (an application that leaves and comes back) | `LaunchIsReported` (once, first, with the time a user waited, or if `didFinishLaunching` was run in advance with 0 or the time since then), `WholeListTold`, `LaunchIsTold` (fair) |
| `install` | monitors switched one at a time beside another reporter, 3 installations; settings set 3 times; 2 deliveries of 2 reports through 2 filters | `EveryoneHears` and `ExceptionThreadsReserved`; `OthersAreExact` (a report has every item that no setter is at work on exactly as last set, but a property that was set to nil, which is read from freed memory); `DeliveriesAreExact` (which filters a delivery runs, the last added first, and of which report each part of what it delivers is), `EverySendAnswered` (fair) |
| `text` | 11 parts, see below | `ReportsReadAsMeant` (sections, recrash reports, dates, nesting), `DiagnosisMatchesCause`, `AppleNamesThread`, and the property of each part |
| `claim_ends` | two threads abort at once | violates `CrashEndsProcess`: they suspend each other |
| `claim_sent` | two users of the store | violates `NoReportLost`: a report written during a delivery, by another thread or before the sink answers, is deleted with the delivered ones |
| `claim_background_launch` | the system launches the app in the background | violates `ExactAlone`: background time is counted as active |

The parts of `text`, and what their properties are about:

| Part | Property | Instance |
|---|---|---|
| the text of a report | `ReportsReadAsMeant`, `DiagnosisMatchesCause`, `AppleNamesThread` | 15 causes and a message to a zombie, 4 architectures, 2 threads, with and without the Mach monitor; user information, fields and callbacks that are whole, cut or none, or have a text that cannot be copied, also in a container within; registers with any two addresses of a memory that refers to itself; a second crash after each element |
| objects | `DirectReadsAreSafe` | an object, its class, metaclass and superclass, with any one or two words replaced by any of 25 values; every read but those the code does not check, which the property names, and every read of the zombie monitor but those of an object that is no string |
| texts | `TextsSurvive` | strings of up to 5 characters over the ones that are treated differently, a work buffer of 4; pairs of surrogates of another writer, which come back as another character, one for one; numbers, data, UUIDs, labels of queues and tagged pointers, whole and damaged |
| names of symbols | `TextsSurvive` | 4 names of 7, types and operators in a symbol, 3 words, letters for 2 names |
| symbols | `TextsSurvive` | 1047 trees: every operator that is modelled, in each of its forms; what may be missing there and not there; lists of none to three; types that are written twice; weak, unowned and unmanaged references, of which only the kind is not told right |
| user information | `TextsSurvive` | two dictionaries set one after the other, with members of every kind |
| files | `FilesAreWhole` | files of up to 5 bytes through buffers of 3 and lines of 4, by lines, by up to 4 bytes and whole; texts formatted into 5 |
| directories | `FilesAreWhole` | trees of two levels, two files created meanwhile |
| stacks | `BacktracesAreTrue` | chains of up to three calls over five functions, four processors, every state of a prologue; damaged frames, before which the trace is right; images that are stripped, damaged, or without a link edit segment, moved or not |
| device and images | `SystemIsTold` | 3 toggles, a report in between, damaged images and messages that do not end; a device with more pages than a counter counts |
| containers | `ContainersAreTrue` | five reports, key paths of up to four keys, two changes |

Bounds.  Two application threads suffice for the interleavings of suspension
(a pair suspends itself, or one suspends while the other is anywhere); the
proofs of section 5 lift the suspension, the flag and what is left of reports to
any number.  Four
events let one thread report twice and then crash with two crashes of its
handler, or crash again after a return to the application.  `crash_concurrent`
also passes by hand with 3 events (3.5 million states).  In `store_log`
`Shift = 2`, `LowMod = 4` and two seconds a minute make the low half wrap and a
minute end within three seconds; one delivery is with the sink at a time
(`MaxDeliveries = 1`), two were checked by hand for one user (2.2 million states).  In `cache` two threads give arrays that grow
and shrink by one and two.  In `watch` the longest task exceeds the interval,
and `MaxBusy` exceeds twice the interval; the table of the original pointers has room for one
image of three, so that it is moved, and two addresses share the slot of the objects that
are gone.  In `ui` a launch that is told with its time takes
at most 6 units where the code has 30 s; the process is executed at 7 and the clock
reaches 20, so that both shorter and longer launches happen.  The code's clock counts
from 1970, and a time that was never noted is 0: `Exec > MaxCold` keeps it farther back
than any launch whose time is told.  In `install` 3 installations add 2 reserved threads each and 4
fit, so that the list is full.  In `text` every buffer of the code is smaller than
what goes through it: strings have more characters than the work buffer, a file
that is embedded more elements than its buffer (12), a stack more entries than
`MaxStackDepth` (4), memory refers to itself deeper than `SearchDepth` (4), a
formatted text is longer than `FormatBuffer` (5), the pages of one device are more
than `PageWord` (16), so that their sum wraps, and addresses above `Word / 2` have their sign changed.

Deadlock is not checked where the system may stop for good: in
`crash_concurrent` and `claim_ends` threads may suspend each other, and the
behaviours of `install` and `text` end when the calls, deliveries or texts of an
instance are done.

Fairness.  `FairSpec` of CrashHandling: each thread that can run takes steps
(the kernel schedules threads; no fairness on events).  ReportStore: the
thread that owns the lock goes on, and so does one that crashed; that the sink
answers, or that a kill or a crash happens, is not assumed.  CachedData:
threads are scheduled, and `task_threads` does not fail for ever (strong
fairness of `ListThreads`, since `CannotList` competes with it).
DeadlockWatchdog: time passes, the main queue runs a block when the main thread
is free, monitor threads run.  UIMonitor: the main queue runs its blocks and a
delivery to delegates goes on.  ReportDelivery: the main queue runs, and a filter
that was given reports answers in the end, which the protocol of
`GrowingCrashReportFilter.h` asks of it.

## 4. Disagreements and limits

Three disagreements between the code and what it says of itself are runs
(`claim_*`).  Others, and limits the models take as they are, were met while
modelling; they are described here and are not runs.

Crash handling
- `GrowingCrashMonitor_MachException.c:338`: the primary exception thread
  restores the ports before it handles the fault, so the secondary one never
  receives a crash of the primary one (`:165` says it is there for that).
  `:378`: the correction to KERN_PROTECTION_FAILURE is dead, no monitor
  sets `isStackOverflow` of the event.
- `GrowingCrashMonitor.c:232`: a fault of a second thread that was already in
  the port is taken for a crash of the handler, and rewrites a report whose path
  is still empty: nothing is recorded.
- `GrowingCrashMachineContext.c:192`: a thread created between the reading of the
  thread list and the suspension of its creator is not suspended.  `:105`: with
  more than 100 threads, ports behind the array are released.
- `GrowingCrashMonitor_NSException.m:87` allocates with all threads suspended, one
  of which may hold the lock of the allocator.
- `GrowingCrashC.c:141`: a user report that returns also sets the flag that
  `GrowingCrashMonitor_AppState.h:89` calls "the application crashed on this
  launch".
- `GrowingCrashMonitor_User.c:65`: with the monitor disabled a report with
  `terminateProgram` returns (`GrowingCrashC.h:198` says it does not).
- `GrowingCrashC.c:111-130`: a late installation replays only the last
  notification.
- `GrowingCrashReport.c:1615`: the name of the file that is put aside is cut from an
  empty path, when none was chosen yet, and written before the string; not modelled.
  Nor is the process killed between the steps of a report, or the embedding of a
  complete report refused because it is too deep or too long.
- Another reporter that installs or leaves out of turn can make our handler its
  own predecessor; after a failed installation of the signals, disabling restores
  handlers that were never read; a failed installation of the Mach ports says it
  is enabled and is not tried again; from the sixth installation on its threads
  are not reserved.

Application state, store, cache, watchdog
- `GrowingCrashMonitor_AppState.c:484`: disabling and enabling the monitor counts
  one more launch.  `:340`: two threads that report at once add the same
  duration twice.
- `GrowingCrashReportStore.c:145,196,95`: the list may have fewer reports than
  were counted (the rest of the array is not initialised), the bound on reports
  is applied at launch only, and a left-over `.old` file counts as a report.
  `:173`: two launches in one second begin with the same ID; ReportStore assumes
  they are in different seconds.
- `GrowingCrash.m:349-363`: one thread is enough to lose a report: it sends all, goes
  on, and writes a user report before the sink has answered; the answer then deletes
  all reports on disk.  `NoReportLostAlone` says that only such reports are lost.
- `GrowingCrashMonitor_AppState.c:266`: two savers may truncate and write the file at
  once.  Each writes its keys in one step of the model; a file made of the keys of both
  is not modelled.
- `GrowingCrashCachedData.c:204`: a report of a crash stops the update before it
  freezes the cache, so the sleep in `growingccd_freeze` gives it no time to end:
  a thread may be shown under another's name.  `:165`: a report that does not
  suspend may read outside of the arrays.
- `GrowingCrashMonitor_Deadlock.m:170`: short tasks that wait for each other count
  together, and a task may run for up to twice the interval (`GrowingCrash.h:103`,
  `:110` say otherwise).  `:160`: the process may be shut down after the interval
  was set to 0.  `:195`: a main thread that hangs at startup is not known yet.
  `GrowingCrashMonitor_Deadlock.h:59` names a default of 5 s, the static is 0.

Deliveries and UI
- `GrowingCrashReportFilterBasic.m:295` inserts at 0, so pre-filters run in the
  opposite order of what `GrowingCrashInstallation.h:79` says ("executed in the order in
  which they were added").  `DeliveriesAreExact` states the order of the code, last
  added first.  A filter added during a delivery makes another run twice and skips the
  last; which ones such a delivery runs is left open, only their number is stated.
  `Combine` joins entries of different reports when the Apple format leaves out those
  of another major version: from the first of these on, a raw report stands beside the
  text of a later one or none, and the property says exactly that.
- A filter of the application is taken to call back once, with a beginning of what it
  was given, an error or nothing; the code trusts it to do so and checks nothing.
- `GrowingCrashInstallation.m:150`: setting a property to nil releases the text and
  returns, so that the field of the report keeps pointing to freed memory.  Every report
  afterwards reads it, though no setter is at work; `OthersAreExact` excepts it by name
  (`Dangles`) and says nothing of an item a setter is at work on.
- `GrowingCrash.m:173`: reports are deleted also when a delivery failed, by
  default.  Two setters of different fields race on `nextFieldIndex`; an item that
  is being set may be read after it was freed.
- `GrowingAPMUIMonitor.m:185`: a cold launch of more than 30 s is reported with
  the time 0, the comment says it is not reported.  `:109-118`: a delegate is
  removed by its index among the living ones.  Delegates are called under a lock
  that is not recursive.  Background launches are not modelled.
- `GrowingAPMUIMonitor.m:164,185`: with scenes `didFinishLaunching` may run while the
  process is prewarmed.  The launch is then timed from there, hence longer than the user
  waited, unless it exceeds 30 s, which the comment there counts on; `LaunchTimeIsReal`
  says so for that case (`RanAhead`).

The text of a report
- `GrowingCrash.m:475-487` diagnoses the outer report also for the crash inside
  it: the first crash gets the cause of the second.  On 64-bit ARM the doctor
  looks for `r0`, the registers are `x0` and so on: zombies are never diagnosed.
  Without the Mach monitor the type of the exception is 0 and still written,
  so the doctor's branches for signals are dead.
- An Apple report of a recrash report into which nothing of the first could be
  taken lists no thread (`AppleNamesThread` leaves that case out).  A deadlock has
  no thread list: the diagnosis is "deadlocked in (null)".  Objects of restricted
  classes get a second `type` member, which wins.
- `GrowingCrashJSONCodec.c`: the buffer for a file is not shortened at its end, so
  stale bytes follow a report that was cut; strings of 500 bytes, or names of 100,
  end the embedding; `nan` and `inf` are written and no decoder accepts them;
  surrogate pairs are decoded without adding 0x10000 (`:890`), so that each of them
  reads as one other character, which `TextsSurvive` excepts; at most 200 levels,
  unchecked.  User information with a string that is too long, or that no decoder
  accepts, in a container within its outermost object leaves that one open (`:1428`,
  `GrowingCrashReport.c:1785`): the fields and the last section land inside of it.
  `SectionsInPlace` says where each section is then.  `%lg` keeps six digits of a
  number with a fraction.
- `setUserInfo:` keeps the dictionary without a copy; a key that begins with `@`
  is an operator of `valueForKey:`; whole doubles come back as integers, chars as
  Booleans, and unsigned numbers above 2^63 as negative ones.
- `GrowingCrashReportFixer.c:364`: the end of the fixed report may lie behind its
  buffer, which is 1.5 times as long as the report; lengths are not modelled.

What it is made from
- `GrowingCrashObjC.c:603`: the first instance variable of a class is not
  validated, nor is the name of a base class, nor what strings and arrays refer
  to; a type asks that the object itself look like a class, so that ordinary
  objects are almost never recognised.  `GrowingCrashReport.c:472` copies a URL as
  a string.  Memory of more than 10240 bytes is tested by its first chunk.
  The zombie monitor reads any valid object as a string (`GrowingCrashMonitor_Zombie.c:93`,
  `GrowingCrashObjC.c:970`, `:1094`, `:1117`): of one that is none, also of a tagged pointer,
  it follows words nobody checked.
- UTF-16 conversion reads one unit behind a text that ends in half of a pair.
  `Punycode.cpp` returns true on every failure, so that half of a name is used.
- `Demangler.cpp:2568`: weak, unowned and unmanaged references (`Xw`, `Xo`, `Xu`) are
  all read as owned, though `NodePrinter.cpp` knows how to print each.  The compiler of the
  model writes each as what it is, and `SymbolsAreRead` compares everything but that kind.
- `GrowingCrashFileUtils.c`: after a flush that failed the buffer stays as full as
  it was, and bytes are written twice or behind it (`:494`); a file that got
  shorter is read for ever (`:256`); the limit of `readUntilChar` is taken for the
  character; a full line, and a last one without a newline, lose a byte.
  Directories: symbolic links are followed (and not modelled), a file that is
  created while its directory is listed lets another entry stay.
- Stacks: the address of a call is the return address minus one, also for the
  instruction that crashed, so a crash at the first instruction of a function has
  the name of the one before; on ARM a stale link register adds an entry, on x86
  a crash in a prologue loses the caller.  Images that are unloaded meanwhile are
  not modelled.  `GrowingCrashDynamicLinker.c:262` adds the slide before it compares
  with 0: an image without a link edit segment that was moved is not refused, and its
  table is read at the slide plus the offset.  What lies there is other bytes in the
  model; that reading them may fault is not modelled.
- Throws: the stack is shared by all threads (`GrowingCrashMonitor_CPPException.cpp:87`);
  once the pointers are swapped, images whose pointers are in other segments are
  not watched at all; the table of originals grows while others read it.
- Zombies: two that meet in a slot can leave an object with the class of the
  other for good; an exception without a name or reason keeps those of the one
  before.
- System: `g_isEnabled` is set before the data is collected, and it is collected
  once per process; the image of a name is the first one whose path contains it.
  `:223`: the pages that are usable are added in 32 bits, so that with `PageWord` pages
  or more (2^32) more memory may be free than usable; `SystemIsTold` says so.
- Key paths: a leading slash is stripped by the look-up and not by the setter;
  setting and removing take a key that is no number for index 0; an index out of
  range raises, and the filter then never answers.

## 5. Proofs

All proofs are checked by TLAPS without gaps; they assume the named `ASSUME`s of
the modules (which TLC evaluates in the runs) and what is said here.  Every
inductive invariant was checked by TLC on the instances of section 3 before it was
proved.

### A crash (`CrashHandlingProofs`, `CrashReportProofs`)

- **TypeCorrect**: `Spec => []TypeOK`.  The type of the files is inductive only
  with `PathsOK`: a thread that writes a report has chosen a path.
- **WorldIsFrozen**: `Spec => []FrozenWorld` if `LateThreads = {}`.  The
  invariant is `Balanced` (the suspend count of a thread is at least the number of
  handlers that hold it) and `ListsOK` (a handler that stops the others has all of
  them in its list).  `Balanced` is needed because two handlers may hold the same
  thread and resume it in any order.  With late threads the property is false
  (section 4).
- **ReportHasFlag**: `Spec => []ReportImpliesCrashFlag` under the same hypothesis.
  It needs `OneCapture` (two application threads never capture at once, from
  `FrozenWorld`), which keeps the one context whose snapshot flag is ever set to
  its owner (`ContextsOK`), and `FlagOK`, which says at which labels the flag is on
  disk.
- **ReportsAreOwn**: `Spec => []ReportsOwnEvent` if `LateThreads = {}`.  The contexts
  are static, and some are shared: by two application threads (the world is frozen, so
  only one of them captures), by the two Mach threads, and by the primary one, once its
  own handler has crashed, with an application thread that reports a signal.
  The last two need `OwnInv`, nine conjuncts about the order of the handlers.  A Mach thread
  that meets another capture learns of it from `g_handlingFatalException`
  (`FirstIsNoted`, `SecondIsNested`, `CrashIsNested`), so it disables the
  monitors, which ends the other thread, before it fills a context (`OneMachContext`,
  `OneSignalContext`).  Nobody undoes that in between because every application thread
  is held once more than those that may still resume it account for (`Margin`).
- **EverybodyResumed**: `Spec => []NobodyLeftSuspended`, without a hypothesis.
  `Balanced` bounds the counts from below, this needs the bound from above
  (`Released`), which is false in general: a handler that crashes, or an NSException
  that is handed on, leaves threads suspended.  But then some thread is `Doomed`: it
  has died or crashed, or hands its event on to a signal, and as long as it is,
  not everybody is idle.
- **OneReportOfCrash**: `Spec => []NextCrashRecordedOnce`, for any number of
  events, threads, reports and crashes of the handlers.  The invariant is
  `RecordInv`.  Its base is `OneAtATime`: with one source of events, the handlers of
  the process follow one another, the thread whose fault waits in the port included, so
  that what a handler has read or filled stays as it is.  On it rest that all
  crash reports lie at `lastPath` while a fatal event is handled, that a handler
  which chooses a new path found none because `g_handlingFatalException` was not
  set (`WriterOK`), and that without a crash of a handler the monitors are
  uninstalled only after the report of the crash is complete (`SavedOK`).
- **NothingWrittenIsLost**: `Spec => []ReportsSurvive`.  `SurviveInv`: at each
  step of the rewriting the events of the report that is replaced are in its file,
  in the one put aside, or in the one that embeds it (`InFlight`).  It needs that
  nobody stops a thread that rewrites.  A suspension cannot, since it does not
  last (`ReleaseInv`); nor can `pthread_cancel`, because a Mach thread gives the
  ports up before it runs code that may crash, and one that is cancelled runs no
  handler (`MachInv`).

The last two assume `OneSource` (`\A t, u \in Sources : t = u`) and `LastResort`
(`{"signal", "user"} \subseteq Monitored`).  `OneSource` is what
`GrowingCrashMonitor.c` is written for: of two threads that crash at once each may
be taken for a crash of the other's handler (section 4), and they may suspend each
other, which `claim_ends` shows.  The other threads of the application, late ones included,
are any number; there are the two Mach threads of the code.  Without the signal monitor an abort ends the
process unseen; without the user monitor a report that should end it returns
(section 4).

### The store, the state, the cache, the watchdog, the monitors

- **IDsNeverRepeat** (`ReportStoreProofs`): `Spec => IDsIncrease`, for any number
  of launches, threads and requests, while at most `Shift` IDs are taken in a
  launch.  Nothing but the clock survives a launch, so `IDInv` ties the two
  halves to the clock: they are those of `BaseID(now)` plus the IDs taken, no
  carry ever leaves the low half (`Shift` divides `LowMod`), and every earlier ID
  is below.
- **StoreIsReportLog**: `Spec => IsReportLog`, the refinement.  `StoreInv` adds to
  `IDInv` who owns a file: one that is not complete belongs to the thread that
  writes it, or to nobody any more, and one that is complete is never written again.
  Then each action is a step of the log or a stutter.
- **PrunesOldest**: `Spec => PruneKeepsNewest`, from `StoreInv`: the IDs order the
  files as their requests were.
- **AloneLosesOnlyTheExposed**: `Spec => []NoReportLostAlone`, for one thread that uses
  the store, any number of deliveries the sink answers late, and any threads it answers on.
  `AloneInv` says where the reports at risk are (complete, neither sent nor dropped, and
  not completed behind the back of a delivery whose answer is being carried out): on disk, in what the thread has still to read or will
  hand over, and in every delivery that saw them; and that none is at risk while the
  directory is emptied.  What is written while a delivery is with the sink is lost even
  with one thread, and with two threads more is (`claim_sent`).
- **FlagNeedsReport** (`AppStateProofs`): `Spec => []FlagOnlyAfterReport`, for any
  threads, launches and toggles.  `FlagInv` ties a crash flag in memory to a report
  of this launch, and one in the file to the launch that wrote it, which is the one
  before as long as this one has not truncated the file.
- **DurationsAreReal**, **FileCarriesOver**: `Spec => []ExactAlone` and
  `Spec => []CarriedOverAlone` if `FirstPhase = "launching"` (for a launch in the
  background the first is false, `claim_background_launch`).  `DurationInv`: what was
  counted, with what is pending or about to be added, is what really passed;
  `FileInv` and `ExactInv` say the same of the keys that are in the file, up to
  equality unless a save was cut off.
- **SuspendedReads** (`CachedDataProofs`): `Spec => []SuspendedReadsAreSafe`.  The
  invariant `CacheInv` has four parts: the shape of the generations, the count
  fits the arrays in use at every step of an update, what the updater holds is
  allocated and not published, and a suspending report has looked only at the
  arrays as they are now.
- **CacheIsWhole**: `Spec => []CacheStaysWhole`.  `HeapInv` names the two listings an
  update is between and which of their arrays are allocated at each of its steps;
  `FreezeInv` counts the readers in the semaphore, and says that only an update
  which has passed its test can still change a frozen cache.
- **WatchdogIsInTime** (`MonitorProofs`): `Spec => []KillsInTime`.  Too
  early: an answer that is awaited is in the queue (`AnswerInv`), so that the main
  thread is busy whenever time passes (`BusyInv`).  Too late: the task that runs
  began at most one interval before the pulse that was not answered (`TaskInv`).
- **ThrowsAreSeen** (`MonitorProofs`): `Throws!Spec => []ThrowsAreWatched`, for any finite
  set of images whose pointers lead, and whose stubs are bound, to the runtime or to the
  override (`ImagesAssumption`).  An image is in the table of originals before its pointer leads to the decorator
  (`BindInv`), so that whoever is in there finds where to go on (`RuntimeInv`).  A throw
  that should be captured was, or is still on its way there (`CapturedInv`), and as
  long as nobody else captures the cursor is that of its own throw (`CursorInv`).
- **ZombiesAreKnown** (`MonitorProofs`): `Zombies!Spec => []ZombiesAreTold`, for any threads,
  addresses and hash.  A deallocation is of one thread and its object is there until it
  has been noted (`ObjectInv`); a slot in which no two threads met belongs to the
  thread that is in it (`SlotInv`); the class in a slot that nobody is in is that of the
  object last noted there (`ClassInv`), and of the parts of the last exception those
  that were stored are its own (`PartsInv`).
- **AllReportersHear**, **MachThreadsReserved** (`InstallationProofs`):
  `Spec => []EveryoneHears` and `Spec => []ExceptionThreadsReserved`.  A channel on
  which handlers came and went in turn is in one of five states (`ChannelInv`); for
  that it must be known which monitors hold theirs (`HeldInv`).
- **SettingsAreReported** (`InstallationProofs`): `Settings!Spec => []OthersAreExact`.
  `PointersInv`: the pointers of an item lead to what was set last, but between the
  two assignments of its setter.  A setter that starts marks its item as touched, and
  one that was stopped stays where it is, so what a report holds or has
  written of an item that is not touched stays true (`ReportInv`), with the exception the property
  names: a property that was set to nil is read from freed memory.  `FieldsInv`: only
  a field that was counted and not stored yet can make the report fault, and its
  property is one that is being set.  It assumes that no property has the name of one
  of the two other items (`NamesAssumption`).
- **DeliveriesGoThroughFilters** (`InstallationProofs`): `Delivery!Spec => []DeliveriesAreExact`,
  for any filters, reports, versions of them and deliveries that go on at once.  `FiltersInv`: a delivery
  runs as many filters as it began with, and if no `addFilter` disturbed it, the first of
  them, which are those added until then in reverse (`BeganInv`).  `FilteredInv`: what it
  hands on is a start of what it loaded, since a filter of the model calls back with
  all reports, the first, or none.  Reports have numbers of their own
  (`Numbered`), so that the lemmas on what the Apple format leaves out and what `Combine`
  puts in one place tell exactly when a text is of another report.
- **LaunchesAreReported** (`UIMonitorProofs`): `Spec => []LaunchIsReported`.  `ClockInv`
  orders the times that were noted and says that none that counts of a launch changes
  once the first page has appeared; `didFinishLaunching` comes at any time, also while
  the process is prewarmed, and the time told then counts from it; `DeliveryInv` and `ToldInv` that the launch is delivered while no
  page was, and a page only if it never was.
- **DeliveriesReachAll** (`UIMonitorProofs`): `Spec => WholeListTold`.  Nobody
  changes the list while the lock is held (`LockInv`), a delegate is in it once
  (`DelegatesInv`), so those before the index of the delivery are exactly those that
  were told (`PassedInv`).
- **TypeCorrect** (`UIMonitorProofs`): `Spec => []TypeOK`.

### What the properties do not catch

- `NextCrashRecordedOnce` and `ReportsSurvive` are about one source of events: a
  fault on a second thread, and a Mach thread that is cancelled in the middle of a
  report, are the subject of `FrozenWorld`, `ReportsOwnEvent` and `claim_ends` alone.
  `ReportsSurvive` allows one crash of the handler while a report is rewritten.
- `FrozenWorld` is checked and proved without threads that are created during a capture.
- `ExactAlone` is about transitions and reports of the main thread; the other
  interleavings add the same time twice (section 4).
- `ZombiesAreTold` excepts a slot in which two threads met or one was stopped.
- `EveryoneHears` excepts handlers behind a failed installation of the signals.
- `FilesAreWhole` is about disks that take what they are given and files that do not
  get shorter.
- `KillsInTime` states what the watchdog does, a task of up to two intervals included,
  which is more than `GrowingCrash.h:103` promises.
- In ThrowCapture the monitor is enabled and the process ends with the first exception
  nobody catches, so the flag `g_captureNextStackTrace` (`GrowingCrashMonitor_CPPException.cpp:97`)
  is always set.

### Only model-checked

- Liveness under fairness is out of the prover's reach: `CrashEndsProcess`,
  `LockReleased`, `CacheCatchesUp`, `HangIsCaught`, `LaunchIsTold`,
  `EverySendAnswered`.
- Induction over data and RECURSIVE operators are too: the modules of the text of a
  report that build trees (JSONCodec, ReportDocument, ReportReaders, TextCoding,
  Punycode, SwiftNames, SwiftMangler, SwiftSymbols, UserInfo) use them, and no
  module with a theorem does.  So all properties of the run `text` are checked
  only.
- The hypothesis `LateThreads = {}` of the theorems above is needed: a thread created
  between the reading of the list and the suspension of its creator (section 4) crashes
  while another one captures, and `FrozenWorld` and `ReportsOwnEvent` are then false
  (three threads and two events, run by hand).

## 6. Not modelled, and plan

- Of the demangler: symbolic references, value witnesses, associated conformances
  (`HA`), the parameters of bridged methods (`Te`), what follows a dot, names of
  classes in Objective-C (`_Tt`) and the labels of the mangling before Swift 5; what
  it makes of a text that no compiler wrote, beyond that an operator which does not
  find what it takes makes no node; `NodePrinter.cpp`, which is layout, and
  `OldDemangler.cpp`, which reads the mangling before Swift 4.2.  All of it is
  vendored from the Swift compiler, and so are the LLVM headers (`llvm/`).
- The logger, the names of threads, and what is formatting or layout of the Apple
  format.
- More than 100 threads, the size of the fixer's buffer, URLs in memory, images that
  are unloaded under a report.
- Properties that only forward a setting, the example application, resources.

Every safety property of the runs is proved but those of `text`.
What would come next is to write its small modules without RECURSIVE operators (SystemInfo,
StackTraces, and FileBuffers, which has one), with properties that do not quantify
over the constants of the instance, so that they too can be proved for all values.
