----------------------------- MODULE ReportStore -----------------------------
(***************************************************************************)
(* The store of crash reports (Recording/GrowingCrashReportStore.c), with   *)
(* the delivery that reads and clears it (sendAllReportsWithCompletion of   *)
(* GrowingCrash.m), over several launches of the application.               *)
(*                                                                         *)
(* A report is a file named after a 64-bit ID: the time of the launch in    *)
(* units of 2^23, plus a counter.  Threads add reports (under the lock of   *)
(* the store), write reports of their own (without it), send and delete     *)
(* them; a crash stops all of them but one; the process may be killed at    *)
(* any time, and the next launch prunes the store.  A thread that sends     *)
(* hands its reports over and goes on; the sink answers when it likes, on   *)
(* any thread.  The content of a file is the number of the request that     *)
(* produced it.                                                           *)
(*                                                                         *)
(* Of the calendar fields an ID is made of, two are kept (seconds and       *)
(* minutes): the others continue the same positional pattern.              *)
(***************************************************************************)
EXTENDS Naturals, FiniteSets

CONSTANTS
    Threads,          \* threads of the process
    Users,            \* sets of threads that use the store in some application
    Calls,            \* what they call: "add", "report", "send", "delete"
    Behavior,         \* deleteBehaviorAfterSendAll: "never", "onSuccess", "always"
    MaxReportCount,   \* g_maxReportCount
    Shift,            \* IDs per second: 2^23 in the code
    LowMod,           \* values of g_nextUniqueIDLow: 2^32 in the code
    SecondsPerMinute,
    MaxTime,          \* bound: the last second of the clock
    MaxRequests,      \* bound: reports requested over all launches
    MaxShared,        \* bound: the same, where several threads use the store
    MaxDeliveries,    \* bound: deliveries the sink has not answered
    Crashes           \* bound: the app may crash (else it is only killed)

ASSUME StoreAssumption ==
    /\ MaxReportCount \in Nat
    /\ Shift \in Nat \ {0}
    /\ \E k \in 1 .. LowMod : LowMod = k * Shift
    /\ LowMod \in Nat
    /\ SecondsPerMinute \in Nat \ {0}
    /\ MaxTime \in Nat \ {0} /\ MaxRequests \in Nat /\ MaxShared \in Nat
    /\ MaxDeliveries \in Nat
    /\ Crashes \in BOOLEAN
    /\ Calls \subseteq {"add", "report", "send", "delete"}
    /\ Behavior \in {"never", "onSuccess", "always"}
    /\ "none" \notin Threads /\ Users \subseteq SUBSET Threads

\* Mutant: the minutes are forgotten.
SecondsOnly(time) == time % SecondsPerMinute

\* The fields of gmtime_r, and the positional number made of them.  A minute
\* leaves room for a leap second.
Base(time) == (time % SecondsPerMinute)
                + (time \div SecondsPerMinute) * (SecondsPerMinute + 1)

BaseID(time) == Base(time) * Shift

Ids == 0 .. (Base(MaxTime) + 1) * Shift
Requests == 1 .. MaxRequests
Deliveries == 1 .. MaxDeliveries

NoFile == [state |-> "none", by |-> 0]

VARIABLES
    files,      \* disk: <id>.json
    aside,      \* disk: IDs whose <id>.old is left
    now,        \* the clock
    alive,      \* the process runs
    high, low,  \* g_nextUniqueIDHigh, g_nextUniqueIDLow
    taken,      \* IDs taken in this launch
    lock,       \* g_mutex: its owner or "none"
    crasher,    \* the thread that crashed, or "none"
    pc, loc,    \* label and locals of each thread
    users,      \* the threads of this application that use the store
    requests,   \* number of reports requested so far
    handed,     \* deliveries the sink has: their reports, and (history) those completed then
    issued,     \* history: the ID each request got (0: none yet)
    completed,  \* history: requests whose report was completely on disk
    sent,       \* history: requests whose report was delivered
    dropped,    \* history: requests whose report was pruned or deleted by ID
    exposed     \* history: requests completed between the handing over of a delivery
                \* and the end of the deletion that follows it

diskVars == <<files, aside>>
idVars == <<high, low, taken, users, requests, issued>>
threadVars == <<pc, loc>>
deliveryVars == <<handed, completed, sent, dropped, exposed>>
vars == <<diskVars, now, alive, idVars, lock, crasher, threadVars, deliveryVars>>

Labels == {"idle", "open", "fill", "unlock", "create", "body", "ids", "read",
           "clear", "remove", "path", "recreate", "discard", "finish", "stopped"}

IdleLoc == [id |-> 0, by |-> 0, count |-> 0, todo |-> {}, batch |-> {}]

NoDelivery == [batch |-> {}, seen |-> {}]

\* The names in the directory that parse as the name of a report.
Names == {<<i, "json">> : i \in {j \in Ids : files[j].state # "none"}}
            \cup {<<i, "old">> : i \in aside}

\* Mutant: the counter alone, without the high part.
LowOnly == low

NextID == high + low

High(base) == base - (base % LowMod)
Low(base) == base % LowMod

Init ==
    /\ files = [i \in Ids |-> NoFile] /\ aside = {}
    /\ now = 1 /\ alive = TRUE
    /\ high = High(BaseID(1)) /\ low = Low(BaseID(1)) /\ taken = 0
    /\ lock = "none" /\ crasher = "none"
    /\ pc = [t \in Threads |-> "idle"]
    /\ loc = [t \in Threads |-> IdleLoc]
    /\ requests = 0 /\ issued = [r \in Requests |-> 0]
    /\ handed = [d \in Deliveries |-> NoDelivery]
    /\ completed = {} /\ sent = {} /\ dropped = {} /\ exposed = {}
    /\ users \in Users

(***************************************************************************)
(* Helpers.                                                                *)
(***************************************************************************)
At(t, l) == alive /\ pc[t] = l

Goto(t, l) == pc' = [pc EXCEPT ![t] = l]

Free == lock = "none"

\* One thread uses the store.
Alone == \E t \in Threads : users = {t}

\* Bound: one more report may be requested (2^23 in one second are never reached).
Room == taken < Shift /\ requests < MaxRequests /\ (Alone \/ requests < MaxShared)

\* getNextUniqueID: t takes the next ID for a new request.
TakeID(t) ==
    /\ Room
    /\ taken' = taken + 1 /\ requests' = requests + 1
    /\ loc' = [loc EXCEPT ![t] = [IdleLoc EXCEPT !.id = NextID, !.by = requests + 1]]
    /\ issued' = [issued EXCEPT ![requests + 1] = NextID]
    /\ low' = (low + 1) % LowMod
    /\ UNCHANGED <<high, users>>

Mine(t) == files[loc[t].id].by = loc[t].by

\* A thread deletes all reports.
Clearing == alive /\ \E t \in Threads : pc[t] \in {"clear", "remove"}

\* The rest of the report of t reaches its file, if that is still there.
FillFile(t) ==
    LET i == loc[t].id IN
    IF files[i].state = "part" /\ Mine(t)
      THEN /\ files' = [files EXCEPT ![i].state = "full"]
           /\ completed' = completed \cup {loc[t].by}
           /\ exposed' = IF Clearing THEN exposed \cup {loc[t].by} ELSE exposed
      ELSE UNCHANGED <<files, completed, exposed>>

\* The smallest n of a set of names, by ID; duplicates count.
Before(x, y) == x[1] < y[1] \/ (x[1] = y[1] /\ x[2] = "json" /\ y[2] = "old")

\* Mutant: the order of compareInt64 is reversed.
Newest(names, n) == {x \in names : Cardinality({y \in names : Before(x, y)}) < n}

Oldest(names, n) == {x \in names : Cardinality({y \in names : Before(y, x)}) < n}

IdsOf(names) == {x[1] : x \in names}

(***************************************************************************)
(* growingcrs_addUserReport, under the lock.                                *)
(***************************************************************************)
AddBegin(t) ==
    /\ At(t, "idle") /\ "add" \in Calls
    /\ Free /\ lock' = t
    /\ TakeID(t)
    /\ Goto(t, "open")
    /\ UNCHANGED <<diskVars, now, alive, crasher, deliveryVars>>

\* open with O_CREAT only: an existing file is written over.  It may fail.
AddOpen(t) ==
    /\ At(t, "open")
    /\ \/ /\ files' = [files EXCEPT ![loc[t].id] = [state |-> "part", by |-> loc[t].by]]
          /\ Goto(t, "fill")
       \/ Goto(t, "unlock") /\ UNCHANGED files
    /\ UNCHANGED <<aside, now, alive, idVars, lock, crasher, loc, deliveryVars>>

\* One write, that may fail or fall short.
AddWrite(t) ==
    /\ At(t, "fill")
    /\ FillFile(t) \/ UNCHANGED <<files, completed, exposed>>
    /\ Goto(t, "unlock")
    /\ UNCHANGED <<aside, now, alive, idVars, lock, crasher, loc, handed, sent, dropped>>

Unlock(t) ==
    /\ At(t, "unlock")
    /\ lock' = "none"
    /\ Goto(t, "idle") /\ loc' = [loc EXCEPT ![t] = IdleLoc]
    /\ UNCHANGED <<diskVars, now, alive, idVars, crasher, deliveryVars>>

(***************************************************************************)
(* A report that the reporter writes: growingcrs_getNextCrashReport takes   *)
(* no lock, and O_EXCL refuses an existing file.  It is the report of an    *)
(* application thread that goes on, or of the crash that ends the process.  *)
(***************************************************************************)
ReportBegin(t) ==
    /\ At(t, "idle") /\ crasher = "none" /\ "report" \in Calls
    /\ TakeID(t)
    /\ Goto(t, "create")
    /\ UNCHANGED <<diskVars, now, alive, lock, crasher, deliveryVars>>

\* Thread t crashes, wherever it is, and every other thread is stopped: no delivery
\* is answered any more.
Crash(t) ==
    /\ Crashes /\ Room
    /\ alive /\ crasher = "none"
    /\ crasher' = t
    /\ pc' = [u \in Threads |-> IF u = t THEN "path" ELSE "stopped"]
    /\ loc' = [u \in Threads |-> IdleLoc]
    /\ handed' = [d \in Deliveries |-> NoDelivery]
    /\ UNCHANGED <<diskVars, now, alive, idVars, lock, completed, sent, dropped, exposed>>

\* Mutant: growingcrs_getNextCrashReport takes the lock.
PathUnderLock == lock = "none"

PathFree == TRUE

CrashPath(t) ==
    /\ At(t, "path") /\ PathFree
    /\ TakeID(t)
    /\ Goto(t, "create")
    /\ UNCHANGED <<diskVars, now, alive, lock, crasher, deliveryVars>>

\* The reporter returns to the application, or the process ends.
EndReport(t) ==
    IF crasher = t THEN alive' = FALSE /\ UNCHANGED <<pc, loc>>
    ELSE Goto(t, "idle") /\ loc' = [loc EXCEPT ![t] = IdleLoc] /\ UNCHANGED alive

CreateReport(t) ==
    /\ At(t, "create")
    /\ LET i == loc[t].id IN
         IF files[i].state = "none"
           THEN /\ files' = [files EXCEPT ![i] = [state |-> "part", by |-> loc[t].by]]
                /\ Goto(t, "body") /\ UNCHANGED <<loc, alive>>
           ELSE EndReport(t) /\ UNCHANGED files
    /\ UNCHANGED <<aside, now, idVars, lock, crasher, deliveryVars>>

WriteReport(t) ==
    /\ At(t, "body") \/ At(t, "finish")
    /\ FillFile(t)
    /\ EndReport(t)
    /\ UNCHANGED <<aside, now, idVars, lock, crasher, handed, sent, dropped>>

\* The handler crashes while it writes: the report is renamed to <id>.old, ...
Recrash(t) ==
    /\ At(t, "body") /\ crasher = t
    /\ LET i == loc[t].id IN
         /\ files[i].state = "part"
         /\ files' = [files EXCEPT ![i] = NoFile]
         /\ aside' = aside \cup {i}
    /\ Goto(t, "recreate")
    /\ UNCHANGED <<now, alive, idVars, lock, crasher, loc, deliveryVars>>

\* ... a new one is created, ...
Recreate(t) ==
    /\ At(t, "recreate")
    /\ files' = [files EXCEPT ![loc[t].id] = [state |-> "part", by |-> loc[t].by]]
    /\ Goto(t, "discard")
    /\ UNCHANGED <<aside, now, alive, idVars, lock, crasher, loc, deliveryVars>>

\* ... and the old one, embedded in it, removed before the rest is written.
Discard(t) ==
    /\ At(t, "discard")
    /\ aside' = aside \ {loc[t].id}
    /\ Goto(t, "finish")
    /\ UNCHANGED <<files, now, alive, idVars, lock, crasher, loc, deliveryVars>>

(***************************************************************************)
(* sendAllReportsWithCompletion.  Each call of the store takes the lock,    *)
(* reads the directory and releases the lock.                               *)
(***************************************************************************)
SendCount(t) ==
    /\ At(t, "idle") /\ "send" \in Calls /\ Free
    /\ loc' = [loc EXCEPT ![t].count = Cardinality(Names)]
    /\ Goto(t, "ids")
    /\ UNCHANGED <<diskVars, now, alive, idVars, lock, crasher, deliveryVars>>

Smaller(m, n) == IF m <= n THEN m ELSE n

\* At most "count" names are read, in the order of the directory; if there are
\* fewer, the rest of the array is not initialized, and sorted with them: junk
\* that is small displaces the largest IDs.
SendIDs(t) ==
    /\ At(t, "ids") /\ Free
    /\ LET n == Smaller(loc[t].count, Cardinality(Names)) IN
         \E read \in {x \in SUBSET Names : Cardinality(x) = n},
            junk \in 0 .. Smaller(n, loc[t].count - n) :
              loc' = [loc EXCEPT ![t].todo = IdsOf(Oldest(read, n - junk))]
    /\ Goto(t, "read")
    /\ UNCHANGED <<diskVars, now, alive, idVars, lock, crasher, deliveryVars>>

\* A report that is not complete does not pass the fixer (growingcrf_fixupCrashReport).
SendRead(t) ==
    /\ At(t, "read") /\ Free
    /\ \E i \in loc[t].todo :
         /\ \A k \in loc[t].todo : i <= k
         /\ loc' = [loc EXCEPT
                      ![t].todo = @ \ {i},
                      ![t].batch = IF files[i].state = "full" THEN @ \cup {files[i].by}
                                                              ELSE @]
    /\ UNCHANGED <<diskVars, now, alive, idVars, lock, crasher, pc, deliveryVars>>

\* Mutant: the reports are deleted whether they were sent or not.
ClearsAlways(done) == Behavior # "never"

ClearsAfter(done) == Behavior = "always" \/ (done /\ Behavior = "onSuccess")

\* sendReports: without reports the answer is at once that all are sent, else the
\* sink has them and the thread goes on.
SendSink(t) ==
    /\ At(t, "read") /\ loc[t].todo = {}
    /\ \/ /\ loc[t].batch = {} /\ UNCHANGED handed
          /\ Goto(t, IF ClearsAfter(TRUE) THEN "clear" ELSE "idle")
       \/ /\ loc[t].batch # {} /\ Goto(t, "idle")
          /\ \E d \in Deliveries :
               /\ handed[d] = NoDelivery /\ \A e \in 1 .. d - 1 : handed[e] # NoDelivery
               /\ handed' = [handed EXCEPT ![d] = [batch |-> loc[t].batch, seen |-> completed]]
    /\ loc' = [loc EXCEPT ![t] = IdleLoc]
    /\ UNCHANGED <<diskVars, now, alive, idVars, lock, crasher, completed, sent, dropped, exposed>>

\* The sink answers on thread t, which may be one of its own: the delivery is over.
SinkAnswers(t) ==
    /\ At(t, "idle")
    /\ \E d \in Deliveries, done \in BOOLEAN :
         /\ handed[d] # NoDelivery /\ handed' = [handed EXCEPT ![d] = NoDelivery]
         /\ sent' = IF done THEN sent \cup handed[d].batch ELSE sent
         /\ exposed' = IF ClearsAfter(done) THEN exposed \cup (completed \ handed[d].seen)
                       ELSE exposed
         /\ Goto(t, IF ClearsAfter(done) THEN "clear" ELSE "idle")
    /\ UNCHANGED <<diskVars, now, alive, idVars, lock, crasher, loc, completed, dropped>>

\* growingcrs_deleteAllReports: the directory is listed, then emptied.
ClearBegin(t) ==
    /\ At(t, "clear") /\ Free /\ lock' = t
    /\ loc' = [loc EXCEPT ![t].todo = Names]
    /\ Goto(t, "remove")
    /\ UNCHANGED <<diskVars, now, alive, idVars, crasher, deliveryVars>>

ClearOne(t) ==
    /\ At(t, "remove")
    /\ \E x \in loc[t].todo :
         /\ files' = IF x[2] = "json" THEN [files EXCEPT ![x[1]] = NoFile] ELSE files
         /\ aside' = IF x[2] = "old" THEN aside \ {x[1]} ELSE aside
         /\ loc' = [loc EXCEPT ![t].todo = @ \ {x}]
    /\ UNCHANGED <<now, alive, idVars, lock, crasher, pc, deliveryVars>>

ClearEnd(t) ==
    /\ At(t, "remove") /\ loc[t].todo = {}
    /\ Goto(t, "unlock")
    /\ UNCHANGED <<diskVars, now, alive, idVars, lock, crasher, loc, deliveryVars>>

\* growingcrs_deleteReportWithID, without the lock.
DeleteByID(t) ==
    /\ At(t, "idle") /\ "delete" \in Calls
    /\ \E i \in IdsOf(Names) :
         /\ files' = [files EXCEPT ![i] = NoFile]
         /\ dropped' = dropped \cup {files[i].by}
    /\ UNCHANGED <<aside, now, alive, idVars, lock, crasher, threadVars, handed, completed, sent,
                   exposed>>

(***************************************************************************)
(* The end of the process, and the next launch.                             *)
(***************************************************************************)
\* What is in memory at the start of a process, and is forgotten at its end.
Forget ==
    /\ lock' = "none" /\ crasher' = "none"
    /\ pc' = [t \in Threads |-> "idle"] /\ loc' = [t \in Threads |-> IdleLoc]
    /\ handed' = [d \in Deliveries |-> NoDelivery]

\* The system kills the process, whatever it is doing.
Kill ==
    /\ alive /\ alive' = FALSE /\ Forget
    /\ UNCHANGED <<diskVars, now, idVars, completed, sent, dropped, exposed>>

\* pruneReports: the oldest IDs go, if there are too many names.
Pruned ==
    LET n == Cardinality(Names) IN
    IF n > MaxReportCount THEN IdsOf(Oldest(Names, n - MaxReportCount)) ELSE {}

\* growingcrs_initialize of a launch at a later second.
Launch ==
    /\ ~alive /\ alive' = TRUE
    /\ now' \in now + 1 .. MaxTime
    /\ files' = [i \in Ids |-> IF i \in Pruned THEN NoFile ELSE files[i]]
    /\ dropped' = dropped \cup {files[i].by : i \in Pruned}
    /\ high' = High(BaseID(now')) /\ low' = Low(BaseID(now')) /\ taken' = 0
    /\ Forget
    /\ UNCHANGED <<aside, users, requests, issued, completed, sent, exposed>>

(***************************************************************************)
(* The specification.                                                      *)
(***************************************************************************)
\* A step of a call that has begun.
Continue(t) ==
    \/ AddOpen(t) \/ AddWrite(t) \/ Unlock(t)
    \/ CrashPath(t) \/ CreateReport(t) \/ WriteReport(t) \/ Recreate(t) \/ Discard(t)
    \/ SendIDs(t) \/ SendRead(t) \/ SendSink(t)
    \/ ClearBegin(t) \/ ClearOne(t) \/ ClearEnd(t)

Begin(t) ==
    \/ AddBegin(t) \/ ReportBegin(t) \/ SendCount(t) \/ DeleteByID(t)
    \/ Crash(t) \/ Recrash(t)

\* The last launch of the bounded clock is over.
Over == ~alive /\ now = MaxTime /\ UNCHANGED vars

Next ==
    \/ \E t \in users : Begin(t)
    \/ \E t \in Threads : Continue(t) \/ SinkAnswers(t)
    \/ Kill \/ Launch \/ Over

Spec == Init /\ [][Next]_vars

\* The owner of the lock goes on unless a crash stops it, and the thread that crashed does.
FairSpec == Spec /\ \A t \in Threads : WF_vars(t \in {lock, crasher} /\ Continue(t))

(***************************************************************************)
(* Properties.                                                             *)
(***************************************************************************)
\* Type invariant.
TypeOK ==
    /\ files \in [Ids -> [state: {"none", "part", "full"}, by: 0 .. MaxRequests]]
    /\ aside \subseteq Ids
    /\ now \in 1 .. MaxTime /\ alive \in BOOLEAN
    /\ high \in Nat /\ low \in 0 .. LowMod - 1 /\ taken \in 0 .. Shift
    /\ lock \in Threads \cup {"none"} /\ crasher \in Threads \cup {"none"}
    /\ users \subseteq Threads
    /\ pc \in [Threads -> Labels]
    /\ requests \in 0 .. MaxRequests /\ issued \in [Requests -> Ids]
    /\ handed \in [Deliveries -> [batch: SUBSET Requests, seen: SUBSET Requests]]
    /\ completed \subseteq Requests /\ sent \subseteq Requests

FullFiles == {i \in Ids : files[i].state = "full"}

\* An ID made by getNextUniqueID is larger than every ID handed out before, by this
\* launch or an earlier one, although nothing but the clock survives a launch and the
\* low half of the counter wraps around.
IDsIncrease ==
    [][requests' # requests =>
          \A r \in 1 .. requests : issued[r] < issued'[requests']]_vars

\* pruneReports of a launch leaves at most g_maxReportCount reports, and none of those
\* it removes was requested after one that it keeps.
PruneKeepsNewest ==
    [][~alive /\ alive' =>
          LET kept == {i \in Ids : files'[i].state # "none"}
              gone == {i \in Ids : files[i].state # "none"} \ kept
          IN /\ Cardinality(kept) <= MaxReportCount
             /\ \A i \in gone, j \in kept : files[i].by < files[j].by]_vars

\* The lock of the store is given back in every living process, whatever fails: and
\* a crash of any thread, that stops the owner of the lock, ends the process without it.
LockReleased ==
    \A t \in Threads : lock = t ~> (lock # t \/ ~alive)

Gone(r) == ~ \E i \in FullFiles : files[i].by = r

\* A report that was completely on disk is on disk, or delivered, or was pruned or
\* deleted by its ID, over crashes and kills of the process at any time.
NoReportLost == \A r \in completed : Gone(r) => r \in sent \cup dropped

\* In an application that uses the store from one thread, and asks for reports to be
\* deleted only once they are sent, a report that is lost was completed between the
\* moment a delivery was handed to the sink and the end of the deletion that followed
\* the sink's answer; the sink may answer late, on any thread, and several deliveries
\* be under way (sendAllReportsWithCompletion and growingcrs_deleteAllReports).
NoReportLostAlone ==
    Alone /\ Behavior # "always" =>
        \A r \in completed : Gone(r) => r \in sent \cup dropped \cup exposed

(***************************************************************************)
(* The store implements the log of reports.                                 *)
(***************************************************************************)
Stored == {r \in Requests : files[issued[r]] = [state |-> "full", by |-> r]}

Log == INSTANCE ReportLog WITH
          issued <- [r \in 1 .. requests |-> issued[r]],
          stored <- Stored,
          gone <- completed \ Stored

\* Over any number of launches, crashes and kills the store is the log of ReportLog:
\* every complete report is stored once, under an ID of its own that is larger than
\* those before it, and once it is gone it does not come back.
IsReportLog == Log!Spec
=============================================================================
