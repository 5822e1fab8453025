--------------------------- MODULE ReportDelivery ---------------------------
(***************************************************************************)
(* Reports on their way to the application: startMonitor of                 *)
(* GrowingAPMCrashMonitor.m and sendAllReportsWithCompletion of               *)
(* GrowingCrashInstallation.m and GrowingCrash.m, through the filters of      *)
(* GrowingCrashReportFilterBasic.m.                                         *)
(*                                                                         *)
(* A delivery runs on the main queue up to the first filter of the            *)
(* application; each of them calls back when it likes, on any thread, and the  *)
(* next one then starts there.  The filters of the SDK are functions of the    *)
(* list of reports.  A report is a record: its number, whether it has the     *)
(* version the Apple format reads, and whether it has an error section.       *)
(***************************************************************************)
EXTENDS Naturals, Sequences, FiniteSets, SequencesExt

CONSTANTS
    Filters,      \* filters the application puts before the sink
    Kinds,        \* reports: records of "version" and "error"
    Behavior,     \* deleteBehaviorAfterSendAll
    MaxReports,   \* bound: reports written
    MaxSends,     \* bound: deliveries
    MaxAdds       \* bound: filters added

VARIABLES
    prefilters,   \* the filters of prependedFilters, an array all deliveries share
    added,        \* history: the filters in the order they were added
    store,        \* the reports on disk, oldest first
    written,      \* reports written so far
    queue,        \* main queue: deliveries to be begun
    sends         \* each delivery

filterVars == <<prefilters, added>>
storeVars == <<store, written>>
vars == <<filterVars, storeVars, queue, sends>>

Sends == 1 .. MaxSends

\* A delivery: where it is, the reports as filtered so far,
\* the filter that runs and how many there are, and what came of it.
NoSend == [at |-> "none", reports |-> <<>>, filter |-> 0, count |-> 0,
           completed |-> FALSE, result |-> <<>>, answered |-> 0,
           loaded |-> <<>>, ran |-> <<>>, began |-> <<>>, disturbed |-> FALSE]

Init ==
    /\ prefilters = <<>> /\ added = <<>>
    /\ store = <<>> /\ written = 0
    /\ queue = <<>> /\ sends = [s \in Sends |-> NoSend]

-----------------------------------------------------------------------------
(* The filters of the SDK.                                                  *)

Passthrough(reports) == reports

\* ObjectForKey of "crash/error", not found allowed: an empty one instead.
ErrorFilter(reports) ==
    [i \in DOMAIN reports |-> IF reports[i].error THEN reports[i]
                              ELSE [reports[i] EXCEPT !.number = 0]]

\* The Apple format leaves out a report of another version; the others follow
\* each other in their order.
AppleFmt(reports) ==
    LET places == {i \in DOMAIN reports : reports[i].version = 3}
        Nth(n) == CHOOSE i \in places : Cardinality({j \in places : j <= i}) = n
    IN [n \in 1 .. Cardinality(places) |-> reports[Nth(n)]]

\* Combine: the results of the filters at one index make one report, with the
\* keys whose result is that long.
Combine(reports) ==
    LET results == [rawReport |-> Passthrough(reports), errorReport |-> ErrorFilter(reports),
                    AppleFmt |-> AppleFmt(reports)]
    IN [i \in DOMAIN results.rawReport |->
           [k \in {key \in DOMAIN results : i \in DOMAIN results[key]} |-> results[k][i].number]]

-----------------------------------------------------------------------------
(* A delivery.                                                             *)

Update(s, send) == sends' = [sends EXCEPT ![s] = send]

\* startMonitor puts it on the main queue; the application can start another.
Start(s) ==
    /\ sends[s].at = "none" /\ \A r \in 1 .. s - 1 : sends[r].at # "none"
    /\ queue' = Append(queue, s)
    /\ Update(s, [NoSend EXCEPT !.at = "queued"])
    /\ UNCHANGED <<filterVars, storeVars>>

Ended(send, completed, result) ==
    [send EXCEPT !.at = "ended", !.completed = completed, !.result = result]

\* Mutant: the index is increased after it is compared.
SkipLast(send, reports, i) ==
    IF i < send.count
    THEN [send EXCEPT !.at = "filter", !.filter = i, !.reports = reports,
                      !.ran = Append(@, prefilters[i])]
    ELSE Ended(send, TRUE, Combine(reports))

\* The pipeline: the next filter of the array as it is now, as often as there
\* were filters; then the sink.
Pipeline(send, reports, i) ==
    IF i <= send.count
    THEN [send EXCEPT !.at = "filter", !.filter = i, !.reports = reports,
                      !.ran = Append(@, prefilters[i])]
    ELSE Ended(send, TRUE, Combine(reports))

\* Mutant: nothing is answered when there is nothing to send.
SilentWhenEmpty(send) == IF send.loaded = <<>> THEN [send EXCEPT !.at = "none"]
                         ELSE Pipeline(send, send.loaded, 1)

\* sendReports: straight to the answer without reports, else through the pipeline.
SendReports(send) == IF send.loaded = <<>> THEN Ended(send, TRUE, <<>>)
                     ELSE Pipeline(send, send.loaded, 1)

\* sendAllReportsWithCompletion: all reports are loaded, and sent.
SendAllReports ==
    /\ queue # <<>> /\ queue' = Tail(queue)
    /\ LET s == Head(queue)
           send == [sends[s] EXCEPT !.loaded = store, !.began = prefilters,
                                    !.count = Len(prefilters)]
       IN Update(s, SendReports(send))
    /\ UNCHANGED <<filterVars, storeVars>>

\* A filter of the application calls back once, with all reports, only the first,
\* some and an error, or none; the code trusts it to do so.
FilterCompletes(s) ==
    /\ sends[s].at = "filter"
    /\ LET send == sends[s]
       IN \/ \E reports \in {send.reports, SubSeq(send.reports, 1, 1)} :
                Update(s, Pipeline(send, reports, send.filter + 1))
          \/ Update(s, Ended(send, FALSE, <<>>))
    /\ UNCHANGED <<filterVars, storeVars, queue>>

Deletes(send) == Behavior = "always" \/ (Behavior = "onSuccess" /\ send.completed)

\* All reports are deleted ...
DeleteReports(s) ==
    /\ sends[s].at = "ended"
    /\ store' = IF Deletes(sends[s]) THEN <<>> ELSE store
    /\ Update(s, [sends[s] EXCEPT !.at = "answer"])
    /\ UNCHANGED <<filterVars, written, queue>>

\* ... and then the completion is called, which tells the delegates.
Complete(s) ==
    /\ sends[s].at = "answer"
    /\ Update(s, [sends[s] EXCEPT !.at = "done", !.answered = @ + 1])
    /\ UNCHANGED <<filterVars, storeVars, queue>>

-----------------------------------------------------------------------------
(* The application.                                                        *)

\* addFilter inserts at the front.
AddPreFilter(f) ==
    /\ Len(added) < MaxAdds /\ f \notin ToSet(added)
    /\ prefilters' = <<f>> \o prefilters /\ added' = Append(added, f)
    /\ sends' = [s \in Sends |-> [sends[s] EXCEPT !.disturbed = @ \/ sends[s].at = "filter"]]
    /\ UNCHANGED <<storeVars, queue>>

\* A report is written: of a user report, or left by a crash of an earlier launch.
WriteReport(kind) ==
    /\ written < MaxReports /\ written' = written + 1
    /\ store' = Append(store, [number |-> written', version |-> kind.version, error |-> kind.error])
    /\ UNCHANGED <<filterVars, queue, sends>>

Proceed(s) == FilterCompletes(s) \/ DeleteReports(s) \/ Complete(s)

Next ==
    \/ \E s \in Sends : Start(s) \/ Proceed(s)
    \/ SendAllReports
    \/ \E f \in Filters : AddPreFilter(f)
    \/ \E kind \in Kinds : WriteReport(kind)

\* The main queue runs, a filter calls back, and so do the completions.
Fairness == WF_vars(SendAllReports) /\ \A s \in Sends : WF_vars(Proceed(s))
Spec == Init /\ [][Next]_vars /\ Fairness

-----------------------------------------------------------------------------
\* A delivery runs as many filters as there were when it began, also when they
\* call back on other threads and another delivery shares them; and when none is
\* added meanwhile, it runs each of them once, the LAST added first, which is the
\* opposite of what GrowingCrashInstallation.h:79 says.  Which ones a delivery runs
\* during which a filter was added is left open: all filters shift, so that one
\* may run twice and another one not at all (addFilter, filterReports of the
\* pipeline).
FiltersInTurn ==
    \A s \in Sends :
        /\ sends[s].began = Reverse(SubSeq(added, 1, sends[s].count))
        /\ sends[s].completed /\ sends[s].loaded # <<>> => Len(sends[s].ran) = sends[s].count
        /\ ~sends[s].disturbed /\ sends[s].loaded # <<>> =>
            /\ IsPrefix(sends[s].ran, sends[s].began)
            /\ sends[s].completed => sends[s].ran = sends[s].began

\* What is delivered in one place is the raw report and the error of one report.
\* Its Apple text is of the same report exactly as long as every report up to it
\* has the version the Apple format reads: the format leaves out the others and
\* Combine puts together what is in one place, so that from the first of another
\* version on a report has the text of a later one, or none (filterReports of
\* Combine, ObjectForKey and AppleFmt).
EntriesMatch ==
    \A s \in Sends : sends[s].completed =>
        \A i \in DOMAIN sends[s].result :
            LET entry == sends[s].result[i]
                loaded == sends[s].loaded
            IN /\ entry.rawReport = loaded[i].number
               /\ entry.errorReport = (IF loaded[i].error THEN entry.rawReport ELSE 0)
               /\ ("AppleFmt" \in DOMAIN entry /\ entry["AppleFmt"] = entry.rawReport)
                    <=> \A j \in 1 .. i : loaded[j].version = 3

\* Every delivery is answered, exactly once, whatever the filters do
\* (growingcrash_callCompletion).
EverySendAnswered ==
    \A s \in Sends : sends[s].at = "queued" ~> sends[s].answered = 1 /\ sends[s].at = "done"
=============================================================================
