------------------------------ MODULE ReportLog ------------------------------
(***************************************************************************)
(* What the store of crash reports promises (GrowingCrashReportStore.h):     *)
(* whoever asks gets an ID, larger than all earlier ones; a report is stored  *)
(* at most once under the ID that was asked for; reports leave the store and  *)
(* do not come back.                                                        *)
(***************************************************************************)
EXTENDS Naturals, Sequences

CONSTANTS
    Ids,           \* IDs of reports
    MaxRequests    \* bound: reports asked for

VARIABLES
    issued,   \* the IDs handed out, in the order they were asked for
    stored,   \* requests whose report is in the store
    gone      \* requests whose report has left it

logVars == <<issued, stored, gone>>

Init == issued = <<>> /\ stored = {} /\ gone = {}

Ask ==
    /\ Len(issued) < MaxRequests
    /\ \E n \in Ids :
         /\ \A r \in 1 .. Len(issued) : issued[r] < n
         /\ issued' = Append(issued, n)
    /\ UNCHANGED <<stored, gone>>

Store ==
    /\ \E r \in (1 .. Len(issued)) \ (stored \cup gone) : stored' = stored \cup {r}
    /\ UNCHANGED <<issued, gone>>

Leave ==
    /\ \E out \in (SUBSET stored) \ {{}} :
         stored' = stored \ out /\ gone' = gone \cup out
    /\ UNCHANGED issued

Next == Ask \/ Store \/ Leave

Spec == Init /\ [][Next]_logVars
=============================================================================
