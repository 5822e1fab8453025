----------------------------- MODULE MCAppState -----------------------------
(***************************************************************************)
(* Instances of AppState for TLC.  One instance holds three settings, each   *)
(* with bounds of its own: one launch and three launches of an app whose     *)
(* main thread alone reports, and three launches of one with two threads,    *)
(* that installs the reporter in any phase and toggles the monitor.          *)
(***************************************************************************)
EXTENDS AppState

CONSTANT other

OneThread == {other}
Anywhere == Phases
InBackground == {"background"}
AllJobs == {"snapshot", "report", "crash"}

VARIABLE setting

Limits ==
    [launch   |-> [time |-> 3, launches |-> 1, sessions |-> 3, reports |-> 2],
     launches |-> [time |-> 2, launches |-> 3, sessions |-> 1, reports |-> 1],
     threads  |-> [time |-> 0, launches |-> 3, sessions |-> 2, reports |-> 1]]

Limit == Limits[setting]

MCInit == Init /\ setting \in DOMAIN Limits /\ alone = (setting # "threads")

MCNext ==
    /\ Next \/ (~alive /\ UNCHANGED vars)
    /\ now' <= Limit.time /\ launches' <= Limit.launches
    /\ state'.sessions <= Limit.sessions /\ reports' <= Limit.reports
    /\ UNCHANGED setting

MCSpec == MCInit /\ [][MCNext]_<<vars, setting>>
=============================================================================
