---------------------------- MODULE MCUIMonitor ----------------------------
(***************************************************************************)
(* Instances of UIMonitor for TLC.  One instance holds three settings: any   *)
(* order of launch, start and pages; two delegates that other threads change *)
(* during deliveries; and an application that leaves and comes back.         *)
(***************************************************************************)
EXTENDS UIMonitor, TLC

CONSTANTS d1, d2, first, second, private, worker

VARIABLE setting

Limits ==
    [launch |->    [delegates |-> {d1},     pages |-> {first, private}, app |-> FALSE, time |-> 15],
     delegates |-> [delegates |-> {d1, d2}, pages |-> {first, second},  app |-> FALSE, time |-> 16],
     warm |->      [delegates |-> {d1},     pages |-> {first},          app |-> TRUE,  time |-> 20]]

Limit == Limits[setting]

\* Only the first setting is prewarmed, starts in any way and has other monitors
\* configured; only the second has delegates that die.
Limited ==
    /\ now <= Limit.time
    /\ \A p \in Pages \ Limit.pages : pages[p].at = "none"
    /\ ToSet(delegates) \subseteq Limit.delegates
    /\ Limit.app \/ app \in {"exec", "main"}
    /\ setting # "launch" => (~prewarm /\ execTime = Exec /\ config # "other")
    /\ setting # "launch" => \A p \in Pages : pages[p].at # "gone"
    /\ alive = Delegates \/ (setting = "delegates" /\ d2 \in alive)

MCInit == Init /\ setting \in DOMAIN Limits /\ Limited
MCNext == Next /\ UNCHANGED setting /\ Limited'
MCSpec == MCInit /\ [][MCNext]_<<vars, setting>> /\ Fairness
=============================================================================
