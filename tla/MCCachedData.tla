---------------------------- MODULE MCCachedData ----------------------------
(***************************************************************************)
(* Instances of CachedData for TLC.  One instance holds three settings: one  *)
(* report of any kind, two reports of crashes one after the other, and two   *)
(* reports of any kind that overlap in a process with one thread.           *)
(***************************************************************************)
EXTENDS CachedData

CONSTANTS t1, t2, r1, r2

TwoThreads == {t1, t2}
OneReader == {r1}
TwoReaders == {r1, r2}
Either == BOOLEAN

VARIABLE setting

Limits ==
    [single  |-> [threads |-> Threads, readers |-> OneReader, reports |-> 1],
     crashes |-> [threads |-> Threads, readers |-> OneReader, reports |-> 2],
     overlap |-> [threads |-> {t1}, readers |-> TwoReaders, reports |-> 2]]

Limit == Limits[setting]

MCInit == Init /\ setting \in DOMAIN Limits /\ live \subseteq Limit.threads

MCNext ==
    /\ Next
    /\ live' \subseteq Limit.threads /\ reports' <= Limit.reports
    /\ \A r \in Readers \ Limit.readers : rpc'[r] = "idle"
    /\ setting = "crashes" =>
         \A r \in Readers : rpc'[r] = "freeze" => suspender' = r
    /\ UNCHANGED setting

MCSpec ==
    /\ MCInit /\ [][MCNext]_<<vars, setting>>
    /\ Fairness
=============================================================================
