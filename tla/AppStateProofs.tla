--------------------------- MODULE AppStateProofs ---------------------------
(***************************************************************************)
(* Proofs about the application state monitor, for any number of threads,   *)
(* launches, sessions and reports and any time.                             *)
(*                                                                         *)
(*  FlagInv, for all applications, ties the crash flag to the report that    *)
(*  set it: in memory to this launch, in the file to the launch that wrote   *)
(*  it, which is the one before if this one has not truncated the file yet.  *)
(*                                                                         *)
(*  AloneInv, for those whose main thread alone reports, says what that      *)
(*  thread is doing (JobInv); that what was counted, with what is pending    *)
(*  or about to be added, is what really passed (DurationInv); and that the  *)
(*  file, as far as its keys go, holds no more than that (FileInv), and      *)
(*  exactly that if no save was cut off (ExactInv).                          *)
(***************************************************************************)
EXTENDS AppState, TLAPS

Labels == {"idle", "read", "stamp", "add", "truncate", "write", "replay"}
LocSet == [job: {"none", "install", "terminate"} \cup Jobs, duration: Nat, again: BOOLEAN]
StateSet ==
    [active: Nat, background: Nat, activeSince: Nat, backgroundSince: Nat,
     launchesSince: Nat, sessions: Nat, sessionsSince: Nat, crashedLastLaunch: BOOLEAN,
     crashedThisLaunch: BOOLEAN, isActive: BOOLEAN, inForeground: BOOLEAN, transition: Nat]
FileSet ==
    [keys: Nat, crashed: BOOLEAN, active: Nat, background: Nat, launches: Nat, sessions: Nat]
Notes == {"no", "begun", "saved"}

TypeInv ==
    /\ alone \in BOOLEAN /\ now \in Nat /\ phase \in Phases
    /\ installed \in BOOLEAN /\ alive \in BOOLEAN /\ enabled \in BOOLEAN
    /\ state \in StateSet /\ state.transition <= now
    /\ file \in FileSet
    /\ pc \in [Threads -> Labels] /\ loc \in [Threads -> LocSet]
    /\ real \in [Phases -> Nat]
    /\ realSince \in [time: [Phases -> Nat], launches: Nat]
    /\ noted \in Notes /\ lastNoted \in Notes /\ cut \in BOOLEAN

FlagInv ==
    /\ enabled => installed
    /\ ~installed => /\ noted = "no" /\ \A t \in Threads : pc[t] = "idle"
                     /\ ~state.crashedThisLaunch /\ ~state.crashedLastLaunch
    /\ state.crashedThisLaunch => noted # "no"
    /\ file.keys >= 2 /\ file.crashed => IF LeftFile THEN lastNoted # "no" ELSE noted # "no"
    /\ installed /\ state.crashedLastLaunch => lastNoted # "no"

-----------------------------------------------------------------------------
Saving == pc[Main] \in {"truncate", "write"}
Installing == pc[Main] = "replay" \/ loc[Main].job = "install"
Reporting == loc[Main].job \in {"report", "crash"}

JobInv ==
    /\ \A t \in Others : pc[t] = "idle"
    /\ enabled = installed
    /\ pc[Main] \in {"idle", "replay"} => loc[Main].job = "none"
    /\ pc[Main] \in {"read", "stamp", "add"} => loc[Main].job \notin {"none", "install"}
    /\ phase = "launching" => lastTold = "none"
    /\ Installing => phase = "launching"
    /\ Saving /\ Reporting => noted # "no"
    /\ noted = "begun" => Saving /\ Reporting
    /\ state.crashedThisLaunch <=> noted # "no"

\* What updateAppState has read and not yet added.
Extra == IF pc[Main] = "add" THEN loc[Main].duration ELSE 0

CountedNow == Extra + (now - state.transition)
Active == IF state.isActive THEN CountedNow ELSE 0
Background == IF ~state.isActive /\ ~state.inForeground THEN CountedNow ELSE 0

RealActive(time) == time["active"] + time["launching"]

DurationInv ==
    /\ pc[Main] = "stamp" => loc[Main].duration = now - state.transition
    /\ phase = "launching" => real["active"] = 0 /\ real["background"] = 0
    /\ ~installed => state.active = 0 /\ state.background = 0
    /\ installed => (state.inForeground <=> phase # "background")
    /\ installed \/ phase = "launching" =>
         /\ state.isActive <=> phase \in {"launching", "active"}
         /\ state.background + Background = real["background"]
         /\ real["active"] <= state.active + Active
         /\ state.active + Active <= RealActive(real)

\* Since the last crash; before the installation, as much as the file may still add.
Unloaded(time) == IF installed THEN 0 ELSE time

FileInv ==
    /\ \A p \in Phases : real[p] <= realSince.time[p]
    /\ ~installed => /\ state.activeSince = 0 /\ state.backgroundSince = 0
                     /\ state.launchesSince = 0
    /\ installed => /\ state.activeSince + Active <= RealActive(realSince.time)
                    /\ state.backgroundSince + Background <= realSince.time["background"]
                    /\ state.launchesSince <= realSince.launches
    /\ file.keys >= 3 /\ ~file.crashed =>
         file.active + Unloaded(RealActive(real)) <= RealActive(realSince.time)
    /\ file.keys >= 4 /\ ~file.crashed =>
         file.background + Unloaded(real["background"]) <= realSince.time["background"]
    /\ file.keys >= 5 /\ ~file.crashed => file.launches <= realSince.launches

CrashOnFile == file.keys >= 2 /\ file.crashed
LaunchesOnFile == IF file.keys >= 5 THEN file.launches ELSE 0

ExactInv ==
    /\ ~alive /\ Saving => cut
    /\ installed /\ ~cut => /\ state.launchesSince = realSince.launches
                            /\ state.crashedLastLaunch <=> lastNoted = "saved"
    /\ ~cut /\ ~Saving =>
         /\ CrashOnFile <=> IF installed THEN noted = "saved" ELSE lastNoted = "saved"
         /\ CrashOnFile \/ LaunchesOnFile = realSince.launches

AloneInv == alone => JobInv /\ DurationInv /\ FileInv /\ ExactInv

-----------------------------------------------------------------------------
(***************************************************************************)
(* Types.                                                                  *)
(***************************************************************************)
LEMMA TypesOfThreads ==
    ASSUME pc \in [Threads -> Labels], NEW t \in Threads, NEW l \in Labels, Goto(t, l)
    PROVE  pc' \in [Threads -> Labels]
BY DEF Goto

LEMMA TypesOfLocs ==
    ASSUME loc \in [Threads -> LocSet], NEW t \in Threads, NEW x \in LocSet,
           loc' = [loc EXCEPT ![t] = x]
    PROVE  loc' \in [Threads -> LocSet]
OBVIOUS

LEMMA TypeOfIdle == IdleLoc \in LocSet
BY DEF IdleLoc, LocSet

LEMMA FieldTypes ==
    ASSUME NEW s \in StateSet
    PROVE  /\ s.active \in Nat /\ s.background \in Nat /\ s.activeSince \in Nat
           /\ s.backgroundSince \in Nat /\ s.launchesSince \in Nat /\ s.sessions \in Nat
           /\ s.sessionsSince \in Nat /\ s.transition \in Nat
           /\ s.crashedLastLaunch \in BOOLEAN /\ s.crashedThisLaunch \in BOOLEAN
           /\ s.isActive \in BOOLEAN /\ s.inForeground \in BOOLEAN
BY DEF StateSet

\* What each helper leaves alone and what it sets.
LEMMA OfAddActive ==
    ASSUME NEW s \in StateSet, NEW d \in Nat
    PROVE  LET r == AddActive(s, d) IN
           /\ r \in StateSet
           /\ r.active = s.active + d /\ r.activeSince = s.activeSince + d
           /\ r.background = s.background /\ r.backgroundSince = s.backgroundSince
           /\ r.launchesSince = s.launchesSince /\ r.transition = s.transition
           /\ r.crashedLastLaunch = s.crashedLastLaunch
           /\ r.crashedThisLaunch = s.crashedThisLaunch
           /\ r.isActive = s.isActive /\ r.inForeground = s.inForeground
  <1>1. s.active + d \in Nat /\ s.activeSince + d \in Nat
    BY FieldTypes
  <1>2. \A x, y \in Nat : [s EXCEPT !.active = x, !.activeSince = y] \in StateSet
    BY DEF StateSet
  <1>3. AddActive(s, d) \in StateSet
    BY <1>1, <1>2 DEF AddActive
  <1> QED
    BY <1>3 DEF AddActive, StateSet

LEMMA OfAddBackground ==
    ASSUME NEW s \in StateSet, NEW d \in Nat
    PROVE  LET r == AddBackground(s, d) IN
           /\ r \in StateSet
           /\ r.background = s.background + d /\ r.backgroundSince = s.backgroundSince + d
           /\ r.active = s.active /\ r.activeSince = s.activeSince
           /\ r.launchesSince = s.launchesSince /\ r.transition = s.transition
           /\ r.crashedLastLaunch = s.crashedLastLaunch
           /\ r.crashedThisLaunch = s.crashedThisLaunch
           /\ r.isActive = s.isActive /\ r.inForeground = s.inForeground
  <1>1. s.background + d \in Nat /\ s.backgroundSince + d \in Nat
    BY FieldTypes
  <1>2. \A x, y \in Nat : [s EXCEPT !.background = x, !.backgroundSince = y] \in StateSet
    BY DEF StateSet
  <1>3. AddBackground(s, d) \in StateSet
    BY <1>1, <1>2 DEF AddBackground
  <1> QED
    BY <1>3 DEF AddBackground, StateSet

LEMMA OfStamped ==
    ASSUME NEW s \in StateSet, now \in Nat
    PROVE  LET r == Stamped(s) IN
           /\ r \in StateSet
           /\ r.active = s.active /\ r.activeSince = s.activeSince
           /\ r.background = s.background /\ r.backgroundSince = s.backgroundSince
           /\ r.launchesSince = s.launchesSince /\ r.transition = now
           /\ r.crashedLastLaunch = s.crashedLastLaunch
           /\ r.crashedThisLaunch = s.crashedThisLaunch
           /\ r.isActive = s.isActive /\ r.inForeground = s.inForeground
  <1>1. \A x \in Nat : [s EXCEPT !.transition = x] \in StateSet
    BY DEF StateSet
  <1> QED
    BY <1>1 DEF Stamped, StateSet

LEMMA OfLoad ==
    ASSUME NEW s \in StateSet, file \in FileSet
    PROVE  LET r == Load(s) IN
           /\ r \in StateSet
           /\ r.crashedLastLaunch = IF file.keys >= 2 THEN file.crashed
                                                      ELSE s.crashedLastLaunch
           /\ r.activeSince = IF file.keys >= 3 THEN file.active ELSE s.activeSince
           /\ r.backgroundSince = IF file.keys >= 4 THEN file.background
                                                    ELSE s.backgroundSince
           /\ r.launchesSince = IF file.keys >= 5 THEN file.launches ELSE s.launchesSince
           /\ r.active = s.active /\ r.background = s.background
           /\ r.transition = s.transition /\ r.isActive = s.isActive
  <1>1. Load(s) \in StateSet
    BY DEF Load, StateSet, FileSet
  <1> QED
    BY <1>1 DEF Load, StateSet, FileSet

LEMMA OfReset ==
    ASSUME NEW s \in StateSet
    PROVE  LET r == Reset(s) IN
           /\ r \in StateSet
           /\ r.active = 0 /\ r.background = 0 /\ r.inForeground = TRUE
           /\ r.crashedThisLaunch = FALSE
           /\ r.crashedLastLaunch = s.crashedLastLaunch
           /\ r.activeSince = IF s.crashedLastLaunch THEN 0 ELSE s.activeSince
           /\ r.backgroundSince = IF s.crashedLastLaunch THEN 0 ELSE s.backgroundSince
           /\ r.launchesSince = IF s.crashedLastLaunch THEN 1 ELSE s.launchesSince + 1
           /\ r.transition = s.transition /\ r.isActive = s.isActive
  <1> DEFINE c == Cleared(s)
  <1>1. /\ c \in StateSet
        /\ c.activeSince = IF s.crashedLastLaunch THEN 0 ELSE s.activeSince
        /\ c.backgroundSince = IF s.crashedLastLaunch THEN 0 ELSE s.backgroundSince
        /\ c.launchesSince = IF s.crashedLastLaunch THEN 0 ELSE s.launchesSince
        /\ c.transition = s.transition /\ c.isActive = s.isActive
        /\ c.crashedLastLaunch = s.crashedLastLaunch
    BY DEF Cleared, StateSet
  <1> HIDE DEF c
  <1> DEFINE R(x, y) == [c EXCEPT !.sessions = 1, !.active = 0, !.background = 0,
                                  !.crashedThisLaunch = FALSE, !.launchesSince = x,
                                  !.sessionsSince = y, !.inForeground = TRUE]
             m == c.launchesSince + 1
             n == c.sessionsSince + 1
  <1>2. m \in Nat /\ n \in Nat
    BY <1>1, FieldTypes
  <1>3. Reset(s) = R(m, n)
    BY DEF Reset, c
  <1> HIDE DEF m, n
  <1>4. /\ R(m, n) \in StateSet
        /\ R(m, n).active = 0 /\ R(m, n).background = 0 /\ R(m, n).inForeground = TRUE
        /\ R(m, n).crashedThisLaunch = FALSE /\ R(m, n).launchesSince = m
        /\ R(m, n).activeSince = c.activeSince
        /\ R(m, n).backgroundSince = c.backgroundSince
        /\ R(m, n).transition = c.transition /\ R(m, n).isActive = c.isActive
        /\ R(m, n).crashedLastLaunch = c.crashedLastLaunch
    BY <1>1, <1>2 DEF StateSet
  <1> HIDE DEF R
  <1> QED
    BY <1>1, <1>3, <1>4, FieldTypes DEF m

\* The parts of the state that no notification changes.
SameCounts(r, s) ==
    /\ r.launchesSince = s.launchesSince
    /\ r.crashedLastLaunch = s.crashedLastLaunch
    /\ r.crashedThisLaunch = s.crashedThisLaunch

LEMMA OfBecomeActive ==
    ASSUME NEW s \in StateSet, now \in Nat
    PROVE  LET r == Told(s, "becomeActive") IN
           /\ r \in StateSet /\ SameCounts(r, s)
           /\ r.isActive = TRUE /\ r.transition = now /\ r.inForeground = s.inForeground
           /\ r.active = s.active /\ r.activeSince = s.activeSince
           /\ r.background = s.background /\ r.backgroundSince = s.backgroundSince
  <1>1. Told(s, "becomeActive") = [s EXCEPT !.isActive = TRUE, !.transition = now]
    BY DEF Told
  <1> QED
    BY <1>1 DEF StateSet, SameCounts

LEMMA OfResignActive ==
    ASSUME NEW s \in StateSet, now \in Nat, s.transition <= now
    PROVE  LET r == Told(s, "resignActive")
               d == now - s.transition
           IN
           /\ r \in StateSet /\ SameCounts(r, s)
           /\ r.isActive = FALSE /\ r.transition = s.transition
           /\ r.inForeground = s.inForeground
           /\ r.active = s.active + d /\ r.activeSince = s.activeSince + d
           /\ r.background = s.background /\ r.backgroundSince = s.backgroundSince
  <1> DEFINE d == TimeSince(s.transition)
             onto == AddActive(s, d)
  <1>1. d = now - s.transition /\ d \in Nat
    BY FieldTypes DEF TimeSince
  <1>2. Told(s, "resignActive") = [onto EXCEPT !.isActive = FALSE]
    BY DEF Told
  <1> HIDE DEF d
  <1>3. /\ onto \in StateSet /\ SameCounts(onto, s)
        /\ onto.transition = s.transition /\ onto.inForeground = s.inForeground
        /\ onto.active = s.active + d /\ onto.activeSince = s.activeSince + d
        /\ onto.background = s.background /\ onto.backgroundSince = s.backgroundSince
    BY <1>1, OfAddActive DEF SameCounts
  <1> HIDE DEF onto
  <1> QED
    BY <1>1, <1>2, <1>3 DEF StateSet, SameCounts

LEMMA OfEnterForeground ==
    ASSUME NEW s \in StateSet, now \in Nat, s.transition <= now
    PROVE  LET r == Told(s, "enterForeground")
               d == now - s.transition
           IN
           /\ r \in StateSet /\ SameCounts(r, s)
           /\ r.inForeground = TRUE /\ r.transition = s.transition
           /\ r.isActive = s.isActive
           /\ r.background = s.background + d /\ r.backgroundSince = s.backgroundSince + d
           /\ r.active = s.active /\ r.activeSince = s.activeSince
  <1> DEFINE d == TimeSince(s.transition)
             back == AddBackground(s, d)
             m == back.sessions + 1
             n == back.sessionsSince + 1
  <1>1. d = now - s.transition /\ d \in Nat
    BY FieldTypes DEF TimeSince
  <1>2. Told(s, "enterForeground")
          = [back EXCEPT !.inForeground = TRUE, !.sessions = m, !.sessionsSince = n]
    BY DEF Told
  <1> HIDE DEF d
  <1>3. /\ back \in StateSet /\ SameCounts(back, s)
        /\ back.transition = s.transition /\ back.isActive = s.isActive
        /\ back.background = s.background + d
        /\ back.backgroundSince = s.backgroundSince + d
        /\ back.active = s.active /\ back.activeSince = s.activeSince
    BY <1>1, OfAddBackground DEF SameCounts
  <1> HIDE DEF back
  <1>4. m \in Nat /\ n \in Nat
    BY <1>3, FieldTypes
  <1> HIDE DEF m, n
  <1> QED
    BY <1>1, <1>2, <1>3, <1>4 DEF StateSet, SameCounts

LEMMA OfEnterBackground ==
    ASSUME NEW s \in StateSet, now \in Nat
    PROVE  LET r == Told(s, "enterBackground") IN
           /\ r \in StateSet /\ SameCounts(r, s)
           /\ r.inForeground = FALSE /\ r.transition = now /\ r.isActive = s.isActive
           /\ r.active = s.active /\ r.activeSince = s.activeSince
           /\ r.background = s.background /\ r.backgroundSince = s.backgroundSince
  <1> DEFINE stamped == Stamped(s)
  <1>1. Told(s, "enterBackground") = [stamped EXCEPT !.inForeground = FALSE]
    BY DEF Told
  <1>2. /\ stamped \in StateSet /\ SameCounts(stamped, s)
        /\ stamped.transition = now /\ stamped.isActive = s.isActive
        /\ stamped.active = s.active /\ stamped.activeSince = s.activeSince
        /\ stamped.background = s.background
        /\ stamped.backgroundSince = s.backgroundSince
    BY OfStamped DEF SameCounts
  <1> HIDE DEF stamped
  <1> QED
    BY <1>1, <1>2 DEF StateSet, SameCounts

LEMMA OfOtherTold ==
    ASSUME NEW s, NEW what, what \notin Notification
    PROVE  Told(s, what) = s
BY DEF Told, Notification

LEMMA OfTold ==
    ASSUME NEW s \in StateSet, now \in Nat, s.transition <= now, NEW what
    PROVE  LET r == Told(s, what) IN
           r \in StateSet /\ r.transition <= now /\ SameCounts(r, s)
  <1>1. CASE what \in Notification
    <2>0. now <= now
      OBVIOUS
    <2>1. CASE what = "becomeActive"
      BY <2>0, <2>1, OfBecomeActive
    <2>2. CASE what = "resignActive"
      BY <2>2, OfResignActive
    <2>3. CASE what = "enterForeground"
      BY <2>3, OfEnterForeground
    <2>4. CASE what = "enterBackground"
      BY <2>0, <2>4, OfEnterBackground
    <2> QED
      BY <1>1, <2>1, <2>2, <2>3, <2>4 DEF Notification
  <1>2. CASE what \notin Notification
    BY <1>2, OfOtherTold DEF SameCounts
  <1> QED
    BY <1>1, <1>2

LEMMA OfCounted ==
    ASSUME NEW s \in StateSet, NEW d \in Nat, NEW b \in BOOLEAN
    PROVE  LET r == [Counted(s, d) EXCEPT !.crashedThisLaunch = @ \/ b]
               onActive == IF s.isActive THEN d ELSE 0
               onBackground == IF ~s.isActive /\ ~s.inForeground THEN d ELSE 0
           IN
           /\ r \in StateSet
           /\ r.active = s.active + onActive /\ r.activeSince = s.activeSince + onActive
           /\ r.background = s.background + onBackground
           /\ r.backgroundSince = s.backgroundSince + onBackground
           /\ r.launchesSince = s.launchesSince /\ r.transition = s.transition
           /\ r.crashedLastLaunch = s.crashedLastLaunch
           /\ r.crashedThisLaunch <=> s.crashedThisLaunch \/ b
           /\ r.isActive = s.isActive /\ r.inForeground = s.inForeground
  <1> DEFINE c == Counted(s, d)
             onActive == IF s.isActive THEN d ELSE 0
             onBackground == IF ~s.isActive /\ ~s.inForeground THEN d ELSE 0
  <1>1. /\ c \in StateSet
        /\ c.active = s.active + onActive /\ c.activeSince = s.activeSince + onActive
        /\ c.background = s.background + onBackground
        /\ c.backgroundSince = s.backgroundSince + onBackground
        /\ c.launchesSince = s.launchesSince /\ c.transition = s.transition
        /\ c.crashedLastLaunch = s.crashedLastLaunch
        /\ c.crashedThisLaunch = s.crashedThisLaunch
        /\ c.isActive = s.isActive /\ c.inForeground = s.inForeground
    <2>0. /\ s.active + 0 = s.active /\ s.activeSince + 0 = s.activeSince
          /\ s.background + 0 = s.background /\ s.backgroundSince + 0 = s.backgroundSince
      BY FieldTypes
    <2>1. CASE s.isActive
      <3>1. c = AddActive(s, d) /\ onActive = d /\ onBackground = 0
        BY <2>1 DEF Counted
      <3> HIDE DEF c, onActive, onBackground
      <3> QED
        BY <2>0, <3>1, OfAddActive
    <2>2. CASE ~s.isActive /\ ~s.inForeground
      <3>1. c = AddBackground(s, d) /\ onActive = 0 /\ onBackground = d
        BY <2>2 DEF Counted
      <3> HIDE DEF c, onActive, onBackground
      <3> QED
        BY <2>0, <3>1, OfAddBackground
    <2>3. CASE ~s.isActive /\ s.inForeground
      <3>1. c = s /\ onActive = 0 /\ onBackground = 0
        BY <2>3 DEF Counted
      <3> HIDE DEF c, onActive, onBackground
      <3> QED
        BY <2>0, <3>1
    <2> QED
      BY <2>1, <2>2, <2>3
  <1> HIDE DEF c, onActive, onBackground
  <1> DEFINE f == (c.crashedThisLaunch \/ b)
             r == [c EXCEPT !.crashedThisLaunch = f]
  <1>2. f \in BOOLEAN /\ f = (s.crashedThisLaunch \/ b)
    BY <1>1, FieldTypes
  <1> HIDE DEF f
  <1>3. /\ r \in StateSet /\ r.crashedThisLaunch = f
        /\ r.active = c.active /\ r.activeSince = c.activeSince
        /\ r.background = c.background /\ r.backgroundSince = c.backgroundSince
        /\ r.launchesSince = c.launchesSince /\ r.transition = c.transition
        /\ r.crashedLastLaunch = c.crashedLastLaunch
        /\ r.isActive = c.isActive /\ r.inForeground = c.inForeground
    BY <1>1, <1>2 DEF StateSet
  <1> HIDE DEF r
  <1>4. r = [Counted(s, d) EXCEPT !.crashedThisLaunch = @ \/ b]
    BY DEF r, c, f
  <1> QED
    BY <1>1, <1>2, <1>3, <1>4 DEF onActive, onBackground

LEMMA TypeOfSaved ==
    ASSUME state \in StateSet
    PROVE  Saved(state) \in FileSet /\ Saved(state).keys = Keys
BY DEF Saved, SavedFlag, StateSet, FileSet, Keys

LEMMA TypeOfLoaded ==
    ASSUME now \in Nat
    PROVE  LoadedState \in StateSet /\ LoadedState.transition = now
BY DEF LoadedState, StateSet

LEMMA TypeInit == Init => TypeInv
  <1> SUFFICES ASSUME Init PROVE TypeInv
    OBVIOUS
  <1>1. now = 0
    BY DEF Init
  <1>2. state \in StateSet /\ state.transition <= now
    BY <1>1, TypeOfLoaded DEF Init
  <1>3. FirstPhase \in Phases
    BY AppStateAssumption DEF Phases
  <1>4. loc \in [Threads -> LocSet] /\ pc \in [Threads -> Labels]
    BY TypeOfIdle DEF Init, Labels
  <1>5. file \in FileSet
    BY DEF Init, FileSet
  <1>6. /\ NoTime \in [Phases -> Nat]
        /\ [time |-> NoTime, launches |-> 0] \in [time: [Phases -> Nat], launches: Nat]
    BY DEF NoTime
  <1> QED
    BY <1>1, <1>2, <1>3, <1>4, <1>5, <1>6 DEF Init, TypeInv, Notes

LEMMA MainIsThread == Main \in Threads
BY DEF Threads

LEMMA TypeNotify ==
    ASSUME TypeInv, NEW what \in Notification, Notify(what)
    PROVE  /\ state' \in StateSet /\ state'.transition <= now
           /\ phase' \in Phases /\ pc' \in [Threads -> Labels]
  <1>1. phase' \in Phases
    BY DEF Notify, NextPhase, Notification, Phases
  <1>2. CASE enabled
    BY <1>1, <1>2, OfTold, TypesOfThreads, MainIsThread DEF Notify, TypeInv, Labels
  <1>3. CASE ~enabled
    BY <1>1, <1>3 DEF Notify, TypeInv
  <1> QED
    BY <1>1, <1>2, <1>3

LEMMA TypeStep == TypeInv /\ [Next]_vars => TypeInv'
  <1> SUFFICES ASSUME TypeInv, [Next]_vars PROVE TypeInv'
    OBVIOUS
  <1> USE MainIsThread, TypesOfThreads, TypesOfLocs, TypeOfIdle
  <1>1. ASSUME NEW what \in Notification, Notify(what), UNCHANGED alone PROVE TypeInv'
    BY <1>1, TypeNotify DEF Notify, TypeInv, processVars, historyVars
  <1>2. ASSUME Terminate, UNCHANGED alone PROVE TypeInv'
    <2>1. [IdleLoc EXCEPT !.job = "terminate"] \in LocSet
      BY DEF IdleLoc, LocSet
    <2> QED
      BY <1>2, <2>1 DEF Terminate, TypeInv, Labels, threadVars, historyVars
  <1>3. ASSUME Install, UNCHANGED alone PROVE TypeInv'
    <2>1. [IdleLoc EXCEPT !.job = "install"] \in LocSet
      BY DEF IdleLoc, LocSet
    <2>2. state' \in StateSet /\ state'.transition <= now
      <3>1. Load(state) \in StateSet /\ Load(state).transition = state.transition
        BY OfLoad DEF TypeInv
      <3>2. state' = Reset(Load(state))
        BY <1>3 DEF Install
      <3> QED
        BY <3>1, <3>2, OfReset DEF TypeInv
    <2>3. realSince' \in [time: [Phases -> Nat], launches: Nat]
      BY <1>3 DEF Install, TypeInv
    <2>4. pc' \in [Threads -> Labels] /\ loc' \in [Threads -> LocSet]
      BY <1>3, <2>1 DEF Install, TypeInv, Labels
    <2> QED
      BY <1>3, <2>2, <2>3, <2>4 DEF Install, TypeInv, processVars
  <1>4. ASSUME Replay, UNCHANGED alone PROVE TypeInv'
    <2>1. state' \in StateSet /\ state'.transition <= now
      BY <1>4, OfTold DEF Replay, TypeInv
    <2>2. pc' \in [Threads -> Labels] /\ loc' \in [Threads -> LocSet]
      BY <1>4 DEF Replay, TypeInv, Labels
    <2> QED
      BY <1>4, <2>1, <2>2 DEF Replay, TypeInv, appVars, processVars, historyVars
  <1>5. ASSUME Disable \/ Enable, UNCHANGED alone PROVE TypeInv'
    <2>1. state' \in StateSet /\ state'.transition <= now
      BY <1>5, OfReset DEF Disable, Enable, TypeInv
    <2>2. pc' \in [Threads -> Labels] /\ loc' \in [Threads -> LocSet]
      BY <1>5 DEF Disable, Enable, TypeInv, Labels, threadVars
    <2> QED
      BY <1>5, <2>1, <2>2 DEF Disable, Enable, TypeInv, appVars, processVars, historyVars
  <1>6. ASSUME NEW t \in Threads, NEW job \in Jobs, Report(t, job), UNCHANGED alone
        PROVE  TypeInv'
    <2>1. [job |-> job, duration |-> 0, again |-> job # "snapshot"] \in LocSet
      BY DEF LocSet
    <2> QED
      BY <1>6, <2>1 DEF Report, TypeInv, Labels, appVars, historyVars
  <1>7. ASSUME NEW t \in Threads, UpdateRead(t), UNCHANGED alone PROVE TypeInv'
    <2>1. TimeSince(state.transition) \in Nat
      BY FieldTypes DEF TypeInv, TimeSince
    <2>2. [loc[t] EXCEPT !.duration = TimeSince(state.transition)] \in LocSet
      BY <2>1 DEF TypeInv, LocSet
    <2>3. loc' \in [Threads -> LocSet]
      BY <1>7, <2>2 DEF UpdateRead, TypeInv
    <2> QED
      BY <1>7, <2>3 DEF UpdateRead, TypeInv, Labels, appVars, processVars, historyVars
  <1>8. ASSUME NEW t \in Threads, UpdateStamp(t), UNCHANGED alone PROVE TypeInv'
    <2>1. state' \in StateSet /\ state'.transition <= now
      BY <1>8, OfStamped DEF UpdateStamp, TypeInv
    <2> QED
      BY <1>8, <2>1 DEF UpdateStamp, TypeInv, Labels, appVars, processVars, historyVars
  <1>9. ASSUME NEW t \in Threads, UpdateAdd(t), UNCHANGED alone PROVE TypeInv'
    <2>1. loc[t].duration \in Nat
      BY DEF TypeInv, LocSet
    <2>2. state' \in StateSet /\ state'.transition = state.transition
      <3>1. PICK b \in BOOLEAN :
              state' = [Counted(state, loc[t].duration) EXCEPT !.crashedThisLaunch = @ \/ b]
        BY <1>9 DEF UpdateAdd
      <3> QED
        BY <2>1, <3>1, OfCounted DEF TypeInv
    <2>3. [loc[t] EXCEPT !.again = FALSE] \in LocSet
      BY DEF TypeInv, LocSet
    <2>4. pc' \in [Threads -> Labels] /\ loc' \in [Threads -> LocSet]
      BY <1>9, <2>3 DEF UpdateAdd, TypeInv, Labels
    <2>5. noted' \in Notes
      BY <1>9 DEF UpdateAdd, TypeInv, Notes
    <2> QED
      BY <1>9, <2>2, <2>4, <2>5 DEF UpdateAdd, TypeInv, appVars, processVars
  <1>10. ASSUME NEW t \in Threads, Truncate(t), UNCHANGED alone PROVE TypeInv'
    <2>1. file' \in FileSet
      BY <1>10 DEF Truncate, TypeInv, FileSet
    <2> QED
      BY <1>10, <2>1 DEF Truncate, TypeInv, Labels, appVars, processVars, historyVars
  <1>11. ASSUME NEW t \in Threads, Write(t), UNCHANGED alone PROVE TypeInv'
    <2>1. pc' \in [Threads -> Labels] /\ loc' \in [Threads -> LocSet]
      BY <1>11 DEF Write, TypeInv, Labels
    <2> QED
      BY <1>11, <2>1, TypeOfSaved DEF Write, TypeInv, appVars, Notes
  <1>12. ASSUME Kill, UNCHANGED alone PROVE TypeInv'
    <2>1. \A k \in 0 .. Keys - 1 : [Saved(state) EXCEPT !.keys = k] \in FileSet
      BY TypeOfSaved DEF TypeInv, FileSet, Keys
    <2>2. file' \in FileSet
      BY <1>12, <2>1 DEF Kill, TypeInv
    <2> QED
      BY <1>12, <2>2 DEF Kill, TypeInv, appVars, threadVars
  <1>13. ASSUME Launch, UNCHANGED alone PROVE TypeInv'
    <2>1. state' \in StateSet /\ state'.transition <= now
      BY <1>13, TypeOfLoaded DEF Launch, TypeInv
    <2>2. pc' \in [Threads -> Labels] /\ loc' \in [Threads -> LocSet]
      BY <1>13 DEF Launch, Labels
    <2>3. phase' \in Phases /\ real' \in [Phases -> Nat]
      BY <1>13, AppStateAssumption DEF Launch, NoTime, Phases
    <2> QED
      BY <1>13, <2>1, <2>2, <2>3 DEF Launch, TypeInv, Notes
  <1>14. ASSUME Tick, UNCHANGED alone PROVE TypeInv'
    <2>1. real' \in [Phases -> Nat] /\ now' \in Nat /\ state'.transition <= now'
      BY <1>14, FieldTypes DEF Tick, TypeInv, threadVars
    <2>2. realSince' \in [time: [Phases -> Nat], launches: Nat]
      BY <1>14 DEF Tick, TypeInv
    <2> QED
      BY <1>14, <2>1, <2>2 DEF Tick, TypeInv, appVars, processVars, threadVars
  <1>15. ASSUME UNCHANGED vars PROVE TypeInv'
    BY <1>15 DEF TypeInv, vars, appVars, processVars, threadVars, historyVars
  <1> QED
    BY <1>1, <1>2, <1>3, <1>4, <1>5, <1>6, <1>7, <1>8, <1>9, <1>10, <1>11, <1>12, <1>13,
       <1>14, <1>15 DEF Next, Step, Over

-----------------------------------------------------------------------------
(***************************************************************************)
(* The crash flag, for all applications.                                    *)
(***************************************************************************)
LEMMA FlagInit == Init => FlagInv
BY DEF Init, FlagInv, LoadedState

LEMMA FlagStep == TypeInv /\ FlagInv /\ [Next]_vars => FlagInv'
  <1> SUFFICES ASSUME TypeInv, FlagInv, [Next]_vars PROVE FlagInv'
    OBVIOUS
  <1> USE MainIsThread
  <1>0. /\ pc \in [Threads -> Labels] /\ loc \in [Threads -> LocSet]
        /\ state \in StateSet /\ state.transition <= now /\ now \in Nat /\ file \in FileSet
    BY DEF TypeInv
  <1>1. ASSUME NEW what \in Notification, Notify(what) PROVE FlagInv'
    <2>1. /\ UNCHANGED <<file, noted, lastNoted, installed, enabled, loc>>
          /\ pc[Main] = "idle"
      BY <1>1 DEF Notify, At, historyVars
    <2>2. ~enabled => pc' = pc /\ state' = state
      BY <1>1 DEF Notify
    <2>3. SameCounts(state', state)
      BY <1>0, <1>1, <2>2, OfTold DEF Notify, SameCounts
    <2>4. LeftFile => ~installed
      BY <2>1 DEF LeftFile
    <2> QED
      BY <2>1, <2>2, <2>3, <2>4 DEF FlagInv, LeftFile, SameCounts
  <1>2. ASSUME Terminate PROVE FlagInv'
    <2>1. /\ UNCHANGED <<file, noted, lastNoted, installed, enabled, state>>
          /\ pc[Main] = "idle" /\ pc'[Main] # "truncate"
          /\ ~enabled => pc' = pc
      BY <1>0, <1>2 DEF Terminate, At, Goto, historyVars, threadVars
    <2> QED
      BY <2>1 DEF FlagInv, LeftFile
  <1>3. ASSUME Install PROVE FlagInv'
    <2>1. /\ ~installed /\ installed' = TRUE /\ UNCHANGED <<file, noted, lastNoted>>
          /\ state' = Reset(Load(state))
      BY <1>3 DEF Install
    <2>2. pc'[Main] = "truncate" /\ loc'[Main].job = "install"
      BY <1>0, <1>3 DEF Install, Goto, IdleLoc
    <2>3. /\ state'.crashedThisLaunch = FALSE
          /\ state'.crashedLastLaunch => file.keys >= 2 /\ file.crashed
      BY <1>0, <2>1, OfLoad, OfReset DEF FlagInv
    <2>4. LeftFile /\ LeftFile'
      BY <2>1, <2>2 DEF LeftFile, FlagInv
    <2> QED
      BY <2>1, <2>3, <2>4 DEF FlagInv
  <1>4. ASSUME Replay PROVE FlagInv'
    <2>1. /\ UNCHANGED <<file, noted, lastNoted, installed, enabled>> /\ installed
          /\ pc[Main] = "replay" /\ loc'[Main].job = "none"
      BY <1>0, <1>4 DEF Replay, At, appVars, historyVars, IdleLoc, FlagInv
    <2>2. SameCounts(state', state)
      BY <1>0, <1>4, OfTold DEF Replay
    <2> QED
      BY <2>1, <2>2 DEF FlagInv, LeftFile, SameCounts
  <1>5. ASSUME Disable PROVE FlagInv'
    BY <1>5 DEF Disable, FlagInv, LeftFile, threadVars, appVars, historyVars
  <1>6. ASSUME Enable PROVE FlagInv'
    <2>1. /\ UNCHANGED <<file, noted, lastNoted, installed, loc>> /\ installed
          /\ pc[Main] = "idle"
      BY <1>6 DEF Enable, At, appVars, historyVars
    <2>2. /\ state'.crashedThisLaunch = FALSE
          /\ state'.crashedLastLaunch = state.crashedLastLaunch
      BY <1>0, <1>6, OfReset DEF Enable
    <2> QED
      BY <2>1, <2>2 DEF FlagInv, LeftFile
  <1>7. ASSUME NEW t \in Threads, NEW job \in Jobs, Report(t, job) PROVE FlagInv'
    <2>1. /\ UNCHANGED <<file, noted, lastNoted, installed, enabled, state>> /\ installed
          /\ pc[t] = "idle" /\ pc'[t] = "read"
          /\ t # Main => pc'[Main] = pc[Main] /\ loc'[Main] = loc[Main]
      BY <1>0, <1>7 DEF Report, At, Goto, appVars, historyVars, FlagInv
    <2> QED
      BY <2>1 DEF FlagInv, LeftFile
  <1>8. ASSUME NEW t \in Threads, UpdateRead(t) \/ UpdateStamp(t) PROVE FlagInv'
    <2>1. /\ UNCHANGED <<file, noted, lastNoted, installed, enabled>> /\ installed
          /\ pc[t] \in {"read", "stamp"} /\ pc'[t] \in {"stamp", "add"}
          /\ t # Main => pc'[Main] = pc[Main] /\ loc'[Main] = loc[Main]
      BY <1>0, <1>8 DEF UpdateRead, UpdateStamp, At, Goto, appVars, historyVars, FlagInv
    <2>2. SameCounts(state', state)
      BY <1>0, <1>8, OfStamped DEF UpdateRead, UpdateStamp, SameCounts
    <2> QED
      BY <2>1, <2>2 DEF FlagInv, LeftFile, SameCounts
  <1>9. ASSUME NEW t \in Threads, UpdateAdd(t) PROVE FlagInv'
    <2>1. /\ UNCHANGED <<file, lastNoted, installed, enabled>> /\ installed
          /\ pc[t] = "add"
          /\ t # Main => pc'[Main] = pc[Main] /\ loc'[Main] = loc[Main]
      BY <1>0, <1>9 DEF UpdateAdd, At, Goto, appVars, FlagInv
    <2> DEFINE notes == loc[t].job \in {"report", "crash"} /\ ~loc[t].again
    <2>2. /\ state' = [Counted(state, loc[t].duration) EXCEPT !.crashedThisLaunch = @ \/ notes]
          /\ noted' = IF notes /\ noted = "no" THEN "begun" ELSE noted
          /\ Goto(t, IF notes \/ loc[t].job = "terminate" THEN "truncate"
                     ELSE IF loc[t].again THEN "read" ELSE "idle")
      BY <1>9 DEF UpdateAdd
    <2>3. loc[t].duration \in Nat /\ notes \in BOOLEAN
      BY <1>0 DEF LocSet
    <2>4. /\ state'.crashedLastLaunch = state.crashedLastLaunch
          /\ state'.crashedThisLaunch <=> state.crashedThisLaunch \/ notes
      <3> HIDE DEF notes
      <3> QED
        BY <1>0, <2>2, <2>3, OfCounted
    <2>5. LeftFile => LeftFile' \/ noted' # "no"
      BY <2>1, <2>2 DEF LeftFile
    <2>6. ~LeftFile /\ LeftFile' => ~CrashOnFile
      BY <2>1, <2>2 DEF LeftFile, FlagInv, CrashOnFile
    <2> QED
      BY <2>1, <2>2, <2>4, <2>5, <2>6 DEF FlagInv, CrashOnFile
  <1>10. ASSUME NEW t \in Threads, Truncate(t) PROVE FlagInv'
    <2>1. /\ UNCHANGED <<noted, lastNoted, installed, enabled, state>> /\ installed
          /\ file' = [file EXCEPT !.keys = 0]
      BY <1>0, <1>10 DEF Truncate, At, appVars, historyVars, FlagInv
    <2>2. file'.keys = 0
      BY <1>0, <2>1 DEF FileSet
    <2> QED
      BY <2>1, <2>2 DEF FlagInv
  <1>11. ASSUME NEW t \in Threads, Write(t) PROVE FlagInv'
    <2>1. /\ UNCHANGED <<lastNoted, installed, enabled, state>> /\ installed
          /\ noted # "no" => noted' # "no"
          /\ file' = Saved(state)
      BY <1>0, <1>11 DEF Write, At, appVars, FlagInv
    <2>2. file'.crashed => state.crashedThisLaunch
      BY <2>1 DEF Saved, SavedFlag
    <2> QED
      BY <2>1, <2>2 DEF FlagInv, LeftFile
  <1>12. ASSUME Kill PROVE FlagInv'
    <2>1. UNCHANGED <<noted, lastNoted, installed, enabled, state, pc, loc>>
      BY <1>12 DEF Kill, appVars, threadVars
    <2>2. CASE file' = file
      BY <2>1, <2>2 DEF FlagInv, LeftFile
    <2>3. CASE \E t \in Threads, k \in 0 .. Keys - 1 :
                 pc[t] = "write" /\ file' = [Saved(state) EXCEPT !.keys = k]
      <3>1. installed
        BY <2>3 DEF FlagInv
      <3>2. file'.crashed => state.crashedThisLaunch
        BY <2>3 DEF Saved, SavedFlag
      <3> QED
        BY <2>1, <3>1, <3>2 DEF FlagInv, LeftFile
    <2> QED
      BY <1>12, <2>2, <2>3 DEF Kill
  <1>13. ASSUME Launch PROVE FlagInv'
    <2>1. /\ installed' = FALSE /\ enabled' = FALSE /\ noted' = "no" /\ file' = file
          /\ lastNoted' = IF LeftFile THEN lastNoted ELSE noted
          /\ pc' = [t \in Threads |-> "idle"] /\ state' = LoadedState
      BY <1>13 DEF Launch
    <2> QED
      BY <2>1 DEF FlagInv, LeftFile, LoadedState
  <1>14. ASSUME Tick PROVE FlagInv'
    BY <1>14 DEF Tick, FlagInv, LeftFile, appVars, processVars, threadVars
  <1>15. ASSUME UNCHANGED vars PROVE FlagInv'
    BY <1>15 DEF FlagInv, LeftFile, vars, appVars, threadVars, historyVars
  <1> QED
    BY <1>1, <1>2, <1>3, <1>4, <1>5, <1>6, <1>7, <1>8, <1>9, <1>10, <1>11, <1>12, <1>13,
       <1>14, <1>15 DEF Next, Step, Over

\* A launch takes the one before for a crashed one only after a report of that launch, in
\* every application: whichever threads report or save at the same time, wherever a save is
\* cut off, and however often the monitor is disabled and enabled (loadState, saveState).
THEOREM FlagNeedsReport == Spec => []FlagOnlyAfterReport
  <1>1. Init => TypeInv /\ FlagInv
    BY TypeInit, FlagInit
  <1>2. TypeInv /\ FlagInv /\ [Next]_vars => (TypeInv /\ FlagInv)'
    BY TypeStep, FlagStep
  <1>3. FlagInv => FlagOnlyAfterReport
    BY DEF FlagInv, FlagOnlyAfterReport
  <1> QED
    BY <1>1, <1>2, <1>3, PTL DEF Spec

-----------------------------------------------------------------------------
(***************************************************************************)
(* The durations and the file, where the main thread alone reports.         *)
(***************************************************************************)
Inv == TypeInv /\ FlagInv /\ (alone => JobInv /\ DurationInv /\ FileInv /\ ExactInv)

\* What a step is proved from: the invariants, in an application of that kind.
AloneNow == alone /\ TypeInv /\ FlagInv /\ JobInv /\ DurationInv /\ FileInv /\ ExactInv

LEMMA Fields ==
    ASSUME TypeInv
    PROVE  /\ now \in Nat /\ now - state.transition \in Nat
           /\ pc[Main] \in Labels /\ loc[Main].duration \in Nat
           /\ state.active \in Nat /\ state.background \in Nat /\ state.activeSince \in Nat
           /\ state.backgroundSince \in Nat /\ state.launchesSince \in Nat
           /\ state.transition \in Nat /\ state.transition <= now
           /\ file.keys \in Nat /\ file.active \in Nat /\ file.background \in Nat
           /\ file.launches \in Nat /\ file.crashed \in BOOLEAN
           /\ \A p \in Phases : real[p] \in Nat /\ realSince.time[p] \in Nat
           /\ realSince.launches \in Nat
           /\ state.isActive \in BOOLEAN /\ state.inForeground \in BOOLEAN
           /\ state.crashedThisLaunch \in BOOLEAN /\ state.crashedLastLaunch \in BOOLEAN
  <1>1. pc[Main] \in Labels /\ loc[Main] \in LocSet
    BY MainIsThread DEF TypeInv
  <1>2. loc[Main].duration \in Nat
    BY <1>1 DEF LocSet
  <1>3. now - state.transition \in Nat
    BY FieldTypes DEF TypeInv
  <1>4. /\ file.keys \in Nat /\ file.active \in Nat /\ file.background \in Nat
        /\ file.launches \in Nat /\ file.crashed \in BOOLEAN
    BY DEF TypeInv, FileSet
  <1>5. /\ \A p \in Phases : real[p] \in Nat /\ realSince.time[p] \in Nat
        /\ realSince.launches \in Nat
    BY DEF TypeInv
  <1> QED
    BY <1>1, <1>2, <1>3, <1>4, <1>5, FieldTypes DEF TypeInv

LEMMA FieldsNow ==
    ASSUME TypeInv
    PROVE  /\ real["active"] \in Nat /\ real["launching"] \in Nat
           /\ real["background"] \in Nat /\ real["inactive"] \in Nat
           /\ realSince.time["active"] \in Nat /\ realSince.time["launching"] \in Nat
           /\ realSince.time["background"] \in Nat
           /\ CountedNow \in Nat /\ Active \in Nat /\ Background \in Nat
BY Fields DEF Phases, CountedNow, Active, Background, Extra

LEMMA OnlyMain ==
    ASSUME JobInv, NEW t \in Threads, pc[t] # "idle"
    PROVE  t = Main
BY DEF JobInv, Threads

AloneParts == JobInv /\ DurationInv /\ FileInv /\ ExactInv

\* A step that leaves what was counted, the file and the history alone.
LEMMA CountsKept ==
    ASSUME AloneNow,
           UNCHANGED <<now, phase, installed, enabled, state, file, real, realSince, noted,
                       lastNoted, cut>>,
           JobInv', pc'[Main] = "stamp" => loc'[Main].duration = now - state.transition,
           pc'[Main] # "add", pc[Main] # "add",
           ~alive' => ~alive \/ ~Saving', ~alive => Saving' = Saving,
           Saving => Saving' 
    PROVE  AloneParts'
  <1>1. Active' = Active /\ Background' = Background
    BY DEF Active, Background, CountedNow, Extra
  <1>2. DurationInv'
    BY <1>1 DEF AloneNow, DurationInv, RealActive
  <1>3. FileInv'
    BY <1>1 DEF AloneNow, FileInv, RealActive, Unloaded
  <1>4. ExactInv'
    BY DEF AloneNow, ExactInv, CrashOnFile, LaunchesOnFile
  <1> QED
    BY <1>2, <1>3, <1>4 DEF AloneParts

LEMMA AloneNotify ==
    ASSUME AloneNow, NEW what \in Notification, Notify(what), UNCHANGED alone
    PROVE  AloneParts'
  <1>1. /\ pc[Main] = "idle" /\ loc' = loc /\ UNCHANGED <<now, installed, enabled, file>>
        /\ UNCHANGED <<real, realSince, noted, lastNoted, cut, alive>>
        /\ phase' = NextPhase(what) /\ lastTold' = what /\ MayFollow(what)
    BY DEF Notify, At, historyVars, processVars
  <1>2. phase' # "launching" /\ (phase' = "background" <=> what = "enterBackground")
    BY <1>1 DEF NextPhase, Notification
  <1>3. pc' = [pc EXCEPT ![Main] = IF enabled /\ what = "enterBackground" THEN "truncate"
                                                                         ELSE "idle"]
    BY <1>1 DEF Notify, Goto, AloneNow, TypeInv
  <1>4. pc'[Main] = IF enabled /\ what = "enterBackground" THEN "truncate" ELSE "idle"
    BY <1>3, MainIsThread DEF AloneNow, TypeInv
  <1>5. SameCounts(state', state) /\ (~enabled => state' = state)
    BY <1>1, OfTold DEF Notify, AloneNow, TypeInv, SameCounts
  <1>6. JobInv'
    <2>1. \A t \in Others : pc'[t] = "idle"
      BY <1>3, AppStateAssumption DEF AloneNow, JobInv, TypeInv, Threads
    <2> QED
      BY <1>1, <1>2, <1>4, <1>5, <2>1 DEF AloneNow, JobInv, Saving, Installing, Reporting,
         SameCounts
  <1>7. DurationInv' /\ FileInv'
    <2>1. CASE ~enabled
      BY <1>1, <1>2, <1>4, <1>5, <2>1
         DEF AloneNow, JobInv, DurationInv, FileInv, RealActive, Unloaded
    <2>2. CASE enabled
      <3>1. state' = Told(state, what) /\ installed /\ Extra = 0 /\ Extra' = 0
        BY <1>1, <1>4, <2>2 DEF Notify, AloneNow, FlagInv, Extra
      <3>2. CASE what = "becomeActive"
        <4>1. phase \in {"launching", "inactive"} /\ phase' = "active"
          BY <1>1, <3>2 DEF MayFollow, NextPhase
        <4>2. /\ state'.isActive = TRUE /\ state'.transition = now
              /\ state'.inForeground = state.inForeground
              /\ state'.active = state.active /\ state'.activeSince = state.activeSince
              /\ state'.background = state.background
              /\ state'.backgroundSince = state.backgroundSince
          BY <3>1, <3>2, OfBecomeActive DEF AloneNow, TypeInv
        <4>3. /\ Active' = 0 /\ Background' = 0 /\ Background = 0 /\ Active \in Nat
              /\ phase = "inactive" => Active = 0
          <5>1. CountedNow' = 0
            BY <1>1, <3>1, <4>2, Fields DEF CountedNow, AloneNow
          <5>2. state.inForeground
            BY <3>1, <4>1 DEF AloneNow, DurationInv
          <5>3. Active' = 0 /\ Background' = 0
            BY <4>2, <5>1 DEF Active, Background
          <5>4. Background = 0
            BY <5>2 DEF Background
          <5>5. Active \in Nat
            BY FieldsNow DEF AloneNow
          <5>6. phase = "inactive" => Active = 0
            BY <3>1 DEF AloneNow, DurationInv, Active
          <5> QED
            BY <5>3, <5>4, <5>5, <5>6
        <4>4. DurationInv'
          BY <1>1, <1>4, <3>1, <4>1, <4>2, <4>3, Fields, FieldsNow
             DEF AloneNow, DurationInv, RealActive
        <4>5. FileInv'
          BY <1>1, <1>5, <3>1, <4>2, <4>3, Fields, FieldsNow
             DEF AloneNow, FileInv, RealActive, Unloaded, SameCounts
        <4> QED
          BY <4>4, <4>5
      <3>3. CASE what = "resignActive"
        <4>1. phase = "active" /\ phase' = "inactive"
          BY <1>1, <3>3 DEF MayFollow, NextPhase
        <4>2. /\ state'.isActive = FALSE /\ state'.transition = state.transition
              /\ state'.inForeground = state.inForeground
              /\ state'.active = state.active + (now - state.transition)
              /\ state'.activeSince = state.activeSince + (now - state.transition)
              /\ state'.background = state.background
              /\ state'.backgroundSince = state.backgroundSince
          BY <3>1, <3>3, OfResignActive DEF AloneNow, TypeInv
        <4> QED
          BY <1>1, <1>4, <1>5, <3>1, <4>1, <4>2, Fields, FieldsNow
             DEF AloneNow, DurationInv, FileInv, RealActive, Unloaded, Active, Background,
                 CountedNow, SameCounts
      <3>4. CASE what = "enterForeground"
        <4>1. phase = "background" /\ phase' = "inactive"
          BY <1>1, <3>4 DEF MayFollow, NextPhase
        <4>2. /\ state'.inForeground = TRUE /\ state'.transition = state.transition
              /\ state'.isActive = state.isActive
              /\ state'.background = state.background + (now - state.transition)
              /\ state'.backgroundSince = state.backgroundSince + (now - state.transition)
              /\ state'.active = state.active /\ state'.activeSince = state.activeSince
          BY <3>1, <3>4, OfEnterForeground DEF AloneNow, TypeInv
        <4> QED
          BY <1>1, <1>4, <1>5, <3>1, <4>1, <4>2, Fields, FieldsNow
             DEF AloneNow, DurationInv, FileInv, RealActive, Unloaded, Active, Background,
                 CountedNow, SameCounts
      <3>5. CASE what = "enterBackground"
        <4>1. phase = "inactive" /\ phase' = "background"
          BY <1>1, <3>5 DEF MayFollow, NextPhase
        <4>2. /\ state'.inForeground = FALSE /\ state'.transition = now
              /\ state'.isActive = state.isActive
              /\ state'.active = state.active /\ state'.activeSince = state.activeSince
              /\ state'.background = state.background
              /\ state'.backgroundSince = state.backgroundSince
          BY <3>1, <3>5, OfEnterBackground DEF AloneNow, TypeInv
        <4> QED
          BY <1>1, <1>4, <1>5, <3>1, <4>1, <4>2, Fields, FieldsNow
             DEF AloneNow, DurationInv, FileInv, RealActive, Unloaded, Active, Background,
                 CountedNow, SameCounts
      <3> QED
        BY <3>2, <3>3, <3>4, <3>5 DEF Notification
    <2> QED
      BY <2>1, <2>2
  <1>8. ExactInv'
    BY <1>1, <1>4, <1>5
       DEF AloneNow, ExactInv, CrashOnFile, LaunchesOnFile, Saving, SameCounts, At, Running,
           Notify
  <1> QED
    BY <1>6, <1>7, <1>8 DEF AloneParts

\* A step of the main thread to a label, with its locals.
LEMMA MainGoes ==
    ASSUME AloneNow, NEW l, NEW x, pc' = [pc EXCEPT ![Main] = l],
           loc' = [loc EXCEPT ![Main] = x]
    PROVE  /\ pc'[Main] = l /\ loc'[Main] = x
           /\ \A t \in Others : pc'[t] = "idle"
BY MainIsThread, AppStateAssumption DEF AloneNow, TypeInv, JobInv, Threads

LEMMA AloneTerminate ==
    ASSUME AloneNow, Terminate, UNCHANGED alone
    PROVE  AloneParts'
  <1>1. /\ UNCHANGED <<now, phase, installed, enabled, state, file, real, realSince, noted,
                       lastNoted, cut>>
        /\ pc[Main] = "idle" /\ phase # "launching"
    BY DEF Terminate, At, historyVars
  <1>2. CASE enabled
    <2>1. /\ pc'[Main] = "read" /\ loc'[Main] = [IdleLoc EXCEPT !.job = "terminate"]
          /\ \A t \in Others : pc'[t] = "idle"
      BY <1>2, MainGoes DEF Terminate, Goto
    <2>2. loc'[Main].job = "terminate"
      BY <2>1 DEF IdleLoc
    <2>3. JobInv'
      BY <1>1, <2>1, <2>2 DEF AloneNow, JobInv, Saving, Installing, Reporting
    <2> QED
      BY <1>1, <1>2, <2>1, <2>3, CountsKept DEF Terminate, Saving
  <1>3. CASE ~enabled
    <2>1. UNCHANGED <<pc, loc>>
      BY <1>3 DEF Terminate, threadVars
    <2>2. JobInv'
      BY <1>1, <2>1 DEF AloneNow, JobInv, Saving, Installing, Reporting
    <2> QED
      BY <1>1, <2>1, <2>2, CountsKept DEF Saving
  <1> QED
    BY <1>2, <1>3

LEMMA AloneReplay ==
    ASSUME AloneNow, Replay, UNCHANGED alone
    PROVE  AloneParts'
  <1>1. /\ UNCHANGED <<now, phase, lastTold, installed, alive, enabled, file, real, realSince,
                       noted, lastNoted, cut>>
        /\ pc[Main] = "replay" /\ state' = Told(state, lastTold)
    BY DEF Replay, At, appVars, processVars, historyVars
  <1>2. phase = "launching" /\ lastTold = "none"
    BY <1>1 DEF AloneNow, JobInv, Installing
  <1>3. state' = state
    BY <1>1, <1>2, OfOtherTold DEF Notification
  <1>4. /\ pc'[Main] = "idle" /\ loc'[Main] = IdleLoc
        /\ \A t \in Others : pc'[t] = "idle"
    BY <1>2, MainGoes DEF Replay, Goto
  <1>5. JobInv'
    BY <1>1, <1>2, <1>3, <1>4 DEF AloneNow, JobInv, Saving, Installing, Reporting, IdleLoc
  <1> QED
    BY <1>1, <1>3, <1>4, <1>5, CountsKept DEF Saving

LEMMA AloneReport ==
    ASSUME AloneNow, NEW t \in Threads, NEW job \in Jobs, Report(t, job), UNCHANGED alone
    PROVE  AloneParts'
  <1>1. /\ UNCHANGED <<now, phase, lastTold, installed, alive, enabled, state, file, real,
                       realSince, noted, lastNoted, cut>>
        /\ t = Main /\ pc[Main] = "idle"
    BY DEF Report, At, appVars, historyVars, AloneNow
  <1> DEFINE x == [job |-> job, duration |-> 0, again |-> job # "snapshot"]
  <1>2. /\ pc'[Main] = "read" /\ loc'[Main] = x /\ \A u \in Others : pc'[u] = "idle"
    BY <1>1, MainGoes DEF Report, Goto
  <1>3. x.job \notin {"none", "install"}
    BY AppStateAssumption
  <1>4. JobInv'
    BY <1>1, <1>2, <1>3 DEF AloneNow, JobInv, Saving, Installing, Reporting
  <1> QED
    BY <1>1, <1>2, <1>4, CountsKept DEF Saving

LEMMA AloneRead ==
    ASSUME AloneNow, NEW t \in Threads, UpdateRead(t), UNCHANGED alone
    PROVE  AloneParts'
  <1>1. /\ UNCHANGED <<now, phase, lastTold, installed, alive, enabled, state, file, real,
                       realSince, noted, lastNoted, cut>>
        /\ t = Main /\ pc[Main] = "read"
    BY OnlyMain DEF UpdateRead, At, appVars, processVars, historyVars, AloneNow
  <1> DEFINE x == [loc[Main] EXCEPT !.duration = TimeSince(state.transition)]
  <1>2. loc' = [loc EXCEPT ![Main] = x]
    BY <1>1 DEF UpdateRead
  <1>3. /\ pc'[Main] = "stamp" /\ loc'[Main] = x /\ \A u \in Others : pc'[u] = "idle"
    BY <1>1, <1>2, MainGoes DEF UpdateRead, Goto
  <1>4. x.job = loc[Main].job /\ x.duration = now - state.transition
    BY MainIsThread DEF AloneNow, TypeInv, LocSet, TimeSince
  <1>5. JobInv'
    BY <1>1, <1>3, <1>4 DEF AloneNow, JobInv, Saving, Installing, Reporting
  <1> QED
    BY <1>1, <1>3, <1>4, <1>5, CountsKept DEF Saving

LEMMA AloneStamp ==
    ASSUME AloneNow, NEW t \in Threads, UpdateStamp(t), UNCHANGED alone
    PROVE  AloneParts'
  <1>1. /\ UNCHANGED <<now, phase, lastTold, installed, alive, enabled, loc, file, real,
                       realSince, noted, lastNoted, cut>>
        /\ t = Main /\ pc[Main] = "stamp" /\ state' = Stamped(state)
    BY OnlyMain DEF UpdateStamp, At, appVars, processVars, historyVars, AloneNow
  <1>2. /\ state'.active = state.active /\ state'.activeSince = state.activeSince
        /\ state'.background = state.background
        /\ state'.backgroundSince = state.backgroundSince
        /\ state'.launchesSince = state.launchesSince /\ state'.transition = now
        /\ state'.crashedLastLaunch = state.crashedLastLaunch
        /\ state'.crashedThisLaunch = state.crashedThisLaunch
        /\ state'.isActive = state.isActive /\ state'.inForeground = state.inForeground
    BY <1>1, OfStamped DEF AloneNow, TypeInv
  <1>3. pc'[Main] = "add" /\ \A u \in Others : pc'[u] = "idle"
    BY <1>1, MainIsThread, AppStateAssumption
       DEF UpdateStamp, Goto, AloneNow, TypeInv, JobInv, Threads
  <1>4. JobInv'
    BY <1>1, <1>2, <1>3 DEF AloneNow, JobInv, Saving, Installing, Reporting
  <1>5. CountedNow' = CountedNow
    BY <1>1, <1>2, <1>3, Fields DEF AloneNow, DurationInv, CountedNow, Extra
  <1>6. Active' = Active /\ Background' = Background
    BY <1>2, <1>5 DEF Active, Background
  <1>7. DurationInv'
    BY <1>1, <1>2, <1>3, <1>6 DEF AloneNow, DurationInv, RealActive
  <1>8. FileInv'
    BY <1>1, <1>2, <1>6 DEF AloneNow, FileInv, RealActive, Unloaded
  <1>9. ExactInv'
    BY <1>1, <1>2, <1>3 DEF AloneNow, ExactInv, CrashOnFile, LaunchesOnFile, Saving
  <1> QED
    BY <1>4, <1>7, <1>8, <1>9 DEF AloneParts

LEMMA AloneAdd ==
    ASSUME AloneNow, NEW t \in Threads, UpdateAdd(t), UNCHANGED alone
    PROVE  AloneParts'
  <1> DEFINE notes == loc[Main].job \in {"report", "crash"} /\ ~loc[Main].again
             saves == notes \/ loc[Main].job = "terminate"
             d == loc[Main].duration
             onActive == IF state.isActive THEN d ELSE 0
             onBackground == IF ~state.isActive /\ ~state.inForeground THEN d ELSE 0
             x == IF saves \/ loc[Main].again THEN [loc[Main] EXCEPT !.again = FALSE]
                                              ELSE IdleLoc
  <1>1. /\ UNCHANGED <<now, phase, lastTold, installed, alive, enabled, file, real, realSince,
                       lastNoted, cut>>
        /\ t = Main /\ pc[Main] = "add"
    BY OnlyMain DEF UpdateAdd, At, appVars, processVars, AloneNow
  <1>2. /\ state' = [Counted(state, d) EXCEPT !.crashedThisLaunch = @ \/ notes]
        /\ noted' = IF notes /\ noted = "no" THEN "begun" ELSE noted
        /\ pc' = [pc EXCEPT ![Main] = IF saves THEN "truncate"
                                      ELSE IF loc[Main].again THEN "read" ELSE "idle"]
        /\ loc' = [loc EXCEPT ![Main] = x]
    BY <1>1 DEF UpdateAdd, Goto
  <1>3. /\ pc'[Main] = IF saves THEN "truncate"
                       ELSE IF loc[Main].again THEN "read" ELSE "idle"
        /\ loc'[Main] = x /\ \A u \in Others : pc'[u] = "idle"
    <2> HIDE DEF x, saves
    <2> QED
      BY <1>2, MainGoes
  <1>4. d \in Nat /\ notes \in BOOLEAN /\ loc[Main] \in LocSet
    BY MainIsThread, Fields DEF AloneNow, TypeInv, LocSet
  <1>5. /\ state'.active = state.active + onActive
        /\ state'.activeSince = state.activeSince + onActive
        /\ state'.background = state.background + onBackground
        /\ state'.backgroundSince = state.backgroundSince + onBackground
        /\ state'.launchesSince = state.launchesSince
        /\ state'.transition = state.transition
        /\ state'.crashedLastLaunch = state.crashedLastLaunch
        /\ state'.crashedThisLaunch <=> state.crashedThisLaunch \/ notes
        /\ state'.isActive = state.isActive /\ state'.inForeground = state.inForeground
    <2> HIDE DEF notes, d
    <2> QED
      BY <1>2, <1>4, OfCounted DEF AloneNow, TypeInv
  <1>6. /\ x.job = IF saves \/ loc[Main].again THEN loc[Main].job ELSE "none"
        /\ loc[Main].job \notin {"none", "install"}
    BY <1>1, <1>4 DEF LocSet, IdleLoc, AloneNow, JobInv
  <1>7. JobInv'
    <2> HIDE DEF x
    <2> QED
      BY <1>1, <1>2, <1>3, <1>5, <1>6 DEF AloneNow, JobInv, Saving, Installing, Reporting
  <1>8. Active = Active' + onActive /\ Background = Background' + onBackground
    <2> HIDE DEF saves
    <2> QED
      BY <1>1, <1>3, <1>4, <1>5, Fields
         DEF AloneNow, Active, Background, CountedNow, Extra
  <1>9. DurationInv' /\ FileInv'
    <2>1. Active' \in Nat /\ Background' \in Nat /\ onActive \in Nat /\ onBackground \in Nat
      <3> HIDE DEF saves
      <3> QED
        BY <1>1, <1>3, <1>4, <1>5, Fields
           DEF AloneNow, Active, Background, CountedNow, Extra
    <2>2. /\ state'.active + Active' = state.active + Active
          /\ state'.activeSince + Active' = state.activeSince + Active
          /\ state'.background + Background' = state.background + Background
          /\ state'.backgroundSince + Background' = state.backgroundSince + Background
      <3> HIDE DEF onActive, onBackground
      <3> QED
        BY <1>5, <1>8, <2>1, Fields DEF AloneNow
    <2>3. installed
      BY <1>1, MainIsThread DEF AloneNow, FlagInv
    <2>4. DurationInv'
      BY <1>1, <1>3, <1>5, <2>2, <2>3 DEF AloneNow, DurationInv, RealActive
    <2>5. FileInv'
      BY <1>1, <1>5, <2>2, <2>3 DEF AloneNow, FileInv, RealActive, Unloaded
    <2> QED
      BY <2>4, <2>5
  <1>10. ExactInv'
    BY <1>1, <1>2, <1>3, <1>5 DEF AloneNow, ExactInv, CrashOnFile, LaunchesOnFile, Saving,
       UpdateAdd, At, Running
  <1> QED
    BY <1>7, <1>9, <1>10 DEF AloneParts

LEMMA AloneInstall ==
    ASSUME AloneNow, FirstPhase = "launching", Install, UNCHANGED alone
    PROVE  AloneParts'
  <1> DEFINE loaded == Load(state)
  <1>1. /\ UNCHANGED <<now, phase, lastTold, alive, file, real, noted, lastNoted, cut>>
        /\ ~installed /\ installed' = TRUE /\ enabled' = TRUE /\ phase = "launching"
        /\ pc[Main] = "idle" /\ alive /\ state' = Reset(loaded)
        /\ realSince' = IF loaded.crashedLastLaunch
                          THEN [time |-> real, launches |-> 1]
                          ELSE [realSince EXCEPT !.launches = @ + 1]
    BY DEF Install, At, Running, AloneNow, processVars
  <1> DEFINE x == [IdleLoc EXCEPT !.job = "install"]
  <1>2. pc'[Main] = "truncate" /\ loc'[Main] = x /\ \A u \in Others : pc'[u] = "idle"
    BY MainGoes DEF Install, Goto
  <1>3. x.job = "install"
    BY DEF IdleLoc
  <1>4. ~state.crashedLastLaunch /\ noted = "no"
    BY <1>1 DEF AloneNow, FlagInv
  <1>5. /\ loaded \in StateSet
        /\ loaded.crashedLastLaunch <=> CrashOnFile
        /\ loaded.activeSince = IF file.keys >= 3 THEN file.active ELSE 0
        /\ loaded.backgroundSince = IF file.keys >= 4 THEN file.background ELSE 0
        /\ loaded.launchesSince = LaunchesOnFile
        /\ loaded.transition = state.transition /\ loaded.isActive = state.isActive
    BY <1>1, <1>4, OfLoad, Fields
       DEF AloneNow, TypeInv, FileInv, CrashOnFile, LaunchesOnFile
  <1> HIDE DEF loaded, x
  <1>6. /\ state'.active = 0 /\ state'.background = 0 /\ state'.inForeground = TRUE
        /\ state'.crashedThisLaunch = FALSE
        /\ state'.crashedLastLaunch <=> CrashOnFile
        /\ state'.activeSince = IF CrashOnFile THEN 0 ELSE loaded.activeSince
        /\ state'.backgroundSince = IF CrashOnFile THEN 0 ELSE loaded.backgroundSince
        /\ state'.launchesSince = IF CrashOnFile THEN 1 ELSE LaunchesOnFile + 1
        /\ state'.transition = state.transition /\ state'.isActive = state.isActive
    <2>1. state'.crashedLastLaunch = loaded.crashedLastLaunch
      BY <1>1, <1>5, OfReset
    <2>2. /\ state'.active = 0 /\ state'.background = 0 /\ state'.inForeground = TRUE
          /\ state'.crashedThisLaunch = FALSE
          /\ state'.activeSince = IF loaded.crashedLastLaunch THEN 0 ELSE loaded.activeSince
          /\ state'.backgroundSince = IF loaded.crashedLastLaunch THEN 0
                                                                  ELSE loaded.backgroundSince
          /\ state'.launchesSince = IF loaded.crashedLastLaunch THEN 1
                                                                ELSE loaded.launchesSince + 1
          /\ state'.transition = loaded.transition /\ state'.isActive = loaded.isActive
      BY <1>1, <1>5, OfReset
    <2> QED
      BY <1>5, <2>1, <2>2
  <1>7. JobInv'
    BY <1>1, <1>2, <1>3, <1>4, <1>6 DEF AloneNow, JobInv, Saving, Installing, Reporting
  <1>8. /\ Active' = now - state.transition /\ Background' = 0
        /\ now - state.transition <= real["launching"] /\ real["background"] = 0
        /\ state.isActive
    BY <1>1, <1>2, <1>6, Fields, FieldsNow
       DEF AloneNow, DurationInv, Active, Background, CountedNow, Extra, RealActive
  <1>9. DurationInv'
    BY <1>1, <1>2, <1>6, <1>8, Fields, FieldsNow DEF AloneNow, DurationInv, RealActive
  <1>10. FileInv' /\ ExactInv'
    <2>1. CASE CrashOnFile
      <3>1. realSince'.time = real /\ realSince'.launches = 1
        BY <1>1, <1>5, <2>1
      <3>2. FileInv'
        BY <1>1, <1>6, <1>8, <2>1, <3>1, Fields, FieldsNow
           DEF AloneNow, FileInv, RealActive, Unloaded, CrashOnFile, Phases
      <3>3. ExactInv'
        BY <1>1, <1>2, <1>6, <2>1, <3>1 DEF AloneNow, ExactInv, CrashOnFile, Saving
      <3> QED
        BY <3>2, <3>3
    <2>2. CASE ~CrashOnFile
      <3>1. realSince'.time = realSince.time /\ realSince'.launches = realSince.launches + 1
        BY <1>1, <1>5, <2>2 DEF AloneNow, TypeInv
      <3>2. /\ loaded.activeSince + (now - state.transition) <= RealActive(realSince.time)
            /\ loaded.backgroundSince <= realSince.time["background"]
            /\ LaunchesOnFile <= realSince.launches
        BY <1>1, <1>5, <1>8, <2>2, Fields, FieldsNow
           DEF AloneNow, FileInv, RealActive, Unloaded, CrashOnFile, LaunchesOnFile, Phases
      <3>3. LaunchesOnFile \in Nat
        BY Fields DEF AloneNow, LaunchesOnFile
      <3>4. loaded.backgroundSince \in Nat
        BY <1>5, FieldTypes
      <3>5. FileInv'
        BY <1>1, <1>6, <1>8, <2>2, <3>1, <3>2, <3>3, <3>4, Fields, FieldsNow
           DEF AloneNow, FileInv, RealActive, Unloaded, CrashOnFile
      <3>6. ExactInv'
        BY <1>1, <1>2, <1>6, <2>2, <3>1
           DEF AloneNow, ExactInv, CrashOnFile, Saving
      <3> QED
        BY <3>5, <3>6
    <2> QED
      BY <2>1, <2>2
  <1> QED
    BY <1>7, <1>9, <1>10 DEF AloneParts

LEMMA AloneTruncate ==
    ASSUME AloneNow, NEW t \in Threads, Truncate(t), UNCHANGED alone
    PROVE  AloneParts'
  <1>1. /\ UNCHANGED <<now, phase, lastTold, installed, alive, enabled, state, loc, real,
                       realSince, noted, lastNoted, cut>>
        /\ t = Main /\ pc[Main] = "truncate" /\ alive
        /\ file' = [file EXCEPT !.keys = 0]
    BY OnlyMain DEF Truncate, At, Running, appVars, processVars, historyVars, AloneNow
  <1>2. file'.keys = 0
    BY <1>1 DEF AloneNow, TypeInv, FileSet
  <1>3. pc'[Main] = "write" /\ \A u \in Others : pc'[u] = "idle"
    BY <1>1, MainIsThread, AppStateAssumption
       DEF Truncate, Goto, AloneNow, TypeInv, JobInv, Threads
  <1>4. JobInv'
    BY <1>1, <1>3 DEF AloneNow, JobInv, Saving, Installing, Reporting
  <1>5. Active' = Active /\ Background' = Background
    BY <1>1, <1>3 DEF Active, Background, CountedNow, Extra
  <1>6. DurationInv'
    BY <1>1, <1>3, <1>5 DEF AloneNow, DurationInv, RealActive
  <1>7. FileInv'
    BY <1>1, <1>2, <1>5 DEF AloneNow, FileInv, RealActive, Unloaded
  <1>8. ExactInv'
    BY <1>1, <1>3 DEF AloneNow, ExactInv, Saving
  <1> QED
    BY <1>4, <1>6, <1>7, <1>8 DEF AloneParts

\* What a save writes, before it is cut off.
LEMMA OfSaved ==
    ASSUME AloneNow, installed, pc[Main] \in {"truncate", "write"}
    PROVE  /\ Saved(state).keys = Keys
           /\ Saved(state).crashed = state.crashedThisLaunch
           /\ Saved(state).active = state.activeSince
           /\ Saved(state).background = state.backgroundSince
           /\ Saved(state).launches = state.launchesSince
           /\ state.activeSince <= RealActive(realSince.time)
           /\ state.backgroundSince <= realSince.time["background"]
           /\ state.launchesSince <= realSince.launches
  <1>1. /\ state.activeSince <= RealActive(realSince.time)
        /\ state.backgroundSince <= realSince.time["background"]
        /\ state.launchesSince <= realSince.launches
    BY Fields, FieldsNow DEF AloneNow, FileInv, RealActive
  <1> QED
    BY <1>1 DEF Saved, SavedFlag

LEMMA AloneWrite ==
    ASSUME AloneNow, NEW t \in Threads, Write(t), UNCHANGED alone
    PROVE  AloneParts'
  <1>1. /\ UNCHANGED <<now, phase, lastTold, installed, enabled, state, real, realSince,
                       lastNoted, cut>>
        /\ t = Main /\ pc[Main] = "write" /\ file' = Saved(state)
        /\ noted' = IF Reporting THEN "saved" ELSE noted
    BY OnlyMain DEF Write, At, appVars, AloneNow, Reporting
  <1>2. /\ pc'[Main] = IF loc[Main].job = "install" THEN "replay" ELSE "idle"
        /\ loc'[Main] = IdleLoc /\ \A u \in Others : pc'[u] = "idle"
    BY <1>1, MainGoes DEF Write, Goto
  <1>3. installed
    BY <1>1, MainIsThread DEF AloneNow, FlagInv
  <1>4. IdleLoc.job = "none"
    BY DEF IdleLoc
  <1>5. JobInv'
    BY <1>1, <1>2, <1>4 DEF AloneNow, JobInv, Saving, Installing, Reporting
  <1>6. Active' = Active /\ Background' = Background
    BY <1>1, <1>2 DEF Active, Background, CountedNow, Extra
  <1>7. DurationInv'
    BY <1>1, <1>2, <1>6 DEF AloneNow, DurationInv, RealActive
  <1>8. FileInv'
    BY <1>1, <1>3, <1>6, OfSaved, Fields, FieldsNow
       DEF AloneNow, FileInv, RealActive, Unloaded
  <1>9. ExactInv'
    <2>1. noted' = "saved" <=> state.crashedThisLaunch
      BY <1>1 DEF AloneNow, JobInv, Saving, TypeInv, Notes
    <2> QED
      BY <1>1, <1>2, <1>3, <2>1, OfSaved
         DEF AloneNow, ExactInv, CrashOnFile, LaunchesOnFile, Saving, Keys
  <1> QED
    BY <1>5, <1>7, <1>8, <1>9 DEF AloneParts

LEMMA AloneKill ==
    ASSUME AloneNow, Kill, UNCHANGED alone
    PROVE  AloneParts'
  <1>1. /\ UNCHANGED <<now, phase, lastTold, installed, enabled, state, pc, loc, real,
                       realSince, noted, lastNoted>>
        /\ alive' = FALSE /\ cut' = (cut \/ \E t \in Threads : pc[t] \in {"truncate", "write"})
    BY DEF Kill, appVars, threadVars
  <1>2. cut' = (cut \/ Saving)
    BY <1>1, OnlyMain, MainIsThread DEF AloneNow, Saving
  <1>3. \/ file' = file
        \/ /\ pc[Main] = "write" /\ installed
           /\ \E k \in 0 .. Keys - 1 : file' = [Saved(state) EXCEPT !.keys = k]
    BY OnlyMain DEF Kill, AloneNow, FlagInv
  <1>4. JobInv'
    BY <1>1 DEF AloneNow, JobInv, Saving, Installing, Reporting
  <1>5. Active' = Active /\ Background' = Background
    BY <1>1 DEF Active, Background, CountedNow, Extra
  <1>6. DurationInv'
    BY <1>1, <1>5 DEF AloneNow, DurationInv, RealActive
  <1>7. FileInv'
    <2>1. CASE file' = file
      BY <1>1, <1>5, <2>1 DEF AloneNow, FileInv, RealActive, Unloaded
    <2>2. CASE pc[Main] = "write" /\ installed /\ file' # file
      <3>1. /\ file'.active = state.activeSince /\ file'.background = state.backgroundSince
            /\ file'.launches = state.launchesSince
        BY <1>3, <2>2 DEF Saved
      <3> QED
        BY <1>1, <1>5, <2>2, <3>1, OfSaved, Fields, FieldsNow
           DEF AloneNow, FileInv, RealActive, Unloaded
    <2> QED
      BY <1>3, <2>1, <2>2
  <1>8. ExactInv'
    BY <1>1, <1>2, <1>3 DEF AloneNow, ExactInv, CrashOnFile, LaunchesOnFile, Saving
  <1> QED
    BY <1>4, <1>6, <1>7, <1>8 DEF AloneParts

LEMMA AloneLaunch ==
    ASSUME AloneNow, FirstPhase = "launching", Launch, UNCHANGED alone
    PROVE  AloneParts'
  <1>1. /\ UNCHANGED <<now, file, realSince, cut>> /\ ~alive
        /\ phase' = "launching" /\ lastTold' = "none" /\ installed' = FALSE
        /\ enabled' = FALSE /\ alive' = TRUE
        /\ state' = LoadedState /\ real' = NoTime /\ noted' = "no"
        /\ lastNoted' = IF LeftFile THEN lastNoted ELSE noted
    BY DEF Launch
  <1>2. /\ pc'[Main] = "idle" /\ loc'[Main].job = "none"
        /\ \A u \in Others : pc'[u] = "idle"
    BY DEF Launch, Threads, IdleLoc
  <1>3. /\ state'.active = 0 /\ state'.background = 0 /\ state'.activeSince = 0
        /\ state'.backgroundSince = 0 /\ state'.launchesSince = 0
        /\ state'.isActive = TRUE /\ state'.crashedThisLaunch = FALSE
        /\ state'.crashedLastLaunch = FALSE /\ state'.transition = now
    BY <1>1 DEF LoadedState
  <1>4. \A p \in Phases : real'[p] = 0
    BY <1>1 DEF NoTime
  <1>5. JobInv'
    BY <1>1, <1>2, <1>3 DEF JobInv, Saving, Installing, Reporting
  <1>6. Active' = 0 /\ Background' = 0
    BY <1>1, <1>2, <1>3, Fields DEF AloneNow, Active, Background, CountedNow, Extra
  <1>7. /\ real'["active"] = 0 /\ real'["launching"] = 0 /\ real'["background"] = 0
    BY <1>4 DEF Phases
  <1>8. DurationInv'
    BY <1>1, <1>2, <1>3, <1>6, <1>7 DEF DurationInv, RealActive
  <1>9. FileInv'
    BY <1>1, <1>3, <1>4, <1>7, Fields, FieldsNow DEF AloneNow, FileInv, RealActive, Unloaded
  <1>10. ExactInv'
    <2>1. ~cut => ~Saving /\ (LeftFile => ~installed)
      BY <1>1 DEF AloneNow, ExactInv, LeftFile, Saving
    <2> QED
      BY <1>1, <1>2, <2>1
         DEF AloneNow, ExactInv, CrashOnFile, LaunchesOnFile, Saving, LeftFile
  <1> QED
    BY <1>5, <1>8, <1>9, <1>10 DEF AloneParts

LEMMA AloneTick ==
    ASSUME AloneNow, Tick, UNCHANGED alone
    PROVE  AloneParts'
  <1>1. /\ UNCHANGED <<phase, lastTold, installed, alive, enabled, state, file, pc, loc, noted,
                       lastNoted, cut>>
        /\ pc[Main] # "stamp" /\ now' = now + 1
        /\ real' = [real EXCEPT ![phase] = @ + 1]
    BY MainIsThread DEF Tick, appVars, processVars, threadVars
  <1>2. /\ realSince'.launches = realSince.launches
        /\ realSince'.time = [realSince.time EXCEPT ![phase] = @ + 1]
    BY DEF Tick, AloneNow, TypeInv
  <1>3. /\ \A p \in Phases : real'[p] = IF p = phase THEN real[p] + 1 ELSE real[p]
        /\ \A p \in Phases : realSince'.time[p] = IF p = phase THEN realSince.time[p] + 1
                                                               ELSE realSince.time[p]
        /\ phase \in Phases
    BY <1>1, <1>2 DEF AloneNow, TypeInv
  <1>4. JobInv'
    BY <1>1 DEF AloneNow, JobInv, Saving, Installing, Reporting
  <1>5. CountedNow' = CountedNow + 1
    BY <1>1, Fields DEF AloneNow, CountedNow, Extra
  <1>6. /\ Active' = IF state.isActive THEN Active + 1 ELSE Active
        /\ Background' = IF ~state.isActive /\ ~state.inForeground THEN Background + 1
                                                                   ELSE Background
    BY <1>1, <1>5 DEF Active, Background
  <1>7. DurationInv'
    BY <1>1, <1>3, <1>6, Fields, FieldsNow DEF AloneNow, DurationInv, RealActive, Phases
  <1>8. FileInv'
    BY <1>1, <1>2, <1>3, <1>6, Fields, FieldsNow
       DEF AloneNow, FileInv, DurationInv, RealActive, Unloaded, Phases
  <1>9. ExactInv'
    BY <1>1, <1>2 DEF AloneNow, ExactInv, CrashOnFile, LaunchesOnFile, Saving
  <1> QED
    BY <1>4, <1>7, <1>8, <1>9 DEF AloneParts

LEMMA AloneInit == FirstPhase = "launching" /\ Init => AloneParts
  <1> SUFFICES ASSUME FirstPhase = "launching", Init PROVE AloneParts
    OBVIOUS
  <1>1. /\ now = 0 /\ phase = "launching" /\ lastTold = "none" /\ installed = FALSE
        /\ enabled = FALSE /\ alive = TRUE /\ state = LoadedState /\ real = NoTime
        /\ noted = "no" /\ lastNoted = "no"
        /\ file.keys = 0 /\ realSince.time = NoTime /\ realSince.launches = 0
    BY DEF Init
  <1>2. /\ pc[Main] = "idle" /\ loc[Main].job = "none" /\ \A u \in Others : pc[u] = "idle"
    BY DEF Init, Threads, IdleLoc
  <1>3. /\ state.active = 0 /\ state.background = 0 /\ state.activeSince = 0
        /\ state.backgroundSince = 0 /\ state.launchesSince = 0
        /\ state.isActive = TRUE /\ state.crashedThisLaunch = FALSE
        /\ state.transition = 0
    BY <1>1 DEF LoadedState
  <1>4. \A p \in Phases : NoTime[p] = 0
    BY DEF NoTime
  <1>5. real["active"] = 0 /\ real["launching"] = 0 /\ real["background"] = 0
    BY <1>1, <1>4 DEF Phases
  <1>6. Active = 0 /\ Background = 0
    BY <1>1, <1>2, <1>3 DEF Active, Background, CountedNow, Extra
  <1>7. JobInv
    BY <1>1, <1>2, <1>3 DEF JobInv, Saving, Installing, Reporting
  <1>8. DurationInv
    BY <1>1, <1>2, <1>3, <1>5, <1>6 DEF DurationInv, RealActive
  <1>9. FileInv
    BY <1>1, <1>3, <1>4 DEF FileInv
  <1>10. ExactInv
    BY <1>1, <1>2 DEF ExactInv, CrashOnFile, LaunchesOnFile, Saving
  <1> QED
    BY <1>7, <1>8, <1>9, <1>10 DEF AloneParts

LEMMA AloneStep ==
    ASSUME AloneNow, FirstPhase = "launching", [Next]_vars
    PROVE  AloneParts'
  <1>1. ASSUME NEW what \in Notification, Notify(what), UNCHANGED alone PROVE AloneParts'
    BY <1>1, AloneNotify
  <1>2. ASSUME Terminate \/ Install \/ Replay, UNCHANGED alone PROVE AloneParts'
    BY <1>2, AloneTerminate, AloneInstall, AloneReplay
  <1>3. ~Disable /\ ~Enable
    BY DEF Disable, Enable, AloneNow, JobInv
  <1>4. ASSUME NEW t \in Threads, NEW job \in Jobs, Report(t, job), UNCHANGED alone
        PROVE  AloneParts'
    BY <1>4, AloneReport
  <1>5. ASSUME NEW t \in Threads, UNCHANGED alone,
               UpdateRead(t) \/ UpdateStamp(t) \/ UpdateAdd(t) \/ Truncate(t) \/ Write(t)
        PROVE  AloneParts'
    BY <1>5, AloneRead, AloneStamp, AloneAdd, AloneTruncate, AloneWrite
  <1>6. ASSUME Kill \/ Launch \/ Tick, UNCHANGED alone PROVE AloneParts'
    BY <1>6, AloneKill, AloneLaunch, AloneTick
  <1>7. ASSUME UNCHANGED vars PROVE AloneParts'
    <2>1. UNCHANGED <<now, phase, lastTold, installed, alive, enabled, state, file, pc, loc,
                      real, realSince, noted, lastNoted, cut>>
      BY <1>7 DEF vars, appVars, processVars, threadVars, historyVars
    <2>2. Active' = Active /\ Background' = Background
      BY <2>1 DEF Active, Background, CountedNow, Extra
    <2>3. JobInv' /\ DurationInv'
      BY <2>1, <2>2
         DEF AloneNow, JobInv, DurationInv, RealActive, Saving, Installing, Reporting
    <2>4. FileInv' /\ ExactInv'
      BY <2>1, <2>2
         DEF AloneNow, FileInv, ExactInv, RealActive, Unloaded, CrashOnFile, LaunchesOnFile,
             Saving
    <2> QED
      BY <2>3, <2>4 DEF AloneParts
  <1> QED
    BY <1>1, <1>2, <1>3, <1>4, <1>5, <1>6, <1>7 DEF Next, Step, Over

LEMMA InvInductive ==
    FirstPhase = "launching" =>
      /\ Init => Inv
      /\ Inv /\ [Next]_vars => Inv'
  <1> SUFFICES ASSUME FirstPhase = "launching"
               PROVE  (Init => Inv) /\ (Inv /\ [Next]_vars => Inv')
    OBVIOUS
  <1>1. Init => Inv
    BY TypeInit, FlagInit, AloneInit DEF Inv, AloneParts
  <1>2. ASSUME Inv, [Next]_vars PROVE Inv'
    <2>1. TypeInv' /\ FlagInv'
      BY <1>2, TypeStep, FlagStep DEF Inv
    <2>2. alone' = alone
      BY <1>2 DEF Next, vars
    <2>3. ASSUME alone PROVE AloneParts'
      BY <1>2, <2>3, AloneStep DEF Inv, AloneNow
    <2> QED
      BY <2>1, <2>2, <2>3 DEF Inv, AloneParts
  <1> QED
    BY <1>1, <1>2

\* In an application that is launched in the foreground, whose main thread alone reports, and
\* that keeps the monitor enabled, the durations of a launch are the real ones, whenever they
\* are asked for (growingcrashstate_currentState).
THEOREM DurationsAreReal ==
    ASSUME FirstPhase = "launching"
    PROVE  Spec => []ExactAlone
  <1>1. Inv => ExactAlone
    <2> SUFFICES ASSUME Inv, alone, Settled PROVE DurationsExact
      BY DEF ExactAlone, DurationsExact
    <2>1. /\ pc[Main] # "add" /\ enabled /\ installed
          /\ TypeInv /\ DurationInv
      BY MainIsThread DEF Settled, Inv, FlagInv
    <2>2. Active = PendingActive /\ Background = PendingBackground
      BY <2>1, Fields
         DEF Active, Background, PendingActive, PendingBackground, CountedNow, Extra, TimeSince
    <2> QED
      BY <2>1, <2>2 DEF DurationsExact, DurationInv, RealActive
  <1> QED
    BY <1>1, InvInductive, PTL DEF Spec

\* There, too, the next launch takes over from the state file no more time and launches since
\* the last crash than there were, and, if no process was killed in a save, the exact number of
\* launches and whether the last one crashed, over any number of launches and crashes.
THEOREM FileCarriesOver ==
    ASSUME FirstPhase = "launching"
    PROVE  Spec => []CarriedOverAlone
  <1>1. Inv => CarriedOverAlone
    <2> SUFFICES ASSUME Inv, alone PROVE CarriedOverAlone
      BY DEF CarriedOverAlone
    <2>1. TypeInv /\ FlagInv /\ FileInv /\ ExactInv
      BY DEF Inv
    <2>2. DurationsSinceCrash
      <3> SUFFICES ASSUME Settled PROVE DurationsSinceCrash
        BY DEF DurationsSinceCrash
      <3>1. pc[Main] # "add" /\ installed
        BY <2>1, MainIsThread DEF Settled, FlagInv
      <3>2. Active = PendingActive /\ Background = PendingBackground
        BY <2>1, <3>1, Fields
           DEF Active, Background, PendingActive, PendingBackground, CountedNow, Extra,
               TimeSince
      <3> QED
        BY <2>1, <3>1, <3>2 DEF DurationsSinceCrash, FileInv, RealActive
    <2>3. LaunchesCounted /\ FlagReachesNextLaunch
      BY <2>1 DEF LaunchesCounted, FlagReachesNextLaunch, FileInv, ExactInv
    <2> QED
      BY <2>2, <2>3 DEF CarriedOverAlone
  <1> QED
    BY <1>1, InvInductive, PTL DEF Spec
=============================================================================
