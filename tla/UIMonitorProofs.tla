--------------------------- MODULE UIMonitorProofs ---------------------------
(***************************************************************************)
(* Proof that delegates are told of a launch once and first, with a time the  *)
(* user has waited unless the system ran didFinishLaunching in advance, then  *)
(* of each page once, and that every delegate of the list hears of every      *)
(* delivery; for any pages, delegates, threads and times.                     *)
(*                                                                         *)
(* What is told depends on when it was noted (ClockInv: the user launches     *)
(* before the first page appears, and nothing that counts of a launch         *)
(* changes once it has: didFinishLaunching alone may still come, too late).   *)
(* A delivery carries a page that was never told, or the launch while no page *)
(* was (DeliveryInv, ToldInv); a delegate knows of it exactly if its place in *)
(* the list was reached, and it has only one, for the list is injective and   *)
(* is not changed meanwhile (PassedInv).                                      *)
(***************************************************************************)
EXTENDS UIMonitor, FiniteSetTheorems, SequenceTheorems, TLAPS

Stages == {"none", "loaded", "appearing", "shown", "gone"}
PageStates == [at: Stages, load: Nat, will: Nat, didAppear: BOOLEAN]
Shown == Pages \cup {None}
Reports == [page: Shown, duration: Int, reboot: Int, warm: BOOLEAN]
Deliveries == [pc: {"lock", "tell"}, report: Reports, cold: BOOLEAN, next: Nat \ {0}]
Moments == 0 .. MaxTime

Shape ==
    /\ now \in Moments /\ blocks \in 0 .. 1 /\ (config = "none" => blocks = 0)
    /\ prewarm \in BOOLEAN /\ execTime \in {0, Exec} /\ cppInit = Exec + 1
    /\ mainStart \in Moments /\ didFinish \in Moments
    /\ userLaunch \in Moments /\ firstAppear \in Moments
    /\ firstPage \in [page: Shown, duration: Int] /\ didSend \in BOOLEAN
    /\ config \in {"none", "ui", "other"}
    /\ pages \in [Pages -> PageStates] /\ visible \in Shown
    /\ times \in [resign: Nat, background: Nat, foreground: Nat, active: Nat]

DelegatesInv ==
    /\ delegates \in Seq(Delegates) /\ alive \subseteq Delegates
    /\ IsInjective(delegates)
    /\ told \in [Delegates -> Seq(Reports)]

LockInv ==
    /\ main = Idle \/ main \in Deliveries
    /\ main.pc = "lock" => main.next = 1
    /\ lock \in {None, "main"} /\ (lock = "main" <=> main.pc = "tell")

ClockInv ==
    /\ Exec < now /\ mainStart <= now /\ userLaunch <= now
    /\ app # "exec" /\ ~prewarm => cppInit <= mainStart /\ userLaunch = Exec
    /\ didFinish <= now /\ (didFinish # 0 => app # "exec")
    /\ \A p \in Pages : pages[p].at # "none" => Launched
    /\ firstAppear = 0 => firstPage = NoPage /\ ~didSend
    /\ firstAppear # 0 =>
        /\ Launched /\ Exec < firstAppear
        /\ userLaunch <= firstAppear /\ mainStart <= firstAppear
        /\ firstPage.page \in Pages \ Ignored /\ pages[firstPage.page].didAppear

\* The time told of the launch is one the user has waited.
Real(reboot) ==
    LET waited == firstAppear - userLaunch
        shown == waited - (mainStart - cppInit)
    IN /\ reboot \in 0 .. MaxCold
       /\ IF RanAhead THEN reboot \in {0, firstAppear - didFinish} ELSE reboot <= waited
       /\ ~prewarm /\ execTime # 0 => reboot = (IF shown <= MaxCold THEN shown ELSE 0)

\* A report of a page that has appeared.
Honest(r) ==
    /\ r.page \in Pages \ Ignored /\ pages[r.page].didAppear /\ firstAppear # 0
    /\ IF r.page = firstPage.page THEN Real(r.reboot) ELSE r.reboot = 0

\* The launch is delivered before anything else, a page afterwards.
DeliveryInv ==
    main # Idle =>
        /\ main.cold => ~main.report.warm
        /\ ~main.report.warm =>
            /\ Honest(main.report)
            /\ main.cold <=> main.report.page = firstPage.page
            /\ main.cold <=> ~didSend

\* What is being delivered excludes r: it is the launch, or of the same page.
Excluded(r) ==
    main # Idle /\ ~main.report.warm /\ (main.cold \/ r.page = main.report.page)

Reached(d) ==
    main.pc = "tell" /\ \E k \in DOMAIN delegates : k < main.next /\ delegates[k] = d

ToldInv ==
    \A d \in Delegates : \A i \in DOMAIN told[d] :
        ~told[d][i].warm =>
            /\ Honest(told[d][i])
            /\ didSend \/ (main # Idle /\ main.cold)
            /\ Excluded(told[d][i]) => Reached(d)

PassedInv ==
    main.pc = "tell" =>
        \A k \in DOMAIN delegates :
            k < main.next /\ delegates[k] \in alive \cap Responders =>
                told[delegates[k]] # <<>> /\ Last(told[delegates[k]]) = main.report

BaseInv == Shape /\ DelegatesInv /\ LockInv /\ ClockInv
LaunchInv == DeliveryInv /\ ToldInv /\ LaunchThenPages /\ PassedInv
Inv == BaseInv /\ LaunchInv

-----------------------------------------------------------------------------
LEMMA IdleOrBusy ==
    ASSUME LockInv
    PROVE  /\ main = Idle <=> main.pc = "idle"
           /\ main # Idle => main \in Deliveries /\ main.report \in Reports /\ main.cold \in BOOLEAN
BY DEF LockInv, Idle, Deliveries

\* The list of delegates.
LEMMA AddedOnce ==
    ASSUME NEW list \in Seq(Delegates), IsInjective(list), NEW living \in SUBSET Delegates,
           NEW d \in living
    PROVE  Added(list, living, d) \in Seq(Delegates) /\ IsInjective(Added(list, living, d))
<1>1. CASE IsAmong(list, living, d)
  BY <1>1 DEF Added
<1>2. CASE ~IsAmong(list, living, d)
  <2>1. Added(list, living, d) = Append(list, d)
    BY <1>2 DEF Added
  <2>2. \A i \in 1 .. Len(list) : list[i] # d
    BY <1>2 DEF IsAmong, AllObjects
  <2> QED
    BY <2>1, <2>2 DEF IsInjective
<1> QED
  BY <1>1, <1>2

LEMMA IndexInList ==
    ASSUME NEW list \in Seq(Delegates), NEW living, NEW d, IsAmong(list, living, d)
    PROVE  IndexOf(list, living, d) \in 1 .. Len(list)
<1> DEFINE objects == AllObjects(list, living)
           place == CHOOSE i \in objects : list[i] = d
           before == {i \in objects : i <= place}
<1>1. place \in objects /\ objects \subseteq 1 .. Len(list)
  BY DEF IsAmong, AllObjects
<1>2. before \subseteq 1 .. Len(list) /\ place \in before
  BY <1>1
<1>3. IsFiniteSet(1 .. Len(list)) /\ Cardinality(1 .. Len(list)) = Len(list)
  <2>1. Len(list) \in Nat
    OBVIOUS
  <2> QED
    BY <2>1, FS_Interval
<1>4. IsFiniteSet(before) /\ Cardinality(before) <= Len(list)
  BY <1>2, <1>3, FS_Subset
<1>5. Cardinality(before) \in Nat /\ Cardinality(before) # 0
  BY <1>2, <1>4, FS_CardinalityType, FS_EmptySet
<1>6. IndexOf(list, living, d) = Cardinality(before)
  BY DEF IndexOf
<1> HIDE DEF before
<1> QED
  BY <1>4, <1>5, <1>6

LEMMA RemovedStays ==
    ASSUME NEW list \in Seq(Delegates), IsInjective(list), NEW living, NEW d
    PROVE  Removed(list, living, d) \in Seq(Delegates) /\ IsInjective(Removed(list, living, d))
<1>1. CASE ~IsAmong(list, living, d)
  BY <1>1 DEF Removed
<1>2. CASE IsAmong(list, living, d)
  <2>1. PICK n \in 1 .. Len(list) : Removed(list, living, d) = RemoveAt(list, n)
    BY <1>2, IndexInList DEF Removed
  <2> DEFINE front == SubSeq(list, 1, n - 1)
             back == SubSeq(list, n + 1, Len(list))
  <2>2. front \in Seq(Delegates) /\ Len(front) = n - 1
        /\ \A i \in 1 .. n - 1 : front[i] = list[i]
    OBVIOUS
  <2>3. back \in Seq(Delegates) /\ Len(back) = Len(list) - n
        /\ \A i \in 1 .. Len(list) - n : back[i] = list[n + i]
    OBVIOUS
  <2>4. Removed(list, living, d) = front \o back
    BY <2>1 DEF RemoveAt
  <2> HIDE DEF front, back
  <2>5. front \o back \in Seq(Delegates) /\ Len(front \o back) = Len(list) - 1
    <3>1. front \o back \in Seq(Delegates) /\ Len(front \o back) = Len(front) + Len(back)
      BY <2>2, <2>3, ConcatProperties
    <3>2. Len(list) \in Nat
      OBVIOUS
    <3> QED
      BY <3>1, <3>2, <2>2, <2>3
  <2>6. ASSUME NEW i \in 1 .. Len(list) - 1
        PROVE  (front \o back)[i] = IF i < n THEN list[i] ELSE list[i + 1]
    <3>1. (front \o back)[i] = IF i <= Len(front) THEN front[i] ELSE back[i - Len(front)]
      BY <2>2, <2>3, ConcatProperties
    <3>2. CASE i < n
      BY <3>1, <3>2, <2>2
    <3>3. CASE ~(i < n)
      <4>1. i - Len(front) \in 1 .. Len(list) - n /\ n + (i - Len(front)) = i + 1
        BY <3>3, <2>2
      <4> QED
        BY <3>1, <3>3, <4>1, <2>2, <2>3
    <3> QED
      BY <3>2, <3>3
  <2>7. ASSUME NEW i \in 1 .. Len(list) - 1, NEW j \in 1 .. Len(list) - 1,
               (front \o back)[i] = (front \o back)[j]
        PROVE  i = j
    <3> DEFINE at(k) == IF k < n THEN k ELSE k + 1
    <3>1. list[at(i)] = list[at(j)]
      BY <2>6, <2>7
    <3>2. at(i) \in 1 .. Len(list) /\ at(j) \in 1 .. Len(list)
      OBVIOUS
    <3>3. DOMAIN list = 1 .. Len(list)
      OBVIOUS
    <3>4. at(i) = at(j)
      BY <3>1, <3>2, <3>3 DEF IsInjective
    <3> QED
      BY <3>4
  <2>8. DOMAIN (front \o back) = 1 .. Len(list) - 1
    BY <2>5
  <2> HIDE DEF front, back
  <2> QED
    BY <2>4, <2>5, <2>7, <2>8 DEF IsInjective
<1> QED
  BY <1>1, <1>2

-----------------------------------------------------------------------------
\* What an appearance changes of the first page.
LEMMA FirstAppearance ==
    ASSUME NEW p \in Pages, DidAppear(p)
    PROVE  \/ UNCHANGED <<firstAppear, firstPage>>
           \/ /\ firstAppear = 0 /\ p \notin Ignored /\ ~didSend /\ ~pages[p].didAppear
              /\ firstAppear' = now'
              /\ firstPage' = [page |-> p, duration |-> pages[p].load + pages[p].will + (now' - now)]
BY DEF DidAppear, PageLoadCompleted

\* The variables keep their types.
LEMMA ShapeStep ==
    ASSUME BaseInv, [Next]_vars
    PROVE  Shape'
<1> USE UIMonitorAssumption, ClockAssumption DEF BaseInv, Shape, Moments, Shown, PageStates, Stages
<1>1. CASE Setup
  BY <1>1 DEF Setup, Advance, coldVars, pageVars
<1>2. CASE UserLaunches
  BY <1>2 DEF UserLaunches, Advance, coldVars, pageVars, appVars
<1>3. CASE DidFinishLaunching
  BY <1>3 DEF DidFinishLaunching, Advance, coldVars, pageVars, appVars
<1>4. ASSUME NEW monitors \in {"ui", "other"}, StartWithConfig(monitors)
     PROVE  Shape'
  BY <1>4 DEF StartWithConfig, Advance, coldVars, pageVars, appVars
<1>5. CASE RunBlock
  BY <1>5 DEF RunBlock, Advance, launchVars, coldVars, pageVars, appVars
<1>6. CASE Lock
  BY <1>6 DEF Lock, Advance, launchVars, coldVars, pageVars, appVars
<1>7. CASE Tell
  BY <1>7 DEF Tell, Advance, launchVars, coldVars, pageVars, appVars
<1>8. CASE Unlock
  BY <1>8 DEF Unlock, Advance, launchVars, coldVars, pageVars, appVars
<1>9. ASSUME NEW p \in Pages, LoadPage(p)
     PROVE  Shape'
  <2> DEFINE page == [pages[p] EXCEPT !.at = "loaded", !.load = now' - now]
  <2>1. now' \in Moments /\ now' - now \in Nat
    BY <1>9 DEF LoadPage, Advance
  <2>2. pages[p] \in PageStates
    OBVIOUS
  <2>3. page \in PageStates
    BY <2>1, <2>2
  <2>4. pages' = [pages EXCEPT ![p] = page]
    BY <1>9 DEF LoadPage
  <2> HIDE DEF page
  <2>5. pages' \in [Pages -> PageStates]
    BY <2>3, <2>4
  <2> QED
    BY <1>9, <2>1, <2>5 DEF LoadPage, launchVars, coldVars, appVars
<1>10. ASSUME NEW p \in Pages, WillAppear(p)
     PROVE  Shape'
  <2> DEFINE page == [pages[p] EXCEPT !.at = "appearing", !.will = now' - now]
  <2>1. now' \in Moments /\ now' - now \in Nat
    BY <1>10 DEF WillAppear, Advance
  <2>2. pages[p] \in PageStates
    OBVIOUS
  <2>3. page \in PageStates
    BY <2>1, <2>2
  <2>4. pages' = [pages EXCEPT ![p] = page]
    BY <1>10 DEF WillAppear
  <2> HIDE DEF page
  <2>5. pages' \in [Pages -> PageStates]
    BY <2>3, <2>4
  <2> QED
    BY <1>10, <2>1, <2>5 DEF WillAppear, launchVars, coldVars, appVars
<1>11. ASSUME NEW p \in Pages, Disappear(p)
     PROVE  Shape'
  <2> DEFINE page == [pages[p] EXCEPT !.at = "gone"]
  <2>1. now' = now
    BY <1>11 DEF Disappear
  <2>2. pages[p] \in PageStates
    OBVIOUS
  <2>3. page \in PageStates
    BY <2>1, <2>2
  <2>4. pages' = [pages EXCEPT ![p] = page]
    BY <1>11 DEF Disappear
  <2> HIDE DEF page
  <2>5. pages' \in [Pages -> PageStates]
    BY <2>3, <2>4
  <2> QED
    BY <1>11, <2>1, <2>5 DEF Disappear, launchVars, coldVars, appVars
<1>12. ASSUME NEW p \in Pages, DidAppear(p)
     PROVE  Shape'
  <2> DEFINE page == [pages[p] EXCEPT !.at = "shown", !.didAppear = TRUE]
  <2>1. now' \in Moments /\ now' - now \in Nat
    BY <1>12 DEF DidAppear, Advance
  <2>2. pages[p] \in PageStates
    OBVIOUS
  <2>3. page \in PageStates
    BY <2>1, <2>2
  <2>4. pages' = [pages EXCEPT ![p] = page]
    BY <1>12 DEF DidAppear
  <2> HIDE DEF page
  <2>5. pages' \in [Pages -> PageStates]
    BY <2>3, <2>4
  <2>6. firstAppear' \in Moments /\ firstPage' \in [page: Shown, duration: Int]
    BY <1>12, <2>1, <2>2, FirstAppearance
  <2>7. UNCHANGED <<prewarm, execTime, cppInit, mainStart, didFinish, userLaunch, config,
                    didSend, blocks, times>> /\ visible' = p
    BY <1>12 DEF DidAppear, launchVars, appVars
  <2> QED
    BY <2>1, <2>5, <2>6, <2>7
<1>13. CASE WillResignActive
  BY <1>13 DEF WillResignActive, Advance, Notified, launchVars, coldVars, pageVars
<1>14. CASE DidEnterBackground
  BY <1>14 DEF DidEnterBackground, Advance, Notified, launchVars, coldVars, pageVars
<1>15. CASE WillEnterForeground
  BY <1>15 DEF WillEnterForeground, Advance, Notified, launchVars, coldVars, pageVars
<1>16. CASE DidBecomeActive
  BY <1>16 DEF DidBecomeActive, Advance, Notified, launchVars, coldVars, pageVars
<1>17. ASSUME NEW t \in Workers \cup {"main"}, NEW d \in Delegates, AddDelegate(t, d)
     PROVE  Shape'
  BY <1>17 DEF AddDelegate, Advance, launchVars, coldVars, pageVars, appVars
<1>18. ASSUME NEW t \in Workers \cup {"main"}, NEW d \in Delegates, RemoveDelegate(t, d)
     PROVE  Shape'
  BY <1>18 DEF RemoveDelegate, Advance, launchVars, coldVars, pageVars, appVars
<1>19. ASSUME NEW d \in Delegates, DelegateDies(d)
     PROVE  Shape'
  BY <1>19 DEF DelegateDies, Advance, launchVars, coldVars, pageVars, appVars
<1>20. CASE UNCHANGED vars
  BY <1>20 DEF vars, launchVars, coldVars, delegateVars, pageVars, appVars
<1> QED
  BY <1>1, <1>2, <1>3, <1>4, <1>5, <1>6, <1>7, <1>8, <1>9, <1>10, <1>11, <1>12, <1>13,
     <1>14, <1>15, <1>16, <1>17, <1>18, <1>19, <1>20 DEF Next, Delivery

-----------------------------------------------------------------------------
(***************************************************************************)
(* When the launch was noted.                                              *)
(***************************************************************************)
\* Pages only ever gain an appearance, and once one has, the user has launched.
LEMMA PagesGain ==
    ASSUME BaseInv, [Next]_vars, NEW q \in Pages
    PROVE  /\ pages[q].didAppear => pages'[q].didAppear
           /\ pages'[q].at # "none" => pages[q].at # "none" \/ Launched
<1> USE DEF BaseInv, Shape, PageStates, Stages
<1>1. CASE pages' = pages
  BY <1>1
<1>2. ASSUME NEW p \in Pages, LoadPage(p) \/ WillAppear(p) \/ Disappear(p) \/ DidAppear(p)
      PROVE  /\ pages[q].didAppear => pages'[q].didAppear
             /\ pages'[q].at # "none" => pages[q].at # "none" \/ Launched
  <2>1. pages' \in [Pages -> PageStates] /\ \A x \in Pages \ {p} : pages'[x] = pages[x]
    BY <1>2, ShapeStep DEF LoadPage, WillAppear, Disappear, DidAppear
  <2>2. pages[p].didAppear => pages'[p].didAppear
    BY <1>2 DEF LoadPage, WillAppear, Disappear, DidAppear
  <2>3. pages[p].at # "none" \/ Launched
    BY <1>2 DEF LoadPage, WillAppear, Disappear, DidAppear
  <2> QED
    BY <2>1, <2>2, <2>3
<1> QED
  BY <1>1, <1>2 DEF Next, Delivery, Setup, UserLaunches, DidFinishLaunching, StartWithConfig,
     RunBlock, Lock, Tell, Unlock, WillResignActive, DidEnterBackground, WillEnterForeground,
     DidBecomeActive, Notified, AddDelegate, RemoveDelegate, DelegateDies, vars, pageVars

\* Nothing of a launch changes once its first page has appeared.
Settled ==
    firstAppear # 0 =>
        /\ UNCHANGED <<prewarm, execTime, cppInit, mainStart, userLaunch, firstAppear, firstPage>>
        /\ RanAhead' = RanAhead
        /\ RanAhead => didFinish' = didFinish

LEMMA LaunchSettles ==
    ASSUME BaseInv, [Next]_vars
    PROVE  Settled
<1> USE DEF BaseInv, ClockInv, Launched, Settled, RanAhead
<1>1. ASSUME NEW p \in Pages, DidAppear(p)
      PROVE  Settled
  BY <1>1, FirstAppearance DEF DidAppear, launchVars
<1>2. CASE DidFinishLaunching
  BY <1>2, ClockAssumption DEF DidFinishLaunching, Advance, coldVars, Shape, Moments
<1>3. ASSUME NEW monitors \in {"ui", "other"}, StartWithConfig(monitors)
      PROVE  Settled
  BY <1>3, ClockAssumption DEF StartWithConfig, Advance, coldVars, Shape, Moments
<1>4. CASE Setup \/ UserLaunches
  BY <1>4 DEF Setup, UserLaunches
<1>5. CASE UNCHANGED <<launchVars, firstAppear, firstPage>>
  BY <1>5 DEF launchVars
<1> QED
  BY <1>1, <1>2, <1>3, <1>4, <1>5 DEF Next, Delivery, RunBlock, Lock, Tell, Unlock,
     WillResignActive, DidEnterBackground, WillEnterForeground, DidBecomeActive, Notified,
     AddDelegate, RemoveDelegate, DelegateDies, LoadPage, WillAppear, Disappear, vars, coldVars

LEMMA ClockStep ==
    ASSUME BaseInv, DeliveryInv, [Next]_vars
    PROVE  ClockInv'
<1> USE UIMonitorAssumption, ClockAssumption
<1>1. Shape' /\ Settled
  BY ShapeStep, LaunchSettles
<1>2. /\ \A q \in Pages : pages[q].didAppear => pages'[q].didAppear
      /\ \A q \in Pages : pages'[q].at # "none" => pages[q].at # "none" \/ Launched
  BY PagesGain
<1>3. Launched => Launched'
  BY DEF Launched, BaseInv, ClockInv, Next, Delivery, Setup, UserLaunches, DidFinishLaunching,
     StartWithConfig, RunBlock, Lock, Tell, Unlock, WillResignActive, DidEnterBackground,
     WillEnterForeground, DidBecomeActive, Notified, AddDelegate, RemoveDelegate, DelegateDies,
     LoadPage, WillAppear, Disappear, DidAppear, vars, launchVars, appVars
<1>4. \A q \in Pages : pages'[q].at # "none" => Launched'
  BY <1>2, <1>3 DEF BaseInv, ClockInv
<1> DEFINE Times == Exec < now' /\ mainStart' <= now' /\ userLaunch' <= now'
           Started == app' # "exec" /\ ~prewarm' => cppInit' <= mainStart' /\ userLaunch' = Exec
           Finished == didFinish' <= now' /\ (didFinish' # 0 => app' # "exec")
<1>5. Times /\ Started /\ Finished
  <2> USE DEF BaseInv, Shape, Moments, ClockInv
  <2>1. CASE Setup
    <3>1. /\ app = "exec" /\ app' = "main" /\ now' = now + 1
          /\ UNCHANGED <<prewarm, cppInit, didFinish>>
          /\ mainStart' = IF prewarm THEN 0 ELSE now'
          /\ userLaunch' = IF prewarm THEN 0 ELSE Exec
      BY <2>1 DEF Setup, Advance
    <3>2. didFinish' = 0
      BY <3>1
    <3>3. Finished
      BY <3>1, <3>2, <1>1
    <3>4. Times
      BY <3>1
    <3>5. cppInit = Exec + 1 /\ Exec + 1 <= now'
      BY <3>1
    <3>6. Started
      BY <3>1, <3>5
    <3> QED
      BY <3>3, <3>4, <3>6
  <2>2. CASE UserLaunches
    <3>1. /\ now' = now + 1 /\ userLaunch' = now' /\ prewarm' /\ app' = app
          /\ UNCHANGED <<cppInit, mainStart, didFinish>>
      BY <2>2 DEF UserLaunches, Advance, appVars
    <3> QED
      BY <3>1, <1>1
  <2>3. CASE DidFinishLaunching
    BY <2>3, <1>3 DEF DidFinishLaunching, Advance, coldVars, appVars
  <2>4. ASSUME NEW monitors \in {"ui", "other"}, StartWithConfig(monitors)
        PROVE  Times /\ Started /\ Finished
    <3>1. /\ now' >= now /\ UNCHANGED <<prewarm, cppInit, mainStart, userLaunch, app>>
          /\ app # "exec" /\ didFinish' \in {didFinish, now'}
      BY <2>4 DEF StartWithConfig, Advance, appVars
    <3>2. Times /\ Finished
      BY <3>1, <1>1
    <3>3. Started
      BY <3>1
    <3> QED
      BY <3>2, <3>3
  <2>5. CASE now' >= now /\ UNCHANGED <<launchVars, app>>
    BY <2>5, <1>3, <1>1 DEF launchVars
  <2>6. CASE now' >= now /\ UNCHANGED launchVars /\ app # "exec" /\ app' # "exec"
    BY <2>6, <1>3, <1>1 DEF launchVars
  <2>7. CASE RunBlock \/ Delivery \/ UNCHANGED vars
    BY <2>5, <2>7 DEF Delivery, RunBlock, Lock, Tell, Unlock, vars, appVars
  <2>8. ASSUME NEW p \in Pages, LoadPage(p) \/ WillAppear(p) \/ Disappear(p) \/ DidAppear(p)
        PROVE  Times /\ Started /\ Finished
    BY <2>5, <2>8 DEF LoadPage, WillAppear, Disappear, DidAppear, Advance, appVars
  <2>9. CASE WillResignActive \/ DidEnterBackground \/ WillEnterForeground
    BY <2>6, <2>9 DEF WillResignActive, DidEnterBackground, WillEnterForeground, Notified, Advance
  <2>10. CASE DidBecomeActive
    BY <2>6, <2>10 DEF DidBecomeActive, Notified, Advance
  <2>11. ASSUME NEW d \in Delegates, DelegateDies(d) \/
                \E t \in Workers \cup {"main"} : AddDelegate(t, d) \/ RemoveDelegate(t, d)
         PROVE  Times /\ Started /\ Finished
    BY <2>5, <2>11 DEF AddDelegate, RemoveDelegate, DelegateDies, appVars
  <2> QED
    BY <2>1, <2>2, <2>3, <2>4, <2>7, <2>8, <2>9, <2>10, <2>11 DEF Next
<1> DEFINE Unseen == firstAppear' = 0 => firstPage' = NoPage /\ ~didSend'
           Seen ==
               firstAppear' # 0 =>
                 /\ Launched' /\ Exec < firstAppear'
                 /\ userLaunch' <= firstAppear' /\ mainStart' <= firstAppear'
                 /\ firstPage'.page \in Pages \ Ignored /\ pages'[firstPage'.page].didAppear
<1>6. ASSUME NEW p \in Pages, DidAppear(p)
      PROVE  Unseen /\ Seen
  <2> USE DEF BaseInv, ClockInv, Shape, Moments
  <2>1. now' = now + 1 /\ UNCHANGED <<launchVars, didSend>> /\ pages[p].at # "none"
    BY <1>6 DEF DidAppear, Advance
  <2>2. pages'[p].didAppear
    BY <1>6 DEF DidAppear, PageStates
  <2>3. CASE UNCHANGED <<firstAppear, firstPage>>
    BY <2>1, <2>3, <1>2, <1>3 DEF launchVars
  <2>4. CASE ~UNCHANGED <<firstAppear, firstPage>>
    <3>1. firstAppear = 0 /\ p \notin Ignored /\ firstAppear' = now' /\ firstPage'.page = p
      BY <1>6, <2>4, FirstAppearance
    <3> QED
      BY <3>1, <2>1, <2>2, <1>3 DEF launchVars
  <2> QED
    BY <2>3, <2>4
<1>7. firstAppear' = firstAppear /\ firstPage' = firstPage /\ (firstAppear = 0 => ~didSend')
        => Unseen /\ Seen
  BY <1>1, <1>2, <1>3 DEF BaseInv, ClockInv, Settled, Shape
<1> HIDE DEF Unseen, Seen
<1>8. ASSUME Unlock
      PROVE  Unseen /\ Seen
  <2>1. /\ firstAppear' = firstAppear /\ firstPage' = firstPage /\ main # Idle
        /\ didSend' => didSend \/ main.cold
    BY <1>8, IdleOrBusy DEF Unlock, BaseInv
  <2>2. main.cold => firstAppear # 0
    BY <2>1, IdleOrBusy DEF DeliveryInv, Honest, BaseInv, Reports
  <2>3. firstAppear = 0 => ~didSend
    BY DEF BaseInv, ClockInv
  <2>4. firstAppear = 0 => ~didSend'
    BY <2>1, <2>2, <2>3
  <2> QED
    BY <1>7, <2>1, <2>4
<1>9. Unseen /\ Seen
  <2>1. firstAppear = 0 => ~didSend
    BY DEF BaseInv, ClockInv
  <2>2. CASE UNCHANGED coldVars
    <3>1. firstAppear' = firstAppear /\ firstPage' = firstPage /\ (firstAppear = 0 => ~didSend')
      BY <2>1, <2>2 DEF coldVars
    <3> QED
      BY <1>7, <3>1
  <2> QED
    BY <1>6, <1>8, <2>2 DEF Next, Delivery, Setup, UserLaunches, DidFinishLaunching,
       StartWithConfig, coldVars, RunBlock, Lock, Tell, WillResignActive, DidEnterBackground,
       WillEnterForeground, DidBecomeActive, Notified, AddDelegate, RemoveDelegate,
       DelegateDies, LoadPage, WillAppear, Disappear, vars
<1> QED
  BY <1>4, <1>5, <1>9 DEF ClockInv, Unseen, Seen

-----------------------------------------------------------------------------
(***************************************************************************)
(* What a step does to the deliveries: it begins one, goes on with one, or   *)
(* leaves them alone.                                                       *)
(***************************************************************************)
Begins(r, cold) ==
    /\ main' \in Deliveries /\ main'.pc = "lock" /\ main'.next = 1
    /\ main'.report = r /\ main'.cold = cold

Undelivered ==
    /\ told' = told /\ didSend' = didSend
    /\ delegates' = delegates /\ alive' = alive /\ lock' = lock

SendsLaunch ==
    /\ main = Idle /\ Undelivered /\ ~didSend /\ firstAppear' # 0
    /\ \E r \in Reports :
        /\ Begins(r, TRUE) /\ ~r.warm
        /\ r.page = firstPage'.page /\ Real(r.reboot)'

SendsPage ==
    /\ main = Idle /\ Undelivered /\ didSend
    /\ \E r \in Reports :
        /\ Begins(r, FALSE) /\ ~r.warm /\ r.reboot = 0
        /\ r.page \in Pages \ Ignored /\ ~pages[r.page].didAppear /\ pages'[r.page].didAppear

SendsWarm ==
    /\ main = Idle /\ Undelivered
    /\ \E r \in Reports : Begins(r, FALSE) /\ r.warm

\* The list may change while nobody is told, and delegates may go at any time.
LeavesAlone ==
    /\ main' = main /\ told' = told /\ didSend' = didSend /\ lock' = lock
    /\ lock = "main" => delegates' = delegates
    /\ alive' \subseteq alive
    /\ delegates' \in Seq(Delegates) /\ IsInjective(delegates')

LEMMA Delivered ==
    ASSUME NEW r \in Reports, NEW cold \in BOOLEAN, Deliver(r, cold)
    PROVE  Begins(r, cold)
BY DEF Deliver, Begins, Deliveries

\* The time told of a launch (sendColdReboot).
LEMMA RebootIsReal ==
    ASSUME Shape, ClockInv, NEW appear \in Moments
    PROVE  /\ RebootTime(appear) \in Int
           /\ appear = firstAppear /\ appear # 0 => Real(RebootTime(appear))
<1> USE UIMonitorAssumption, ClockAssumption DEF Shape, Moments
<1>1. Total(appear) \in Int
  BY DEF Total
<1>2. RebootTime(appear) \in Int
  BY <1>1 DEF RebootTime
<1>3. ASSUME appear = firstAppear, appear # 0
      PROVE  Real(RebootTime(appear))
  <2>1. Launched /\ Exec < appear /\ userLaunch <= appear /\ mainStart <= appear
    BY <1>3 DEF ClockInv
  <2>2. CASE prewarm
    <3>1. Total(appear) = appear - didFinish
      BY <2>2 DEF Total
    <3>2. CASE RanAhead
      BY <1>3, <2>1, <2>2, <3>1, <3>2 DEF Real, RebootTime
    <3>3. CASE ~RanAhead
      BY <1>3, <2>1, <2>2, <3>1, <3>3 DEF Real, RebootTime, RanAhead
    <3> QED
      BY <3>2, <3>3
  <2>3. CASE ~prewarm
    <3>1. cppInit <= mainStart /\ userLaunch = Exec
      BY <2>1, <2>3 DEF ClockInv, Launched
    <3>2. CASE execTime = 0
      <4>1. Total(appear) = appear - mainStart
        BY <2>3, <3>2 DEF Total
      <4> QED
        BY <1>3, <2>1, <2>3, <3>1, <3>2, <4>1 DEF Real, RebootTime, RanAhead
    <3>3. CASE execTime = Exec /\ execTime # 0
      <4>1. Total(appear) = 1 + (appear - mainStart)
        BY <2>3, <3>3 DEF Total
      <4> QED
        BY <1>3, <2>1, <2>3, <3>1, <3>3, <4>1 DEF Real, RebootTime, RanAhead
    <3> QED
      BY <3>2, <3>3
  <2> QED
    BY <2>2, <2>3
<1> QED
  BY <1>2, <1>3

LEMMA ColdSent ==
    ASSUME Shape, ClockInv, NEW kept \in [page: Shown, duration: Int], NEW appear \in Moments,
           SendColdReboot(kept, appear)
    PROVE  \/ main' = main
           \/ /\ ~didSend /\ kept.duration # 0
              /\ \E r \in Reports :
                  /\ Begins(r, TRUE) /\ ~r.warm
                  /\ r.page = kept.page /\ r.reboot = RebootTime(appear)
<1> DEFINE r == Report(kept.page, kept.duration, RebootTime(appear), FALSE)
<1>1. r \in Reports /\ ~r.warm /\ r.page = kept.page /\ r.reboot = RebootTime(appear)
  BY RebootIsReal DEF Report, Reports
<1>2. main' = main \/ (~didSend /\ kept.duration # 0 /\ Deliver(r, TRUE))
  BY DEF SendColdReboot
<1> HIDE DEF r
<1> QED
  BY <1>1, <1>2, Delivered

\* The same of the launch that is noted, in either state of a step.
LEMMA NotedIsReal ==
    Shape /\ ClockInv /\ firstAppear # 0 => Real(RebootTime(firstAppear))
BY RebootIsReal DEF Shape

LEMMA NotedNext ==
    ASSUME Shape', ClockInv', firstAppear' # 0,
           UNCHANGED <<prewarm, execTime, cppInit, mainStart, didFinish>>,
           NEW r, r.reboot = RebootTime(firstAppear')
    PROVE  Real(r.reboot)'
<1>1. (Shape /\ ClockInv /\ firstAppear # 0 => Real(RebootTime(firstAppear)))'
  BY NotedIsReal, PTL
<1>2. RebootTime(firstAppear)' = RebootTime(firstAppear')
  BY DEF RebootTime, Total
<1>3. Real(RebootTime(firstAppear))'
  BY <1>1
<1> QED
  BY <1>2, <1>3 DEF Real

LEMMA Moves ==
    ASSUME BaseInv, DeliveryInv, [Next]_vars
    PROVE  SendsLaunch \/ SendsPage \/ SendsWarm \/ LeavesAlone \/ Delivery
<1> DEFINE Goal == SendsLaunch \/ SendsPage \/ SendsWarm \/ LeavesAlone \/ Delivery
<1>0. Shape' /\ ClockInv' /\ Shape /\ ClockInv /\ DelegatesInv
  BY ShapeStep, ClockStep DEF BaseInv
<1>1. main' = main /\ Undelivered => LeavesAlone
  BY <1>0 DEF LeavesAlone, Undelivered, DelegatesInv
<1>2. CASE RunBlock
  <2>1. main = Idle /\ Undelivered /\ SendColdReboot(firstPage, firstAppear)
        /\ UNCHANGED <<launchVars, firstAppear, firstPage>>
    BY <1>2 DEF RunBlock, MainIsIdle, Undelivered, delegateVars, coldVars
  <2>2. firstPage \in [page: Shown, duration: Int] /\ firstAppear \in Moments
    BY <1>0 DEF Shape
  <2>3. CASE main' = main
    BY <1>1, <2>1, <2>3
  <2>4. CASE main' # main
    <3>1. PICK r \in Reports : /\ Begins(r, TRUE) /\ ~r.warm /\ r.page = firstPage.page
                              /\ r.reboot = RebootTime(firstAppear)
      BY <1>0, <2>1, <2>2, <2>4, ColdSent
    <3>2. ~didSend /\ firstPage.duration # 0
      BY <1>0, <2>1, <2>2, <2>4, ColdSent
    <3>3. firstAppear' # 0 /\ firstAppear' = firstAppear /\ firstPage' = firstPage
      BY <1>0, <2>1, <3>2 DEF ClockInv, NoPage
    <3>4. Real(r.reboot)'
      BY <1>0, <2>1, <3>1, <3>3, NotedNext DEF launchVars
    <3> QED
      BY <2>1, <3>1, <3>2, <3>3, <3>4 DEF SendsLaunch
  <2> QED
    BY <2>3, <2>4
<1>3. ASSUME NEW p \in Pages, DidAppear(p)
      PROVE  Goal
  <2> DEFINE duration == pages[p].load + pages[p].will + (now' - now)
  <2>1. main = Idle /\ Undelivered /\ UNCHANGED launchVars
    BY <1>3 DEF DidAppear, MainIsIdle, Undelivered, delegateVars
  <2>2. CASE pages[p].didAppear \/ p \in Ignored
    BY <1>1, <1>3, <2>1, <2>2 DEF DidAppear
  <2>3. CASE ~(pages[p].didAppear \/ p \in Ignored) /\ didSend
    <3>1. Deliver(Report(p, duration, 0, FALSE), FALSE)
      BY <1>3, <2>3 DEF DidAppear, PageLoadCompleted
    <3>2. Report(p, duration, 0, FALSE) \in Reports
      BY <1>0, <1>3 DEF Report, Reports, Shape, Moments, PageStates, Shown, DidAppear, Advance
    <3>3. PICK r \in Reports : Begins(r, FALSE) /\ r = Report(p, duration, 0, FALSE)
      BY <3>1, <3>2, Delivered
    <3>4. ~r.warm /\ r.reboot = 0 /\ r.page = p
      BY <3>3 DEF Report
    <3>5. pages'[p].didAppear
      BY <1>0, <1>3 DEF DidAppear, Shape, PageStates
    <3> QED
      BY <2>1, <2>3, <3>3, <3>4, <3>5 DEF SendsPage
  <2>4. CASE ~(pages[p].didAppear \/ p \in Ignored) /\ ~didSend
    <3>1. SendColdReboot(firstPage', firstAppear') /\ firstAppear' # 0
      <4>1. CASE firstAppear = 0
        BY <1>0, <1>3, <2>4, <4>1 DEF DidAppear, PageLoadCompleted, Advance, ClockInv, Shape, Moments
      <4>2. CASE firstAppear # 0
        BY <1>3, <2>4, <4>2 DEF DidAppear, PageLoadCompleted
      <4> QED
        BY <4>1, <4>2
    <3>2. firstPage' \in [page: Shown, duration: Int] /\ firstAppear' \in Moments
      BY <1>0 DEF Shape, Moments
    <3>3. CASE main' = main
      BY <1>1, <2>1, <3>3
    <3>4. CASE main' # main
      <4>1. PICK r \in Reports : /\ Begins(r, TRUE) /\ ~r.warm /\ r.page = firstPage'.page
                                /\ r.reboot = RebootTime(firstAppear')
        BY <1>0, <3>1, <3>2, <3>4, ColdSent
      <4>2. Real(r.reboot)'
        BY <1>0, <2>1, <3>1, <4>1, NotedNext DEF launchVars
      <4> QED
        BY <2>1, <2>4, <3>1, <4>1, <4>2 DEF SendsLaunch
    <3> QED
      BY <3>3, <3>4
  <2> QED
    BY <2>2, <2>3, <2>4
<1>4. CASE DidBecomeActive
  <2>1. main = Idle /\ Undelivered
    BY <1>4 DEF DidBecomeActive, Notified, MainIsIdle, Undelivered, delegateVars, coldVars
  <2>2. CASE config = "ui" /\ IsWarm
    <3> DEFINE duration == times'.active - times.foreground
               r == Report(visible, duration, duration, TRUE)
    <3>1. Deliver(r, FALSE)
      BY <1>4, <2>2 DEF DidBecomeActive
    <3>2. r \in Reports /\ r.warm
      BY <1>0 DEF Report, Reports, Shape
    <3> HIDE DEF r
    <3>3. Begins(r, FALSE)
      BY <3>1, <3>2, Delivered
    <3> QED
      BY <2>1, <3>2, <3>3 DEF SendsWarm
  <2>3. CASE ~(config = "ui" /\ IsWarm)
    BY <1>1, <1>4, <2>1, <2>3 DEF DidBecomeActive
  <2> QED
    BY <2>2, <2>3
<1>5. ASSUME NEW t \in Workers \cup {"main"}, NEW d \in Delegates,
             AddDelegate(t, d) \/ RemoveDelegate(t, d)
      PROVE  Goal
  <2>1. /\ main' = main /\ told' = told /\ didSend' = didSend /\ lock' = lock /\ alive' = alive
        /\ lock = None /\ d \in alive
        /\ delegates' = Added(delegates, alive, d) \/ delegates' = Removed(delegates, alive, d)
    BY <1>5 DEF AddDelegate, RemoveDelegate, MayChange, coldVars
  <2>2. delegates' \in Seq(Delegates) /\ IsInjective(delegates')
    BY <1>0, <2>1, AddedOnce, RemovedStays DEF DelegatesInv
  <2> QED
    BY <2>1, <2>2, UIMonitorAssumption DEF LeavesAlone
<1>6. ASSUME NEW d \in Delegates, DelegateDies(d)
      PROVE  Goal
  BY <1>0, <1>6 DEF DelegateDies, LeavesAlone, DelegatesInv, coldVars
<1>7. ASSUME NEW p \in Pages, LoadPage(p) \/ WillAppear(p) \/ Disappear(p)
      PROVE  Goal
  BY <1>1, <1>7 DEF LoadPage, WillAppear, Disappear, Undelivered, delegateVars, coldVars
<1>8. ASSUME NEW monitors \in {"ui", "other"}, StartWithConfig(monitors)
      PROVE  Goal
  BY <1>1, <1>8 DEF StartWithConfig, Undelivered, delegateVars, coldVars
<1>9. CASE Setup \/ UserLaunches \/ DidFinishLaunching
  BY <1>1, <1>9 DEF Setup, UserLaunches, DidFinishLaunching, Undelivered, delegateVars, coldVars
<1>10. CASE WillResignActive \/ DidEnterBackground \/ WillEnterForeground \/ UNCHANGED vars
  BY <1>1, <1>10 DEF WillResignActive, DidEnterBackground, WillEnterForeground, Notified, vars,
     Undelivered, delegateVars, coldVars
<1> QED
  BY <1>2, <1>3, <1>4, <1>5, <1>6, <1>7, <1>8, <1>9, <1>10 DEF Next

-----------------------------------------------------------------------------
(***************************************************************************)
(* What was told stays true.                                               *)
(***************************************************************************)
LEMMA HonestStays ==
    ASSUME BaseInv, [Next]_vars, NEW r, Honest(r)
    PROVE  Honest(r)' /\ firstPage' = firstPage
<1>1. firstAppear # 0 /\ r.page \in Pages
  BY DEF Honest
<1>2. /\ UNCHANGED <<prewarm, execTime, cppInit, mainStart, userLaunch, firstAppear, firstPage>>
      /\ RanAhead' = RanAhead /\ (RanAhead => didFinish' = didFinish)
  BY <1>1, LaunchSettles DEF Settled
<1>3. pages'[r.page].didAppear
  BY <1>1, PagesGain DEF Honest
<1>4. Real(r.reboot) => Real(r.reboot)'
  BY <1>2 DEF Real
<1> QED
  BY <1>1, <1>2, <1>3, <1>4 DEF Honest

LEMMA ToldStays ==
    ASSUME BaseInv, ToldInv, LaunchThenPages, [Next]_vars, told' = told
    PROVE  /\ LaunchThenPages'
           /\ \A d \in Delegates : \A i \in DOMAIN told[d] :
                ~told[d][i].warm => Honest(told[d][i]) /\ Honest(told[d][i])' /\ firstPage' = firstPage
<1>1. ASSUME NEW d \in Delegates, NEW i \in DOMAIN told[d], ~told[d][i].warm
      PROVE  Honest(told[d][i]) /\ Honest(told[d][i])' /\ firstPage' = firstPage
  <2>1. PICK r : r = told[d][i]
    OBVIOUS
  <2>2. Honest(r)
    BY <1>1, <2>1 DEF ToldInv
  <2>3. Honest(r)' /\ firstPage' = firstPage
    BY <2>2, HonestStays
  <2>4. r = told'[d][i]
    BY <2>1
  <2> QED
    BY <2>1, <2>2, <2>3, <2>4 DEF Honest, Real
<1>2. LaunchThenPages'
  BY <1>1 DEF LaunchThenPages
<1> QED
  BY <1>1, <1>2

LEMMA AloneKeeps ==
    ASSUME Inv, [Next]_vars, LeavesAlone
    PROVE  DelegatesInv' /\ LockInv' /\ LaunchInv'
<1> USE DEF Inv, BaseInv, LaunchInv
<1>1. DelegatesInv' /\ LockInv'
  BY DEF LeavesAlone, DelegatesInv, LockInv, Idle
<1>2. main' = main /\ told' = told /\ didSend' = didSend
  BY DEF LeavesAlone
<1>3. main.pc = "tell" => delegates' = delegates
  BY DEF LeavesAlone, LockInv
<1>4. LaunchThenPages' /\ \A d \in Delegates : \A i \in DOMAIN told[d] :
        ~told[d][i].warm => Honest(told[d][i]) /\ Honest(told[d][i])'
  BY <1>2, ToldStays
<1>5. DeliveryInv'
  <2>1. PICK r : r = main.report
    OBVIOUS
  <2>2. Honest(r) => Honest(r)' /\ firstPage' = firstPage
    BY HonestStays
  <2>3. r = main'.report
    BY <1>2, <2>1
  <2>4. Honest(main.report) => Honest(main.report)' /\ firstPage' = firstPage
    BY <2>1, <2>2, <2>3 DEF Honest, Real
  <2> QED
    BY <1>2, <2>4 DEF DeliveryInv, Idle
<1>6. ToldInv'
  <2> SUFFICES ASSUME NEW d \in Delegates, NEW i \in DOMAIN told'[d], ~told'[d][i].warm
               PROVE  /\ Honest(told[d][i])'
                      /\ didSend' \/ (main' # Idle /\ main'.cold)
                      /\ Excluded(told[d][i])' => Reached(d)'
    BY DEF ToldInv, Idle
  <2>1. i \in DOMAIN told[d] /\ ~told[d][i].warm
    BY <1>2
  <2>2. /\ didSend \/ (main # Idle /\ main.cold)
        /\ Excluded(told[d][i]) => Reached(d)
    BY <2>1 DEF ToldInv
  <2>3. Excluded(told[d][i])' => Excluded(told[d][i])
    BY <1>2 DEF Excluded, Idle
  <2>4. Reached(d) => Reached(d)'
    BY <1>2, <1>3 DEF Reached
  <2> QED
    BY <1>2, <1>4, <2>1, <2>2, <2>3, <2>4
<1>7. PassedInv'
  <2>1. alive' \subseteq alive
    BY DEF LeavesAlone
  <2> QED
    BY <1>2, <1>3, <2>1 DEF PassedInv
<1> QED
  BY <1>1, <1>4, <1>5, <1>6, <1>7

LEMMA BeginningKeeps ==
    ASSUME Inv, [Next]_vars, SendsLaunch \/ SendsPage \/ SendsWarm
    PROVE  DelegatesInv' /\ LockInv' /\ LaunchInv'
<1> USE DEF Inv, BaseInv, LaunchInv
<1>1. main = Idle /\ told' = told /\ didSend' = didSend /\ delegates' = delegates /\ alive' = alive
      /\ lock' = lock
  BY DEF SendsLaunch, SendsPage, SendsWarm, Undelivered
<1>2. main' \in Deliveries /\ main'.pc = "lock" /\ main'.next = 1 /\ main' # Idle
  BY DEF SendsLaunch, SendsPage, SendsWarm, Begins, Idle, Deliveries
<1>3. DelegatesInv' /\ LockInv' /\ PassedInv'
  BY <1>1, <1>2 DEF DelegatesInv, LockInv, PassedInv, Idle
<1>4. LaunchThenPages' /\ \A d \in Delegates : \A i \in DOMAIN told[d] :
        ~told[d][i].warm => Honest(told[d][i]) /\ Honest(told[d][i])' /\ firstPage' = firstPage
  BY <1>1, ToldStays
<1>5. ClockInv'
  BY ClockStep
<1>6. \A d \in Delegates : \A i \in DOMAIN told[d] : ~told[d][i].warm => didSend
  BY <1>1 DEF ToldInv
<1>7. DeliveryInv' /\ ToldInv'
  <2>1. CASE SendsLaunch
    <3>1. PICK r \in Reports : /\ Begins(r, TRUE) /\ ~r.warm
                              /\ r.page = firstPage'.page /\ Real(r.reboot)'
      BY <2>1 DEF SendsLaunch
    <3>2. ~didSend /\ firstAppear' # 0
      BY <2>1 DEF SendsLaunch
    <3>3. Honest(r)'
      BY <1>5, <3>1, <3>2 DEF Honest, ClockInv
    <3>4. main'.report = r /\ main'.cold = TRUE
      BY <3>1 DEF Begins
    <3>5. DeliveryInv'
      BY <1>1, <3>1, <3>2, <3>3, <3>4 DEF DeliveryInv, Honest, Real
    <3>6. ToldInv'
      BY <1>1, <1>6, <3>2 DEF ToldInv
    <3> QED
      BY <3>5, <3>6
  <2>2. CASE SendsPage
    <3>1. PICK r \in Reports : /\ Begins(r, FALSE) /\ ~r.warm /\ r.reboot = 0
                              /\ r.page \in Pages \ Ignored /\ ~pages[r.page].didAppear
                              /\ pages'[r.page].didAppear
      BY <2>2 DEF SendsPage
    <3>2. didSend /\ firstAppear # 0 /\ pages[firstPage.page].didAppear
      BY <2>2 DEF SendsPage, ClockInv
    <3>3. firstAppear' = firstAppear /\ firstPage' = firstPage
      BY <3>2, LaunchSettles DEF Settled
    <3>4. r.page # firstPage.page
      BY <3>1, <3>2
    <3>5. main'.report = r /\ main'.cold = FALSE
      BY <3>1 DEF Begins
    <3>6. Honest(r)'
      BY <3>1, <3>2, <3>3, <3>4 DEF Honest
    <3>7. DeliveryInv'
      BY <1>1, <3>1, <3>2, <3>3, <3>4, <3>5, <3>6 DEF DeliveryInv, Honest, Real
    <3>8. ASSUME NEW d \in Delegates, NEW i \in DOMAIN told[d], ~told[d][i].warm
          PROVE  Honest(told[d][i])' /\ ~Excluded(told[d][i])'
      <4>1. told[d][i].page # r.page
        BY <1>4, <3>1, <3>8 DEF Honest
      <4> QED
        BY <1>1, <1>4, <3>5, <3>8, <4>1 DEF Excluded
    <3>9. ToldInv'
      <4> SUFFICES ASSUME NEW d \in Delegates, NEW i \in DOMAIN told'[d], ~told'[d][i].warm
                   PROVE  /\ Honest(told[d][i])'
                          /\ didSend' \/ (main' # Idle /\ main'.cold)
                          /\ Excluded(told[d][i])' => Reached(d)'
        BY DEF ToldInv, Idle
      <4> QED
        BY <1>1, <3>2, <3>8
    <3> QED
      BY <3>7, <3>9
  <2>3. CASE SendsWarm
    <3>1. main'.report.warm /\ main'.cold = FALSE
      BY <2>3 DEF SendsWarm, Begins
    <3>2. DeliveryInv'
      BY <3>1 DEF DeliveryInv
    <3>3. ASSUME NEW d \in Delegates, NEW i \in DOMAIN told[d], ~told[d][i].warm
          PROVE  Honest(told[d][i])' /\ ~Excluded(told[d][i])' /\ didSend'
      BY <1>1, <1>4, <1>6, <3>1, <3>3 DEF Excluded
    <3>4. ToldInv'
      <4> SUFFICES ASSUME NEW d \in Delegates, NEW i \in DOMAIN told'[d], ~told'[d][i].warm
                   PROVE  /\ Honest(told[d][i])'
                          /\ didSend' \/ (main' # Idle /\ main'.cold)
                          /\ Excluded(told[d][i])' => Reached(d)'
        BY DEF ToldInv, Idle
      <4> QED
        BY <1>1, <3>3
    <3> QED
      BY <3>2, <3>4
  <2> QED
    BY <2>1, <2>2, <2>3
<1> QED
  BY <1>3, <1>4, <1>7

-----------------------------------------------------------------------------
(***************************************************************************)
(* A delivery: the lock, one delegate after the other, and the end.          *)
(***************************************************************************)
LEMMA LockKeeps ==
    ASSUME Inv, [Next]_vars, Lock
    PROVE  DelegatesInv' /\ LockInv' /\ LaunchInv'
<1> USE DEF Inv, BaseInv, LaunchInv
<1>1. main \in Deliveries /\ main.pc = "lock" /\ main # Idle
  BY IdleOrBusy DEF Lock
<1>2. main' = [main EXCEPT !.pc = "tell"] /\ lock' = "main"
      /\ UNCHANGED <<launchVars, firstAppear, firstPage, didSend, pages, delegates, alive, told>>
  BY DEF Lock, coldVars, pageVars
<1>3. main' \in Deliveries /\ main'.pc = "tell" /\ main' # Idle /\ main'.report = main.report
      /\ main'.cold = main.cold
  BY <1>1, <1>2 DEF Deliveries, Idle
<1>4. DelegatesInv' /\ LockInv'
  BY <1>2, <1>3 DEF DelegatesInv, LockInv
<1>5. DeliveryInv'
  BY <1>1, <1>2, <1>3 DEF DeliveryInv, Honest, Real, RanAhead, launchVars
<1>6. LaunchThenPages'
  BY <1>2 DEF LaunchThenPages
<1>7. ToldInv'
  <2> SUFFICES ASSUME NEW d \in Delegates, NEW i \in DOMAIN told'[d], ~told'[d][i].warm
               PROVE  /\ Honest(told[d][i])'
                      /\ didSend' \/ (main' # Idle /\ main'.cold)
                      /\ Excluded(told[d][i])' => Reached(d)'
    BY DEF ToldInv, Idle
  <2>1. i \in DOMAIN told[d] /\ ~told[d][i].warm
    BY <1>2
  <2>2. Honest(told[d][i]) /\ (didSend \/ main.cold) /\ ~Excluded(told[d][i])
    BY <1>1, <2>1 DEF ToldInv, Reached
  <2> QED
    <3>1. Honest(told[d][i])'
      BY <1>2, <2>2 DEF Honest, Real, RanAhead, launchVars
    <3>2. ~Excluded(told[d][i])'
      BY <1>1, <1>2, <1>3, <2>2 DEF Excluded
    <3> QED
      BY <1>2, <1>3, <2>2, <3>1, <3>2
<1>8. PassedInv'
  <2>1. main'.next = 1 /\ DOMAIN delegates' = 1 .. Len(delegates') /\ Len(delegates') \in Nat
    BY <1>1, <1>2, <1>4 DEF LockInv, DelegatesInv, Deliveries
  <2> QED
    BY <2>1 DEF PassedInv
<1> QED
  BY <1>4, <1>5, <1>6, <1>7, <1>8

\* A report is added to what one delegate was told.
LEMMA Appended ==
    ASSUME NEW s \in Seq(Reports), NEW r \in Reports
    PROVE  /\ Append(s, r) \in Seq(Reports) /\ DOMAIN Append(s, r) = 1 .. Len(s) + 1
           /\ DOMAIN s = 1 .. Len(s) /\ Len(s) \in Nat
           /\ \A i \in 1 .. Len(s) : Append(s, r)[i] = s[i]
           /\ Append(s, r)[Len(s) + 1] = r
           /\ Append(s, r) # <<>> /\ Last(Append(s, r)) = r
BY DEF Last

LEMMA TellKeeps ==
    ASSUME Inv, [Next]_vars, Tell
    PROVE  DelegatesInv' /\ LockInv' /\ LaunchInv'
<1> USE DEF Inv, BaseInv, LaunchInv
<1> DEFINE n == main.next
           report == main.report
<1>1. /\ main \in Deliveries /\ main.pc = "tell" /\ main # Idle /\ report \in Reports
      /\ n \in DOMAIN delegates /\ n \in Nat
  BY IdleOrBusy DEF Tell, DelegatesInv, Deliveries
<1>2. main' = [main EXCEPT !.next = n + 1]
      /\ UNCHANGED <<launchVars, firstAppear, firstPage, didSend, pages, delegates, alive, lock>>
  BY DEF Tell, coldVars, pageVars, delegateVars
<1>3. /\ main' \in Deliveries /\ main'.pc = "tell" /\ main' # Idle /\ main'.report = report
      /\ main'.cold = main.cold /\ main'.next = n + 1
  BY <1>1, <1>2 DEF Deliveries, Idle
<1>4. PICK d0 \in Delegates : d0 = delegates[n]
  BY <1>1 DEF DelegatesInv
<1>5. IF d0 \in alive \cap Responders
      THEN told' = [told EXCEPT ![d0] = Append(@, report)] ELSE told' = told
  BY <1>4 DEF Tell
<1>6. LockInv'
  BY <1>2, <1>3 DEF LockInv
<1>7. DeliveryInv'
  BY <1>1, <1>2, <1>3 DEF DeliveryInv, Honest, Real, RanAhead, launchVars
<1>8. ASSUME NEW r, Honest(r)
      PROVE  Honest(r)'
  BY <1>2, <1>8 DEF Honest, Real, RanAhead, launchVars
<1>9. \A d \in Delegates : Reached(d) => Reached(d)'
  BY <1>1, <1>2, <1>3 DEF Reached, DelegatesInv
<1>10. Reached(d0)' /\ ~Reached(d0)
  BY <1>1, <1>2, <1>3, <1>4 DEF Reached, DelegatesInv, IsInjective
<1>11. told \in [Delegates -> Seq(Reports)] /\ told[d0] \in Seq(Reports)
  BY DEF DelegatesInv
\* What was told before, and how it stands to what is delivered.
<1>12. ASSUME NEW d \in Delegates, NEW i \in DOMAIN told[d], ~told[d][i].warm
       PROVE  /\ Honest(told[d][i]) /\ (didSend \/ main.cold)
              /\ report.warm \/ (~main.cold /\ told[d][i].page # report.page) \/ Reached(d)
  BY <1>1, <1>12 DEF ToldInv, Excluded
<1>13. ~report.warm => /\ Honest(report) /\ (didSend \/ main.cold)
                       /\ main.cold <=> report.page = firstPage.page
  BY <1>1 DEF DeliveryInv
<1>14. CASE d0 \notin alive \cap Responders
  <2>1. told' = told
    BY <1>5, <1>14
  <2>2. DelegatesInv' /\ LaunchThenPages'
    BY <1>2, <2>1 DEF DelegatesInv, LaunchThenPages
  <2>3. PassedInv'
    BY <1>2, <1>3, <1>1, <1>4, <1>14, <2>1 DEF PassedInv, DelegatesInv
  <2>4. ToldInv'
    <3> SUFFICES ASSUME NEW d \in Delegates, NEW i \in DOMAIN told'[d], ~told'[d][i].warm
                 PROVE  /\ Honest(told[d][i])'
                        /\ didSend' \/ (main' # Idle /\ main'.cold)
                        /\ Excluded(told[d][i])' => Reached(d)'
      BY DEF ToldInv, Idle
    <3>1. PICK r : r = told[d][i] /\ r = told'[d][i]
      BY <2>1
    <3>2. Honest(r)' /\ (didSend \/ main.cold)
      BY <2>1, <3>1, <1>8, <1>12
    <3>3. Honest(told[d][i])'
      BY <3>1, <3>2 DEF Honest, Real
    <3>4. Excluded(told[d][i])' => Reached(d)
      BY <1>1, <1>3, <1>12, <2>1 DEF Excluded
    <3> QED
      BY <1>2, <1>3, <1>9, <3>2, <3>3, <3>4
  <2> QED
    BY <1>6, <1>7, <2>2, <2>3, <2>4
<1>15. CASE d0 \in alive \cap Responders
  <2> DEFINE old == told[d0]
  <2>1. told' = [told EXCEPT ![d0] = Append(old, report)]
    BY <1>5, <1>15
  <2>2. told'[d0] = Append(old, report) /\ \A d \in Delegates \ {d0} : told'[d] = told[d]
    BY <2>1, <1>11
  <2>3. /\ Append(old, report) \in Seq(Reports)
        /\ DOMAIN Append(old, report) = 1 .. Len(old) + 1
        /\ DOMAIN old = 1 .. Len(old) /\ Len(old) \in Nat
        /\ \A i \in 1 .. Len(old) : Append(old, report)[i] = old[i]
        /\ Append(old, report)[Len(old) + 1] = report
        /\ Append(old, report) # <<>> /\ Last(Append(old, report)) = report
    BY <1>1, <1>11, Appended
  <2>4. DelegatesInv'
    BY <1>2, <1>11, <2>1, <2>3 DEF DelegatesInv
  <2>5. PassedInv'
    <3> SUFFICES ASSUME NEW k \in DOMAIN delegates, k < n + 1, delegates[k] \in alive \cap Responders
                 PROVE  told'[delegates[k]] # <<>> /\ Last(told'[delegates[k]]) = report
      BY <1>2, <1>3 DEF PassedInv
    <3>1. CASE k = n
      BY <1>4, <2>2, <2>3, <3>1
    <3>2. CASE k # n
      <4>1. k < n
        BY <1>1, <3>2 DEF DelegatesInv
      <4>2. delegates[k] # d0 /\ delegates[k] \in Delegates
        BY <1>1, <1>4, <3>2 DEF DelegatesInv, IsInjective
      <4>3. told[delegates[k]] # <<>> /\ Last(told[delegates[k]]) = report
        BY <1>1, <4>1 DEF PassedInv
      <4> QED
        BY <2>2, <4>2, <4>3
    <3> QED
      BY <3>1, <3>2
  <2>6. ToldInv'
    <3> SUFFICES ASSUME NEW d \in Delegates, NEW i \in DOMAIN told'[d], ~told'[d][i].warm
                 PROVE  /\ Honest(told[d][i])'
                        /\ didSend' \/ (main' # Idle /\ main'.cold)
                        /\ Excluded(told[d][i])' => Reached(d)'
      BY DEF ToldInv, Idle
    <3>1. PICK r : r = told'[d][i]
      OBVIOUS
    <3>2. CASE d = d0 /\ i = Len(old) + 1
      <4>1. r = report /\ ~report.warm
        BY <2>2, <2>3, <3>1, <3>2
      <4>2. Honest(r)' /\ (didSend \/ main.cold)
        BY <1>8, <1>13, <4>1
      <4>3. Honest(told[d][i])'
        BY <3>1, <4>2 DEF Honest, Real
      <4> QED
        BY <1>2, <1>3, <1>10, <3>2, <4>2, <4>3
    <3>3. CASE ~(d = d0 /\ i = Len(old) + 1)
      <4>1. i \in DOMAIN told[d] /\ told[d][i] = r
        BY <2>2, <2>3, <3>1, <3>3
      <4>2. Honest(r) /\ (didSend \/ main.cold)
            /\ (report.warm \/ (~main.cold /\ r.page # report.page) \/ Reached(d))
        BY <1>12, <3>1, <4>1
      <4>3. Honest(r)'
        BY <1>8, <4>2
      <4>4. Honest(told[d][i])'
        BY <3>1, <4>3 DEF Honest, Real
      <4>5. Excluded(told[d][i])' => Reached(d)
        BY <1>3, <3>1, <4>2 DEF Excluded
      <4> QED
        BY <1>2, <1>3, <1>9, <4>2, <4>4, <4>5
    <3> QED
      BY <3>2, <3>3
  <2>7. LaunchThenPages'
    <3> SUFFICES ASSUME NEW d \in Delegates, NEW i \in DOMAIN told'[d], ~told'[d][i].warm
                 PROVE  /\ told'[d][i].page \notin Ignored
                        /\ \A j \in 1 .. i - 1 : ~told'[d][j].warm =>
                              told'[d][i].page \notin {told'[d][j].page, firstPage.page}
      BY <1>2 DEF LaunchThenPages
    <3>1. CASE d = d0 /\ i = Len(old) + 1
      <4>1. told'[d][i] = report /\ ~report.warm
        BY <2>2, <2>3, <3>1
      <4>2. report.page \notin Ignored
        BY <1>13, <4>1 DEF Honest
      <4>3. ASSUME NEW j \in 1 .. i - 1, ~told'[d][j].warm
            PROVE  report.page \notin {told'[d][j].page, firstPage.page}
        <5>1. j \in DOMAIN told[d] /\ told'[d][j] = told[d][j]
          BY <2>2, <2>3, <3>1, <4>3
        <5>2. ~main.cold /\ told[d][j].page # report.page
          BY <1>10, <1>12, <3>1, <4>1, <4>3, <5>1
        <5> QED
          BY <1>13, <4>1, <5>1, <5>2
      <4> QED
        BY <4>1, <4>2, <4>3
    <3>2. CASE ~(d = d0 /\ i = Len(old) + 1)
      <4>1. i \in DOMAIN told[d] /\ told'[d][i] = told[d][i]
            /\ \A j \in 1 .. i - 1 : told'[d][j] = told[d][j]
        <5>1. CASE d # d0
          BY <2>2, <5>1
        <5>2. CASE d = d0
          <6>1. i \in 1 .. Len(old)
            BY <2>2, <2>3, <3>2, <5>2
          <6>2. \A j \in 1 .. i - 1 : j \in 1 .. Len(old)
            BY <2>3, <6>1
          <6> QED
            BY <2>2, <2>3, <5>2, <6>1, <6>2
        <5> QED
          BY <5>1, <5>2
      <4> QED
        BY <4>1 DEF LaunchThenPages
    <3> QED
      BY <3>1, <3>2
  <2> QED
    BY <1>6, <1>7, <2>4, <2>5, <2>6, <2>7
<1> QED
  BY <1>14, <1>15

LEMMA UnlockKeeps ==
    ASSUME Inv, [Next]_vars, Unlock
    PROVE  DelegatesInv' /\ LockInv' /\ LaunchInv'
<1> USE DEF Inv, BaseInv, LaunchInv
<1>1. main \in Deliveries /\ main.pc = "tell" /\ main # Idle
  BY IdleOrBusy DEF Unlock
<1>2. main' = Idle /\ lock' = None
      /\ UNCHANGED <<launchVars, firstAppear, firstPage, pages, delegates, alive, told>>
  BY DEF Unlock, pageVars
<1>3. DelegatesInv' /\ LockInv' /\ DeliveryInv' /\ PassedInv'
  BY <1>2, UIMonitorAssumption DEF DelegatesInv, LockInv, DeliveryInv, PassedInv, Idle
<1>4. LaunchThenPages'
  BY <1>2 DEF LaunchThenPages
<1>5. didSend \/ main.cold => didSend'
  BY DEF Unlock
<1>6. ToldInv'
  <2> SUFFICES ASSUME NEW d \in Delegates, NEW i \in DOMAIN told'[d], ~told'[d][i].warm
               PROVE  /\ Honest(told[d][i])'
                      /\ didSend' \/ (main' # Idle /\ main'.cold)
                      /\ Excluded(told[d][i])' => Reached(d)'
    BY DEF ToldInv, Idle
  <2>1. Honest(told[d][i]) /\ (didSend \/ main.cold)
    BY <1>2 DEF ToldInv
  <2>2. Honest(told[d][i])'
    BY <1>2, <2>1 DEF Honest, Real, RanAhead, launchVars
  <2>3. ~Excluded(told[d][i])'
    BY <1>2 DEF Excluded, Idle
  <2> QED
    BY <1>5, <2>1, <2>2, <2>3
<1> QED
  BY <1>3, <1>4, <1>6

-----------------------------------------------------------------------------
LEMMA InvInit ==
    ASSUME Init
    PROVE  Inv
<1> USE UIMonitorAssumption, ClockAssumption DEF Init
<1>1. Shape
  <2>1. NewPage \in PageStates
    BY DEF NewPage, PageStates, Stages
  <2>2. pages \in [Pages -> PageStates]
    BY <2>1
  <2>3. firstPage \in [page: Shown, duration: Int]
    BY DEF NoPage, Shown
  <2>4. times \in [resign: Nat, background: Nat, foreground: Nat, active: Nat]
    OBVIOUS
  <2>5. {0, Exec, Exec + 1} \subseteq Moments
    BY DEF Moments
  <2>6. now \in Moments /\ mainStart \in Moments /\ didFinish \in Moments
        /\ userLaunch \in Moments /\ firstAppear \in Moments
    BY <2>5
  <2>7. prewarm \in BOOLEAN /\ didSend \in BOOLEAN
    OBVIOUS
  <2>8. /\ blocks \in 0 .. 1 /\ (config = "none" => blocks = 0)
        /\ execTime \in {0, Exec} /\ cppInit = Exec + 1
    OBVIOUS
  <2>9. config \in {"none", "ui", "other"} /\ visible \in Shown
    BY DEF Shown
  <2> QED
    BY <2>2, <2>3, <2>4, <2>6, <2>7, <2>8, <2>9 DEF Shape
<1>2. DelegatesInv /\ LockInv
  BY DEF DelegatesInv, LockInv, Idle, IsInjective
<1>3. ClockInv
  BY DEF ClockInv, NewPage, NoPage
<1>4. LaunchInv
  BY DEF LaunchInv, DeliveryInv, ToldInv, LaunchThenPages, PassedInv, Idle
<1> QED
  BY <1>1, <1>2, <1>3, <1>4 DEF Inv, BaseInv

LEMMA InvStep ==
    ASSUME Inv, [Next]_vars
    PROVE  Inv'
<1>1. BaseInv /\ DeliveryInv
  BY DEF Inv, LaunchInv
<1>2. Shape' /\ ClockInv'
  BY <1>1, ShapeStep, ClockStep
<1>3. DelegatesInv' /\ LockInv' /\ LaunchInv'
  BY <1>1, Moves, AloneKeeps, BeginningKeeps, LockKeeps, TellKeeps, UnlockKeeps DEF Delivery
<1> QED
  BY <1>2, <1>3 DEF Inv, BaseInv

LEMMA Invariance == Spec => []Inv
<1>1. Init => Inv
  BY InvInit
<1>2. Inv /\ [Next]_vars => Inv'
  BY InvStep
<1> QED
  BY <1>1, <1>2, PTL DEF Spec

\* Every variable has its type: in particular the lock is held exactly while
\* delegates are told, and the block of a late start is queued once.
THEOREM TypeCorrect == Spec => []TypeOK
<1>1. Inv => TypeOK
  BY DEF Inv, BaseInv, Shape, DelegatesInv, LockInv, Moments, Shown, TypeOK
<1> QED
  BY <1>1, Invariance, PTL

\* Every delegate is told of the launch at most once, before any other page, then
\* of each page once.  The time it is told of is one the user has waited, unless
\* didFinishLaunching ran while the process was prewarmed: then it may also be the
\* time since then (sendColdReboot, pageLoadCompletedWithViewController).
THEOREM LaunchesAreReported == Spec => []LaunchIsReported
<1>1. Inv => LaunchTimeIsReal
  BY DEF Inv, LaunchInv, ToldInv, Honest, Real, LaunchTimeIsReal
<1>2. Inv => LaunchIsReported
  BY <1>1 DEF Inv, LaunchInv, LaunchIsReported
<1> QED
  BY <1>2, Invariance, PTL

\* Whatever threads add and remove, and whatever delegates go, a delivery ends
\* only when each delegate that is in the list and lives was told (delegateLock).
THEOREM DeliveriesReachAll == Spec => WholeListTold
<1> DEFINE Ending == main.pc = "tell" /\ main' = Idle =>
        \A d \in alive \cap Responders \cap ToSet(delegates) :
            told[d] # <<>> /\ Last(told[d]) = main.report
<1>1. Inv /\ [Next]_vars => [Ending]_vars
  <2> SUFFICES ASSUME Inv, [Next]_vars, main.pc = "tell", main' = Idle
               PROVE  Ending
    OBVIOUS
  <2>1. main' # main /\ main # Idle
    BY IdleOrBusy DEF Idle, Inv, BaseInv
  <2>2. CASE Unlock
    <3>1. main.next > Len(delegates) /\ main.next \in Nat /\ Len(delegates) \in Nat
          /\ DOMAIN delegates = 1 .. Len(delegates)
      BY <2>1, <2>2, IdleOrBusy DEF Unlock, Inv, BaseInv, DelegatesInv, Deliveries
    <3> QED
      BY <3>1 DEF ToSet, PassedInv, Inv, LaunchInv
  <2>3. CASE ~Unlock
    <3>1. ~Lock /\ ~Tell
      BY <2>1, IdleOrBusy DEF Lock, Tell, Idle, Inv, BaseInv, Deliveries
    <3>2. SendsLaunch \/ SendsPage \/ SendsWarm \/ LeavesAlone
      BY <2>3, <3>1, Moves DEF Delivery, Inv, LaunchInv
    <3> QED
      BY <2>1, <3>2 DEF SendsLaunch, SendsPage, SendsWarm, LeavesAlone
  <2> QED
    BY <2>2, <2>3
<1> QED
  BY <1>1, Invariance, PTL DEF Spec, WholeListTold
=============================================================================
