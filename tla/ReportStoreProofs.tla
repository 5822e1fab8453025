-------------------------- MODULE ReportStoreProofs --------------------------
(***************************************************************************)
(* Proofs about the report store, for any number of launches, threads and    *)
(* reports.                                                                *)
(*                                                                         *)
(*  IDs: the only state that survives a launch is the clock, so IDInv ties   *)
(*  every ID to the clock: the next ID is the time of the launch in units    *)
(*  of Shift plus the number of IDs taken, with no carry from the low half   *)
(*  into the high one, and all earlier IDs are below.                       *)
(*                                                                         *)
(*  The log: StoreInv adds who owns a file.  A file that is not complete     *)
(*  belongs to the thread that writes it or to nobody any more, and a        *)
(*  complete file is never written again, since every writer works under     *)
(*  the ID of its own request.  With it every step of the store is a step    *)
(*  of ReportLog or leaves the log alone, and pruning removes the oldest.    *)
(*                                                                         *)
(*  Delivery: with one thread, AloneInv says where the reports at risk are:  *)
(*  on disk, in what the thread still has to read or will hand over, and in  *)
(*  every delivery that saw them; none is at risk while the directory is     *)
(*  emptied.                                                                *)
(***************************************************************************)
EXTENDS ReportStore, FiniteSetTheorems, SequenceTheorems, TLAPS

IDTypeOK ==
    /\ now \in Nat /\ now > 0
    /\ high \in Nat /\ low \in Nat
    /\ taken \in 0 .. Shift
    /\ requests \in 0 .. MaxRequests
    /\ issued \in [Requests -> Nat]

IDInv ==
    /\ IDTypeOK
    /\ taken < Shift =>
         /\ high = High(BaseID(now))
         /\ low = Low(BaseID(now)) + taken
    /\ \A r \in 1 .. requests : issued[r] < BaseID(now) + taken

(***************************************************************************)
(* Arithmetic of the IDs.                                                   *)
(***************************************************************************)
LEMMA DivMod ==
    ASSUME NEW n \in Nat, NEW d \in Nat \ {0}
    PROVE  /\ n \div d \in Nat
           /\ n % d \in Nat /\ n % d < d
           /\ n = d * (n \div d) + (n % d)
  BY SMTT(30)

LEMMA Distribute ==
    ASSUME NEW a \in Nat, NEW b \in Nat, NEW c \in Nat
    PROVE  /\ a * b \in Nat /\ a * b = b * a
           /\ (a + b) * c = a * c + b * c
           /\ (a * b) * c = (a * c) * b
           /\ a <= b => a * c <= b * c
  <1>1. a * b \in Nat /\ a * b = b * a
    BY SMT
  <1>2. (a + b) * c = a * c + b * c
    BY SMT
  <1>3. (a * b) * c = (a * c) * b
    BY SMT
  <1>4. a <= b => a * c <= b * c
    <2> SUFFICES ASSUME a <= b PROVE a * c <= b * c
      OBVIOUS
    <2>1. PICK d \in Nat : b = a + d
      <3>1. b - a \in Nat /\ b = a + (b - a)
        OBVIOUS
      <3> QED
        BY <3>1
    <2>2. (a + d) * c = a * c + d * c
      BY SMT
    <2>3. a * c \in Nat /\ d * c \in Nat
      BY SMT
    <2> QED
      BY <2>1, <2>2, <2>3
  <1> QED
    BY <1>1, <1>2, <1>3, <1>4

\* A later second has a larger number: minutes are SecondsPerMinute + 1 apart.
LEMMA BaseIncreases ==
    ASSUME NEW t \in Nat, NEW u \in Nat, t < u
    PROVE  Base(t) \in Nat /\ Base(u) \in Nat /\ Base(t) < Base(u)
  <1> DEFINE S == SecondsPerMinute
             p == t \div S
             q == u \div S
  <1>1. S \in Nat \ {0}
    BY StoreAssumption
  <1>2. p \in Nat /\ t % S \in Nat /\ t % S < S /\ t = S * p + (t % S)
    BY <1>1, DivMod
  <1>3. q \in Nat /\ u % S \in Nat /\ u % S < S /\ u = S * q + (u % S)
    BY <1>1, DivMod
  <1>4. Base(t) = t + p
    <2>1. p * (S + 1) = S * p + p
      BY <1>1, <1>2, SMT
    <2>2. Base(t) = (t % S) + p * (S + 1)
      BY DEF Base
    <2>3. S * p \in Nat /\ S * p = p * S
      BY <1>1, <1>2, Distribute
    <2> HIDE DEF p, q, S
    <2> QED
      BY <1>1, <1>2, <2>1, <2>2, <2>3
  <1>5. Base(u) = u + q
    <2>1. q * (S + 1) = S * q + q
      BY <1>1, <1>3, SMT
    <2>2. Base(u) = (u % S) + q * (S + 1)
      BY DEF Base
    <2>3. S * q \in Nat /\ S * q = q * S
      BY <1>1, <1>3, Distribute
    <2> HIDE DEF p, q, S
    <2> QED
      BY <1>1, <1>3, <2>1, <2>2, <2>3
  <1>6. p <= q
    <2> SUFFICES ASSUME q < p PROVE FALSE
      BY <1>2, <1>3
    <2>1. q + 1 <= p
      BY <1>2, <1>3
    <2>2. S * (q + 1) <= S * p
      BY <1>1, <1>2, <1>3, <2>1, SMT
    <2>3. S * (q + 1) = S * q + S
      BY <1>1, <1>3, SMT
    <2> HIDE DEF p, q, S
    <2> QED
      BY <1>1, <1>2, <1>3, <2>2, <2>3, SMT
  <1> HIDE DEF p, q, S
  <1> QED
    BY <1>2, <1>3, <1>4, <1>5, <1>6

\* Shift divides LowMod: a launch starts with room for Shift IDs in the low half.
LEMMA LowHasRoom ==
    ASSUME NEW b \in Nat
    PROVE  Low(b * Shift) \in Nat /\ Low(b * Shift) + Shift <= LowMod
  <1>1. PICK k \in 1 .. LowMod : LowMod = k * Shift
    BY StoreAssumption
  <1>2. Shift \in Nat \ {0} /\ k \in Nat \ {0} /\ LowMod \in Nat \ {0}
    BY <1>1, StoreAssumption
  <1> DEFINE q == b \div k
             r == b % k
             x == b * Shift
             y == x \div LowMod
             z == x % LowMod
  <1>3. q \in Nat /\ r \in Nat /\ r < k /\ b = k * q + r
    BY <1>2, DivMod
  <1>4. x \in Nat
    BY <1>2, SMT
  <1>5. y \in Nat /\ z \in Nat /\ z < LowMod /\ x = LowMod * y + z
    BY <1>2, <1>4, DivMod
  <1>6. x = LowMod * q + r * Shift
    <2>1. (k * q + r) * Shift = (k * q) * Shift + r * Shift
      BY <1>2, <1>3, Distribute
    <2>2. (k * q) * Shift = (k * Shift) * q
      BY <1>2, <1>3, Distribute
    <2> HIDE DEF q, r
    <2> QED
      BY <1>1, <1>3, <2>1, <2>2
  <1>7. r * Shift + Shift <= LowMod /\ r * Shift \in Nat
    BY <1>1, <1>2, <1>3, SMT
  <1> HIDE DEF q, r, x, y, z
  <1>8. y = q
    BY <1>2, <1>3, <1>5, <1>6, <1>7, SMT
  <1>9. z = r * Shift
    BY <1>2, <1>3, <1>5, <1>6, <1>7, <1>8, SMT
  <1> QED
    BY <1>5, <1>7, <1>9 DEF Low, x, z

\* High and low part make the ID.
LEMMA Halves ==
    ASSUME NEW b \in Nat
    PROVE  High(b) \in Nat /\ Low(b) \in Nat /\ High(b) + Low(b) = b
  <1>1. LowMod \in Nat \ {0}
    BY StoreAssumption
  <1>2. b % LowMod \in Nat /\ b % LowMod <= b
    <2>1. b \div LowMod \in Nat /\ b % LowMod \in Nat /\ b = LowMod * (b \div LowMod) + (b % LowMod)
      BY <1>1, DivMod
    <2>2. LowMod * (b \div LowMod) \in Nat
      BY <1>1, <2>1, SMT
    <2> QED
      BY <2>1, <2>2
  <1> QED
    BY <1>2 DEF High, Low

\* The IDs of a later second are larger than all IDs of an earlier one.
LEMMA SecondsApart ==
    ASSUME NEW t \in Nat, NEW u \in Nat, t < u
    PROVE  BaseID(t) \in Nat /\ BaseID(u) \in Nat /\ BaseID(t) + Shift <= BaseID(u)
  <1>1. Base(t) \in Nat /\ Base(u) \in Nat /\ Base(t) + 1 <= Base(u) /\ Shift \in Nat
    BY BaseIncreases, StoreAssumption
  <1>2. (Base(t) + 1) * Shift <= Base(u) * Shift
    BY <1>1, Distribute
  <1>2a. (Base(t) + 1) * Shift = Base(t) * Shift + Shift
    <2>1. (Base(t) + 1) * Shift = Base(t) * Shift + 1 * Shift
      BY <1>1, Distribute
    <2> QED
      BY <1>1, <2>1
  <1>3. Base(t) * Shift \in Nat /\ Base(u) * Shift \in Nat
    BY <1>1, SMT
  <1> QED
    BY <1>1, <1>2, <1>2a, <1>3 DEF BaseID

(***************************************************************************)
(* The invariant.                                                          *)
(***************************************************************************)
\* The step of IDsIncrease.
Increases ==
    requests' # requests => \A r \in 1 .. requests : issued[r] < issued'[requests']

LEMMA BaseIDType == \A t \in Nat : Base(t) \in Nat /\ BaseID(t) \in Nat
  <1> SUFFICES ASSUME NEW t \in Nat PROVE Base(t) \in Nat /\ BaseID(t) \in Nat
    OBVIOUS
  <1>1. t + 1 \in Nat /\ t < t + 1
    OBVIOUS
  <1> QED
    BY <1>1, BaseIncreases, SecondsApart

LEMMA LaunchIDs ==
    ASSUME NEW t \in Nat
    PROVE  /\ High(BaseID(t)) \in Nat /\ Low(BaseID(t)) \in Nat
           /\ High(BaseID(t)) + Low(BaseID(t)) = BaseID(t)
           /\ Low(BaseID(t)) + Shift <= LowMod
  <1>1. Base(t) \in Nat /\ BaseID(t) \in Nat
    BY BaseIDType
  <1>2. Low(BaseID(t)) + Shift <= LowMod
    BY <1>1, LowHasRoom DEF BaseID
  <1> QED
    BY <1>1, <1>2, Halves

LEMMA InitIDs == Init => IDInv
  <1> SUFFICES ASSUME Init PROVE IDInv
    OBVIOUS
  <1>1. MaxRequests \in Nat /\ Shift \in Nat \ {0}
    BY StoreAssumption
  <1>2. now = 1 /\ high = High(BaseID(1)) /\ low = Low(BaseID(1)) /\ taken = 0
        /\ requests = 0 /\ issued = [r \in Requests |-> 0]
    BY DEF Init
  <1>3. High(BaseID(1)) \in Nat /\ Low(BaseID(1)) \in Nat
    BY LaunchIDs
  <1>4. IDTypeOK
    BY <1>1, <1>2, <1>3 DEF IDTypeOK
  <1> QED
    BY <1>2, <1>3, <1>4 DEF IDInv

LEMMA SameIDs ==
    ASSUME IDInv, UNCHANGED <<now, idVars>>
    PROVE  IDInv' /\ Increases
  BY DEF IDInv, IDTypeOK, Increases, idVars

LEMMA TakeIDs ==
    ASSUME IDInv, NEW t, TakeID(t), UNCHANGED now
    PROVE  IDInv' /\ Increases
  <1>1. /\ now \in Nat /\ now > 0 /\ high \in Nat /\ low \in Nat
        /\ taken \in 0 .. Shift /\ requests \in 0 .. MaxRequests
        /\ issued \in [Requests -> Nat]
    BY DEF IDInv, IDTypeOK
  <1>2. /\ taken < Shift /\ requests < MaxRequests
        /\ taken' = taken + 1 /\ requests' = requests + 1
        /\ issued' = [issued EXCEPT ![requests + 1] = NextID]
        /\ low' = (low + 1) % LowMod /\ high' = high
    BY DEF TakeID, Room
  <1>3. MaxRequests \in Nat /\ Shift \in Nat \ {0} /\ LowMod \in Nat \ {0}
    BY StoreAssumption
  <1> DEFINE base == BaseID(now)
  <1>4. /\ High(base) \in Nat /\ Low(base) \in Nat /\ base \in Nat
        /\ High(base) + Low(base) = base /\ Low(base) + Shift <= LowMod
    BY <1>1, LaunchIDs, BaseIDType
  <1>5. high = High(base) /\ low = Low(base) + taken
    BY <1>2 DEF IDInv
  <1>6. \A r \in 1 .. requests : issued[r] < base + taken
    BY DEF IDInv
  <1> HIDE DEF base
  <1>7. NextID = base + taken
    BY <1>1, <1>4, <1>5 DEF NextID
  <1>8. requests + 1 \in Requests
    BY <1>1, <1>2, <1>3 DEF Requests
  <1>9. issued'[requests'] = base + taken
    BY <1>1, <1>2, <1>7, <1>8
  <1>10. \A r \in 1 .. requests : r \in Requests /\ r # requests + 1 /\ issued'[r] = issued[r]
    BY <1>1, <1>2, <1>3 DEF Requests
  <1>11. \A r \in 1 .. requests' : issued'[r] < base + taken'
    <2> SUFFICES ASSUME NEW r \in 1 .. requests' PROVE issued'[r] < base + taken'
      OBVIOUS
    <2>1. CASE r = requests'
      BY <1>1, <1>2, <1>4, <1>9, <2>1
    <2>2. CASE r \in 1 .. requests
      <3>1. issued'[r] < base + taken /\ issued'[r] \in Nat
        BY <1>1, <1>6, <1>10, <2>2
      <3> QED
        BY <1>1, <1>2, <1>4, <3>1
    <2> QED
      BY <1>1, <1>2, <2>1, <2>2
  <1>12. taken' < Shift => low' = Low(base) + taken'
    <2> SUFFICES ASSUME taken' < Shift PROVE low' = Low(base) + taken'
      OBVIOUS
    <2>1. low + 1 \in Nat /\ low + 1 < LowMod /\ low + 1 = Low(base) + taken'
      BY <1>1, <1>2, <1>3, <1>4, <1>5
    <2>2. (low + 1) % LowMod = low + 1
      <3> DEFINE n == low + 1
      <3>1. /\ n \div LowMod \in Nat /\ n % LowMod \in Nat
            /\ n = LowMod * (n \div LowMod) + (n % LowMod)
        BY <1>3, <2>1, DivMod
      <3>2. n \div LowMod = 0
        <4> SUFFICES ASSUME n \div LowMod # 0 PROVE FALSE
          OBVIOUS
        <4>1. 1 <= n \div LowMod
          BY <3>1
        <4>2. 1 * LowMod <= (n \div LowMod) * LowMod
          BY <1>3, <3>1, <4>1, Distribute
        <4>3. (n \div LowMod) * LowMod = LowMod * (n \div LowMod)
          BY <1>3, <3>1, Distribute
        <4>4. LowMod * (n \div LowMod) \in Nat
          BY <1>3, <3>1, Distribute
        <4>5. LowMod <= LowMod * (n \div LowMod)
          BY <1>3, <4>2, <4>3
        <4> HIDE DEF n
        <4> QED
          BY <1>3, <2>1, <3>1, <4>4, <4>5 DEF n
      <3>3. LowMod * 0 = 0
        BY <1>3
      <3> HIDE DEF n
      <3>4. n % LowMod = n
        BY <2>1, <3>1, <3>2, <3>3 DEF n
      <3> QED
        BY <3>4 DEF n
    <2> QED
      BY <1>2, <2>1, <2>2
  <1>13. IDTypeOK'
    <2>1. low' \in Nat
      BY <1>1, <1>2, <1>3, DivMod
    <2>2. issued' \in [Requests -> Nat]
      BY <1>1, <1>2, <1>4, <1>7, <1>8
    <2> QED
      BY <1>1, <1>2, <1>3, <2>1, <2>2 DEF IDTypeOK
  <1>14. BaseID(now)' = base
    BY DEF base, BaseID, Base
  <1>15. IDInv'
    BY <1>2, <1>5, <1>11, <1>12, <1>13, <1>14 DEF IDInv, High, Low
  <1>16. Increases
    BY <1>6, <1>9 DEF Increases
  <1> QED
    BY <1>15, <1>16

LEMMA LaunchStepIDs ==
    ASSUME IDInv, Launch
    PROVE  IDInv' /\ Increases
  <1>1. /\ now \in Nat /\ taken \in 0 .. Shift /\ requests \in 0 .. MaxRequests
        /\ issued \in [Requests -> Nat]
        /\ \A r \in 1 .. requests : issued[r] < BaseID(now) + taken
    BY DEF IDInv, IDTypeOK
  <1>2. PICK u \in now + 1 .. MaxTime : now' = u
    BY DEF Launch
  <1>3. /\ high' = High(BaseID(u)) /\ low' = Low(BaseID(u)) /\ taken' = 0
        /\ requests' = requests /\ issued' = issued
    BY <1>2 DEF Launch
  <1>4. MaxRequests \in Nat /\ Shift \in Nat \ {0} /\ MaxTime \in Nat
    BY StoreAssumption
  <1>5. u \in Nat /\ u > 0 /\ now < u
    BY <1>1, <1>2, <1>4
  <1>6. /\ BaseID(now) \in Nat /\ BaseID(u) \in Nat
        /\ BaseID(now) + Shift <= BaseID(u)
    BY <1>1, <1>5, SecondsApart
  <1>7. High(BaseID(u)) \in Nat /\ Low(BaseID(u)) \in Nat
    BY <1>5, LaunchIDs
  <1>8. \A r \in 1 .. requests : issued[r] < BaseID(u) + 0
    <2> SUFFICES ASSUME NEW r \in 1 .. requests PROVE issued[r] < BaseID(u) + 0
      OBVIOUS
    <2>1. r \in Requests
      BY <1>1, <1>4 DEF Requests
    <2>2. issued[r] \in Nat /\ issued[r] < BaseID(now) + taken
      BY <1>1, <2>1
    <2> QED
      BY <1>1, <1>4, <1>6, <2>2
  <1>9. IDTypeOK'
    BY <1>1, <1>2, <1>3, <1>4, <1>5, <1>7 DEF IDTypeOK
  <1>10. IDInv'
    BY <1>2, <1>3, <1>4, <1>7, <1>8, <1>9 DEF IDInv, BaseID, Base, High, Low
  <1> QED
    BY <1>3, <1>10 DEF Increases

\* Every other step leaves the counter and the clock alone.
LEMMA NextIDs ==
    ASSUME IDInv, [Next]_vars
    PROVE  IDInv' /\ Increases
  <1> USE DEF idVars, vars
  <1>1. CASE UNCHANGED vars
    BY <1>1, SameIDs
  <1>2. ASSUME NEW t \in Threads, Continue(t) PROVE IDInv' /\ Increases
    <2>1. CASE CrashPath(t)
      BY <2>1, TakeIDs DEF CrashPath
    <2>2. CASE ~CrashPath(t)
      <3>1. UNCHANGED <<now, idVars>>
        BY <1>2, <2>2 DEF Continue, AddOpen, AddWrite, Unlock, CreateReport, WriteReport,
             Recreate, Discard, SendIDs, SendRead, SendSink, ClearBegin, ClearOne, ClearEnd
      <3> QED
        BY <3>1, SameIDs
    <2> QED
      BY <2>1, <2>2
  <1>3. ASSUME NEW t \in users, Begin(t) PROVE IDInv' /\ Increases
    <2>1. CASE AddBegin(t) \/ ReportBegin(t)
      BY <2>1, TakeIDs DEF AddBegin, ReportBegin
    <2>2. CASE ~(AddBegin(t) \/ ReportBegin(t))
      <3>1. UNCHANGED <<now, idVars>>
        BY <1>3, <2>2 DEF Begin, SendCount, DeleteByID, Crash, Recrash
      <3> QED
        BY <3>1, SameIDs
    <2> QED
      BY <2>1, <2>2
  <1>7. ASSUME NEW t \in Threads, SinkAnswers(t) PROVE IDInv' /\ Increases
    BY <1>7, SameIDs DEF SinkAnswers
  <1>4. CASE Kill
    BY <1>4, SameIDs DEF Kill
  <1>5. CASE Launch
    BY <1>5, LaunchStepIDs
  <1>6. CASE Over
    BY <1>6, SameIDs DEF Over
  <1> QED
    BY <1>1, <1>2, <1>3, <1>4, <1>5, <1>6, <1>7 DEF Next

\* The IDs of the store increase over any number of launches at later seconds, however
\* many IDs fit into a second and wherever the low half of the counter starts.
THEOREM IDsNeverRepeat == Spec => IDsIncrease
  <1>1. Init => IDInv
    BY InitIDs
  <1>2. IDInv /\ [Next]_vars => IDInv'
    BY NextIDs
  <1>3. IDInv /\ [Next]_vars =>
          [requests' # requests => \A r \in 1 .. requests : issued[r] < issued'[requests']]_vars
    BY NextIDs DEF Increases
  <1> QED
    BY <1>1, <1>2, <1>3, PTL DEF Spec, IDsIncrease

(***************************************************************************)
(* The refinement of ReportLog.  What the store needs for it is that a       *)
(* request has one writer and one file: StoreInv ties every file to the      *)
(* request of its content, every thread that writes to a request of its own   *)
(* that is not complete yet, and requests to IDs in their order.             *)
(***************************************************************************)
Locs == [id: Ids, by: 0 .. MaxRequests, count: Nat,
         todo: SUBSET (Ids \cup (Ids \X {"json", "old"})), batch: SUBSET Requests]

StoreTypeOK ==
    /\ TypeOK
    /\ loc \in [Threads -> Locs]
    /\ \A t \in Threads : pc[t] = "read" => loc[t].todo \subseteq Ids

Writing == {"open", "fill", "create", "body", "recreate", "discard", "finish"}

\* Thread t writes the report of its request.
Holds(t) == alive /\ pc[t] \in Writing

IssuedInOrder == \A r, q \in 1 .. requests : r < q => issued[r] < issued[q]

FilesOwned ==
    /\ completed \subseteq 1 .. requests
    /\ \A i \in Ids : files[i].state # "none" =>
          files[i].by \in 1 .. requests /\ issued[files[i].by] = i
    /\ \A i \in Ids : files[i].state = "full" => files[i].by \in completed

WritersOwn ==
    /\ \A t \in Threads : Holds(t) =>
          loc[t].by \in (1 .. requests) \ completed /\ issued[loc[t].by] = loc[t].id
    /\ \A t, u \in Threads : Holds(t) /\ Holds(u) /\ t # u => loc[t].by # loc[u].by

StoreInv ==
    /\ IDInv /\ StoreTypeOK
    /\ IssuedInOrder /\ FilesOwned /\ WritersOwn

LEMMA ConstantsType ==
    /\ MaxRequests \in Nat /\ MaxTime \in Nat \ {0} /\ Shift \in Nat \ {0}
    /\ LowMod \in Nat \ {0} /\ Requests \subseteq Nat
    /\ Ids \subseteq Nat /\ 0 \in Ids /\ (Base(MaxTime) + 1) * Shift \in Nat
  <1>1. MaxRequests \in Nat /\ MaxTime \in Nat \ {0} /\ Shift \in Nat \ {0} /\ LowMod \in Nat \ {0}
    BY StoreAssumption
  <1>2. Base(MaxTime) \in Nat
    BY <1>1, BaseIDType
  <1>3. (Base(MaxTime) + 1) * Shift \in Nat
    BY <1>1, <1>2, Distribute
  <1> QED
    BY <1>1, <1>3 DEF Ids, Requests

\* The bounds of the clock and of a second bound the IDs.
LEMMA NextIDInIds ==
    ASSUME IDInv, now <= MaxTime, Room
    PROVE  NextID \in Ids
  <1>1. now \in Nat /\ taken \in Nat /\ taken < Shift
    BY StoreAssumption DEF IDInv, IDTypeOK, Room
  <1>2. High(BaseID(now)) + Low(BaseID(now)) = BaseID(now) /\ BaseID(now) \in Nat
        /\ High(BaseID(now)) \in Nat /\ Low(BaseID(now)) \in Nat
    BY <1>1, LaunchIDs, BaseIDType
  <1>3. NextID = BaseID(now) + taken
    BY <1>1, <1>2 DEF IDInv, NextID
  <1>4. BaseID(now) <= BaseID(MaxTime) /\ BaseID(MaxTime) \in Nat
    <2>1. CASE now = MaxTime
      BY <1>2, <2>1
    <2>2. CASE now < MaxTime
      BY <1>1, <2>2, ConstantsType, SecondsApart
    <2> QED
      BY <1>1, <2>1, <2>2, ConstantsType
  <1>5. (Base(MaxTime) + 1) * Shift = BaseID(MaxTime) + Shift
    <2>1. Base(MaxTime) \in Nat /\ Shift \in Nat
      BY ConstantsType, BaseIDType
    <2>2. (Base(MaxTime) + 1) * Shift = Base(MaxTime) * Shift + 1 * Shift
      BY <2>1, Distribute
    <2> QED
      BY <2>1, <2>2 DEF BaseID
  <1> QED
    BY <1>1, <1>2, <1>3, <1>4, <1>5, ConstantsType DEF Ids

(***************************************************************************)
(* Types.                                                                  *)
(***************************************************************************)
LEMMA NamesType == ASSUME aside \subseteq Ids PROVE Names \subseteq Ids \X {"json", "old"}
  BY DEF Names

\* The directory is finite.
LEMMA NamesFinite == ASSUME aside \subseteq Ids PROVE IsFiniteSet(Names)
  <1>1. IsFiniteSet(Ids)
    BY ConstantsType, FS_Interval DEF Ids
  <1>2. IsFiniteSet({"json", "old"})
    <2>1. IsFiniteSet({} \cup {"json"})
      BY FS_EmptySet, FS_AddElement
    <2>2. IsFiniteSet(({} \cup {"json"}) \cup {"old"})
      BY <2>1, FS_AddElement
    <2>3. ({} \cup {"json"}) \cup {"old"} = {"json", "old"}
      OBVIOUS
    <2> QED
      BY <2>2, <2>3
  <1>3. IsFiniteSet(Ids \X {"json", "old"})
    BY <1>1, <1>2, FS_Product
  <1> QED
    BY <1>3, NamesType, FS_Subset

LEMMA IdsOfType ==
    ASSUME NEW names, names \subseteq Ids \X {"json", "old"}
    PROVE  IdsOf(names) \subseteq Ids
  BY DEF IdsOf

FileSet == [Ids -> [state: {"none", "part", "full"}, by: 0 .. MaxRequests]]
HandedSet == [Deliveries -> [batch: SUBSET Requests, seen: SUBSET Requests]]

\* No delivery, no memory.
LEMMA NothingType ==
    /\ [d \in Deliveries |-> NoDelivery] \in HandedSet
    /\ [t \in Threads |-> IdleLoc] \in [Threads -> Locs]
    /\ [t \in Threads |-> "idle"] \in [Threads -> Labels]
  BY ConstantsType DEF HandedSet, NoDelivery, IdleLoc, Locs, Labels

LEMMA TypeInit == Init => StoreTypeOK
  <1> SUFFICES ASSUME Init PROVE StoreTypeOK
    OBVIOUS
  <1>1. IDInv
    BY InitIDs
  <1>2. low \in 0 .. LowMod - 1
    <2>1. BaseID(1) \in Nat /\ Low(BaseID(1)) < LowMod
      BY BaseIDType, DivMod, ConstantsType DEF Low
    <2> QED
      BY <1>1, <2>1, ConstantsType DEF Init, IDInv, IDTypeOK
  <1>3. loc \in [Threads -> Locs]
    BY ConstantsType DEF Init, IdleLoc, Locs
  <1>4. users \subseteq Threads /\ handed \in [Deliveries -> [batch: SUBSET Requests, seen: SUBSET Requests]]
    BY StoreAssumption, NothingType DEF Init, HandedSet
  <1>5. files \in [Ids -> [state: {"none", "part", "full"}, by: 0 .. MaxRequests]]
    BY ConstantsType DEF Init, NoFile
  <1>6. issued \in [Requests -> Ids] /\ requests \in 0 .. MaxRequests /\ now \in 1 .. MaxTime
        /\ taken \in 0 .. Shift /\ pc \in [Threads -> Labels]
    BY ConstantsType DEF Init, Labels
  <1> QED
    BY <1>1, <1>2, <1>3, <1>4, <1>5, <1>6 DEF Init, StoreTypeOK, TypeOK, IDInv, IDTypeOK

LEMMA TakeIDType ==
    ASSUME StoreInv, NEW t \in Threads, TakeID(t), UNCHANGED now
    PROVE  /\ low' \in 0 .. LowMod - 1 /\ high' \in Nat /\ taken' \in 0 .. Shift
           /\ requests' \in 0 .. MaxRequests /\ issued' \in [Requests -> Ids]
           /\ loc' \in [Threads -> Locs]
  <1>1. Room /\ IDInv /\ IDInv' /\ NextID \in Ids
    <2>1. Room /\ IDInv /\ now <= MaxTime
      BY ConstantsType DEF StoreInv, StoreTypeOK, TypeOK, TakeID
    <2>2. IDInv'
      BY <2>1, TakeIDs
    <2> QED
      BY <2>1, <2>2, NextIDInIds
  <1>2. low' \in 0 .. LowMod - 1
    <2>1. low + 1 \in Nat
      BY <1>1 DEF IDInv, IDTypeOK
    <2>2. (low + 1) % LowMod \in Nat /\ (low + 1) % LowMod < LowMod
      BY <2>1, DivMod, ConstantsType
    <2> QED
      BY <2>2, ConstantsType DEF TakeID
  <1>3. requests + 1 \in Requests /\ requests + 1 \in 0 .. MaxRequests
    BY <1>1, ConstantsType DEF IDInv, IDTypeOK, Room, Requests
  <1>4. issued' \in [Requests -> Ids]
    BY <1>1, <1>3 DEF TakeID, StoreInv, StoreTypeOK, TypeOK
  <1>5. [IdleLoc EXCEPT !.id = NextID, !.by = requests + 1] \in Locs
    BY <1>1, <1>3 DEF IdleLoc, Locs
  <1>6. loc' \in [Threads -> Locs]
    BY <1>5 DEF TakeID, StoreInv, StoreTypeOK
  <1> QED
    BY <1>1, <1>2, <1>4, <1>6 DEF IDInv, IDTypeOK

LEMMA PartType ==
    ASSUME files \in FileSet, NEW i, NEW b \in 0 .. MaxRequests
    PROVE  /\ [files EXCEPT ![i] = [state |-> "part", by |-> b]] \in FileSet
           /\ [files EXCEPT ![i].state = "full"] \in FileSet
  <1>1. [state |-> "part", by |-> b] \in [state: {"none", "part", "full"}, by: 0 .. MaxRequests]
    OBVIOUS
  <1> QED
    BY <1>1 DEF FileSet

LEMMA NoFileType ==
    ASSUME files \in FileSet, NEW i
    PROVE  [files EXCEPT ![i] = NoFile] \in FileSet
  <1>1. NoFile \in [state: {"none", "part", "full"}, by: 0 .. MaxRequests]
    BY ConstantsType DEF NoFile
  <1> QED
    BY <1>1 DEF FileSet

LEMMA FillType ==
    ASSUME StoreInv, NEW t \in Threads, FillFile(t)
    PROVE  files' \in FileSet /\ completed' \subseteq Requests
  <1>1. files \in FileSet /\ completed \subseteq Requests /\ loc[t].by \in 0 .. MaxRequests
        /\ loc[t].id \in Ids
    BY DEF StoreInv, StoreTypeOK, TypeOK, FileSet, Locs
  <1>2. CASE files[loc[t].id].state = "part" /\ Mine(t)
    <2>1. files' \in FileSet
      BY <1>1, <1>2, PartType DEF FillFile
    <2>2. loc[t].by \in Requests
      <3>1. loc[t].by \in 1 .. requests /\ requests \in 0 .. MaxRequests
        BY <1>1, <1>2 DEF Mine, StoreInv, FilesOwned, StoreTypeOK, TypeOK
      <3> QED
        BY <3>1, ConstantsType DEF Requests
    <2> QED
      BY <1>1, <1>2, <2>1, <2>2 DEF FillFile
  <1>3. CASE ~(files[loc[t].id].state = "part" /\ Mine(t))
    BY <1>1, <1>3 DEF FillFile
  <1> QED
    BY <1>2, <1>3

Todos == SUBSET (Ids \cup (Ids \X {"json", "old"}))

LEMMA LocType ==
    ASSUME loc \in [Threads -> Locs], NEW t \in Threads
    PROVE  /\ loc[t].todo \in Todos /\ loc[t].batch \subseteq Requests
           /\ loc[t].id \in Ids /\ loc[t].by \in 0 .. MaxRequests
           /\ [loc EXCEPT ![t] = IdleLoc] \in [Threads -> Locs]
           /\ \A n \in Nat : [loc EXCEPT ![t].count = n] \in [Threads -> Locs]
           /\ \A S \in Todos : [loc EXCEPT ![t].todo = S] \in [Threads -> Locs]
           /\ \A S \in Todos, B \in SUBSET Requests :
                 [loc EXCEPT ![t].todo = S, ![t].batch = B] \in [Threads -> Locs]
  <1>1. IdleLoc \in Locs
    BY ConstantsType DEF IdleLoc, Locs
  <1> QED
    BY <1>1 DEF Locs, Todos

\* What a step that takes no ID may change.
LEMMA TypeByParts ==
    ASSUME StoreTypeOK, UNCHANGED <<now, idVars>>,
           crasher' \in Threads \cup {"none"}, lock' \in Threads \cup {"none"},
           files' \in FileSet, aside' \subseteq Ids, alive' \in BOOLEAN,
           pc' \in [Threads -> Labels], loc' \in [Threads -> Locs],
           completed' \subseteq Requests, sent' \subseteq Requests, handed' \in HandedSet,
           \A t \in Threads : pc'[t] = "read" => loc'[t].todo \subseteq Ids
    PROVE  StoreTypeOK'
  BY DEF StoreTypeOK, TypeOK, FileSet, HandedSet, idVars

LEMMA SameType ==
    ASSUME StoreTypeOK
    PROVE  /\ now \in 1 .. MaxTime /\ users \subseteq Threads
           /\ crasher \in Threads \cup {"none"} /\ lock \in Threads \cup {"none"}
           /\ files \in FileSet /\ aside \subseteq Ids /\ alive \in BOOLEAN
           /\ pc \in [Threads -> Labels] /\ loc \in [Threads -> Locs]
           /\ completed \subseteq Requests /\ sent \subseteq Requests /\ handed \in HandedSet
           /\ \A t \in Threads : pc[t] = "read" => loc[t].todo \subseteq Ids
  BY DEF StoreTypeOK, TypeOK, FileSet, HandedSet

\* A delivery that is handed over, and one that is over.
LEMMA HandedType ==
    ASSUME handed \in HandedSet, NEW d \in Deliveries,
           NEW B \in SUBSET Requests, NEW S \in SUBSET Requests
    PROVE  /\ [handed EXCEPT ![d] = [batch |-> B, seen |-> S]] \in HandedSet
           /\ [handed EXCEPT ![d] = NoDelivery] \in HandedSet
           /\ handed[d].batch \subseteq Requests
  BY DEF HandedSet, NoDelivery

LEMMA GotoType ==
    ASSUME StoreTypeOK, NEW t \in Threads, NEW l \in Labels, Goto(t, l)
    PROVE  pc' \in [Threads -> Labels]
  BY SameType DEF Goto

\* What a delivery reads of a complete report is the number of a request.
LEMMA ReadType ==
    ASSUME StoreInv
    PROVE  \A i \in Ids : files[i].state = "full" => files[i].by \in Requests
  <1>1. requests \in 0 .. MaxRequests
    BY DEF StoreInv, StoreTypeOK, TypeOK
  <1> QED
    BY <1>1, ConstantsType DEF StoreInv, FilesOwned, Requests

\* The steps of a thread that take no ID: what they do to the disk and to its locals.
LEMMA ContinueType ==
    ASSUME StoreInv, NEW t \in Threads, Continue(t), ~CrashPath(t)
    PROVE  StoreTypeOK'
  <1>1. StoreTypeOK
    BY DEF StoreInv
  <1>2. t \in Threads /\ UNCHANGED <<now, idVars, crasher>>
    BY <1>1, SameType
       DEF Continue, CrashPath, AddOpen, AddWrite, Unlock, CreateReport, WriteReport,
           Recreate, Discard, SendIDs, SendRead, SendSink, ClearBegin, ClearOne, ClearEnd
  <1>3. /\ loc[t].todo \in Todos /\ loc[t].batch \subseteq Requests
        /\ loc[t].id \in Ids /\ loc[t].by \in 0 .. MaxRequests
        /\ [loc EXCEPT ![t] = IdleLoc] \in [Threads -> Locs]
        /\ [files EXCEPT ![loc[t].id] = [state |-> "part", by |-> loc[t].by]] \in FileSet
    <2>1. /\ loc[t].todo \in Todos /\ loc[t].batch \subseteq Requests
          /\ loc[t].id \in Ids /\ loc[t].by \in 0 .. MaxRequests
          /\ [loc EXCEPT ![t] = IdleLoc] \in [Threads -> Locs]
      BY <1>1, <1>2, SameType, LocType
    <2> QED
      BY <1>1, <2>1, SameType, PartType
  <1> USE DEF diskVars, deliveryVars, threadVars
  <1>4. CASE AddOpen(t)
    <2>1. files' \in FileSet
      BY <1>1, <1>3, <1>4, SameType DEF AddOpen
    <2>2. pc' \in [Threads -> Labels]
      BY <1>1, <1>2, <1>4, GotoType DEF AddOpen, Labels
    <2> QED
      BY <1>1, <1>2, <1>4, <2>1, <2>2, SameType, TypeByParts DEF AddOpen, Goto
  <1>5. CASE AddWrite(t)
    <2>1. files' \in FileSet /\ completed' \subseteq Requests
      BY <1>1, <1>2, <1>5, SameType, FillType DEF AddWrite
    <2>2. pc' \in [Threads -> Labels]
      BY <1>1, <1>2, <1>5, GotoType DEF AddWrite, Labels
    <2> QED
      BY <1>1, <1>2, <1>5, <2>1, <2>2, SameType, TypeByParts DEF AddWrite, Goto
  <1>6. CASE Unlock(t)
    <2>1. pc' \in [Threads -> Labels]
      BY <1>1, <1>2, <1>6, GotoType DEF Unlock, Labels
    <2> QED
      BY <1>1, <1>2, <1>3, <1>6, <2>1, SameType, TypeByParts DEF Unlock, Goto
  <1>7. EndReport(t) => /\ pc' \in [Threads -> Labels] /\ loc' \in [Threads -> Locs]
                        /\ alive' \in BOOLEAN
    BY <1>1, <1>2, <1>3, SameType, GotoType DEF EndReport, Labels
  <1>8. CASE CreateReport(t)
    <2>1. CASE files[loc[t].id].state = "none"
      <3>1. files' \in FileSet
        BY <1>1, <1>3, <1>8, <2>1, SameType DEF CreateReport
      <3>2. pc' \in [Threads -> Labels]
        BY <1>1, <1>2, <1>8, <2>1, GotoType DEF CreateReport, Labels
      <3> QED
        BY <1>1, <1>2, <1>8, <2>1, <3>1, <3>2, SameType, TypeByParts DEF CreateReport, Goto
    <2>2. CASE files[loc[t].id].state # "none"
      BY <1>1, <1>2, <1>7, <1>8, <2>2, SameType, TypeByParts DEF CreateReport, EndReport, Goto
    <2> QED
      BY <2>1, <2>2
  <1>9. CASE WriteReport(t)
    <2>1. files' \in FileSet /\ completed' \subseteq Requests
      BY <1>2, <1>9, FillType DEF WriteReport
    <2> QED
      BY <1>1, <1>2, <1>7, <1>9, <2>1, SameType, TypeByParts DEF WriteReport, EndReport, Goto
  <1>10. CASE Recreate(t)
    <2>1. files' \in FileSet
      BY <1>1, <1>3, <1>10, SameType DEF Recreate
    <2>2. pc' \in [Threads -> Labels]
      BY <1>1, <1>2, <1>10, GotoType DEF Recreate, Labels
    <2> QED
      BY <1>1, <1>2, <1>10, <2>1, <2>2, SameType, TypeByParts DEF Recreate, Goto
  <1>11. CASE Discard(t)
    <2>1. pc' \in [Threads -> Labels]
      BY <1>1, <1>2, <1>11, GotoType DEF Discard, Labels
    <2> QED
      BY <1>1, <1>2, <1>11, <2>1, SameType, TypeByParts DEF Discard, Goto
  <1>12. CASE SendIDs(t)
    <2>1. pc' \in [Threads -> Labels]
      BY <1>1, <1>2, <1>12, GotoType DEF SendIDs, Labels
    <2>2. \A read \in SUBSET Names : \A n : IdsOf(Oldest(read, n)) \in Todos \cap (SUBSET Ids)
      <3>1. Names \subseteq Ids \X {"json", "old"}
        BY <1>1, SameType, NamesType
      <3>2. ASSUME NEW read \in SUBSET Names, NEW n PROVE IdsOf(Oldest(read, n)) \subseteq Ids
        <4>1. Oldest(read, n) \subseteq Ids \X {"json", "old"}
          BY <3>1 DEF Oldest
        <4> QED
          BY <4>1, IdsOfType
      <3> QED
        BY <3>2 DEF Todos
    <2>3. PICK S \in Todos \cap (SUBSET Ids) : loc' = [loc EXCEPT ![t].todo = S]
      BY <1>12, <2>2 DEF SendIDs
    <2>4. loc' \in [Threads -> Locs]
      BY <1>1, <1>2, <2>3, SameType, LocType
    <2> QED
      BY <1>1, <1>2, <1>12, <2>1, <2>3, <2>4, SameType, TypeByParts DEF SendIDs, Goto, Locs
  <1>13. CASE SendRead(t)
    <2>1. loc[t].todo \subseteq Ids /\ pc[t] = "read"
      BY <1>1, <1>2, <1>13, SameType DEF SendRead, At
    <2>2. PICK i \in loc[t].todo :
            loc' = [loc EXCEPT
                      ![t].todo = loc[t].todo \ {i},
                      ![t].batch = IF files[i].state = "full"
                                     THEN loc[t].batch \cup {files[i].by} ELSE loc[t].batch]
      BY <1>13 DEF SendRead
    <2> DEFINE S == loc[t].todo \ {i}
               B == IF files[i].state = "full" THEN loc[t].batch \cup {files[i].by}
                                               ELSE loc[t].batch
    <2>3. S \in Todos /\ S \subseteq Ids
      BY <1>3, <2>1 DEF Todos
    <2>4. B \in SUBSET Requests
      BY <1>3, <2>1, ReadType
    <2>5. loc' = [loc EXCEPT ![t].todo = S, ![t].batch = B]
      BY <2>2
    <2> HIDE DEF S, B
    <2>6. loc' \in [Threads -> Locs]
      BY <1>1, <1>2, <2>3, <2>4, <2>5, SameType, LocType
    <2>7. \A u \in Threads : pc'[u] = "read" => loc'[u].todo \subseteq Ids
      BY <1>1, <1>2, <1>13, <2>3, <2>5, SameType DEF SendRead, Locs
    <2> QED
      BY <1>1, <1>2, <1>13, <2>6, <2>7, SameType, TypeByParts DEF SendRead
  <1>14. CASE SendSink(t)
    <2>1. pc' \in [Threads -> Labels]
      BY <1>1, <1>2, <1>14, GotoType DEF SendSink, Labels
    <2>2. handed' \in HandedSet
      <3>1. completed \in SUBSET Requests /\ loc[t].batch \in SUBSET Requests /\ handed \in HandedSet
        BY <1>1, <1>3, SameType
      <3>2. ASSUME NEW d \in Deliveries,
                   handed' = [handed EXCEPT ![d] = [batch |-> loc[t].batch, seen |-> completed]]
            PROVE  handed' \in HandedSet
        BY <3>1, <3>2, HandedType
      <3> QED
        BY <1>14, <3>1, <3>2 DEF SendSink
    <2> QED
      BY <1>1, <1>2, <1>3, <1>14, <2>1, <2>2, SameType, TypeByParts DEF SendSink, Goto
  <1>15. CASE ClearBegin(t)
    <2>1. pc' \in [Threads -> Labels]
      BY <1>1, <1>2, <1>15, GotoType DEF ClearBegin, Labels
    <2>2. Names \in Todos
      BY <1>1, SameType, NamesType DEF Todos
    <2>3. loc' \in [Threads -> Locs]
      BY <1>1, <1>2, <1>15, <2>2, SameType, LocType DEF ClearBegin
    <2> QED
      BY <1>1, <1>2, <1>15, <2>1, <2>3, SameType, TypeByParts DEF ClearBegin, Goto
  <1>16. CASE ClearOne(t)
    <2>1. PICK x \in loc[t].todo :
            /\ files' = IF x[2] = "json" THEN [files EXCEPT ![x[1]] = NoFile] ELSE files
            /\ aside' = IF x[2] = "old" THEN aside \ {x[1]} ELSE aside
            /\ loc' = [loc EXCEPT ![t].todo = @ \ {x}]
      BY <1>16 DEF ClearOne
    <2>2. files' \in FileSet
      BY <1>1, <2>1, SameType, NoFileType
    <2>3. loc[t].todo \ {x} \in Todos
      BY <1>3 DEF Todos
    <2>4. loc' \in [Threads -> Locs]
      BY <1>1, <1>2, <2>1, <2>3, SameType, LocType
    <2> QED
      BY <1>1, <1>2, <1>16, <2>1, <2>2, <2>4, SameType, TypeByParts DEF ClearOne, At
  <1>17. CASE ClearEnd(t)
    <2>1. pc' \in [Threads -> Labels]
      BY <1>1, <1>2, <1>17, GotoType DEF ClearEnd, Labels
    <2> QED
      BY <1>1, <1>2, <1>17, <2>1, SameType, TypeByParts DEF ClearEnd, Goto
  <1> QED
    BY <1>4, <1>5, <1>6, <1>8, <1>9, <1>10, <1>11, <1>12, <1>13, <1>14, <1>15, <1>16, <1>17
       DEF Continue

\* A step that takes an ID leaves t neither reading nor in a state without a type.
LEMMA TakeStepType ==
    ASSUME StoreInv, NEW t \in Threads, NEW l \in Labels \ {"read"}, TakeID(t), Goto(t, l),
           lock' \in {lock, t}, UNCHANGED <<diskVars, now, alive, crasher, deliveryVars>>
    PROVE  StoreTypeOK'
  <1>1. StoreTypeOK /\ t \in Threads
    BY SameType DEF StoreInv
  <1>2. /\ low' \in 0 .. LowMod - 1 /\ high' \in Nat /\ taken' \in 0 .. Shift
        /\ requests' \in 0 .. MaxRequests /\ issued' \in [Requests -> Ids]
        /\ loc' \in [Threads -> Locs]
    BY <1>1, TakeIDType
  <1>3. pc' \in [Threads -> Labels]
    BY <1>1, GotoType
  <1>4. \A u \in Threads : pc'[u] = "read" => loc'[u].todo \subseteq Ids
    BY <1>1, SameType DEF Goto, TakeID
  <1>5. users' = users
    BY DEF TakeID
  <1> QED
    BY <1>1, <1>2, <1>3, <1>4, <1>5 DEF StoreTypeOK, TypeOK, diskVars, deliveryVars

LEMMA BeginType ==
    ASSUME StoreInv, NEW t \in users, Begin(t), ~AddBegin(t), ~ReportBegin(t)
    PROVE  StoreTypeOK'
  <1>1. StoreTypeOK /\ t \in Threads
    BY SameType DEF StoreInv
  <1> USE DEF diskVars, deliveryVars, threadVars
  <1>2. CASE SendCount(t)
    <2>1. pc' \in [Threads -> Labels]
      BY <1>1, <1>2, GotoType DEF SendCount, Labels
    <2>2. Cardinality(Names) \in Nat
      BY <1>1, SameType, NamesFinite, FS_CardinalityType
    <2>3. loc' \in [Threads -> Locs]
      BY <1>1, <1>2, <2>2, SameType, LocType DEF SendCount
    <2> QED
      BY <1>1, <1>2, <2>1, <2>3, SameType, TypeByParts DEF SendCount, Goto
  <1>3. CASE DeleteByID(t)
    <2>1. PICK i \in IdsOf(Names) : files' = [files EXCEPT ![i] = NoFile]
      BY <1>3 DEF DeleteByID
    <2>2. files' \in FileSet
      BY <1>1, <2>1, SameType, NoFileType
    <2> QED
      BY <1>1, <1>3, <2>2, SameType, TypeByParts DEF DeleteByID
  <1>4. CASE Crash(t)
    <2>1. pc' \in [Threads -> Labels] /\ \A u \in Threads : pc'[u] # "read"
      BY <1>4 DEF Crash, Labels
    <2>2. loc' \in [Threads -> Locs] /\ handed' \in HandedSet
      BY <1>4, NothingType DEF Crash
    <2> QED
      BY <1>1, <1>4, <2>1, <2>2, SameType, TypeByParts DEF Crash
  <1>5. CASE Recrash(t)
    <2>1. pc' \in [Threads -> Labels]
      BY <1>1, <1>5, GotoType DEF Recrash, Labels
    <2>2. loc[t].id \in Ids
      BY <1>1, SameType, LocType
    <2>3. files' \in FileSet
      BY <1>1, <1>5, SameType, NoFileType DEF Recrash
    <2>4. aside' \subseteq Ids
      BY <1>1, <1>5, <2>2, SameType DEF Recrash
    <2> QED
      BY <1>1, <1>5, <2>1, <2>3, <2>4, SameType, TypeByParts DEF Recrash, Goto
  <1> QED
    BY <1>2, <1>3, <1>4, <1>5 DEF Begin

LEMMA AnswerType ==
    ASSUME StoreInv, NEW t \in Threads, SinkAnswers(t)
    PROVE  StoreTypeOK'
  <1>1. StoreTypeOK
    BY DEF StoreInv
  <1>2. PICK d \in Deliveries, done \in BOOLEAN :
          /\ handed' = [handed EXCEPT ![d] = NoDelivery]
          /\ sent' = IF done THEN sent \cup handed[d].batch ELSE sent
          /\ Goto(t, IF ClearsAfter(done) THEN "clear" ELSE "idle")
    BY DEF SinkAnswers
  <1>3. UNCHANGED <<diskVars, now, alive, idVars, lock, crasher, loc, completed, dropped>>
    BY DEF SinkAnswers
  <1>4. pc' \in [Threads -> Labels]
    BY <1>1, <1>2, GotoType DEF Labels
  <1>5. handed' \in HandedSet /\ sent' \subseteq Requests
    <2>1. {} \in SUBSET Requests /\ handed \in HandedSet /\ sent \subseteq Requests
      BY <1>1, SameType
    <2> QED
      BY <1>2, <2>1, HandedType
  <1> QED
    BY <1>1, <1>2, <1>3, <1>4, <1>5, SameType, TypeByParts DEF diskVars, Goto

LEMMA KillType ==
    ASSUME StoreInv, Kill
    PROVE  StoreTypeOK'
  <1>1. StoreTypeOK
    BY DEF StoreInv
  <1>2. /\ lock' = "none" /\ crasher' = "none" /\ alive' = FALSE
        /\ pc' = [t \in Threads |-> "idle"] /\ loc' = [t \in Threads |-> IdleLoc]
        /\ handed' = [d \in Deliveries |-> NoDelivery]
        /\ UNCHANGED <<files, aside, now, idVars, completed, sent>>
    BY DEF Kill, Forget, diskVars
  <1>3. \A t \in Threads : pc'[t] # "read"
    BY <1>2
  <1> QED
    BY <1>1, <1>2, <1>3, NothingType, SameType, TypeByParts

LEMMA LaunchType ==
    ASSUME StoreInv, Launch
    PROVE  StoreTypeOK'
  <1>1. StoreTypeOK
    BY DEF StoreInv
  <1>2. now' \in now + 1 .. MaxTime /\ now \in Nat
    BY <1>1, SameType, ConstantsType DEF Launch
  <1>3. now' \in 1 .. MaxTime
    BY <1>2, ConstantsType
  <1>4. high' \in Nat /\ low' \in 0 .. LowMod - 1
    <2>1. BaseID(now') \in Nat /\ High(BaseID(now')) \in Nat
      BY <1>3, BaseIDType, LaunchIDs
    <2>2. BaseID(now') % LowMod \in Nat /\ BaseID(now') % LowMod < LowMod
      BY <2>1, DivMod, ConstantsType
    <2> QED
      BY <2>1, <2>2, ConstantsType DEF Launch, Low
  <1>5. files' \in FileSet
    <2>1. NoFile \in [state: {"none", "part", "full"}, by: 0 .. MaxRequests]
      BY ConstantsType DEF NoFile
    <2> QED
      BY <1>1, <2>1, SameType DEF Launch, FileSet
  <1>6. loc' \in [Threads -> Locs] /\ pc' \in [Threads -> Labels] /\ handed' \in HandedSet
        /\ \A t \in Threads : pc'[t] = "read" => loc'[t].todo \subseteq Ids
    BY NothingType DEF Launch, Forget
  <1>7. taken' \in 0 .. Shift /\ alive' \in BOOLEAN
    BY ConstantsType DEF Launch
  <1> QED
    BY <1>1, <1>3, <1>4, <1>5, <1>6, <1>7
       DEF Launch, Forget, StoreTypeOK, TypeOK, FileSet, HandedSet

(***************************************************************************)
(* Ownership, and the steps of the log.                                     *)
(***************************************************************************)
LogStep == [Log!Next]_(Log!logVars)

Owned == IssuedInOrder /\ FilesOwned /\ WritersOwn

\* The number of a request finds its ID, and the other way round.
LEMMA RequestsApart ==
    ASSUME StoreInv
    PROVE  /\ requests \in Nat /\ requests <= MaxRequests
           /\ \A r \in 1 .. requests : r \in Requests /\ issued[r] \in Ids
           /\ \A r, q \in 1 .. requests : issued[r] = issued[q] => r = q
  <1>1. requests \in 0 .. MaxRequests /\ issued \in [Requests -> Ids]
    BY DEF StoreInv, StoreTypeOK, TypeOK
  <1>2. \A r \in 1 .. requests : r \in Requests /\ issued[r] \in Ids /\ issued[r] \in Nat
    <2>1. \A r \in 1 .. requests : r \in Requests
      BY <1>1, ConstantsType DEF Requests
    <2> QED
      BY <1>1, <2>1, ConstantsType
  <1>3. ASSUME NEW r \in 1 .. requests, NEW q \in 1 .. requests, issued[r] = issued[q]
        PROVE  r = q
    <2>1. ~(r < q) /\ ~(q < r)
      BY <1>2, <1>3 DEF StoreInv, IssuedInOrder
    <2> QED
      BY <2>1, <1>1
  <1> QED
    BY <1>1, <1>2, <1>3, ConstantsType

\* What is stored was completed, and is the report of a request that was made.
LEMMA StoredType ==
    ASSUME StoreInv
    PROVE  Stored \subseteq completed /\ completed \subseteq 1 .. requests
  <1> SUFFICES ASSUME NEW r \in Stored PROVE r \in completed
    BY DEF StoreInv, FilesOwned
  <1>1. r \in Requests /\ files[issued[r]] = [state |-> "full", by |-> r]
    BY DEF Stored
  <1>2. issued[r] \in Ids
    BY <1>1 DEF StoreInv, StoreTypeOK, TypeOK
  <1> QED
    BY <1>1, <1>2 DEF StoreInv, FilesOwned

\* A step that hands out no ID and stores and removes nothing is none of the log.
LEMMA LogStutter ==
    ASSUME UNCHANGED <<requests, issued, completed>>, Stored' = Stored
    PROVE  LogStep
  <1>1. [r \in 1 .. requests |-> issued[r]]' = [r \in 1 .. requests |-> issued[r]]
    OBVIOUS
  <1>2. (completed \ Stored)' = completed \ Stored
    OBVIOUS
  <1> QED
    BY <1>1, <1>2 DEF LogStep, Log!logVars

\* Files go: their reports leave the log.
LEMMA RemoveOwn ==
    ASSUME StoreInv, UNCHANGED <<requests, issued, completed>>,
           \A i \in Ids : files'[i] = files[i] \/ files'[i] = NoFile,
           \A t \in Threads : Holds(t)' => /\ Holds(t)
                                           /\ loc'[t].id = loc[t].id /\ loc'[t].by = loc[t].by
    PROVE  Owned' /\ LogStep
  <1>1. IssuedInOrder' /\ WritersOwn'
    BY DEF StoreInv, IssuedInOrder, WritersOwn
  <1>2. FilesOwned'
    BY DEF StoreInv, FilesOwned, NoFile
  <1>3. Stored' \subseteq Stored
    <2> SUFFICES ASSUME NEW r \in Requests, files'[issued[r]] = [state |-> "full", by |-> r]
                 PROVE  r \in Stored
      BY DEF Stored
    <2>1. issued[r] \in Ids
      BY DEF StoreInv, StoreTypeOK, TypeOK
    <2>2. files'[issued[r]] # NoFile
      BY DEF NoFile
    <2> QED
      BY <2>1, <2>2 DEF Stored
  <1>4. Stored \subseteq completed
    BY StoredType
  <1>5. Stored' = Stored => LogStep
    BY LogStutter
  <1>6. ASSUME Stored' # Stored PROVE LogStep
    <2>0. \E out : out = Stored \ Stored'
      OBVIOUS
    <2> PICK out : out = Stored \ Stored'
      BY <2>0
    <2>1. out \in (SUBSET Stored) \ {{}}
      BY <1>3, <1>6
    <2>2. Stored' = Stored \ out
      BY <1>3
    <2>3. completed' \ Stored' = (completed \ Stored) \cup out
      BY <1>3, <1>4
    <2>4. Log!Leave
      BY <2>1, <2>2, <2>3 DEF Log!Leave
    <2> QED
      BY <2>4 DEF LogStep, Log!Next
  <1> QED
    BY <1>1, <1>2, <1>5, <1>6 DEF Owned

\* A thread writes the first part of its report: nothing is stored yet.
LEMMA PartOwn ==
    ASSUME StoreInv, NEW t \in Threads, Holds(t),
           files' = [files EXCEPT ![loc[t].id] = [state |-> "part", by |-> loc[t].by]],
           UNCHANGED <<requests, issued, completed, loc, alive>>,
           \A u \in Threads : Holds(u)' => Holds(u)
    PROVE  Owned' /\ LogStep
  <1> DEFINE i == loc[t].id
             b == loc[t].by
  <1>1. b \in 1 .. requests /\ b \notin completed /\ issued[b] = i
    BY DEF StoreInv, WritersOwn
  <1>2. files \in FileSet /\ i \in Ids
    BY <1>1, RequestsApart, SameType DEF StoreInv
  <1> HIDE DEF b, i
  <1>3. /\ files'[i] = [state |-> "part", by |-> b]
        /\ \A j \in Ids : j # i => files'[j] = files[j]
    BY <1>2 DEF FileSet, b, i
  <1>4. files[i].state # "full"
    <2> SUFFICES ASSUME files[i].state = "full" PROVE FALSE
      OBVIOUS
    <2>1. files[i].by \in completed /\ files[i].by \in 1 .. requests /\ issued[files[i].by] = i
      BY <1>2 DEF StoreInv, FilesOwned
    <2> QED
      BY <1>1, <2>1, RequestsApart
  <1>5. IssuedInOrder' /\ WritersOwn'
    BY DEF StoreInv, IssuedInOrder, WritersOwn
  <1>6. FilesOwned'
    <2>1. \A j \in Ids : files'[j].state # "none" =>
             files'[j].by \in 1 .. requests /\ issued[files'[j].by] = j
      BY <1>1, <1>2, <1>3 DEF StoreInv, FilesOwned
    <2>2. \A j \in Ids : files'[j].state = "full" => files'[j].by \in completed
      BY <1>2, <1>3 DEF StoreInv, FilesOwned
    <2> QED
      BY <2>1, <2>2 DEF StoreInv, FilesOwned
  <1>7. Stored' = Stored
    <2>1. \A r \in Requests : issued[r] \in Ids
      BY DEF StoreInv, StoreTypeOK, TypeOK
    <2>2. \A r \in Requests : files'[issued[r]] = [state |-> "full", by |-> r]
                                <=> files[issued[r]] = [state |-> "full", by |-> r]
      <3> SUFFICES ASSUME NEW r \in Requests
                   PROVE  files'[issued[r]] = [state |-> "full", by |-> r]
                            <=> files[issued[r]] = [state |-> "full", by |-> r]
        OBVIOUS
      <3>1. CASE issued[r] = i
        BY <1>3, <1>4, <3>1
      <3>2. CASE issued[r] # i
        BY <1>3, <2>1, <3>2
      <3> QED
        BY <3>1, <3>2
    <2> QED
      BY <2>2 DEF Stored
  <1> QED
    BY <1>5, <1>6, <1>7, LogStutter DEF Owned

\* A thread completes its report, or finds that its file is gone.
LEMMA FillOwn ==
    ASSUME StoreInv, NEW t \in Threads, Holds(t), FillFile(t), UNCHANGED <<requests, issued>>,
           \A u \in Threads : Holds(u)' => /\ Holds(u) /\ u # t
                                           /\ loc'[u].id = loc[u].id /\ loc'[u].by = loc[u].by
    PROVE  Owned' /\ LogStep
  <1> DEFINE i == loc[t].id
             b == loc[t].by
  <1>1. b \in 1 .. requests /\ b \notin completed /\ issued[b] = i
    BY DEF StoreInv, WritersOwn
  <1>2. files \in FileSet /\ i \in Ids /\ b \in Requests
    BY <1>1, RequestsApart, SameType DEF StoreInv
  <1>3. CASE ~(files[i].state = "part" /\ files[i].by = b)
    <2>1. UNCHANGED <<files, completed>>
      BY <1>3 DEF FillFile, Mine
    <2> QED
      BY <2>1, RemoveOwn
  <1>4. CASE files[i].state = "part" /\ files[i].by = b
    <2>1. files' = [files EXCEPT ![i].state = "full"] /\ completed' = completed \cup {b}
      BY <1>4 DEF FillFile, Mine
    <2> HIDE DEF b, i
    <2>2. /\ files'[i] = [state |-> "full", by |-> b]
          /\ \A j \in Ids : j # i => files'[j] = files[j]
      BY <1>2, <1>4, <2>1 DEF FileSet
    <2>3. IssuedInOrder'
      BY DEF StoreInv, IssuedInOrder
    <2>4. WritersOwn'
      <3>1. ASSUME NEW u \in Threads, Holds(u)'
            PROVE  loc'[u].by \in (1 .. requests) \ completed' /\ issued[loc'[u].by] = loc'[u].id
        <4>1. Holds(u) /\ u # t /\ loc'[u].id = loc[u].id /\ loc'[u].by = loc[u].by
          BY <3>1
        <4>2. loc[u].by \in (1 .. requests) \ completed /\ issued[loc[u].by] = loc[u].id
              /\ loc[u].by # b
          BY <4>1 DEF StoreInv, WritersOwn, b
        <4> QED
          BY <2>1, <4>1, <4>2
      <3>2. \A u, v \in Threads : Holds(u)' /\ Holds(v)' /\ u # v => loc'[u].by # loc'[v].by
        BY DEF StoreInv, WritersOwn
      <3> QED
        BY <3>1, <3>2 DEF WritersOwn
    <2>5. FilesOwned'
      BY <1>1, <1>2, <2>1, <2>2 DEF StoreInv, FilesOwned
    <2>6. Stored' = Stored \cup {b}
      <3>1. \A r \in Requests : issued[r] \in Ids
        BY DEF StoreInv, StoreTypeOK, TypeOK
      <3>2. ASSUME NEW r \in Requests
            PROVE  files'[issued[r]] = [state |-> "full", by |-> r]
                     <=> r = b \/ files[issued[r]] = [state |-> "full", by |-> r]
        <4>1. CASE issued[r] = i
          BY <1>1, <1>4, <2>2, <4>1
        <4>2. CASE issued[r] # i
          BY <1>1, <2>2, <3>1, <4>2
        <4> QED
          BY <4>1, <4>2
      <3> QED
        BY <1>2, <3>2 DEF Stored
    <2>7. b \notin Stored
      BY <1>1, StoredType
    <2>8. completed' \ Stored' = completed \ Stored
      BY <1>1, <2>1, <2>6
    <2>9. Log!Store
      <3>1. Len([r \in 1 .. requests |-> issued[r]]) = requests
        BY RequestsApart
      <3>2. [r \in 1 .. requests |-> issued[r]]' = [r \in 1 .. requests |-> issued[r]]
        OBVIOUS
      <3>3. b \in (1 .. requests) \ (Stored \cup (completed \ Stored))
        BY <1>1, <2>7
      <3> QED
        BY <2>6, <2>8, <3>1, <3>2, <3>3 DEF Log!Store
    <2> QED
      BY <2>3, <2>4, <2>5, <2>9 DEF Owned, LogStep, Log!Next
  <1> QED
    BY <1>3, <1>4

\* A thread takes an ID, for a request of its own.
LEMMA TakeOwn ==
    ASSUME StoreInv, NEW t \in Threads, TakeID(t), UNCHANGED <<now, files, completed, alive>>,
           \A u \in Threads : u # t => pc'[u] = pc[u]
    PROVE  Owned' /\ LogStep
  <1> DEFINE q == requests + 1
  <1>1. /\ requests' = q /\ issued' = [issued EXCEPT ![q] = NextID]
        /\ loc' = [loc EXCEPT ![t] = [IdleLoc EXCEPT !.id = NextID, !.by = q]]
        /\ requests < MaxRequests /\ Room
    BY DEF TakeID, Room
  <1>2. issued \in [Requests -> Ids] /\ loc \in [Threads -> Locs] /\ requests \in Nat /\ files \in FileSet
    BY SameType, RequestsApart DEF StoreInv, StoreTypeOK, TypeOK
  <1>3. q \in Requests /\ q \notin 1 .. requests /\ 1 .. q = (1 .. requests) \cup {q}
    BY <1>1, <1>2, ConstantsType DEF Requests
  <1>4. NextID \in Ids
    BY <1>1, NextIDInIds, ConstantsType DEF StoreInv, StoreTypeOK, TypeOK
  <1>5. issued'[q] = NextID /\ \A r \in 1 .. requests : issued'[r] = issued[r]
    BY <1>1, <1>2, <1>3, RequestsApart
  <1>6. \A r \in 1 .. requests : issued[r] < NextID
    <2>1. Increases
      BY TakeIDs DEF StoreInv
    <2>2. requests' # requests
      BY <1>1, <1>2
    <2> QED
      BY <1>1, <1>5, <2>1, <2>2 DEF Increases
  <1> HIDE DEF q
  <1>7. IssuedInOrder'
    <2> SUFFICES ASSUME NEW r \in 1 .. q, NEW s \in 1 .. q, r < s PROVE issued'[r] < issued'[s]
      BY <1>1 DEF IssuedInOrder
    <2>1. r \in 1 .. requests
      BY <1>2, <1>3 DEF q
    <2>2. CASE s = q
      BY <1>5, <1>6, <2>1, <2>2
    <2>3. CASE s \in 1 .. requests
      BY <1>5, <2>1, <2>3 DEF StoreInv, IssuedInOrder
    <2> QED
      BY <1>3, <2>2, <2>3
  <1>8. FilesOwned'
    BY <1>1, <1>3, <1>5 DEF StoreInv, FilesOwned
  <1>9. loc'[t].by = q /\ loc'[t].id = NextID /\ \A u \in Threads : u # t => loc'[u] = loc[u]
    BY <1>1, <1>2 DEF IdleLoc
  <1>10. q \notin completed
    BY <1>3 DEF StoreInv, FilesOwned
  <1>11. \A u \in Threads : u # t /\ Holds(u)' => Holds(u)
    BY DEF Holds
  <1>12. WritersOwn'
    <2>1. \A u \in Threads : Holds(u)' =>
             loc'[u].by \in (1 .. requests') \ completed /\ issued'[loc'[u].by] = loc'[u].id
      BY <1>1, <1>3, <1>5, <1>9, <1>10, <1>11 DEF StoreInv, WritersOwn
    <2>2. \A u, v \in Threads : Holds(u)' /\ Holds(v)' /\ u # v => loc'[u].by # loc'[v].by
      BY <1>3, <1>9, <1>11 DEF StoreInv, WritersOwn
    <2> QED
      BY <2>1, <2>2 DEF WritersOwn
  <1>13. Stored' = Stored
    <2>1. \A r \in Requests : r # q => issued'[r] = issued[r]
      BY <1>1, <1>2
    <2>2. issued[q] \in Ids
      BY <1>2, <1>3
    <2>3. \A i \in Ids : files[i] # [state |-> "full", by |-> q]
      BY <1>3 DEF StoreInv, FilesOwned
    <2> QED
      BY <1>4, <1>5, <2>1, <2>2, <2>3 DEF Stored
  <1>14. Log!Ask
    <2> DEFINE old == [r \in 1 .. requests |-> issued[r]]
    <2>1. Len(old) = requests /\ old \in Seq(Ids)
      BY <1>2, RequestsApart
    <2>2. \A r \in 1 .. requests : old[r] = issued[r]
      OBVIOUS
    <2>3. [r \in 1 .. requests |-> issued[r]]' = [r \in 1 .. q |-> issued'[r]]
      BY <1>1
    <2> HIDE DEF old
    <2>4. [r \in 1 .. q |-> issued'[r]] = Append(old, NextID)
      <3>1. Append(old, NextID) \in Seq(Ids) /\ Len(Append(old, NextID)) = q
            /\ \A r \in 1 .. requests : Append(old, NextID)[r] = old[r]
            /\ Append(old, NextID)[q] = NextID
        BY <1>2, <1>4, <2>1 DEF q
      <3>2. \A r \in 1 .. q : issued'[r] = Append(old, NextID)[r]
        BY <1>3, <1>5, <2>2, <3>1
      <3> DEFINE new == [r \in 1 .. q |-> issued'[r]]
      <3>3. q \in Nat /\ \A r \in 1 .. q : issued'[r] \in Ids
        BY <1>2, <1>3, <1>4, <1>5, RequestsApart
      <3>4. new \in Seq(Ids) /\ Len(new) = q /\ \A r \in 1 .. q : new[r] = issued'[r]
        BY <3>3
      <3> HIDE DEF new
      <3>5. new = Append(old, NextID)
        BY <3>1, <3>2, <3>4, SeqEqual
      <3> QED
        BY <3>5 DEF new
    <2>5. (completed \ Stored)' = completed \ Stored
      BY <1>13
    <2>6. \A r \in 1 .. Len(old) : old[r] < NextID
      BY <1>6, <2>1, <2>2
    <2> QED
      BY <1>1, <1>4, <1>13, <2>1, <2>3, <2>4, <2>5, <2>6 DEF Log!Ask, old
  <1> QED
    BY <1>7, <1>8, <1>12, <1>14 DEF Owned, LogStep, Log!Next

\* A step of a thread that has begun: it fills, begins or leaves its file, or removes others.
LEMMA ContinueOwn ==
    ASSUME StoreInv, NEW t \in Threads, Continue(t)
    PROVE  Owned' /\ LogStep
  <1>1. t \in Threads /\ pc \in [Threads -> Labels] /\ loc \in [Threads -> Locs]
        /\ files \in FileSet
    BY SameType DEF StoreInv
  <1> USE DEF idVars, diskVars, deliveryVars, threadVars, At, Holds, Writing, Goto
  <1>2. CASE AddOpen(t)
    <2>1. CASE files' = [files EXCEPT ![loc[t].id] = [state |-> "part", by |-> loc[t].by]]
               /\ Goto(t, "fill")
      <3>1. Holds(t) /\ UNCHANGED <<requests, issued, completed, loc, alive>>
            /\ \A u \in Threads : Holds(u)' => Holds(u)
        BY <1>1, <1>2, <2>1 DEF AddOpen
      <3> QED
        BY <1>1, <2>1, <3>1, PartOwn
    <2>2. CASE UNCHANGED files /\ Goto(t, "unlock")
      <3>1. UNCHANGED <<requests, issued, completed, loc, alive>>
            /\ \A u \in Threads : Holds(u)' => Holds(u)
        BY <1>1, <1>2, <2>2 DEF AddOpen
      <3> QED
        BY <2>2, <3>1, RemoveOwn
    <2> QED
      BY <1>2, <2>1, <2>2 DEF AddOpen
  <1>3. CASE AddWrite(t)
    <2>1. /\ Holds(t) /\ UNCHANGED <<requests, issued, loc, alive>>
          /\ \A u \in Threads : Holds(u)' => Holds(u) /\ u # t
      BY <1>1, <1>3 DEF AddWrite
    <2>2. CASE FillFile(t)
      BY <1>1, <2>1, <2>2, FillOwn
    <2>3. CASE UNCHANGED <<files, completed, exposed>>
      BY <2>1, <2>3, RemoveOwn
    <2> QED
      BY <1>3, <2>2, <2>3 DEF AddWrite
  <1>4. CASE CreateReport(t)
    <2>1. CASE files[loc[t].id].state = "none"
      <3>1. /\ Holds(t) /\ UNCHANGED <<requests, issued, completed, loc, alive>>
            /\ files' = [files EXCEPT ![loc[t].id] = [state |-> "part", by |-> loc[t].by]]
            /\ \A u \in Threads : Holds(u)' => Holds(u)
        BY <1>1, <1>4, <2>1 DEF CreateReport
      <3> QED
        BY <1>1, <3>1, PartOwn
    <2>2. CASE files[loc[t].id].state # "none"
      <3>1. /\ UNCHANGED <<files, requests, issued, completed>>
            /\ \A u \in Threads : Holds(u)' => Holds(u) /\ loc'[u] = loc[u]
        BY <1>1, <1>4, <2>2 DEF CreateReport, EndReport
      <3> QED
        BY <3>1, RemoveOwn
    <2> QED
      BY <2>1, <2>2
  <1>5. CASE WriteReport(t)
    <2>1. /\ Holds(t) /\ UNCHANGED <<requests, issued>> /\ FillFile(t)
          /\ \A u \in Threads : Holds(u)' => Holds(u) /\ u # t /\ loc'[u] = loc[u]
      BY <1>1, <1>5 DEF WriteReport, EndReport
    <2> QED
      BY <1>1, <2>1, FillOwn
  <1>6. CASE Recreate(t)
    <2>1. /\ Holds(t) /\ UNCHANGED <<requests, issued, completed, loc, alive>>
          /\ files' = [files EXCEPT ![loc[t].id] = [state |-> "part", by |-> loc[t].by]]
          /\ \A u \in Threads : Holds(u)' => Holds(u)
      BY <1>1, <1>6 DEF Recreate
    <2> QED
      BY <1>1, <2>1, PartOwn
  <1>7. CASE CrashPath(t)
    BY <1>1, <1>7, TakeOwn DEF CrashPath
  <1>8. CASE Unlock(t) \/ Discard(t) \/ SendSink(t) \/ ClearBegin(t) \/ ClearEnd(t)
    <2>1. /\ UNCHANGED <<files, requests, issued, completed>>
          /\ \A u \in Threads : Holds(u)' => Holds(u) /\ loc'[u].id = loc[u].id
                                             /\ loc'[u].by = loc[u].by
      BY <1>1, <1>8 DEF Unlock, Discard, SendSink, ClearBegin, ClearEnd
    <2> QED
      BY <2>1, RemoveOwn
  <1>9. CASE SendIDs(t) \/ SendRead(t)
    <2>1. /\ UNCHANGED <<files, requests, issued, completed>>
          /\ \A u \in Threads : Holds(u)' => Holds(u) /\ u # t /\ loc'[u] = loc[u]
      BY <1>1, <1>9 DEF SendIDs, SendRead
    <2> QED
      BY <2>1, RemoveOwn
  <1>10. CASE ClearOne(t)
    <2>1. /\ UNCHANGED <<requests, issued, completed>>
          /\ \A u \in Threads : Holds(u)' => Holds(u) /\ u # t /\ loc'[u] = loc[u]
      BY <1>1, <1>10 DEF ClearOne
    <2>2. \A i \in Ids : files'[i] = files[i] \/ files'[i] = NoFile
      BY <1>1, <1>10 DEF ClearOne, FileSet
    <2> QED
      BY <2>1, <2>2, RemoveOwn
  <1> QED
    BY <1>2, <1>3, <1>4, <1>5, <1>6, <1>7, <1>8, <1>9, <1>10 DEF Continue

LEMMA BeginOwn ==
    ASSUME StoreInv, NEW t \in users, Begin(t)
    PROVE  Owned' /\ LogStep
  <1>1. t \in Threads /\ pc \in [Threads -> Labels] /\ loc \in [Threads -> Locs]
        /\ files \in FileSet
    BY SameType DEF StoreInv
  <1> USE DEF idVars, diskVars, deliveryVars, threadVars, At, Holds, Writing, Goto
  <1>2. CASE AddBegin(t)
    BY <1>1, <1>2, TakeOwn DEF AddBegin
  <1>3. CASE ReportBegin(t)
    BY <1>1, <1>3, TakeOwn DEF ReportBegin
  <1>7. CASE Crash(t)
    <2>1. /\ UNCHANGED <<files, requests, issued, completed>>
          /\ \A u \in Threads : ~Holds(u)'
      BY <1>1, <1>7 DEF Crash
    <2> QED
      BY <2>1, RemoveOwn
  <1>4. CASE SendCount(t)
    <2>1. /\ UNCHANGED <<files, requests, issued, completed>>
          /\ \A u \in Threads : Holds(u)' => Holds(u) /\ u # t /\ loc'[u] = loc[u]
      BY <1>1, <1>4 DEF SendCount
    <2> QED
      BY <2>1, RemoveOwn
  <1>5. CASE DeleteByID(t)
    <2>1. /\ UNCHANGED <<requests, issued, completed, pc, loc, alive>>
          /\ \A i \in Ids : files'[i] = files[i] \/ files'[i] = NoFile
      BY <1>1, <1>5 DEF DeleteByID, FileSet
    <2> QED
      BY <2>1, RemoveOwn
  <1>6. CASE Recrash(t)
    <2>1. /\ UNCHANGED <<requests, issued, completed, loc, alive>>
          /\ \A u \in Threads : Holds(u)' => Holds(u)
      BY <1>1, <1>6 DEF Recrash
    <2>2. \A i \in Ids : files'[i] = files[i] \/ files'[i] = NoFile
      BY <1>1, <1>6 DEF Recrash, FileSet
    <2> QED
      BY <2>1, <2>2, RemoveOwn
  <1> QED
    BY <1>2, <1>3, <1>4, <1>5, <1>6, <1>7 DEF Begin

LEMMA AnswerOwn ==
    ASSUME StoreInv, NEW t \in Threads, SinkAnswers(t)
    PROVE  Owned' /\ LogStep
  <1>1. pc \in [Threads -> Labels]
    BY SameType DEF StoreInv
  <1>2. /\ UNCHANGED <<files, requests, issued, completed, loc, alive>>
        /\ \E l \in {"clear", "idle"} : Goto(t, l)
    BY DEF SinkAnswers, diskVars, idVars
  <1>3. \A u \in Threads : Holds(u)' => Holds(u)
    BY <1>1, <1>2 DEF Goto, Holds, Writing
  <1> QED
    BY <1>2, <1>3, RemoveOwn

LEMMA InitStore == Init => StoreInv /\ Log!Init
  <1> SUFFICES ASSUME Init PROVE StoreInv /\ Log!Init
    OBVIOUS
  <1>1. IDInv /\ StoreTypeOK
    BY InitIDs, TypeInit
  <1>2. Owned
    BY DEF Init, Owned, IssuedInOrder, FilesOwned, WritersOwn, NoFile, Holds, Writing
  <1>3. Stored = {}
    <2>1. issued \in [Requests -> Ids]
      BY <1>1 DEF StoreTypeOK, TypeOK
    <2> QED
      BY <2>1 DEF Init, Stored, NoFile
  <1>4. [r \in 1 .. requests |-> issued[r]] = <<>>
    <2>1. [r \in 1 .. 0 |-> issued[r]] \in Seq(Ids) /\ Len([r \in 1 .. 0 |-> issued[r]]) = 0
      OBVIOUS
    <2> QED
      BY <2>1, EmptySeq DEF Init
  <1> QED
    BY <1>1, <1>2, <1>3, <1>4 DEF Init, Log!Init, StoreInv, Owned

LEMMA NextStore ==
    ASSUME StoreInv, [Next]_vars
    PROVE  StoreInv' /\ LogStep
  <1>1. IDInv'
    BY NextIDs DEF StoreInv
  <1>7. CASE Kill
    <2>1. /\ UNCHANGED <<files, requests, issued, completed>>
          /\ \A u \in Threads : ~Holds(u)'
      BY <1>7 DEF Kill, idVars, diskVars, Holds
    <2>2. Owned' /\ LogStep
      BY <2>1, RemoveOwn
    <2> QED
      BY <1>1, <1>7, <2>2, KillType DEF StoreInv, Owned
  <1>8. ASSUME NEW t \in Threads, SinkAnswers(t) PROVE StoreInv' /\ LogStep
    BY <1>1, <1>8, AnswerType, AnswerOwn DEF StoreInv, Owned
  <1>2. CASE UNCHANGED vars
    <2>1. /\ UNCHANGED <<files, requests, issued, completed, loc, pc>>
          /\ \A u \in Threads : Holds(u)' => Holds(u)
      BY <1>2 DEF vars, idVars, diskVars, deliveryVars, threadVars, Holds
    <2>2. Owned' /\ LogStep
      BY <2>1, RemoveOwn
    <2>3. StoreTypeOK'
      <3>1. alive' \in BOOLEAN /\ UNCHANGED <<now, idVars, crasher, lock, files, aside, pc, loc,
                                              handed, completed, sent>>
        BY <1>2, SameType DEF StoreInv, vars, diskVars, deliveryVars, threadVars
      <3> QED
        BY <3>1, SameType, TypeByParts DEF StoreInv
    <2> QED
      BY <1>1, <2>2, <2>3 DEF StoreInv, Owned
  <1>3. ASSUME NEW t \in Threads, Continue(t) PROVE StoreInv' /\ LogStep
    <2>1. StoreTypeOK'
      <3>1. CASE CrashPath(t)
        BY <3>1, TakeStepType DEF CrashPath, Labels
      <3> QED
        BY <1>3, <3>1, ContinueType
    <2> QED
      BY <1>1, <1>3, <2>1, ContinueOwn DEF StoreInv, Owned
  <1>4. ASSUME NEW t \in users, Begin(t) PROVE StoreInv' /\ LogStep
    <2> t \in Threads
      BY SameType DEF StoreInv
    <2>1. StoreTypeOK'
      <3>1. CASE AddBegin(t)
        BY <3>1, TakeStepType DEF AddBegin, Labels
      <3>2. CASE ReportBegin(t)
        BY <3>2, TakeStepType DEF ReportBegin, Labels
      <3> QED
        BY <1>4, <3>1, <3>2, BeginType
    <2> QED
      BY <1>1, <1>4, <2>1, BeginOwn DEF StoreInv, Owned
  <1>5. CASE Launch
    <2>1. /\ UNCHANGED <<requests, issued, completed>>
          /\ \A u \in Threads : ~Holds(u)'
          /\ \A i \in Ids : files'[i] = files[i] \/ files'[i] = NoFile
      BY <1>5 DEF Launch, Forget, Holds, Writing
    <2>2. Owned' /\ LogStep
      BY <2>1, RemoveOwn
    <2> QED
      BY <1>1, <1>5, <2>2, LaunchType DEF StoreInv, Owned
  <1>6. CASE Over
    BY <1>2, <1>6 DEF Over
  <1> QED
    BY <1>2, <1>3, <1>4, <1>5, <1>6, <1>7, <1>8 DEF Next

\* The store implements the log of reports, for any threads, calls, widths of the IDs and
\* numbers of launches: every complete report is stored once, under an ID of its own that
\* is larger than those before it, and does not come back once it is gone.
THEOREM StoreIsReportLog == Spec => IsReportLog
  <1>1. Init => StoreInv /\ Log!Init
    BY InitStore
  <1>2. StoreInv /\ [Next]_vars => StoreInv' /\ [Log!Next]_(Log!logVars)
    BY NextStore DEF LogStep
  <1> QED
    BY <1>1, <1>2, PTL DEF Spec, IsReportLog, Log!Spec

(***************************************************************************)
(* Pruning.  The names before a name are fewer than all of them, and more    *)
(* for a later name: of n names, those with less than k before them leave at *)
(* most n - k.                                                              *)
(***************************************************************************)
NamesBefore(names, x) == {y \in names : Before(y, x)}

LEMMA BeforeOrders ==
    \A x, y, z \in Ids \X {"json", "old"} :
        /\ ~Before(x, x)
        /\ x # y => Before(x, y) \/ Before(y, x)
        /\ Before(x, y) /\ Before(y, z) => Before(x, z)
        /\ Before(x, y) => x[1] <= y[1]
  <1> SUFFICES ASSUME NEW x \in Ids \X {"json", "old"}, NEW y \in Ids \X {"json", "old"},
                      NEW z \in Ids \X {"json", "old"}
               PROVE  /\ ~Before(x, x)
                      /\ x # y => Before(x, y) \/ Before(y, x)
                      /\ Before(x, y) /\ Before(y, z) => Before(x, z)
                      /\ Before(x, y) => x[1] <= y[1]
    OBVIOUS
  <1>1. \A n \in Ids \X {"json", "old"} : n = <<n[1], n[2]>> /\ n[1] \in Nat /\ n[2] \in {"json", "old"}
    <2>1. \A n \in Ids \X {"json", "old"} : n = <<n[1], n[2]>> /\ n[1] \in Ids /\ n[2] \in {"json", "old"}
      OBVIOUS
    <2> QED
      BY <2>1, ConstantsType
  <1>2. x = <<x[1], x[2]>> /\ y = <<y[1], y[2]>> /\ x[1] \in Nat /\ y[1] \in Nat /\ z[1] \in Nat
        /\ x[2] \in {"json", "old"} /\ y[2] \in {"json", "old"} /\ z[2] \in {"json", "old"}
    BY <1>1
  <1>3. x # y => x[1] # y[1] \/ x[2] # y[2]
    BY <1>2
  <1>4. ~Before(x, x)
    BY <1>2 DEF Before
  <1>5. x # y => Before(x, y) \/ Before(y, x)
    BY <1>2, <1>3 DEF Before
  <1>6. Before(x, y) /\ Before(y, z) => Before(x, z)
    BY <1>2 DEF Before
  <1>7. Before(x, y) => x[1] <= y[1]
    BY <1>2 DEF Before
  <1> QED
    BY <1>4, <1>5, <1>6, <1>7

LEMMA Ranks ==
    ASSUME NEW names, names \subseteq Ids \X {"json", "old"}, IsFiniteSet(names),
           NEW x \in names, NEW y \in names
    PROVE  /\ Cardinality(NamesBefore(names, x)) \in Nat
           /\ Cardinality(NamesBefore(names, x)) < Cardinality(names)
           /\ Before(x, y) =>
                Cardinality(NamesBefore(names, x)) < Cardinality(NamesBefore(names, y))
  <1> DEFINE A(n) == NamesBefore(names, n)
  <1>1. \A n : A(n) \subseteq names /\ IsFiniteSet(A(n)) /\ Cardinality(A(n)) \in Nat
    <2>1. \A n : A(n) \subseteq names
      BY DEF NamesBefore
    <2> HIDE DEF A
    <2> QED
      BY <2>1, FS_Subset, FS_CardinalityType
  <1>2. x \notin A(x)
    BY BeforeOrders DEF NamesBefore
  <1>3. Cardinality(A(x)) < Cardinality(names)
    <2>1. A(x) # names
      BY <1>2
    <2> HIDE DEF A
    <2>2. Cardinality(A(x)) <= Cardinality(names) /\ Cardinality(A(x)) # Cardinality(names)
      BY <1>1, <2>1, FS_Subset
    <2> QED
      BY <1>1, <2>2, FS_CardinalityType
  <1>4. ASSUME Before(x, y) PROVE Cardinality(A(x)) < Cardinality(A(y))
    <2>1. A(x) \subseteq A(y) /\ x \in A(y)
      BY <1>4, BeforeOrders DEF NamesBefore
    <2>2. A(x) # A(y)
      BY <1>2, <2>1
    <2> HIDE DEF A
    <2>3. Cardinality(A(x)) <= Cardinality(A(y)) /\ Cardinality(A(x)) # Cardinality(A(y))
      BY <1>1, <2>1, <2>2, FS_Subset
    <2> QED
      BY <1>1, <2>3
  <1> QED
    BY <1>1, <1>3, <1>4 DEF A

\* What is left when the k oldest names are gone.
LEMMA OldestLeave ==
    ASSUME NEW names, names \subseteq Ids \X {"json", "old"}, IsFiniteSet(names),
           NEW k \in Nat, k <= Cardinality(names)
    PROVE  /\ IsFiniteSet(names \ Oldest(names, k))
           /\ Cardinality(names \ Oldest(names, k)) <= Cardinality(names) - k
           /\ \A x \in Oldest(names, k), y \in names \ Oldest(names, k) : Before(x, y)
  <1> DEFINE n == Cardinality(names)
             S == names \ Oldest(names, k)
             rank == [x \in S |-> Cardinality(NamesBefore(names, x))]
  <1>1. n \in Nat /\ k <= n
    BY FS_CardinalityType
  <1>2. \A x \in names : x \in Oldest(names, k) <=> Cardinality(NamesBefore(names, x)) < k
    BY DEF Oldest, NamesBefore
  <1>3. \A x \in S : rank[x] \in k .. n - 1
    <2> SUFFICES ASSUME NEW x \in S PROVE rank[x] \in k .. n - 1
      OBVIOUS
    <2>1. x \in names /\ ~(Cardinality(NamesBefore(names, x)) < k)
      BY <1>2
    <2>2. Cardinality(NamesBefore(names, x)) \in Nat /\ Cardinality(NamesBefore(names, x)) < n
      BY <2>1, Ranks
    <2> QED
      BY <1>1, <2>1, <2>2
  <1>4. \A x, y \in S : rank[x] = rank[y] => x = y
    <2> SUFFICES ASSUME NEW x \in S, NEW y \in S, x # y PROVE rank[x] # rank[y]
      OBVIOUS
    <2>1. Before(x, y) \/ Before(y, x)
      BY BeforeOrders
    <2>2. rank[x] \in Nat /\ rank[y] \in Nat
      BY Ranks
    <2>3. rank[x] < rank[y] \/ rank[y] < rank[x]
      BY <2>1, Ranks
    <2> QED
      BY <2>2, <2>3
  <1>5. rank \in Injection(S, k .. n - 1)
    <2>1. rank \in [S -> k .. n - 1]
      BY <1>3
    <2> HIDE DEF S, rank, n
    <2> QED
      BY <1>4, <2>1 DEF Injection, IsInjective
  <1>6. IsFiniteSet(k .. n - 1) /\ Cardinality(k .. n - 1) <= n - k
    <2> HIDE DEF n
    <2>1. k \in Int /\ n - 1 \in Int
      BY <1>1
    <2>2. IsFiniteSet(k .. n - 1) /\ Cardinality(k .. n - 1) = IF k > n - 1 THEN 0 ELSE (n - 1) - k + 1
      BY <2>1, FS_Interval
    <2> QED
      BY <1>1, <2>2
  <1>7. IsFiniteSet(S) /\ Cardinality(S) <= n - k
    <2> HIDE DEF S, rank, n
    <2>1. IsFiniteSet(S) /\ Cardinality(S) <= Cardinality(k .. n - 1)
      BY <1>5, <1>6, FS_Injection
    <2>2. Cardinality(S) \in Nat /\ Cardinality(k .. n - 1) \in Nat
      BY <1>6, <2>1, FS_CardinalityType
    <2> QED
      BY <1>1, <1>6, <2>1, <2>2
  <1>8. ASSUME NEW x \in Oldest(names, k), NEW y \in S PROVE Before(x, y)
    <2>1. x \in names /\ y \in names
      BY DEF Oldest
    <2>2. Cardinality(NamesBefore(names, x)) < k /\ ~(Cardinality(NamesBefore(names, y)) < k)
      BY <1>2, <2>1
    <2>3. Cardinality(NamesBefore(names, x)) \in Nat /\ Cardinality(NamesBefore(names, y)) \in Nat
      BY <2>1, Ranks
    <2>4. x # y
      BY <2>2
    <2>5. ~Before(y, x)
      BY <2>1, <2>2, <2>3, Ranks
    <2> QED
      BY <2>1, <2>4, <2>5, BeforeOrders
  <1> QED
    BY <1>7, <1>8

\* The files of some names are at most as many as the names.
LEMMA FilesOfNames ==
    ASSUME NEW names, IsFiniteSet(names), NEW ids, \A i \in ids : <<i, "json">> \in names
    PROVE  IsFiniteSet(ids) /\ Cardinality(ids) <= Cardinality(names)
  <1> DEFINE f == [i \in ids |-> <<i, "json">>]
  <1>1. f \in [ids -> names] /\ \A i, j \in ids : f[i] = f[j] => i = j
    OBVIOUS
  <1> HIDE DEF f
  <1>2. f \in Injection(ids, names)
    BY <1>1 DEF Injection, IsInjective
  <1> QED
    BY <1>2, FS_Injection

LEMMA LaunchPrunes ==
    ASSUME StoreInv, Launch
    PROVE  LET kept == {i \in Ids : files'[i].state # "none"}
               gone == {i \in Ids : files[i].state # "none"} \ kept
           IN  /\ Cardinality(kept) <= MaxReportCount
               /\ \A i \in gone, j \in kept : files[i].by < files[j].by
  <1> DEFINE kept == {i \in Ids : files'[i].state # "none"}
             gone == {i \in Ids : files[i].state # "none"} \ kept
             n == Cardinality(Names)
             k == n - MaxReportCount
             old == Oldest(Names, k)
  <1>1. Names \subseteq Ids \X {"json", "old"} /\ IsFiniteSet(Names)
    BY SameType, NamesType, NamesFinite DEF StoreInv
  <1>2. n \in Nat /\ MaxReportCount \in Nat
    BY <1>1, FS_CardinalityType, StoreAssumption
  <1>3. \A i \in Ids : files[i].state # "none" => <<i, "json">> \in Names
    BY DEF Names
  <1>4. \A i \in Ids : files'[i] = IF i \in Pruned THEN NoFile ELSE files[i]
    BY DEF Launch
  <1>5. \A i \in kept : i \in Ids /\ i \notin Pruned /\ files[i].state # "none"
    BY <1>4 DEF NoFile
  <1>6. \A i \in gone : i \in Ids /\ i \in Pruned /\ files[i].state # "none"
    BY <1>4
  <1>7. CASE n > MaxReportCount
    <2>1. k \in Nat /\ k <= n /\ n - k = MaxReportCount
      BY <1>2, <1>7
    <2>2. /\ IsFiniteSet(Names \ old) /\ Cardinality(Names \ old) <= MaxReportCount
          /\ \A x \in old, y \in Names \ old : Before(x, y)
      <3> HIDE DEF k
      <3> QED
        BY <1>1, <2>1, OldestLeave
    <2>3. Pruned = IdsOf(old)
      BY <1>7 DEF Pruned
    <2>4. \A i \in kept : <<i, "json">> \in Names \ old
      <3> SUFFICES ASSUME NEW i \in kept, <<i, "json">> \in old PROVE FALSE
        BY <1>3, <1>5
      <3>1. i \in IdsOf(old)
        BY DEF IdsOf
      <3> QED
        BY <1>5, <2>3, <3>1
    <2> HIDE DEF kept, gone, old, k
    <2>5. Cardinality(kept) <= MaxReportCount
      <3>1. IsFiniteSet(kept) /\ Cardinality(kept) <= Cardinality(Names \ old)
        BY <2>2, <2>4, FilesOfNames
      <3>2. Cardinality(kept) \in Nat /\ Cardinality(Names \ old) \in Nat
        BY <2>2, <3>1, FS_CardinalityType
      <3> QED
        BY <1>2, <2>2, <3>1, <3>2
    <2>6. ASSUME NEW i \in gone, NEW j \in kept PROVE files[i].by < files[j].by
      <3>1. PICK x \in old : x[1] = i
        BY <1>6, <2>3 DEF IdsOf
      <3>2. x \in Ids \X {"json", "old"} /\ <<j, "json">> \in Ids \X {"json", "old"}
        BY <1>1, <2>4 DEF old, Oldest
      <3>3. i <= j
        BY <2>2, <2>4, <3>1, <3>2, BeforeOrders
      <3>4. i # j /\ i \in Ids /\ j \in Ids
        BY <1>5, <1>6
      <3>5. i < j
        BY <3>3, <3>4, ConstantsType
      <3>6. /\ files[i].by \in 1 .. requests /\ issued[files[i].by] = i
            /\ files[j].by \in 1 .. requests /\ issued[files[j].by] = j
        BY <1>5, <1>6 DEF StoreInv, FilesOwned
      <3>7. ~(files[j].by < files[i].by) /\ files[i].by # files[j].by
        <4>1. files[j].by < files[i].by => j < i
          BY <3>6 DEF StoreInv, IssuedInOrder
        <4> QED
          BY <3>4, <3>5, <3>6, <4>1, ConstantsType
      <3> QED
        BY <3>6, <3>7, RequestsApart
    <2> QED
      BY <2>5, <2>6 DEF kept, gone
  <1>8. CASE ~(n > MaxReportCount)
    <2>1. Pruned = {}
      BY <1>8 DEF Pruned
    <2>2. \A i \in kept : <<i, "json">> \in Names
      BY <1>3, <1>5
    <2>3. gone = {}
      BY <1>6, <2>1
    <2> HIDE DEF kept, gone, old, k
    <2>4. IsFiniteSet(kept) /\ Cardinality(kept) <= Cardinality(Names)
      BY <1>1, <2>2, FilesOfNames
    <2>5. Cardinality(kept) \in Nat
      BY <2>4, FS_CardinalityType
    <2> QED
      BY <1>2, <1>8, <2>3, <2>4, <2>5 DEF kept, gone
  <1> QED
    BY <1>7, <1>8

\* Only a launch starts a process.
LEMMA LaunchOnly == [Next]_vars /\ ~alive /\ alive' => Launch
  BY DEF Next, Continue, Begin, AddBegin, AddOpen, AddWrite, Unlock, ReportBegin, Crash,
         CrashPath, CreateReport, WriteReport, Recrash, Recreate, Discard, SendCount, SendIDs,
         SendRead, SendSink, SinkAnswers, ClearBegin, ClearOne, ClearEnd, DeleteByID, Kill, Over,
         vars,
         At

\* However many names are in the directory, complete, partial or left over, a launch keeps
\* at most MaxReportCount reports, and none that it removes was requested after one it keeps.
THEOREM PrunesOldest == Spec => PruneKeepsNewest
  <1>1. Init => StoreInv
    BY InitStore
  <1>2. StoreInv /\ [Next]_vars => StoreInv'
    BY NextStore
  <1>3. StoreInv /\ [Next]_vars =>
          [~alive /\ alive' =>
            LET kept == {i \in Ids : files'[i].state # "none"}
                gone == {i \in Ids : files[i].state # "none"} \ kept
            IN /\ Cardinality(kept) <= MaxReportCount
               /\ \A i \in gone, j \in kept : files[i].by < files[j].by]_vars
    BY LaunchOnly, LaunchPrunes
  <1> QED
    BY <1>1, <1>2, <1>3, PTL DEF Spec, PruneKeepsNewest

(***************************************************************************)
(* Reports of an application that uses the store from one thread.  A report *)
(* at risk is complete, and would be lost with its file.  Until the thread   *)
(* hands a delivery over, every report at risk is in what it still has to    *)
(* read or in what it will hand over; those that were at risk at that moment *)
(* and still are, are in the delivery; so none is at risk while the          *)
(* directory is emptied.                                                    *)
(***************************************************************************)
AtRisk == completed \ (sent \cup dropped \cup exposed)

\* What a thread that only answers for the sink may be doing.
Answering == {"idle", "clear", "remove", "unlock", "stopped"}

Reading(u) ==
    /\ pc[u] = "ids" => AtRisk = {} \/ loc[u].count = Cardinality(Names)
    /\ pc[u] = "read" => \A r \in AtRisk : r \in loc[u].batch \/ issued[r] \in loc[u].todo

HandedOver ==
    \A d \in Deliveries : /\ handed[d].seen \subseteq completed
                          /\ AtRisk \cap handed[d].seen \subseteq handed[d].batch

Kept(u) ==
    /\ AtRisk \subseteq Stored
    /\ HandedOver
    /\ Reading(u)
    /\ Clearing => AtRisk = {}
    /\ \A v \in Threads \ {u} : pc[v] \in Answering

AloneInv == Alone /\ Behavior # "always" => \A u \in users : Kept(u)

\* What a thread is writing is not complete.
LEMMA HeldNotFull ==
    ASSUME StoreInv, NEW t \in Threads, Holds(t)
    PROVE  loc[t].id \in Ids /\ files[loc[t].id].state # "full"
  <1> DEFINE i == loc[t].id
             b == loc[t].by
  <1>1. b \in 1 .. requests /\ b \notin completed /\ issued[b] = i
    BY DEF StoreInv, WritersOwn
  <1>2. i \in Ids
    BY <1>1, RequestsApart
  <1> HIDE DEF b, i
  <1>3. ASSUME files[i].state = "full" PROVE FALSE
    <2>1. files[i].by \in completed /\ files[i].by \in 1 .. requests /\ issued[files[i].by] = i
      BY <1>2, <1>3 DEF StoreInv, FilesOwned
    <2> QED
      BY <1>1, <2>1, RequestsApart
  <1> QED
    BY <1>2, <1>3 DEF i

\* A report on disk has the ID it was given, and a name in the directory.
LEMMA StoredHere ==
    ASSUME StoreInv, NEW r \in Stored
    PROVE  /\ r \in Requests /\ r \in 1 .. requests /\ issued[r] \in Ids
           /\ issued[r] \in FullFiles /\ files[issued[r]].by = r
           /\ issued[r] \in IdsOf(Names)
  <1>1. r \in Requests /\ issued[r] \in Ids /\ files[issued[r]] = [state |-> "full", by |-> r]
    BY DEF Stored, StoreInv, StoreTypeOK, TypeOK
  <1>2. r \in 1 .. requests
    BY <1>1 DEF StoreInv, FilesOwned
  <1>3. issued[r] \in IdsOf(Names)
    <2>1. <<issued[r], "json">> \in Names
      BY <1>1 DEF Names
    <2>2. <<issued[r], "json">>[1] = issued[r]
      OBVIOUS
    <2> QED
      BY <2>1, <2>2 DEF IdsOf
  <1> QED
    BY <1>1, <1>2, <1>3 DEF FullFiles

\* Nothing is at risk any more.
LEMMA NoRisk ==
    ASSUME NEW u \in Threads, Kept(u), AtRisk' = {}, completed \subseteq completed',
           \A d \in Deliveries : handed'[d] = handed[d] \/ handed'[d] = NoDelivery,
           \A v \in Threads \ {u} : pc'[v] \in Answering
    PROVE  Kept(u)'
  <1>1. HandedOver'
    BY DEF Kept, HandedOver, NoDelivery
  <1>2. Reading(u)'
    BY DEF Reading
  <1> QED
    BY <1>1, <1>2 DEF Kept

\* No report gets at risk, and the files of those that are at risk stay.
LEMMA NoMoreRisk ==
    ASSUME StoreInv, NEW u \in Threads, Kept(u),
           AtRisk' \subseteq AtRisk, completed' = completed,
           \A i \in FullFiles : files'[i] = files[i] \/ files[i].by \notin AtRisk',
           \A r \in 1 .. requests : issued'[r] = issued[r],
           \A d \in Deliveries : handed'[d] = handed[d] \/ handed'[d] = NoDelivery,
           Reading(u)', Clearing' => AtRisk' = {},
           \A v \in Threads \ {u} : pc'[v] \in Answering
    PROVE  Kept(u)'
  <1>1. AtRisk' \subseteq Stored'
    <2> SUFFICES ASSUME NEW r \in AtRisk' PROVE r \in Stored'
      OBVIOUS
    <2>1. r \in Stored
      BY DEF Kept
    <2>2. issued'[r] = issued[r] /\ files'[issued[r]] = files[issued[r]] /\ r \in Requests
      BY <2>1, StoredHere
    <2> QED
      BY <2>1, <2>2 DEF Stored
  <1>2. HandedOver'
    BY DEF Kept, HandedOver, NoDelivery
  <1> QED
    BY <1>1, <1>2 DEF Kept

\* The directory and what is read of it stay.
LEMMA StillReading ==
    ASSUME StoreInv, NEW u \in Threads, Kept(u), AtRisk' \subseteq AtRisk,
           UNCHANGED <<files, aside>>, pc'[u] = pc[u], loc'[u] = loc[u],
           \A r \in 1 .. requests : issued'[r] = issued[r]
    PROVE  Reading(u)'
  <1>1. Names' = Names
    BY DEF Names
  <1>2. \A r \in AtRisk' : issued'[r] = issued[r]
    BY StoredHere DEF Kept
  <1> QED
    BY <1>1, <1>2 DEF Kept, Reading

\* Thread u completes its report: it is on disk, and no delivery has seen it.
LEMMA FillKeeps ==
    ASSUME StoreInv, NEW u \in Threads, Kept(u), Holds(u), FillFile(u),
           UNCHANGED <<sent, dropped, handed, issued, requests>>,
           pc'[u] \notin {"ids", "read", "clear", "remove"},
           \A v \in Threads \ {u} : pc'[v] = pc[v], alive' => alive
    PROVE  Kept(u)'
  <1> DEFINE i == loc[u].id
             b == loc[u].by
  <1>1. files \in FileSet /\ i \in Ids /\ files[i].state # "full" /\ b \in 1 .. requests
        /\ b \notin completed /\ issued[b] = i
    BY SameType, HeldNotFull DEF StoreInv, WritersOwn
  <1>2. Reading(u)'
    BY DEF Reading
  <1>3. Clearing' => Clearing
    BY DEF Clearing
  <1>4. \A v \in Threads \ {u} : pc'[v] \in Answering
    BY DEF Kept
  <1>5. CASE files[i].state = "part" /\ Mine(u) /\ ~Clearing
    <2>1. /\ files' = [files EXCEPT ![i].state = "full"]
          /\ completed' = completed \cup {b} /\ exposed' = exposed
      BY <1>5 DEF FillFile
    <2>2. AtRisk' \subseteq AtRisk \cup {b}
      BY <2>1 DEF AtRisk
    <2>3. b \in Stored'
      <3>1. files'[i] = [state |-> "full", by |-> b]
        <4>1. files'[i].state = "full" /\ files'[i].by = b
              /\ files'[i] \in [state: {"none", "part", "full"}, by: 0 .. MaxRequests]
          BY <1>1, <1>5, <2>1 DEF FileSet, Mine
        <4> QED
          BY <4>1
      <3>2. b \in Requests
        BY <1>1, ConstantsType DEF StoreInv, StoreTypeOK, TypeOK, Requests
      <3> QED
        BY <1>1, <3>1, <3>2 DEF Stored
    <2>4. \A r \in AtRisk : r \in Stored'
      <3> TAKE r \in AtRisk
      <3>1. r \in Stored /\ issued[r] # i
        BY <1>1, StoredHere DEF Kept, FullFiles
      <3> QED
        BY <1>1, <2>1, <3>1, StoredHere DEF Stored, FileSet
    <2>5. HandedOver'
      <3>1. \A d \in Deliveries : b \notin handed[d].seen
        BY <1>1 DEF Kept, HandedOver
      <3> QED
        BY <2>1, <2>2, <3>1 DEF Kept, HandedOver
    <2> QED
      BY <1>2, <1>3, <1>4, <1>5, <2>2, <2>3, <2>4, <2>5 DEF Kept
  <1>6. CASE files[i].state = "part" /\ Mine(u) /\ Clearing
    <2>1. completed' = completed \cup {b} /\ exposed' = exposed \cup {b}
      BY <1>6 DEF FillFile
    <2>2. AtRisk' = {}
      BY <1>6, <2>1 DEF AtRisk, Kept
    <2> QED
      BY <1>4, <2>1, <2>2, NoRisk
  <1>7. CASE ~(files[i].state = "part" /\ Mine(u))
    <2>1. UNCHANGED <<files, completed, exposed>>
      BY <1>7 DEF FillFile
    <2>2. AtRisk' = AtRisk
      BY <2>1 DEF AtRisk
    <2> QED
      BY <1>2, <1>3, <1>4, <2>1, <2>2, NoMoreRisk DEF Kept
  <1> QED
    BY <1>5, <1>6, <1>7

\* Alone, a delivery lists all names.
LEMMA ReadsAll ==
    ASSUME StoreInv, NEW t \in Threads, SendIDs(t), loc[t].count = Cardinality(Names)
    PROVE  loc'[t].todo = IdsOf(Names)
  <1> DEFINE n == Cardinality(Names)
  <1>1. Names \subseteq Ids \X {"json", "old"} /\ IsFiniteSet(Names) /\ n \in Nat
        /\ loc \in [Threads -> Locs]
    BY SameType, NamesType, NamesFinite, FS_CardinalityType DEF StoreInv
  <1> HIDE DEF n
  <1>2. Smaller(n, n) = n /\ Smaller(n, n - n) = 0
    BY <1>1 DEF Smaller
  <1>3. PICK read \in SUBSET Names, junk \in {0} :
           Cardinality(read) = n /\ loc' = [loc EXCEPT ![t].todo = IdsOf(Oldest(read, n - junk))]
    <2>1. 0 .. 0 = {0}
      OBVIOUS
    <2> QED
      BY <1>2, <2>1 DEF SendIDs, n
  <1>4. read = Names
    BY <1>1, <1>3, FS_Subset DEF n
  <1>5. \A x \in Names : Cardinality(NamesBefore(Names, x)) < n
    BY <1>1, Ranks DEF n
  <1>6. Oldest(Names, n) = Names
    BY <1>5 DEF Oldest, NamesBefore
  <1>7. n - junk = n
    BY <1>1, <1>3
  <1> QED
    BY <1>1, <1>3, <1>4, <1>6, <1>7 DEF Locs

\* The steps by which the directory is emptied, on any thread: nothing is at risk.
LEMMA ClearKeeps ==
    ASSUME StoreInv, NEW u \in Threads, Kept(u), NEW t \in Threads,
           ClearBegin(t) \/ ClearOne(t) \/ ClearEnd(t)
    PROVE  Kept(u)'
  <1>1. /\ alive /\ pc[t] \in {"clear", "remove"} /\ pc \in [Threads -> Labels]
        /\ pc'[t] \in {"remove", "unlock"} /\ \A v \in Threads \ {t} : pc'[v] = pc[v]
        /\ UNCHANGED <<handed, completed, sent, dropped, exposed>>
    BY SameType DEF StoreInv, ClearBegin, ClearOne, ClearEnd, At, Goto, deliveryVars
  <1>2. AtRisk = {}
    BY <1>1 DEF Kept, Clearing
  <1>3. AtRisk' = {}
    BY <1>1, <1>2 DEF AtRisk
  <1>4. \A v \in Threads \ {u} : pc'[v] \in Answering
    BY <1>1 DEF Kept, Answering
  <1> QED
    BY <1>1, <1>3, <1>4, NoRisk

\* A thread gives the lock back.
LEMMA UnlockKeeps ==
    ASSUME StoreInv, NEW u \in Threads, Kept(u), NEW t \in Threads, Unlock(t)
    PROVE  Kept(u)'
  <1>1. /\ pc \in [Threads -> Labels] /\ loc \in [Threads -> Locs] /\ pc'[t] = "idle"
        /\ \A v \in Threads \ {t} : pc'[v] = pc[v] /\ loc'[v] = loc[v]
        /\ UNCHANGED <<files, aside, alive, issued, requests, handed, completed, sent, dropped,
                       exposed>>
    BY SameType DEF StoreInv, Unlock, Goto, diskVars, deliveryVars, idVars
  <1>2. AtRisk' = AtRisk
    BY <1>1 DEF AtRisk
  <1>3. Clearing' => Clearing
    BY <1>1 DEF Clearing
  <1>4. Reading(u)'
    <2>1. CASE t = u
      BY <1>1, <2>1 DEF Reading
    <2>2. CASE t # u
      BY <1>1, <1>2, <2>2, StillReading
    <2> QED
      BY <2>1, <2>2
  <1>5. \A v \in Threads \ {u} : pc'[v] \in Answering
    BY <1>1 DEF Kept, Answering
  <1> QED
    BY <1>1, <1>2, <1>3, <1>4, <1>5, NoMoreRisk DEF Kept

\* The sink answers: if the reports are deleted then, those that were complete when the
\* delivery was handed over have been sent with it.
LEMMA AnswerKeeps ==
    ASSUME StoreInv, NEW u \in Threads, Kept(u), Behavior # "always",
           NEW t \in Threads, SinkAnswers(t)
    PROVE  Kept(u)'
  <1>1. pc \in [Threads -> Labels] /\ pc[t] = "idle" /\ handed \in HandedSet
    BY SameType DEF StoreInv, SinkAnswers, At
  <1>2. PICK d \in Deliveries, done \in BOOLEAN :
          /\ handed' = [handed EXCEPT ![d] = NoDelivery]
          /\ sent' = IF done THEN sent \cup handed[d].batch ELSE sent
          /\ exposed' = IF ClearsAfter(done) THEN exposed \cup (completed \ handed[d].seen)
                        ELSE exposed
          /\ Goto(t, IF ClearsAfter(done) THEN "clear" ELSE "idle")
    BY DEF SinkAnswers
  <1>3. /\ UNCHANGED <<files, aside, alive, issued, requests, loc, completed, dropped>>
        /\ \A e \in Deliveries : handed'[e] = handed[e] \/ handed'[e] = NoDelivery
    BY <1>1, <1>2 DEF SinkAnswers, diskVars, idVars, HandedSet
  <1>4. \A v \in Threads \ {u} : pc'[v] \in Answering
    BY <1>1, <1>2 DEF Goto, Kept, Answering
  <1>5. CASE ClearsAfter(done)
    <2>1. done
      BY <1>5 DEF ClearsAfter
    <2>2. AtRisk' = {}
      <3>1. sent' = sent \cup handed[d].batch /\ exposed' = exposed \cup (completed \ handed[d].seen)
        BY <1>2, <1>5, <2>1
      <3>2. AtRisk \cap handed[d].seen \subseteq handed[d].batch
        BY DEF Kept, HandedOver
      <3> QED
        BY <1>3, <3>1, <3>2 DEF AtRisk
    <2> QED
      BY <1>3, <1>4, <2>2, NoRisk
  <1>6. CASE ~ClearsAfter(done)
    <2>1. pc' = pc /\ AtRisk' \subseteq AtRisk
      BY <1>1, <1>2, <1>3, <1>6 DEF Goto, AtRisk
    <2>2. Clearing' => Clearing
      BY <1>3, <2>1 DEF Clearing
    <2>3. Reading(u)'
      BY <1>3, <2>1, StillReading
    <2> QED
      BY <1>3, <1>4, <2>1, <2>2, <2>3, NoMoreRisk DEF Kept
  <1> QED
    BY <1>5, <1>6

\* The steps of the one thread u that uses the store.
LEMMA ContinueKeeps ==
    ASSUME StoreInv, NEW u \in Threads, Kept(u), Continue(u)
    PROVE  Kept(u)'
  <1>1. pc \in [Threads -> Labels] /\ loc \in [Threads -> Locs] /\ files \in FileSet
        /\ handed \in HandedSet
    BY SameType DEF StoreInv
  <1>2. \A v \in Threads \ {u} : pc'[v] = pc[v] => pc'[v] \in Answering
    BY DEF Kept
  <1> DEFINE Elsewhere == \A v \in Threads \ {u} : pc'[v] = pc[v]
             Silent == UNCHANGED <<handed, completed, sent, dropped, exposed>>
             Same == \A r \in 1 .. requests : issued'[r] = issued[r]
  \* A step of u that leaves the complete files and what was delivered alone.
  <1>3. ASSUME Elsewhere, Silent, Same, alive' => alive,
               \A i \in FullFiles : files'[i] = files[i],
               pc'[u] \notin {"clear", "remove"}, Reading(u)'
        PROVE  Kept(u)'
    <2>1. AtRisk' = AtRisk
      BY <1>3 DEF AtRisk
    <2>2. Clearing' => Clearing
      BY <1>3 DEF Clearing
    <2> QED
      BY <1>2, <1>3, <2>1, <2>2, NoMoreRisk DEF Kept
  <1> USE DEF deliveryVars, diskVars, threadVars, idVars, Goto
  <1>4. CASE AddOpen(u)
    <2>1. /\ Holds(u) /\ pc'[u] \in {"fill", "unlock"} /\ Elsewhere /\ Silent /\ Same
          /\ alive' = alive
      BY <1>1, <1>4 DEF AddOpen, Holds, Writing, At
    <2>2. \A i \in FullFiles : files'[i] = files[i]
      BY <1>1, <1>4, <2>1, HeldNotFull DEF AddOpen, FullFiles, FileSet
    <2> QED
      BY <1>3, <2>1, <2>2 DEF Reading
  <1>5. CASE AddWrite(u)
    <2>1. /\ Holds(u) /\ pc'[u] = "unlock" /\ Elsewhere /\ Same /\ alive' = alive
          /\ UNCHANGED <<sent, dropped, handed, issued, requests>>
      BY <1>1, <1>5 DEF AddWrite, Holds, Writing, At
    <2>2. CASE FillFile(u)
      BY <2>1, <2>2, FillKeeps
    <2>3. CASE UNCHANGED <<files, completed, exposed>>
      BY <1>3, <2>1, <2>3 DEF Reading
    <2> QED
      BY <1>5, <2>2, <2>3 DEF AddWrite
  <1>6. CASE CreateReport(u)
    <2>1. /\ pc'[u] \in {"body", "idle", "create"} /\ Elsewhere /\ Silent /\ Same
          /\ alive' => alive
      BY <1>1, <1>6 DEF CreateReport, EndReport, At
    <2>2. \A i \in FullFiles : files'[i] = files[i]
      BY <1>1, <1>6 DEF CreateReport, FullFiles, FileSet
    <2> QED
      BY <1>3, <2>1, <2>2 DEF Reading
  <1>7. CASE WriteReport(u)
    <2>1. /\ Holds(u) /\ FillFile(u) /\ UNCHANGED <<sent, dropped, handed, issued, requests>>
          /\ pc'[u] \in {"body", "finish", "idle"} /\ Elsewhere /\ (alive' => alive)
      BY <1>1, <1>7 DEF WriteReport, EndReport, Holds, Writing, At
    <2> QED
      BY <2>1, FillKeeps
  <1>8. CASE Recreate(u)
    <2>1. Holds(u) /\ pc'[u] = "discard" /\ Elsewhere /\ Silent /\ Same /\ alive' = alive
      BY <1>1, <1>8 DEF Recreate, Holds, Writing, At
    <2>2. \A i \in FullFiles : files'[i] = files[i]
      BY <1>1, <1>8, <2>1, HeldNotFull DEF Recreate, FullFiles, FileSet
    <2> QED
      BY <1>3, <2>1, <2>2 DEF Reading
  <1>9. CASE Unlock(u)
    BY <1>9, UnlockKeeps
  <1>10. CASE Discard(u)
    <2>1. /\ pc'[u] = "finish" /\ Elsewhere /\ Silent /\ Same /\ alive' = alive
          /\ files' = files
      BY <1>1, <1>10 DEF Discard
    <2> QED
      BY <1>3, <2>1 DEF Reading
  <1>11. CASE CrashPath(u)
    <2>1. pc'[u] = "create" /\ Elsewhere /\ Silent /\ alive' = alive /\ files' = files
      BY <1>1, <1>11 DEF CrashPath
    <2>2. Same
      <3>1. requests \in Nat /\ issued' = [issued EXCEPT ![requests + 1] = NextID]
        BY <1>11, ConstantsType DEF CrashPath, TakeID, StoreInv, StoreTypeOK, TypeOK
      <3> QED
        BY <3>1 DEF StoreInv, StoreTypeOK, TypeOK
    <2> QED
      BY <1>3, <2>1, <2>2 DEF Reading
  <1>12. CASE SendIDs(u)
    <2>1. /\ pc[u] = "ids" /\ pc'[u] = "read" /\ Elsewhere /\ Silent /\ Same /\ alive' = alive
          /\ files' = files
      BY <1>1, <1>12 DEF SendIDs, At
    <2>2. AtRisk' = AtRisk
      BY <2>1 DEF AtRisk
    <2>3. \A r \in AtRisk : issued'[r] \in loc'[u].todo
      <3> TAKE r \in AtRisk
      <3>1. loc'[u].todo = IdsOf(Names)
        BY <1>12, <2>1, ReadsAll DEF Kept, Reading
      <3>2. issued[r] \in IdsOf(Names) /\ issued'[r] = issued[r]
        BY <2>1, StoredHere DEF Kept
      <3> QED
        BY <3>1, <3>2
    <2> QED
      BY <1>3, <2>1, <2>2, <2>3 DEF Reading
  <1>13. CASE SendRead(u)
    <2>1. /\ pc[u] = "read" /\ pc' = pc /\ Elsewhere /\ Silent /\ Same /\ alive' = alive
          /\ files' = files
      BY <1>1, <1>13 DEF SendRead, At
    <2>2. PICK i \in loc[u].todo :
            loc' = [loc EXCEPT
                      ![u].todo = loc[u].todo \ {i},
                      ![u].batch = IF files[i].state = "full"
                                     THEN loc[u].batch \cup {files[i].by} ELSE loc[u].batch]
      BY <1>13 DEF SendRead
    <2>3. /\ loc'[u].todo = loc[u].todo \ {i} /\ loc[u].batch \subseteq loc'[u].batch
          /\ files[i].state = "full" => files[i].by \in loc'[u].batch
      BY <1>1, <2>2 DEF Locs
    <2>4. AtRisk' = AtRisk
      BY <2>1 DEF AtRisk
    <2>5. \A r \in AtRisk : r \in loc'[u].batch \/ issued'[r] \in loc'[u].todo
      <3> TAKE r \in AtRisk
      <3>1. /\ files[issued[r]].state = "full" /\ files[issued[r]].by = r
            /\ issued'[r] = issued[r]
        BY <2>1, StoredHere DEF Kept, FullFiles
      <3>2. r \in loc[u].batch \/ issued[r] \in loc[u].todo
        BY <2>1 DEF Kept, Reading
      <3> QED
        BY <2>3, <3>1, <3>2
    <2> QED
      BY <1>3, <2>1, <2>4, <2>5 DEF Reading
  <1>14. CASE SendSink(u)
    <2>1. /\ pc[u] = "read" /\ loc[u].todo = {} /\ alive' = alive /\ Elsewhere /\ Same
          /\ UNCHANGED <<files, completed, sent, dropped, exposed>>
          /\ pc'[u] \in {"clear", "idle"}
      BY <1>1, <1>14 DEF SendSink, At
    <2>2. AtRisk' = AtRisk /\ AtRisk \subseteq loc[u].batch
      BY <2>1 DEF AtRisk, Kept, Reading
    <2>3. Reading(u)'
      BY <2>1 DEF Reading
    <2>4. \A i \in FullFiles : files'[i] = files[i]
      BY <2>1
    <2>5. CASE loc[u].batch = {}
      <3>1. handed' = handed
        BY <1>14, <2>5 DEF SendSink
      <3>2. AtRisk = {}
        BY <2>2, <2>5
      <3> QED
        BY <1>2, <2>1, <2>2, <3>1, <3>2, NoRisk
    <2>6. CASE loc[u].batch # {}
      <3>1. pc'[u] = "idle"
        BY <1>1, <1>14, <2>6 DEF SendSink
      <3>2. PICK d \in Deliveries :
              handed' = [handed EXCEPT ![d] = [batch |-> loc[u].batch, seen |-> completed]]
        BY <1>14, <2>6 DEF SendSink
      <3>3. Clearing' => Clearing
        BY <2>1, <3>1 DEF Clearing
      <3>4. HandedOver'
        <4> SUFFICES ASSUME NEW e \in Deliveries
                     PROVE  /\ handed'[e].seen \subseteq completed
                            /\ AtRisk \cap handed'[e].seen \subseteq handed'[e].batch
          BY <2>1, <2>2 DEF HandedOver
        <4>1. CASE e = d
          <5>1. handed'[e] = [batch |-> loc[u].batch, seen |-> completed]
            BY <1>1, <3>2, <4>1 DEF HandedSet
          <5> QED
            BY <2>2, <5>1
        <4>2. CASE e # d
          <5>1. handed'[e] = handed[e]
            BY <1>1, <3>2, <4>2 DEF HandedSet
          <5> QED
            BY <5>1 DEF Kept, HandedOver
        <4> QED
          BY <4>1, <4>2
      <3>5. Stored' = Stored
        BY <1>14, <2>1 DEF Stored, SendSink
      <3> QED
        BY <1>2, <2>1, <2>2, <2>3, <3>3, <3>4, <3>5 DEF Kept
    <2> QED
      BY <2>5, <2>6
  <1>15. CASE ClearBegin(u) \/ ClearOne(u) \/ ClearEnd(u)
    BY <1>15, ClearKeeps
  <1> QED
    BY <1>4, <1>5, <1>6, <1>7, <1>8, <1>9, <1>10, <1>11, <1>12, <1>13, <1>14, <1>15 DEF Continue

\* The steps of a thread that only answers for the sink.
LEMMA OthersKeep ==
    ASSUME StoreInv, NEW u \in Threads, Kept(u), NEW t \in Threads \ {u}, Continue(t)
    PROVE  Kept(u)'
  <1>1. pc[t] \in Answering
    BY DEF Kept
  <1>2. Unlock(t) \/ ClearBegin(t) \/ ClearOne(t) \/ ClearEnd(t)
    BY <1>1 DEF Answering, At, Continue, AddOpen, AddWrite, CrashPath, CreateReport, WriteReport,
                Recreate, Discard, SendIDs, SendRead, SendSink
  <1> QED
    BY <1>2, UnlockKeeps, ClearKeeps

\* What u begins.
LEMMA BeginKeeps ==
    ASSUME StoreInv, NEW u \in Threads, Kept(u), Begin(u)
    PROVE  Kept(u)'
  <1>1. pc \in [Threads -> Labels] /\ loc \in [Threads -> Locs] /\ files \in FileSet
        /\ handed \in HandedSet
    BY SameType DEF StoreInv
  <1>2. \A v \in Threads \ {u} : pc'[v] = pc[v] => pc'[v] \in Answering
    BY DEF Kept
  <1> DEFINE Elsewhere == \A v \in Threads \ {u} : pc'[v] = pc[v]
             Same == \A r \in 1 .. requests : issued'[r] = issued[r]
  <1> USE DEF deliveryVars, diskVars, threadVars, idVars, Goto
  <1>3. TakeID(u) => Same
    <2> SUFFICES ASSUME TakeID(u) PROVE Same
      OBVIOUS
    <2>1. requests \in Nat /\ issued' = [issued EXCEPT ![requests + 1] = NextID]
      BY ConstantsType DEF TakeID, StoreInv, StoreTypeOK, TypeOK
    <2> QED
      BY <2>1 DEF StoreInv, StoreTypeOK, TypeOK
  <1>4. CASE AddBegin(u) \/ ReportBegin(u)
    <2>1. /\ pc'[u] \in {"open", "create"} /\ Elsewhere /\ Same /\ alive' = alive
          /\ UNCHANGED <<files, handed, completed, sent, dropped, exposed>>
      BY <1>1, <1>3, <1>4 DEF AddBegin, ReportBegin
    <2>2. AtRisk' = AtRisk /\ (Clearing' => Clearing) /\ Reading(u)'
      BY <2>1 DEF AtRisk, Clearing, Reading
    <2> QED
      BY <1>2, <2>1, <2>2, NoMoreRisk DEF Kept
  <1>5. CASE Crash(u)
    <2>1. /\ \A v \in Threads : pc'[v] = IF v = u THEN "path" ELSE "stopped"
          /\ Same /\ \A d \in Deliveries : handed'[d] = NoDelivery
          /\ UNCHANGED <<files, completed, sent, dropped, exposed>>
      BY <1>5 DEF Crash
    <2>2. AtRisk' = AtRisk /\ ~Clearing' /\ Reading(u)'
      BY <2>1 DEF AtRisk, Clearing, Reading
    <2>3. \A v \in Threads \ {u} : pc'[v] \in Answering
      BY <2>1 DEF Answering
    <2> QED
      BY <2>1, <2>2, <2>3, NoMoreRisk
  <1>6. CASE SendCount(u)
    <2>1. /\ pc'[u] = "ids" /\ loc'[u].count = Cardinality(Names) /\ Elsewhere /\ Same
          /\ UNCHANGED <<files, aside, alive, handed, completed, sent, dropped, exposed>>
      BY <1>1, <1>6 DEF SendCount, Locs
    <2>2. Names' = Names
      BY <2>1 DEF Names
    <2>3. AtRisk' = AtRisk /\ (Clearing' => Clearing) /\ Reading(u)'
      BY <2>1, <2>2 DEF AtRisk, Clearing, Reading
    <2> QED
      BY <1>2, <2>1, <2>3, NoMoreRisk DEF Kept
  <1>7. CASE DeleteByID(u)
    <2>1. PICK i \in IdsOf(Names) : /\ files' = [files EXCEPT ![i] = NoFile]
                                    /\ dropped' = dropped \cup {files[i].by}
      BY <1>7 DEF DeleteByID
    <2>2. /\ pc' = pc /\ pc[u] = "idle" /\ Same /\ alive' = alive
          /\ UNCHANGED <<handed, completed, sent, exposed>>
      BY <1>7 DEF DeleteByID, At
    <2>3. AtRisk' \subseteq AtRisk /\ (Clearing' => Clearing) /\ Reading(u)'
      BY <2>1, <2>2 DEF AtRisk, Clearing, Reading
    <2>4. \A j \in FullFiles : files'[j] = files[j] \/ files[j].by \notin AtRisk'
      BY <1>1, <2>1 DEF FullFiles, FileSet, AtRisk
    <2> QED
      BY <1>2, <2>2, <2>3, <2>4, NoMoreRisk DEF Kept
  <1>8. CASE Recrash(u)
    <2>1. /\ pc'[u] = "recreate" /\ Elsewhere /\ Same /\ alive' = alive
          /\ UNCHANGED <<handed, completed, sent, dropped, exposed>>
      BY <1>1, <1>8 DEF Recrash
    <2>2. \A j \in FullFiles : files'[j] = files[j]
      BY <1>1, <1>8 DEF Recrash, FullFiles, FileSet
    <2>3. AtRisk' = AtRisk /\ (Clearing' => Clearing) /\ Reading(u)'
      BY <2>1 DEF AtRisk, Clearing, Reading
    <2> QED
      BY <1>2, <2>1, <2>2, <2>3, NoMoreRisk DEF Kept
  <1> QED
    BY <1>4, <1>5, <1>6, <1>7, <1>8 DEF Begin

\* The end of the process, and the next launch.
LEMMA ForgetKeeps ==
    ASSUME StoreInv, NEW u \in Threads, Kept(u), Kill \/ Launch
    PROVE  Kept(u)'
  <1>1. /\ \A v \in Threads : pc'[v] = "idle"
        /\ \A d \in Deliveries : handed'[d] = NoDelivery
        /\ UNCHANGED <<issued, requests, completed, sent, exposed>>
    BY DEF Kill, Launch, Forget, idVars
  <1>2. ~Clearing' /\ Reading(u)'
    BY <1>1 DEF Clearing, Reading
  <1>3. /\ \A i \in FullFiles : files'[i] = files[i] \/ files[i].by \in dropped'
        /\ dropped \subseteq dropped'
    <2>1. CASE Kill
      BY <2>1 DEF Kill, diskVars
    <2>2. CASE Launch
      <3>1. /\ files' = [i \in Ids |-> IF i \in Pruned THEN NoFile ELSE files[i]]
            /\ dropped' = dropped \cup {files[i].by : i \in Pruned}
        BY <2>2 DEF Launch
      <3> QED
        BY <3>1 DEF FullFiles
    <2> QED
      BY <2>1, <2>2
  <1>4. AtRisk' \subseteq AtRisk
    BY <1>1, <1>3 DEF AtRisk
  <1>5. \A i \in FullFiles : files'[i] = files[i] \/ files[i].by \notin AtRisk'
    BY <1>3 DEF AtRisk
  <1>6. \A v \in Threads \ {u} : pc'[v] \in Answering
    BY <1>1 DEF Answering
  <1> QED
    BY <1>1, <1>2, <1>4, <1>5, <1>6, NoMoreRisk

LEMMA NextKeeps ==
    ASSUME StoreInv, AloneInv, [Next]_vars
    PROVE  AloneInv'
  <1>1. users' = users
    BY DEF Next, Continue, Begin, AddBegin, AddOpen, AddWrite, Unlock, ReportBegin, Crash,
           CrashPath, CreateReport, WriteReport, Recrash, Recreate, Discard, SendCount, SendIDs,
           SendRead, SendSink, SinkAnswers, ClearBegin, ClearOne, ClearEnd, DeleteByID, Kill,
           Launch, Over, vars, idVars, TakeID
  <1>2. Alone' = Alone
    BY <1>1 DEF Alone
  <1>3. SUFFICES ASSUME Alone, Behavior # "always", NEW u \in users PROVE Kept(u)'
    BY <1>1, <1>2 DEF AloneInv
  <1>4. u \in Threads /\ users = {u} /\ Kept(u)
    BY <1>3 DEF Alone, AloneInv
  <1>5. CASE UNCHANGED vars
    <2>1. UNCHANGED <<files, aside, pc, loc, alive, issued, handed, completed, sent, dropped,
                      exposed>>
      BY <1>5 DEF vars, diskVars, deliveryVars, threadVars, idVars
    <2>2. /\ AtRisk' = AtRisk /\ Stored' = Stored /\ Names' = Names /\ Clearing' = Clearing
          /\ HandedOver' = HandedOver
      BY <2>1 DEF AtRisk, Stored, Names, Clearing, HandedOver
    <2>3. Reading(u)' = Reading(u)
      BY <2>1, <2>2 DEF Reading
    <2> QED
      BY <1>4, <2>1, <2>2, <2>3 DEF Kept
  <1>6. ASSUME NEW t \in Threads, Continue(t) PROVE Kept(u)'
    <2>1. CASE t = u
      BY <1>4, <1>6, <2>1, ContinueKeeps
    <2>2. CASE t # u
      BY <1>4, <1>6, <2>2, OthersKeep
    <2> QED
      BY <2>1, <2>2
  <1>7. ASSUME NEW t \in Threads, SinkAnswers(t) PROVE Kept(u)'
    BY <1>3, <1>4, <1>7, AnswerKeeps
  <1>8. ASSUME NEW t \in users, Begin(t) PROVE Kept(u)'
    BY <1>4, <1>8, BeginKeeps
  <1>9. CASE Kill \/ Launch
    BY <1>4, <1>9, ForgetKeeps
  <1> QED
    BY <1>5, <1>6, <1>7, <1>8, <1>9 DEF Next, Over

\* In an application that uses the store from one thread, and does not ask for reports to
\* be deleted when they could not be sent, a complete report is lost only if it was completed
\* between the handing over of a delivery and the end of the deletion that followed the
\* sink's answer, over any number of crashes, kills and launches, of deliveries the sink
\* answers late and on any thread, for any bound on the reports and any widths of the IDs.
THEOREM AloneLosesOnlyTheExposed == Spec => []NoReportLostAlone
  <1>1. Init => StoreInv /\ AloneInv
    <2> SUFFICES ASSUME Init PROVE AloneInv
      BY InitStore
    <2>1. users \subseteq Threads
      BY StoreAssumption DEF Init
    <2>2. ASSUME NEW u \in users PROVE Kept(u)
      BY <2>1 DEF Init, Kept, AtRisk, HandedOver, Reading, Answering, NoDelivery
    <2> QED
      BY <2>2 DEF AloneInv
  <1>2. StoreInv /\ AloneInv /\ [Next]_vars => StoreInv' /\ AloneInv'
    BY NextStore, NextKeeps
  <1>3. StoreInv /\ AloneInv => NoReportLostAlone
    <2> SUFFICES ASSUME StoreInv, AloneInv, Alone, Behavior # "always", NEW r \in completed,
                        Gone(r), r \notin sent \cup dropped \cup exposed
                 PROVE  FALSE
      BY DEF NoReportLostAlone
    <2>1. r \in Stored
      BY DEF Alone, AloneInv, Kept, AtRisk
    <2> QED
      BY <2>1, StoredHere DEF Gone
  <1> QED
    BY <1>1, <1>2, <1>3, PTL DEF Spec
=============================================================================
