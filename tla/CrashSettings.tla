--------------------------- MODULE CrashSettings ---------------------------
(***************************************************************************)
(* What the application sets for its reports while a report may read it:     *)
(* the fields of an installation (GrowingCrashInstallation.m), the user      *)
(* information and the classes that are not introspected                    *)
(* (GrowingCrashReport.c).  The writer of a report reads them through plain   *)
(* pointers, without a lock: it may run in the handler of a crash.            *)
(*                                                                         *)
(* A pointer is "null", or it is the value in the block it points to, or      *)
(* "freed" when that block is gone.  One thread of the application sets; a    *)
(* report has either stopped it (a crash) or runs beside it (a user report).  *)
(***************************************************************************)
EXTENDS Naturals, Sequences, SequencesExt

CONSTANTS
    Properties,   \* properties of the installation
    Values,       \* what the application sets: JSON values
    MaxSets       \* bound: calls of setters

VARIABLES
    count,        \* reportFieldsCount
    fields,       \* reportFields: the property of each pointer
    pointer,      \* the key and the value of each ReportField, and g_userInfoJSON
    classes,      \* restrictedClasses: a list, empty for NULL
    classCount,   \* restrictedClassesCount
    setter,       \* the setter that runs: what it sets, to what, its next step
    sets,         \* setters called
    last,         \* history: what the last call that ended set each item to
    report        \* the report being written

fieldVars == <<count, fields>>
ruleVars == <<classes, classCount>>
vars == <<fieldVars, pointer, ruleVars, setter, sets, last, report>>

Key(p) == <<"key", p>>
Value(p) == <<"value", p>>
User == <<"user", "user">>
Classes == <<"classes", "classes">>
Pointers == {User} \cup UNION {{Key(p), Value(p)} : p \in Properties}

Lists == {<<>>} \cup {<<v>> : v \in Values} \cup {<<v, v>> : v \in Values}

Idle == [item |-> <<"none", "none">>, to |-> "null", at |-> "idle"]
NoReport == [kind |-> "none", next |-> 0, held |-> <<>>, fault |-> FALSE,
             wrote |-> [i \in Properties \cup {"user", "classes"} |-> <<>>],
             touched |-> {}]

Init ==
    /\ count = 0 /\ fields = <<>>
    /\ pointer = [i \in Pointers |-> "null"]
    /\ classes = <<>> /\ classCount = 0
    /\ setter = Idle /\ sets = 0
    /\ last = [i \in Pointers \cup {Classes} |-> IF i = Classes THEN <<>> ELSE "null"]
    /\ report = NoReport

-----------------------------------------------------------------------------
(* Setters, on one thread of the application.                               *)

\* A crash and a snapshot stop the thread; other user reports need not.
Stopped == report.kind \in {"crash", "snapshot"}

Setting(i, step) == ~Stopped /\ setter.item = i /\ setter.at = step

\* A setter was at work on the item during the report.
Touch(i) == report' = [report EXCEPT
    !.touched = IF report.kind = "none" THEN {} ELSE @ \cup {i[2]}]

Goto(step) == setter' = [setter EXCEPT !.at = step] /\ UNCHANGED last
Return == last' = [last EXCEPT ![setter.item] = setter.to] /\ setter' = Idle
Give == UNCHANGED last /\ setter' = Idle

Call(i, to) ==
    /\ ~Stopped /\ setter = Idle /\ sets < MaxSets
    /\ sets' = sets + 1
    /\ setter' = [item |-> i, to |-> to,
                  at |-> IF i[1] \in {"key", "value"} THEN "field" ELSE "free"]
    /\ Touch(i) /\ UNCHANGED <<fieldVars, pointer, ruleVars, last>>

\* A block is freed while the pointer to it is still in use, also in the
\* hands of a report.
FreeBlock(i) ==
    /\ Setting(i, "free")
    /\ pointer' = [pointer EXCEPT ![i] = IF @ = "null" THEN @ ELSE "freed"]
    /\ report' = [report EXCEPT
        !.touched = IF report.kind = "none" THEN {} ELSE @ \cup {i[2]},
        !.held = [n \in DOMAIN @ |-> IF @[n][1] = i /\ @[n][2] # "null"
                                     THEN <<i, "freed">> ELSE @[n]]]

PutBlock(i) ==
    /\ Setting(i, "store") /\ pointer' = [pointer EXCEPT ![i] = setter.to]
    /\ Touch(i) /\ Return

\* reportFieldForProperty: a new field is counted, then its pointer is stored.
ReportFieldForProperty(p, i) ==
    \/ /\ Setting(i, "field") /\ p \notin ToSet(fields)
       /\ count' = Len(fields) + 1 /\ Goto("store field") /\ UNCHANGED fields
    \/ /\ Setting(i, "field") /\ p \in ToSet(fields)
       /\ Goto("free") /\ UNCHANGED fieldVars
    \/ /\ Setting(i, "store field")
       /\ fields' = Append(fields, p) /\ Goto("free") /\ UNCHANGED count

SetKey(p) ==
    /\ \/ ReportFieldForProperty(p, Key(p)) /\ Touch(Key(p)) /\ UNCHANGED pointer
       \/ FreeBlock(Key(p)) /\ Goto("store") /\ UNCHANGED fieldVars
       \/ PutBlock(Key(p)) /\ UNCHANGED fieldVars
    /\ UNCHANGED <<ruleVars, sets>>

\* Mutant: the old value is freed before the new one is encoded, which fails.
FreeBeforeEncode(p) ==
    /\ FreeBlock(Value(p))
    /\ IF setter.to = "bad" THEN Give ELSE Goto("store")

\* A value that is no JSON is left out; nil frees the block and no more.
Encode(p) ==
    IF setter.to = "bad"
    THEN Setting(Value(p), "free") /\ Give /\ Touch(Value(p)) /\ UNCHANGED pointer
    ELSE /\ FreeBlock(Value(p))
         /\ IF setter.to = "null" THEN Return ELSE Goto("store")

SetValue(p) ==
    /\ \/ ReportFieldForProperty(p, Value(p)) /\ Touch(Value(p)) /\ UNCHANGED pointer
       \/ Encode(p) /\ UNCHANGED fieldVars
       \/ PutBlock(Value(p)) /\ UNCHANGED fieldVars
    /\ UNCHANGED <<ruleVars, sets>>

SetUserInfoJSON ==
    /\ \/ FreeBlock(User) /\ Goto("store")
       \/ PutBlock(User)
    /\ UNCHANGED <<fieldVars, ruleVars, sets>>

\* The list, then its length; the old list is freed last.
SetDoNotIntrospectClasses ==
    /\ \/ /\ Setting(Classes, "free") /\ Goto("store")
          /\ classes' = setter.to /\ UNCHANGED classCount
       \/ /\ Setting(Classes, "store") /\ Return
          /\ classCount' = Len(setter.to) /\ UNCHANGED classes
    /\ Touch(Classes) /\ UNCHANGED <<fieldVars, pointer, sets>>

-----------------------------------------------------------------------------
(* A report: the classes, the user information, then the fields.            *)

Still == UNCHANGED <<fieldVars, pointer, ruleVars, setter, sets, last>>

StartReport(kind) ==
    /\ report.kind = "none"
    /\ report' = [NoReport EXCEPT !.kind = kind, !.next = 1,
                    !.touched = IF setter = Idle THEN {} ELSE {setter.item[2]}]
    /\ Still

\* isRestrictedClass reads as many names as are counted.
IsRestrictedClass ==
    /\ report.next = 1
    /\ report' = [report EXCEPT !.next = 2,
        !.wrote["classes"] = IF classes = <<>> THEN <<>>
                             ELSE [n \in 1 .. classCount |->
                                    IF n <= Len(classes) THEN classes[n] ELSE "freed"]]
    /\ Still

\* The pointers of an element are read ...
Hold(pointers) ==
    report' = [report EXCEPT !.held = [n \in DOMAIN pointers |-> <<pointers[n], pointer[pointers[n]]>>]]

WriteUserInfo == report.next = 2 /\ report.held = <<>> /\ Hold(<<User>>) /\ Still

\* The fields that are written: none in a snapshot.
Fields == IF report.kind = "snapshot" THEN 0 ELSE count

\* crashCallback
CrashCallback ==
    /\ report.next \in 3 .. Fields + 2 /\ report.held = <<>> /\ ~report.fault
    /\ IF report.next - 2 \in DOMAIN fields
       THEN LET p == fields[report.next - 2] IN Hold(<<Key(p), Value(p)>>)
       ELSE report' = [report EXCEPT !.fault = TRUE]
    /\ Still

\* ... and what they point to is copied, unless one is NULL.
AddJSONElement ==
    /\ report.held # <<>>
    /\ LET held == report.held
           texts == [n \in DOMAIN held |-> held[n][2]]
       IN report' = [report EXCEPT !.held = <<>>, !.next = @ + 1,
            !.wrote[held[1][1][2]] = IF "null" \in ToSet(texts) THEN <<>> ELSE texts]
    /\ Still

Done == report.next > Fields + 2

Next ==
    \/ \E p \in Properties :
        \/ SetKey(p) \/ SetValue(p)
        \/ \E v \in Values \cup {"null"} : Call(Key(p), v)
        \/ \E v \in Values \cup {"null", "bad"} : Call(Value(p), v)
    \/ SetUserInfoJSON \/ SetDoNotIntrospectClasses
    \/ \E v \in Values \cup {"null"} : Call(User, v)
    \/ \E l \in Lists : Call(Classes, l)
    \/ \E kind \in {"crash", "snapshot", "user"} : StartReport(kind)
    \/ IsRestrictedClass \/ WriteUserInfo \/ CrashCallback \/ AddJSONElement

Spec == Init /\ [][Next]_vars

-----------------------------------------------------------------------------
\* A property that was set to nil after it had a value: setValue releases the
\* value and returns, and the field still points to it.
Dangles(p) == last[Value(p)] = "null" /\ pointer[Value(p)] # "null"

\* What a report has of an item: what the application set it to; of a property
\* that dangles it is the memory the value was in.
Expected(i) ==
    CASE i = "classes" -> last[Classes]
      [] i = "user" -> IF last[User] = "null" THEN <<>> ELSE <<last[User]>>
      [] OTHER -> LET value == IF Dangles(i) THEN "freed" ELSE last[Value(i)]
                  IN IF "null" \in {last[Key(i)], value} THEN <<>> ELSE <<last[Key(i)], value>>

\* Whatever setter a crash stops, and whatever setters run beside a user
\* report, the report has every item that none of them was at work on exactly as
\* it was last set, with one exception, which needs no setter at work: a property
\* that was set to nil after it had a value is always read from freed memory
\* (setValue).  It faults only when a field is being added (crashCallback,
\* reportFieldForProperty, setUserInfoJSON, isRestrictedClass).  Of the items a
\* setter is at work on nothing is said: they may be half set.
OthersAreExact ==
    report.kind # "none" /\ (Done \/ report.fault) =>
        /\ \A i \in DOMAIN report.wrote \ report.touched :
            \/ report.wrote[i] = Expected(i)
            \/ i \in Properties /\ (report.fault \/ report.kind = "snapshot") /\ report.wrote[i] = <<>>
        /\ report.fault => report.touched \cap Properties # {}
=============================================================================
