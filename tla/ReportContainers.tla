-------------------------- MODULE ReportContainers --------------------------
(***************************************************************************)
(* Container+DeepSearch.m, which finds, sets and removes what is in a report by      *)
(* a key for each level, and the filters of GrowingCrashReportFilterBasic.m that    *)
(* take a report apart with it.                                               *)
(*                                                                         *)
(* A container is a record: an object with its members, an array with its items,     *)
(* each mutable or not, or a value.  A key is a string or a number; of a string it    *)
(* matters which number it begins with.  A key path is the sequence of what is        *)
(* between its slashes.                                                       *)
(***************************************************************************)
EXTENDS Integers, SequencesExt, TLC

CONSTANTS
    Numbers,         \* keys that are numbers and not strings
    Digits,          \* strings that begin with a digit
    IntValue,        \* what each key is as a number, 0 if it begins with none
    Containers,
    Contained,       \* what is put into them
    Paths,           \* sequences of keys that are set and removed
    FilterPaths,     \* those that are filtered by
    MaxCalls         \* bound: changes and filterings

VARIABLES
    container,
    before,          \* the container before the last change
    change,          \* the last change: its name, key, object and whether it raised
    filtering,       \* the last filtering: the filter, what it was given and answered
    changes

vars == <<container, before, change, filtering, changes>>

Nil == [kind |-> "nil"]
Raised == [kind |-> "raised"]
EmptyObject == [kind |-> "object", mutable |-> TRUE, members |-> <<>>]

-----------------------------------------------------------------------------
(* Looking up.                                                             *)

IsNumericString(key) == key = "" \/ key \in Digits

\* Only a string that begins with a digit, or is empty, or a number is an index.
IsIndex(key) == key \in Numbers \/ IsNumericString(key)

\* objectAtIndex: raises when there is none; a negative number is a large one.
HasItem(array, key) == IntValue[key] \in 0 .. Len(array.items) - 1

Step(node, key) ==
    CASE node.kind = "object" -> IF key \in DOMAIN node.members THEN node.members[key] ELSE Nil
      [] node.kind = "array" /\ IsIndex(key) ->
            IF HasItem(node, key) THEN node.items[IntValue[key] + 1] ELSE Raised
      [] node.kind = "raised" -> Raised
      [] OTHER -> Nil

ObjectForDeepKey(node, deepKey) == FoldLeft(Step, node, deepKey)

\* The slashes at the start are skipped: an empty last component stays.
ObjectForKeyPath(node, keyPath) ==
    LET first == SelectInSeq(keyPath, LAMBDA key : key # "")
    IN ObjectForDeepKey(node, IF first = 0 THEN <<"">> ELSE SubSeq(keyPath, first, Len(keyPath)))

-----------------------------------------------------------------------------
(* Changing.  The containers are shared, so that a change is one of the whole.     *)

RECURSIVE Replace(_, _, _)
Replace(node, deepKey, new) ==
    IF deepKey = <<>> THEN new
    ELSE LET key == Head(deepKey)
             child == Replace(Step(node, key), Tail(deepKey), new)
         IN IF node.kind = "object" THEN [node EXCEPT !.members[key] = child]
            ELSE [node EXCEPT !.items[IntValue[key] + 1] = child]

ParentOfDeepKey(node, deepKey) ==
    LET parent == ObjectForDeepKey(node, Front(deepKey))
    IN IF parent = Nil THEN Raised ELSE parent

\* Mutant: an object is put before the one at the index.
Inserted(items, i, object) == InsertAt(items, i, object)
Replaced(items, i, object) == [items EXCEPT ![i] = object]

IsMutable(node) == node.kind \in {"object", "array"} /\ node.mutable

\* In an array any string is an index here, 0 if it is no number.
SetObjectForDeepKey(node, object, deepKey) ==
    LET parent == ParentOfDeepKey(node, deepKey)
        key == Last(deepKey)
    IN IF deepKey = <<>> \/ ~IsMutable(parent) THEN Raised
       ELSE IF parent.kind = "object"
       THEN Replace(node, Front(deepKey), [parent EXCEPT !.members = key :> object @@ @])
       ELSE IF HasItem(parent, key)
       THEN Replace(node, Front(deepKey), [parent EXCEPT !.items = Replaced(@, IntValue[key] + 1, object)])
       ELSE Raised

RemoveObjectForDeepKey(node, deepKey) ==
    LET parent == ParentOfDeepKey(node, deepKey)
        key == Last(deepKey)
    IN IF deepKey = <<>> \/ ~IsMutable(parent) THEN Raised
       ELSE IF parent.kind = "object"
       THEN Replace(node, Front(deepKey),
                    [parent EXCEPT !.members = [k \in DOMAIN @ \ {key} |-> @[k]]])
       ELSE IF HasItem(parent, key)
       THEN Replace(node, Front(deepKey), [parent EXCEPT !.items = RemoveAt(@, IntValue[key] + 1)])
       ELSE Raised

-----------------------------------------------------------------------------
(* The filters.  A filtering completes, fails with an error and the reports that     *)
(* were filtered by then, or raises and answers nothing.                        *)

Filtering(outcome, reports) == [outcome |-> outcome, reports |-> reports]

\* What the reports are filtered to, up to the first that is Nil or raises.
Filtered(reports) ==
    LET stop == SelectInSeq(reports, LAMBDA r : r \in {Nil, Raised})
    IN IF stop = 0 THEN Filtering("completed", reports)
       ELSE IF reports[stop] = Raised THEN Filtering("raised", <<>>)
       ELSE Filtering("failed", SubSeq(reports, 1, stop - 1))

\* The objects of a report at the paths, or Nil or Raised, whatever comes first.
Objects(report, paths) ==
    LET objects == [i \in DOMAIN paths |-> ObjectForKeyPath(report, paths[i])]
        stop == SelectInSeq(objects, LAMBDA o : o \in {Nil, Raised})
    IN [objects |-> objects, stop |-> IF stop = 0 THEN EmptyObject ELSE objects[stop]]

\* A number as a key is looked up in the report itself.
ObjectForKey(report, path, allowNotFound) ==
    LET object == IF path[1] \in Numbers THEN Step(report, path[1]) ELSE ObjectForKeyPath(report, path)
    IN IF object = Nil /\ allowNotFound THEN EmptyObject ELSE object

LastPathComponent(path) ==
    LET names == SelectSeq(path, LAMBDA key : key # "")
    IN IF names # <<>> THEN Last(names) ELSE IF path = <<"">> THEN "" ELSE "/"

\* Of two paths with the same last component the later one counts.
Subset(report, paths) ==
    LET found == Objects(report, paths)
    IN IF found.stop # EmptyObject THEN found.stop
       ELSE [EmptyObject EXCEPT !.members =
                FoldLeft(LAMBDA members, i : LastPathComponent(paths[i]) :> found.objects[i] @@ members,
                         <<>>, [i \in DOMAIN paths |-> i])]

\* What is not there is written as well, as "(null)".
Concatenate(report, paths) ==
    LET objects == Objects(report, paths).objects
    IN IF Raised \in ToSet(objects) THEN Raised
       ELSE [kind |-> "text", parts |-> FlattenSeq([i \in DOMAIN paths |->
                IF i = 1 THEN <<[separator |-> <<>>, object |-> objects[i]]>>
                ELSE <<[separator |-> paths[i], object |-> objects[i]]>>])]

\* A text that is no UTF-8 makes no string, which raises, and a string with half a
\* pair of surrogates no data, which is an error.
DataToString(report) == IF report.value = "invalid" THEN Raised ELSE [report EXCEPT !.kind = "string"]
StringToData(report) == IF report.value = "invalid" THEN Nil ELSE [report EXCEPT !.kind = "data"]

\* The keys of a filter may be given in arrays, whose items are keys of their own.
RealKeys(keys) == FlattenSeq(keys)

FilterOne(filter, report) ==
    CASE filter.name = "passthrough" -> report
      [] filter.name = "object for key" -> ObjectForKey(report, filter.keys[1][1], filter.allowNotFound)
      [] filter.name = "concatenate" -> Concatenate(report, RealKeys(filter.keys))
      [] filter.name = "subset" -> Subset(report, RealKeys(filter.keys))
      [] filter.name = "data to string" -> DataToString(report)
      [] filter.name = "string to data" -> StringToData(report)

Filter(filter, reports) == Filtered([i \in DOMAIN reports |-> FilterOne(filter, reports[i])])

-----------------------------------------------------------------------------
NoChange == [name |-> "none", key |-> <<>>, object |-> Nil, raised |-> FALSE]
NoFiltering == [filter |-> [name |-> "none"], given |-> <<>>, answer |-> Filtering("none", <<>>)]

Init ==
    /\ container \in Containers /\ before = container
    /\ change = NoChange /\ filtering = NoFiltering /\ changes = 0

Change(name, key, object, new) ==
    /\ changes < MaxCalls /\ changes' = changes + 1
    /\ before' = container
    /\ container' = IF new = Raised THEN container ELSE new
    /\ change' = [name |-> name, key |-> key, object |-> object, raised |-> new = Raised]
    /\ filtering' = NoFiltering

SetObject(key, object) == Change("set", key, object, SetObjectForDeepKey(container, object, key))
RemoveObject(key) == Change("remove", key, Nil, RemoveObjectForDeepKey(container, key))

\* Filters change nothing, so that a filtering ends a behaviour.
FilterReports(filter, reports) ==
    /\ changes < MaxCalls /\ changes' = MaxCalls
    /\ filtering' = [filter |-> filter, given |-> reports, answer |-> Filter(filter, reports)]
    /\ UNCHANGED <<container, before, change>>

ReportFilters ==
         [name : {"passthrough"}, keys : {<<>>}, allowNotFound : {FALSE}]
    \cup [name : {"object for key"}, keys : {<<<<path>>>> : path \in FilterPaths}, allowNotFound : BOOLEAN]
    \cup [name : {"concatenate", "subset"}, allowNotFound : {FALSE},
          keys : {<<<<p>>, <<q, <<"a">>>>>> : p \in FilterPaths, q \in FilterPaths}]
TextFilters == [name : {"data to string", "string to data"}, keys : {<<>>}, allowNotFound : {FALSE}]
SomeText(valid) == [kind |-> "string", value |-> IF valid THEN "text" ELSE "invalid"]

Next ==
    \/ \E key \in Paths, object \in Contained : SetObject(key, object)
    \/ \E key \in Paths : RemoveObject(key)
    \/ \E filter \in ReportFilters : FilterReports(filter, <<before, container>>)
    \/ \E filter \in TextFilters, a, b \in BOOLEAN : FilterReports(filter, <<SomeText(a), SomeText(b)>>)

Spec == Init /\ [][Next]_vars

-----------------------------------------------------------------------------
(* Properties.                                                             *)

\* Everything in a container, each with its place.
RECURSIVE Nodes(_, _)
Nodes(node, place) ==
    {[place |-> place, node |-> IF node.kind = "value" THEN node.value ELSE node.kind]}
    \cup (CASE node.kind = "object" -> UNION {Nodes(node.members[k], Append(place, k)) : k \in DOMAIN node.members}
            [] node.kind = "array" -> UNION {Nodes(node.items[i], Append(place, ToString(i - 1))) : i \in DOMAIN node.items}
            [] OTHER -> {})

\* The place of a key whose parent there is.
Place(node, key) ==
    [i \in DOMAIN key |->
        IF ObjectForDeepKey(node, SubSeq(key, 1, i - 1)).kind = "array" THEN ToString(IntValue[key[i]]) ELSE key[i]]

Outside(node, place) == {n \in Nodes(node, <<>>) : ~IsPrefix(place, n.place)}

\* What is set is where it was set and is found there, by the path too unless that
\* begins with a slash; what is removed is gone, and what was behind it in an array
\* moves up; nothing else changes, and nothing at all when it raises
\* (setObjectForDeepKey, removeObjectForDeepKey, objectForKeyPath).
PathsResolve ==
    LET place == Place(before, change.key)
        parent == Front(change.key)
    IN /\ change.raised => container = before
       /\ change.name = "set" /\ ~change.raised =>
            /\ Nodes(container, <<>>) = Outside(before, place) \cup Nodes(change.object, place)
            /\ IsIndex(Last(change.key)) \/ ObjectForDeepKey(before, parent).kind = "object" =>
                  ObjectForDeepKey(container, change.key) = change.object
            /\ Head(change.key) # "" =>
                  ObjectForKeyPath(container, change.key) = ObjectForDeepKey(container, change.key)
       /\ change.name = "remove" /\ ~change.raised =>
            LET old == ObjectForDeepKey(before, parent)
                new == ObjectForDeepKey(container, parent)
            IN IF old.kind = "object" THEN Nodes(container, <<>>) = Outside(before, place)
               ELSE /\ Outside(container, Front(place)) = Outside(before, Front(place))
                    /\ Len(new.items) = Len(old.items) - 1
                    /\ \A i \in DOMAIN new.items :
                          new.items[i] = old.items[IF i > IntValue[Last(change.key)] THEN i + 1 ELSE i]

\* A filter answers one report for each in their order, or as many as come before
\* the first without what was asked for; a subset has under the last component of
\* every path what a report has there, but for the paths that a later one hides.
FiltersAnswer ==
    LET filter == filtering.filter
        given == filtering.given
        answer == filtering.answer
        reports == answer.reports
        paths == RealKeys(filter.keys)
    IN /\ answer.outcome = "completed" => Len(reports) = Len(given)
       /\ answer.outcome = "failed" => Len(reports) < Len(given)
       /\ filter.name = "subset" =>
            /\ \A i \in DOMAIN reports, p \in DOMAIN paths :
                  \/ \E q \in p + 1 .. Len(paths) : LastPathComponent(paths[q]) = LastPathComponent(paths[p])
                  \/ ObjectForKeyPath(given[i], paths[p]) =
                        ObjectForKeyPath(reports[i], <<LastPathComponent(paths[p])>>)
            /\ answer.outcome = "failed" =>
                  \E p \in DOMAIN paths : ObjectForKeyPath(given[Len(reports) + 1], paths[p]) = Nil
       /\ filter.name = "string to data" /\ answer.outcome = "completed" =>
            [i \in DOMAIN reports |-> DataToString(reports[i])] = given

ContainersAreTrue == PathsResolve /\ FiltersAnswer
=============================================================================
