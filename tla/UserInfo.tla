------------------------------ MODULE UserInfo ------------------------------
(***************************************************************************)
(* The user information: a dictionary of the program, which setUserInfo makes a     *)
(* JSON text of (encodeObject of GrowingCrashJSONCodecObjC.m) that the report takes in  *)
(* later.  The dictionary itself is kept, and is not looked at again.               *)
(***************************************************************************)
EXTENDS JSONCodec

CONSTANTS
    Dictionaries,    \* the dictionaries that are set
    Rank,            \* the order of their keys
    MaxSets          \* calls of the setter

VARIABLES
    userInfo,        \* of the Objective-C side, or none
    userInfoJSON,    \* g_userInfoJSON, the text, empty for none
    sets

vars == <<userInfo, userInfoJSON, sets>>

\* An object: its class, or the type of its number, and its value or its members.
Of(class, value) == [class |-> class, value |-> value, members |-> <<>>]
Collection(class, members) == [class |-> class, value |-> NoValue, members |-> members]
NoInfo == Of("nil", NoValue)
IsCollection(object) == object.class \in {"array", "dictionary"}

-----------------------------------------------------------------------------
(* encodeObject.                                                            *)

\* valueForKey: an operator of a collection for a key that begins with @, which a
\* dictionary asks itself; only some are known, others raise an exception.
ValueForKey(dictionary, member) ==
    CASE member.key = "@count" -> Of("integer", Len(dictionary.members))
      [] member.key = "@other" -> Of("raises", NoValue)
      [] OTHER -> member.value

Values(object) ==
    [i \in DOMAIN object.members |->
        IF object.class = "array" THEN object.members[i].value ELSE ValueForKey(object, object.members[i])]

RECURSIVE IsEncoded(_)
IsEncoded(object) ==
    IF IsCollection(object) THEN \A i \in DOMAIN object.members : IsEncoded(Values(object)[i])
    ELSE object.class \notin {"raises", "other"}

\* A number that is none is written as it is printed, which no decoder accepts.
NaN == <<"nan", "">>
Read(text) ==
    [i \in DOMAIN text |-> IF text[i].value = NaN THEN Element("bad", NoKey, NoValue) ELSE text[i]]

\* A number of the type char is a Boolean one, a double that is whole is written as
\* an integer, a date as a text, and data as hexadecimal digits.
EncodeLeaf(key, object) ==
    CASE object.class = "nan"      -> Leaf(key, NaN)
      [] object.class = "fraction" -> Leaf(key, <<"float", object.value>>)
      [] object.class = "char"     -> Leaf(key, Bool(object.value # 0))
      [] object.class = "null"     -> Leaf(key, Null)
      [] object.class \in {"string", "date", "data"} -> Leaf(key, Text(object.value))
      [] OTHER -> Leaf(key, Number(Unsigned(object.value)))

Sorted(members) == SortSeq(members, LAMBDA m, n : Rank[m.key] < Rank[n.key])

RECURSIVE EncodeObject(_, _)
EncodeObject(key, object) ==
    LET sorted == IF object.class = "array" THEN object
                  ELSE [object EXCEPT !.members = Sorted(@)]
        parts == [i \in DOMAIN sorted.members |->
                     EncodeObject(IF object.class = "array" THEN NoKey ELSE sorted.members[i].key,
                                  Values(sorted)[i])]
    IN CASE object.class = "array"      -> Array(key, FlattenSeq(parts))
         [] object.class = "dictionary" -> Object(key, FlattenSeq(parts))
         [] OTHER -> EncodeLeaf(key, object)

-----------------------------------------------------------------------------
Init == userInfo = NoInfo /\ userInfoJSON = <<>> /\ sets = 0

\* What cannot be encoded changes nothing.
SetUserInfo(info) ==
    /\ sets < MaxSets
    /\ sets' = sets + 1
    /\ IF info # NoInfo /\ ~IsEncoded(info) THEN UNCHANGED <<userInfo, userInfoJSON>>
       ELSE /\ userInfo' = info
            /\ userInfoJSON' = IF info = NoInfo THEN <<>> ELSE Encode(EncodeObject(NoKey, info))

Next == \E info \in Dictionaries \cup {NoInfo} : SetUserInfo(info)

Spec == Init /\ [][Next]_vars

-----------------------------------------------------------------------------
(* What the report says of it.                                              *)

RECURSIVE HasNoNumber(_)
HasNoNumber(object) ==
    object.class = "nan" \/ \E i \in DOMAIN object.members : HasNoNumber(Values(object)[i])

Said(node, object) ==
    CASE object.class \in {"string", "date", "data"} -> node.value = Text(object.value)
      [] object.class = "integer"  -> node.value = Signed(Number(Unsigned(object.value)))
      [] object.class = "whole"    -> node.value = Number(object.value)
      [] object.class = "fraction" -> node.value = <<"float", object.value>>
      [] object.class = "char"     -> node.value = Bool(object.value # 0)

\* A tree says what a dictionary says: each member by its key, or its place among
\* those that are not null.
RECURSIVE Means(_, _)
Means(node, object) ==
    LET kept == SelectSeq([i \in DOMAIN object.members |->
                               [key |-> object.members[i].key, value |-> Values(object)[i]]],
                          LAMBDA m : m.value.class # "null")
    IN IF ~IsCollection(object) THEN node.kind = "leaf" /\ Said(node, object)
       ELSE /\ node.kind = (IF object.class = "array" THEN "array" ELSE "object")
            /\ Len(node.members) = Len(kept)
            /\ \A i \in DOMAIN kept :
                  Means(IF object.class = "array" THEN node.members[i] ELSE Get(node, kept[i].key), kept[i].value)

\* Whatever was set before, and whatever could not be: what a report says of the user
\* is what the dictionary says that the program is told it set, as it was then (a key
\* with @ being an operator of it); but a number that is none makes it say nothing but
\* an error (setUserInfo, encodeObject).
UserInfoIsReported ==
    IF userInfo = NoInfo THEN userInfoJSON = <<>>
    ELSE LET document == Decoded(Read(userInfoJSON))
         IN IF HasNoNumber(userInfo) THEN Last(document).do = "bad"
            ELSE Last(document).do # "bad" /\ Means(Parse(document).members[1], userInfo)
=============================================================================
