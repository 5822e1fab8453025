------------------------------ MODULE JSONCodec ------------------------------
(***************************************************************************)
(* GrowingCrashJSONCodec.c: the encoder the reports are written through, the   *)
(* decoder they are read with, and the two operations that copy a document     *)
(* into the one that is being written.                                        *)
(*                                                                         *)
(* A text is a sequence of elements as they stand in it: one that opens an       *)
(* object or an array, a leaf, one that ends a container, and what no decoder    *)
(* accepts ("bad": the end of what was written, a byte that is none of the text, *)
(* a string that is too long for the buffer of the decoder).                    *)
(***************************************************************************)
EXTENDS Integers, Sequences, SequencesExt, FiniteSetsExt

CONSTANTS
    FileBuffer,      \* elements the buffer for a file holds: 1000 bytes in the code
    Word             \* 2^64 in the code: addresses are below it

ASSUME CodecAssumption == FileBuffer \in Nat \ {0, 1} /\ Word \in Nat \ {0}

-----------------------------------------------------------------------------
(* Elements and values.                                                     *)

\* FoldLeft of SequencesExt, one half of the text after the other: a text has
\* hundreds of elements.  The value of the first half is bound before the second.
Fold(Step(_, _), base, s) ==
    LET RECURSIVE Over(_, _, _)
        Over(from, lo, hi) ==
            IF lo > hi THEN from
            ELSE IF lo = hi THEN Step(from, s[lo])
            ELSE LET mid == (lo + hi) \div 2
                 IN CHOOSE result \in {Over(half, mid + 1, hi) : half \in {Over(from, lo, mid)}} : TRUE
    IN Over(base, 1, Len(s))

NoKey == ""
NoValue == <<"none", "">>
Number(n) == <<"int", n>>
Text(s) == <<"text", s>>
Bool(b) == <<"bool", b>>
Null == <<"null", "">>

Element(do, key, value) == [do |-> do, key |-> key, value |-> value]
Leaf(key, value) == <<Element("leaf", key, value)>>
End == <<Element("end", NoKey, NoValue)>>
Object(key, body) == <<Element("object", key, NoValue)>> \o body \o End
Array(key, body) == <<Element("array", key, NoValue)>> \o body \o End

\* An unsigned number is decoded into a signed one of the same width.
Signed(value) ==
    IF value[1] = "int" /\ value[2] >= Word \div 2 THEN Number(value[2] - Word) ELSE value
Unsigned(n) == n % Word

\* A copy of another text (addJSONElement, addJSONFromFile): the elements
\* its decoder sees, whether the container it opens first is closed, and
\* whether an error is put in its place.
Copy(key, text, close, reports) ==
    <<[do |-> "copy", key |-> key, value |-> NoValue,
       text |-> text, close |-> close, reports |-> reports]>>

-----------------------------------------------------------------------------
(* The encoder: the kind of each open container, and the text.               *)

BeginEncode == [isObject |-> <<>>, text |-> <<>>]

Level(context) == Len(context.isObject)

\* beginElement writes the name in an object only.
BeginElement(context, key) ==
    IF Level(context) > 0 /\ Last(context.isObject) THEN key ELSE NoKey

AddElement(context, e) ==
    [context EXCEPT !.text = Append(@, [e EXCEPT !.key = BeginElement(context, e.key)])]

BeginContainer(context, e) ==
    [AddElement(context, e) EXCEPT !.isObject = Append(@, e.do = "object")]

\* endContainer does nothing when none is open.
EndContainer(context) ==
    IF Level(context) = 0 THEN context
    ELSE [isObject |-> Front(context.isObject), text |-> context.text \o End]

CloseTo(context, level) ==
    Fold(LAMBDA c, i : EndContainer(c), context,
             [i \in 1 .. Max({0, Level(context) - level}) |-> i])

EndEncode(context) == CloseTo(context, 0)

\* onEndContainer: the outermost container of the user info stays open, known by
\* the level it has in a report.
OnEndContainer(context, close) ==
    IF close \/ Level(context) > 2 THEN EndContainer(context) ELSE context

\* The level of the containers of a text after each of its elements.
Levels(text) ==
    Tail(Fold(LAMBDA levels, e : Append(levels, Last(levels) +
                      (CASE e.do \in {"object", "array"} -> 1 [] e.do = "end" -> -1 [] OTHER -> 0)),
                  <<0>>, text))
DeepestLevel(text) == Max({0} \cup ToSet(Levels(text)))

\* decodeElement with the callbacks of addJSONFromFile, as far as the text goes:
\* it ends where its first container does, or in an error.
Decoded(text) ==
    LET levels == Levels(text)
        ends == {i \in 1 .. Len(text) : levels[i] = 0 \/ text[i].do = "bad"}
    IN IF ends = {} THEN Append(text, Element("bad", NoKey, NoValue))
       ELSE SubSeq(text, 1, Min(ends))

\* Mutant: what an error left open stays open.
LeaveOpen(context, copy) ==
    Fold(LAMBDA c, e :
                CASE e.do \in {"object", "array"} -> BeginContainer(c, e)
                  [] e.do = "leaf" -> AddElement(c, [e EXCEPT !.value = Signed(@)])
                  [] e.do = "end"  -> OnEndContainer(c, copy.close)
                  [] OTHER -> c,
             context, copy.text)

\* growingcrashjson_addJSONElement and growingcrashjson_addJSONFromFile: the first
\* element gets the key; in the end what is open is closed if it is to be.
CopyText(context, copy) ==
    LET copied == Fold(LAMBDA c, e :
                CASE e.do \in {"object", "array"} -> BeginContainer(c, e)
                  [] e.do = "leaf" -> AddElement(c, [e EXCEPT !.value = Signed(@)])
                  [] e.do = "end"  -> OnEndContainer(c, copy.close)
                  [] OTHER -> c,
             context, copy.text)
    IN IF copy.close THEN CloseTo(copied, Level(context)) ELSE copied

\* addJSONElement of the report: an error makes an element of its own.
AddJSON(context, copy) ==
    LET text == [i \in DOMAIN copy.text |->
                    IF i = 1 THEN [copy.text[i] EXCEPT !.key = copy.key] ELSE copy.text[i]]
        copied == CopyText(context, [copy EXCEPT !.text = text])
        error == Object(copy.key, Leaf("error", Text("Invalid")) \o Leaf("json_data", Text("json")))
    IN IF copy.reports /\ Last(copy.text).do = "bad"
       THEN EndContainer(Fold(AddElement, BeginContainer(copied, Head(error)),
                                  SubSeq(error, 2, 3)))
       ELSE copied

\* The callbacks of the writer, one after the other.
Encode(elements) ==
    EndEncode(Fold(LAMBDA c, e :
                CASE e.do \in {"object", "array"} -> BeginContainer(c, e)
                  [] e.do = "leaf" -> AddElement(c, e)
                  [] e.do = "end"  -> EndContainer(c)
                  [] e.do = "copy" -> AddJSON(c, e),
             BeginEncode, elements)).text

-----------------------------------------------------------------------------
(* Reading a file through a buffer.                                          *)

\* updateDecoder_readFile.  The end of the buffer stays where it is when the file
\* ends, and what lies behind the last element is what was there before.
ReadFile(r) ==
    LET remaining == FileBuffer - r.ptr
        fill == Min({FileBuffer - remaining, Len(r.rest)})
    IN IF r.isEOF \/ remaining >= FileBuffer \div 2 THEN r
       ELSE [r EXCEPT !.ptr = 0, !.isEOF = fill < FileBuffer - remaining,
                      !.rest = SubSeq(@, fill + 1, Len(@)),
                      !.buffer = SubSeq(@, r.ptr + 1, FileBuffer) \o SubSeq(r.rest, 1, fill)
                                    \o SubSeq(@, remaining + fill + 1, FileBuffer)]

\* JSONFromFileContext and the decoder's place in it, before the file is read: the
\* buffer has been used up.
NewReader(file) ==
    [ptr |-> FileBuffer, rest |-> file, isEOF |-> FALSE, seen |-> <<>>,
     buffer |-> [i \in 1 .. FileBuffer |-> Element("bad", NoKey, NoValue)]]

\* What the decoder of addJSONFromFile sees of a file: its elements in turn, the
\* buffer filled after each.
Seen(file) ==
    LET step(r, i) == IF r.ptr >= FileBuffer THEN r
                      ELSE ReadFile([r EXCEPT !.ptr = @ + 1, !.seen = Append(@, r.buffer[r.ptr + 1])])
    IN Fold(step, ReadFile(NewReader(file)), [i \in 1 .. Len(file) + FileBuffer |-> i]).seen

-----------------------------------------------------------------------------
(* What a text says: a tree.                                                 *)

Node(key, kind, value, members) ==
    [key |-> key, kind |-> kind, value |-> value, members |-> members]
Missing == Node(NoKey, "missing", NoValue, <<>>)

\* A document is the only member of the outermost node; members that are null
\* are ignored.
Parse(text) ==
    LET add(stack, node) == Append(Front(stack), [Last(stack) EXCEPT !.members = Append(@, node)])
        read(stack, e) ==
            CASE e.do \in {"object", "array"} -> Append(stack, Node(e.key, e.do, NoValue, <<>>))
              [] e.do = "leaf" /\ e.value = Null -> stack
              [] e.do = "leaf" -> add(stack, Node(e.key, "leaf", Signed(e.value), <<>>))
              [] e.do = "end" /\ Len(stack) > 1 -> add(Front(stack), Last(stack))
              [] OTHER -> stack
    IN Fold(read, <<Node(NoKey, "text", NoValue, <<>>)>>, text)[1]

\* objectForKey: of two members with a key the last one counts.
Get(node, key) ==
    LET found == {i \in DOMAIN node.members : node.members[i].key = key}
    IN IF found = {} THEN Missing ELSE node.members[Max(found)]

At(node, path) == Fold(Get, node, path)
Keys(node) == [i \in DOMAIN node.members |-> node.members[i].key]
=============================================================================
