----------------------------- MODULE SwiftNames -----------------------------
(***************************************************************************)
(* The names in a symbol of Swift (ManglingUtils.h, and the part of Demangler.cpp  *)
(* that reads them): a name is written as its length and its characters, words of   *)
(* it that stand in an earlier name as one letter each, a whole name that was there  *)
(* before or a type of the standard library as a letter behind A or S, and letters   *)
(* in a row are merged.  The compiler that mangles is external, the rules it uses are *)
(* those of the header; what stands between the names is left out.                  *)
(***************************************************************************)
EXTENDS Punycode

CONSTANTS
    MaxNumWords,     \* words that are remembered: 26 in the code
    MaxRepeatCount,  \* repetitions one letter stands for: 2048 in the code
    OneLetter,       \* names that have a letter: 26 in the code
    Names, Standard, \* names, and letters of types of the standard library
    Operators,       \* operators: i, p or P for where they stand, and the name
    MaxItems

VARIABLES
    items,        \* the names and types that were mangled
    mangler,      \* what was written, its words, the last substitution
    demangler     \* what was read: the place, the nodes, names, and words

vars == <<items, mangler, demangler>>

IsDigit(c) == c \in 48 .. 57
IsUpper(c) == c \in 65 .. 90
IsLower(c) == c \in 97 .. 122

IsWordStart(c) == ~IsDigit(c) /\ c \notin {95, 0}
IsWordEnd(c, previous) == c \in {95, 0} \/ (~IsUpper(previous) /\ IsUpper(c))

CharAt(s, i) == IF i \in DOMAIN s THEN s[i] ELSE 0

\* The words of a name from a place on: where each begins and how long it is.
RECURSIVE WordsFrom(_, _)
WordsFrom(s, at) ==
    LET starts == {i \in at .. Len(s) : IsWordStart(s[i])}
        first == Min(starts)
        end == Min({i \in first + 1 .. Len(s) + 1 : IsWordEnd(CharAt(s, i), s[i - 1])})
    IN IF starts = {} THEN <<>>
       ELSE <<[start |-> first, length |-> end - first]>> \o WordsFrom(s, end)

WordOf(s, w) == SubSeq(s, w.start, w.start + w.length - 1)

RECURSIVE Decimal(_)
Decimal(n) == IF n < 10 THEN <<48 + n>> ELSE Decimal(n \div 10) \o <<48 + (n % 10)>>

-----------------------------------------------------------------------------
(* mangleIdentifier.  A replacement says where in the name which word stands.    *)

NeedsPunycodeEncoding(name) == \E i \in DOMAIN name : ~IsValidSymbolChar(name[i])

\* A word that was there before, in the text or in this name, is replaced; another
\* one is remembered if it has two letters and there is room.
LookupWord(state, name, w) ==
    LET word == WordOf(name, w)
        known == {i \in DOMAIN mangler.words : WordOf(mangler.buffer, mangler.words[i]) = word}
        fresh == {i \in DOMAIN state.fresh : WordOf(name, state.fresh[i]) = word}
        count == Len(mangler.words)
    IN IF known \cup fresh # {}
       THEN [state EXCEPT !.replaced =
                Append(@, [at |-> w.start, word |-> IF known # {} THEN Min(known) ELSE count + Min(fresh)])]
       ELSE IF w.length >= 2 /\ count + Len(state.fresh) < MaxNumWords
       THEN [state EXCEPT !.fresh = Append(@, w)]
       ELSE state

\* The characters up to a place, behind their number; a new word among them is from
\* now on where it stands in the text.
AddSubstring(out, name, fresh, to) ==
    LET text == out.buffer \o Decimal(to - out.pos)
        moved == SelectSeq(fresh, LAMBDA w : w.start \in out.pos .. to - 1)
    IN IF out.pos >= to THEN out
       ELSE [buffer |-> text \o SubSeq(name, out.pos, to - 1), pos |-> to,
             words |-> out.words \o [i \in DOMAIN moved |->
                          [moved[i] EXCEPT !.start = Len(text) + 1 + @ - out.pos]]]

\* One replacement; the last one has a capital letter, and a zero at the end.
AddReplacement(out, name, state, i) ==
    LET replaced == state.replaced[i]
        before == AddSubstring(out, name, state.fresh, replaced.at)
        next == before.pos + before.words[replaced.word].length
        letter == replaced.word - 1 + (IF i < Len(state.replaced) THEN 97 ELSE 65)
        ends == i = Len(state.replaced) /\ next = Len(name) + 1
    IN [before EXCEPT !.buffer = @ \o <<letter>> \o (IF ends THEN <<48>> ELSE <<>>), !.pos = next]

MangleIdentifier(name) ==
    LET code == EncodePunycodeUTF8(name, TRUE)
        state == FoldLeft(LAMBDA s, w : LookupWord(s, name, w),
                          [fresh |-> <<>>, replaced |-> <<>>], WordsFrom(name, 1))
        begun == [buffer |-> mangler.buffer \o (IF state.replaced = <<>> THEN <<>> ELSE <<48>>),
                  words |-> mangler.words, pos |-> 1]
        words == FoldLeft(LAMBDA out, i : AddReplacement(out, name, state, i), begun,
                          [i \in DOMAIN state.replaced |-> i])
        out == AddSubstring(words, name, state.fresh, Len(name) + 1)
        separator == IF IsDigit(code[1]) \/ code[1] = 95 THEN <<95>> ELSE <<>>
    IN IF NeedsPunycodeEncoding(name)
       THEN [mangler EXCEPT !.buffer = @ \o <<48, 48>> \o Decimal(Len(code)) \o separator \o code]
       ELSE [mangler EXCEPT !.buffer = out.buffer, !.words = out.words]

-----------------------------------------------------------------------------
(* SubstitutionMerging: position, size and number of the last substitution.       *)

Merge(at, size, count, standard) == [at |-> at, size |-> size, count |-> count, standard |-> standard]

CanMerge(standard) ==
    LET last == mangler.last
    IN /\ last.count > 0 /\ last.count < MaxRepeatCount
       /\ Len(mangler.buffer) = last.at + last.size
       /\ last.standard = standard

\* tryMergeSubst, or the letter behind S or A.
MangleLetter(letter, standard) ==
    LET buffer == mangler.buffer
        last == mangler.last
        repeated == SubSeq(buffer, 1, last.at) \o Decimal(last.count + 1) \o <<letter>>
        alone == buffer \o <<IF standard THEN 83 ELSE 65, letter>>
    IN IF CanMerge(standard) /\ Last(buffer) # letter /\ ~standard
       THEN [mangler EXCEPT !.buffer = Front(@) \o <<Last(@) + 32, letter>>,
                            !.last = Merge(Len(buffer), 1, 1, FALSE)]
       ELSE IF CanMerge(standard) /\ Last(buffer) = letter
       THEN [mangler EXCEPT !.buffer = repeated,
                            !.last = Merge(last.at, Len(repeated) - last.at, last.count + 1, standard)]
       ELSE [mangler EXCEPT !.buffer = alone, !.last = Merge(Len(buffer) + 1, 1, 1, standard)]

\* translateOperatorChar: the letters that stand for the characters of operators.
OperatorLetters ==
    [c \in {38, 64, 47, 61, 62, 60, 42, 33, 124, 43, 63, 37, 45, 126, 94, 46} |->
        CASE c = 38 -> 97 [] c = 64 -> 99 [] c = 47 -> 100 [] c = 61 -> 101 [] c = 62 -> 103 [] c = 60 -> 108
          [] c = 42 -> 109 [] c = 33 -> 110 [] c = 124 -> 111 [] c = 43 -> 112 [] c = 63 -> 113
          [] c = 37 -> 114 [] c = 45 -> 115 [] c = 126 -> 116 [] c = 94 -> 120 [] c = 46 -> 122]
TranslateOperator(operator) ==
    [i \in DOMAIN operator |->
        IF operator[i] \in DOMAIN OperatorLetters THEN OperatorLetters[operator[i]] ELSE operator[i]]

\* A name that was there before: by its letter or, behind those, by its number.
MangleSubstitution(i) ==
    LET large == i - OneLetter
    IN IF large <= 0 THEN MangleLetter(64 + i, FALSE)
       ELSE [mangler EXCEPT !.buffer = @ \o <<65>> \o (IF large = 1 THEN <<>> ELSE Decimal(large - 2)) \o <<95>>]

-----------------------------------------------------------------------------
(* The demangler.  A step gives the state behind it, or one that failed.           *)

Failed == [demangler EXCEPT !.pos = 0]
Peek(d) == CharAt(mangler.buffer, d.pos)
Skip(d) == [d EXCEPT !.pos = @ + 1]
NextIf(d, c) == IF Peek(d) = c THEN Skip(d) ELSE d

\* demangleNatural: the number, -1 for none, and the place behind it.
RECURSIVE Natural(_, _)
Natural(d, n) ==
    IF IsDigit(Peek(d)) THEN Natural(Skip(d), 10 * (IF n < 0 THEN 0 ELSE n) + Peek(d) - 48)
    ELSE [n |-> n, d |-> d]

\* The nodes of a type of the standard library (createSwiftType), and of an operator
\* behind, before or between its operands; a name begins with another character.
SwiftType(letter) == <<0, letter>>
SwiftOperator(operator) == <<1>> \o operator
IsIdentifier(node) == node[1] > 1
Fixes == {105, 112, 80}

Copies(node, count) == [i \in 1 .. IF count > 1 THEN count ELSE 1 |-> node]

\* The words of a part of a name that stands in the text, as many as are remembered.
RememberWords(words, slice) ==
    LET long == SelectSeq(WordsFrom(slice, 1), LAMBDA w : w.length >= 2)
        room == Min({MaxNumWords - Len(words), Len(long)})
    IN words \o [i \in 1 .. room |-> WordOf(slice, long[i])]

\* The letters of words, up to a capital one: the name they make, or no such word.
RECURSIVE ReadWords(_, _)
ReadWords(d, name) ==
    LET c == Peek(d)
        word == IF IsLower(c) THEN c - 96 ELSE c - 64
    IN IF ~IsLower(c) /\ ~IsUpper(c) THEN [d |-> d, name |-> name, more |-> TRUE]
       ELSE IF word > Len(d.words) THEN [d |-> Failed, name |-> name, more |-> FALSE]
       ELSE IF IsUpper(c) THEN [d |-> Skip(d), name |-> name \o d.words[word], more |-> FALSE]
       ELSE ReadWords(Skip(d), name \o d.words[word])

\* demangleIdentifier, part by part: words, and characters behind their number.
RECURSIVE ReadParts(_, _, _, _)
ReadParts(from, name, hasWords, isPunycoded) ==
    LET read == IF hasWords THEN ReadWords(from, name) ELSE [d |-> from, name |-> name, more |-> FALSE]
        number == Natural(read.d, -1)
        d == IF isPunycoded THEN NextIf(number.d, 95) ELSE number.d
        slice == SubSeq(mangler.buffer, d.pos, d.pos + number.n - 1)
        text == IF isPunycoded THEN DecodePunycodeUTF8(slice) ELSE slice
        next == [d EXCEPT !.pos = @ + number.n, !.words = IF isPunycoded THEN @ ELSE RememberWords(@, slice)]
        Found(end, whole) == IF whole = <<>> THEN Failed
                             ELSE [end EXCEPT !.nodes = Append(@, whole), !.names = Append(@, whole)]
    IN IF read.d.pos = 0 THEN Failed
       ELSE IF Peek(read.d) = 48 THEN Found(Skip(read.d), read.name)
       ELSE IF number.n <= 0 \/ d.pos + number.n > Len(mangler.buffer) + 1 THEN Failed
       ELSE IF read.more THEN ReadParts(next, read.name \o text, TRUE, isPunycoded)
       ELSE Found(next, read.name \o text)

DemangleIdentifier(d) ==
    IF Peek(d) # 48 THEN ReadParts(d, <<>>, FALSE, FALSE)
    ELSE IF Peek(Skip(d)) = 48 THEN ReadParts(Skip(Skip(d)), <<>>, FALSE, TRUE)
    ELSE ReadParts(Skip(d), <<>>, TRUE, FALSE)

PushMultiSubstitutions(d, repeat, i) ==
    IF i > Len(d.names) \/ repeat > MaxRepeatCount THEN Failed
    ELSE [Skip(d) EXCEPT !.nodes = @ \o Copies(d.names[i], repeat)]

\* Small letters until a capital one, each perhaps behind how often it counts; or the
\* number of a name without a letter.
RECURSIVE DemangleMultiSubstitutions(_, _)
DemangleMultiSubstitutions(d, repeat) ==
    LET c == Peek(d)
        number == Natural(d, -1)
        pushed == PushMultiSubstitutions(d, repeat, c - 96)
        large == repeat + OneLetter + 2
    IN IF d.pos = 0 \/ c = 0 THEN Failed
       ELSE IF IsLower(c) THEN DemangleMultiSubstitutions(pushed, -1)
       ELSE IF IsUpper(c) THEN PushMultiSubstitutions(d, repeat, c - 64)
       ELSE IF c = 95
       THEN IF large > Len(d.names) THEN Failed
            ELSE [Skip(d) EXCEPT !.nodes = Append(@, d.names[large])]
       ELSE IF number.n < 0 THEN Failed
       ELSE DemangleMultiSubstitutions(number.d, number.n)

DemangleStandardSubstitution(d) ==
    LET repeat == Natural(d, -1)
        letter == Peek(repeat.d)
    IN IF repeat.n > MaxRepeatCount \/ letter \notin Standard THEN Failed
       ELSE [Skip(repeat.d) EXCEPT !.nodes = @ \o Copies(SwiftType(letter), repeat.n)]

\* op_char_table, 32 for letters that stand for nothing; other characters than those of
\* ASCII stand for themselves.
OpCharTable == <<38, 32, 64, 47, 61, 32, 62, 32, 32, 32, 32, 60, 42, 33, 124, 43, 63, 37, 45, 126,
                 32, 32, 32, 94, 32, 46>>
DemangleOperatorIdentifier(d) ==
    LET name == Last(d.nodes)
        isOperator == \A i \in DOMAIN name : name[i] > 127 \/ (IsLower(name[i]) /\ OpCharTable[name[i] - 96] # 32)
        operator == [i \in DOMAIN name |-> IF name[i] > 127 THEN name[i] ELSE OpCharTable[name[i] - 96]]
    IN IF d.nodes = <<>> \/ ~IsIdentifier(name) \/ ~isOperator \/ Peek(d) \notin Fixes THEN Failed
       ELSE [Skip(d) EXCEPT !.nodes = Append(Front(@), SwiftOperator(<<Peek(d)>> \o operator))]

-----------------------------------------------------------------------------
Init ==
    /\ items = <<>>
    /\ mangler = [buffer |-> <<>>, words |-> <<>>, last |-> Merge(0, 0, 0, FALSE)]
    /\ demangler = [pos |-> 1, nodes |-> <<>>, names |-> <<>>, words |-> <<>>]

\* The names that have a number, in the order in which they came first.
NameOf(item) == IF IsIdentifier(item) THEN item ELSE TranslateOperator(SubSeq(item, 3, Len(item)))
Numbered == FoldLeft(LAMBDA names, item :
                IF item[1] = 0 \/ NameOf(item) \in Range(names) THEN names ELSE Append(names, NameOf(item)),
                <<>>, items)
AddName(name) ==
    IF name \in Range(Numbered) THEN MangleSubstitution(SelectInSeq(Numbered, LAMBDA n : n = name))
    ELSE MangleIdentifier(name)

Mangle(item) ==
    /\ Len(items) < MaxItems /\ demangler.pos = 1
    /\ items' = Append(items, item)
    /\ UNCHANGED demangler
MangleType(letter) == Mangle(SwiftType(letter)) /\ mangler' = MangleLetter(letter, TRUE)
MangleName(name) == Mangle(name) /\ mangler' = AddName(name)
MangleOperator(operator) ==
    /\ Mangle(SwiftOperator(operator))
    /\ mangler' = [AddName(TranslateOperator(Tail(operator))) EXCEPT !.buffer = @ \o <<111, Head(operator)>>]

\* demangleOperator, for the names that stand between other operators.
Demangle ==
    /\ demangler.pos \in DOMAIN mangler.buffer
    /\ demangler' = CASE Peek(demangler) = 65 -> DemangleMultiSubstitutions(Skip(demangler), -1)
                      [] Peek(demangler) = 83 -> DemangleStandardSubstitution(Skip(demangler))
                      [] Peek(demangler) = 111 -> DemangleOperatorIdentifier(Skip(demangler))
                      [] OTHER -> DemangleIdentifier(demangler)
    /\ UNCHANGED <<items, mangler>>

Next ==
    \/ \E letter \in Standard : MangleType(letter)
    \/ \E name \in Names : MangleName(name)
    \/ \E operator \in Operators : MangleOperator(operator)
    \/ Demangle

Spec == Init /\ [][Next]_vars

-----------------------------------------------------------------------------
\* What is read of a symbol is what was written, name by name: words that stand in
\* other names, in the same one and at its end, names that repeat and types that
\* repeat, in a row or not, and operators, whose letters may be those of a name.  Reader and writer remember the same words, which their
\* letters rely on, also when there is no room for more (mangleIdentifier,
\* tryMergeSubst, demangleIdentifier, demangleMultiSubstitutions).
NamesAreRead ==
    /\ demangler.pos # 0 /\ \A i \in 1 .. Len(demangler.nodes) - 1 : demangler.nodes[i] = items[i]
    /\ demangler.pos > Len(mangler.buffer) =>
          /\ demangler.nodes = items
          /\ demangler.words = [i \in DOMAIN mangler.words |-> WordOf(mangler.buffer, mangler.words[i])]
=============================================================================
