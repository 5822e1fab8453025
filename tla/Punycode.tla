------------------------------ MODULE Punycode ------------------------------
(***************************************************************************)
(* The identifiers in the symbols of Swift: Punycode.cpp, which the demangler  *)
(* reads the names of a stack with.  A name is a sequence of bytes in UTF-8, a   *)
(* Punycode text one of characters, each its code.  The integers of the code     *)
(* have 32 bits, more than the names of an instance need.                       *)
(***************************************************************************)
EXTENDS Integers, SequencesExt, FiniteSetsExt

base == 36
tmin == 1
tmax == 26
Delimiter == 95
NoText == <<-1>>

DigitValue(digit) == IF digit < 26 THEN 97 + digit ELSE 65 - 26 + digit
DigitIndex(c) == CASE c \in 97 .. 122 -> c - 97 [] c \in 65 .. 74 -> c - 65 + 26 [] OTHER -> -1

IsValidUnicodeScalar(s) == s < 55424 \/ s \in 57344 .. 2097151

\* isValidSymbolChar: letters, digits, _ and $.
IsValidSymbolChar(c) == c \in (97 .. 122) \cup (65 .. 90) \cup (48 .. 57) \cup {95, 36}

Adapt(delta, numpoints, firsttime) ==
    LET first == IF firsttime THEN delta \div 700 ELSE delta \div 2
        Loop[d \in Nat] == IF d > ((base - tmin) * tmax) \div 2
                           THEN LET rest == Loop[d \div (base - tmin)] IN [rest EXCEPT !.k = @ + base]
                           ELSE [k |-> 0, delta |-> d]
        end == Loop[first + first \div numpoints]
    IN end.k + ((base - tmin + 1) * end.delta) \div (end.delta + 38)

Threshold(k, bias) == IF k <= bias THEN tmin ELSE IF k >= bias + tmax THEN tmax ELSE k - bias

-----------------------------------------------------------------------------
(* Decoding.                                                               *)

\* The number of variable length at the start of text, added to i, and what is
\* behind it; none when a digit is missing or no digit.
RECURSIVE Number(_, _, _, _, _)
Number(text, i, k, w, bias) ==
    IF text = <<>> \/ DigitIndex(Head(text)) < 0 THEN [i |-> -1, text |-> <<>>]
    ELSE LET digit == DigitIndex(Head(text))
             t == Threshold(k, bias)
         IN IF digit < t THEN [i |-> i + digit * w, text |-> Tail(text)]
            ELSE Number(Tail(text), i + digit * w, k + base, w * (base - t), bias)

\* The characters that are inserted into out; the code answers that all is well
\* also when it stops before the end, so that out is used as far as it came.
RECURSIVE Insertions(_, _, _, _, _)
Insertions(text, out, n, i, bias) ==
    LET number == Number(text, i, base, 1, bias)
        count == Len(out) + 1
        character == n + number.i \div count
        place == number.i % count
    IN IF text = <<>> \/ number.i < 0 THEN out
       ELSE Insertions(number.text, InsertAt(out, place + 1, character), character, place + 1,
                       Adapt(number.i - i, count, i = 0))

DecodePunycode(text) ==
    LET last == SelectLastInSeq(text, LAMBDA c : c = Delimiter)
        basic == SubSeq(text, 1, last - 1)
        ascii == SelectInSeq(basic, LAMBDA c : c > 127)
    IN IF ascii # 0 THEN SubSeq(basic, 1, ascii - 1)
       ELSE Insertions(SubSeq(text, last + 1, Len(text)), basic, 128, 0, 72)

-----------------------------------------------------------------------------
(* Encoding.                                                               *)

RECURSIVE Digits(_, _, _)
Digits(q, k, bias) ==
    LET t == Threshold(k, bias)
    IN IF q < t THEN <<DigitValue(q)>>
       ELSE <<DigitValue(t + ((q - t) % (base - t)))>> \o Digits((q - t) \div (base - t), k + base, bias)

\* One character in a pass that writes those with the code m.
EncodeCharacter(state, c, m, b) ==
    IF c < m THEN [state EXCEPT !.delta = @ + 1]
    ELSE IF c = m
    THEN [out |-> state.out \o Digits(state.delta, base, state.bias), delta |-> 0,
          bias |-> Adapt(state.delta, state.h + 1, state.h = b), h |-> state.h + 1]
    ELSE state

\* The passes, one for each code from n on, in their order; b characters are basic.
RECURSIVE Passes(_, _, _, _)
Passes(codes, n, b, state) ==
    LET left == {c \in Range(codes) : c >= n}
        m == CHOOSE c \in left : \A d \in left : c <= d
        pass == FoldLeft(LAMBDA s, c : EncodeCharacter(s, c, m, b),
                         [state EXCEPT !.delta = @ + (m - n) * (state.h + 1)], codes)
    IN IF state.h = Len(codes) THEN state.out
       ELSE Passes(codes, m + 1, b, [pass EXCEPT !.delta = @ + 1])

EncodePunycode(codes) ==
    LET basic == SelectSeq(codes, LAMBDA c : c < 128)
        b == Len(basic)
    IN IF \E i \in DOMAIN codes : ~IsValidUnicodeScalar(codes[i]) THEN NoText
       ELSE Passes(codes, 128, b, [out |-> basic \o IF b > 0 THEN <<Delimiter>> ELSE <<>>,
                                   delta |-> 0, bias |-> 72, h |-> b])

-----------------------------------------------------------------------------
(* UTF-8.                                                                  *)

\* A character that stands for one that is no symbol character is that one.
EncodeToUTF8(codes) ==
    LET Trail(c, shift) == 128 + ((c \div shift) % 64)
        Bytes(scalar) ==
            LET c == IF scalar \in 55296 .. 55423 THEN scalar - 55296 ELSE scalar
            IN IF c < 128 THEN <<c>>
               ELSE IF c < 2048 THEN <<192 + c \div 64, Trail(c, 1)>>
               ELSE IF c < 65536 THEN <<224 + c \div 4096, Trail(c, 64), Trail(c, 1)>>
               ELSE <<240 + c \div 262144, Trail(c, 4096), Trail(c, 64), Trail(c, 1)>>
    IN IF \E i \in DOMAIN codes : ~IsValidUnicodeScalar(codes[i]) THEN NoText
       ELSE FlattenSeq([i \in DOMAIN codes |-> Bytes(codes[i])])

DecodePunycodeUTF8(text) == EncodeToUTF8(DecodePunycode(text))

\* The characters of a name; those that are no symbol characters stand for
\* themselves behind 0xD800 if they are mapped.
RECURSIVE ConvertUTF8toUTF32(_, _)
ConvertUTF8toUTF32(name, maps) ==
    LET first == Head(name)
        more == CASE first < 128 -> 0 [] first < 224 -> 1 [] first < 240 -> 2 [] OTHER -> 3
        trail == SubSeq(name, 2, Min({1 + more, Len(name)}))
        lead == first % (CASE more = 0 -> 128 [] more = 1 -> 32 [] more = 2 -> 16 [] OTHER -> 8)
        code == FoldLeft(LAMBDA c, byte : c * 64 + (byte % 64), lead, trail)
        isChar == /\ first \notin (128 .. 191) \cup (248 .. 255) /\ Len(trail) = more
                  /\ \A i \in DOMAIN trail : trail[i] \in 128 .. 191
    IN IF name = <<>> THEN <<>>
       ELSE IF ~isChar THEN NoText
       ELSE LET rest == ConvertUTF8toUTF32(SubSeq(name, 2 + more, Len(name)), maps)
            IN IF rest = NoText THEN NoText
               ELSE <<IF more = 0 /\ maps /\ ~IsValidSymbolChar(first) THEN code + 55296 ELSE code>> \o rest

EncodePunycodeUTF8(name, maps) ==
    LET codes == ConvertUTF8toUTF32(name, maps)
    IN IF codes = NoText THEN NoText ELSE EncodePunycode(codes)
=============================================================================
