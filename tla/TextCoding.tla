----------------------------- MODULE TextCoding -----------------------------
(***************************************************************************)
(* The texts of a report, character by character: strings escaped for JSON and  *)
(* read back, numbers and data (GrowingCrashJSONCodec.c), UTF-16 strings of       *)
(* objects made UTF-8 and strings and numbers within a pointer                     *)
(* (GrowingCrashObjC.c), labels of queues (GrowingCrashThread.c), memory that may   *)
(* be a text or hold an address (GrowingCrashString.c), and the names of Swift in   *)
(* Punycode.  A character is its code.                                         *)
(***************************************************************************)
EXTENDS Punycode, FiniteSets

CONSTANTS
    WorkBufferSize,    \* GrowingCrashJSONCODEC_WorkBufferSize: 512 in the code
    HexWidth,          \* digits of a number: 16 in the code, 3 in AddressesAreFound
    Limit,             \* ULLONG_MAX of the numbers that are decoded
    PointerWidth,      \* bits of a pointer that holds a number: 64 in the code
    Texts,             \* what is converted: the texts of each kind
    Rooms              \* and the limits given with them

VARIABLES conversion, done, result

vars == <<conversion, done, result>>

Quote == 34
Backslash == 92
Zero == 48
LetterX == 120
LetterU == 117
Error == <<-1>>         \* no text

\* Characters that have an escape, and its letter.
Escapes == [c \in {8, 9, 10, 12, 13, Quote, Backslash} |->
                CASE c = 8 -> 98 [] c = 9 -> 116 [] c = 10 -> 110 [] c = 12 -> 102 [] c = 13 -> 114 [] OTHER -> c]
Letters == {Escapes[c] : c \in DOMAIN Escapes}

HexValue(c) == CASE c \in 48 .. 57 -> c - 48 [] c \in 65 .. 70 -> c - 55 [] c \in 97 .. 102 -> c - 87 [] OTHER -> 255
IsHex(c) == HexValue(c) # 255

-----------------------------------------------------------------------------
(* The encoder.                                                            *)

\* appendEscapedString: what is put into the work buffer, or an error.
AppendEscaped(part) ==
    IF \E i \in DOMAIN part : part[i] < 32 /\ part[i] \notin DOMAIN Escapes THEN Error
    ELSE FlattenSeq([i \in DOMAIN part |->
             IF part[i] \in DOMAIN Escapes THEN <<Backslash, Escapes[part[i]]>> ELSE <<part[i]>>])

\* Mutant: the whole work buffer is taken for the text.
WholeBuffer == WorkBufferSize
Portion == WorkBufferSize \div 2

\* addEscapedString: the portions that are written; a portion with a control
\* character ends it, and what was written before it stays.
Portions(s) == [i \in 1 .. (Len(s) + Portion - 1) \div Portion |->
                    SubSeq(s, (i - 1) * Portion + 1, IF i * Portion < Len(s) THEN i * Portion ELSE Len(s))]
Buffers(s) ==
    LET all == [i \in DOMAIN Portions(s) |-> AppendEscaped(Portions(s)[i])]
        bad == {i \in DOMAIN all : all[i] = Error}
    IN IF bad = {} THEN all ELSE SubSeq(all, 1, (CHOOSE i \in bad : \A j \in bad : i <= j) - 1)

\* appendDataElement: each byte as its two digits.
HexNybbles == <<48, 49, 50, 51, 52, 53, 54, 55, 56, 57, 65, 66, 67, 68, 69, 70>>
Hex(bytes) == FlattenSeq([i \in DOMAIN bytes |-> <<HexNybbles[bytes[i] \div 16 + 1], HexNybbles[(bytes[i] % 16) + 1]>>])

\* addUUIDElement: the sixteen bytes in five groups.
Dash == 45
UUIDText(bytes) ==
    LET Group(from, to) == Hex(SubSeq(bytes, from, to))
    IN Group(1, 4) \o <<Dash>> \o Group(5, 6) \o <<Dash>> \o Group(7, 8) \o <<Dash>>
       \o Group(9, 10) \o <<Dash>> \o Group(11, 16)

\* addQuotedEscapedString: the string is closed whatever happens.
Quoted(s) == <<Quote>> \o FlattenSeq(Buffers(s)) \o <<Quote>>

-----------------------------------------------------------------------------
(* The decoder.                                                            *)

\* writeUTF8
UTF8(c) ==
    IF c <= 127 THEN <<c>>
    ELSE IF c <= 2047 THEN <<192 + c \div 64, 128 + (c % 64)>>
    ELSE IF c <= 65535 THEN <<224 + c \div 4096, 128 + ((c \div 64) % 64), 128 + (c % 64)>>
    ELSE <<240 + c \div 262144, 128 + ((c \div 4096) % 64), 128 + ((c \div 64) % 64), 128 + (c % 64)>>

IsTrail(c) == c \in 56320 .. 57343
IsLead(c) == c \in 55296 .. 56319
Hex4(s, i) == HexValue(s[i]) * 4096 + HexValue(s[i + 1]) * 256 + HexValue(s[i + 2]) * 16 + HexValue(s[i + 3])
AllHex(s, i) == i + 3 <= Len(s) /\ \A k \in i .. i + 3 : IsHex(s[k])

\* The end of a string: the first quote that is not behind a backslash.
StringEnd(text) ==
    LET End[i \in 2 .. Len(text) + 2] ==
            IF i > Len(text) THEN 0 ELSE IF text[i] = Quote THEN i
            ELSE IF text[i] = Backslash THEN End[i + 2] ELSE End[i + 1]
    IN IF text = <<>> \/ text[1] # Quote THEN 0 ELSE End[2]

\* A \u sequence at i, and what follows it; of a pair of surrogates the code takes
\* the twenty bits as they are.
RECURSIVE Unescape(_, _)
Unicode(s, i) ==
    IF ~AllHex(s, i + 2) \/ IsTrail(Hex4(s, i + 2)) THEN Error
    ELSE IF ~IsLead(Hex4(s, i + 2)) THEN UTF8(Hex4(s, i + 2)) \o Unescape(s, i + 6)
    ELSE IF ~(AllHex(s, i + 8) /\ s[i + 6] = Backslash /\ s[i + 7] = LetterU /\ IsTrail(Hex4(s, i + 8))) THEN Error
    ELSE UTF8((Hex4(s, i + 2) - 55296) * 1024 + Hex4(s, i + 8) - 56320) \o Unescape(s, i + 12)

Unescape(s, i) ==
    IF i > Len(s) THEN <<>>
    ELSE IF s[i] # Backslash THEN <<s[i]>> \o Unescape(s, i + 1)
    ELSE IF s[i + 1] \in Letters
         THEN <<CHOOSE c \in DOMAIN Escapes : Escapes[c] = s[i + 1]>> \o Unescape(s, i + 2)
    ELSE IF s[i + 1] = 47 THEN <<47>> \o Unescape(s, i + 2)
    ELSE IF s[i + 1] = LetterU THEN Unicode(s, i) ELSE Error

\* decodeString, into a buffer of so many bytes.
DecodeString(text, length) ==
    LET end == StringEnd(text)
        out == Unescape(SubSeq(text, 2, end - 1), 1)
    IN IF end = 0 \/ end - 2 >= length \/ -1 \in Range(out) THEN Error ELSE out

\* growingcrashjson_decode gives a quarter of the buffer to names and what is left
\* to values.
NameBuffer(length) == length \div 4
ValueBuffer(length) == length - NameBuffer(length)

IsDigit(c) == c \in 48 .. 57
\* isFPChar: a digit, a point, an exponent, or a sign.
IsFPChar(c) == IsDigit(c) \/ c \in {46, 101, 69, 43, Dash}

\* The digits of a number, in an unsigned one while they fit.
Accumulate(digits) ==
    LET Over[i \in 0 .. Len(digits)] ==
            LET next == Over[i - 1].value * 10 + digits[i] - 48
            IN IF i = 0 THEN [value |-> 0, overflow |-> FALSE]
               ELSE IF Over[i - 1].overflow \/ next > Limit THEN [value |-> Over[i - 1].value, overflow |-> TRUE]
               ELSE [value |-> next, overflow |-> FALSE]
    IN Over[Len(digits)]

\* A number of a text: an integer, <<1, n>>, when its digits fit and nothing of a
\* floating point number is behind them, and else that, <<2, sign>> with its text.
\* An unsigned one that is no signed one becomes negative.  A number the buffer ends
\* with is not complete.
DecodeNumber(text, length) ==
    LET sign == IF text[1] = Dash THEN -1 ELSE 1
        start == IF sign = -1 THEN 2 ELSE 1
        RunOf(IsOne(_)) == {k \in start .. Len(text) : \A j \in start .. k : IsOne(text[j])}
        digits == SubSeq(text, start, start + Cardinality(RunOf(IsDigit)) - 1)
        literal == SubSeq(text, start, start + Cardinality(RunOf(IsFPChar)) - 1)
        number == Accumulate(digits)
        isInteger == ~number.overflow /\ literal = digits
                        /\ (sign = 1 \/ number.value <= Limit \div 2 + 1)
        signed == IF number.value > Limit \div 2 THEN number.value - Limit - 1 ELSE number.value
    IN CASE start > Len(text) \/ ~IsDigit(text[start]) \/ Len(literal) = Len(text) - start + 1 -> Error
         [] isInteger -> <<1, IF sign = -1 THEN -number.value ELSE signed>>
         [] Len(literal) >= length -> Error
         [] OTHER -> <<2, sign>> \o literal

-----------------------------------------------------------------------------
(* Strings of objects.                                                     *)

\* The character at i of a text of UTF-16 units: its code and how many units it is.
Character(units, i) ==
    IF ~IsLead(units[i]) /\ ~IsTrail(units[i]) THEN [code |-> units[i], units |-> 1]
    ELSE IF IsLead(units[i]) /\ IsTrail(units[i + 1])
         THEN [code |-> 65536 + (units[i] - 55296) * 1024 + units[i + 1] - 56320, units |-> 2]
    ELSE [code |-> -1, units |-> 1]

\* Mutant: a character is written although it does not fit.
RECURSIVE CutCharacters(_, _, _, _)
CutCharacters(units, i, count, room) ==
    IF i > count \/ room <= 0 THEN <<>>
    ELSE LET character == Character(units, i)
             bytes == UTF8(character.code)
         IN IF character.code < 0 THEN Error
            ELSE SubSeq(bytes, 1, IF Len(bytes) < room THEN Len(bytes) ELSE room)
                    \o CutCharacters(units, i + character.units, count, room - Len(bytes))

\* copyAndConvertUTF16StringToUTF8, for the units from i on and room for so many
\* bytes before the one that ends the text: characters while they fit.  What is
\* behind the text is read when its last unit begins a pair.
RECURSIVE Characters(_, _, _, _)
Characters(units, i, count, room) ==
    IF i > count \/ room <= 0 THEN <<>>
    ELSE LET character == Character(units, i)
             bytes == UTF8(character.code)
         IN IF character.code < 0 THEN Error
            ELSE IF Len(bytes) > room THEN <<>>
            ELSE bytes \o Characters(units, i + character.units, count, room - Len(bytes))

ConvertUTF16(memory, max) ==
    LET bytes == Characters(memory, 1, Len(memory) - 1, max - 1)
    IN IF -1 \in Range(bytes) THEN <<>> ELSE bytes

\* copy8BitString: as many bytes as fit, if they can be read.
Copy8Bit(memory, count, max) ==
    LET fits == IF count >= max THEN max - 1 ELSE count
    IN IF max = 0 \/ fits > Len(memory) THEN <<>> ELSE SubSeq(memory, 1, fits)

\* growingcrashthread_getQueueName: the label of the queue that a thread works for, cut
\* if it is long.  No thread has one when the thread, the place of its queue, or the
\* queue cannot be read, and a label of other characters than these is none.
QueueName(label, length) ==
    IF label = Error \/ \E i \in DOMAIN label : label[i] \notin 32 .. 126 THEN Error
    ELSE SubSeq(label, 1, Min({Len(label), length - 1}))

-----------------------------------------------------------------------------
(* Objects that are in the pointer itself: four bits of tag and class, and what *)
(* they hold.                                                              *)

\* "eilotrm.apdnsIc ufkMShjTRxgC4013bDNvwyUL2O856P-B79AFKEWV_zGJ/HYX"
TaggedAlphabet == <<101, 105, 108, 111, 116, 114, 109, 46, 97, 112, 100, 110, 115, 73, 99, 32,
                    117, 102, 107, 77, 83, 104, 106, 84, 82, 120, 103, 67, 52, 48, 49, 51,
                    98, 68, 78, 118, 119, 121, 85, 76, 50, 79, 56, 53, 54, 80, 45, 66,
                    55, 57, 65, 70, 75, 69, 87, 86, 95, 122, 71, 74, 47, 72, 89, 88>>

\* extractTaggedNSString, of the bits above the length: characters of seven bits, of
\* six when there are more than seven of them, and of five when there are ten.
ExtractTaggedNSString(length, bits, room) ==
    LET copied == IF length + 1 > room THEN room - 1 ELSE length
        Bits(from, n) == FoldLeft(LAMBDA v, i : 2 * v + bits[from + n - i + 1], 0, [i \in 1 .. n |-> i])
        Letter(i, n) == TaggedAlphabet[Bits((length - i) * n, n) + 1]
    IN [i \in 1 .. (IF length <= 11 THEN copied ELSE 0) |->
           CASE length <= 7 -> Bits((i - 1) * 8, 7)
             [] length <= 9 -> Letter(i, 6)
             [] OTHER       -> Letter(i, 5)]

\* How a string is put into a pointer.
Packed(text) ==
    LET Width == IF Len(text) <= 7 THEN 8 ELSE IF Len(text) <= 9 THEN 6 ELSE 5
        Code(k) == IF Width = 8 THEN text[k]
                   ELSE (CHOOSE i \in DOMAIN TaggedAlphabet :
                            TaggedAlphabet[i] = text[Len(text) + 1 - k]) - 1
    IN [b \in 1 .. 56 |->
           LET k == (b - 1) \div Width + 1
           IN IF k > Len(text) THEN 0 ELSE (Code(k) \div 2 ^ ((b - 1) % Width)) % 2]

\* extractTaggedNSNumber: the tag is shifted out, with the sign kept, and then the
\* four bits of the type of the number.
ExtractTaggedNSNumber(pointer) ==
    LET shifted == (pointer * 16) % (2 ^ PointerWidth)
        signed == IF shifted >= 2 ^ (PointerWidth - 1) THEN shifted - 2 ^ PointerWidth ELSE shifted
    IN (signed \div 16) \div 16

\* How a number is put into one: tag, class, number and type.
NumberPointer(n, type) ==
    2 ^ (PointerWidth - 1) + 3 * 2 ^ (PointerWidth - 4) + (n % (2 ^ (PointerWidth - 8))) * 16 + type

-----------------------------------------------------------------------------
(* Memory that may be a text.                                              *)

\* g_continuationByteCount of the second byte of a character on.
ContinuationBytes(c) ==
    CASE c \in 192 .. 223 -> 1 [] c \in 224 .. 239 -> 2 [] c \in 240 .. 247 -> 3
      [] c \in 248 .. 251 -> 4 [] c \in 252 .. 253 -> 5 [] OTHER -> 0
IsContinuation(c) == c \in 128 .. 191
IsPrintable(c) == c >= 32 \/ c \in {9, 10, 13}

\* isNullTerminatedUTF8String
IsUTF8String(memory, least) ==
    LET n == Len(memory)
        IsText[i \in 1 .. n + 6] ==
            LET more == ContinuationBytes(memory[i])
            IN IF i > n THEN FALSE
               ELSE IF memory[i] = 0 THEN i - 1 >= least
               ELSE IF memory[i] < 128 THEN IsPrintable(memory[i]) /\ IsText[i + 1]
               ELSE /\ more > 0 /\ i - 1 + more < n
                    /\ \A k \in i + 1 .. i + more : IsContinuation(memory[k])
                    /\ IsText[i + more + 1]
    IN IsText[1]

\* extractHexValue: the number after the first 0x that has a digit behind it, of
\* as many digits as there are, in a word.
RECURSIVE HexDigits(_, _, _)
HexDigits(s, i, value) ==
    IF i > Len(s) \/ ~IsHex(s[i]) THEN value
    ELSE HexDigits(s, i + 1, (value * 16 + HexValue(s[i])) % (16 ^ HexWidth))

RECURSIVE ExtractHex(_, _)
ExtractHex(s, from) ==
    LET found == {i \in from .. Len(s) - 1 : s[i] = Zero /\ s[i + 1] = LetterX}
        first == CHOOSE i \in found : \A j \in found : i <= j
    IN IF found = {} THEN Error
       ELSE IF first + 2 <= Len(s) /\ IsHex(s[first + 2]) THEN <<HexDigits(s, first + 2, 0)>>
       ELSE ExtractHex(s, first + 2)

-----------------------------------------------------------------------------
Init ==
    /\ \E kind \in DOMAIN Texts : \E text \in Texts[kind], max \in Rooms[kind] :
          conversion = [kind |-> kind, text |-> text, max |-> max]
    /\ done = FALSE /\ result = <<>>

Convert ==
    /\ ~done
    /\ done' = TRUE
    /\ result' = CASE conversion.kind = "quote"   -> Quoted(conversion.text)
                   [] conversion.kind = "decode"  -> DecodeString(conversion.text, conversion.max)
                   [] conversion.kind = "utf16"   -> ConvertUTF16(conversion.text, conversion.max)
                   [] conversion.kind = "string"  -> IF IsUTF8String(conversion.text, conversion.max) THEN <<1>> ELSE <<>>
                   [] conversion.kind = "address" -> ExtractHex(conversion.text, 1)
                   [] conversion.kind = "name"    -> EncodePunycodeUTF8(conversion.text, conversion.max = 1)
                   [] conversion.kind = "digits"  -> DecodePunycode(conversion.text)
                   [] conversion.kind = "number"  -> DecodeNumber(conversion.text, conversion.max)
                   [] conversion.kind = "data"    -> Hex(conversion.text)
                   [] conversion.kind = "uuid"    -> UUIDText(conversion.text)
                   [] conversion.kind = "bytes"   -> Copy8Bit(conversion.text, Len(conversion.text), conversion.max)
                   [] conversion.kind = "queue"   -> QueueName(conversion.text, conversion.max)
                   [] conversion.kind = "tagged"  ->
                        ExtractTaggedNSString(Len(conversion.text), Packed(conversion.text), conversion.max)
                   [] conversion.kind = "pointer" ->
                        <<ExtractTaggedNSNumber(NumberPointer(conversion.text[1], conversion.max))>>
    /\ UNCHANGED conversion

Spec == Init /\ [][Convert]_vars

-----------------------------------------------------------------------------
(* Properties.                                                             *)

IsPlain(s) == \A i \in DOMAIN s : s[i] >= 32 \/ s[i] \in DOMAIN Escapes

\* The characters a text stands for, a pair of surrogates for one above 65535.
RECURSIVE Meant(_)
Meant(s) ==
    IF s = <<>> THEN <<>>
    ELSE IF s[1] # Backslash THEN <<s[1]>> \o Meant(Tail(s))
    ELSE IF s[2] # LetterU THEN <<CHOOSE c \in DOMAIN Escapes : Escapes[c] = s[2]>> \o Meant(SubSeq(s, 3, Len(s)))
    ELSE IF IsLead(Hex4(s, 3))
         THEN <<65536 + (Hex4(s, 3) - 55296) * 1024 + Hex4(s, 9) - 56320>> \o Meant(SubSeq(s, 13, Len(s)))
    ELSE <<Hex4(s, 3)>> \o Meant(SubSeq(s, 7, Len(s)))

\* The characters of what was read, each as its bytes.
ReadCharacters(bytes) ==
    LET starts == SetToSortSeq({i \in DOMAIN bytes : ~IsContinuation(bytes[i])}, <)
    IN [k \in DOMAIN starts |->
           SubSeq(bytes, starts[k], IF k = Len(starts) THEN Len(bytes) ELSE starts[k + 1] - 1)]

\* A string that is written to a report is read back as it was if the reader has room
\* for its escaped form, whichever characters stand at the ends of the portions it is
\* written in, and no portion is more than the work buffer holds; of a string with a
\* control character that has no escape a beginning is read.  A text of any writer
\* is read as the characters it stands for, one for one, but for those above 65535
\* that it has as a pair of surrogates: each of them is read as one character, which is
\* another one, since 65536 is not added (GrowingCrashJSONCodec.c:890).  This encoder
\* writes no such pairs (addEscapedString, decodeString).
StringsSurvive ==
    /\ done /\ conversion.kind = "decode" /\ result # Error =>
          LET meant == Meant(SubSeq(conversion.text, 2, Len(conversion.text) - 1))
              read == ReadCharacters(result)
          IN /\ Len(read) = Len(meant)
             /\ \A i \in DOMAIN meant : meant[i] <= 65535 => read[i] = UTF8(meant[i])
    /\ done /\ conversion.kind = "quote" =>
        /\ \A i \in DOMAIN Buffers(conversion.text) : Len(Buffers(conversion.text)[i]) <= WorkBufferSize
        /\ \A room \in {NameBuffer(conversion.max), ValueBuffer(conversion.max)} :
              LET read == DecodeString(result, room)
              IN IF Len(result) - 2 >= room THEN read = Error
                 ELSE IF IsPlain(conversion.text) THEN read = conversion.text ELSE IsPrefix(read, conversion.text)

\* A number of a text is read as the number it is, in any number of digits: exactly
\* while it is a signed one, as the one with the same bits while it is an unsigned
\* one, and as a floating point number from there on; what is cut off is not read as
\* a smaller number (decodeElement).
NumbersAreRead ==
    done /\ conversion.kind = "number" =>
        LET text == conversion.text
            sign == IF text # <<>> /\ text[1] = Dash THEN -1 ELSE 1
            body == IF sign = -1 THEN Tail(text) ELSE text
            ends == {k \in DOMAIN body : ~IsDigit(body[k])}
            digits == SubSeq(body, 1, Min(ends \cup {Len(body) + 1}) - 1)
            n == sign * FoldLeft(LAMBDA v, c : 10 * v + c - Zero, 0, digits)
            isWhole == digits # <<>> /\ ends # {} /\ ~IsFPChar(body[Min(ends)])
        IN /\ isWhole /\ n \in -((Limit + 1) \div 2) .. Limit =>
                /\ Len(result) = 2 /\ result[1] = 1 /\ (result[2] - n) % (Limit + 1) = 0
                /\ n <= Limit \div 2 => result[2] = n
           /\ isWhole /\ n \notin -((Limit + 1) \div 2) .. Limit =>
                result = IF Len(digits) < conversion.max THEN <<2, sign>> \o digits ELSE Error
           /\ ~isWhole => result = Error \/ (result[1] = 2 /\ IsStrictPrefix(SubSeq(result, 3, Len(result)), body))

\* The bytes of data and of an identifier can be read from their text, which has four
\* dashes if it is an identifier (appendDataElement, addUUIDElement).
BytesComeBack ==
    done /\ conversion.kind \in {"data", "uuid"} =>
        LET digits == SelectSeq(result, IsHex)
        IN /\ conversion.text = [i \in 1 .. Len(digits) \div 2 |->
                                    HexValue(digits[2 * i - 1]) * 16 + HexValue(digits[2 * i])]
           /\ {i \in DOMAIN result : ~IsHex(result[i])} = IF conversion.kind = "uuid" THEN {9, 14, 19, 24} ELSE {}

\* A string or a number that is in a pointer is the one that was put there, negative
\* or not, and a string that does not fit is cut (extractTaggedNSString,
\* extractTaggedNSNumber, copy8BitString), as is the label of a queue, if it has one
\* that can be shown (growingcrashthread_getQueueName).
PointersAreRead ==
    /\ done /\ conversion.kind = "queue" /\ result # Error =>
          /\ IsPrefix(result, conversion.text) /\ ToSet(conversion.text) \subseteq 32 .. 126
          /\ Len(result) = Min({Len(conversion.text), conversion.max - 1})
    /\ done /\ conversion.kind \in {"tagged", "bytes"} =>
          /\ IsPrefix(result, conversion.text)
          /\ Len(result) = Min({Len(conversion.text), conversion.max - 1})
    /\ done /\ conversion.kind = "pointer" => result = conversion.text

Fits(bytes, max) == Len(bytes) < max

\* What is made of a string of an object is what it says, as much of it as fits,
\* with no character cut in two; a string that is no UTF-16 gives a beginning or
\* nothing, and the buffer is never overrun (copyAndConvertUTF16StringToUTF8).
WholeCharacters ==
    done /\ conversion.kind = "utf16" =>
        LET count == Len(conversion.text) - 1
            Starts[i \in 1 .. count + 2] ==
                IF i > count THEN <<>> ELSE <<i>> \o Starts[i + Character(conversion.text, i).units]
            codes == [k \in DOMAIN Starts[1] |-> Character(conversion.text, Starts[1][k]).code]
            Text(k) == FlattenSeq([i \in 1 .. k |-> UTF8(codes[i])])
        IN /\ Fits(result, conversion.max)
           /\ -1 \notin Range(codes) =>
                 \E k \in 0 .. Len(codes) : /\ result = Text(k)
                                            /\ k < Len(codes) => ~Fits(Text(k + 1), conversion.max)

\* Memory is taken for a text exactly if it is one: characters of the right number of
\* bytes, all within the memory that was copied, to a zero that is not too early
\* (isNullTerminatedUTF8String).
TextsAreRecognized ==
    done /\ conversion.kind = "string" =>
        LET zeros == {i \in DOMAIN conversion.text : conversion.text[i] = 0}
            end == CHOOSE i \in zeros : \A j \in zeros : i <= j
            IsStart(i) == ~IsContinuation(conversion.text[i])
            Follows(i) == Cardinality({j \in i + 1 .. end - 1 : \A k \in i + 1 .. j : ~IsStart(k)})
        IN (result = <<1>>) <=>
              /\ zeros # {} /\ end - 1 >= conversion.max
              /\ end > 1 => IsStart(1)
              /\ \A i \in 1 .. end - 1 : IsStart(i) =>
                    IF conversion.text[i] < 128 THEN IsPrintable(conversion.text[i]) /\ Follows(i) = 0
                    ELSE ContinuationBytes(conversion.text[i]) > 0 /\ Follows(i) = ContinuationBytes(conversion.text[i])

\* The address a message names is the first number in it that is written with 0x,
\* to its last digit (extractHexValue).
AddressesAreFound ==
    done /\ conversion.kind = "address" =>
        LET IsNumber(i, k) == /\ k <= Len(conversion.text) /\ i + 2 <= k
                              /\ SubSeq(conversion.text, i, i + 1) = <<Zero, LetterX>>
                              /\ \A j \in i + 2 .. k : IsHex(conversion.text[j])
            numbers == {i \in DOMAIN conversion.text : IsNumber(i, i + 2)}
            i == CHOOSE n \in numbers : \A m \in numbers : n <= m
            last == CHOOSE k \in DOMAIN conversion.text : IsNumber(i, k) /\ ~IsNumber(i, k + 1)
            Digit(d) == IF last - d < i + 2 THEN 0 ELSE HexValue(conversion.text[last - d]) * 16 ^ d
        IN result = IF numbers = {} THEN Error ELSE <<Digit(0) + Digit(1) + Digit(2)>>

\* A name that is UTF-8 comes back from the Punycode of a symbol as it was, mapped or
\* not, and its Punycode is made of symbol characters if it was mapped; and whatever
\* the digits of a damaged one are, its basic characters stay as they were, in their
\* order, and what is inserted between them is not basic (encodePunycode,
\* decodePunycode).
NamesComeBack ==
    /\ done /\ conversion.kind = "name" /\ result # NoText =>
        /\ DecodePunycodeUTF8(result) = conversion.text
        /\ conversion.max = 1 => \A i \in DOMAIN result : IsValidSymbolChar(result[i])
    /\ done /\ conversion.kind = "name" =>
        (result = NoText) = ~IsUTF8String(Append(conversion.text, 0), 0)
    /\ done /\ conversion.kind = "digits" =>
        LET basic == SubSeq(conversion.text, 1, SelectLastInSeq(conversion.text, LAMBDA c : c = Delimiter) - 1)
        IN Max(Range(basic) \cup {0}) < 128 => SelectSeq(result, LAMBDA c : c < 128) = basic

\* What lies in memory is told right.
MemoryIsReadRight == WholeCharacters /\ TextsAreRecognized /\ AddressesAreFound /\ PointersAreRead
=============================================================================
