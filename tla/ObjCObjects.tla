----------------------------- MODULE ObjCObjects -----------------------------
(***************************************************************************)
(* What GrowingCrashObjC.c reads of the memory of a crashed program, where any *)
(* word may be anything: is there an object at this address, of which class,   *)
(* and what is in it.  GrowingCrashMemory.c reads safely, asking the kernel;     *)
(* what was found readable, and a valid structure, is then read directly, and   *)
(* a direct read of an address that is not mapped is a crash of the handler.    *)
(*                                                                         *)
(* mem maps each mapped address to a word.  A word is a number: an address, a  *)
(* count, or a character.  A check is "yes", "no", or what was read directly     *)
(* when nothing is there.                                                   *)
(***************************************************************************)
EXTENDS Integers, Sequences, FiniteSets, FiniteSetsExt

CONSTANTS
    NameMax,        \* kMaxNameLength: 128 in the code
    IvarMax,        \* ivars that are written of an object: 10 in the code
    Depth,          \* kDefaultMemorySearchDepth
    Restricts,      \* whether there are restricted classes
    Images,         \* memories with objects in them
    Values,         \* what any of their words may be instead
    Objects         \* addresses that are asked for

VARIABLES
    mem,            \* the memory
    asked,          \* who asks ("report" or "zombie") and of which address
    found           \* the answer

vars == <<mem, asked, found>>

\* Characters; the ones that start a name are names of one letter.
Symbol == 800      \* of types only
Digit  == 900      \* not at the start of a name
Block == 1001
CFString == 1002
URL == 1003
Date == 1004
ArrayI == 1005
ArrayM == 1006
CFArray == 1007
Number == 1008
IsNameStart(w) == w >= 1000
IsNameChar(w) == w >= 900
IsTypeChar(w) == w >= 800

\* A check that is made only if the ones before it have passed.
a \sqcap b == IF a = "yes" THEN b ELSE a
Is(condition) == IF condition THEN "yes" ELSE "no"

-----------------------------------------------------------------------------
(* GrowingCrashMemory.c.                                                    *)

IsMapped(a, n) == a .. a + n - 1 \subseteq DOMAIN mem

\* copySafely, isMemoryReadable: all of it or nothing.
Safe(a, n) == Is(IsMapped(a, n))
Raw(a, n, what) == IF IsMapped(a, n) THEN "yes" ELSE what

\* copyMaxPossible: try all, halve what is tried when it fails, and never try
\* again what failed.  The copy is at src, tries to end, and max is the limit.
CopyMaxPossible(start, n) ==
    LET Copied[src \in start .. start + n, end \in start .. start + n, max \in start .. start + n] ==
            LET length == end - src
            IN IF length <= 0 THEN src - start
               ELSE IF IsMapped(src, length) THEN Copied[end, end + (max - end) \div 2, max]
               ELSE IF length <= 1 THEN src - start
               ELSE Copied[src, src + length \div 2, end]
    IN IF ~IsMapped(start, 1) THEN 0 ELSE Copied[start, start + n, start + n]

-----------------------------------------------------------------------------
(* Validation.                                                             *)

IsValidName(name) ==
    LET n == CopyMaxPossible(name, NameMax)
        ends == {i \in 1 .. n - 1 : ~IsNameChar(mem[name + i])}
    IN Is(n > 0 /\ IsNameStart(mem[name]) /\ ends # {} /\ mem[name + Min(ends)] = 0)

IsValidIvarType(type) ==
    LET n == CopyMaxPossible(type, NameMax)
    IN Is(n > 0 /\ IsTypeChar(mem[type]) /\ \E i \in 0 .. n - 1 : mem[type + i] = 0)

\* class_t: isa, superclass, cache, vtable, data.  data leads to class_rw_t, and
\* that, perhaps over class_rw_ext_t, to class_ro_t: flags, name, ivars.
Isa(o) == mem[o]
Superclass(c) == mem[c + 1]
RW(c) == mem[c + 4]
IsExt(c) == mem[RW(c)] \in 500 .. 799
Ext(c) == mem[RW(c)] - 500
RO(c) == IF IsExt(c) THEN mem[Ext(c)] ELSE mem[RW(c)]
IsMetaClass(c) == mem[RO(c)] % 2 = 1
IsRootClass(c) == (mem[RO(c)] \div 2) % 2 = 1
Name(c) == mem[RO(c) + 1]
IvarList(c) == mem[RO(c) + 2]

ContainsValidExtData(c) == IF IsExt(c) THEN Safe(Ext(c), 1) ELSE "yes"

ContainsValidROData(c) ==
    Safe(c, 5) \sqcap Safe(RW(c), 1) \sqcap ContainsValidExtData(c) \sqcap Safe(RO(c), 3)

\* ivar_list_t: entsize, count, and the first of the ivars, each of them offset,
\* name, type and size.  The check begins at the second one.
Size(list) == mem[list]
Count(list) == mem[list + 1]
IvarAt(list, i) == list + 2 + i * Size(list)

\* Mutant: the offset is taken as it is.
IsAlmostValidIvar(list, i) ==
    LET ivar == IvarAt(list, i)
    IN Safe(ivar, 4) \sqcap Safe(ivar, Size(list))
         \sqcap IsValidName(mem[ivar + 1]) \sqcap IsValidIvarType(mem[ivar + 2])

IsValidIvar(list, i) ==
    LET ivar == IvarAt(list, i)
    IN Safe(ivar, 4) \sqcap Safe(ivar, Size(list)) \sqcap Safe(mem[ivar], 1)
         \sqcap IsValidName(mem[ivar + 1]) \sqcap IsValidIvarType(mem[ivar + 2])

ContainsValidIvarData(c) ==
    LET list == IvarList(c)
    IN IF list = 0 THEN "yes"
       ELSE Safe(list, 6) \sqcap Is(\A i \in 1 .. Count(list) - 1 : IsValidIvar(list, i) = "yes")

IsValidClass(c) ==
    Safe(c, 5) \sqcap ContainsValidROData(c) \sqcap IsValidName(Name(c)) \sqcap ContainsValidIvarData(c)

\* Tagged pointers are no addresses; each slot is of one class, if of any.
IsTagged(p) == p >= 2000
Slot(p) == p % 8
TaggedClass == [s \in 0 .. 7 |-> CASE s = 2 -> CFString [] s = 3 -> Number [] s = 6 -> Date [] OTHER -> 0]
IsValidTagged(p) == TaggedClass[Slot(p)] # 0

IsValidObject(o) ==
    IF IsTagged(o) THEN Is(IsValidTagged(o))
    ELSE Safe(o, 5) \sqcap Safe(Isa(o), 5) \sqcap IsValidClass(Isa(o))

-----------------------------------------------------------------------------
(* Queries.                                                                *)

\* strlen of a name, and strcmp with a name of one letter.
RawString(name, what) ==
    IF \E n \in 0 .. NameMax : IsMapped(name, n + 1) /\ mem[name + n] = 0 THEN "yes" ELSE what
RawNamed(name, letter, what) ==
    Raw(name, 1, what) \sqcap Is(mem[name] = letter)
        \sqcap Raw(name + 1, 1, what) \sqcap Is(mem[name + 1] = 0)

\* baseClass: the class below the root, or NULL.
RECURSIVE BaseClass(_, _, _)
BaseClass(super, sub, n) ==
    IF n = 0 THEN 0
    ELSE IF IsRootClass(super) THEN sub
    ELSE IF ContainsValidROData(Superclass(super)) # "yes" THEN 0
    ELSE BaseClass(Superclass(super), super, n - 1)

IsBlockClass(c) ==
    LET base == BaseClass(c, c, 20)
    IN IF base = 0 \/ Name(base) = 0 THEN "no" ELSE RawNamed(Name(base), Block, "name of a base class")

\* objectType: an object must look like a class itself.
ObjectType(o) ==
    IF o = 0 THEN "unknown"
    ELSE IF IsTagged(o) THEN "object"
    ELSE IF IsValidObject(o) = "no" \/ IsValidClass(o) = "no" THEN "unknown"
    ELSE LET block == IsBlockClass(Isa(o))
         IN CASE block = "yes" -> "block"
              [] block # "no"  -> block
              [] OTHER -> IF IsMetaClass(Isa(o)) THEN "class" ELSE "object"

\* g_classData: the classes whose objects are known.
KnownClasses == {CFString, ArrayI, ArrayM, CFArray, Date, Number, URL}

\* getClassDataFromObject
ClassData(o) ==
    IF IsTagged(o) THEN TaggedClass[Slot(o)]
    ELSE LET name == Name(Isa(o))
         IN IF mem[name + 1] = 0 /\ mem[name] \in KnownClasses THEN mem[name] ELSE 0

\* A string: isa, information, then in line the length and the text, or a
\* pointer to the text and the length.  A text with a length byte has no other.
Bit(w, i) == (w \div (2 ^ i)) % 2 = 1
IsUnicode(s) == Bit(mem[s + 1], 0)
HasLengthByte(s) == Bit(mem[s + 1], 1)
IsInline(s) == Bit(mem[s + 1], 2)
IsMutable(s) == Bit(mem[s + 1], 3)
HasExplicitLength(s) == IsMutable(s) \/ ~HasLengthByte(s)
Contents(s) == IF IsInline(s) THEN (IF HasExplicitLength(s) THEN s + 3 ELSE s + 2) ELSE mem[s + 2]
StringStart(s) == Contents(s) + IF HasLengthByte(s) THEN 1 ELSE 0

\* stringIsValid: the place of the length, and of the first character.
StringIsValid(s) ==
    LET Valid(length) == Is(length >= 0) \sqcap (IF length > 0 THEN Safe(StringStart(s), 1) ELSE "yes")
    IN Safe(s, 2) \sqcap
       (IF IsInline(s) THEN Safe(s + 2, 1) \sqcap Valid(mem[s + 2])
        ELSE IF IsMutable(s) \/ ~HasLengthByte(s) THEN Safe(s + 2, 2) \sqcap Valid(mem[s + 3])
        ELSE Safe(s + 2, 1) \sqcap Safe(Contents(s), 1) \sqcap Valid(mem[Contents(s)]))

\* copyStringContents: a string in the pointer is read from it; else the length is
\* read directly, 8 bit text safely, UTF-16 directly.
StringLength(s) == IF ~HasExplicitLength(s) THEN mem[Contents(s)]
                   ELSE IF IsInline(s) THEN mem[s + 2] ELSE mem[s + 3]
CopyString(s) ==
    IF IsTagged(s) THEN (IF TaggedClass[Slot(s)] = CFString THEN "yes" ELSE "tagged pointer")
    ELSE (IF HasExplicitLength(s) THEN "yes" ELSE Raw(Contents(s), 1, "length byte"))
         \sqcap (IF IsUnicode(s) THEN Raw(StringStart(s), Min({StringLength(s), NameMax}), "UTF-16 text") ELSE "yes")

-----------------------------------------------------------------------------
(* Who asks.                                                               *)

RECURSIVE MemoryContents(_, _)

\* ivarList, ivarValue and writeUnknownObjectContents: the words an ivar leads to
\* are read directly; of a pointer the memory contents are written.
IvarContents(o, limit, i) ==
    LET list == IvarList(Isa(o))
        ivar == IvarAt(list, i)
        what == IF i = 0 THEN "first ivar" ELSE "ivar"
        value == o + mem[mem[ivar]]
    IN Raw(ivar, 4, what) \sqcap Raw(mem[ivar + 2], 1, what) \sqcap Raw(mem[ivar], 1, what)
       \sqcap RawString(mem[ivar + 1], what)
       \sqcap (IF mem[mem[ivar + 2]] = Symbol /\ Safe(value, 1) = "yes"
               THEN MemoryContents(mem[value], limit) ELSE "yes")

UnknownObjectContents(o, limit) ==
    LET list == IvarList(Isa(o))
        count == IF list = 0 THEN 0 ELSE Min({Count(list), IvarMax})
        results == {IvarContents(o, limit - 1 - count, i) : i \in 0 .. count - 1} \ {"yes"}
    IN IF IsTagged(o) \/ results = {} THEN "yes" ELSE CHOOSE r \in results : TRUE

\* arrayContents: nothing of a mutable array; the buckets of a CFArray follow it or,
\* in a deque, are found through words that nobody has looked at.
IsDeque(o) == Bit(mem[o + 1], 1)
Buckets(o) == IF IsDeque(o) THEN mem[o + 5] + 2 + mem[mem[o + 5]] ELSE o + 6
ArrayContents(o, limit) ==
    LET Entry(first) == IF Safe(first, 1) = "yes" THEN MemoryContents(mem[first], limit) ELSE "yes"
    IN CASE limit <= 0 \/ ClassData(o) = ArrayM -> "yes"
         [] ClassData(o) = ArrayI -> IF mem[o + 1] > 0 THEN Entry(o + 2) ELSE "yes"
         [] OTHER -> IF mem[o + 2] <= 0 THEN "yes"
                     ELSE (IF IsDeque(o) THEN Raw(o + 5, 1, "store of an array") \sqcap Raw(mem[o + 5], 1, "store of an array")
                           ELSE "yes") \sqcap Entry(Buckets(o))

\* dateContents, and numberAsFloat with the type that CoreFoundation tells: in the
\* pointer, or behind isa.
DateContents(o) == IF IsValidTagged(o) /\ IsTagged(o) THEN "yes" ELSE Raw(o + 1, 1, "time of a date")
NumberContents(o) == IF IsValidTagged(o) /\ IsTagged(o) THEN "yes" ELSE Raw(o + 1, 2, "number")

\* writeObjCObject for an object; a URL is read as if it were a string.
ObjectContents(o, limit) ==
    CASE ClassData(o) \in {CFString, URL} -> CopyString(o)
      [] ClassData(o) \in {ArrayI, ArrayM, CFArray} -> ArrayContents(o, limit)
      [] ClassData(o) = Date -> DateContents(o)
      [] ClassData(o) = Number -> NumberContents(o)
      [] OTHER -> IF limit > 0 THEN UnknownObjectContents(o, limit) ELSE "yes"

\* objectClassName and isRestrictedClass: a tagged pointer of no class has no name.
ClassName(o) ==
    IF ~IsTagged(o) THEN RawString(Name(Isa(o)), "class name")
    ELSE IF IsValidTagged(o) \/ ~Restricts THEN "yes" ELSE "name of a tagged pointer"

\* writeMemoryContents
MemoryContents(a, limit) ==
    LET type == ObjectType(a)
    IN CASE type = "unknown" -> "yes"
         [] type = "class"   -> RawString(Name(a), "class name")
         [] type = "block"   -> ClassName(a)
         [] type = "object"  -> ClassName(a) \sqcap ObjectContents(a, limit - 1)
         [] OTHER -> type

\* isNotableAddress
Report(a) == IF a = 0 \/ (IsTagged(a) /\ ~IsValidTagged(a)) THEN "no" ELSE MemoryContents(a, Depth)

\* growingcrashobjc_isValidObject asks the class, which looks at what it reads itself:
\* five words of any object have been found readable, six are of a CFArray.
DataIsValid(o) ==
    CASE IsTagged(o) -> "yes"
      [] ~IsTagged(o) /\ ClassData(o) = CFString -> StringIsValid(o)
      [] ~IsTagged(o) /\ ClassData(o) = URL -> StringIsValid(mem[o + 3])
      [] ~IsTagged(o) /\ ClassData(o) = CFArray ->
            Safe(o, 6) \sqcap (IF IsDeque(o) /\ mem[o + 5] # 0 THEN Safe(mem[o + 5], 2) ELSE "yes")
      [] OTHER -> "yes"

\* copyStringIvar of the zombie monitor: a valid object is read as a string, whatever
\* its class is.
Zombie(a) == IsValidObject(a) \sqcap DataIsValid(a) \sqcap CopyString(a)

\* One word is anything, or some words in a row are not mapped.
Damaged(image) == {[image EXCEPT ![a] = w] : a \in DOMAIN image, w \in Values}
             \cup {[a \in DOMAIN image \ (k .. k + 3) |-> image[a]] : k \in DOMAIN image}

Init == /\ \E image \in Images : mem \in Damaged(image)
        /\ asked \in [by : {"report", "zombie"}, of : Objects]
        /\ found = "nothing"

Answer == /\ found = "nothing"
          /\ found' = IF asked.by = "report" THEN Report(asked.of) ELSE Zombie(asked.of)
          /\ UNCHANGED <<mem, asked>>

Spec == Init /\ [][Answer]_vars

-----------------------------------------------------------------------------
(* Properties.  What the code reads without a look (GrowingCrashObjC.c:603, 914,  *)
(* 1041-1099, 1510): the first ivar of a class, the name of a class above another, *)
(* the class name of a tagged pointer met in an object, the store of a CFArray,   *)
(* and the text of a string, which only the zombie monitor looks at, and only at  *)
(* its length and first character.  The zombie monitor asks whether the name or    *)
(* reason of an exception is a valid object, not whether it is a string            *)
(* (GrowingCrashMonitor_Zombie.c:93-95): of one that is none it reads a tagged       *)
(* pointer as an address, or a length byte where some word of it points.           *)
UncheckedOfReport ==
    {"first ivar", "name of a base class", "name of a tagged pointer",
     "store of an array", "length byte", "UTF-16 text"}
UncheckedOfZombie ==
    {"UTF-16 text"} \cup IF ClassData(asked.of) = CFString THEN {} ELSE {"length byte", "tagged pointer"}

\* Whatever a word of memory is, what is read of it directly has been found to be
\* mapped first, but for what is listed above: the report's handler crashes on a
\* damaged object at these six reads alone, and the zombie monitor at the text of a
\* UTF-16 string and at an object that is no string (growingcrashobjc_objectType,
\* isValidObject, copyStringContents, writeMemoryContents, copyStringIvar).
DirectReadsAreSafe ==
    CASE found \in {"nothing", "yes", "no"} -> TRUE
      [] asked.by = "report" -> found \in UncheckedOfReport
      [] asked.by = "zombie" -> found \in UncheckedOfZombie

\* A copy of as much as possible is what is mapped from its start, to its end or
\* the first gap (copyMaxPossible): a name is judged by all there is of it.
CopiesTheMost ==
    found # "nothing" =>
    LET readable == {n \in 0 .. NameMax : IsMapped(asked.of, n)}
    IN CopyMaxPossible(asked.of, NameMax) = Max(readable)
=============================================================================
