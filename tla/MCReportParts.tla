---------------------------- MODULE MCReportParts ----------------------------
(***************************************************************************)
(* What the texts of a report are made from, for TLC: objects in memory,          *)
(* characters, files, stacks, what is known of the device and the images, reports    *)
(* as trees, directories, symbols and the names in them, and user information.      *)
(* They share nothing and each behaviour is about one of them, so that their          *)
(* variables are the same here.                                               *)
(***************************************************************************)
EXTENDS Integers, FiniteSets, SequencesExt, TLC

CONSTANTS null, None, FileBuffer, Word

VARIABLES
    v1, v2, v3, v4, v5, v6, v7, v8     \* of the part that is checked

-----------------------------------------------------------------------------
(* An object at 10 of the class at 20, whose metaclass is at 40 and root class at  *)
(* 50: strings of every form, arrays, a block, and one of another class.          *)

Other == 1020
Words(a, words) == [i \in a .. a + Len(words) - 1 |-> words[i - a + 1]]
Image(class, info, data, super) ==
       Words(10, <<20, info, 84, 1, data, 88>>) @@ Words(20, <<40, super, 0, 0, 30>>)
    @@ Words(30, <<531, 32, 0, 60, 70>>)
    @@ Words(40, <<40, 50, 0, 0, 45, 46, 1, 60, 0>>) @@ Words(50, <<40, 0, 0, 0, 55, 56, 2, 62, 0>>)
    @@ Words(60, <<class, 0, Other, 0, Other, 900, 0, 800, 0>>)
    @@ Words(70, <<4, 2, 80, 64, 67, 1, 81, 64, 67, 1>>) @@ Words(80, <<1, 2>>)
    @@ Words(84, <<2, Other, Other>>) @@ Words(88, <<0, 2, 20>>)
BlockClass == 1001
StringClass == 1002
ArrayIClass == 1005
CFArrayClass == 1007
URLClass == 1003
DateClass == 1004
NumberClass == 1008
SomeImages == {Image(class, 0, 30, super) : class \in {Other, BlockClass, ArrayIClass}, super \in {50, 40, 0}}
    \cup {Image(StringClass, info, 30, 50) : info \in 0 .. 15}
    \cup {Image(CFArrayClass, info, 30, 50) : info \in {0, 2}}
    \cup {Image(StringClass, 0, 1, 50)} \cup {Image(class, 0, 30, 50) : class \in {DateClass, NumberClass, URLClass}}
SomeValues == {0, 1, 2, 3, 7, 10, 20, 30, 32, 46, 56, 60, 70, 85, 90, 92, 520, 531, 590,
               800, 900, Other, BlockClass, 2001, 2002}

Objects == INSTANCE ObjCObjects
    WITH NameMax <- 3, IvarMax <- 3, Depth <- 4, Restricts <- TRUE,
         Images <- SomeImages, Values <- SomeValues, Objects <- {10, 2006},
         mem <- v1, asked <- v2, found <- v3

-----------------------------------------------------------------------------
(* Texts of the characters that are treated differently: letters, the newline, the *)
(* quote, the backslash, a control character, \u sequences with surrogates, UTF-16  *)
(* units, bytes that begin and go on with UTF-8, addresses, and names of characters  *)
(* of one to four bytes, whole and cut.                                        *)

Strings(alphabet, n) == UNION {[1 .. k -> alphabet] : k \in 0 .. n}
U(a, b, c, d) == <<92, 117, a, b, c, d>>
Pieces == {U(48, 48, 101, 57), U(50, 48, 65, 67), U(100, 56, 51, 100), U(100, 101, 48, 48),
           <<92, 117, 48>>, <<92, 110>>, <<97>>}
Letters == {<<97>>, <<95>>, <<45>>, <<195, 169>>, <<226, 130, 172>>, <<240, 159, 152, 128>>}
SomeTexts ==
    [quote   |-> Strings({97, 110, 10, 34, 92, 1}, 5),
     decode  |-> {<<34>> \o a \o b \o c \o <<34>> : a \in Pieces, b \in Pieces, c \in Pieces},
     utf16   |-> Strings({65, 233, 8364, 55357, 56832}, 4) \ {<<>>},
     string  |-> Strings({0, 97, 1, 128, 195, 226, 254}, 5),
     address |-> Strings({48, 120, 53, 103}, 6),
     name    |-> LET names == {FlattenSeq(s) : s \in Strings(Letters, 4)}
                 IN names \cup {SubSeq(s, 2, Len(s) - 1) : s \in names},
     digits  |-> Strings({97, 74, 75, 95, 200}, 5),
     number  |-> {n \in Strings({45, 46, 50, 53, 54, 44}, 5) : n # <<>> /\ n[1] \notin {46, 44}},
     data    |-> Strings({0, 9, 171, 255}, 3),
     uuid    |-> {[i \in 1 .. 16 |-> (i * step + 7) % 256] : step \in 0 .. 17},
     bytes   |-> Strings({65, 233}, 4),
     queue   |-> {<<-1>>} \cup Strings({31, 32, 97, 126, 127}, 4),
     tagged  |-> Strings({101, 52}, 11) \cup Strings({88, 95, 50}, 7) \cup [1 .. 9 -> {88, 101}],
     pointer |-> {<<n>> : n \in -128 .. 127}]
SomeRooms == [quote |-> {4, 27}, decode |-> {40}, utf16 |-> 1 .. 8, string |-> {2}, address |-> {0},
              name |-> {0, 1}, digits |-> {0}, number |-> {3, 20}, data |-> {0}, uuid |-> {0},
              bytes |-> 1 .. 6, queue |-> 1 .. 6, tagged |-> {16, 200}, pointer |-> {0, 3}]

Coding == INSTANCE TextCoding
    WITH WorkBufferSize <- 4, HexWidth <- 3, Limit <- 255, PointerWidth <- 16, Texts <- SomeTexts, Rooms <- SomeRooms,
         conversion <- v1, done <- v2, result <- v3

-----------------------------------------------------------------------------
(* Files of up to five bytes, more than the buffers.                           *)

SomeFiles == UNION {[1 .. n -> {"a", "b", "newline", "end"}] : n \in 0 .. 5}

Buffers == INSTANCE FileBuffers
    WITH BufferLength <- 3, LineRoom <- 4, FormatBuffer <- 5, MaxLength <- 4, MaxBytes <- 7, Files <- SomeFiles,
         job <- v1, disk <- v2, given <- v3, buffer <- v4, state <- v5, at <- v6, line <- v7,
         lines <- v8

-----------------------------------------------------------------------------
(* Images: one with symbols, a stripped one, two without a link edit segment, of    *)
(* which one was moved and has other bytes for symbols, and one that is damaged;     *)
(* stacks of up to three functions, from their first instruction or later ones, in  *)
(* each state a prologue can leave them.                                       *)

Sym(value, name) == [value |-> value, name |-> name, debug |-> FALSE, stripped |-> FALSE]
App == [name |-> "app", slide |-> 100, valid |-> TRUE, linkedit |-> TRUE, base |-> 2,
        segments |-> {<<4, 32>>, <<40, 60>>},
        symbols |-> <<[Sym(4, "header") EXCEPT !.stripped = TRUE], Sym(20, "alias"), Sym(20, "work"),
                      Sym(8, "main"), [Sym(22, "line") EXCEPT !.debug = TRUE], Sym(0, "puts"), Sym(44, "data")>>]
Lib == [App EXCEPT !.name = "lib", !.slide = 200, !.base = 0, !.symbols = <<Head(App.symbols)>>]
Bare == [App EXCEPT !.name = "bare", !.slide = 300, !.linkedit = FALSE, !.base = 0,
             !.symbols = <<Sym(9, "other bytes"), [Sym(14, "more") EXCEPT !.debug = TRUE]>>]
Unmoved == [Bare EXCEPT !.name = "unmoved", !.slide = 0]
Damaged == [App EXCEPT !.name = "damaged", !.slide = 400, !.valid = FALSE]

Function(image, name, from, to) == [image |-> image, function |-> name, from |-> from, to |-> to]
Main == Function("app", "main", 108, 120)
Functions == {Function("app", "work", 120, 132), Main, Function("lib", null, 204, 232),
              Function("bare", null, 304, 332), Function("unmoved", null, 4, 30), Function("damaged", null, 404, 432)}
NullFunction == Function(null, null, 0, 0)
Call(f, site) == [image |-> f.image, function |-> f.function, site |-> site]
Returns(f) == {Call(f, f.from + 4), Call(f, f.to)}
AllReturns == UNION {Returns(f) : f \in Functions}
Chains == {<<c>> \o callers :
              c \in {Call(f, f.from) : f \in Functions \cup {NullFunction}} \cup {Call(f, f.from + 4) : f \in Functions},
              callers \in {<<>>} \cup {<<x>> : x \in AllReturns} \cup {<<x, y>> : x \in AllReturns, y \in Returns(Main)}}
IsFirst(call) == call.site = 0 \/ \E f \in Functions : call.site = f.from

\* Frames from 500 on, with signed return addresses or not.
Frames(calls, sign) == [a \in {500 + 2 * k : k \in DOMAIN calls} |->
    LET k == (a - 500) \div 2
    IN IF k = Len(calls) THEN [previous |-> 0, return |-> 0]
       ELSE [previous |-> a + 2, return |-> calls[k + 1].site + sign]]
Stopped(calls, processor, frame, lr, sign, damage) ==
    [calls |-> calls, frame |-> frame, first |-> IsFirst(calls[1]), damaged |-> damage # 0,
     sound |-> IF damage # 0 THEN 2 ELSE Len(calls), images |-> <<App, Damaged, Lib, Bare, Unmoved>>,
     machine |-> [processor |-> processor, pc |-> calls[1].site, lr |-> lr,
                  fp |-> IF frame THEN 502 ELSE IF Len(calls) > 1 THEN 504 ELSE 0,
                  memory |-> IF damage = 0 THEN Frames(calls, sign)
                             ELSE [Frames(calls, sign) EXCEPT ![502].previous = damage]]]
ReturnTo(calls, sign) == IF Len(calls) > 1 THEN calls[2].site + sign ELSE 0

\* With and without signatures; before the frame is there, and with it, the link
\* register as the call left it or of another call, and the stack perhaps damaged.
Builds == {<<"arm64", 0>>, <<"arm64", 1024>>, <<"arm", 0>>, <<"x86_64", 0>>, <<"i386", 0>>}
Conditions == {[frame |-> FALSE, stale |-> FALSE, damage |-> 0]}
                 \cup [frame : {TRUE}, stale : BOOLEAN, damage : {0, 502, 999}]
Condition(calls, build, is) ==
    Stopped(calls, build[1], is.frame, IF is.stale THEN 128 + build[2] ELSE ReturnTo(calls, build[2]),
            build[2], is.damage)
SomeSituations ==
    {x \in {Condition(calls, build, is) : calls \in Chains, build \in Builds, is \in Conditions} :
        x.frame => ~x.first}

Stacks == INSTANCE StackTraces
    WITH NoSymbol <- null, MaxDepth <- 4, AddressSpace <- 1024, Situations <- SomeSituations,
         situation <- v1, cursor <- v2, trace <- v3

-----------------------------------------------------------------------------
(* Devices: phones and a simulator, with values that cannot be read; images with   *)
(* a name in each other's path, a damaged header, and messages that end or not.    *)

Command(cmd, name, from, size, id) ==
    [cmd |-> cmd, name |-> name, from |-> from, size |-> size, uuid |-> id, version |-> 65536 + 515]
Message(readable, zero) == [readable |-> readable, zero |-> zero]
CrashInfoOf(size, version, message) ==
    [size |-> size, readable |-> size, version |-> version, message |-> message, message2 |-> None]
MachO(path, slide, id, info) ==
    [path |-> path, valid |-> TRUE, slide |-> slide, header |-> 4 + slide, info |-> info,
     commands |-> <<Command("LC_SEGMENT_64", "__PAGEZERO", 0, 4, None), Command("LC_SEGMENT_64", "__TEXT", 4, 16, None),
                    Command("LC_SEGMENT_64", "__DATA", 20, 8, None)>>
                  \o (IF id = None THEN <<>> ELSE <<Command("LC_UUID", None, 0, 0, id)>>)
                  \o <<Command("LC_ID_DYLIB", None, 0, 0, None)>>]
Hook == MachO(<<"usr", "MobileSubstrate">>, 300, "hook", None)
Images(info, valid, id) ==
    <<[MachO(<<"bundle", "App", "Lib">>, 100, "lib", info) EXCEPT !.valid = valid], MachO(<<"bundle", "App">>, 200, id, None)>>
SomeMachOs ==
    {Images(CrashInfoOf(12, 4, message), TRUE, "app") :
        message \in {None, Message(6, 6), Message(6, 9), Message(0, 1), Message(20, 15), Message(20, 0)}}
    \cup {Images(CrashInfoOf(size, version, Message(6, 6)), TRUE, None) : size \in {4, 12}, version \in {3, 4}}
    \cup {Images(None, FALSE, None), <<MachO(<<"bundle", "App">>, 0, "app", None), Hook>>}
Pages(free) == [free |-> free, active |-> 5 - free, inactive |-> 4, wire |-> 2]
Phone ==
    [sysctl |-> "hw.machine" :> "iPhone" @@ "hw.model" :> "D"
             @@ "hw.cputype" :> "CPU_TYPE_ARM64" @@ "hw.cpusubtype" :> "arm64e" @@ "kern.boottime" :> 7,
     simulator |-> FALSE, simulated |-> None, mac |-> FALSE, debug |-> FALSE, receipt |-> "receipt",
     receiptExists |-> TRUE, builtFor |-> "arm64", vendor |-> "vendor", bundleID |-> "id",
     executablePath |-> <<"bundle", "App">>, images |-> <<Hook>>,
     interface |-> None, storage |-> 64, pageSize |-> 4, pages |-> 12, stats |-> {Pages(2)}]
Unreadable == [Phone EXCEPT !.sysctl = [name \in DOMAIN Phone.sysctl |-> None], !.receipt = "sandboxReceipt", !.bundleID = None,
                    !.vendor = None, !.storage = None, !.stats = {None}]
Huge == [Phone EXCEPT !.pages = 20, !.stats = {[Pages(5) EXCEPT !.inactive = 12]}]
Simulator == [Phone EXCEPT !.simulator = TRUE, !.simulated = "iPad", !.sysctl["hw.cputype"] = "CPU_TYPE_X86_64"]
SomeDevices ==
    {[Phone EXCEPT !.images = images] : images \in SomeMachOs}
    \cup {Unreadable, [Unreadable EXCEPT !.mac = TRUE, !.debug = TRUE, !.interface = "ab12cd"], Simulator, Huge,
          [Phone EXCEPT !.receiptExists = FALSE, !.stats = {Pages(0), Pages(5), None}]}

System == INSTANCE SystemInfo
    WITH Devices <- SomeDevices, MaxToggles <- 3, MaxReports <- 1, MinimalSize <- 12, TestBuffer <- 10, PageWord <- 16,
         device <- v1, systemData <- v2, isEnabled <- v3, isInitialized <- v4, setter <- v5,
         toggles <- v6, reports <- v7, report <- v8

-----------------------------------------------------------------------------
(* Reports with arrays and objects in each other, the inner ones mutable or not,    *)
(* and keys of every kind: empty, numbers with something behind, a negative one.    *)

Value(v) == [kind |-> "value", value |-> v]
ObjectOf(members, mutable) == [kind |-> "object", mutable |-> mutable, members |-> members]
ArrayOf(items, mutable) == [kind |-> "array", mutable |-> mutable, items |-> items]
SomeReports ==
    {ObjectOf("a" :> ArrayOf(<<Value("x"), ObjectOf("a" :> Value("y"), inner)>>, outer) @@ "1" :> Value("z"), TRUE) :
        <<inner, outer>> \in {<<TRUE, TRUE>>, <<FALSE, TRUE>>, <<TRUE, FALSE>>}}
    \cup {ObjectOf("" :> Value("v") @@ "a" :> ObjectOf("a" :> ArrayOf(<<>>, TRUE), TRUE), outer) : outer \in BOOLEAN}
SomeKeys == {"", "1", "1x", "a", "-1", "@1"}
KeyPaths == Strings(SomeKeys, 2) \cup {<<"a", k, "a">> : k \in SomeKeys} \cup {<<"", "", "a">>, <<"a", "1", "a", "1">>}

Contents == INSTANCE ReportContainers
    WITH Numbers <- {"@1"}, Digits <- {"1", "1x"},
         IntValue <- [k \in SomeKeys |-> CASE k \in {"1", "1x", "@1"} -> 1 [] k = "-1" -> -1 [] OTHER -> 0],
         Containers <- SomeReports, Contained <- {Value("n"), ArrayOf(<<Value("n")>>, TRUE)},
         Paths <- KeyPaths, MaxCalls <- 2,
         FilterPaths <- {<<"">>, <<"", "a", "">>, <<"a", "1x">>, <<"a", "1", "a">>, <<"@1">>},
         container <- v1, before <- v2, change <- v3, filtering <- v4, changes <- v5

-----------------------------------------------------------------------------
(* A directory with a directory, files and others, a file outside of it, and one     *)
(* that is in the way of a path.                                              *)

Root == <<>> :> "dir" @@ <<"d">> :> "dir" @@ <<"o">> :> "file"
Entry(path, kind) == IF kind = "none" THEN <<>> ELSE path :> kind
SomeTrees ==
    {Root @@ Entry(<<"d", "a">>, kind) @@ Entry(<<"d", "b">>, b) : kind \in {"none", "file", "other"}, b \in {"none", "file"}}
    \cup {Root @@ Entry(<<"d", "a">>, "dir") @@ Entry(<<"d", "a", "b">>, b) @@ Entry(<<"d", "b">>, c) :
            b \in {"none", "file", "other", "dir"}, c \in {"none", "file"}}

Directories == INSTANCE FileTree
    WITH Trees <- SomeTrees, Deletable <- {<<"d">>, <<"d", "..">>, <<"o">>, <<"x">>},
         Makeable <- {<<"d", "n", "c">>, <<"d", "a", "b">>, <<"o", "c">>},
         Creatable <- {<<"d", "n">>, <<"d", "a", "n">>}, MaxCreated <- 2,
         origin <- v1, tree <- v2, task <- v3, target <- v4, frames <- v5, prefix <- v6,
         outcome <- v7, created <- v8

-----------------------------------------------------------------------------
(* Names of Swift whose words stand in each other, that repeat a word, end with one,  *)
(* are no symbol characters, or stand for an operator; symbols with such names; and      *)
(* dictionaries with members of each kind.                                                             *)

SomeNames == {<<97, 98, 67, 100>>, <<67, 100, 97, 98>>, <<101, 70, 101, 70>>, <<103, 67, 100, 95, 103>>,
              <<112>>, <<95, 45>>, <<69, 102, 49, 67, 100, 71, 104>>}

Symbols == INSTANCE SwiftNames
    WITH MaxNumWords <- 3, MaxRepeatCount <- 2, OneLetter <- 2, Names <- SomeNames,
         Operators <- {<<105, 43>>, <<80, 46, 226, 128, 162>>}, Standard <- {97, 83}, MaxItems <- 4,
         items <- v1, mangler <- v2, demangler <- v3

Swift == INSTANCE MCSwiftSymbols
Grammar == INSTANCE SwiftSymbols
    WITH SymbolTrees <- Swift!SomeSymbols, SymbolNames <- Swift!SomeSymbolNames,
         tree <- v1, mangled <- v2, reader <- v3

Leaf(class, value) == [class |-> class, value |-> value, members |-> <<>>]
Collection(class, members) == [Leaf(class, <<"none", "">>) EXCEPT !.members = members]
Member(key, value) == [key |-> key, value |-> value]
Few == {Leaf("integer", 5), Leaf("null", ""), Leaf("nan", ""), Leaf("other", "")}
SomeLeaves == {Leaf("integer", Word - 1), Leaf("whole", 3), Leaf("fraction", "half"), Leaf("nan", ""),
               Leaf("char", 65), Leaf("null", ""), Leaf("data", "0a"), Leaf("other", ""), Leaf("string", "text")}
SomeCollections == {Collection("array", <<Member("", x), Member("", y)>>) : x \in Few, y \in Few}
                       \cup {Collection("dictionary", m) : m \in {<<>>} \cup {<<Member("a", x)>> : x \in Few}}
SomeInfos == {Collection("dictionary", <<Member("b", x), Member(key, y)>>) :
                 x \in SomeLeaves \cup SomeCollections, y \in Few, key \in {"a", "@count"}}
             \cup {Collection("dictionary", <<Member(key, Leaf("integer", 5))>>) : key \in {"", "@count", "@other"}}

Info == INSTANCE UserInfo
    WITH Dictionaries <- SomeInfos, MaxSets <- 2,
         Rank <- ("" :> 1 @@ "@count" :> 2 @@ "@other" :> 3 @@ "a" :> 4 @@ "b" :> 5),
         userInfo <- v1, userInfoJSON <- v2, sets <- v3

-----------------------------------------------------------------------------
Parts == {"objects", "coding", "buffers", "stacks", "system", "containers", "trees",
          "names", "symbols", "info"}

from4 == <<v4, v5, v6, v7, v8>>
from6 == <<v6, v7, v8>>
Rest6 == v6 = None /\ v7 = None /\ v8 = None
Rest4 == v4 = None /\ v5 = None /\ Rest6

\* None of them, or one from its initial states,
Begin(part) ==
    \/ part \notin Parts /\ v1 = None /\ v2 = None /\ v3 = None /\ Rest4
    \/ part = "objects" /\ Objects!Init /\ Rest4
    \/ part = "coding" /\ Coding!Init /\ Rest4
    \/ part = "stacks" /\ Stacks!Init /\ Rest4
    \/ part = "names" /\ Symbols!Init /\ Rest4
    \/ part = "symbols" /\ Grammar!Init /\ Rest4
    \/ part = "info" /\ Info!Init /\ Rest4
    \/ part = "containers" /\ Contents!Init /\ Rest6
    \/ part = "buffers" /\ Buffers!Init
    \/ part = "system" /\ System!Init
    \/ part = "trees" /\ Directories!Init

\* and its steps.
Go(part) ==
    \/ part = "objects" /\ Objects!Answer /\ UNCHANGED from4
    \/ part = "coding" /\ Coding!Convert /\ UNCHANGED from4
    \/ part = "stacks" /\ Stacks!Next /\ UNCHANGED from4
    \/ part = "names" /\ Symbols!Next /\ UNCHANGED from4
    \/ part = "symbols" /\ Grammar!Next /\ UNCHANGED from4
    \/ part = "info" /\ Info!Next /\ UNCHANGED from4
    \/ part = "containers" /\ Contents!Next /\ UNCHANGED from6
    \/ part = "buffers" /\ Buffers!Next
    \/ part = "system" /\ System!Next
    \/ part = "trees" /\ Directories!Next
=============================================================================
