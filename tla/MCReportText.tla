---------------------------- MODULE MCReportText ----------------------------
(***************************************************************************)
(* Crashes, settings and a memory for TLC.                                    *)
(***************************************************************************)
EXTENDS ReportText

CONSTANTS null

VARIABLES
    part,          \* "text", or one of what the texts are made from: see MCReportParts
    v1, v2, v3, v4, v5, v6, v7, v8     \* the variables of that one

High == Word - 8      \* an address with its highest bit set

\* The memory: nothing at 1, a text, a string object, an array of itself, an object
\* that refers to it and to itself, one that was deallocated, one of a class that
\* is not introspected, and a text at High, too near the last address to be one.
Nothing == [valid |-> TRUE, is |-> "unknown", class |-> null, kind |-> "other", text |-> null,
            number |-> 0, first |-> null, ivars |-> <<>>, zombie |-> null, hex |-> "none"]
Ivar(name, points, value) == [name |-> name, points |-> points, value |-> value]
AnObject == [Nothing EXCEPT !.is = "objc_object"]
Addresses == (0 .. 8) \cup {High}
MCMemory == [a \in Addresses |->
    CASE a = 2 -> [Nothing EXCEPT !.text = "autorelease pool page corrupted"]
      [] a = 3 -> [AnObject EXCEPT !.class = "NSString", !.kind = "string", !.text = "hello"]
      [] a = 4 -> [AnObject EXCEPT !.class = "NSArray", !.kind = "array", !.first = 4]
      [] a = 5 -> [AnObject EXCEPT !.class = "Node", !.hex = "reason 0x5",
                       !.ivars = <<Ivar("array", TRUE, 4), Ivar("next", TRUE, 5), Ivar("n", FALSE, 7)>>]
      [] a = 6 -> [Nothing EXCEPT !.zombie = "Gone"]
      [] a = 7 -> [AnObject EXCEPT !.class = "Secret", !.ivars = <<Ivar("next", TRUE, 5)>>]
      [] a = High -> [Nothing EXCEPT !.text = "autorelease pool page corrupted"]
      [] a = 8 -> [Nothing EXCEPT !.is = "objc_class", !.class = "Node"]
      [] OTHER -> Nothing]

MCDemangled == "_ZN4work3runEv" :> "work::run()"

-----------------------------------------------------------------------------
Frame(symbol, image) == [symbol |-> symbol, image |-> image]
Ours == Frame("_ZN4work3runEv", "app")
Stack(top) == <<top, Ours>>
FirstRegister == "armv7" :> "r0" @@ "arm64" :> "x0" @@ "x86_64" :> "rdi" @@ "i386" :> "edi"

Crash == [by |-> "mach", exception |-> null, code |-> null, signal |-> null, address |-> 0,
          name |-> null, reason |-> null, snapshot |-> FALSE, thread |-> 1, stack |-> <<Ours>>,
          registers |-> <<>>, words |-> <<>>, trace |-> <<>>, cause |-> null]
Mach(exception, code, address, cause) ==
    [Crash EXCEPT !.exception = exception, !.code = code, !.address = address, !.cause = cause]
Signal(signal, address, cause) ==
    [Crash EXCEPT !.by = "signal", !.signal = signal, !.address = address, !.cause = cause]
Thrown(by, name, reason, cause) ==
    [Crash EXCEPT !.by = by, !.name = name, !.reason = reason, !.cause = cause]

NullPointer == Mach("EXC_BAD_ACCESS", "KERN_INVALID_ADDRESS", 0, "null")
Causes == {
    NullPointer,
    Mach("EXC_BAD_ACCESS", "KERN_PROTECTION_FAILURE", High, "garbage"),
    Mach("EXC_ARITHMETIC", null, 0, "math"),
    Mach("EXC_BREAKPOINT", null, 0, null),
    Mach("EXC_SOFTWARE", "EXC_UNIX_ABORT", 0, null),
    Signal("SIGSEGV", 0, "null"), Signal("SIGBUS", High, "garbage"),
    Signal("SIGFPE", 0, "math"), Signal("SIGABRT", 0, null),
    Thrown("nsexception", "name", "reason 0x5", "exception"),
    Thrown("cpp_exception", "_ZN4work3runEv", "what", null),
    [Crash EXCEPT !.by = "deadlock", !.cause = "deadlock"],
    [NullPointer EXCEPT !.stack = [i \in 1 .. MaxStackDepth + 1 |-> Ours], !.cause = "overflow"],
    [NullPointer EXCEPT !.stack = Stack(Frame("free_list_checksum_botch", "libc")), !.cause = "corruption"],
    [NullPointer EXCEPT !.words = <<2>>, !.cause = "corruption"]}

\* A message to an object that was deallocated: it is in the first register.
ToZombie(arch) == [NullPointer EXCEPT !.stack = Stack(Frame("objc_msgSend", "libobjc.A.dylib")),
                       !.registers = <<[name |-> FirstRegister[arch], value |-> 6]>>, !.cause = "zombie"]

Settings == [images |-> <<"app", null, "libc">>, restricted |-> {"Secret"}, arch |-> "arm64",
             introspect |-> TRUE, userInfo |-> <<>>, fields |-> <<>>, onCrash |-> <<>>, console |-> <<>>]
AllMonitors == {"mach", "signal", "system"}
Gone == [address |-> 6, name |-> "late", reason |-> "reason 0x5"]
Scenario(crash, settings) ==
    [crash |-> crash, second |-> null, settings |-> settings, monitors |-> AllMonitors, deallocated |-> null]

\* What happened, on which thread and processor, with which monitors.
Diagnoses ==
    {[Scenario([crash EXCEPT !.thread = IF crash.by = "deadlock" THEN 1 ELSE thread],
               [Settings EXCEPT !.arch = arch]) EXCEPT !.monitors = monitors, !.deallocated = deallocated] :
        crash \in Causes \cup {ToZombie("armv7"), ToZombie("x86_64"), ToZombie("arm64")}, thread \in 1 .. ThreadCount,
        arch \in {"armv7", "arm64", "x86_64", "i386"},
        monitors \in {AllMonitors, AllMonitors \ {"mach"}}, deallocated \in {null, Gone}}

\* A diagnosis is asked for when the registers are those of the architecture.
OfItsArch(x) == x.crash.cause = "zombie" => x.crash.registers = ToZombie(x.settings.arch).registers

\* What the application adds: texts that decode, that are none, and that have
\* something no decoder accepts in their outermost object, in an array of it or in an
\* object of one of its objects.
Bad == <<Element("bad", NoKey, NoValue)>>
Nested == Object(NoKey, Leaf("a", Number(1)) \o Object("b", Array("c", Leaf(NoKey, Null))))
TooLong == <<Head(Nested)>> \o Leaf("a", Number(1)) \o Bad
InArray == Object(NoKey, Leaf("a", Number(1)) \o Array("c", Leaf(NoKey, Number(2)) \o Bad) \o Leaf("d", Null))
InObject == Object(NoKey, Object("b", Object("c", Leaf("a", Number(1)) \o Bad)))
Field(key, text) == [key |-> key, text |-> text]
Additions ==
    {Scenario([crash EXCEPT !.snapshot = snapshot],
              [Settings EXCEPT !.userInfo = userInfo, !.fields = fields, !.onCrash = onCrash, !.console = console]) :
        crash \in {NullPointer} \cup
            {[Thrown("user", "script", "reason", null) EXCEPT !.trace = trace] :
                trace \in {<<>>, Array(NoKey, Leaf(NoKey, Text("line"))), Bad}},
        snapshot \in BOOLEAN, userInfo \in {<<>>, Nested, TooLong, InArray, InObject},
        fields \in {<<>>, <<Field("f", Nested)>>, <<Field("f", TooLong), Field("g", Leaf(NoKey, Text("v")))>>,
                    <<Field("f", InArray), Field("g", InObject)>>,
                    <<Field("f", Bad)>>},
        onCrash \in {<<>>, Leaf("h", Number(5))}, console \in {<<>>, <<"one", "two">>}}

\* What memory holds.
Memories ==
    {Scenario([NullPointer EXCEPT !.registers = <<[name |-> "x0", value |-> a], [name |-> "x1", value |-> b]>>],
              [Settings EXCEPT !.introspect = introspect, !.restricted = restricted]) :
        a \in Addresses \ {2}, b \in Addresses \ {2}, introspect \in BOOLEAN, restricted \in {{}, {"Secret", "Node"}}}

\* The handler crashes as well.
Recrashes ==
    {[Scenario([crash EXCEPT !.thread = 2], [Settings EXCEPT !.userInfo = userInfo])
        EXCEPT !.second = [second EXCEPT !.thread = thread], !.deallocated = Gone] :
        crash \in {Mach("EXC_BAD_ACCESS", "KERN_INVALID_ADDRESS", High, "garbage"), Thrown("nsexception", "name", "reason 0x5", "exception")},
        userInfo \in {<<>>, Nested}, thread \in 1 .. ThreadCount,
        second \in {NullPointer, Signal("SIGBUS", High, "garbage"), Thrown("cpp_exception", "std", "what", null)}}

MCScenarios == {x \in Diagnoses : OfItsArch(x)} \cup Additions \cup Memories \cup Recrashes

-----------------------------------------------------------------------------
Made == INSTANCE MCReportParts

partVars == <<v1, v2, v3, v4, v5, v6, v7, v8>>

MCInit ==
    /\ part \in Made!Parts \cup {"text"}
    /\ Made!Begin(part)
    /\ IF part = "text" THEN Init
       ELSE /\ scenario = None /\ phase = "none" /\ first = <<>> /\ file = <<>>
            /\ loaded = None /\ apple = None

MCNext ==
    /\ UNCHANGED part
    /\ \/ part = "text" /\ Next /\ UNCHANGED partVars
       \/ Made!Go(part) /\ UNCHANGED vars

MCSpec == MCInit /\ [][MCNext]_<<vars, part, partVars>>

\* Memory that is no object any more is looked at without a crash, and as much of it
\* is taken as can be read (GrowingCrashObjC.c, GrowingCrashMemory.c).
DirectReadsAreSafe == part = "objects" => Made!Objects!DirectReadsAreSafe /\ Made!Objects!CopiesTheMost

\* Texts come back from the form they are written in: strings, symbols and the names
\* in them, and the user information (GrowingCrashJSONCodec.c, Punycode.cpp,
\* Demangler.cpp).
TextsSurvive ==
    /\ part = "coding" => /\ Made!Coding!StringsSurvive /\ Made!Coding!NumbersAreRead /\ Made!Coding!BytesComeBack
                          /\ Made!Coding!MemoryIsReadRight /\ Made!Coding!NamesComeBack
    /\ part = "names" => Made!Symbols!NamesAreRead
    /\ part = "symbols" => Made!Grammar!SymbolsAreRead
    /\ part = "info" => Made!Info!UserInfoIsReported

\* Files are read and written whole through small buffers, and directories are made
\* and emptied whole (GrowingCrashFileUtils.c).
FilesAreWhole ==
    /\ part = "buffers" => Made!Buffers!FilesAreWhole
    /\ part = "trees" => Made!Directories!TreesAreWhole

\* The backtrace of a crash names the functions that were running, from the one that
\* crashed on (advanceCursor, growingcrashdl_dladdr).
BacktracesAreTrue == part = "stacks" => Made!Stacks!BacktracesAreTrue

\* A report has what is known of the device and the images, once it was collected
\* (GrowingCrashMonitor_System.m, GrowingCrashDynamicLinker.c).
SystemIsTold == part = "system" => Made!System!SystemIsTold

\* What a key path sets is what it finds, and filters answer from it
\* (Container+DeepSearch.m, GrowingCrashReportFilterBasic.m).
ContainersAreTrue == part = "containers" => Made!Contents!ContainersAreTrue
=============================================================================
