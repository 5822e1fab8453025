--------------------------- MODULE ReportDocument ---------------------------
(***************************************************************************)
(* The documents GrowingCrashReport.c writes: a report of an event, and the     *)
(* report of a crash of the crash handler, which takes the first one in.        *)
(* Each operator is the writer of one element: the calls it makes to the         *)
(* encoder, in order.                                                        *)
(***************************************************************************)
EXTENDS CrashEvent, JSONCodec

CONSTANTS
    SearchDepth,    \* kDefaultMemorySearchDepth: 15 in the code
    StringBuffer,   \* bytes a text in memory is looked for in: 500 in the code
    memory          \* what lies at an address: see Objects of the instance

(* The settings, a record, are what the application has set: whether memory is   *)
(* introspected, the classes that are not, the user info, the fields of the      *)
(* installation, what its callback writes, the console log; and what the         *)
(* system is: the images that are loaded and the architecture.                *)

Optional(key, s) == IF s = None THEN <<>> ELSE Leaf(key, Text(s))
\* addStringElement writes null for NULL.
String(key, s) == Leaf(key, IF s = None THEN Null ELSE Text(s))
If(condition, elements) == IF condition THEN elements ELSE <<>>

-----------------------------------------------------------------------------
(* Memory.  The walk is given what is left of the depth, and gives it back.    *)

\* isValidString: what is looked at does not wrap around the addresses.
IsValidString(address) ==
    address # 0 /\ address + StringBuffer < Word /\ memory[address].text # None

\* isNotableAddress: a valid pointer to an object, a string, or what was one.
IsNotableAddress(address) ==
    LET object == memory[address]
    IN address # 0 /\ object.valid
       /\ (object.zombie # None \/ object.is # "unknown" \/ IsValidString(address))

RECURSIVE MemoryContents(_, _, _, _)

\* writeUnknownObjectContents: a pointer is followed, whatever is left.
UnknownObjectContents(object, limit, restricted) ==
    LET ivars == Fold(LAMBDA w, ivar :
                    IF ivar.points
                    THEN LET next == MemoryContents(ivar.name, ivar.value, w.limit, restricted)
                         IN [out |-> w.out \o next.out, limit |-> next.limit]
                    ELSE [w EXCEPT !.out = @ \o Leaf(ivar.name, Number(ivar.value))],
                 [out |-> <<>>, limit |-> limit - 1 - Len(object.ivars)], object.ivars)
    IN [out |-> Object("ivars", ivars.out), limit |-> ivars.limit]

\* writeNSStringContents and writeURLContents, for as much as can be copied; nothing
\* for an empty text.
StringContents(object) == Optional("value", object.text)

\* writeDateContents and writeNumberContents
NumberContents(object) == Leaf("value", Number(object.number))

\* writeArrayContents
ArrayContents(object, limit, restricted) ==
    IF limit > 0 /\ object.first # None
    THEN MemoryContents("first_object", object.first, limit, restricted)
    ELSE [out |-> <<>>, limit |-> limit]

\* The contents by class, and whether the object is described by them.
ObjectContents(object, limit, restricted) ==
    CASE object.class \in restricted -> [out |-> <<>>, limit |-> limit]
      [] object.kind \in {"string", "url"} -> [out |-> StringContents(object), limit |-> limit]
      [] object.kind \in {"date", "number"} -> [out |-> NumberContents(object), limit |-> limit]
      [] object.kind = "array" -> ArrayContents(object, limit, restricted)
      [] OTHER -> IF limit > 0 THEN UnknownObjectContents(object, limit, restricted)
                  ELSE [out |-> <<>>, limit |-> limit]

\* What is no object: NULL, a string, or unknown.
PlainContents(address) ==
    IF address = 0 THEN Leaf("type", Text("null_pointer"))
    ELSE IF IsValidString(address)
         THEN Leaf("type", Text("string")) \o Leaf("value", Text(memory[address].text))
         ELSE Leaf("type", Text("unknown"))

\* writeMemoryContents with writeZombieIfPresent and writeObjCObject.  An object
\* of a class that is not to be introspected is then taken for plain memory too.
MemoryContents(key, address, limit, restricted) ==
    LET object == memory[address]
        contents == IF object.is = "objc_object" THEN ObjectContents(object, limit - 1, restricted)
                    ELSE [out |-> <<>>, limit |-> limit - 1]
        isObject == object.is # "unknown"
    IN [limit |-> contents.limit,
        out |-> Object(key,
            Leaf("address", Number(address)) \o Optional("last_deallocated_obj", object.zombie)
            \o If(isObject, Leaf("type", Text(object.is)) \o String("class", object.class))
            \o contents.out
            \o If(~isObject \/ (object.is = "objc_object" /\ object.class \in restricted),
                  PlainContents(address)))]

ContentsIfNotable(key, address, restricted) ==
    If(IsNotableAddress(address), MemoryContents(key, address, SearchDepth, restricted).out)

\* writeAddressReferencedByString: a text that holds an address.
AddressReferencedByString(key, reason, restricted) ==
    LET address == CHOOSE a \in DOMAIN memory : memory[a].hex = reason
    IN If(reason # None /\ \E a \in DOMAIN memory : memory[a].hex = reason,
          MemoryContents(key, address, SearchDepth, restricted).out)

-----------------------------------------------------------------------------
(* Threads.                                                                *)

\* writeBacktrace
Backtrace(key, cursor) ==
    Object(key,
        Array("contents", FlattenSeq([i \in DOMAIN cursor.frames |->
            LET frame == cursor.frames[i]
            IN Object(NoKey,
                  If(frame.symbol # None,
                     Optional("object_name", frame.image) \o Leaf("object_addr", Number(1))
                     \o Optional("symbol_name", frame.symbol) \o Leaf("symbol_addr", Number(1)))
                  \o Leaf("instruction_addr", Number(1)))]))
        \o Leaf("skipped", Number(0)))

\* writeStackContents
StackContents(key, machine, isStackOverflow) ==
    If(machine.cpu, Object(key,
        Leaf("grow_direction", Text("-")) \o Leaf("dump_start", Number(1)) \o Leaf("dump_end", Number(2))
        \o Leaf("stack_pointer", Number(1)) \o Leaf("overflow", Bool(isStackOverflow))
        \o Leaf("contents", Text("data"))))

BasicRegisters(registers) ==
    Object("basic", FlattenSeq([i \in DOMAIN registers |->
        Leaf(registers[i].name, Number(registers[i].value))]))

\* writeRegisters; those of the exception for the crashed thread.
Registers(key, machine, registers) ==
    If(machine.cpu, Object(key,
        BasicRegisters(registers)
        \o If(HasValidExceptionRegisters(machine), Object("exception", Leaf("exception", Number(0))))))

\* writeNotableRegisters; of a context without registers they are zero.
NotableRegisters(machine, registers, restricted) ==
    FlattenSeq([i \in DOMAIN registers |->
        ContentsIfNotable(registers[i].name, IF machine.cpu THEN registers[i].value ELSE 0, restricted)])

\* writeNotableStackContents: the words around the stack pointer, if there is one.
NotableStackContents(machine, words, restricted) ==
    If(machine.cpu, FlattenSeq([i \in DOMAIN words |->
        ContentsIfNotable("stack@", words[i], restricted)]))

\* writeNotableAddresses
NotableAddresses(key, machine, e, restricted) ==
    Object(key, NotableRegisters(machine, e.registers, restricted)
                \o NotableStackContents(machine, e.words, restricted))

\* The cursor of another thread than that of the event.
OtherCursor == [frames |-> <<[symbol |-> "wait", image |-> "libc"]>>, hasGivenUp |-> FALSE]

\* writeThread, for the thread of the event or another one.
Thread(key, event, e, thread, index, notable, restricted) ==
    LET own == thread = event.machine.thread
        machine == IF own THEN event.machine ELSE ContextForThread(thread, FALSE, FALSE)
        cursor == IF own THEN event.cursor ELSE OtherCursor
        registers == IF own THEN e.registers ELSE <<>>
    IN Object(key,
        Backtrace("backtrace", cursor) \o Registers("registers", machine, registers)
        \o Leaf("index", Number(index))
        \o If(thread = 1, Leaf("name", Text("main")))
        \o Leaf("crashed", Bool(machine.crashed)) \o Leaf("current_thread", Bool(own /\ ~machine.cpu))
        \o If(machine.crashed,
              StackContents("stack", machine, cursor.hasGivenUp)
              \o If(notable, NotableAddresses("notable_addresses", machine, e, restricted))))

\* Mutant: the threads are counted from one.
CountedFromOne(key, event, e, notable, restricted) ==
    LET threads == event.machine.threads
    IN Array(key, FlattenSeq([i \in DOMAIN threads |->
           Thread(NoKey, event, e, threads[i], i, notable, restricted)]))

\* writeAllThreads
AllThreads(key, event, e, notable, restricted) ==
    LET threads == event.machine.threads
    IN Array(key, FlattenSeq([i \in DOMAIN threads |->
           Thread(NoKey, event, e, threads[i], i - 1, notable, restricted)]))

-----------------------------------------------------------------------------
(* The other sections.                                                      *)

\* writeBinaryImages; an image that cannot be read is left out.
BinaryImages(key, images) ==
    Array(key, FlattenSeq([i \in DOMAIN images |-> If(images[i] # None, Object(NoKey,
        FlattenSeq([f \in 1 .. 3 |-> Leaf(<<"image_addr", "image_vmaddr", "image_size">>[f], Number(f))])
        \o Leaf("name", Text(images[i])) \o Leaf("uuid", Null)
        \o Leaf("cpu_type", Number(0)) \o Leaf("cpu_subtype", Number(0))))]))

\* writeError
Error(key, context, e, restricted) ==
    Object(key,
        Object("mach",
            Leaf("exception", Number(0)) \o Optional("exception_name", ExceptionName(context.mach.type))
            \o Leaf("code", Number(0)) \o Optional("code_name", context.mach.code) \o Leaf("subcode", Number(0)))
        \o Object("signal",
            Leaf("signal", Number(0)) \o Optional("name", SignalName(context.signal)) \o Leaf("code", Number(0)))
        \o Leaf("address", Number(context.address))
        \o Optional("reason", context.reason)
        \o Leaf("type", Text(context.type))
        \o CASE context.type = "cpp_exception" ->
                Object("cpp_exception", String("name", context.name))
             [] context.type = "nsexception" ->
                Object("nsexception",
                    String("name", context.name) \o Leaf("userInfo", Text("userInfo"))
                    \o AddressReferencedByString("referenced_object", context.reason, restricted))
             [] context.type = "user" ->
                Object("user_reported",
                    String("name", context.name)
                    \o If(e.trace # <<>>, Copy("backtrace", Decoded(e.trace), TRUE, TRUE)))
             [] OTHER -> <<>>)

\* writeProcessState
ProcessState(key, context, restricted) ==
    Object(key, If(context.zombie # None,
        Object("last_deallocated_nsexception",
            Leaf("address", Number(context.zombie.address)) \o String("name", context.zombie.name)
            \o String("reason", context.zombie.reason)
            \o AddressReferencedByString("referenced_object", context.zombie.reason, restricted))))

\* The version by its components, and a time in microseconds.
Second == 1000000
ReportVersion == <<3, 3, 0>>
Micro(when) == Number(when * Second)

\* writeReportInfo
ReportInfo(key, type, id, processName, time) ==
    Object(key,
        Leaf("version", Text(ReportVersion)) \o Leaf("id", Text(id))
        \o String("process_name", processName) \o Leaf("timestamp", time)
        \o Leaf("type", Text(type)))

Numbers(keys) == FlattenSeq([i \in DOMAIN keys |-> Leaf(keys[i], Number(i))])

\* writeMemoryInfo
MemoryInfo(key) == Object(key, Numbers(<<"size", "usable", "free">>))

\* writeAppStats
AppStats(key) ==
    Object(key,
        Leaf("application_active", Bool(TRUE)) \o Leaf("application_in_foreground", Bool(TRUE))
        \o Numbers(<<"launches_since_last_crash", "sessions_since_last_crash",
                     "active_time_since_last_crash", "background_time_since_last_crash",
                     "sessions_since_launch", "active_time_since_launch", "background_time_since_launch">>))

\* CPU_TYPE and CPU_SUBTYPE of an architecture, as the header of an image has them.
MachineType(arch) ==
    CASE arch = "armv7"  -> <<12, 9>>
      [] arch = "arm64"  -> <<12 + 16777216, 0>>
      [] arch = "i386"   -> <<7, 3>>
      [] arch = "x86_64" -> <<7 + 16777216, 3>>

\* writeSystemInfo
SystemInfo(key, context, arch) ==
    Object(key,
        Leaf("executable_path", Text("app")) \o Leaf("cpu_arch", Text(arch))
        \o Leaf("binary_cpu_type", Number(MachineType(arch)[1]))
        \o Leaf("binary_cpu_subtype", Number(MachineType(arch)[2]))
        \o String("process_name", context.processName)
        \o MemoryInfo("memory") \o AppStats("application_stats"))

\* writeDebugInfo with addTextLinesFromFile
DebugInfo(key, console) ==
    Object(key, If(console # <<>>, Array("console_log", FlattenSeq([i \in DOMAIN console |->
        Leaf(NoKey, Text(console[i]))]))))

\* The user section: the container the user info opens, or an empty one, into which
\* the fields and the callback write; then it is ended (crashCallback).
UserSection(s, snapshot) ==
    (IF s.userInfo # <<>> THEN Copy("user", Decoded(s.userInfo), FALSE, TRUE)
     ELSE <<Element("object", "user", NoValue)>>)
    \o If(~snapshot, FlattenSeq([i \in DOMAIN s.fields |->
            Copy(s.fields[i].key, Decoded(s.fields[i].text), TRUE, TRUE)]) \o s.onCrash)
    \o End

-----------------------------------------------------------------------------
(* The reports.                                                            *)

\* growingcrashreport_writeStandardReport
StandardReport(event, e, s) ==
    LET context == event.context
    IN Encode(Object("report",
        ReportInfo("report", "standard", "id", context.processName, Micro(1))
        \o BinaryImages("binary_images", s.images)
        \o ProcessState("process", context, s.restricted)
        \o SystemInfo("system", context, s.arch)
        \o Object("crash",
            Error("error", context, e, s.restricted)
            \o AllThreads("threads", event, e, s.introspect, s.restricted))
        \o UserSection(s, context.snapshot)
        \o DebugInfo("debug", s.console)))

\* growingcrashreport_writeRecrashReport, with what had been written of the first
\* report; nothing is taken in when its file cannot be read (writeRecrash).
RecrashReport(event, e, s, first) ==
    Encode(Object("report",
        Copy("recrash_report", Decoded(Seen(first)), TRUE, FALSE)
        \o ReportInfo("report", "minimal", "id", event.context.processName, Micro(2))
        \o Object("crash",
            Error("error", event.context, e, s.restricted)
            \o Thread("crashed_thread", event, e, event.machine.thread,
                      IndexOfThread(event.machine, event.machine.thread), FALSE, s.restricted))))
=============================================================================
