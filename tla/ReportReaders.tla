---------------------------- MODULE ReportReaders ----------------------------
(***************************************************************************)
(* What is done with the text of a report when it is loaded and sent:          *)
(* GrowingCrashReportFixer.c makes dates and names of it, GrowingCrashDoctor.m    *)
(* a diagnosis, and GrowingCrashReportFilterAppleFmt.m the lines of an Apple       *)
(* crash report.  Each reader finds what it wants by its place in the document,   *)
(* so that it depends on where the writers have put it.                         *)
(***************************************************************************)
EXTENDS CrashEvent, JSONCodec

CONSTANTS
    FixDepth,       \* MAX_DEPTH of the fixer: 100 in the code
    Demangled       \* mangled symbol -> readable one (the demanglers of C++ and Swift)

-----------------------------------------------------------------------------
(* The fixer.                                                              *)

DatePaths == {<<"", "report", "timestamp">>, <<"", "recrash_report", "report", "timestamp">>}
VersionPaths == {<<"", "report", "version">>, <<"", "recrash_report", "report", "version">>}
DemanglePaths ==
    {root \o path : root \in {<<"">>, <<"", "recrash_report">>},
                    path \in {<<"crash", "threads", "", "backtrace", "contents", "", "symbol_name">>,
                              <<"crash", "error", "cpp_exception", "name">>}}

\* matchesAPath: nothing is asked of what a path has beyond the name.
MatchesAPath(context, name, paths) ==
    \E path \in paths : IsPrefix(Append(context.path, name), path)

MatchesMinVersion(version, least) ==
    \/ version[1] > least[1]
    \/ version[1] = least[1] /\ version[2] > least[2]
    \/ version[1] = least[1] /\ version[2] = least[2] /\ version[3] >= least[3]

ShouldDemangle(context, name) == MatchesAPath(context, name, DemanglePaths)
ShouldFixDate(context, name) == MatchesAPath(context, name, DatePaths)
ShouldSaveVersion(context, name) == MatchesAPath(context, name, VersionPaths)

\* onIntegerElement
FixInteger(context, e) ==
    IF ~ShouldFixDate(context, e.key) THEN e.value
    ELSE Text(<<"date", IF MatchesMinVersion(context.version, <<3, 3, 0>>)
                        THEN e.value[2] \div 1000000 ELSE e.value[2]>>)

\* onStringElement
FixString(context, e) ==
    IF ShouldDemangle(context, e.key) /\ e.value[2] \in DOMAIN Demangled
    THEN Text(Demangled[e.value[2]]) ELSE e.value

\* onBooleanElement, onFloatingPointElement and onNullElement leave what they get.
FixValue(context, e) ==
    CASE e.value[1] = "int"  -> FixInteger(context, [e EXCEPT !.value = Signed(@)])
      [] e.value[1] = "text" -> FixString(context, e)
      [] OTHER -> e.value

\* A container that is too deep has been written when it fails.
IncreaseDepth(context, name) ==
    IF Len(context.path) >= FixDepth THEN [context EXCEPT !.failed = TRUE]
    ELSE [context EXCEPT !.path = Append(@, name)]
\* An end without a beginning is written too.
DecreaseDepth(context) == IF context.path = <<>> THEN context ELSE [context EXCEPT !.path = Front(@)]

Write(context, e) == [context EXCEPT !.out = Append(@, e)]

\* The callbacks of the decoder, none after one that failed.
FixElement(context, e) ==
    CASE context.failed -> context
      [] e.do = "bad" -> [context EXCEPT !.failed = TRUE]
      [] e.do \in {"object", "array"} -> IncreaseDepth(Write(context, e), e.key)
      [] e.do = "end" -> DecreaseDepth(Write(context, e))
      [] OTHER -> [Write(context, [e EXCEPT !.value = FixValue(context, e)])
                      EXCEPT !.version = IF e.value[1] = "text" /\ ShouldSaveVersion(context, e.key)
                                         THEN e.value[2] ELSE @]

\* growingcrf_fixupCrashReport: no report at all when it cannot be decoded, or is
\* too deep.
FixupCrashReport(text) ==
    LET fixed == Fold(FixElement, [out |-> <<>>, path |-> <<>>, version |-> <<0, 0, 0>>, failed |-> FALSE],
                      Decoded(text))
    IN IF fixed.failed THEN <<>> ELSE fixed.out

-----------------------------------------------------------------------------
(* What both of the other readers ask of a report.                             *)

\* The value at a path, NULL if there is none.
LeafValue(node) == IF node.kind = "leaf" THEN node.value[2] ELSE None
Value(node, path) == LeafValue(At(node, path))
Is(node, path, text) == Value(node, path) = text
Count(n) == IF n = None THEN 0 ELSE n
\* A number is decoded with a sign, an address is shown without.
Pointer(n) == Unsigned(Count(n))
Has(node, path) == At(node, path) # Missing

CrashedOf(report) ==
    SelectSeq(At(report, <<"crash", "threads">>).members, LAMBDA t : Is(t, <<"crashed">>, TRUE))
BacktraceOf(thread) == At(thread, <<"backtrace", "contents">>).members
RegistersOf(thread) == At(thread, <<"registers", "basic">>).members
ExecutableName(report) == Value(report, <<"report", "process_name">>)

-----------------------------------------------------------------------------
(* The doctor.                                                             *)

CrashedThreadReport(report) ==
    Head((IF Has(report, <<"crash", "crashed_thread">>) THEN <<At(report, <<"crash", "crashed_thread">>)>> ELSE <<>>)
             \o CrashedOf(report) \o <<Missing>>)

\* The function of the last entry that is the program's own.
OwnEntries(entries, executable) ==
    SelectSeq(entries, LAMBDA entry : executable # None /\ Is(entry, <<"object_name">>, executable))
LastInApp(report, thread) ==
    Value(Head(Append(OwnEntries(BacktraceOf(thread), ExecutableName(report)), Missing)), <<"symbol_name">>)

\* cpuFamily and registerNameForFamily: the register of the first parameter.  An
\* architecture that is not told is taken for ARM: a message to nil finds its
\* prefix at 0.
FirstParameter(arch) ==
    CASE arch \in {None, "armv7", "arm64"} -> "r0"
      [] arch = "i386"   -> "edi"
      [] arch = "x86_64" -> "rdi"
      [] OTHER -> None

CorruptionTexts == {"autorelease pool page corrupted", "incorrect checksum for freed object"}
CorruptionSymbols == {"objc_autoreleasePoolPush", "free_list_checksum_botch", "szone_malloc_should_clear"}

IsMemoryCorruption(thread) ==
    \/ \E i \in DOMAIN At(thread, <<"notable_addresses">>).members :
          LET address == At(thread, <<"notable_addresses">>).members[i]
          IN Is(address, <<"type">>, "string") /\ Value(address, <<"value">>) \in CorruptionTexts
    \/ \E i \in DOMAIN BacktraceOf(thread) :
          LET entry == BacktraceOf(thread)[i]
          IN \/ Value(entry, <<"symbol_name">>) \in CorruptionSymbols
             \/ Is(entry, <<"symbol_name">>, "lookUpMethod") /\ Is(entry, <<"object_name">>, "libobjc.A.dylib")

\* isMathError and isInvalidAddress ask the signal only if there is no Mach error.
NamesError(error, exception, signal) ==
    IF Has(error, <<"mach">>) THEN Is(error, <<"mach", "exception_name">>, exception)
    ELSE Is(error, <<"signal", "name">>, signal)

\* lastFunctionCall and zombieCall: the receiver was deallocated.
ReceiverIsGone(thread, register) ==
    register # None /\ Has(thread, <<"notable_addresses", register, "last_deallocated_obj">>)
IsZombieCall(report, thread) ==
    /\ Value(Head(Append(BacktraceOf(thread), Missing)), <<"symbol_name">>) \in {"objc_msgSend", "objc_retain"}
    /\ ReceiverIsGone(thread, FirstParameter(Value(report, <<"system", "cpu_arch">>)))

\* diagnoseCrash: the first that applies.
PossibleCauses(report, thread, error, address) ==
    LET first(condition, name) == IF condition THEN <<name>> ELSE <<>>
    IN first(Is(error, <<"type">>, "deadlock"), "deadlock")
       \o first(Is(thread, <<"stack", "overflow">>, TRUE), "overflow")
       \o first(Is(error, <<"type">>, "nsexception"), "exception")
       \o first(IsMemoryCorruption(thread), "corruption")
       \o first(NamesError(error, "EXC_ARITHMETIC", "SIGFPE"), "math")
       \o first(IsZombieCall(report, thread), "zombie")
       \o first(NamesError(error, "EXC_BAD_ACCESS", "SIGSEGV"), IF address = 0 THEN "null" ELSE "garbage")
Diagnosis(causes, address, at) ==
    IF causes = <<>> THEN None ELSE [is |-> Head(causes), address |-> address, at |-> at]
Diagnose(report, thread, error, address) ==
    Diagnosis(PossibleCauses(report, thread, error, address), address, LastInApp(report, thread))
DiagnoseCrash(report) ==
    Diagnose(report, CrashedThreadReport(report), At(report, <<"crash", "error">>),
             Pointer(Value(report, <<"crash", "error", "address">>)))

\* doctorReport: the crash in the report that was taken in gets a diagnosis too,
\* which is made from the outer report.
DoctorReport(report) ==
    [report |-> report,
     diagnosis |-> IF Has(report, <<"crash">>) THEN DiagnoseCrash(report) ELSE None,
     inner |-> IF Has(report, <<"recrash_report", "crash">>) THEN DiagnoseCrash(report) ELSE None]

-----------------------------------------------------------------------------
(* The Apple report: its lines, each a tuple of what it says.                   *)

CrashedThread(report) == Head(Append(CrashedOf(report), At(report, <<"crash", "crashed_thread">>)))

\* backtraceString: whether the line of an entry has its symbol.
ShowsSymbol(entry, style, executable) ==
    LET own == executable # None /\ Is(entry, <<"object_name">>, executable)
        line == IF style = "partially_symbolicated"
                THEN IF own THEN "unsymbolicated" ELSE "symbolicated" ELSE style
    IN /\ line # "unsymbolicated" /\ Has(entry, <<"symbol_name">>)
       /\ ~(line = "symbolicated" /\ Is(entry, <<"symbol_name">>, "<redacted>"))

BacktraceString(thread, style, executable) ==
    [i \in DOMAIN BacktraceOf(thread) |->
        LET entry == BacktraceOf(thread)[i]
        IN <<"frame", i - 1, Value(entry, <<"object_name">>),
             IF ShowsSymbol(entry, style, executable) THEN Value(entry, <<"symbol_name">>) ELSE None>>]

\* threadStringForThread
ThreadString(thread, style, executable) ==
    LET index == Count(Value(thread, <<"index">>))
    IN (IF Has(thread, <<"name">>) THEN <<<<"thread name", index, Value(thread, <<"name">>)>>>> ELSE <<>>)
       \o <<<<IF Is(thread, <<"crashed">>, TRUE) THEN "thread crashed" ELSE "thread", index>>>>
       \o BacktraceString(thread, style, executable)

\* An architecture that is not told is taken for ARM-64: a message to nil finds its
\* prefix at 0.
CPUType(arch) ==
    CASE arch \in {None, "arm64", "arm64e"} -> "ARM-64"
      [] arch \in {"arm", "armv6", "armv7", "armv7f", "armv7k", "armv7s"} -> "ARM"
      [] arch = "x86" -> "X86"
      [] arch = "x86_64" -> "X86_64"
      [] OTHER -> "Unknown"

ABI64 == 16777216
ArmSubtypes == [minor \in {6, 9, 10, 11, 12} |->
    CASE minor = 6 -> "armv6" [] minor = 9 -> "armv7" [] minor = 10 -> "armv7f" [] minor = 11 -> "armv7s" [] OTHER -> "armv7k"]
CPUArchForMajor(major, minor) ==
    CASE major = 12 -> IF minor \in DOMAIN ArmSubtypes THEN ArmSubtypes[minor] ELSE "arm"
      [] major = 12 + ABI64 -> IF minor = 2 THEN "arm64e" ELSE "arm64"
      [] major = 7 -> "i386"
      [] major = 7 + ABI64 -> "x86_64"
      [] OTHER -> "unknown"

\* cpuArchForReport: of the program and not of the device, unknown if nothing is told.
CPUArchForReport(report) ==
    CPUArchForMajor(Count(Value(report, <<"system", "binary_cpu_type">>)),
                    Count(Value(report, <<"system", "binary_cpu_subtype">>)))

HeaderString(report) ==
    <<<<"incident", Value(report, <<"report", "id">>)>>,
      <<"process", Value(report, <<"system", "process_name">>)>>,
      <<"code type", CPUType(Value(report, <<"system", "cpu_arch">>))>>,
      <<"date", Value(report, <<"report", "timestamp">>)>>>>

\* isZombieNSException: a register holds the exception that was deallocated.
IsZombieNSException(report, error, last) ==
    /\ Is(error, <<"mach", "exception_name">>, "EXC_BAD_ACCESS")
    /\ Is(error, <<"mach", "code_name">>, "KERN_INVALID_ADDRESS")
    /\ last # Missing
    /\ Value(last, <<"address">>) \in {Value(register, <<>>) : register \in Range(RegistersOf(CrashedThread(report)))}

\* stringWithUncaughtExceptionName, for an exception, perhaps one that was deallocated,
\* one that the program reports itself, and one of C++.
Uncaught(report, error, last) ==
    LET uncaught(name, reason) == <<<<"uncaught", name, reason>>>>
        reason == Value(error, <<"reason">>)
    IN IF Has(error, <<"nsexception">>) THEN uncaught(Value(error, <<"nsexception", "name">>), reason)
       ELSE IF IsZombieNSException(report, error, last)
       THEN Append(uncaught(Value(last, <<"name">>), Value(last, <<"reason">>)), <<"deallocated">>)
       ELSE IF Has(error, <<"user_reported">>)
       THEN uncaught(Value(error, <<"user_reported", "name">>), reason)
            \o [i \in DOMAIN At(error, <<"user_reported", "backtrace">>).members |->
                    <<"custom backtrace", At(error, <<"user_reported", "backtrace">>).members[i].value[2]>>]
       ELSE IF Is(error, <<"type">>, "cpp_exception") THEN uncaught(Value(error, <<"cpp_exception", "name">>), reason)
       ELSE <<>>

\* errorInfoStringForReport
ErrorLines(report, error, last) ==
    <<<<"exception", Value(error, <<"mach", "exception_name">>), Value(error, <<"signal", "name">>)>>,
      <<"code", Value(error, <<"mach", "code_name">>), Pointer(Value(error, <<"address">>))>>,
      <<"crashed thread", Count(Value(CrashedThread(report), <<"index">>))>>>>
    \o Uncaught(report, error, last)
    \o (IF Is(error, <<"type">>, "deadlock") THEN <<<<"main thread deadlocked">>>> ELSE <<>>)
ErrorInfo(report) ==
    ErrorLines(report, At(report, <<"crash", "error">>), At(report, <<"process", "last_deallocated_nsexception">>))

ThreadList(report, style) ==
    LET threads == At(report, <<"crash", "threads">>).members
    IN FlattenSeq([i \in DOMAIN threads |-> ThreadString(threads[i], style, ExecutableName(report))])

\* crashedThreadCPUState
RegisterLine(register) == <<"register", register.key, Pointer(register.value[2])>>
StateOf(thread, arch) ==
    IF thread = Missing THEN <<>>
    ELSE <<<<"state", Count(Value(thread, <<"index">>)), CPUType(arch)>>>>
         \o [i \in DOMAIN RegistersOf(thread) |-> RegisterLine(RegistersOf(thread)[i])]
CPUState(report, arch) == StateOf(CrashedThread(report), arch)

\* binaryImagesStringForReport, in the order of their addresses.
BinaryImagesString(report) ==
    LET images == At(report, <<"binary_images">>).members
        sorted == SortSeq(images, LAMBDA a, b :
                    /\ Has(a, <<"image_addr">>) /\ Has(b, <<"image_addr">>)
                    /\ Value(a, <<"image_addr">>) < Value(b, <<"image_addr">>))
        ImageLine(image) ==
            <<"image", Value(image, <<"image_addr">>), Value(image, <<"name">>),
              CPUArchForMajor(Count(Value(image, <<"cpu_type">>)), Count(Value(image, <<"cpu_subtype">>))),
              Has(image, <<"name">>) /\ Is(image, <<"name">>, Value(report, <<"system", "executable_path">>))>>
    IN [i \in DOMAIN sorted |-> ImageLine(sorted[i])]

\* extraInfoStringForReport
ExtraInfo(report, diagnosis) ==
    LET part(name, path) == IF Has(report, path) THEN <<<<name, At(report, path)>>>> ELSE <<>>
        thread == CrashedThread(report)
    IN part("referenced", <<"crash", "error", "nsexception", "referenced_object">>)
       \o (IF Has(thread, <<"stack">>) THEN <<<<"stack", Value(thread, <<"stack", "contents">>)>>>> ELSE <<>>)
       \o (IF Has(thread, <<"notable_addresses">>)
           THEN <<<<"notable", At(thread, <<"notable_addresses">>)>>>> ELSE <<>>)
       \o part("deallocated exception", <<"process", "last_deallocated_nsexception">>)
       \o part("application stats", <<"system", "application_stats">>)
       \o (IF diagnosis # None THEN <<<<"diagnosis", diagnosis>>>> ELSE <<>>)

CrashReportString(report, diagnosis, style) ==
    HeaderString(report) \o ErrorInfo(report) \o ThreadList(report, style)
    \o CPUState(report, CPUArchForReport(report))
    \o BinaryImagesString(report) \o ExtraInfo(report, diagnosis)

\* recrashReportString
RecrashReportString(report, diagnosis, style) ==
    <<<<"handler crashed">>>> \o ErrorInfo(report)
    \o ThreadString(At(report, <<"crash", "crashed_thread">>), style,
                    Value(report, <<"recrash_report", "system", "executable_path">>))
    \o CPUState(report, CPUArchForReport(At(report, <<"recrash_report">>)))
    \o (IF diagnosis # None THEN <<<<"diagnosis", diagnosis>>>> ELSE <<>>)

\* toAppleFormat
ToAppleFormat(r, style) ==
    IF Has(r.report, <<"recrash_report">>)
    THEN CrashReportString(At(r.report, <<"recrash_report">>), r.inner, style)
         \o RecrashReportString(r.report, r.diagnosis, style)
    ELSE CrashReportString(r.report, r.diagnosis, style)

\* filterReports: only a report of the version that is expected.
FilterAppleFormat(r, style) ==
    LET version == Value(r.report, <<"report", "version">>)
    IN IF version # None /\ version[1] = 3 THEN <<ToAppleFormat(r, style)>> ELSE <<>>
=============================================================================
