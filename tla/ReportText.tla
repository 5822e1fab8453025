----------------------------- MODULE ReportText -----------------------------
(***************************************************************************)
(* The life of the text of a report: a crash is caught and a report of it is    *)
(* written; the handler may crash while it writes, and then a second report      *)
(* takes in what had been written of the first; when the program is started      *)
(* again the report is loaded, and given to a filter.                           *)
(***************************************************************************)
EXTENDS ReportDocument, ReportReaders

CONSTANTS
    Scenarios,       \* what happens: the crash, one of the handler, the settings, the monitors
    Style            \* the style of the Apple report

VARIABLES
    scenario,
    phase,           \* "crashed", "crashed again", "written", "loaded", "formatted"
    first,           \* what was on disk when the handler crashed, NULL when it did not
    file,            \* the text in the report's file
    loaded,          \* what the program gets of it: the document with its diagnoses
    apple            \* what the filter lets through of it

vars == <<scenario, phase, first, file, loaded, apple>>

Init ==
    /\ scenario \in Scenarios
    /\ phase = "crashed"
    /\ first = None
    /\ file = <<>> /\ loaded = <<>> /\ apple = <<>>

FirstEvent == Event(scenario.crash, scenario.monitors, scenario.deallocated)
\* All monitors have been disabled when the handler crashes.
SecondEvent == Event(scenario.second, {}, scenario.deallocated)

Standard == StandardReport(FirstEvent, scenario.crash, scenario.settings)

WriteStandardReport ==
    /\ phase = "crashed"
    /\ file' = Standard /\ phase' = "written"
    /\ UNCHANGED <<scenario, first, loaded, apple>>

\* The handler crashes with the first elements on disk.
CrashWhileWriting ==
    /\ phase = "crashed" /\ scenario.second # None
    /\ LET text == Standard
       IN \E n \in 0 .. Len(text) : file' = SubSeq(text, 1, n)
    /\ first' = file'
    /\ phase' = "crashed again"
    /\ UNCHANGED <<scenario, loaded, apple>>

WriteRecrashReport ==
    /\ phase = "crashed again"
    /\ file' = RecrashReport(SecondEvent, scenario.second, scenario.settings, first)
    /\ phase' = "written"
    /\ UNCHANGED <<scenario, first, loaded, apple>>

\* reportWithID and reportForID: what is fixed up is decoded and diagnosed.
LoadReport ==
    /\ phase = "written"
    /\ LET fixed == FixupCrashReport(file)
       IN loaded' = IF fixed = <<>> THEN <<>> ELSE <<DoctorReport(Head(Parse(fixed).members))>>
    /\ phase' = "loaded"
    /\ UNCHANGED <<scenario, first, file, apple>>

FilterReport ==
    /\ phase = "loaded"
    /\ apple' = IF loaded = <<>> THEN <<>> ELSE FilterAppleFormat(Head(loaded), Style)
    /\ phase' = "formatted"
    /\ UNCHANGED <<scenario, first, file, loaded>>

Next ==
    \/ WriteStandardReport
    \/ CrashWhileWriting
    \/ WriteRecrashReport
    \/ LoadReport
    \/ FilterReport

Spec == Init /\ [][Next]_vars

-----------------------------------------------------------------------------
(* Properties.                                                             *)

IsLoaded == phase = "loaded"
Document == Head(loaded).report

\* The user info is copied without its end, so that the writer can go on in it; if
\* something in a container within it cannot be decoded, that one stays open too.
Left(userInfo) == Levels(Decoded(userInfo))[Len(Decoded(userInfo))]
IsLeftOpen(userInfo) == userInfo # <<>> /\ Last(Decoded(userInfo)).do = "bad" /\ Left(userInfo) > 1

RECURSIVE Within(_)
Within(node) == ToSet(node.members) \cup UNION {Within(member) : member \in ToSet(node.members)}

Sections == <<"report", "binary_images", "process", "system", "crash", "user", "debug">>

\* A report that was written to its end is read as it was meant: each section is
\* a member of the document, in its place and once, and what the application
\* adds is in the user section, whatever became of the fields and of the outermost
\* object of the user info: the writer opens a container through the text it copies,
\* and ends it itself (GrowingCrashReport.c:1785-1806, addJSONFromFile_onEndContainer).
\* If a text within another container of the user info cannot be copied, that
\* container takes in what follows: the fields, and the last section, which is lost in
\* the user section; the sections before it are in their place even then.
SectionsInPlace ==
    IsLoaded /\ first = None =>
        LET s == scenario.settings
            user == At(Document, <<"user">>)
        IN /\ loaded # <<>>
           /\ Keys(Document) = IF IsLeftOpen(s.userInfo) THEN Front(Sections) ELSE Sections
           /\ IsLeftOpen(s.userInfo) /\ s.console # <<>> =>
                 \E node \in Within(user) : node.key = "console_log" /\ Len(node.members) = Len(s.console)
           /\ ~IsLeftOpen(s.userInfo) =>
                 /\ \A i \in DOMAIN s.fields : scenario.crash.snapshot \/ Has(Document, <<"user", s.fields[i].key>>)
                 /\ \A i \in DOMAIN s.onCrash :
                       scenario.crash.snapshot \/ Value(Document, <<"user", s.onCrash[i].key>>) = s.onCrash[i].value[2]
                 /\ Len(At(Document, <<"debug", "console_log">>).members) = Len(s.console)

\* When the handler crashes, what is on disk then is kept to the last element,
\* wherever the first report was cut, and what is said of the second crash
\* follows it in a document that can be read (writeRecrash,
\* growingcrashjson_addJSONFromFile).
RecrashInPlace ==
    IsLoaded /\ first # None =>
        /\ loaded # <<>>
        /\ Keys(Document) = (IF first = <<>> THEN <<>> ELSE <<"recrash_report">>) \o <<"report", "crash">>
        /\ Keys(At(Document, <<"crash">>)) = <<"error", "crashed_thread">>
        /\ \A i \in DOMAIN first :
              file[i + 1] = [first[i] EXCEPT !.key = IF i = 1 THEN "recrash_report" ELSE @,
                                             !.value = Signed(@)]

\* The function of the program the crash is in, as a reader is to see it.
OwnFunction ==
    LET own == SelectSeq(scenario.crash.stack, LAMBDA frame : frame.image = "app")
    IN Demangled[Head(own).symbol]

\* What the doctor says is what happened, and where, for a crash of any thread on
\* any architecture: from the exception or signal, the registers and the stack
\* through the text and back, an address with its highest bit set too.  It knows
\* no register of arm64, asks the Mach exception that its monitor adds, and is
\* given no thread of a deadlock (GrowingCrashDoctor.m:514-585).
DiagnosisMatchesCause ==
    IsLoaded /\ first = None /\ "mach" \in scenario.monitors =>
        LET cause == scenario.crash.cause
            diagnosis == Head(loaded).diagnosis
        IN CASE cause = "zombie" /\ scenario.settings.arch \notin {"armv7", "x86_64"} -> TRUE
             [] cause = None -> diagnosis = None
             [] OTHER -> /\ diagnosis # None /\ diagnosis.is = cause
                         /\ diagnosis.address = scenario.crash.address
                         /\ diagnosis.at = IF cause = "deadlock" THEN None ELSE OwnFunction

\* The times in a report that was read are the times of its crashes: the fixer
\* takes a number for microseconds only if it has met the version before it
\* (GrowingCrashReportFixer.c:194-220).
DatesReadRight ==
    IsLoaded /\ loaded # <<>> =>
        LET inner == Value(Document, <<"recrash_report", "report", "timestamp">>)
        IN /\ Value(Document, <<"report", "timestamp">>) = <<"date", IF first = None THEN 1 ELSE 2>>
           /\ inner = None \/ inner = <<"date", 1>>

\* However memory refers to itself, a report is nested no deeper than the search
\* depth below the thread it is about (writeMemoryContents): the encoder, the
\* fixer and the decoder have room for so many levels only.
NestingBounded ==
    phase = "written" /\ first = None => DeepestLevel(file) <= 5 + Max({2, SearchDepth})

\* Every report that is written, wherever a crash of the handler cut the first one, is
\* read as it was meant: its sections, its dates, and what it took in.
ReportsReadAsMeant == SectionsInPlace /\ RecrashInPlace /\ DatesReadRight /\ NestingBounded

LinesOf(text, name) == SelectSeq(text, LAMBDA line : line[1] = name)

\* What an Apple report calls the architecture of the program; for an i386 it has no
\* name (cpuArchForReport says i386, CPUType knows x86).
Family(arch) ==
    CASE arch = "armv7" -> "ARM" [] arch = "arm64" -> "ARM-64" [] arch = "x86_64" -> "X86_64" [] OTHER -> "Unknown"

\* The Apple report of a crash marks one thread as the crashed one: that of the
\* crash, with the number its heading gives, on its processor; and that of a crash of
\* the handler ends with the thread of that crash, if anything had been written of the
\* first (without a first report the list of threads it is looked for in is missing).
AppleNamesThread ==
    phase = "formatted" /\ apple # <<>> =>
        LET text == Head(apple)
            crash == IF first = None THEN scenario.crash ELSE scenario.second
            headings == LinesOf(text, "crashed thread")
            crashed == LinesOf(text, "thread crashed")
        IN FirstEvent.machine.threads # <<>> /\ first # <<>> =>
            /\ headings # <<>> /\ crashed # <<>>
            /\ Last(headings) = <<"crashed thread", crash.thread - 1>>
            /\ Last(crashed) = <<"thread crashed", crash.thread - 1>>
            /\ SubSeq(Last(LinesOf(text, "state")), 1, 2) = <<"state", crash.thread - 1>>
            /\ first = None => Last(LinesOf(text, "state"))[3] = Family(scenario.settings.arch)
            /\ first = None => Len(crashed) = 1
=============================================================================
