----------------------------- MODULE SystemInfo -----------------------------
(***************************************************************************)
(* GrowingCrashMonitor_System.m: what is known of the device and the              *)
(* application is collected once, when the monitor is first enabled, and copied    *)
(* into the reports of crashes and of users; and the images, which each report      *)
(* reads anew.                                                               *)
(*                                                                         *)
(* A device is a record of what the system answers.  Of fields that are read       *)
(* alike there is one in the model: bundleID stands for all that come from the      *)
(* bundle or from UIKit, machine and model for those of sysctl.  A report copies the     *)
(* fields one by one, with the other threads suspended or not.                   *)
(***************************************************************************)
EXTENDS Integers, FiniteSetsExt, SequencesExt, TLC

CONSTANTS
    None,            \* NULL
    MinimalSize,     \* bytes of a section with crash messages
    TestBuffer,      \* bytes that are tried at once: 10240 in the code
    PageWord,        \* numbers of pages wrap here: 2^32 in the code
    Devices,
    MaxToggles,      \* bound: changes of the active monitors
    MaxReports       \* bound: reports

VARIABLES
    device,
    systemData,      \* g_systemData: the fields that have been set, the others being NULL or 0
    isEnabled, isInitialized,
    setter,          \* the thread that enables the monitor: fields it has set, or None
    toggles,
    reports,         \* reports that were begun
    report           \* the report that is made: see NoReport

vars == <<device, systemData, isEnabled, isInitialized, setter, toggles, reports, report>>

\* In the order of initialize and of addContextualInfoToEvent.
Fields == <<"machine", "model", "isJailbroken", "bootTime", "bundleID", "appID", "cpuArchitecture",
            "deviceAppHash", "buildType", "storageSize">>
FieldSet == ToSet(Fields)

-----------------------------------------------------------------------------
(* The images of the process, as GrowingCrashDynamicLinker.c reads them: by      *)
(* name, and each with the commands behind its header.  An image is a record:     *)
(*    path      its path, a sequence of pieces, one within another's name too    *)
(*    valid     whether its header is one of a Mach-O file                        *)
(*    slide     what was added to the addresses of its segments                   *)
(*    commands  its load commands: records of cmd, name, from, size, uuid,          *)
(*              version                                                        *)
(*    info      its section of crash messages, None without one: a record of size,  *)
(*              readable, version, message, message2                             *)
(* A message is None, or how many bytes from it on can be read, and the place of    *)
(* the first zero.                                                           *)

Occurs(name, path) ==
    \E i \in DOMAIN path : i + Len(name) - 1 <= Len(path) /\ SubSeq(path, i, i + Len(name) - 1) = name

\* growingcrashdl_imageNamed: the first, 0 without one.
ImageNamed(images, name, exact) ==
    IF name = None THEN 0
    ELSE SelectInSeq(images, LAMBDA image : IF exact THEN image.path = name ELSE Occurs(name, image.path))

CommandsOf(image, cmds) ==
    IF image.valid THEN SelectSeq(image.commands, LAMBDA command : command.cmd \in cmds) ELSE <<>>

\* growingcrashdl_imageUUID: the first one of the image.
ImageUUID(images, name, exact) ==
    LET index == ImageNamed(images, name, exact)
        uuids == CommandsOf(images[index], {"LC_UUID"})
    IN IF index = 0 \/ uuids = <<>> THEN None ELSE Head(uuids).uuid

\* isValidCrashInfoMessage: it ends within the bytes that can be read; these are
\* tried up to the end of the buffer and not only as far as was asked.
IsValidCrashInfoMessage(message) ==
    message # None /\ message.zero # 0 /\ message.zero <= Min({message.readable, TestBuffer})

\* getCrashInfo
CrashInfo(info) ==
    IF /\ info # None /\ info.size >= MinimalSize /\ info.readable >= MinimalSize
       /\ info.version \in {4, 5}
    THEN [message |-> IF IsValidCrashInfoMessage(info.message) THEN info.message ELSE None,
          message2 |-> IF IsValidCrashInfoMessage(info.message2) THEN info.message2 ELSE None]
    ELSE [message |-> None, message2 |-> None]

LastOf(commands, default) == IF commands = <<>> THEN default ELSE Last(commands)

\* Mutant: any segment gives the size.
AnySegment(command) == command.cmd \in {"LC_SEGMENT", "LC_SEGMENT_64"}
IsText(command) == command.cmd \in {"LC_SEGMENT", "LC_SEGMENT_64"} /\ command.name = "__TEXT"

\* growingcrashdl_getBinaryImageForHeader: of each command the last one counts.
GetBinaryImage(image) ==
    LET text == LastOf(SelectSeq(image.commands, IsText), [from |-> 0, size |-> 0])
        id == LastOf(CommandsOf(image, {"LC_ID_DYLIB"}), [version |-> 0])
    IN [address |-> image.header, vmAddress |-> text.from, size |-> text.size,
        name |-> image.path, uuid |-> LastOf(CommandsOf(image, {"LC_UUID"}), [uuid |-> None]).uuid,
        majorVersion |-> id.version \div 65536, minorVersion |-> (id.version \div 256) % 256,
        revisionVersion |-> id.version % 256]
       @@ CrashInfo(image.info)

\* writeBinaryImages: an image with a damaged header is left out.
BinaryImages(images) ==
    LET valid == SelectSeq(images, LAMBDA image : image.valid)
    IN [i \in DOMAIN valid |-> GetBinaryImage(valid[i])]

-----------------------------------------------------------------------------
(* What the fields are set to.                                              *)

\* growingcrashsysctl_stringForName: how many bytes the value has, its end included, and
\* the value if there is a place for it; nothing if it cannot be read or is longer.
StringForName(name, room) ==
    LET value == device.sysctl[name]
    IN IF value = None \/ (room # None /\ room < Len(value) + 1) THEN [size |-> 0, value |-> None]
       ELSE [size |-> Len(value) + 1, value |-> IF room = None THEN None ELSE value]

\* A text that cannot be read is NULL, a number and a time 0.
StringSysctl(name) == StringForName(name, StringForName(name, None).size).value
NumberSysctl(name) == IF device.sysctl[name] = None THEN "0" ELSE device.sysctl[name]
TimevalSysctl(name) == IF device.sysctl[name] = None THEN 0 ELSE device.sysctl[name]
DateSysctl(name) == <<"date", TimevalSysctl(name)>>

\* nsstringSysctl: an empty text instead.
TextSysctl(name) ==
    LET size == StringForName(name, None).size
    IN IF size = 0 THEN <<>> ELSE <<StringForName(name, size).value>>

CPUArchForCPUType(type, subtype) ==
    CASE type = "CPU_TYPE_ARM" /\ subtype \in {"armv6", "armv7", "armv7f", "armv7k", "armv7s"} -> subtype
      [] type = "CPU_TYPE_ARM64" -> IF subtype = "arm64e" THEN "arm64e" ELSE "arm64"
      [] type = "CPU_TYPE_X86" -> "x86"
      [] type = "CPU_TYPE_X86_64" -> "x86_64"
      [] OTHER -> None

\* getCurrentCPUArch: what this code was built for if it is none of these.
CurrentCPUArch ==
    LET arch == CPUArchForCPUType(NumberSysctl("hw.cputype"), NumberSysctl("hw.cpusubtype"))
    IN IF arch = None THEN device.builtFor ELSE arch

\* getAppUUID: of the image with the path of the executable, or with its name in
\* its path.
AppUUID ==
    LET exact == ImageUUID(device.images, device.executablePath, TRUE)
    IN IF exact # None THEN exact
       ELSE ImageUUID(device.images, <<Last(device.executablePath)>>, FALSE)

\* growingcrashsysctl_getMacAddress: whatever fails on the way leaves the bytes as they
\* were, which is 0.
MacAddress == IF device.interface = None THEN "000000" ELSE device.interface

\* getDeviceAndAppHash: of all these one behind the other; the identifier for
\* vendors, which stays 0 if there is none, or on a Mac the address of the network,
\* has a fixed length.
VendorBytes == IF device.vendor = None THEN "0000000000000000" ELSE device.vendor
DeviceAndAppHash ==
    <<IF device.mac THEN MacAddress ELSE VendorBytes>> \o TextSysctl("hw.machine") \o TextSysctl("hw.model")
    \o <<CurrentCPUArch>> \o (IF device.bundleID = None THEN <<>> ELSE <<device.bundleID>>)

BuildType ==
    IF device.simulator THEN "simulator"
    ELSE IF device.debug THEN "debug"
    ELSE IF device.receipt = "sandboxReceipt" THEN "test"
    ELSE IF device.receipt = "receipt" /\ device.receiptExists THEN "app store"
    ELSE "unknown"

\* getStorageSize: 0 if the file system does not answer.
StorageSize == IF device.storage = None THEN 0 ELSE device.storage

Value(field) ==
    CASE field = "machine" ->
            IF device.simulator THEN device.simulated
            ELSE StringSysctl(IF device.mac THEN "hw.model" ELSE "hw.machine")
      [] field = "model" ->
            IF device.simulator THEN "simulator"
            ELSE IF device.mac THEN None ELSE StringSysctl("hw.model")
      [] field = "isJailbroken" -> ImageNamed(device.images, <<"MobileSubstrate">>, FALSE) # 0
      [] field = "bootTime" -> DateSysctl("kern.boottime")
      [] field = "bundleID" -> device.bundleID
      [] field = "appID" -> AppUUID
      [] field = "cpuArchitecture" -> CurrentCPUArch
      [] field = "deviceAppHash" -> DeviceAndAppHash
      [] field = "buildType" -> BuildType
      [] field = "storageSize" -> StorageSize

\* freeMemory and usableMemory, of what VMStats answers, 0 if it does not.
FreeMemory(stats) == IF stats = None THEN 0 ELSE device.pageSize * stats.free
UsableMemory(stats) ==
    IF stats = None THEN 0
    ELSE device.pageSize * ((stats.active + stats.inactive + stats.wire + stats.free) % PageWord)

-----------------------------------------------------------------------------
(* The monitor.                                                            *)

\* A report: how many fields it has copied, whether it stops the others, whether the
\* monitor was enabled and its fields were complete when it was begun.
NoReport == [at |-> "none", suspends |-> FALSE, copied |-> 0, system |-> <<>>,
             free |-> 0, usable |-> 0, complete |-> FALSE, images |-> <<>>]

Init ==
    /\ device \in Devices
    /\ systemData = <<>>
    /\ isEnabled = FALSE /\ isInitialized = FALSE
    /\ setter = None /\ toggles = 0
    /\ reports = 0 /\ report = NoReport

Collecting == report.at \in {"copy", "free", "usable"}
Stopped == Collecting /\ report.suspends

\* setEnabled(true): enabled first, then initialized.
Enable ==
    /\ ~isEnabled /\ setter = None /\ ~Stopped
    /\ toggles < MaxToggles /\ toggles' = toggles + 1
    /\ isEnabled' = TRUE /\ isInitialized' = TRUE
    /\ setter' = IF ~isInitialized THEN 0 ELSE None
    /\ UNCHANGED <<device, systemData, reports, report>>

\* initialize, a field at a time.
SetField ==
    /\ setter # None /\ ~Stopped
    /\ LET n == setter + 1
       IN /\ systemData' = Fields[n] :> Value(Fields[n]) @@ systemData
          /\ setter' = IF n = Len(Fields) THEN None ELSE n
    /\ UNCHANGED <<device, isEnabled, isInitialized, toggles, reports, report>>

\* setEnabled(false), by a crash on another thread too, whose report has its
\* information by then.
Disable ==
    /\ isEnabled /\ ~Collecting
    /\ toggles < MaxToggles /\ toggles' = toggles + 1
    /\ isEnabled' = FALSE
    /\ UNCHANGED <<device, systemData, isInitialized, setter, reports, report>>

IsComplete == isEnabled /\ isInitialized /\ setter = None

\* addContextualInfoToEvent
BeginReport(suspends) ==
    /\ report.at \in {"none", "written"} /\ reports < MaxReports /\ reports' = reports + 1
    /\ report' = [NoReport EXCEPT !.at = IF isEnabled THEN "copy" ELSE "write",
                                  !.suspends = suspends, !.complete = IsComplete]
    /\ UNCHANGED <<device, systemData, isEnabled, isInitialized, setter, toggles>>

CopyReference ==
    /\ report.at = "copy"
    /\ LET n == report.copied + 1
       IN report' = [report EXCEPT !.copied = n,
                         !.system = Restrict(systemData, {Fields[n]} \cap DOMAIN systemData) @@ @,
                         !.at = IF n = Len(Fields) THEN "free" ELSE "copy"]
    /\ UNCHANGED <<device, systemData, isEnabled, isInitialized, setter, toggles, reports>>

\* The memory is asked for twice, and other processes use it in between.
ReadMemory(stats) ==
    /\ \/ report.at = "free" /\ report' = [report EXCEPT !.at = "usable", !.free = FreeMemory(stats)]
       \/ report.at = "usable" /\ report' = [report EXCEPT !.at = "write", !.usable = UsableMemory(stats)]
    /\ UNCHANGED <<device, systemData, isEnabled, isInitialized, setter, toggles, reports>>

WriteImages ==
    /\ report.at = "write"
    /\ report' = [report EXCEPT !.at = "written", !.images = BinaryImages(device.images)]
    /\ UNCHANGED <<device, systemData, isEnabled, isInitialized, setter, toggles, reports>>

Next ==
    \/ Enable
    \/ SetField
    \/ Disable
    \/ \E suspends \in BOOLEAN : BeginReport(suspends)
    \/ CopyReference
    \/ \E stats \in device.stats : ReadMemory(stats)
    \/ WriteImages

Spec == Init /\ [][Next]_vars

-----------------------------------------------------------------------------
(* Properties.                                                             *)

IsSet(field) == field \in DOMAIN report.system

\* A report that begins when the monitor is enabled and has collected everything has
\* all of it, however often the monitors were changed, one that begins earlier a
\* part, and one with the others suspended the first part of it.  It says that the
\* device is jailbroken if the library that does it is among the images, wherever
\* that lies, and names a processor even if the system does not (initialize,
\* addContextualInfoToEvent).
SystemIsWhole ==
    report.at = "written" =>
        /\ report.complete => \A field \in FieldSet : IsSet(field)
        /\ IsSet("isJailbroken") =>
              (report.system["isJailbroken"] <=> \E image \in ToSet(device.images) : "MobileSubstrate" \in ToSet(image.path))
        /\ IsSet("cpuArchitecture") => report.system["cpuArchitecture"] # None
        /\ report.suspends => \A i, j \in DOMAIN Fields : i < j /\ IsSet(Fields[j]) => IsSet(Fields[i])

\* The identifier of the application is that of the image with the path of its
\* executable, if that has one (getAppUUID).
AppIsIdentified ==
    report.at = "written" /\ report.complete =>
        \A image \in ToSet(device.images) :
            image.path = device.executablePath /\ CommandsOf(image, {"LC_UUID"}) # <<>> =>
                report.system["appID"] = Head(CommandsOf(image, {"LC_UUID"})).uuid

Addresses(image) == IF image.size = 0 THEN {} ELSE image.address .. image.address + image.size - 1

\* The code of an image is where the report says, and no two images of a report are
\* in one place; a message of an image that is reported can be read to its end
\* (writeBinaryImage, getCrashInfo).
ImagesAreTold ==
    report.at = "written" =>
        /\ \A i \in DOMAIN device.images :
              LET image == device.images[i]
                  text == {c \in ToSet(image.commands) : IsText(c)}
                  code == UNION {c.from + image.slide .. c.from + image.slide + c.size - 1 : c \in text}
              IN image.valid => \E told \in ToSet(report.images) :
                     told.name = image.path /\ Addresses(told) = code
        /\ \A a, b \in DOMAIN report.images :
              a # b => Addresses(report.images[a]) \cap Addresses(report.images[b]) = {}
        /\ \A told \in ToSet(report.images) : \A m \in {told.message, told.message2} :
              m # None => m.zero \in 1 .. m.readable

\* No more memory is told than the device has, and all that is free is usable unless
\* it changed between the two questions; on a device with PageWord pages or more the
\* sum of the usable ones wraps (GrowingCrashMonitor_System.m:223), and more may be told
\* to be free than to be usable (freeMemory, usableMemory).
MemoryIsTold ==
    report.at = "written" =>
        /\ {report.free, report.usable} \subseteq 0 .. device.pageSize * device.pages
        /\ Cardinality(device.stats) = 1 /\ device.pages < PageWord => report.free <= report.usable

\* A report tells the system, the application, the memory and the images as they are,
\* or not at all (addContextualInfoToEvent, writeBinaryImages).
SystemIsTold == SystemIsWhole /\ AppIsIdentified /\ MemoryIsTold /\ ImagesAreTold
=============================================================================
