---------------------------- MODULE FileBuffers ----------------------------
(***************************************************************************)
(* The buffered files of GrowingCrashFileUtils.c: the writer that every crash    *)
(* report goes through, the reader of the console log's lines, and the read of  *)
(* an entire file, while the process may be killed, a disk may be full and      *)
(* another may write to the file; and what the library has beside them: reads of  *)
(* a number of bytes and of one line, and writes of a text.                        *)
(*                                                                         *)
(* A byte that is written is its number, a byte that is read is a letter, NL or NUL.*)
(***************************************************************************)
EXTENDS Integers, Sequences, FiniteSets, SequencesExt

CONSTANTS
    BufferLength,      \* of the writer and the reader: 1024 and 1023 in the code
    LineRoom,          \* bytes of a line that are taken at once: 1024 in the code
    FormatBuffer,      \* of a text that is formatted: 1024 in the code
    MaxLength,         \* given to readEntireFile, 0 for the whole file
    MaxBytes,          \* bound: bytes given to the writer, and put on the disk when writes fail
    Files              \* texts of files that are read

VARIABLES
    job,               \* "write", "lines", "entire", "bytes", "line" or "text"
    disk,              \* what the file holds
    given,             \* how many bytes the writer was given, or a read asks for
    buffer,            \* bytes of the writer that wait, or of the reader not yet taken
    state,             \* "new", "open", "failed" (a write did), "closed",
                       \* "killed", "lost" (killed after a failure), "long"
    at,                \* where the file is read next
    line,              \* the line being read
    lines              \* and those before it

vars == <<job, disk, given, buffer, state, at, line, lines>>

NL == "newline"
NUL == "end"
Lesser(a, b) == IF a < b THEN a ELSE b

-----------------------------------------------------------------------------
(* The writer.                                                             *)

\* writeBytesToFD from what the file held: all of it, or an error or the end of the
\* process behind any byte.
Attempts(held, bytes) ==
    {[disk |-> held \o bytes, outcome |-> "written"]} \cup
    {[disk |-> held \o SubSeq(bytes, 1, k), outcome |-> outcome] :
        k \in 0 .. Len(bytes) - 1, outcome \in {"error", "killed"}}

\* The state a write leaves; a failure is not forgotten.
After(before, outcome) ==
    IF outcome = "written" THEN before
    ELSE IF outcome = "killed" /\ before = "open" THEN "killed"
    ELSE IF outcome = "killed" THEN "lost" ELSE "failed"

\* flushBufferedWriter: the buffer is as full as it was if the write fails.
Flushes == {[disk |-> attempt.disk, state |-> After(state, attempt.outcome),
             buffer |-> IF attempt.outcome = "written" THEN <<>> ELSE buffer] :
                attempt \in Attempts(disk, buffer)}

Bytes(n) == [i \in 1 .. n |-> given + i]
Fits(n) == n <= BufferLength - Len(buffer)

\* Mutant: a piece larger than the buffer goes to the file before what waits.
OnlyForSmall(n) == ~Fits(n) /\ n <= BufferLength

FlushesBefore(n) == ~Fits(n)

\* writeBufferedWriter: flush if the piece does not fit; write it at once if it is
\* larger than the buffer, or else copy it behind what waits, whatever the flush said.
WriteBufferedWriter(n) ==
    /\ job = "write" /\ state \in {"open", "failed"}
    /\ given + n <= MaxBytes /\ Len(disk) + Len(buffer) <= MaxBytes
    /\ \E flushed \in IF FlushesBefore(n) THEN Flushes
                       ELSE {[disk |-> disk, state |-> state, buffer |-> buffer]} :
          IF flushed.state \in {"killed", "lost"}
          THEN disk' = flushed.disk /\ state' = flushed.state /\ buffer' = flushed.buffer
          ELSE IF n > BufferLength
          THEN \E attempt \in Attempts(flushed.disk, Bytes(n)) :
                  /\ disk' = attempt.disk /\ state' = After(flushed.state, attempt.outcome)
                  /\ buffer' = flushed.buffer
          ELSE disk' = flushed.disk /\ state' = flushed.state /\ buffer' = flushed.buffer \o Bytes(n)
    /\ given' = given + n
    /\ UNCHANGED <<job, at, line, lines>>

\* flushBufferedWriter between the sections of a report, and closeBufferedWriter.
Flush(next) ==
    /\ job = "write" /\ state \in {"open", "failed"} /\ Len(disk) + Len(buffer) <= MaxBytes
    /\ \E flushed \in Flushes :
          /\ disk' = flushed.disk /\ buffer' = flushed.buffer
          /\ state' = IF flushed.state = "open" THEN next ELSE flushed.state
    /\ UNCHANGED <<job, given, at, line, lines>>

FlushBufferedWriter == buffer # <<>> /\ Flush("open")
CloseBufferedWriter == Flush("closed")

\* writeStringToFD: an empty text is an error, and goes no further.
WriteStringToFD(n) ==
    IF n = 0 THEN state' = "failed" /\ UNCHANGED disk
    ELSE \E attempt \in Attempts(disk, Bytes(n)) :
            disk' = attempt.disk /\ state' = After("open", attempt.outcome)

\* writeFmtToFD and writeFmtArgsToFD: what the buffer has room for.
WriteFmtToFD ==
    /\ job = "text" /\ state = "new"
    /\ \E n \in 0 .. MaxBytes :
          /\ WriteStringToFD(Lesser(n, FormatBuffer - 1))
          /\ line' = [i \in 1 .. n |-> i]
    /\ UNCHANGED <<job, given, buffer, at, lines>>

-----------------------------------------------------------------------------
(* The reader.                                                             *)

\* fillReadBuffer, into a buffer that is always empty here: what read returns.
FillReadBuffer ==
    LET n == Lesser(BufferLength, Len(disk) - at)
    IN buffer' = SubSeq(disk, at + 1, at + n) /\ at' = at + n

OpenBufferedReader ==
    /\ job \in {"lines", "bytes"} /\ state = "new"
    /\ state' = "open"
    /\ FillReadBuffer
    /\ given' \in IF job = "bytes" THEN 1 .. LineRoom ELSE {given}
    /\ UNCHANGED <<job, disk, line, lines>>

\* readBufferedReader, once around its loop: fill the buffer if nothing is there, and
\* give what is there, up to what is still asked for.
ReadBufferedReader ==
    /\ job = "bytes" /\ state = "open"
    /\ IF buffer = <<>> /\ at < Len(disk)
       THEN FillReadBuffer /\ UNCHANGED <<state, line, lines>>
       ELSE LET n == Lesser(given - Len(line), Len(buffer))
                taken == line \o SubSeq(buffer, 1, n)
                over == Len(taken) = given \/ buffer = <<>>
            IN /\ line' = IF over THEN <<>> ELSE taken
               /\ lines' = IF over THEN Append(lines, taken) ELSE lines
               /\ state' = IF buffer = <<>> THEN "closed" ELSE "open"
               /\ buffer' = SubSeq(buffer, n + 1, Len(buffer))
               /\ UNCHANGED at
    /\ UNCHANGED <<job, disk, given>>

\* readLineFromFD: bytes up to a newline, which is taken and not given, to the end of
\* the file, or as many as there is room for.  The end of the file is told as an empty
\* line.
ReadLineFromFD ==
    /\ job = "line" /\ state \in {"new", "open"}
    /\ LET stops == {i \in at + 1 .. Len(disk) : disk[i] = NL \/ i = at + LineRoom}
           stop == IF stops = {} THEN Len(disk) + 1 ELSE CHOOSE i \in stops : \A j \in stops : i <= j
           newline == stop \in DOMAIN disk /\ disk[stop] = NL /\ stop < at + LineRoom
       IN \/ /\ lines' = Append(lines, SubSeq(disk, at + 1, stop - 1))
             /\ at' = IF newline THEN stop ELSE stop - 1
             /\ state' = IF at = Len(disk) THEN "closed" ELSE "open"
          \/ at' \in at .. stop - 1 /\ state' = "failed" /\ UNCHANGED lines
    /\ UNCHANGED <<job, disk, given, buffer, line>>

\* strchr sees no further than the first NUL.
Found == {i \in DOMAIN buffer : buffer[i] = NL /\ \A j \in 1 .. i - 1 : buffer[j] # NUL}

ToNewline ==
    IF Found = {} THEN Len(buffer) ELSE CHOOSE i \in Found : \A j \in Found : i <= j

\* addTextLinesFromFile: the last byte of a line is replaced by its end, and the text
\* ends at the first NUL.
TextOf(bytes) ==
    LET cut == SubSeq(bytes, 1, Len(bytes) - 1)
        nuls == {i \in DOMAIN cut : cut[i] = NUL}
    IN IF nuls = {} THEN cut ELSE SubSeq(cut, 1, (CHOOSE i \in nuls : \A j \in nuls : i <= j) - 1)

\* readBufferedReaderUntilChar, once around its loop: take what is there up to the
\* newline or the limit.  A newline that was seen ends the line, also when the limit
\* lies before it.
TakeFromBuffer ==
    /\ job = "lines" /\ state = "open"
    /\ LET n == Lesser(ToNewline, LineRoom - Len(line))
           taken == line \o SubSeq(buffer, 1, n)
       IN IF Found # {} \/ Len(taken) = LineRoom
          THEN /\ lines' = Append(lines, taken) /\ line' = <<>>
               /\ buffer' = SubSeq(buffer, n + 1, Len(buffer))
               /\ UNCHANGED <<state, at>>
          ELSE /\ FillReadBuffer
               /\ IF at' > at THEN line' = taken /\ UNCHANGED <<state, lines>>
                  ELSE IF taken # <<>> THEN lines' = Append(lines, taken) /\ line' = <<>> /\ UNCHANGED state
                  ELSE state' = "closed" /\ UNCHANGED <<line, lines>>
    /\ UNCHANGED <<job, disk, given>>

-----------------------------------------------------------------------------
(* The entire file.  given is the number of bytes that are to be read.            *)

SeekFrom == Len(disk) - given

\* readEntireFile: size first,
StatFile ==
    /\ job = "entire" /\ state = "new"
    /\ LET whole == MaxLength = 0 \/ MaxLength >= Len(disk)
       IN /\ given' = IF whole THEN Len(disk) ELSE MaxLength
          /\ state' = IF whole THEN "open" ELSE "long"
    /\ UNCHANGED <<job, disk, buffer, at, line, lines>>

\* then the place of the last bytes of a file that is too long, if it has so many,
SeekFile ==
    /\ job = "entire" /\ state = "long"
    /\ IF given <= Len(disk) THEN at' = SeekFrom /\ state' = "open"
       ELSE state' = "closed" /\ UNCHANGED at
    /\ UNCHANGED <<job, disk, given, buffer, line, lines>>

\* and readBytesFromFD: until all is there, the end of the file being no error.
ReadBytesFromFD ==
    /\ job = "entire" /\ state = "open"
    /\ LET n == Lesser(given - Len(buffer), Len(disk) - at)
       IN /\ buffer' = buffer \o SubSeq(disk, at + 1, at + n) /\ at' = at + n
          /\ state' = IF Len(buffer) + n = given THEN "closed" ELSE "open"
    /\ UNCHANGED <<job, disk, given, line, lines>>

\* Another writes to the file, or it is cut.
FileChanges ==
    /\ job = "entire" /\ state \in {"long", "open"}
    /\ \/ disk' = Append(disk, "new") /\ Len(disk) < MaxBytes
       \/ Len(disk) > at /\ disk' = Front(disk)
    /\ lines' = <<"changed">>
    /\ UNCHANGED <<job, given, buffer, state, at, line>>

-----------------------------------------------------------------------------
Init ==
    /\ job \in {"write", "lines", "entire", "bytes", "line", "text"}
    /\ disk \in IF job \in {"write", "text"} THEN {<<>>} ELSE Files
    /\ given = 0 /\ buffer = <<>> /\ at = 0 /\ line = <<>> /\ lines = <<>>
    /\ state = IF job = "write" THEN "open" ELSE "new"

Next ==
    \/ \E n \in 1 .. BufferLength + 1 : WriteBufferedWriter(n)
    \/ FlushBufferedWriter
    \/ CloseBufferedWriter
    \/ WriteFmtToFD
    \/ OpenBufferedReader
    \/ ReadBufferedReader
    \/ ReadLineFromFD
    \/ TakeFromBuffer
    \/ StatFile
    \/ SeekFile
    \/ ReadBytesFromFD
    \/ FileChanges

Spec == Init /\ [][Next]_vars

-----------------------------------------------------------------------------
(* Properties.                                                             *)

InOrder(bytes) == \A i \in DOMAIN bytes : bytes[i] = i

\* A report on disk is a beginning of what was written, and with what waits the whole
\* of it, until a write fails; a process that is killed leaves a beginning, a writer
\* that was closed everything.  Only after an error the code copies behind the end of
\* its buffer (writeBufferedWriter).
WrittenInOrder ==
    job = "write" =>
        /\ state \in {"open", "closed"} => /\ InOrder(disk \o buffer) /\ Len(disk \o buffer) = given
                                          /\ Len(buffer) <= BufferLength
        /\ state = "killed" => InOrder(disk)
        /\ state = "closed" => buffer = <<>>

\* What is cut from a file without NUL: behind each newline and as soon as a line is full.
RECURSIVE LinesOf(_)
LinesOf(text) ==
    LET ends == {i \in DOMAIN text : text[i] = NL \/ i = LineRoom \/ i = Len(text)}
        end == CHOOSE i \in ends : \A j \in ends : i <= j
    IN IF text = <<>> THEN <<>>
       ELSE <<SubSeq(text, 1, end)>> \o LinesOf(SubSeq(text, end + 1, Len(text)))

\* The console log is put into a report line by line wherever the buffer's ends fall,
\* and nothing of the file is passed over: a line that is full and one without a
\* newline lose their last byte, and behind a NUL lines are taken for one
\* (addTextLinesFromFile, readBufferedReaderUntilChar).
LinesAreRead ==
    job = "lines" /\ state = "closed" =>
        /\ FlattenSeq(lines) = disk
        /\ NUL \notin Range(disk) => lines = LinesOf(disk)
        /\ \A i \in DOMAIN lines : NL \notin Range(TextOf(lines[i])) \/ NUL \in Range(lines[i])

\* Reads of a number of bytes give the file as it is, each as many as were asked for
\* but the last; reads of a line give all but the newlines, whatever the room.
BytesAreRead ==
    /\ job = "bytes" /\ state = "closed" =>
          FlattenSeq(lines) = disk /\ \A i \in DOMAIN Front(lines) : Len(lines[i]) = given
    /\ job = "line" /\ state = "closed" =>
          /\ FlattenSeq(lines) = SelectSeq(disk, LAMBDA byte : byte # NL)
          /\ \A i \in DOMAIN lines : Len(lines[i]) < LineRoom

\* A formatted text is written up to the room there is for it, and all of that unless a
\* write fails (writeFmtArgsToFD, writeStringToFD).
TextIsWritten ==
    job = "text" =>
        /\ IsPrefix(disk, line)
        /\ state = "open" => line # <<>> /\ Len(disk) = Lesser(Len(line), FormatBuffer - 1)

\* A file that nobody touches is read to its end, its last bytes if it is too long
\* (readEntireFile); only one that got shorter keeps the reader for ever.
EntireFileIsRead ==
    job = "entire" =>
        /\ at = Len(disk) /\ 0 < at /\ Len(buffer) < given => lines # <<>>
        /\ state = "closed" /\ lines = <<>> =>
              buffer = IF MaxLength > 0 /\ Len(disk) > MaxLength
                       THEN SubSeq(disk, Len(disk) - MaxLength + 1, Len(disk)) ELSE disk

\* What is written is found in the file, and what the file holds is read.
FilesAreWhole == WrittenInOrder /\ TextIsWritten /\ LinesAreRead /\ BytesAreRead /\ EntireFileIsRead
=============================================================================
