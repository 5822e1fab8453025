----------------------------- MODULE StackTraces -----------------------------
(***************************************************************************)
(* The backtrace of a thread: from its registers and the frames on its stack     *)
(* (GrowingCrashCPU_*.c, GrowingCrashStackCursor_MachineContext.c) to addresses,  *)
(* and from these to images and symbols (GrowingCrashSymbolicator.c,            *)
(* GrowingCrashDynamicLinker.c), while no image is loaded or unloaded.           *)
(***************************************************************************)
EXTENDS Integers, Sequences, FiniteSets, SequencesExt

CONSTANTS
    NoSymbol,         \* NULL
    MaxDepth,         \* of the cursor: 500 in the code
    AddressSpace,     \* addresses are below it, signatures are multiples of it: 2^36
    Situations        \* what a thread may have been doing when it was stopped

VARIABLES
    situation,        \* processor, registers, memory, loaded images; see Machine
    cursor,           \* the cursor of the stack
    trace             \* the entries that were written

vars == <<situation, cursor, trace>>

-----------------------------------------------------------------------------
(* Processors: the names of the registers in their order, which register is read *)
(* for each, and what an instruction address has to be freed of.                *)

Processor(names, fields, link, alignment, signed) ==
    [names |-> names, fields |-> fields, link |-> link, alignment |-> alignment, signed |-> signed]

\* The registers x1 to x28 stand for themselves, as x0 does.
Arm64 == Processor(<<"x0", "x29", "fp", "lr", "sp", "pc", "cpsr">>,
                   <<"x0", "fp", "fp", "lr", "sp", "pc", "cpsr">>, TRUE, 4, TRUE)
Arm == Processor(<<"r0", "r7", "ip", "sp", "lr", "pc", "cpsr">>,
                 <<"r0", "fp", "r12", "sp", "lr", "pc", "cpsr">>, TRUE, 2, FALSE)
X86_64 == Processor(<<"rax", "rbx", "rcx", "rdx", "rdi", "rsi", "rbp", "rsp", "r8", "rip", "rflags", "cs", "fs", "gs">>,
                    <<"rax", "rbx", "rcx", "rdx", "rdi", "rsi", "fp", "sp", "r8", "pc", "rflags", "cs", "fs", "gs">>,
                    FALSE, 1, FALSE)
X86_32 == Processor(<<"eax", "ebx", "ecx", "edx", "edi", "esi", "ebp", "esp", "ss", "eflags", "eip", "cs", "ds", "es", "fs", "gs">>,
                    <<"eax", "ebx", "ecx", "edx", "edi", "esi", "fp", "sp", "ss", "eflags", "pc", "cs", "ds", "es", "fs", "gs">>,
                    FALSE, 1, FALSE)
Processors == [arm64 |-> Arm64, arm |-> Arm, x86_64 |-> X86_64, i386 |-> X86_32]

Machine == situation.machine
This == Processors[Machine.processor]
Images == situation.images       \* in the order of dyld
InstructionAddress == Machine.pc
FramePointer == Machine.fp
LinkRegister == IF This.link THEN Machine.lr ELSE 0
NormaliseInstructionPointer(a) == IF This.signed THEN a % AddressSpace ELSE a

\* growingcrashcpu_registerName and growingcrashcpu_registerValue
BasicRegisters == [i \in DOMAIN This.names |-> [name |-> This.names[i], holds |-> This.fields[i]]]

-----------------------------------------------------------------------------
(* The cursor.                                                             *)

\* growingcrashsc_resetCursor, which every cursor begins with, and that of a context.
ResetCursor == [depth |-> 0, gaveUp |-> FALSE, done |-> FALSE]
NewCursor == ResetCursor @@ [frame |-> 0, link |-> 0, past |-> FALSE]

\* The frame a pointer leads to: the one before it and the address of the return.
IsFrame(p) == p \in DOMAIN Machine.memory

-----------------------------------------------------------------------------
(* Symbols.  An image has a slide, segments [from, to) and symbols in the order of *)
(* its table, all at addresses without the slide.                             *)

\* Mutant: the address a call returns to is looked up.
ReturnAddress(a) == a
CallInstruction(a) == a - (a % This.alignment) - 1

\* imageIndexContainingAddress: 0 for none.
ContainsAddress(image, a) ==
    image.valid /\ \E s \in image.segments : a - image.slide >= s[1] /\ a - image.slide < s[2]
ImageIndex(a) ==
    LET containing == {i \in DOMAIN Images : ContainsAddress(Images[i], a)}
    IN IF containing = {} THEN 0 ELSE CHOOSE i \in containing : \A j \in containing : i <= j

\* growingcrashdl_dladdr for the image found: the last of the symbols that begin
\* nearest before the address, debug and external ones apart.  The name of a symbol
\* of an image that was stripped says nothing.
Candidates(image, a) ==
    {i \in DOMAIN image.symbols : LET s == image.symbols[i]
                                  IN ~s.debug /\ s.value # 0 /\ s.value <= a - image.slide}
Nearest(image, candidates) ==
    CHOOSE i \in candidates : \A j \in candidates :
        \/ image.symbols[i].value > image.symbols[j].value
        \/ image.symbols[i].value = image.symbols[j].value /\ i >= j

Symbol(image, a) ==
    LET candidates == Candidates(image, a)
        symbol == image.symbols[Nearest(image, candidates)]
    IN IF candidates = {} THEN [name |-> NoSymbol, at |-> 0]
       ELSE [name |-> IF symbol.stripped THEN NoSymbol ELSE symbol.name, at |-> symbol.value + image.slide]

\* segmentBaseOfImageIndex and the slide: where the symbols and their names are
\* looked for.  The base is 0 for an image without a link edit segment, and may be 0
\* for one that has it: only an image that was not moved either is refused.
SegmentBase(image) == image.base + image.slide

\* growingcrashsymbolicator_symbolicate.  image.symbols is what is found at the place:
\* without a link edit segment, the bytes that happen to be there.
Symbolicate(address) ==
    LET call == CallInstruction(address)
        image == Images[ImageIndex(call)]
        symbol == Symbol(image, call)
        Found(name, function, at) == [address |-> address, image |-> name, symbol |-> function, at |-> at]
    IN IF ImageIndex(call) = 0 THEN Found(NoSymbol, NoSymbol, 0)
       ELSE IF SegmentBase(image) = 0 THEN Found(NoSymbol, NoSymbol, 0)
       ELSE Found(image.name, symbol.name, symbol.at)

-----------------------------------------------------------------------------
(* The backtrace.                                                          *)

TakesTheLink == cursor.link = 0 /\ ~cursor.past /\ LinkRegister # 0

IsLast(frame) == frame.previous = 0 \/ frame.return = 0

\* An entry of the backtrace (writeBacktrace), or its end.
Entry(address, next) ==
    /\ cursor' = [next EXCEPT !.depth = @ + 1]
    /\ trace' = Append(trace, Symbolicate(NormaliseInstructionPointer(address)))
Ends(next) == cursor' = [next EXCEPT !.done = TRUE] /\ UNCHANGED trace

\* advanceCursor: the instruction, the link register, and then frame after frame, until
\* one is not readable or the last, or the trace is deep enough.
Advance ==
    /\ ~cursor.done
    /\ IF cursor.depth >= MaxDepth THEN Ends([cursor EXCEPT !.gaveUp = TRUE])
       ELSE IF cursor.depth = 0 THEN Entry(InstructionAddress, cursor)
       ELSE IF TakesTheLink THEN Entry(LinkRegister, [cursor EXCEPT !.link = LinkRegister])
       ELSE LET from == IF cursor.past THEN cursor.frame ELSE FramePointer
                frame == Machine.memory[from]
            IN IF ~IsFrame(from) \/ IsLast(frame) THEN Ends(cursor)
               ELSE Entry(frame.return, [cursor EXCEPT !.past = TRUE, !.frame = frame.previous])
    /\ UNCHANGED situation

Init ==
    /\ situation \in Situations
    /\ cursor = NewCursor
    /\ trace = <<>>

Next == Advance

Spec == Init /\ [][Next]_vars

-----------------------------------------------------------------------------
(* Properties.  situation.calls is the truth: the functions that are running, the  *)
(* innermost first, each with its image and the address it has come to; what their   *)
(* frames say is intact for the first situation.sound of them.                   *)

Calls == situation.calls

\* Images that have no name in a trace: their header is damaged, or they have no
\* segment base and were not moved; and the ones whose symbols are not symbols.
Unnamed == {image.name : image \in {x \in Range(Images) : ~x.valid \/ SegmentBase(x) = 0}}
Tableless == {image.name : image \in {x \in Range(Images) : ~x.linkedit}}

\* An entry has the image of the call, and its function where the image has symbols.
Tells(entry, call) ==
    /\ entry.image = IF call.image \in Unnamed THEN NoSymbol ELSE call.image
    /\ entry.symbol = call.function \/ call.image \in Tableless \ Unnamed

\* The calls a trace can show: all that run, in order; with the link register of a
\* function that has its frame, one entry behind the first that says nothing, here 0;
\* and without one, not the caller of a function that has none yet.
Shown ==
    LET all == [i \in DOMAIN Calls |-> i]
    IN IF situation.frame /\ LinkRegister # 0 THEN InsertAt(all, 2, 0)
       ELSE IF situation.frame \/ LinkRegister # 0 \/ Len(all) < 2 THEN all ELSE RemoveAt(all, 2)

\* An instruction that is the first of its function, without a return address to be,
\* is taken for the end of the function before.
SaysNothing(k) == Shown[k] = 0 \/ (k = 1 /\ situation.first)

\* A thread's backtrace names the functions that were running, in their order, from
\* the crash to the thread's beginning or the greatest depth, each with its own image
\* although a call may be the last instruction of its function, and an image may have
\* symbols that are none.  Where the stack is damaged, the trace begins with the
\* functions whose frames are intact, and goes on with anything.  No names are known
\* of a damaged image or of one that has no segment base and was not moved; of one
\* without a link edit segment that was moved the image is right and the function
\* anything (advanceCursor, growingcrashsymbolicator_symbolicate,
\* growingcrashdl_dladdr).
TraceIsTrue ==
    LET depth == IF Len(Shown) < MaxDepth THEN Len(Shown) ELSE MaxDepth
    IN /\ Len(trace) <= MaxDepth
       /\ ~situation.damaged => Len(trace) = depth
       /\ \A k \in 1 .. depth : Shown[k] <= situation.sound =>
              k \in DOMAIN trace /\ (SaysNothing(k) \/ Tells(trace[k], Calls[Shown[k]]))
       /\ cursor.gaveUp => Len(trace) = MaxDepth

\* Each register is written under its name, so that they tell where the trace begins.
RegistersAreNamed ==
    /\ Len(This.names) = Len(This.fields)
    /\ \A i \in DOMAIN This.names : BasicRegisters[i].holds =
           CASE This.names[i] \in {"x29", "r7", "rbp", "ebp"} -> "fp"
             [] This.names[i] \in {"rsp", "esp"} -> "sp"
             [] This.names[i] \in {"rip", "eip"} -> "pc"
             [] This.names[i] = "ip" -> "r12"
             [] OTHER -> This.names[i]

\* The backtraces of a report are those of the threads it is about.
BacktracesAreTrue == cursor.done => TraceIsTrue /\ RegistersAreNamed
=============================================================================
