----------------------------- MODULE CrashEvent -----------------------------
(***************************************************************************)
(* From what happened to the context of an event (GrowingCrash_MonitorContext): *)
(* what the handler of a monitor fills in, and what the monitors that are      *)
(* enabled add to it.                                                        *)
(*                                                                         *)
(* What happened is a record: the monitor that caught it ("by"), the exception  *)
(* of the kernel and its code, the signal, the fault address, the name and      *)
(* reason of a thrown exception, and the stack of the thread it happened on.    *)
(***************************************************************************)
EXTENDS Integers, Sequences, FiniteSets, TLC, SequencesExt

CONSTANTS
    None,             \* NULL, and 0 where a type or a signal is meant
    MaxStackDepth,    \* GROWINGCRASHSC_MAX_STACK_DEPTH: 500 in the code
    ThreadCount       \* threads of the program; the first is the main thread

ASSUME EventAssumption == MaxStackDepth \in Nat /\ ThreadCount \in Nat \ {0}

-----------------------------------------------------------------------------
(* GrowingCrashMach.c and GrowingCrashSignalInfo.c; what an exception and a    *)
(* signal stand for, as the Mach monitor has it.                             *)

ExceptionNames == {"EXC_BAD_ACCESS", "EXC_BAD_INSTRUCTION", "EXC_ARITHMETIC", "EXC_EMULATION",
                   "EXC_SOFTWARE", "EXC_BREAKPOINT", "EXC_SYSCALL", "EXC_MACH_SYSCALL",
                   "EXC_RPC_ALERT", "EXC_CRASH"}
FatalSignals == {"SIGABRT", "SIGBUS", "SIGFPE", "SIGILL", "SIGPIPE", "SIGSEGV", "SIGSYS", "SIGTRAP"}

\* The name of an exception or a signal, NULL for one that has none.
ExceptionName(type) == IF type \in ExceptionNames THEN type ELSE None
SignalName(signum) == IF signum \in FatalSignals THEN signum ELSE None

\* Mutant: a bus error is taken for an instruction error.
BusIsInstruction(signum) ==
    CASE signum = "SIGFPE"  -> "EXC_ARITHMETIC"   [] signum = "SIGSEGV" -> "EXC_BAD_ACCESS"
      [] signum = "SIGBUS"  -> "EXC_BAD_INSTRUCTION" [] OTHER -> None

\* machExceptionForSignal
MachExceptionForSignal(signum) ==
    CASE signum = "SIGFPE"  -> "EXC_ARITHMETIC"
      [] signum \in {"SIGSEGV", "SIGBUS"} -> "EXC_BAD_ACCESS"
      [] signum = "SIGILL"  -> "EXC_BAD_INSTRUCTION"
      [] signum = "SIGTRAP" -> "EXC_BREAKPOINT"
      [] signum = "SIGEMT"  -> "EXC_EMULATION"
      [] signum = "SIGSYS"  -> "EXC_UNIX_BAD_SYSCALL"
      [] signum = "SIGPIPE" -> "EXC_UNIX_BAD_PIPE"
      [] signum = "SIGABRT" -> "EXC_CRASH"
      [] signum = "SIGKILL" -> "EXC_SOFT_SIGNAL"
      [] OTHER -> None

\* signalForMachException
SignalForMachException(type, code) ==
    CASE type = "EXC_ARITHMETIC"      -> "SIGFPE"
      [] type = "EXC_BAD_ACCESS"      -> IF code = "KERN_INVALID_ADDRESS" THEN "SIGSEGV" ELSE "SIGBUS"
      [] type = "EXC_BAD_INSTRUCTION" -> "SIGILL"
      [] type = "EXC_BREAKPOINT"      -> "SIGTRAP"
      [] type = "EXC_EMULATION"       -> "SIGEMT"
      [] type = "EXC_SOFTWARE"        ->
            CASE code = "EXC_UNIX_BAD_SYSCALL" -> "SIGSYS"
              [] code = "EXC_UNIX_BAD_PIPE"    -> "SIGPIPE"
              [] code = "EXC_UNIX_ABORT"       -> "SIGABRT"
              [] code = "EXC_SOFT_SIGNAL"      -> "SIGKILL"
              [] OTHER -> None
      [] OTHER -> None

-----------------------------------------------------------------------------
(* The context of the thread (GrowingCrashMachineContext.c), and the cursor   *)
(* over its stack.                                                          *)

\* A thread that asks for its own context has no registers, and so no stack
\* pointer, unless a signal has brought them.
CanHaveCPUState(isCurrent, isSignal) == ~isCurrent \/ isSignal

\* The list of threads is only taken for the context of a crash.
GetThreadList(crashed) == IF crashed THEN [i \in 1 .. ThreadCount |-> i] ELSE <<>>

ContextForThread(thread, isCurrent, crashed) ==
    [thread |-> thread, crashed |-> crashed, cpu |-> CanHaveCPUState(isCurrent, FALSE),
     threads |-> GetThreadList(crashed)]
ContextForSignal(thread) ==
    [thread |-> thread, crashed |-> TRUE, cpu |-> CanHaveCPUState(TRUE, TRUE), threads |-> GetThreadList(TRUE)]

\* growingcrashmc_indexOfThread: -1 if it is not in the list, or there is none.
IndexOfThread(machine, thread) == SelectInSeq(machine.threads, LAMBDA t : t = thread) - 1
HasValidExceptionRegisters(machine) == machine.cpu /\ machine.crashed

\* advanceCursor: the frames of the stack up to the depth, and then it gives up.
MachineCursor(stack) ==
    IF Len(stack) < MaxStackDepth THEN [frames |-> stack, hasGivenUp |-> FALSE]
    ELSE [frames |-> SubSeq(stack, 1, MaxStackDepth), hasGivenUp |-> TRUE]

\* A backtrace that was collected when the exception was made.
BacktraceCursor(stack) == [frames |-> stack, hasGivenUp |-> FALSE]

-----------------------------------------------------------------------------
(* The handlers.                                                            *)

Empty == [type |-> None, mach |-> [type |-> None, code |-> None], signal |-> None,
          address |-> 0, name |-> None, reason |-> None, zombie |-> None,
          snapshot |-> FALSE, processName |-> None]

\* handleExceptions of the Mach monitor.  isStackOverflow of the context is
\* not set before the code is looked at, so that a code stays what it was.
HandleMach(e) ==
    [Empty EXCEPT !.type = "mach", !.mach = [type |-> e.exception, code |-> e.code],
                  !.signal = SignalForMachException(e.exception, e.code), !.address = e.address]

\* handleSignal
HandleSignal(e) ==
    [Empty EXCEPT !.type = "signal", !.signal = e.signal, !.address = e.address]

\* handleException of the NSException monitor, CPPExceptionTerminate, and
\* growingcrashcm_reportUserException.
HandleThrown(e) ==
    [Empty EXCEPT !.type = e.by, !.name = e.name, !.reason = e.reason, !.snapshot = e.snapshot]

\* handleDeadlock
HandleDeadlock == [Empty EXCEPT !.type = "deadlock"]

\* addContextualInfoToEvent of the Mach monitor: the exception a signal stands for,
\* and that of a crash for an event of another kind than these two.
MachAdds(context) ==
    CASE context.type = "signal" -> [context EXCEPT !.mach.type = MachExceptionForSignal(context.signal)]
      [] context.type = "mach"   -> context
      [] OTHER -> [context EXCEPT !.mach.type = "EXC_CRASH"]

\* That of the signal monitor.
SignalAdds(context) ==
    IF context.type \in {"signal", "mach"} THEN context ELSE [context EXCEPT !.signal = "SIGABRT"]

\* What the enabled monitors add: these two, the system monitor the name of the
\* process, the zombie monitor, which is never disabled, the last exception that
\* was deallocated.
AddContextualInfo(context, enabled, lastException) ==
    LET mach == IF "mach" \in enabled THEN MachAdds(context) ELSE context
        signal == IF "signal" \in enabled THEN SignalAdds(mach) ELSE mach
    IN [signal EXCEPT !.processName = IF "system" \in enabled THEN "app" ELSE @,
                      !.zombie = lastException]

\* The event as the report is written from it.  All monitors but the zombie
\* monitor are disabled when it is a crash of the crash handler
\* (notifyFatalExceptionCaptured).
Event(e, enabled, lastException) ==
    LET context == CASE e.by = "mach"     -> HandleMach(e)
                     [] e.by = "signal"   -> HandleSignal(e)
                     [] e.by = "deadlock" -> HandleDeadlock
                     [] OTHER             -> HandleThrown(e)
    IN [context |-> AddContextualInfo(context, enabled, lastException),
        machine |-> CASE e.by = "deadlock" -> ContextForThread(1, FALSE, FALSE)
                      [] e.by = "signal"   -> ContextForSignal(e.thread)
                      [] OTHER -> ContextForThread(e.thread, e.by # "mach", TRUE),
        cursor |-> IF e.by \in {"mach", "signal", "deadlock"} THEN MachineCursor(e.stack)
                   ELSE BacktraceCursor(e.stack),
        registers |-> e.registers]
=============================================================================
