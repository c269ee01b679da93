----------------------------- MODULE Interrupts -----------------------------
(***************************************************************************)
(* Entering and leaving the kernel: interrupts, exceptions, the scheduler's *)
(* tick and yield, system calls and Interrupts::disable()/enable(), with   *)
(* what each does to the interrupt flag, to the nesting counter            *)
(* CPU::lockLevel, to the GS base and to the registers the stubs push and  *)
(* pop.  Which thread the scheduler picks is left open: the module         *)
(* Scheduler models that.                                                  *)
(***************************************************************************)
EXTENDS Naturals, Sequences, FiniteSets

CONSTANTS
    CPUs,
    UserThreads,    \* threads created with userThread = true
    KernelThreads,  \* idle threads and destroyers: they never exit
    NoThread,
    MaxDepth        \* bound: nested disable() calls

ASSUME InterruptsAssumption ==
    /\ UserThreads \cap KernelThreads = {}
    /\ NoThread \notin UserThreads \cup KernelThreads
    /\ MaxDepth \in Nat

Threads == UserThreads \cup KernelThreads

VARIABLES
    cpu,    \* CPU -> its flag, counter, GS base, and what it executes
    saved,  \* stopped thread -> the frame at Thread::kernelStack
    regs    \* CPU -> register -> whose value it holds: <<thread, register>>

vars == <<cpu, saved, regs>>

\* push_all_regs, and the order in which pop_all_regs takes the slots back; the
\* registers pushed and popped alike stand as one.
PushOrder == <<"rest", "r10", "r12", "r13", "r11", "r14", "r15">>
PopOrder == <<"rest", "r10", "r11", "r12", "r13", "r14", "r15">>
Register == {PopOrder[i] : i \in DOMAIN PopOrder}

Push(values) == [i \in DOMAIN PushOrder |-> values[PushOrder[i]]]

\* Mutant: one pop is missing, every later register gets its neighbour's slot.
PopShifted(stack) ==
    [r \in Register |-> LET i == CHOOSE i \in DOMAIN PopOrder : PopOrder[i] = r
                        IN  stack[(i % Len(PopOrder)) + 1]]

Pop(stack) == [r \in Register |-> stack[CHOOSE i \in DOMAIN PopOrder : PopOrder[i] = r]]

\* An InterruptState with what the interrupted code was doing: the flag and the
\* privilege level the processor saved, the open sections, the registers.
Frame(k, stack) ==
    [if |-> k.if, at |-> k.at, inCall |-> k.inCall, r11 |-> k.r11, depth |-> k.depth,
     opened |-> k.opened, stack |-> stack]

\* createThread(): rflags = 0x202, and the code segment by the kind of thread.
FirstFrame(t) ==
    Frame([if |-> TRUE, at |-> IF t \in UserThreads THEN "user" ELSE "kernel",
           inCall |-> FALSE, r11 |-> FALSE, depth |-> 0, opened |-> FALSE],
          [i \in DOMAIN PopOrder |-> <<t, PopOrder[i]>>])

\* The code a frame interrupted, on a CPU in state k.
Resumed(k, f) ==
    [k EXCEPT !.if = f.if, !.at = f.at, !.inCall = f.inCall, !.r11 = f.r11,
              !.depth = f.depth, !.opened = f.opened]

\* at: "user"; "kernel", code of a thread; "handler", in interruptsHandler();
\* "exit", in exit(); "switch", between the tick, the yield or the switchNext()
\* of exit() and doSwitch(); "halted", after panic().  inCall: within a system call, r11 the flag of its caller on the
\* kernel stack.  depth counts the disable() calls of
\* the code that runs, opened is the flag before the first of them.  A CPU
\* arrives here through Scheduler::start(), with lockLevel as constructed.
Init ==
    /\ cpu = [c \in CPUs |-> [if |-> FALSE, lockLevel |-> 1, gs |-> "kernel", at |-> "switch",
                              thread |-> NoThread, inCall |-> FALSE, r11 |-> FALSE,
                              depth |-> 0, opened |-> FALSE,
                              frame |-> <<>>]]
    /\ saved = [t \in Threads |-> FirstFrame(t)]
    /\ regs = [c \in CPUs |-> [r \in Register |-> <<NoThread, r>>]]

\* Mutant: swapgs on every entry.
SwapAlways(gs, at) == IF gs = "kernel" THEN "user" ELSE "kernel"

\* swapgs_if_necessary: by the privilege level in the frame.
SwapFor(gs, at) == IF at = "user" THEN (IF gs = "kernel" THEN "user" ELSE "kernel") ELSE gs

-----------------------------------------------------------------------------
(* Critical sections *)

Disable(c) ==
    LET k == cpu[c]
    IN  /\ k.at \in {"kernel", "handler", "exit", "switch"} /\ k.depth < MaxDepth
        /\ cpu' = [cpu EXCEPT ![c] = [k EXCEPT
                     !.if = FALSE, !.lockLevel = @ + 1, !.depth = @ + 1,
                     !.opened = IF k.depth = 0 THEN k.if ELSE @]]
        /\ UNCHANGED <<saved, regs>>

Enable(c) ==
    LET k == cpu[c]
    IN  /\ k.at \in {"kernel", "handler", "exit", "switch"} /\ k.depth > 0 /\ k.lockLevel > 0
        /\ cpu' = [cpu EXCEPT ![c] = [k EXCEPT
                     !.if = @ \/ k.lockLevel = 1, !.lockLevel = @ - 1, !.depth = @ - 1]]
        /\ UNCHANGED <<saved, regs>>

-----------------------------------------------------------------------------
(* isr.asm and interruptsHandler() *)

\* Mutant: the handler starts like a system call.
HandlerLevelZero(k) == 0

HandlerLevel(k) == 1

\* The frame goes on the stack of the interrupted thread.
Enter(c) ==
    LET k == cpu[c]
    IN  [k EXCEPT !.if = FALSE, !.gs = SwapFor(k.gs, k.at), !.at = "handler",
                  !.lockLevel = HandlerLevel(k), !.depth = 0, !.opened = FALSE,
                  !.frame = <<Frame(k, Push(regs[c]))>>]

\* An IRQ other than the tick.
Interrupt(c) ==
    /\ cpu[c].if /\ cpu[c].at \in {"user", "kernel"}
    /\ cpu' = [cpu EXCEPT ![c] = Enter(c)]
    /\ UNCHANGED <<saved, regs>>

\* pop_all_regs and iretq: lockLevel stays as the handler leaves it.
InterruptReturn(c) ==
    LET k == cpu[c]
        f == k.frame[1]
    IN  /\ k.at = "handler" /\ k.depth = 0
        /\ cpu' = [cpu EXCEPT ![c] = [Resumed(k, f) EXCEPT !.gs = SwapFor(k.gs, f.at), !.frame = <<>>]]
        /\ regs' = [regs EXCEPT ![c] = Pop(f.stack)]
        /\ UNCHANGED saved

\* An exception, masked or not: every entry of Exceptions::init() panics, and so
\* does a vector without an entry.  The CPU halts with its thread and its locks.
Fault(c) ==
    /\ cpu[c].at \in {"user", "kernel"}
    /\ cpu' = [cpu EXCEPT ![c] = [Enter(c) EXCEPT !.at = "halted"]]
    /\ UNCHANGED <<saved, regs>>

-----------------------------------------------------------------------------
(* The scheduler's entries *)

Stop(c, gs) ==
    LET k == cpu[c]
    IN  /\ saved' = [t \in DOMAIN saved \cup {k.thread} |->
                       IF t = k.thread THEN Frame(k, Push(regs[c])) ELSE saved[t]]
        /\ cpu' = [cpu EXCEPT ![c] = [k EXCEPT
                     !.if = FALSE, !.gs = gs, !.at = "switch", !.lockLevel = 1,
                     !.depth = 0, !.opened = FALSE, !.thread = NoThread, !.inCall = FALSE, !.r11 = FALSE]]
        /\ UNCHANGED regs

Tick(c) ==
    /\ cpu[c].if /\ cpu[c].at \in {"user", "kernel"}
    /\ Stop(c, SwapFor(cpu[c].gs, cpu[c].at))

\* int $0xF0 of a destroyer, masked or not; its handler never swaps GS.
Yield(c) ==
    /\ cpu[c].at = "kernel" /\ cpu[c].thread \in KernelThreads /\ cpu[c].depth = 0
    /\ Stop(c, cpu[c].gs)

\* Mutant: exit() relies on the caller to mask interrupts.
ExitOpen(c) ==
    LET k == cpu[c]
    IN  /\ k.at = "kernel" /\ k.inCall /\ k.depth = 0
        /\ cpu' = [cpu EXCEPT ![c] = [k EXCEPT !.at = "exit", !.thread = NoThread,
                                             !.inCall = FALSE, !.r11 = FALSE]]
        /\ UNCHANGED <<saved, regs>>

\* sysExit(), exit(): its disable() is never undone, the thread never resumed.
Exit(c) ==
    LET k == cpu[c]
    IN  /\ k.at = "kernel" /\ k.inCall /\ k.depth = 0
        /\ cpu' = [cpu EXCEPT ![c] = [k EXCEPT
                     !.if = FALSE, !.lockLevel = @ + 1, !.at = "exit",
                     !.thread = NoThread, !.inCall = FALSE, !.r11 = FALSE]]
        /\ UNCHANGED <<saved, regs>>

\* switchNext(): cli, and the counter starts anew.  A tick or a yield has set
\* both to that already.
SwitchNext(c) ==
    LET k == cpu[c]
    IN  /\ k.at = "exit" /\ k.depth = 0
        /\ cpu' = [cpu EXCEPT ![c] = [k EXCEPT !.if = FALSE, !.lockLevel = 1, !.at = "switch"]]
        /\ UNCHANGED <<saved, regs>>

\* switchTo() and doSwitch(): a stopped thread runs on one CPU only.
SwitchTo(c, t) ==
    LET k == cpu[c]
        f == saved[t]
    IN  /\ k.at = "switch" /\ k.depth = 0 /\ t \in DOMAIN saved
        /\ cpu' = [cpu EXCEPT ![c] = [Resumed(k, f) EXCEPT
                     !.gs = SwapFor(k.gs, f.at), !.lockLevel = 0, !.thread = t]]
        /\ regs' = [regs EXCEPT ![c] = Pop(f.stack)]
        /\ saved' = [s \in DOMAIN saved \ {t} |-> saved[s]]

-----------------------------------------------------------------------------
(* syscall.asm *)

\* The processor keeps the flags in r11, pushed on the kernel stack; SF_MASK
\* clears the flag until then; then sti.
Syscall(c) ==
    /\ cpu[c].at = "user"
    /\ cpu' = [cpu EXCEPT ![c].gs = SwapFor(@, "user"), ![c].at = "kernel", ![c].inCall = TRUE,
                          ![c].r11 = cpu[c].if, ![c].lockLevel = 0, ![c].if = TRUE]
    /\ UNCHANGED <<saved, regs>>

\* cli; pop; swapgs; sysret, which takes the flags from r11.
Sysret(c) ==
    /\ cpu[c].at = "kernel" /\ cpu[c].inCall /\ cpu[c].depth = 0
    /\ cpu' = [cpu EXCEPT ![c].gs = SwapFor(@, "user"), ![c].at = "user", ![c].inCall = FALSE,
                          ![c].if = cpu[c].r11, ![c].r11 = FALSE]
    /\ UNCHANGED <<saved, regs>>

Next ==
    \E c \in CPUs :
        \/ Disable(c) \/ Enable(c)
        \/ Interrupt(c) \/ InterruptReturn(c) \/ Fault(c)
        \/ Tick(c) \/ Yield(c) \/ Exit(c) \/ SwitchNext(c)
        \/ \E t \in Threads : SwitchTo(c, t)
        \/ Syscall(c) \/ Sysret(c)

Spec == Init /\ [][Next]_vars

-----------------------------------------------------------------------------
(* Properties *)

FrameType ==
    [if : BOOLEAN, at : {"user", "kernel"}, inCall : BOOLEAN, r11 : BOOLEAN,
     depth : 0..MaxDepth, opened : BOOLEAN,
     stack : [DOMAIN PushOrder -> Threads \X Register]]

(* Interrupt handling, scheduling and system calls keep every CPU, every     *)
(* saved frame and every register within its type, the counter within the   *)
(* sections that can be open (isr.asm, switch.asm, syscall.asm).             *)
TypeOK ==
    /\ cpu \in [CPUs -> [if : BOOLEAN, lockLevel : 0..MaxDepth + 2, gs : {"user", "kernel"},
                         at : {"user", "kernel", "handler", "exit", "switch", "halted"},
                         thread : Threads \cup {NoThread}, inCall : BOOLEAN, r11 : BOOLEAN,
                         depth : 0..MaxDepth, opened : BOOLEAN, frame : Seq(FrameType)]]
    /\ \A c \in CPUs : Len(cpu[c].frame) <= 1
    /\ DOMAIN saved \subseteq Threads
    /\ \A t \in DOMAIN saved : saved[t] \in FrameType
    /\ regs \in [CPUs -> [Register -> (Threads \cup {NoThread}) \X Register]]

(* Whatever mixture of ticks, yields, interrupts, system calls and switches  *)
(* led there, the GS base is the kernel's exactly while kernel code runs:    *)
(* getCurrentCPU() reads the CPU's own structure (swapgs_if_necessary tests  *)
(* the frame, syscall_entry swaps without a test, the yield stub never).     *)
GsMatches == \A c \in CPUs : cpu[c].gs = "user" <=> cpu[c].at = "user"

(* While a section between disable() and enable() is open, in a handler and  *)
(* on the way through the scheduler, interrupts are off on that CPU: neither *)
(* the sections nested there nor a thread switch in between turns them on.   *)
(* A CPU that runs user code, and a thread stopped in user code, has them    *)
(* on, however the kernel left lockLevel and the flag: it can be preempted.  *)
FlagMatches ==
    /\ \A c \in CPUs :
          /\ cpu[c].depth > 0 \/ cpu[c].at \in {"handler", "exit", "switch", "halted"} => ~cpu[c].if
          /\ cpu[c].at = "user" => cpu[c].if
    /\ \A t \in DOMAIN saved : saved[t].at = "user" => saved[t].if

(* lockLevel is at least the number of open sections, one more in a handler, *)
(* in exit() and in the scheduler, so the assert(lockLevel > 0) of enable()  *)
(* holds and no enable() of an inner section runs sti.                       *)
LevelCovers ==
    /\ TypeOK
    /\ \A c \in CPUs :
         cpu[c].lockLevel >= cpu[c].depth + IF cpu[c].at \in {"handler", "exit", "switch"} THEN 1 ELSE 0

Shuffled == {"r11", "r12", "r13"}

(* The code of a thread always sees its own register values, on whichever    *)
(* CPU it runs: each register but r11, r12 and r13 its own, and those three  *)
(* some order of their own three values (the push and pop macros disagree).  *)
RegistersKept ==
    \A c \in CPUs :
        cpu[c].at \in {"user", "kernel"} =>
            /\ \A r \in Register \ Shuffled : regs[c][r] = <<cpu[c].thread, r>>
            /\ {regs[c][r] : r \in Shuffled} = {<<cpu[c].thread, r>> : r \in Shuffled}

(* Closing the outermost section leaves interrupts on if they were on before *)
(* it was opened (liballoc_unlock() through Interrupts::enable()).           *)
UnlockEnables ==
    [][\A c \in CPUs : cpu[c].depth = 1 /\ cpu[c].opened /\ Enable(c) => cpu'[c].if]_vars
=============================================================================
