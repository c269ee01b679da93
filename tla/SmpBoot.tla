------------------------------ MODULE SmpBoot ------------------------------
(***************************************************************************)
(* Starting the processors: kernelMain() on the boot processor, startSMP() *)
(* and the trampoline and apEntry() on each of the others, down to         *)
(* Scheduler::start(), while the processors already started run threads    *)
(* and balance the queues.  The start-up shares the trampoline page, its   *)
(* two parameters, the PIT and the kernel process without a lock: the      *)
(* handshake on `started` is what keeps the processors apart.              *)
(***************************************************************************)
EXTENDS Naturals, Sequences, FiniteSets, SequencesExt

CONSTANTS
    Boot,     \* the boot processor
    Listed,   \* the local APICs of the MADT, in its order
    Enabled,  \* those whose flag is set
    Lapic,    \* LAPIC::isEnable()
    None

\* The first entry enabled is the boot processor; None, the null pointer, is no
\* processor and no thread.
ASSUME SmpBootAssumption ==
    /\ Listed \in Seq(Range(Listed)) /\ IsInjective(Listed)
    /\ Boot \in Enabled /\ Enabled \subseteq Range(Listed)
    /\ \E n \in DOMAIN Listed : Listed[n] = Boot /\ \A m \in 1..n-1 : Listed[m] \notin Enabled
    /\ None \notin Enabled /\ Lapic \in BOOLEAN
    /\ \A c \in Enabled, r \in {"idle", "destroyer", "main", "mainLoads"} : <<r, c>> # None

CPUs == Enabled

VARIABLES
    pc,           \* CPU -> the next step of its start-up, "run" once started
    entry,        \* offset in the MADT
    processors,   \* Scheduler::processors: CPU structures, named by their LAPIC
    gs,           \* CPU -> the structure its GS base points to
    stack,        \* CPU -> the structure its boot stack was allocated for
    table,        \* CPU -> the GDT it uses: "loader", "trampoline" or "own"
    idt,          \* CPUs that loaded the IDT
    if,           \* CPUs with interrupts on
    pit,          \* CPUs that wait for channel 0
    apStack, apCoreIndex, started,
    mapped,       \* the trampoline page is mapped
    core,         \* i of startSMP()
    tickFems,     \* the CPU that calibrated it last
    tickVector,   \* IDT entry 32 is the scheduler's
    timer,        \* CPUs with the periodic timer on
    calls,        \* CPUs whose system call registers are set
    queue,        \* structure -> threads
    current       \* structure -> currentThread

bootVars == <<entry, processors, gs, stack, table, idt, apStack, apCoreIndex, started, mapped, core>>
deviceVars == <<pit, tickFems, tickVector, timer>>
vars == <<pc, bootVars, deviceVars, if, calls, queue, current>>

Idle(c) == <<"idle", c>>
Destroyer(c) == <<"destroyer", c>>
Main == <<"main", Boot>>
MainLoads == <<"mainLoads", Boot>>  \* the same thread, past initSyscalls()

Init ==
    /\ pc = [c \in CPUs |-> IF c = Boot THEN "acpi" ELSE "off"]
    /\ entry = 1 /\ processors = <<>>
    /\ gs = [c \in CPUs |-> None] /\ stack = [c \in CPUs |-> None]
    /\ table = [c \in CPUs |-> "loader"]
    /\ idt = {Boot} /\ if = {} /\ pit = {}
    /\ apStack = None /\ apCoreIndex = 0 /\ started = FALSE
    /\ mapped = FALSE /\ core = 1
    /\ tickFems = None /\ tickVector = FALSE /\ timer = {} /\ calls = {}
    /\ queue = [c \in CPUs |-> <<>>] /\ current = [c \in CPUs |-> None]

\* Mutant: the main thread is added before the other processors are started.
BspOrderMainFirst ==
    <<"acpi", "gdt", "apic", "calibrate", "calibrating", "sched", "threads", "main",
      "map", "core", "init", "delay", "sipi", "wait", "reset", "unmap", "start", "run">>

\* kernelMain() with startSMP() from "map" to "unmap".
BspOrder ==
    <<"acpi", "gdt", "apic", "calibrate", "calibrating", "sched", "threads",
      "map", "core", "init", "delay", "sipi", "wait", "reset", "unmap", "main", "start", "run">>

\* Mutant: the flag is set before the timer is calibrated.
ApOrderLateTimer ==
    <<"off", "sipi", "real", "long", "entry", "sched", "threads", "gdt", "idt",
      "apic", "signal", "calibrate", "calibrating", "syscalls", "start", "run">>

\* Mutant: no lidt on the processors started.
ApOrderNoIdt ==
    <<"off", "sipi", "real", "long", "entry", "sched", "threads", "gdt",
      "apic", "calibrate", "calibrating", "syscalls", "signal", "start", "run">>

\* Mutant: the flag is set after start(), which does not return.
ApOrderSilent ==
    <<"off", "sipi", "real", "long", "entry", "sched", "threads", "gdt", "idt",
      "apic", "calibrate", "calibrating", "syscalls", "start", "run", "signal">>

\* apBoot.asm ("real", "long") and apEntry().
ApOrder ==
    <<"off", "sipi", "real", "long", "entry", "sched", "threads", "gdt", "idt",
      "apic", "calibrate", "calibrating", "syscalls", "signal", "start", "run">>

Order(c) == IF c = Boot THEN BspOrder ELSE ApOrder

\* CPU c does its step s and goes on to the next one.
Step(c, s) ==
    LET o == Order(c)
    IN  /\ pc[c] = s
        /\ pc' = [pc EXCEPT ![c] = o[1 + CHOOSE n \in DOMAIN o : o[n] = s]]

\* What a kmalloc() or kfree() leaves of the flag: enable() runs sti while the CPU
\* has no structure; from then on lockLevel goes from 1 to 2 and back.
AfterHeap(c) == IF gs[c] = None THEN if \cup {c} ELSE if \ {c}

-----------------------------------------------------------------------------
(* Steps of both kinds of processor *)

\* gdt::install()
GdtInstall(c) ==
    /\ Step(c, "gdt") /\ gs[c] # None
    /\ table' = [table EXCEPT ![c] = "own"]
    /\ if' = AfterHeap(c)
    /\ UNCHANGED <<entry, processors, gs, stack, idt, apStack, apCoreIndex, started, mapped, core,
                   deviceVars, calls, queue, current>>

\* Interrupts::init(): the spurious vector of the local APIC.
ApicInit(c) ==
    /\ Step(c, "apic") /\ gs[c] # None
    /\ UNCHANGED <<bootVars, deviceVars, if, calls, queue, current>>

\* calibrateTimer(): program the PIT, wait for it, compute from the difference.
Calibrate(c) ==
    /\ Step(c, "calibrate")
    /\ pit' = pit \cup {c}
    /\ UNCHANGED <<bootVars, tickFems, tickVector, timer, if, calls, queue, current>>

Calibrated(c) ==
    /\ Step(c, "calibrating")
    /\ pit' = pit \ {c} /\ tickFems' = c
    /\ UNCHANGED <<bootVars, tickVector, timer, if, calls, queue, current>>

\* Scheduler::init(): the queues are constructed in place, whatever they held.
SchedulerInit(c) ==
    /\ Step(c, "sched")
    /\ queue' = [queue EXCEPT ![gs[c]] = <<>>]
    /\ if' = AfterHeap(c)
    /\ UNCHANGED <<bootVars, deviceVars, calls, current>>

\* ... the idle thread becomes the current one, the destroyer is queued.
CreateThreads(c) ==
    /\ Step(c, "threads")
    /\ current' = [current EXCEPT ![gs[c]] = Idle(gs[c])]
    /\ queue' = [queue EXCEPT ![gs[c]] = Append(@, Destroyer(gs[c]))]
    /\ if' = AfterHeap(c)
    /\ UNCHANGED <<bootVars, deviceVars, calls>>

-----------------------------------------------------------------------------
(* The scheduler of the processors that run *)

\* balance(): with the CPUs sorted by the length of their queues, the shortest
\* takes from the longest until they differ by at most one, and so on inwards.
Balanced(q, s) ==
    [c \in CPUs |->
        LET n == CHOOSE n \in DOMAIN s : s[n] = c
            d == s[Len(s) + 1 - n]
            moved(small, big) == (Len(q[big]) - Len(q[small])) \div 2
        IN  IF n <= Len(s) \div 2 THEN q[c] \o SubSeq(q[d], 1, moved(c, d))
            ELSE IF n > Len(s) - (Len(s) \div 2) THEN SubSeq(q[c], moved(d, c) + 1, Len(q[c]))
            ELSE q[c]]

Sorted(q) ==
    {s \in Bijection(1..Len(processors), CPUs) :
        \A m, n \in DOMAIN s : m < n => Len(q[s[m]]) <= Len(q[s[n]])}

\* The queues that balance() may leave, when its turn comes and when it does not.
BalanceMay(q) == {q} \cup {Balanced(q, s) : s \in Sorted(q)}

\* switchNext() with the queues as q: the own queue, else one of another CPU
\* (whose lock may be taken), else the idle thread.
SwitchNext(c, q) ==
    \/ /\ q[c] # <<>>
       /\ current' = [current EXCEPT ![c] = Head(q[c])]
       /\ queue' \in BalanceMay([q EXCEPT ![c] = Tail(@)])
    \/ /\ q[c] = <<>>
       /\ \E d \in CPUs \ {c} :
            /\ q[d] # <<>>
            /\ current' = [current EXCEPT ![c] = Head(q[d])]
            /\ queue' \in BalanceMay([q EXCEPT ![d] = Tail(@)])
    \/ /\ q[c] = <<>>
       /\ current' = [current EXCEPT ![c] = Idle(c)]
       /\ queue' = q

\* Scheduler::start(): the vector, the timer, the first thread.
Start(c) ==
    /\ Step(c, "start") /\ tickFems # None
    /\ tickVector' = TRUE /\ timer' = timer \cup {c}
    /\ SwitchNext(gs[c], queue)
    /\ if' = if \cup {c}
    /\ UNCHANGED <<bootVars, pit, tickFems, calls>>

\* A tick, or the yield of a destroyer.
Preempt(c) ==
    /\ pc[c] = "run"
    /\ SwitchNext(gs[c], [queue EXCEPT ![gs[c]] = Append(@, current[gs[c]])])
    /\ UNCHANGED <<pc, bootVars, deviceVars, if, calls>>

\* kernelSchedulerMain(): initSyscalls() for the CPU it happens to run on ...
MainSyscalls(c) ==
    /\ pc[c] = "run" /\ current[gs[c]] = Main
    /\ calls' = calls \cup {c}
    /\ current' = [current EXCEPT ![gs[c]] = MainLoads]
    /\ UNCHANGED <<pc, bootVars, deviceVars, if, queue>>

\* ... and exit().
MainExit(c) ==
    /\ pc[c] = "run" /\ current[gs[c]] = MainLoads
    /\ SwitchNext(gs[c], queue)
    /\ UNCHANGED <<pc, bootVars, deviceVars, if, calls>>

-----------------------------------------------------------------------------
(* The boot processor *)

\* parseMADT() and registerCPU(): the first entry enabled is the boot processor.
RegisterCPU ==
    /\ pc[Boot] = "acpi" /\ entry <= Len(Listed)
    /\ entry' = entry + 1
    /\ IF Listed[entry] \in Enabled
       THEN /\ processors' = Append(processors, Listed[entry])
            /\ gs' = IF processors = <<>> THEN [gs EXCEPT ![Boot] = Listed[entry]] ELSE gs
            /\ if' = AfterHeap(Boot)
       ELSE UNCHANGED <<processors, gs, if>>
    /\ UNCHANGED <<pc, stack, table, idt, apStack, apCoreIndex, started, mapped, core,
                   deviceVars, calls, queue, current>>

AcpiDone ==
    /\ entry > Len(Listed) /\ Step(Boot, "acpi")
    /\ UNCHANGED <<bootVars, deviceVars, if, calls, queue, current>>

\* startSMP() returns at once for one processor or without a local APIC; else
\* it maps the trampoline.
MapTrampoline ==
    /\ \/ /\ Len(processors) <= 1 \/ ~Lapic
          /\ pc[Boot] = "map" /\ pc' = [pc EXCEPT ![Boot] = "main"]
          /\ UNCHANGED <<mapped, if>>
       \/ /\ Len(processors) > 1 /\ Lapic
          /\ Step(Boot, "map")
          /\ mapped' = TRUE /\ if' = if \ {Boot}
    /\ UNCHANGED <<entry, processors, gs, stack, table, idt, apStack, apCoreIndex, started, core,
                   deviceVars, calls, queue, current>>

\* The head of the loop: the next processor that is not this one, or the end.
NextCore ==
    /\ \/ /\ core > Len(processors)
          /\ pc[Boot] = "core" /\ pc' = [pc EXCEPT ![Boot] = "unmap"]
          /\ UNCHANGED <<core, apStack, apCoreIndex, if>>
       \/ /\ core <= Len(processors) /\ processors[core] = gs[Boot]
          /\ pc[Boot] = "core" /\ core' = core + 1
          /\ UNCHANGED <<pc, apStack, apCoreIndex, if>>
       \/ /\ core <= Len(processors) /\ processors[core] # gs[Boot]
          /\ Step(Boot, "core")
          /\ apStack' = processors[core] /\ apCoreIndex' = core
          /\ if' = AfterHeap(Boot)
          /\ UNCHANGED core
    /\ UNCHANGED <<entry, processors, gs, stack, table, idt, started, mapped,
                   deviceVars, calls, queue, current>>

\* INIT resets the target; then delay(50) begins.
SendInit ==
    /\ pc[Boot] = "init"
    /\ pc' = [pc EXCEPT ![Boot] = "delay", ![processors[core]] = "sipi"]
    /\ pit' = pit \cup {Boot}
    /\ UNCHANGED <<bootVars, tickFems, tickVector, timer, if, calls, queue, current>>

DelayOver ==
    /\ Step(Boot, "delay")
    /\ pit' = pit \ {Boot}
    /\ UNCHANGED <<bootVars, tickFems, tickVector, timer, if, calls, queue, current>>

\* The SIPI starts a processor that waits for one.
SendSipi ==
    /\ pc[Boot] = "sipi"
    /\ pc' = [c \in CPUs |-> IF c = Boot THEN "wait"
                             ELSE IF c = processors[core] /\ pc[c] = "sipi" THEN "real"
                             ELSE pc[c]]
    /\ UNCHANGED <<bootVars, deviceVars, if, calls, queue, current>>

\* Mutant: the flag is not reset.
AckKept == started

Acknowledged == FALSE

\* while (!started);
Wait ==
    /\ Step(Boot, "wait") /\ started
    /\ UNCHANGED <<bootVars, deviceVars, if, calls, queue, current>>

\* started = false; and the loop goes on.
Reset ==
    /\ pc[Boot] = "reset"
    /\ started' = Acknowledged
    /\ core' = core + 1 /\ pc' = [pc EXCEPT ![Boot] = "core"]
    /\ UNCHANGED <<entry, processors, gs, stack, table, idt, apStack, apCoreIndex, mapped,
                   deviceVars, if, calls, queue, current>>

\* unmapPage(), and the enable() that takes lockLevel back to 1.
Unmap ==
    /\ Step(Boot, "unmap")
    /\ mapped' = FALSE
    /\ UNCHANGED <<entry, processors, gs, stack, table, idt, apStack, apCoreIndex, started, core,
                   deviceVars, if, calls, queue, current>>

AddMain ==
    /\ Step(Boot, "main")
    /\ queue' = [queue EXCEPT ![gs[Boot]] = Append(@, Main)]
    /\ if' = AfterHeap(Boot)
    /\ UNCHANGED <<bootVars, deviceVars, calls, current>>

-----------------------------------------------------------------------------
(* The other processors *)

\* apBoot.asm: long mode, on the page tables of the kernel, with the trampoline's GDT.
LongMode(c) ==
    /\ Step(c, "real")
    /\ table' = [table EXCEPT ![c] = "trampoline"] /\ gs' = [gs EXCEPT ![c] = None]
    /\ if' = if \ {c}
    /\ UNCHANGED <<entry, processors, stack, idt, apStack, apCoreIndex, started, mapped, core,
                   deviceVars, calls, queue, current>>

TakeStack(c) ==
    /\ Step(c, "long")
    /\ stack' = [stack EXCEPT ![c] = apStack]
    /\ UNCHANGED <<entry, processors, gs, table, idt, apStack, apCoreIndex, started, mapped, core,
                   deviceVars, if, calls, queue, current>>

\* initCPU(getAllCPUs()[apCoreIndex])
InitCPU(c) ==
    /\ Step(c, "entry")
    /\ gs' = [gs EXCEPT ![c] = processors[apCoreIndex]]
    /\ UNCHANGED <<entry, processors, stack, table, idt, apStack, apCoreIndex, started, mapped, core,
                   deviceVars, if, calls, queue, current>>

IdtInitAp(c) ==
    /\ Step(c, "idt")
    /\ idt' = idt \cup {c}
    /\ UNCHANGED <<entry, processors, gs, stack, table, apStack, apCoreIndex, started, mapped, core,
                   deviceVars, if, calls, queue, current>>

InitSyscalls(c) ==
    /\ Step(c, "syscalls")
    /\ calls' = calls \cup {c}
    /\ UNCHANGED <<bootVars, deviceVars, if, queue, current>>

Signal(c) ==
    /\ Step(c, "signal")
    /\ started' = TRUE
    /\ UNCHANGED <<entry, processors, gs, stack, table, idt, apStack, apCoreIndex, mapped, core,
                   deviceVars, if, calls, queue, current>>

-----------------------------------------------------------------------------

BspStep ==
    \/ RegisterCPU \/ AcpiDone
    \/ MapTrampoline \/ NextCore \/ SendInit \/ DelayOver \/ SendSipi \/ Wait \/ Reset
    \/ Unmap \/ AddMain

ApStep(c) ==
    \/ LongMode(c) \/ TakeStack(c) \/ InitCPU(c) \/ IdtInitAp(c) \/ InitSyscalls(c) \/ Signal(c)

StartStep(c) ==
    \/ GdtInstall(c) \/ ApicInit(c) \/ Calibrate(c) \/ Calibrated(c)
    \/ SchedulerInit(c) \/ CreateThreads(c) \/ Start(c)

RunStep(c) == Preempt(c) \/ MainSyscalls(c) \/ MainExit(c)

Next ==
    \/ BspStep
    \/ \E c \in CPUs \ {Boot} : ApStep(c)
    \/ \E c \in CPUs : StartStep(c) \/ RunStep(c)

\* Every processor executes; a delay passes and a SIPI is delivered.
Fairness ==
    /\ WF_vars(BspStep)
    /\ \A c \in CPUs : WF_vars(StartStep(c)) /\ WF_vars(ApStep(c))

Spec == Init /\ [][Next]_vars /\ Fairness

-----------------------------------------------------------------------------
(* Properties *)

(* A processor that has taken its stack and its CPU structure through apStack *)
(* and apCoreIndex has its own: no processor runs on the stack or as the CPU *)
(* of another, though startSMP() passes them to all in the same two          *)
(* variables and a processor reads them long after the SIPI.                 *)
OwnIdentity ==
    /\ \A c \in CPUs : gs[c] \in {None, c} /\ stack[c] \in {None, c}
    /\ \A c \in CPUs \ {Boot} : pc[c] \notin {"off", "sipi", "real", "long"} => stack[c] = c
    /\ \A c \in CPUs : current[c] # None => gs[c] = c

Trampolined == {"real", "long", "entry", "sched", "threads", "gdt"}
Shares == {"calibrate", "calibrating", "delay", "sched", "threads", "main"}

(* The steps that use the PIT or the thread list of the kernel process, which *)
(* have no lock, are taken by one processor at a time: the calibration of one *)
(* never runs into the delay(50) or the createThread() of another.  And the   *)
(* trampoline page stays mapped while a processor executes there or still     *)
(* uses the GDT inside it: the unmapPage() of startSMP() comes after the last *)
(* gdt::install().                                                            *)
HandshakeCovers ==
    /\ Cardinality(pit) <= 1
    /\ Cardinality({c \in CPUs : pc[c] \in Shares}) <= 1
    /\ \A c \in CPUs \ {Boot} : pc[c] \in Trampolined => mapped

Entries(t) ==
    UNION {{<<c, n>> : n \in {n \in DOMAIN queue[c] : queue[c][n] = t}} : c \in CPUs}

Places(t) == Cardinality({c \in CPUs : current[c] = t}) + Cardinality(Entries(t))

(* The processors already started switch and balance while others are still  *)
(* starting; no thread reaches a queue that Scheduler::init() of its owner   *)
(* then constructs anew: every destroyer created is in one queue or current  *)
(* on one CPU, for good.                                                     *)
NoThreadWiped == \A c \in CPUs : current[c] # None => Places(Destroyer(c)) = 1

(* A processor whose timer is on has what the tick uses: the IDT with the    *)
(* scheduler's entry, its own GDT with the TSS, its CPU structure and a      *)
(* current thread; and no other processor started has interrupts on.         *)
TickReady ==
    \A c \in CPUs :
        /\ c \in timer => /\ c \in idt /\ tickVector
                          /\ table[c] = "own" /\ gs[c] # None /\ current[gs[c]] # None
        /\ c \in if /\ c \notin timer => c = Boot /\ pc[c] \in {"acpi", "gdt"}

(* With local APICs every processor registered is started: no signal of one   *)
(* is taken for that of another or lost between the wait and the reset of     *)
(* `started`.                                                                *)
AllRun == Lapic => <>(\A c \in CPUs : pc[c] = "run")
=============================================================================
