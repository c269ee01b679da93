-------------------------- MODULE InterruptsProofs --------------------------
(***************************************************************************)
(* Entering and leaving the kernel is safe for any number of CPUs and      *)
(* threads and any nesting depth: the four invariants of Interrupts that   *)
(* TLC checks on two CPUs, from one inductive invariant.                   *)
(***************************************************************************)
EXTENDS Interrupts, TLAPS

CpuType ==
    [if : BOOLEAN, lockLevel : 0..MaxDepth + 2, gs : {"user", "kernel"},
     at : {"user", "kernel", "handler", "exit", "switch", "halted"},
     thread : Threads \cup {NoThread}, inCall : BOOLEAN, r11 : BOOLEAN,
     depth : 0..MaxDepth, opened : BOOLEAN, frame : Seq(FrameType)]

\* The registers hold the values of thread t, up to the shuffle.
OwnRegs(t, values) ==
    /\ \A r \in Register \ Shuffled : values[r] = <<t, r>>
    /\ {values[r] : r \in Shuffled} = {<<t, r>> : r \in Shuffled}

\* A frame that brings back thread t as FlagMatches and RegistersKept want it.
\* It was stored outside every critical section.
FrameOK(t, f) ==
    /\ f \in FrameType
    /\ f.depth = 0
    /\ f.at = "user" => f.if
    /\ f.inCall => f.r11
    /\ OwnRegs(t, Pop(f.stack))

LevelOK(k) ==
    /\ k.at \in {"user", "kernel"} => k.lockLevel \in {k.depth, k.depth + 1}
    /\ k.at \in {"handler", "switch"} => k.lockLevel = k.depth + 1
    /\ k.at = "exit" => k.lockLevel \in {k.depth + 1, k.depth + 2}

FlagOK(k) ==
    /\ k.depth > 0 \/ k.at \in {"handler", "exit", "switch", "halted"} => ~k.if
    /\ k.at = "user" => k.if /\ k.depth = 0
    /\ k.at = "halted" => k.depth = 0
    /\ k.inCall => k.r11

\* What holds of a CPU in state k with registers values.
CpuOK(k, values) ==
    /\ k \in CpuType
    /\ values \in [Register -> (Threads \cup {NoThread}) \X Register]
    /\ Len(k.frame) <= 1
    /\ k.gs = "user" <=> k.at = "user"
    /\ FlagOK(k)
    /\ LevelOK(k)
    /\ k.at \in {"user", "kernel"} => k.thread \in Threads /\ OwnRegs(k.thread, values)
    /\ k.at = "handler" => /\ k.thread \in Threads
                           /\ Len(k.frame) = 1 /\ FrameOK(k.thread, k.frame[1])

IInv ==
    /\ cpu \in [CPUs -> CpuType]
    /\ regs \in [CPUs -> [Register -> (Threads \cup {NoThread}) \X Register]]
    /\ \A c \in CPUs : CpuOK(cpu[c], regs[c])
    /\ DOMAIN saved \subseteq Threads
    /\ \A t \in DOMAIN saved : FrameOK(t, saved[t])

-----------------------------------------------------------------------------
(* The push and pop macros *)

LEMMA RegisterSet ==
    /\ Register = {"rest", "r10", "r11", "r12", "r13", "r14", "r15"}
    /\ DOMAIN PopOrder = 1..7 /\ DOMAIN PushOrder = 1..7
    /\ \A i \in 1..7 : PushOrder[i] \in Register /\ PopOrder[i] \in Register
  BY DEF Register, PopOrder, PushOrder

\* pop_all_regs takes the slot of each register's place in its own order.
LEMMA PopSlots ==
    ASSUME NEW stack
    PROVE  /\ Pop(stack) \in [Register -> {stack[i] : i \in 1..7}]
           /\ Pop(stack)["rest"] = stack[1] /\ Pop(stack)["r10"] = stack[2]
           /\ Pop(stack)["r11"] = stack[3] /\ Pop(stack)["r12"] = stack[4]
           /\ Pop(stack)["r13"] = stack[5] /\ Pop(stack)["r14"] = stack[6]
           /\ Pop(stack)["r15"] = stack[7]
<1> DEFINE Place(r) == CHOOSE i \in DOMAIN PopOrder : PopOrder[i] = r
<1>1. /\ Place("rest") = 1 /\ Place("r10") = 2 /\ Place("r11") = 3 /\ Place("r12") = 4
      /\ Place("r13") = 5 /\ Place("r14") = 6 /\ Place("r15") = 7
  BY DEF PopOrder
<1>2. \A r \in Register : Place(r) \in 1..7
  BY <1>1, RegisterSet
<1> HIDE DEF Place
<1>3. Pop(stack) = [r \in Register |-> stack[Place(r)]]
  BY DEF Pop, Place
<1> QED
  BY <1>1, <1>2, <1>3, RegisterSet

\* A thread's registers pushed and popped again are its own, up to the shuffle.
LEMMA PushPop ==
    ASSUME NEW t, NEW values, OwnRegs(t, values)
    PROVE  OwnRegs(t, Pop(Push(values)))
<1> DEFINE popped == Pop(Push(values))
<1>1. /\ popped["rest"] = values["rest"] /\ popped["r10"] = values["r10"]
      /\ popped["r14"] = values["r14"] /\ popped["r15"] = values["r15"]
      /\ popped["r11"] = values["r12"] /\ popped["r12"] = values["r13"]
      /\ popped["r13"] = values["r11"]
  BY PopSlots, RegisterSet DEF Push, PushOrder
<1>2. {popped[r] : r \in Shuffled} = {values[r] : r \in Shuffled}
  BY <1>1 DEF Shuffled
<1>3. \A r \in Register \ Shuffled : popped[r] = values[r]
  BY <1>1, RegisterSet DEF Shuffled
<1> HIDE DEF popped
<1>4. OwnRegs(t, popped)
  BY <1>2, <1>3 DEF OwnRegs
<1> QED
  BY <1>4 DEF popped

LEMMA PushType ==
    ASSUME NEW S, NEW values \in [Register -> S \X Register]
    PROVE  Push(values) \in [DOMAIN PushOrder -> S \X Register]
  BY RegisterSet DEF Push

LEMMA PopType ==
    ASSUME NEW S, NEW stack \in [DOMAIN PushOrder -> S \X Register]
    PROVE  Pop(stack) \in [Register -> S \X Register]
  BY PopSlots, RegisterSet

\* The values of a thread's own registers are values of a thread.
LEMMA OwnType ==
    ASSUME NEW t \in Threads, NEW values, DOMAIN values = Register,
           values \in [Register -> (Threads \cup {NoThread}) \X Register],
           OwnRegs(t, values)
    PROVE  values \in [Register -> Threads \X Register]
<1>1. ASSUME NEW r \in Register PROVE values[r] \in Threads \X Register
  <2>1. CASE r \in Register \ Shuffled
    BY <2>1 DEF OwnRegs
  <2>2. CASE r \in Shuffled
    <3>1. values[r] \in {<<t, s>> : s \in Shuffled}
      BY <2>2 DEF OwnRegs
    <3> QED BY <3>1, RegisterSet DEF Shuffled
  <2> QED BY <2>1, <2>2
<1> QED BY <1>1

-----------------------------------------------------------------------------
(* Steps *)

LEMMA FirstFrameOK ==
    ASSUME NEW t \in Threads
    PROVE  FrameOK(t, FirstFrame(t))
<1> DEFINE stack == [i \in DOMAIN PopOrder |-> <<t, PopOrder[i]>>]
<1>1. stack \in [DOMAIN PushOrder -> Threads \X Register]
  BY RegisterSet
<1>2. \A r \in Register : Pop(stack)[r] = <<t, r>>
  <2>1. \A i \in 1..7 : stack[i] = <<t, PopOrder[i]>>
    BY RegisterSet
  <2> HIDE DEF stack
  <2> QED BY <2>1, PopSlots, RegisterSet DEF PopOrder
<1>3. OwnRegs(t, Pop(stack))
  <2> HIDE DEF stack
  <2> QED BY <1>2, RegisterSet DEF OwnRegs, Shuffled
<1>4. /\ FirstFrame(t) = [if |-> TRUE, at |-> IF t \in UserThreads THEN "user" ELSE "kernel",
                          inCall |-> FALSE, r11 |-> FALSE, depth |-> 0, opened |-> FALSE,
                          stack |-> stack]
  BY DEF FirstFrame, Frame
<1> HIDE DEF stack
<1> QED
  BY <1>1, <1>3, <1>4, InterruptsAssumption DEF FrameOK, FrameType

\* The frame of a thread that is interrupted.
LEMMA StoppedFrameOK ==
    ASSUME NEW k, NEW values, CpuOK(k, values), k.at \in {"user", "kernel"}
    PROVE  /\ Frame(k, Push(values)) \in FrameType
           /\ k.depth = 0 => FrameOK(k.thread, Frame(k, Push(values)))
<1>1. k.thread \in Threads /\ OwnRegs(k.thread, values)
  BY DEF CpuOK
<1>2. values \in [Register -> Threads \X Register]
  BY <1>1, OwnType DEF CpuOK
<1>3. Push(values) \in [DOMAIN PushOrder -> Threads \X Register]
  BY <1>2, PushType
<1>4. OwnRegs(k.thread, Pop(Push(values)))
  BY <1>1, PushPop
<1>5. /\ k.if \in BOOLEAN /\ k.inCall \in BOOLEAN /\ k.r11 \in BOOLEAN
      /\ k.depth \in 0..MaxDepth /\ k.opened \in BOOLEAN
      /\ k.at = "user" => k.if
      /\ k.inCall => k.r11
  BY DEF CpuOK, CpuType, FlagOK
<1> QED
  BY <1>3, <1>4, <1>5 DEF FrameOK, FrameType, Frame

\* A step of CPU c that leaves it and the saved frames in order preserves IInv.
LEMMA CpuStep ==
    ASSUME IInv, NEW c \in CPUs,
           cpu' = [cpu EXCEPT ![c] = cpu'[c]], regs' = [regs EXCEPT ![c] = regs'[c]],
           CpuOK(cpu'[c], regs'[c]),
           DOMAIN saved' \subseteq Threads, \A t \in DOMAIN saved' : FrameOK(t, saved'[t])
    PROVE  IInv'
<1>1. \A d \in CPUs : CpuOK(cpu[d], regs[d])
  BY DEF IInv
<1>2. cpu \in [CPUs -> CpuType]
      /\ regs \in [CPUs -> [Register -> (Threads \cup {NoThread}) \X Register]]
  BY DEF IInv
<1>3. cpu'[c] \in CpuType /\ regs'[c] \in [Register -> (Threads \cup {NoThread}) \X Register]
  BY DEF CpuOK
<1>4. cpu' \in [CPUs -> CpuType]
      /\ regs' \in [CPUs -> [Register -> (Threads \cup {NoThread}) \X Register]]
  BY <1>2, <1>3
<1>5. ASSUME NEW d \in CPUs PROVE CpuOK(cpu'[d], regs'[d])
  <2>1. CASE d = c
    BY <2>1
  <2>2. CASE d # c
    <3>1. cpu'[d] = cpu[d] /\ regs'[d] = regs[d]
      BY <1>2, <2>2
    <3> QED BY <1>1, <3>1
  <2> QED BY <2>1, <2>2
<1> QED
  BY <1>4, <1>5 DEF IInv

LEMMA DisableStep ==
    ASSUME IInv, NEW c \in CPUs, Disable(c)
    PROVE  IInv'
<1> DEFINE k == cpu[c]
           n == [k EXCEPT !.if = FALSE, !.lockLevel = @ + 1, !.depth = @ + 1,
                          !.opened = IF k.depth = 0 THEN k.if ELSE @]
<1>1. CpuOK(k, regs[c]) /\ cpu \in [CPUs -> CpuType]
  BY DEF IInv
<1>2. k.at \in {"kernel", "handler", "exit", "switch"} /\ k.depth < MaxDepth
  BY DEF Disable
<1>3. /\ cpu' = [cpu EXCEPT ![c] = n] /\ cpu'[c] = n
      /\ regs' = regs /\ regs' = [regs EXCEPT ![c] = regs'[c]] /\ saved' = saved
  BY <1>1 DEF Disable, IInv
<1>4. CpuOK(n, regs[c])
  <2> HIDE DEF k
  <2>1. k \in CpuType /\ k.depth \in 0..MaxDepth /\ LevelOK(k)
    BY <1>1 DEF CpuOK, CpuType
  <2>2. k.lockLevel \in {k.depth, k.depth + 1, k.depth + 2}
    BY <1>2, <2>1 DEF LevelOK
  <2>3. n \in CpuType
    <3>1. k.lockLevel + 1 \in 0..MaxDepth + 2 /\ k.depth + 1 \in 0..MaxDepth
      BY <1>2, <2>1, <2>2, InterruptsAssumption
    <3>2. (IF k.depth = 0 THEN k.if ELSE k.opened) \in BOOLEAN
      BY <2>1 DEF CpuType
    <3> QED BY <2>1, <3>1, <3>2 DEF CpuType
  <2>4. /\ n.if = FALSE /\ n.lockLevel = k.lockLevel + 1 /\ n.depth = k.depth + 1
        /\ n.gs = k.gs /\ n.at = k.at /\ n.thread = k.thread /\ n.inCall = k.inCall
        /\ n.r11 = k.r11 /\ n.frame = k.frame
    BY <2>1 DEF CpuType
  <2> HIDE DEF n
  <2>5. LevelOK(n) /\ FlagOK(n)
    BY <1>1, <1>2, <2>1, <2>4 DEF CpuOK, LevelOK, FlagOK
  <2> QED BY <1>1, <2>3, <2>4, <2>5 DEF CpuOK
<1> HIDE DEF n
<1> QED
  BY <1>3, <1>4, CpuStep DEF IInv
LEMMA EnableStep ==
    ASSUME IInv, NEW c \in CPUs, Enable(c)
    PROVE  IInv'
<1> DEFINE k == cpu[c]
           n == [k EXCEPT !.if = @ \/ k.lockLevel = 1, !.lockLevel = @ - 1, !.depth = @ - 1]
<1>1. CpuOK(k, regs[c]) /\ cpu \in [CPUs -> CpuType]
  BY DEF IInv
<1>2. k.at \in {"kernel", "handler", "exit", "switch"} /\ k.depth > 0 /\ k.lockLevel > 0
  BY DEF Enable
<1>3. /\ cpu' = [cpu EXCEPT ![c] = n] /\ cpu'[c] = n
      /\ regs' = regs /\ regs' = [regs EXCEPT ![c] = regs'[c]] /\ saved' = saved
  BY <1>1 DEF Enable, IInv
<1>4. CpuOK(n, regs[c])
  <2> HIDE DEF k
  <2>1. k \in CpuType /\ k.depth \in 0..MaxDepth /\ k.lockLevel \in 0..MaxDepth + 2
        /\ LevelOK(k) /\ FlagOK(k)
    BY <1>1 DEF CpuOK, CpuType
  <2>2. n \in CpuType
    <3>1. k.lockLevel - 1 \in 0..MaxDepth + 2 /\ k.depth - 1 \in 0..MaxDepth
      BY <1>2, <2>1, InterruptsAssumption
    <3>2. (k.if \/ k.lockLevel = 1) \in BOOLEAN
      OBVIOUS
    <3> QED BY <2>1, <3>1, <3>2 DEF CpuType
  <2>3. /\ n.if = (k.if \/ k.lockLevel = 1) /\ n.lockLevel = k.lockLevel - 1
        /\ n.depth = k.depth - 1
        /\ n.gs = k.gs /\ n.at = k.at /\ n.thread = k.thread /\ n.inCall = k.inCall
        /\ n.r11 = k.r11 /\ n.frame = k.frame
    BY <2>1 DEF CpuType
  <2> HIDE DEF n
  <2>4. LevelOK(n)
    BY <1>2, <2>1, <2>3 DEF LevelOK
  <2>5. n.depth > 0 \/ n.at \in {"handler", "exit", "switch", "halted"} => ~k.if /\ k.lockLevel # 1
    BY <1>2, <2>1, <2>3 DEF LevelOK, FlagOK
  <2>6. FlagOK(n)
    BY <1>2, <2>1, <2>3, <2>5 DEF FlagOK
  <2> QED BY <1>1, <2>2, <2>3, <2>4, <2>6 DEF CpuOK
<1> HIDE DEF n
<1> QED
  BY <1>3, <1>4, CpuStep DEF IInv

LEMMA EnterFields ==
    ASSUME IInv, NEW c \in CPUs, cpu[c].at \in {"user", "kernel"}
    PROVE  /\ Enter(c) \in CpuType
           /\ Enter(c).if = FALSE /\ Enter(c).gs = "kernel" /\ Enter(c).at = "handler"
           /\ Enter(c).lockLevel = 1 /\ Enter(c).depth = 0
           /\ Enter(c).thread = cpu[c].thread
           /\ Enter(c).inCall = cpu[c].inCall /\ Enter(c).r11 = cpu[c].r11
           /\ Enter(c).frame = <<Frame(cpu[c], Push(regs[c]))>>
<1> DEFINE k == cpu[c]
           f == Frame(k, Push(regs[c]))
<1>1. CpuOK(k, regs[c])
  BY DEF IInv
<1>2. f \in FrameType
  BY <1>1, StoppedFrameOK
<1>3. SwapFor(k.gs, k.at) = "kernel"
  BY <1>1 DEF CpuOK, CpuType, SwapFor
<1>4. Enter(c) = [k EXCEPT !.if = FALSE, !.gs = "kernel", !.at = "handler", !.lockLevel = 1,
                          !.depth = 0, !.opened = FALSE, !.frame = <<f>>]
  BY <1>3 DEF Enter, HandlerLevel
<1>5. k \in CpuType /\ <<f>> \in Seq(FrameType) /\ 1 \in 0..MaxDepth + 2 /\ 0 \in 0..MaxDepth
  BY <1>1, <1>2, InterruptsAssumption DEF CpuOK
<1> HIDE DEF k, f
<1>6. Enter(c) \in CpuType
  BY <1>4, <1>5 DEF CpuType
<1>7. /\ Enter(c).if = FALSE /\ Enter(c).gs = "kernel" /\ Enter(c).at = "handler"
      /\ Enter(c).lockLevel = 1 /\ Enter(c).depth = 0 /\ Enter(c).thread = k.thread
      /\ Enter(c).inCall = k.inCall /\ Enter(c).r11 = k.r11 /\ Enter(c).frame = <<f>>
  BY <1>4, <1>5 DEF CpuType
<1> QED
  BY <1>6, <1>7 DEF k, f

LEMMA InterruptStep ==
    ASSUME IInv, NEW c \in CPUs, Interrupt(c)
    PROVE  IInv'
<1> DEFINE n == Enter(c)
           f == Frame(cpu[c], Push(regs[c]))
<1>1. CpuOK(cpu[c], regs[c]) /\ cpu \in [CPUs -> CpuType]
  BY DEF IInv
<1>2. cpu[c].if /\ cpu[c].at \in {"user", "kernel"}
  BY DEF Interrupt
<1>3. /\ cpu' = [cpu EXCEPT ![c] = n] /\ cpu'[c] = n
      /\ regs' = regs /\ regs' = [regs EXCEPT ![c] = regs'[c]] /\ saved' = saved
  BY <1>1 DEF Interrupt, IInv
<1>4. cpu[c].depth = 0 /\ cpu[c].thread \in Threads /\ (cpu[c].inCall => cpu[c].r11)
  BY <1>1, <1>2 DEF CpuOK, CpuType, FlagOK
<1>5. FrameOK(cpu[c].thread, f)
  BY <1>1, <1>2, <1>4, StoppedFrameOK
<1>6. CpuOK(n, regs[c])
  <2>1. n \in CpuType /\ n.if = FALSE /\ n.gs = "kernel" /\ n.at = "handler" /\ n.lockLevel = 1
        /\ n.depth = 0 /\ n.thread = cpu[c].thread /\ n.inCall = cpu[c].inCall
        /\ n.r11 = cpu[c].r11 /\ n.frame = <<f>>
    BY <1>2, EnterFields
  <2> HIDE DEF n, f
  <2>2. Len(n.frame) = 1 /\ n.frame[1] = f
    BY <2>1
  <2>3. LevelOK(n) /\ FlagOK(n)
    BY <1>4, <2>1 DEF LevelOK, FlagOK
  <2> QED
    BY <1>1, <1>4, <1>5, <2>1, <2>2, <2>3 DEF CpuOK
<1> HIDE DEF n, f
<1> QED
  BY <1>3, <1>6, CpuStep DEF IInv

LEMMA FaultStep ==
    ASSUME IInv, NEW c \in CPUs, Fault(c)
    PROVE  IInv'
<1> DEFINE e == Enter(c)
           n == [e EXCEPT !.at = "halted"]
<1>1. CpuOK(cpu[c], regs[c]) /\ cpu \in [CPUs -> CpuType]
  BY DEF IInv
<1>2. cpu[c].at \in {"user", "kernel"}
  BY DEF Fault
<1>3. /\ cpu' = [cpu EXCEPT ![c] = n] /\ cpu'[c] = n
      /\ regs' = regs /\ regs' = [regs EXCEPT ![c] = regs'[c]] /\ saved' = saved
  BY <1>1 DEF Fault, IInv
<1>4. cpu[c].inCall => cpu[c].r11
  BY <1>1 DEF CpuOK, FlagOK
<1>5. CpuOK(n, regs[c])
  <2>1. e \in CpuType /\ e.if = FALSE /\ e.gs = "kernel" /\ e.depth = 0
        /\ e.inCall = cpu[c].inCall /\ e.r11 = cpu[c].r11 /\ Len(e.frame) = 1
    BY <1>2, EnterFields
  <2> HIDE DEF e
  <2>2. n \in CpuType /\ n.if = FALSE /\ n.gs = "kernel" /\ n.at = "halted" /\ n.depth = 0
        /\ n.inCall = cpu[c].inCall /\ n.r11 = cpu[c].r11 /\ Len(n.frame) = 1
    BY <2>1 DEF CpuType
  <2> HIDE DEF n
  <2>3. LevelOK(n) /\ FlagOK(n)
    BY <1>4, <2>2 DEF LevelOK, FlagOK
  <2> QED
    BY <1>1, <2>2, <2>3 DEF CpuOK
<1> HIDE DEF n
<1> QED
  BY <1>3, <1>5, CpuStep DEF IInv

\* A frame in order, brought back on a CPU in state k with lockLevel cleared or as
\* a handler leaves it.
LEMMA ResumeOK ==
    ASSUME NEW k, k \in CpuType, k.gs = "kernel",
           NEW t \in Threads, NEW f, FrameOK(t, f), NEW level \in {0, 1},
           NEW frame \in Seq(FrameType), Len(frame) <= 1
    PROVE  CpuOK([Resumed(k, f) EXCEPT !.gs = SwapFor(k.gs, f.at), !.lockLevel = level,
                                      !.thread = t, !.frame = frame], Pop(f.stack))
<1> DEFINE gs == SwapFor(k.gs, f.at)
           n == [Resumed(k, f) EXCEPT !.gs = gs, !.lockLevel = level,
                                     !.thread = t, !.frame = frame]
<1>1. /\ f.if \in BOOLEAN /\ f.at \in {"user", "kernel"} /\ f.inCall \in BOOLEAN
      /\ f.r11 \in BOOLEAN /\ f.depth = 0 /\ f.opened \in BOOLEAN
      /\ f.stack \in [DOMAIN PushOrder -> Threads \X Register]
      /\ f.at = "user" => f.if
      /\ f.inCall => f.r11
      /\ OwnRegs(t, Pop(f.stack))
  BY DEF FrameOK, FrameType
<1>2. gs \in {"user", "kernel"} /\ (gs = "user" <=> f.at = "user")
  BY <1>1 DEF SwapFor
<1>3. Pop(f.stack) \in [Register -> Threads \X Register]
  BY <1>1, PopType
<1> HIDE DEF gs
<1>4. n = [k EXCEPT !.if = f.if, !.at = f.at, !.inCall = f.inCall, !.r11 = f.r11,
                    !.depth = f.depth, !.opened = f.opened, !.gs = gs,
                    !.lockLevel = level, !.thread = t, !.frame = frame]
  BY DEF Resumed, CpuType
<1>5. 0 \in 0..MaxDepth /\ level \in 0..MaxDepth + 2
  BY InterruptsAssumption
<1> HIDE DEF n
<1>6. /\ n \in CpuType
      /\ n.if = f.if /\ n.at = f.at /\ n.inCall = f.inCall /\ n.r11 = f.r11 /\ n.depth = 0
      /\ n.gs = gs /\ n.lockLevel = level /\ n.thread = t /\ n.frame = frame
  <2>1. n \in CpuType
    <3> DEFINE r == Resumed(k, f)
    <3>1. r \in CpuType
      BY <1>1, <1>5 DEF CpuType, Resumed
    <3>2. n = [r EXCEPT !.gs = gs, !.lockLevel = level, !.thread = t, !.frame = frame]
      BY DEF n
    <3> HIDE DEF r
    <3> QED BY <1>2, <1>5, <3>1, <3>2 DEF CpuType
  <2>2. n.if = f.if /\ n.at = f.at /\ n.inCall = f.inCall /\ n.r11 = f.r11
    BY <1>4 DEF CpuType
  <2>3. n.depth = 0 /\ n.gs = gs /\ n.lockLevel = level /\ n.thread = t /\ n.frame = frame
    BY <1>1, <1>4 DEF CpuType
  <2> QED BY <2>1, <2>2, <2>3
<1>7. LevelOK(n) /\ FlagOK(n)
  BY <1>1, <1>6 DEF LevelOK, FlagOK
<1>8. CpuOK(n, Pop(f.stack))
  BY <1>1, <1>2, <1>3, <1>6, <1>7 DEF CpuOK
<1> QED
  BY <1>8 DEF n, gs

LEMMA InterruptReturnStep ==
    ASSUME IInv, NEW c \in CPUs, InterruptReturn(c)
    PROVE  IInv'
<1> DEFINE k == cpu[c]
           f == k.frame[1]
           n == [Resumed(k, f) EXCEPT !.gs = SwapFor(k.gs, f.at), !.frame = <<>>]
           m == [Resumed(k, f) EXCEPT !.gs = SwapFor(k.gs, f.at), !.lockLevel = 1,
                                     !.thread = k.thread, !.frame = <<>>]
<1>1. CpuOK(k, regs[c]) /\ cpu \in [CPUs -> CpuType] /\ regs \in [CPUs -> [Register -> (Threads \cup {NoThread}) \X Register]]
  BY DEF IInv
<1>2. k.at = "handler" /\ k.depth = 0
  BY DEF InterruptReturn
<1>3. /\ cpu' = [cpu EXCEPT ![c] = n] /\ cpu'[c] = n
      /\ regs' = [regs EXCEPT ![c] = Pop(f.stack)] /\ regs'[c] = Pop(f.stack) /\ saved' = saved
  BY <1>1 DEF InterruptReturn
<1>4. /\ k \in CpuType /\ k.gs = "kernel" /\ k.lockLevel = 1 /\ k.thread \in Threads
      /\ FrameOK(k.thread, f)
  BY <1>1, <1>2 DEF CpuOK, CpuType, LevelOK
<1>5. n = m
  <2> HIDE DEF k, f
  <2> QED BY <1>4 DEF Resumed, CpuType
<1>6. CpuOK(m, Pop(f.stack))
  <2>1. <<>> \in Seq(FrameType) /\ Len(<<>>) <= 1
    OBVIOUS
  <2> HIDE DEF k, f
  <2> QED BY <1>4, <2>1, ResumeOK
<1> HIDE DEF n, m, f
<1> QED
  BY <1>3, <1>5, <1>6, CpuStep DEF IInv

LEMMA SwitchToStep ==
    ASSUME IInv, NEW c \in CPUs, NEW t \in Threads, SwitchTo(c, t)
    PROVE  IInv'
<1> DEFINE k == cpu[c]
           f == saved[t]
           n == [Resumed(k, f) EXCEPT !.gs = SwapFor(k.gs, f.at), !.lockLevel = 0, !.thread = t]
           m == [Resumed(k, f) EXCEPT !.gs = SwapFor(k.gs, f.at), !.lockLevel = 0,
                                     !.thread = t, !.frame = k.frame]
<1>1. CpuOK(k, regs[c]) /\ cpu \in [CPUs -> CpuType] /\ regs \in [CPUs -> [Register -> (Threads \cup {NoThread}) \X Register]]
  BY DEF IInv
<1>2. k.at = "switch" /\ t \in DOMAIN saved
  BY DEF SwitchTo
<1>3. /\ cpu' = [cpu EXCEPT ![c] = n] /\ cpu'[c] = n
      /\ regs' = [regs EXCEPT ![c] = Pop(f.stack)] /\ regs'[c] = Pop(f.stack)
      /\ saved' = [s \in DOMAIN saved \ {t} |-> saved[s]]
  BY <1>1 DEF SwitchTo
<1>4. k \in CpuType /\ k.gs = "kernel" /\ k.frame \in Seq(FrameType) /\ Len(k.frame) <= 1
      /\ FrameOK(t, f)
  BY <1>1, <1>2 DEF CpuOK, CpuType, IInv
<1>5. n = m
  <2> HIDE DEF k, f
  <2> QED BY <1>4 DEF Resumed, CpuType
<1>6. CpuOK(m, Pop(f.stack))
  <2> HIDE DEF k, f
  <2> QED BY <1>4, ResumeOK
<1>7. DOMAIN saved' \subseteq Threads /\ \A s \in DOMAIN saved' : FrameOK(s, saved'[s])
  BY <1>3 DEF IInv
<1> HIDE DEF n, m, f
<1> QED
  BY <1>3, <1>5, <1>6, <1>7, CpuStep

LEMMA StopStep ==
    ASSUME IInv, NEW c \in CPUs, cpu[c].at \in {"user", "kernel"}, cpu[c].depth = 0,
           NEW gs, gs = "kernel", Stop(c, gs)
    PROVE  IInv'
<1> DEFINE k == cpu[c]
           f == Frame(k, Push(regs[c]))
           n == [k EXCEPT !.if = FALSE, !.gs = gs, !.at = "switch", !.lockLevel = 1, !.depth = 0,
                     !.opened = FALSE, !.thread = NoThread, !.inCall = FALSE, !.r11 = FALSE]
<1>1. CpuOK(k, regs[c]) /\ cpu \in [CPUs -> CpuType]
  BY DEF IInv
<1>2. /\ cpu' = [cpu EXCEPT ![c] = n] /\ cpu'[c] = n
      /\ regs' = regs /\ regs' = [regs EXCEPT ![c] = regs'[c]]
  BY <1>1 DEF Stop, IInv
<1>3. /\ DOMAIN saved' = DOMAIN saved \cup {k.thread}
      /\ saved'[k.thread] = f
      /\ \A t \in DOMAIN saved \ {k.thread} : saved'[t] = saved[t]
  BY DEF Stop
<1>4. k.thread \in Threads /\ FrameOK(k.thread, f)
  BY <1>1, StoppedFrameOK DEF CpuOK
<1>5. DOMAIN saved' \subseteq Threads /\ \A t \in DOMAIN saved' : FrameOK(t, saved'[t])
  <2> HIDE DEF k, f
  <2> QED BY <1>3, <1>4 DEF IInv
<1>6. CpuOK(n, regs[c])
  <2> HIDE DEF k
  <2>1. k \in CpuType /\ 1 \in 0..MaxDepth + 2 /\ 0 \in 0..MaxDepth
    BY <1>1, InterruptsAssumption DEF CpuOK
  <2>2. /\ n \in CpuType /\ n.if = FALSE /\ n.gs = "kernel" /\ n.at = "switch"
        /\ n.lockLevel = 1 /\ n.depth = 0 /\ n.inCall = FALSE /\ n.frame = k.frame
    BY <2>1 DEF CpuType
  <2> HIDE DEF n
  <2>3. LevelOK(n) /\ FlagOK(n)
    BY <2>2 DEF LevelOK, FlagOK
  <2> QED BY <1>1, <2>2, <2>3 DEF CpuOK
<1> HIDE DEF n
<1> QED
  BY <1>2, <1>5, <1>6, CpuStep

LEMMA TickStep ==
    ASSUME IInv, NEW c \in CPUs, Tick(c)
    PROVE  IInv'
<1>1. CpuOK(cpu[c], regs[c])
  BY DEF IInv
<1>2. SwapFor(cpu[c].gs, cpu[c].at) = "kernel" /\ cpu[c].depth = 0
  BY <1>1 DEF Tick, CpuOK, CpuType, FlagOK, SwapFor
<1> QED
  BY <1>2, StopStep DEF Tick

LEMMA YieldStep ==
    ASSUME IInv, NEW c \in CPUs, Yield(c)
    PROVE  IInv'
<1>1. CpuOK(cpu[c], regs[c])
  BY DEF IInv
<1>2. cpu[c].gs = "kernel"
  BY <1>1 DEF Yield, CpuOK, CpuType
<1> QED
  BY <1>2, StopStep DEF Yield

LEMMA ExitStep ==
    ASSUME IInv, NEW c \in CPUs, Exit(c)
    PROVE  IInv'
<1> DEFINE k == cpu[c]
           n == [k EXCEPT !.if = FALSE, !.lockLevel = @ + 1, !.at = "exit",
                          !.thread = NoThread, !.inCall = FALSE, !.r11 = FALSE]
<1>1. CpuOK(k, regs[c]) /\ cpu \in [CPUs -> CpuType]
  BY DEF IInv
<1>2. k.at = "kernel" /\ k.depth = 0
  BY DEF Exit
<1>3. /\ cpu' = [cpu EXCEPT ![c] = n] /\ cpu'[c] = n
      /\ regs' = regs /\ regs' = [regs EXCEPT ![c] = regs'[c]] /\ saved' = saved
  BY <1>1 DEF Exit, IInv
<1>4. CpuOK(n, regs[c])
  <2> HIDE DEF k
  <2>1. k \in CpuType /\ k.lockLevel \in {0, 1} /\ k.gs = "kernel" /\ k.depth = 0
    BY <1>1, <1>2 DEF CpuOK, CpuType, LevelOK
  <2>2. k.lockLevel + 1 \in {1, 2} /\ k.lockLevel + 1 \in 0..MaxDepth + 2
    BY <2>1, InterruptsAssumption
  <2>3. /\ n \in CpuType /\ n.if = FALSE /\ n.lockLevel = k.lockLevel + 1 /\ n.gs = "kernel"
        /\ n.at = "exit" /\ n.depth = 0 /\ n.inCall = FALSE /\ n.frame = k.frame
    BY <2>1, <2>2 DEF CpuType
  <2> HIDE DEF n
  <2>4. LevelOK(n) /\ FlagOK(n)
    BY <2>2, <2>3 DEF LevelOK, FlagOK
  <2> QED BY <1>1, <2>3, <2>4 DEF CpuOK
<1> HIDE DEF n
<1> QED
  BY <1>3, <1>4, CpuStep DEF IInv

LEMMA SwitchNextStep ==
    ASSUME IInv, NEW c \in CPUs, SwitchNext(c)
    PROVE  IInv'
<1> DEFINE k == cpu[c]
           n == [k EXCEPT !.if = FALSE, !.lockLevel = 1, !.at = "switch"]
<1>1. CpuOK(k, regs[c]) /\ cpu \in [CPUs -> CpuType]
  BY DEF IInv
<1>2. k.at = "exit" /\ k.depth = 0
  BY DEF SwitchNext
<1>3. /\ cpu' = [cpu EXCEPT ![c] = n] /\ cpu'[c] = n
      /\ regs' = regs /\ regs' = [regs EXCEPT ![c] = regs'[c]] /\ saved' = saved
  BY <1>1 DEF SwitchNext, IInv
<1>4. CpuOK(n, regs[c])
  <2> HIDE DEF k
  <2>1. k \in CpuType /\ k.gs = "kernel" /\ 1 \in 0..MaxDepth + 2
    BY <1>1, <1>2, InterruptsAssumption DEF CpuOK, CpuType
  <2>2. /\ n \in CpuType /\ n.if = FALSE /\ n.lockLevel = 1 /\ n.gs = "kernel"
        /\ n.at = "switch" /\ n.depth = 0 /\ n.inCall = k.inCall /\ n.r11 = k.r11
        /\ n.frame = k.frame
    BY <1>2, <2>1 DEF CpuType
  <2> HIDE DEF n
  <2>3. LevelOK(n) /\ FlagOK(n)
    BY <1>1, <2>2 DEF CpuOK, LevelOK, FlagOK
  <2> QED BY <1>1, <2>2, <2>3 DEF CpuOK
<1> HIDE DEF n
<1> QED
  BY <1>3, <1>4, CpuStep DEF IInv

LEMMA SyscallStep ==
    ASSUME IInv, NEW c \in CPUs, Syscall(c)
    PROVE  IInv'
<1> DEFINE k == cpu[c]
           n == [k EXCEPT !.gs = SwapFor(@, "user"), !.at = "kernel", !.inCall = TRUE,
                          !.r11 = k.if, !.lockLevel = 0, !.if = TRUE]
<1>1. CpuOK(k, regs[c]) /\ cpu \in [CPUs -> CpuType]
  BY DEF IInv
<1>2. k.at = "user"
  BY DEF Syscall
<1>3. /\ cpu' = [cpu EXCEPT ![c] = n] /\ cpu'[c] = n
      /\ regs' = regs /\ regs' = [regs EXCEPT ![c] = regs'[c]] /\ saved' = saved
  BY <1>1 DEF Syscall, IInv, CpuType
<1>4. CpuOK(n, regs[c])
  <2> HIDE DEF k
  <2>1. /\ k \in CpuType /\ SwapFor(k.gs, "user") = "kernel" /\ k.depth = 0 /\ k.if
        /\ 0 \in 0..MaxDepth + 2
    BY <1>1, <1>2, InterruptsAssumption DEF CpuOK, CpuType, FlagOK, SwapFor
  <2>2. /\ n \in CpuType /\ n.if = TRUE /\ n.r11 = k.if /\ n.lockLevel = 0 /\ n.gs = "kernel"
        /\ n.at = "kernel" /\ n.depth = 0 /\ n.inCall = TRUE /\ n.frame = k.frame
        /\ n.thread = k.thread
    BY <2>1 DEF CpuType
  <2> HIDE DEF n
  <2>3. LevelOK(n) /\ FlagOK(n)
    BY <2>1, <2>2 DEF LevelOK, FlagOK
  <2> QED BY <1>1, <1>2, <2>2, <2>3 DEF CpuOK
<1> HIDE DEF n
<1> QED
  BY <1>3, <1>4, CpuStep DEF IInv

LEMMA SysretStep ==
    ASSUME IInv, NEW c \in CPUs, Sysret(c)
    PROVE  IInv'
<1> DEFINE k == cpu[c]
           n == [k EXCEPT !.gs = SwapFor(@, "user"), !.at = "user", !.inCall = FALSE,
                          !.if = k.r11, !.r11 = FALSE]
<1>1. CpuOK(k, regs[c]) /\ cpu \in [CPUs -> CpuType]
  BY DEF IInv
<1>2. k.at = "kernel" /\ k.inCall /\ k.depth = 0
  BY DEF Sysret
<1>3. /\ cpu' = [cpu EXCEPT ![c] = n] /\ cpu'[c] = n
      /\ regs' = regs /\ regs' = [regs EXCEPT ![c] = regs'[c]] /\ saved' = saved
  BY <1>1 DEF Sysret, IInv, CpuType
<1>4. CpuOK(n, regs[c])
  <2> HIDE DEF k
  <2>1. /\ k \in CpuType /\ SwapFor(k.gs, "user") = "user" /\ k.depth = 0 /\ k.r11
        /\ k.lockLevel \in {0, 1}
    BY <1>1, <1>2 DEF CpuOK, CpuType, FlagOK, LevelOK, SwapFor
  <2>2. /\ n \in CpuType /\ n.if = k.r11 /\ n.lockLevel = k.lockLevel /\ n.gs = "user"
        /\ n.at = "user" /\ n.depth = 0 /\ n.inCall = FALSE /\ n.frame = k.frame
        /\ n.thread = k.thread
    BY <2>1 DEF CpuType
  <2> HIDE DEF n
  <2>3. LevelOK(n) /\ FlagOK(n)
    BY <2>1, <2>2 DEF LevelOK, FlagOK
  <2> QED BY <1>1, <1>2, <2>2, <2>3 DEF CpuOK
<1> HIDE DEF n
<1> QED
  BY <1>3, <1>4, CpuStep DEF IInv

-----------------------------------------------------------------------------
(* The inductive invariant and what it gives *)

LEMMA InitIInv == Init => IInv
<1> SUFFICES ASSUME Init PROVE IInv
  OBVIOUS
<1>1. ASSUME NEW c \in CPUs
      PROVE  /\ CpuOK(cpu[c], regs[c]) /\ cpu[c] \in CpuType
             /\ regs[c] \in [Register -> (Threads \cup {NoThread}) \X Register]
  <2> DEFINE k == cpu[c]
  <2>1. k = [if |-> FALSE, lockLevel |-> 1, gs |-> "kernel", at |-> "switch",
             thread |-> NoThread, inCall |-> FALSE, r11 |-> FALSE,
             depth |-> 0, opened |-> FALSE, frame |-> <<>>]
    BY DEF Init
  <2>2. regs[c] \in [Register -> (Threads \cup {NoThread}) \X Register]
    BY DEF Init
  <2>3. <<>> \in Seq(FrameType) /\ Len(<<>>) <= 1
    OBVIOUS
  <2>4. 1 \in 0..MaxDepth + 2 /\ 0 \in 0..MaxDepth
    BY InterruptsAssumption
  <2> HIDE DEF k
  <2>5. k \in CpuType
    BY <2>1, <2>3, <2>4 DEF CpuType
  <2>6. LevelOK(k) /\ FlagOK(k)
    BY <2>1 DEF LevelOK, FlagOK
  <2>7. CpuOK(k, regs[c])
    BY <2>1, <2>2, <2>3, <2>5, <2>6 DEF CpuOK
  <2> QED BY <2>2, <2>5, <2>7 DEF k
<1>2. DOMAIN saved \subseteq Threads /\ \A t \in DOMAIN saved : FrameOK(t, saved[t])
  BY FirstFrameOK DEF Init
<1>3. cpu = [c \in CPUs |-> cpu[c]] /\ regs = [c \in CPUs |-> regs[c]]
  BY DEF Init
<1>4. /\ cpu \in [CPUs -> CpuType]
      /\ regs \in [CPUs -> [Register -> (Threads \cup {NoThread}) \X Register]]
  BY <1>1, <1>3
<1> QED
  BY <1>1, <1>2, <1>4 DEF IInv

LEMMA NextIInv == IInv /\ [Next]_vars => IInv'
<1> SUFFICES ASSUME IInv, [Next]_vars PROVE IInv'
  OBVIOUS
<1>1. CASE UNCHANGED vars
  BY <1>1 DEF IInv, vars
<1>2. ASSUME NEW c \in CPUs, Disable(c) PROVE IInv'
  BY <1>2, DisableStep
<1>3. ASSUME NEW c \in CPUs, Enable(c) PROVE IInv'
  BY <1>3, EnableStep
<1>4. ASSUME NEW c \in CPUs, Interrupt(c) PROVE IInv'
  BY <1>4, InterruptStep
<1>5. ASSUME NEW c \in CPUs, InterruptReturn(c) PROVE IInv'
  BY <1>5, InterruptReturnStep
<1>6. ASSUME NEW c \in CPUs, Fault(c) PROVE IInv'
  BY <1>6, FaultStep
<1>7. ASSUME NEW c \in CPUs, Tick(c) PROVE IInv'
  BY <1>7, TickStep
<1>8. ASSUME NEW c \in CPUs, Yield(c) PROVE IInv'
  BY <1>8, YieldStep
<1>9. ASSUME NEW c \in CPUs, Exit(c) PROVE IInv'
  BY <1>9, ExitStep
<1>10. ASSUME NEW c \in CPUs, NEW t \in Threads, SwitchTo(c, t) PROVE IInv'
  BY <1>10, SwitchToStep
<1>11. ASSUME NEW c \in CPUs, Syscall(c) PROVE IInv'
  BY <1>11, SyscallStep
<1>12. ASSUME NEW c \in CPUs, Sysret(c) PROVE IInv'
  BY <1>12, SysretStep
<1>13. ASSUME NEW c \in CPUs, SwitchNext(c) PROVE IInv'
  BY <1>13, SwitchNextStep
<1> QED
  BY <1>1, <1>2, <1>3, <1>4, <1>5, <1>6, <1>7, <1>8, <1>9, <1>10, <1>11, <1>12, <1>13 DEF Next

LEMMA Invariance == Spec => []IInv
<1> QED
  BY InitIInv, NextIInv, PTL DEF Spec

(* On any number of CPUs the GS base is the kernel's exactly while kernel    *)
(* code runs, whatever way the kernel was entered and left.                  *)
THEOREM GsSafety == Spec => []GsMatches
<1>1. IInv => GsMatches
  BY DEF IInv, CpuOK, GsMatches
<1> QED
  BY <1>1, Invariance, PTL

(* Open sections, handlers and the scheduler keep interrupts off, and user   *)
(* code always runs, and is always stopped, with interrupts on.              *)
THEOREM FlagSafety == Spec => []FlagMatches
<1>1. IInv => FlagMatches
  BY DEF IInv, CpuOK, FlagOK, FrameOK, FlagMatches
<1> QED
  BY <1>1, Invariance, PTL

(* lockLevel covers the sections that are open, for any nesting depth: the   *)
(* assert of enable() holds and no inner enable() runs sti.                  *)
THEOREM LevelSafety == Spec => []LevelCovers
<1>1. IInv => TypeOK
  BY DEF IInv, CpuOK, FrameOK, TypeOK, CpuType
<1>2. ASSUME IInv, NEW c \in CPUs
      PROVE  cpu[c].lockLevel >= cpu[c].depth
                                  + IF cpu[c].at \in {"handler", "exit", "switch"} THEN 1 ELSE 0
  <2> DEFINE k == cpu[c]
  <2>1. /\ LevelOK(k) /\ k.depth \in 0..MaxDepth /\ k.lockLevel \in 0..MaxDepth + 2
        /\ k.at \in {"user", "kernel", "handler", "exit", "switch", "halted"}
        /\ k.at = "halted" => k.depth = 0
    BY <1>2 DEF IInv, CpuOK, CpuType, FlagOK
  <2> HIDE DEF k
  <2>2. k.lockLevel >= k.depth + IF k.at \in {"handler", "exit", "switch"} THEN 1 ELSE 0
    BY <2>1, InterruptsAssumption DEF LevelOK
  <2> QED BY <2>2 DEF k
<1>3. IInv => LevelCovers
  BY <1>1, <1>2 DEF LevelCovers
<1> QED
  BY <1>3, Invariance, PTL

(* The code of a thread sees its own registers after any interrupts, ticks   *)
(* and switches, up to an order of r11, r12 and r13.                         *)
THEOREM RegisterSafety == Spec => []RegistersKept
<1>1. IInv => RegistersKept
  BY DEF IInv, CpuOK, OwnRegs, RegistersKept
<1> QED
  BY <1>1, Invariance, PTL
=============================================================================
