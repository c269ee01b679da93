------------------------------ MODULE Scheduler ------------------------------
(***************************************************************************)
(* The SMP scheduler of kernel/scheduler/{scheduler,thread}.cpp after boot: *)
(* one run queue per CPU, a timer tick and a voluntary yield that preempt, *)
(* switchNext() with work stealing and balancing, thread creation, exit    *)
(* and the per-CPU thread that frees exited threads.                       *)
(*                                                                         *)
(* A step of the model is one access to state another CPU, or an interrupt *)
(* handler of the same CPU, can observe or change.  A CPU is executing     *)
(* either its current thread (pc = "thread", interrupts enabled) or the    *)
(* scheduler on that thread's kernel stack (interrupts disabled).  A       *)
(* failed assert stops its CPU (pc = "panic").  When two CPUs come to run  *)
(* on one kernel stack, or memory that was freed is read, the rest of the  *)
(* execution is undefined: the model records it in "fault" and stops.      *)
(***************************************************************************)
EXTENDS Integers, Sequences, FiniteSets

CONSTANTS N,           \* number of CPUs; "processors" lists them as 1..N
          Thread,      \* every Thread object
          idle,        \* idle[c] = cpu->idleThread
          destroyer,   \* destroyer[c]: the thread of threadDestroyerOfThreads
          Main,        \* the thread of kernelSchedulerMain, queued on CPU 1
          User,        \* the user threads Main may create
          Exiting,     \* the threads whose program calls exit()
          killedThread,\* the dummy replaceAll() puts in place of a dead one
          NoThread     \* nullptr

CPUs == 1..N

ASSUME NAssumption == N \in Nat \ {0}
ASSUME ThreadAssumption ==
  /\ Thread = {killedThread, Main} \cup User
                \cup {idle[c] : c \in CPUs} \cup {destroyer[c] : c \in CPUs}
  /\ Main \notin User
  /\ killedThread \notin {Main} \cup User
  /\ \A c, d \in CPUs : destroyer[c] = destroyer[d] => c = d
  /\ \A c \in CPUs : destroyer[c] \notin {killedThread, Main} \cup User
  /\ \A c, d \in CPUs : idle[c] \notin {killedThread, Main, destroyer[d]} \cup User
  /\ idle \in [CPUs -> Thread]
  /\ destroyer \in [CPUs -> Thread]
  /\ Main \in Thread
  /\ killedThread \in Thread
  /\ User \subseteq Thread
  /\ Exiting \subseteq User \cup {Main}
  /\ NoThread \notin Thread

Destroyers == {destroyer[c] : c \in CPUs}
Idles == {idle[c] : c \in CPUs}

VARIABLES
  threads,       \* CPU::threads, the run queue
  locked,        \* its spinlock
  toDestroy,     \* CPU::threadsToDestroy: every entry pushed so far
  lastRead,      \* ... the number of the entry pop() reads next
  toDestroySize, \* ... its _size; -1 is 2^64 - 1, a size wrapped below zero
  toDestroyLock, \* ... its spinlock
  currentThread, \* CPU::currentThread
  state,         \* Thread::state; "Unborn" and "Freed" outside its lifetime
  pc,            \* where a CPU is in the scheduler
  hand,          \* switchNext()'s local "thread"
  idx,           \* the loop index of switchNext(), then of balance()
  balanceLock,   \* the static spinlock of switchNext()
  sorted,        \* balance()'s sortedByThreadCount
  reg,           \* exit(): the _size it has loaded
  tpc,           \* where a thread is in its own code
  tcpu,          \* the CPU pointer that code captured
  target,        \* its local thread pointer
  slot,          \* pop(): the entry its reference points to
  treg,          \* pop(): the index, then the size it has loaded
  failed,        \* the asserts that failed
  fault          \* why the execution is undefined, or "none"

queueVars == <<threads, locked>>
destroyVars == <<toDestroy, lastRead, toDestroySize, toDestroyLock>>
cpuVars == <<currentThread, pc, hand, idx, reg>>
balanceVars == <<balanceLock, sorted>>
threadVars == <<tpc, tcpu, target, slot, treg>>
errorVars == <<failed, fault>>
vars == <<queueVars, destroyVars, cpuVars, balanceVars, threadVars, errorVars,
          state>>

CpuPc == {"thread", "exitPush", "exitStore", "enqueue", "switch", "lock",
          "pop", "scan", "steal", "found", "sort", "lock1", "lock2", "move",
          "to", "panic"}
ThreadPc == {"run", "addLock", "addPush", "exiting", "exited", "start",
             "check", "front", "slot", "next", "advance", "size", "store",
             "take", "destroyLock", "replace", "destroy"}
ThreadState == {"Unborn", "Stopped", "Running", "Killed", "Freed"}
Asserts == {"tick", "front", "destroyer", "destroyThread", "switchTo"}

TypeOK ==
  /\ threads \in [CPUs -> Seq(Thread)]
  /\ locked \in [CPUs -> BOOLEAN]
  /\ toDestroy \in [CPUs -> Seq(Thread)]
  /\ lastRead \in [CPUs -> Nat]
  /\ toDestroySize \in [CPUs -> Int]
  /\ toDestroyLock \in [CPUs -> BOOLEAN]
  /\ currentThread \in [CPUs -> Thread]
  /\ state \in [Thread -> ThreadState]
  /\ pc \in [CPUs -> CpuPc]
  /\ hand \in [CPUs -> Thread \cup {NoThread}]
  /\ idx \in [CPUs -> 1..N+1]
  /\ balanceLock \in BOOLEAN
  /\ sorted \in [CPUs -> Seq(CPUs)]
  /\ reg \in [CPUs -> Int]
  /\ tpc \in [Thread -> ThreadPc]
  /\ tcpu \in [Thread -> CPUs]
  /\ target \in [Thread -> Thread \cup {NoThread}]
  /\ slot \in [Thread -> Nat]
  /\ treg \in [Thread -> Int]
  /\ failed \subseteq Asserts
  /\ fault \in {"none", "stack", "freed"}

-----------------------------------------------------------------------------
(* The state init() and start() leave: every CPU is about to run           *)
(* switchNext() for the first time with its idle thread as current thread, *)
(* its destroyer queued, and on the boot CPU the main thread after it.     *)

Init ==
  /\ threads = [c \in CPUs |-> IF c = 1 THEN <<destroyer[c], Main>>
                               ELSE <<destroyer[c]>>]
  /\ locked = [c \in CPUs |-> FALSE]
  /\ toDestroy = [c \in CPUs |-> << >>]
  /\ lastRead = [c \in CPUs |-> 1]
  /\ toDestroySize = [c \in CPUs |-> 0]
  /\ toDestroyLock = [c \in CPUs |-> FALSE]
  /\ currentThread = idle
  /\ state = [t \in Thread |-> IF t = killedThread THEN "Killed"
                               ELSE IF t \in User THEN "Unborn" ELSE "Stopped"]
  /\ pc = [c \in CPUs |-> "switch"]
  /\ hand = [c \in CPUs |-> NoThread]
  /\ idx = [c \in CPUs |-> 1]
  /\ balanceLock = FALSE
  /\ sorted = [c \in CPUs |-> << >>]
  /\ reg = [c \in CPUs |-> 0]
  /\ tpc = [t \in Thread |-> IF t \in Destroyers THEN "start" ELSE "run"]
  /\ tcpu = [t \in Thread |-> 1]
  /\ target = [t \in Thread |-> NoThread]
  /\ slot = [t \in Thread |-> 0]
  /\ treg = [t \in Thread |-> 0]
  /\ failed = {}
  /\ fault = "none"

Goto(c, l) == pc' = [pc EXCEPT ![c] = l]

Panic(c, a) == /\ Goto(c, "panic")
               /\ failed' = failed \cup {a}

\* CPU c executes thread t's own code.
Executes(c, t) == pc[c] = "thread" /\ currentThread[c] = t

-----------------------------------------------------------------------------
(* The timer tick and the yield: the handlers of vectors 32 and 0xF0.      *)

\* schedulerTickHandler() and schedulerYieldHandler() up to their lock().
Preempt(c) ==
  LET t == currentThread[c]
  IN /\ pc[c] = "thread"
     /\ IF state[t] # "Running"
        THEN Panic(c, "tick") /\ UNCHANGED state
        ELSE /\ state' = [state EXCEPT ![t] = "Stopped"]
             /\ Goto(c, "enqueue")
             /\ UNCHANGED failed
     /\ UNCHANGED <<queueVars, destroyVars, currentThread, hand, idx, reg,
                    balanceVars, threadVars, fault>>

\* The timer interrupts whatever thread the CPU executes.
Tick(c) == Preempt(c)

\* The rest of the handlers: lock(), push(), unlock().  From the unlock on,
\* the thread can be taken by another CPU while c is still on its stack.
Enqueue(c) ==
  /\ pc[c] = "enqueue"
  /\ ~locked[c]
  /\ threads' = [threads EXCEPT ![c] = Append(@, currentThread[c])]
  /\ Goto(c, "switch")
  /\ UNCHANGED <<locked, destroyVars, currentThread, hand, idx, reg,
                 balanceVars, threadVars, errorVars, state>>

-----------------------------------------------------------------------------
(* switchNext().                                                           *)

SwitchNext(c) ==
  LET t == currentThread[c]
  IN /\ pc[c] = "switch"
     /\ state' = IF state[t] = "Running"
                 THEN [state EXCEPT ![t] = "Stopped"] ELSE state
     /\ Goto(c, "lock")
     /\ UNCHANGED <<queueVars, destroyVars, currentThread, hand, idx, reg,
                    balanceVars, threadVars, errorVars>>

LockOwn(c) ==
  /\ pc[c] = "lock"
  /\ ~locked[c]
  /\ locked' = [locked EXCEPT ![c] = TRUE]
  /\ Goto(c, IF threads[c] = << >> THEN "scan" ELSE "pop")
  /\ UNCHANGED <<threads, destroyVars, currentThread, hand, idx, reg,
                 balanceVars, threadVars, errorVars, state>>

\* Mutant: the queue is used as a stack.
PopTurnLast(c, q) ==
  LET n == Len(threads[q])
      t == threads[q][n]
  IN /\ threads[q] # << >>
     /\ threads' = [threads EXCEPT ![q] = SubSeq(@, 1, n - 1)]
     /\ hand' = [hand EXCEPT ![c] = IF state[t] = "Stopped" THEN t ELSE NoThread]
     /\ fault' = IF state[t] \in {"Freed", "Unborn"} THEN "freed" ELSE fault

\* One turn of the loop that pops queue q: a stopped thread is taken, a
\* killed one dropped, a running one goes back to the end.  The Thread
\* object must still exist.
PopTurn(c, q) ==
  LET t == Head(threads[q])
  IN /\ threads[q] # << >>
     /\ threads' = [threads EXCEPT ![q] = IF state[t] = "Running"
                                          THEN Append(Tail(@), t) ELSE Tail(@)]
     /\ hand' = [hand EXCEPT ![c] = IF state[t] = "Stopped" THEN t ELSE NoThread]
     /\ fault' = IF state[t] \in {"Freed", "Unborn"} THEN "freed" ELSE fault

\* The own queue.  Taking a thread ends the loop and unlocks.
PopOwn(c) ==
  /\ pc[c] = "pop"
  /\ PopTurn(c, c)
  /\ IF hand'[c] # NoThread
     THEN /\ locked' = [locked EXCEPT ![c] = FALSE]
          /\ Goto(c, "found")
     ELSE UNCHANGED <<locked, pc>>
  /\ UNCHANGED <<destroyVars, currentThread, idx, reg, balanceVars, threadVars,
                 failed, state>>

\* Nothing found in the own queue, or in any queue: the idle thread is next.
GoIdle(c) ==
  /\ \/ pc[c] = "pop" /\ threads[c] = << >>
     \/ pc[c] = "scan" /\ idx[c] = N + 1
  /\ locked' = [locked EXCEPT ![c] = FALSE]
  /\ hand' = [hand EXCEPT ![c] = idle[c]]
  /\ Goto(c, "to")
  /\ UNCHANGED <<threads, destroyVars, currentThread, idx, reg, balanceVars,
                 threadVars, errorVars, state>>

\* The own queue is empty: look at the next processor.  Its own entry, an
\* empty queue and a queue whose tryLock() fails are skipped.
Scan(c) ==
  /\ pc[c] = "scan"
  /\ idx[c] <= N
  /\ IF idx[c] = c \/ threads[idx[c]] = << >> \/ locked[idx[c]]
     THEN /\ idx' = [idx EXCEPT ![c] = @ + 1]
          /\ UNCHANGED <<locked, pc>>
     ELSE /\ locked' = [locked EXCEPT ![idx[c]] = TRUE]
          /\ Goto(c, "steal")
          /\ UNCHANGED idx
  /\ UNCHANGED <<threads, destroyVars, currentThread, hand, reg, balanceVars,
                 threadVars, errorVars, state>>

\* Mutant: only the own queue is unlocked.
StealKeepsLock(c) ==
  /\ pc[c] = "steal"
  /\ PopTurn(c, idx[c])
  /\ IF hand'[c] # NoThread
     THEN /\ locked' = [locked EXCEPT ![c] = FALSE]
          /\ Goto(c, "found")
     ELSE UNCHANGED <<locked, pc>>
  /\ UNCHANGED <<destroyVars, currentThread, idx, reg, balanceVars, threadVars,
                 failed, state>>

\* One turn of the loop over the victim's queue.  Taking a thread unlocks
\* the victim's queue and then the own one.
Steal(c) ==
  /\ pc[c] = "steal"
  /\ PopTurn(c, idx[c])
  /\ IF hand'[c] # NoThread
     THEN /\ locked' = [locked EXCEPT ![idx[c]] = FALSE, ![c] = FALSE]
          /\ Goto(c, "found")
     ELSE UNCHANGED <<locked, pc>>
  /\ UNCHANGED <<destroyVars, currentThread, idx, reg, balanceVars, threadVars,
                 failed, state>>

\* Mutant: the loop index advances twice, before and by the continue.
StealSkipsNext(c) ==
  /\ pc[c] = "steal"
  /\ threads[idx[c]] = << >>
  /\ locked' = [locked EXCEPT ![idx[c]] = FALSE]
  /\ idx' = [idx EXCEPT ![c] = @ + 2]
  /\ Goto(c, "scan")
  /\ UNCHANGED <<threads, destroyVars, currentThread, hand, reg, balanceVars,
                 threadVars, errorVars, state>>

\* The victim's queue held no thread to take: on to the next processor.
StealNothing(c) ==
  /\ pc[c] = "steal"
  /\ threads[idx[c]] = << >>
  /\ locked' = [locked EXCEPT ![idx[c]] = FALSE]
  /\ idx' = [idx EXCEPT ![c] = @ + 1]
  /\ Goto(c, "scan")
  /\ UNCHANGED <<threads, destroyVars, currentThread, hand, reg, balanceVars,
                 threadVars, errorVars, state>>

\* A thread was found.  balanceTick, a counter all CPUs increment without
\* synchronisation, decides whether this CPU tries to balance: abstracted to
\* "may".  It does when the static lock is free.
StartBalance(c) ==
  /\ pc[c] = "found"
  /\ ~balanceLock
  /\ balanceLock' = TRUE
  /\ idx' = [idx EXCEPT ![c] = 1]
  /\ Goto(c, "sort")
  /\ UNCHANGED <<queueVars, destroyVars, currentThread, hand, reg, sorted,
                 threadVars, errorVars, state>>

SkipBalance(c) ==
  /\ pc[c] = "found"
  /\ Goto(c, "to")
  /\ UNCHANGED <<queueVars, destroyVars, currentThread, hand, idx, reg,
                 balanceVars, threadVars, errorVars, state>>

\* switchTo().  Two CPUs share a stack when the thread is still the current
\* one of another CPU.
SwitchTo(c) ==
  LET t == hand[c]
  IN /\ pc[c] = "to"
     /\ currentThread' = [currentThread EXCEPT ![c] = t]
     /\ hand' = [hand EXCEPT ![c] = NoThread]
     /\ idx' = [idx EXCEPT ![c] = 1]
     /\ IF state[t] # "Stopped"
        THEN Panic(c, "switchTo") /\ UNCHANGED <<state, fault>>
        ELSE /\ state' = [state EXCEPT ![t] = "Running"]
             /\ Goto(c, "thread")
             /\ fault' = IF \E d \in CPUs \ {c} : currentThread[d] = t
                         THEN "stack" ELSE fault
             /\ UNCHANGED failed
     /\ UNCHANGED <<queueVars, destroyVars, reg, balanceVars, threadVars>>

-----------------------------------------------------------------------------
(* balance().                                                              *)

\* Insert the next processor before the first one with more threads.  The
\* sizes are read without any lock.
SortInsert(c) ==
  LET i == idx[c]
      s == sorted[c]
      more(j) == Len(threads[s[j]]) > Len(threads[i])
  IN /\ pc[c] = "sort"
     /\ \E p \in 1..Len(s)+1 :
          /\ \A j \in 1..p-1 : ~more(j)
          /\ p <= Len(s) => more(p)
          /\ sorted' = [sorted EXCEPT ![c] =
                          [j \in 1..Len(s)+1 |-> IF j < p THEN s[j]
                                                 ELSE IF j = p THEN i ELSE s[j-1]]]
     /\ idx' = [idx EXCEPT ![c] = IF i = N THEN 1 ELSE i + 1]
     /\ Goto(c, IF i = N THEN "lock1" ELSE "sort")
     /\ UNCHANGED <<queueVars, destroyVars, currentThread, hand, reg,
                    balanceLock, threadVars, errorVars, state>>

\* Mutant: the pairs are off by one.
Cpu2OffByOne(c) == sorted[c][N - idx[c]]

\* The idx-th pair: cpu1 has few threads, cpu2 many.
Cpu1(c) == sorted[c][idx[c]]
Cpu2(c) == sorted[c][N + 1 - idx[c]]

LockFirst(c) ==
  /\ pc[c] = "lock1"
  /\ idx[c] <= N \div 2
  /\ ~locked[Cpu1(c)]
  /\ locked' = [locked EXCEPT ![Cpu1(c)] = TRUE]
  /\ Goto(c, "lock2")
  /\ UNCHANGED <<threads, destroyVars, currentThread, hand, idx, reg,
                 balanceVars, threadVars, errorVars, state>>

LockSecond(c) ==
  /\ pc[c] = "lock2"
  /\ ~locked[Cpu2(c)]
  /\ locked' = [locked EXCEPT ![Cpu2(c)] = TRUE]
  /\ Goto(c, "move")
  /\ UNCHANGED <<threads, destroyVars, currentThread, hand, idx, reg,
                 balanceVars, threadVars, errorVars, state>>

\* size() - 1 > size() on unsigned values: an empty cpu2 passes the test and
\* leaves the loop at the empty() check.
Uneven(c) == /\ threads[Cpu2(c)] # << >>
             /\ Len(threads[Cpu2(c)]) - 1 > Len(threads[Cpu1(c)])

\* Mutant: the entry is read with front() and stays in cpu2's queue.
MoveFront(c) ==
  /\ pc[c] = "move"
  /\ Uneven(c)
  /\ threads' = [threads EXCEPT ![Cpu1(c)] = Append(@, Head(threads[Cpu2(c)]))]
  /\ UNCHANGED <<locked, destroyVars, cpuVars, balanceVars, threadVars,
                 errorVars, state>>

MoveOne(c) ==
  /\ pc[c] = "move"
  /\ Uneven(c)
  /\ threads' = [threads EXCEPT ![Cpu1(c)] = Append(@, Head(threads[Cpu2(c)])),
                                ![Cpu2(c)] = Tail(@)]
  /\ UNCHANGED <<locked, destroyVars, cpuVars, balanceVars, threadVars,
                 errorVars, state>>

UnlockPair(c) ==
  /\ pc[c] = "move"
  /\ ~Uneven(c)
  /\ locked' = [locked EXCEPT ![Cpu1(c)] = FALSE, ![Cpu2(c)] = FALSE]
  /\ idx' = [idx EXCEPT ![c] = @ + 1]
  /\ Goto(c, "lock1")
  /\ UNCHANGED <<threads, destroyVars, currentThread, hand, reg, balanceVars,
                 threadVars, errorVars, state>>

EndBalance(c) ==
  /\ pc[c] = "lock1"
  /\ idx[c] > N \div 2
  /\ balanceLock' = FALSE
  /\ sorted' = [sorted EXCEPT ![c] = << >>]
  /\ Goto(c, "to")
  /\ UNCHANGED <<queueVars, destroyVars, currentThread, hand, idx, reg,
                 threadVars, errorVars, state>>

-----------------------------------------------------------------------------
(* addThread(), as loadProcess() calls it in the main thread: the CPU is   *)
(* read first, and the lock is held with interrupts enabled.               *)

ThreadGoto(t, l) == tpc' = [tpc EXCEPT ![t] = l]

\* createThread() and "CPU *cpu = getCurrentCPU()".
Create(c, u) ==
  /\ Executes(c, Main)
  /\ tpc[Main] = "run"
  /\ state[u] = "Unborn"
  /\ state' = [state EXCEPT ![u] = "Stopped"]
  /\ target' = [target EXCEPT ![Main] = u]
  /\ tcpu' = [tcpu EXCEPT ![Main] = c]
  /\ ThreadGoto(Main, "addLock")
  /\ UNCHANGED <<queueVars, destroyVars, cpuVars, balanceVars, slot, treg, errorVars>>

AddLock(c) ==
  /\ Executes(c, Main)
  /\ tpc[Main] = "addLock"
  /\ ~locked[tcpu[Main]]
  /\ locked' = [locked EXCEPT ![tcpu[Main]] = TRUE]
  /\ ThreadGoto(Main, "addPush")
  /\ UNCHANGED <<threads, destroyVars, cpuVars, balanceVars, tcpu, target, slot, treg,
                 errorVars, state>>

AddPush(c) ==
  /\ Executes(c, Main)
  /\ tpc[Main] = "addPush"
  /\ threads' = [threads EXCEPT ![tcpu[Main]] = Append(@, target[Main])]
  /\ locked' = [locked EXCEPT ![tcpu[Main]] = FALSE]
  /\ target' = [target EXCEPT ![Main] = NoThread]
  /\ ThreadGoto(Main, "run")
  /\ UNCHANGED <<destroyVars, cpuVars, balanceVars, tcpu, slot, treg, errorVars, state>>

-----------------------------------------------------------------------------
(* exit().                                                                 *)

\* The CPU is read before interrupts are disabled.
ExitCapture(c) ==
  LET t == currentThread[c]
  IN /\ pc[c] = "thread"
     /\ t \in Exiting
     /\ tpc[t] = "run"
     /\ tcpu' = [tcpu EXCEPT ![t] = c]
     /\ ThreadGoto(t, "exiting")
     /\ UNCHANGED <<queueVars, destroyVars, cpuVars, balanceVars, target, slot, treg,
                    errorVars, state>>

\* Mutant: the state of the thread is left alone.
ExitKeepsState(c) ==
  /\ pc[c] = "thread"
  /\ tpc[currentThread[c]] = "exiting"
  /\ Goto(c, "exitPush")
  /\ ThreadGoto(currentThread[c], "exited")
  /\ UNCHANGED <<queueVars, destroyVars, currentThread, hand, idx, reg,
                 balanceVars, tcpu, target, slot, treg, errorVars, state>>

\* From here on interrupts are disabled.  The killed thread is the current
\* one of the captured CPU.
ExitKill(c) ==
  LET q == tcpu[currentThread[c]]
  IN /\ pc[c] = "thread"
     /\ tpc[currentThread[c]] = "exiting"
     /\ state' = [state EXCEPT ![currentThread[q]] = "Killed"]
     /\ Goto(c, "exitPush")
     /\ ThreadGoto(currentThread[c], "exited")
     /\ UNCHANGED <<queueVars, destroyVars, currentThread, hand, idx, reg,
                    balanceVars, tcpu, target, slot, treg, errorVars>>

\* lock() and push() up to the load of _size ...
ExitPush(c) ==
  LET q == tcpu[currentThread[c]]
  IN /\ pc[c] = "exitPush"
     /\ ~toDestroyLock[q]
     /\ toDestroyLock' = [toDestroyLock EXCEPT ![q] = TRUE]
     /\ toDestroy' = [toDestroy EXCEPT ![q] = Append(@, currentThread[q])]
     /\ reg' = [reg EXCEPT ![c] = toDestroySize[q]]
     /\ Goto(c, "exitStore")
     /\ UNCHANGED <<queueVars, lastRead, toDestroySize, currentThread, hand, idx,
                    balanceVars, threadVars, errorVars, state>>

\* ... and the store of _size + 1, unlock(), on to switchNext().
ExitStore(c) ==
  LET q == tcpu[currentThread[c]]
  IN /\ pc[c] = "exitStore"
     /\ toDestroySize' = [toDestroySize EXCEPT ![q] = reg[c] + 1]
     /\ toDestroyLock' = [toDestroyLock EXCEPT ![q] = FALSE]
     /\ reg' = [reg EXCEPT ![c] = 0]
     /\ Goto(c, "switch")
     /\ UNCHANGED <<queueVars, toDestroy, lastRead, currentThread, hand, idx,
                    balanceVars, threadVars, errorVars, state>>

-----------------------------------------------------------------------------
(* threadDestroyerOfThreads().                                             *)

\* "CPU *cpu = getCurrentCPU()", once.
DestroyerStart(c, t) ==
  /\ Executes(c, t)
  /\ tpc[t] = "start"
  /\ tcpu' = [tcpu EXCEPT ![t] = c]
  /\ ThreadGoto(t, "check")
  /\ UNCHANGED <<queueVars, destroyVars, cpuVars, balanceVars, target, slot, treg,
                 errorVars, state>>

\* Nothing to destroy: yield().
DestroyerYield(c, t) ==
  /\ Executes(c, t)
  /\ tpc[t] = "check"
  /\ toDestroySize[tcpu[t]] = 0
  /\ Preempt(c)

\* Mutant: the loop waits for a second entry.
CheckTwo(c, t) ==
  /\ Executes(c, t)
  /\ tpc[t] = "check"
  /\ toDestroySize[tcpu[t]] \notin {0, 1}
  /\ ThreadGoto(t, "front")
  /\ UNCHANGED <<queueVars, destroyVars, cpuVars, balanceVars, tcpu, target,
                 slot, treg, errorVars, state>>

\* !empty(): on to pop(), which does not take the lock.  Between any two of
\* its accesses exit() may push, and another destroyer of the same list pop.
DestroyerCheck(c, t) ==
  /\ Executes(c, t)
  /\ tpc[t] = "check"
  /\ toDestroySize[tcpu[t]] # 0
  /\ ThreadGoto(t, "front")
  /\ UNCHANGED <<queueVars, destroyVars, cpuVars, balanceVars, tcpu, target,
                 slot, treg, errorVars, state>>

\* assert(_size > 0) in front().
PopAssert(c, t) ==
  /\ Executes(c, t)
  /\ tpc[t] = "front"
  /\ IF toDestroySize[tcpu[t]] = 0
     THEN Panic(c, "front") /\ UNCHANGED tpc
     ELSE ThreadGoto(t, "slot") /\ UNCHANGED <<pc, failed>>
  /\ UNCHANGED <<queueVars, destroyVars, currentThread, hand, idx, reg,
                 balanceVars, tcpu, target, slot, treg, fault, state>>

\* The reference to _data[lastRead] ...
PopFront(c, t) ==
  /\ Executes(c, t)
  /\ tpc[t] = "slot"
  /\ slot' = [slot EXCEPT ![t] = lastRead[tcpu[t]]]
  /\ ThreadGoto(t, "next")
  /\ UNCHANGED <<queueVars, destroyVars, cpuVars, balanceVars, tcpu, target,
                 treg, errorVars, state>>

\* Mutant: the index is not advanced.
PopNoAdvance(c, t) ==
  /\ Executes(c, t)
  /\ tpc[t] = "next"
  /\ treg' = [treg EXCEPT ![t] = lastRead[tcpu[t]]]
  /\ ThreadGoto(t, "advance")
  /\ UNCHANGED <<queueVars, destroyVars, cpuVars, balanceVars, tcpu, target,
                 slot, errorVars, state>>

\* ... lastRead loaded once more, and its successor ...
PopNext(c, t) ==
  /\ Executes(c, t)
  /\ tpc[t] = "next"
  /\ treg' = [treg EXCEPT ![t] = lastRead[tcpu[t]] + 1]
  /\ ThreadGoto(t, "advance")
  /\ UNCHANGED <<queueVars, destroyVars, cpuVars, balanceVars, tcpu, target,
                 slot, errorVars, state>>

\* ... stored ...
PopAdvance(c, t) ==
  /\ Executes(c, t)
  /\ tpc[t] = "advance"
  /\ lastRead' = [lastRead EXCEPT ![tcpu[t]] = treg[t]]
  /\ ThreadGoto(t, "size")
  /\ UNCHANGED <<queueVars, toDestroy, toDestroySize, toDestroyLock, cpuVars,
                 balanceVars, tcpu, target, slot, treg, errorVars, state>>

\* ... and _size-- in its two halves.
PopSize(c, t) ==
  /\ Executes(c, t)
  /\ tpc[t] = "size"
  /\ treg' = [treg EXCEPT ![t] = toDestroySize[tcpu[t]]]
  /\ ThreadGoto(t, "store")
  /\ UNCHANGED <<queueVars, destroyVars, cpuVars, balanceVars, tcpu, target,
                 slot, errorVars, state>>

\* Mutant: _size is not decremented.
PopKeepsSize(c, t) ==
  /\ Executes(c, t)
  /\ tpc[t] = "store"
  /\ ThreadGoto(t, "take")
  /\ UNCHANGED <<queueVars, destroyVars, cpuVars, balanceVars, tcpu, target,
                 slot, treg, errorVars, state>>

PopStore(c, t) ==
  /\ Executes(c, t)
  /\ tpc[t] = "store"
  /\ toDestroySize' = [toDestroySize EXCEPT ![tcpu[t]] = treg[t] - 1]
  /\ ThreadGoto(t, "take")
  /\ UNCHANGED <<queueVars, toDestroy, lastRead, toDestroyLock, cpuVars,
                 balanceVars, tcpu, target, slot, treg, errorVars, state>>

\* The reference is read, and the thread asserted to be Killed.  A slot
\* nobody pushed to, or the pointer to a freed thread, is a fault.
DestroyerTake(c, t) ==
  LET q == tcpu[t]
      v == toDestroy[q][slot[t]]
  IN /\ Executes(c, t)
     /\ tpc[t] = "take"
     /\ IF slot[t] \notin DOMAIN toDestroy[q]
        THEN fault' = "freed" /\ UNCHANGED <<target, tpc, pc, failed>>
        ELSE /\ target' = [target EXCEPT ![t] = v]
             /\ fault' = IF state[v] = "Freed" THEN "freed" ELSE fault
             /\ IF state[v] # "Killed"
                THEN Panic(c, "destroyer") /\ UNCHANGED tpc
                ELSE ThreadGoto(t, "destroyLock") /\ UNCHANGED <<pc, failed>>
     /\ slot' = [slot EXCEPT ![t] = 0]
     /\ treg' = [treg EXCEPT ![t] = 0]
     /\ UNCHANGED <<queueVars, destroyVars, currentThread, hand, idx, reg,
                    balanceVars, tcpu, state>>

\* The run queue is locked with interrupts enabled.
DestroyerLock(c, t) ==
  /\ Executes(c, t)
  /\ tpc[t] = "destroyLock"
  /\ ~locked[tcpu[t]]
  /\ locked' = [locked EXCEPT ![tcpu[t]] = TRUE]
  /\ ThreadGoto(t, "replace")
  /\ UNCHANGED <<threads, destroyVars, cpuVars, balanceVars, tcpu, target, slot, treg,
                 errorVars, state>>

\* replaceAll(thread, &killedThread) on the captured CPU's queue, unlock().
DestroyerReplace(c, t) ==
  LET q == tcpu[t]
  IN /\ Executes(c, t)
     /\ tpc[t] = "replace"
     /\ threads' = [threads EXCEPT ![q] =
                      [k \in 1..Len(@) |-> IF @[k] = target[t]
                                           THEN killedThread ELSE @[k]]]
     /\ locked' = [locked EXCEPT ![q] = FALSE]
     /\ ThreadGoto(t, "destroy")
     /\ UNCHANGED <<destroyVars, cpuVars, balanceVars, tcpu, target, slot, treg,
                    errorVars, state>>

\* destroyThread(): the assert looks at this CPU only; the stack and the
\* Thread object are freed.
DestroyThread(c, t) ==
  LET v == target[t]
  IN /\ Executes(c, t)
     /\ tpc[t] = "destroy"
     /\ IF v = currentThread[c]
        THEN Panic(c, "destroyThread") /\ UNCHANGED <<state, tpc, target, fault>>
        ELSE /\ state' = [state EXCEPT ![v] = "Freed"]
             /\ target' = [target EXCEPT ![t] = NoThread]
             /\ ThreadGoto(t, "check")
             /\ fault' = IF state[v] = "Freed" \/ \E d \in CPUs : currentThread[d] = v
                         THEN "freed" ELSE fault
             /\ UNCHANGED <<pc, failed>>
     /\ UNCHANGED <<queueVars, destroyVars, currentThread, hand, idx, reg,
                    balanceVars, tcpu, slot, treg>>

-----------------------------------------------------------------------------

\* What CPU c does in the scheduler, with interrupts disabled.
CpuStep(c) ==
  \/ Enqueue(c) \/ SwitchNext(c) \/ LockOwn(c) \/ PopOwn(c) \/ GoIdle(c)
  \/ Scan(c) \/ Steal(c) \/ StealNothing(c) \/ StartBalance(c)
  \/ SkipBalance(c) \/ SwitchTo(c) \/ SortInsert(c) \/ LockFirst(c)
  \/ LockSecond(c) \/ MoveOne(c) \/ UnlockPair(c) \/ EndBalance(c)
  \/ ExitPush(c) \/ ExitStore(c)

\* What the main thread and the user threads do of their own accord.
ProgramStep(c) ==
  \/ \E u \in User : Create(c, u)
  \/ AddLock(c) \/ AddPush(c)
  \/ ExitCapture(c) \/ ExitKill(c)

DestroyerStep(c, t) ==
  \/ DestroyerStart(c, t) \/ DestroyerYield(c, t) \/ DestroyerCheck(c, t)
  \/ PopAssert(c, t) \/ PopFront(c, t) \/ PopNext(c, t) \/ PopAdvance(c, t)
  \/ PopSize(c, t) \/ PopStore(c, t) \/ DestroyerTake(c, t)
  \/ DestroyerLock(c, t) \/ DestroyerReplace(c, t) \/ DestroyThread(c, t)

Next ==
  /\ fault = "none"
  /\ \E c \in CPUs :
       \/ Tick(c)
       \/ CpuStep(c)
       \/ ProgramStep(c)
       \/ \E t \in Destroyers : DestroyerStep(c, t)

Spec == Init /\ [][Next]_vars

-----------------------------------------------------------------------------
(* Safety.                                                                 *)

\* The lock of queue q is held by the scheduler on CPU c, or by thread t.
HoldsCpu(c, q) ==
  \/ pc[c] \in {"pop", "scan", "steal"} /\ q = c
  \/ pc[c] = "steal" /\ q = idx[c]
  \/ pc[c] \in {"lock2", "move"} /\ q = Cpu1(c)
  \/ pc[c] = "move" /\ q = Cpu2(c)

HoldsThread(t, q) == tpc[t] \in {"addPush", "replace"} /\ tcpu[t] = q

Balancing(c) == pc[c] \in {"sort", "lock1", "lock2", "move"}

QueueLockInv ==
  /\ \A q \in CPUs :
       locked[q] <=> \/ \E c \in CPUs : HoldsCpu(c, q)
                     \/ \E t \in Thread : HoldsThread(t, q)
  /\ \A c, d \in CPUs : c # d =>
       \A q \in CPUs : ~(HoldsCpu(c, q) /\ HoldsCpu(d, q))
  /\ \A t \in Thread, q \in CPUs : HoldsThread(t, q) =>
       /\ \A u \in Thread : HoldsThread(u, q) => u = t
       /\ \A c \in CPUs : ~HoldsCpu(c, q)

BalanceLockInv ==
  /\ balanceLock <=> \E c \in CPUs : Balancing(c)
  /\ \A c, d \in CPUs : Balancing(c) /\ Balancing(d) => c = d

\* Every spinlock is taken exactly while one CPU or thread is between its
\* lock() and unlock(), through stealing, balancing, addThread() and the
\* destroyer, whoever is preempted or migrated meanwhile: no unlock() frees
\* a lock somebody else holds, and no path forgets one.
LockInv == QueueLockInv /\ BalanceLockInv

\* CPU c spins, interrupts disabled, on a lock the scheduler of d holds.
SpinsOn(c, d) ==
  \/ pc[c] \in {"enqueue", "lock"} /\ HoldsCpu(d, c)
  \/ pc[c] = "lock1" /\ idx[c] <= N \div 2 /\ HoldsCpu(d, Cpu1(c))
  \/ pc[c] = "lock2" /\ HoldsCpu(d, Cpu2(c))

\* Stealing holds two queue locks and balancing takes two more in an order
\* the queue lengths decide, yet no group of CPUs ever spins on one another
\* with interrupts disabled: tryLock() and the single balancer prevent it.
NoSpinCycle ==
  \A S \in (SUBSET CPUs) \ {{}} :
    \E c \in S : \A d \in S : ~SpinsOn(c, d)

\* The places a thread can be in: queue entries, hands, CPUs executing it
\* or preempting it, and the argument of addThread().
InQueue(t) == UNION {{<<q, k>> : k \in {k \in DOMAIN threads[q] : threads[q][k] = t}}
                       : q \in CPUs}
InHand(t) == {c \in CPUs : hand[c] = t}
OnCpu(t) == {c \in CPUs : /\ currentThread[c] = t
                          /\ pc[c] \in {"thread", "enqueue", "panic"}}
BeingAdded(t) == IF target[Main] = t THEN {Main} ELSE {}

Ordinary == Thread \ (Idles \cup {killedThread})

\* As long as no stack is shared, ticks, stealing and balancing neither lose
\* nor duplicate a thread: one that has not exited and was not killed is in
\* exactly one place.  (The idle threads are the exception: they are queued
\* by a tick and also reached through cpu->idleThread.)
NoThreadLost ==
  fault = "none" =>
    \A t \in Ordinary :
      state[t] \in {"Stopped", "Running"} /\ tpc[t] # "exited" =>
        Cardinality(InQueue(t)) + Cardinality(InHand(t))
          + Cardinality(OnCpu(t)) + Cardinality(BeingAdded(t)) = 1

\* assert(cpu->currentThread->state == ThreadState::Running), scheduler.cpp:126
\* and :140: a CPU that takes a tick or a yield is running its thread.
TickAssert == "tick" \notin failed

-----------------------------------------------------------------------------
(* On one CPU.                                                             *)

\* No assert of the scheduler fails: exit() then always kills its caller,
\* the destroyer only meets killed threads other than itself, and a thread
\* that is switched to is stopped.
AssertsHold == failed = {}

\* No freed Thread object is read and no kernel stack is freed under a CPU,
\* although pop() on threadsToDestroy races with the push() of exit().
MemorySafe == fault = "none"

\* The entries of threadsToDestroy the index has not passed.
Unread(c) == {k \in DOMAIN toDestroy[c] : k >= lastRead[c]}

\* A freed thread has left every list, hand and CPU that could reach it.
NoDangling ==
  \A t \in Thread : state[t] = "Freed" =>
    /\ InQueue(t) = {} /\ InHand(t) = {}
    /\ \A c \in CPUs :
         /\ currentThread[c] # t
         /\ \A k \in Unread(c) : toDestroy[c][k] # t

-----------------------------------------------------------------------------
(* Liveness.  The timer keeps firing and code that runs with interrupts    *)
(* disabled does not stop; the destroyer, preempted every 10 ms, still     *)
(* advances when it runs again and again.  User programs promise nothing.  *)

Defined(A) == fault = "none" /\ A

Fairness ==
  /\ \A c \in CPUs : /\ WF_vars(Defined(Tick(c)))
                     /\ WF_vars(Defined(CpuStep(c)))
  /\ \A c \in CPUs, t \in Destroyers : SF_vars(Defined(DestroyerStep(c, t)))

FairSpec == Spec /\ Fairness

\* A tick that lands while addThread() or the destroyer holds the queue lock
\* leaves its CPU spinning on a lock its own preempted thread holds.
Wedged(c) ==
  pc[c] \in {"enqueue", "lock"} /\ \E t \in Thread : HoldsThread(t, c)

\* exit()'s increment of threadsToDestroy's size was overwritten by a
\* preempted pop(): one more entry than the destroyer will ever see.
CountLost(c) ==
  pc[c] # "exitStore" /\ Cardinality(Unread(c)) > toDestroySize[c]

\* Round robin starves nobody: a queued thread runs, unless a tick has
\* wedged the CPU.
QueuedRuns ==
  \A t \in Ordinary, c \in CPUs :
    (\E k \in DOMAIN threads[c] : threads[c][k] = t)
      ~> (\E d \in CPUs : Executes(d, t) \/ Wedged(d))

\* An exited thread is freed, unless a tick has wedged the CPU or the race
\* on the size of threadsToDestroy has lost an entry.
ExitedFreed ==
  \A t \in Ordinary :
    (state[t] = "Killed")
      ~> (state[t] = "Freed" \/ \E c \in CPUs : Wedged(c) \/ CountLost(c))
=============================================================================
