--------------------------- MODULE SchedulerProofs ---------------------------
(***************************************************************************)
(* Proofs about the scheduler: the locks and the control state, then that  *)
(* no thread is lost or duplicated, both for every number of CPUs and      *)
(* threads, and last what holds on one CPU for any number of threads.      *)
(***************************************************************************)
EXTENDS Scheduler, FiniteSetTheorems, TLAPS

-----------------------------------------------------------------------------
(* Where an element occurs in the sequences that the queue operations      *)
(* build.                                                                  *)

\* t occurs in s; and t does not occur twice.
InSeq(t, s) == \E k \in DOMAIN s : s[k] = t
Once(t, s) == \A j, k \in DOMAIN s : s[j] = t /\ s[k] = t => j = k

\* The parts of a sequence that is not empty.
LEMMA HeadTailIn ==
  ASSUME NEW S, NEW s \in Seq(S), s # << >>
  PROVE  Head(s) \in S /\ Tail(s) \in Seq(S)
  OBVIOUS

\* push()
LEMMA AppendOccurs ==
  ASSUME NEW S, NEW s \in Seq(S), NEW x \in S, NEW t
  PROVE  /\ InSeq(t, Append(s, x)) <=> InSeq(t, s) \/ x = t
         /\ Once(t, s) /\ ~(x = t /\ InSeq(t, s)) => Once(t, Append(s, x))
  <1>1. /\ Len(s) \in Nat /\ DOMAIN s = 1..Len(s) /\ DOMAIN Append(s, x) = 1..Len(s)+1
        /\ \A k \in 1..Len(s) : Append(s, x)[k] = s[k]
        /\ Append(s, x)[Len(s)+1] = x
    OBVIOUS
  <1>2. \A k \in 1..Len(s)+1 : k \in 1..Len(s) \/ k = Len(s) + 1
    BY <1>1
  <1>3. \A k \in 1..Len(s) : k \in 1..Len(s)+1
    BY <1>1
  <1>4. Len(s) + 1 \in 1..Len(s)+1
    BY <1>1
  <1> QED
    BY <1>1, <1>2, <1>3, <1>4 DEF InSeq, Once

\* pop()
LEMMA TailOccurs ==
  ASSUME NEW S, NEW s \in Seq(S), s # << >>, NEW t
  PROVE  /\ InSeq(t, s) <=> Head(s) = t \/ InSeq(t, Tail(s))
         /\ Once(t, s) => Once(t, Tail(s)) /\ ~(Head(s) = t /\ InSeq(t, Tail(s)))
  <1>1. /\ Len(s) \in Nat /\ Len(s) # 0 /\ DOMAIN s = 1..Len(s) /\ Tail(s) \in Seq(S)
        /\ DOMAIN Tail(s) = 1..Len(s)-1
        /\ Head(s) = s[1] /\ \A k \in 1..Len(s)-1 : Tail(s)[k] = s[k+1]
    OBVIOUS
  <1>2. \A k \in 1..Len(s) : k = 1 \/ (k - 1 \in 1..Len(s)-1 /\ (k - 1) + 1 = k)
    BY <1>1
  <1>3. \A k \in 1..Len(s)-1 : k + 1 \in 1..Len(s) /\ k + 1 # 1
    BY <1>1
  <1>4. 1 \in 1..Len(s)
    BY <1>1
  <1>5. \A j, k \in 1..Len(s)-1 : j + 1 = k + 1 => j = k
    BY <1>1
  <1>6. InSeq(t, s) <=> Head(s) = t \/ InSeq(t, Tail(s))
    <2>1. ASSUME NEW k \in 1..Len(s), s[k] = t PROVE Head(s) = t \/ InSeq(t, Tail(s))
      BY <1>1, <1>2, <2>1 DEF InSeq
    <2>2. ASSUME NEW k \in 1..Len(s)-1, Tail(s)[k] = t PROVE InSeq(t, s)
      BY <1>1, <1>3, <2>2 DEF InSeq
    <2>3. Head(s) = t => InSeq(t, s)
      BY <1>1, <1>4 DEF InSeq
    <2> QED
      BY <1>1, <2>1, <2>2, <2>3 DEF InSeq
  <1>7. ASSUME Once(t, s) PROVE Once(t, Tail(s))
    BY <1>1, <1>3, <1>5, <1>7 DEF Once
  <1>8. ASSUME Once(t, s), Head(s) = t, InSeq(t, Tail(s)) PROVE FALSE
    BY <1>1, <1>3, <1>4, <1>8 DEF Once, InSeq
  <1> QED
    BY <1>6, <1>7, <1>8

\* Popping an entry and appending it again.
LEMMA RotateOccurs ==
  ASSUME NEW S, NEW s \in Seq(S), s # << >>, NEW t
  PROVE  /\ InSeq(t, Append(Tail(s), Head(s))) <=> InSeq(t, s)
         /\ Once(t, s) => Once(t, Append(Tail(s), Head(s)))
  <1>1. Head(s) \in S /\ Tail(s) \in Seq(S)
    BY HeadTailIn
  <1> QED
    BY <1>1, AppendOccurs, TailOccurs

-----------------------------------------------------------------------------

HasHand == {"found", "sort", "lock1", "lock2", "move", "to"}

\* s lists distinct CPUs.
Distinct(s) == \A i, j \in 1..Len(s) : s[i] = s[j] => i = j

(***************************************************************************)
(* What the control state says about the local variables: the thread in    *)
(* hand, the victim of a steal, the processors balance() has sorted so far *)
(* and the pair it works on.                                               *)
(***************************************************************************)
LocalInv(c) ==
  /\ pc[c] \in HasHand => hand[c] \in Thread
  /\ pc[c] = "steal" => idx[c] \in CPUs /\ idx[c] # c
  /\ pc[c] = "sort" => /\ Len(sorted[c]) = idx[c] - 1
                       /\ idx[c] <= N
                       /\ \A i \in 1..Len(sorted[c]) : sorted[c][i] < idx[c]
  /\ pc[c] \in {"lock1", "lock2", "move"} => Len(sorted[c]) = N
  /\ pc[c] \in {"lock2", "move"} => idx[c] <= N \div 2
  /\ ~Balancing(c) => sorted[c] = << >>
  /\ Distinct(sorted[c])

ControlInv ==
  /\ \A c \in CPUs : LocalInv(c)
  /\ tpc[Main] \in {"addLock", "addPush"} => target[Main] \in Thread
  /\ \A t \in Thread : tpc[t] = "advance" => treg[t] > 0

LEMMA HalfPair ==
  ASSUME NEW i \in 1..N+1, i <= N \div 2
  PROVE  i \in 1..N /\ N + 1 - i \in 1..N /\ i # N + 1 - i
  BY NAssumption

LEMMA InitTypeOK == Init => TypeOK
  <1> SUFFICES ASSUME Init PROVE TypeOK
    OBVIOUS
  <1>1. 1 \in CPUs /\ \A c \in CPUs : destroyer[c] \in Thread /\ Main \in Thread
    BY NAssumption, ThreadAssumption DEF CPUs
  <1>2. threads \in [CPUs -> Seq(Thread)]
    BY <1>1 DEF Init
  <1>3. /\ toDestroy \in [CPUs -> Seq(Thread)] /\ sorted \in [CPUs -> Seq(CPUs)]
        /\ currentThread \in [CPUs -> Thread]
    BY ThreadAssumption DEF Init
  <1>4. state \in [Thread -> ThreadState] /\ tpc \in [Thread -> ThreadPc]
    BY DEF Init, ThreadState, ThreadPc
  <1>5. /\ pc \in [CPUs -> CpuPc] /\ failed \subseteq Asserts
        /\ hand \in [CPUs -> Thread \cup {NoThread}]
        /\ target \in [Thread -> Thread \cup {NoThread}]
        /\ fault \in {"none", "stack", "freed"}
    BY DEF Init, CpuPc
  <1>6. /\ lastRead \in [CPUs -> Nat] /\ toDestroySize \in [CPUs -> Int]
        /\ reg \in [CPUs -> Int] /\ slot \in [Thread -> Nat]
        /\ treg \in [Thread -> Int] /\ idx \in [CPUs -> 1..N+1]
        /\ tcpu \in [Thread -> CPUs]
    BY <1>1, NAssumption DEF Init
  <1>7. /\ locked \in [CPUs -> BOOLEAN] /\ toDestroyLock \in [CPUs -> BOOLEAN]
        /\ balanceLock \in BOOLEAN
    BY DEF Init
  <1> QED
    BY <1>2, <1>3, <1>4, <1>5, <1>6, <1>7 DEF TypeOK

LEMMA DestroyersType == Destroyers \subseteq Thread
  BY ThreadAssumption DEF Destroyers

LEMMA CapturedCpu ==
  ASSUME TypeOK, NEW c \in CPUs
  PROVE  tcpu[currentThread[c]] \in CPUs
  BY DEF TypeOK

LEMMA SeqEntry ==
  ASSUME NEW S, NEW s \in Seq(S), NEW k \in DOMAIN s
  PROVE  s[k] \in S
  OBVIOUS

LEMMA ExceptType ==
  ASSUME NEW A, NEW B, NEW f \in [A -> B], NEW a, NEW b \in B
  PROVE  [f EXCEPT ![a] = b] \in [A -> B]
  OBVIOUS

LEMMA IdxType ==
  ASSUME TypeOK, NEW c \in CPUs
  PROVE  idx[c] \in Nat /\ idx[c] >= 1 /\ idx[c] <= N + 1 /\ 1 \in 1..N+1
  <1>1. idx[c] \in 1..N+1
    BY DEF TypeOK
  <1> QED
    BY <1>1, NAssumption

LEMMA HeadTail ==
  ASSUME NEW S, NEW s \in Seq(S), s # << >>
  PROVE  Head(s) \in S /\ Tail(s) \in Seq(S)
  OBVIOUS

LEMMA PopTurnType ==
  ASSUME TypeOK, NEW c \in CPUs, NEW q \in CPUs, PopTurn(c, q)
  PROVE  /\ threads' \in [CPUs -> Seq(Thread)]
         /\ hand' \in [CPUs -> Thread \cup {NoThread}]
         /\ fault' \in {"none", "stack", "freed"}
  <1>1. Head(threads[q]) \in Thread /\ Tail(threads[q]) \in Seq(Thread)
    <2>1. threads[q] \in Seq(Thread) /\ threads[q] # << >>
      BY DEF PopTurn, TypeOK
    <2> QED
      BY <2>1, HeadTail
  <1>2. Append(Tail(threads[q]), Head(threads[q])) \in Seq(Thread)
    BY <1>1
  <1>3. threads' \in [CPUs -> Seq(Thread)]
    BY <1>1, <1>2 DEF PopTurn, TypeOK
  <1>4. hand' \in [CPUs -> Thread \cup {NoThread}]
    BY <1>1 DEF PopTurn, TypeOK
  <1> QED
    BY <1>3, <1>4 DEF PopTurn, TypeOK

\* The list balance() gets by inserting e at position p.
Insert(s, p, e) == [j \in 1..Len(s)+1 |-> IF j < p THEN s[j]
                                          ELSE IF j = p THEN e ELSE s[j-1]]

LEMMA InsertFacts ==
  ASSUME NEW s \in Seq(CPUs), NEW p \in 1..Len(s)+1, NEW e \in CPUs,
         Distinct(s), \A i \in 1..Len(s) : s[i] < e
  PROVE  /\ Insert(s, p, e) \in Seq(CPUs)
         /\ Len(Insert(s, p, e)) = Len(s) + 1
         /\ Distinct(Insert(s, p, e))
         /\ \A i \in 1..Len(s)+1 : Insert(s, p, e)[i] <= e
  <1>1. \A i \in 1..Len(s) : s[i] \in CPUs
    OBVIOUS
  <1>2. Len(s) \in Nat
    OBVIOUS
  <1>3. \A j \in 1..Len(s)+1 : j >= p => j = p \/ j - 1 \in 1..Len(s)
    BY <1>2
  <1>4. \A j \in 1..Len(s)+1 : j < p => j \in 1..Len(s)
    BY <1>2
  <1>5. \A j \in 1..Len(s)+1 : Insert(s, p, e)[j] \in CPUs
    BY <1>1, <1>2, <1>3, <1>4 DEF Insert
  <1>6. Insert(s, p, e) \in Seq(CPUs) /\ Len(Insert(s, p, e)) = Len(s) + 1
    BY <1>2, <1>5 DEF Insert
  <1>7. \A j \in 1..Len(s)+1 :
          Insert(s, p, e)[j] = IF j < p THEN s[j] ELSE IF j = p THEN e ELSE s[j-1]
    BY DEF Insert
  <1>8. ASSUME NEW i \in 1..Len(s)+1, NEW j \in 1..Len(s)+1,
               Insert(s, p, e)[i] = Insert(s, p, e)[j]
        PROVE  i = j
    <2>1. e \in Nat /\ \A k \in 1..Len(s) : s[k] \in Nat /\ s[k] # e
      BY <1>1, NAssumption DEF CPUs
    <2>2. CASE i = p
      BY <2>1, <2>2, <1>3, <1>4, <1>7, <1>8
    <2>3. CASE j = p
      BY <2>1, <2>3, <1>3, <1>4, <1>7, <1>8
    <2>4. CASE i # p /\ j # p
      <3> DEFINE f(k) == IF k < p THEN k ELSE k - 1
      <3>1. f(i) \in 1..Len(s) /\ f(j) \in 1..Len(s)
        BY <2>4, <1>2
      <3>2. s[f(i)] = s[f(j)]
        BY <2>4, <1>7, <1>8
      <3>3. f(i) = f(j)
        BY <3>1, <3>2 DEF Distinct
      <3> QED
        BY <3>3, <2>4
    <2> QED
      BY <2>2, <2>3, <2>4
  <1>9. \A i \in 1..Len(s)+1 : Insert(s, p, e)[i] <= e
    <2>1. e \in Nat /\ \A k \in 1..Len(s) : s[k] \in Nat
      BY <1>1, NAssumption DEF CPUs
    <2>2. \A k \in 1..Len(s) : s[k] <= e
      BY <2>1
    <2> QED
      BY <2>1, <2>2, <1>3, <1>4, <1>7, SMTT(60)
  <1> QED
    BY <1>6, <1>8, <1>9 DEF Distinct

LEMMA InsertType ==
  ASSUME TypeOK, ControlInv, NEW c \in CPUs, SortInsert(c)
  PROVE  /\ sorted' \in [CPUs -> Seq(CPUs)]
         /\ \A d \in CPUs : d # c => sorted'[d] = sorted[d]
         /\ idx[c] \in CPUs
         /\ Len(sorted'[c]) = idx[c]
         /\ Distinct(sorted'[c])
         /\ \A i \in 1..Len(sorted'[c]) : sorted'[c][i] <= idx[c]
  <1>1. /\ sorted[c] \in Seq(CPUs) /\ Distinct(sorted[c]) /\ idx[c] \in CPUs
        /\ Len(sorted[c]) = idx[c] - 1
        /\ \A i \in 1..Len(sorted[c]) : sorted[c][i] < idx[c]
    BY NAssumption DEF SortInsert, TypeOK, ControlInv, LocalInv, CPUs
  <1>2. PICK p \in 1..Len(sorted[c])+1 :
          sorted' = [sorted EXCEPT ![c] = Insert(sorted[c], p, idx[c])]
    BY DEF SortInsert, Insert
  <1>3. sorted'[c] = Insert(sorted[c], p, idx[c])
    BY <1>2 DEF TypeOK
  <1>4. /\ Insert(sorted[c], p, idx[c]) \in Seq(CPUs)
        /\ Len(Insert(sorted[c], p, idx[c])) = Len(sorted[c]) + 1
        /\ Distinct(Insert(sorted[c], p, idx[c]))
        /\ \A i \in 1..Len(sorted[c])+1 : Insert(sorted[c], p, idx[c])[i] <= idx[c]
    BY <1>1, InsertFacts
  <1>5. sorted' \in [CPUs -> Seq(CPUs)]
    BY <1>2, <1>4 DEF TypeOK
  <1>6. Len(sorted[c]) + 1 = idx[c]
    BY <1>1, NAssumption DEF CPUs
  <1> QED
    BY <1>1, <1>2, <1>3, <1>4, <1>5, <1>6 DEF TypeOK

LEMMA PairType ==
  ASSUME TypeOK, ControlInv, NEW c \in CPUs,
         \/ pc[c] = "lock1" /\ idx[c] <= N \div 2
         \/ pc[c] \in {"lock2", "move"}
  PROVE  Cpu1(c) \in CPUs /\ Cpu2(c) \in CPUs /\ Cpu1(c) # Cpu2(c)
  <1>1. /\ sorted[c] \in Seq(CPUs) /\ Len(sorted[c]) = N /\ Distinct(sorted[c])
        /\ idx[c] \in 1..N+1 /\ idx[c] <= N \div 2
    BY DEF TypeOK, ControlInv, LocalInv
  <1>2. idx[c] \in 1..N /\ N + 1 - idx[c] \in 1..N /\ idx[c] # N + 1 - idx[c]
    BY <1>1, HalfPair
  <1> QED
    BY <1>1, <1>2 DEF Cpu1, Cpu2, Distinct

LEMMA MoveType ==
  ASSUME TypeOK, ControlInv, NEW c \in CPUs, MoveOne(c)
  PROVE  threads' \in [CPUs -> Seq(Thread)]
  <1>1. Cpu1(c) \in CPUs /\ Cpu2(c) \in CPUs /\ Cpu1(c) # Cpu2(c)
    BY PairType DEF MoveOne
  <1>2. Head(threads[Cpu2(c)]) \in Thread /\ Tail(threads[Cpu2(c)]) \in Seq(Thread)
    <2>1. threads[Cpu2(c)] \in Seq(Thread) /\ threads[Cpu2(c)] # << >>
      BY <1>1 DEF MoveOne, Uneven, TypeOK
    <2> QED
      BY <2>1, HeadTail
  <1>3. Append(threads[Cpu1(c)], Head(threads[Cpu2(c)])) \in Seq(Thread)
    BY <1>1, <1>2 DEF TypeOK
  <1> QED
    BY <1>1, <1>2, <1>3 DEF MoveOne, TypeOK

LEMMA PreemptType ==
  ASSUME TypeOK, NEW c \in CPUs, Preempt(c)
  PROVE  TypeOK'
  <1>1. state' \in [Thread -> ThreadState]
    <2>1. state' = state \/ state' = [state EXCEPT ![currentThread[c]] = "Stopped"]
      BY DEF Preempt
    <2>2. state \in [Thread -> ThreadState] /\ "Stopped" \in ThreadState
      BY DEF TypeOK, ThreadState
    <2> QED
      BY <2>1, <2>2
  <1>2. pc' \in [CPUs -> CpuPc]
    <2>1. pc' = [pc EXCEPT ![c] = "panic"] \/ pc' = [pc EXCEPT ![c] = "enqueue"]
      BY DEF Preempt, Goto, Panic
    <2> QED
      BY <2>1 DEF TypeOK, CpuPc
  <1>3. failed' \subseteq Asserts
    BY DEF Preempt, Panic, TypeOK, Asserts
  <1> QED
    BY <1>1, <1>2, <1>3 DEF Preempt, TypeOK, queueVars, destroyVars,
                            balanceVars, threadVars

LEMMA CpuStepType ==
  ASSUME TypeOK, ControlInv, NEW c \in CPUs, CpuStep(c)
  PROVE  TypeOK'
  <1>1. CASE Enqueue(c)
    <2>1. threads' \in [CPUs -> Seq(Thread)]
      BY <1>1 DEF Enqueue, TypeOK
    <2>2. pc' \in [CPUs -> CpuPc]
      BY <1>1 DEF Enqueue, Goto, CpuPc, TypeOK
    <2> QED
      BY <1>1, <2>1, <2>2
         DEF Enqueue, TypeOK, destroyVars, balanceVars, threadVars, errorVars
  <1>2. CASE SwitchNext(c)
    <2>1. state' \in [Thread -> ThreadState]
      BY <1>2 DEF SwitchNext, ThreadState, TypeOK
    <2>2. pc' \in [CPUs -> CpuPc]
      BY <1>2 DEF SwitchNext, Goto, CpuPc, TypeOK
    <2> QED
      BY <1>2, <2>1, <2>2
         DEF SwitchNext, TypeOK, queueVars, destroyVars, balanceVars,
         threadVars, errorVars
  <1>3. CASE LockOwn(c)
    <2>1. locked' \in [CPUs -> BOOLEAN]
      BY <1>3 DEF LockOwn, TypeOK
    <2>2. pc' \in [CPUs -> CpuPc]
      BY <1>3 DEF LockOwn, Goto, CpuPc, TypeOK
    <2> QED
      BY <1>3, <2>1, <2>2
         DEF LockOwn, TypeOK, destroyVars, balanceVars, threadVars, errorVars
  <1>4. CASE PopOwn(c)
    <2>1. threads' \in [CPUs -> Seq(Thread)]
      BY <1>4, PopTurnType DEF PopOwn, TypeOK
    <2>2. hand' \in [CPUs -> Thread \cup {NoThread}]
      BY <1>4, PopTurnType DEF PopOwn, TypeOK
    <2>3. fault' \in {"none", "stack", "freed"}
      BY <1>4, PopTurnType DEF PopOwn, TypeOK
    <2>4. locked' \in [CPUs -> BOOLEAN]
      BY <1>4 DEF PopOwn, TypeOK
    <2>5. pc' \in [CPUs -> CpuPc]
      <3>1. pc' = [pc EXCEPT ![c] = "found"] \/ pc' = pc
        BY <1>4 DEF PopOwn, Goto
      <3> QED
        BY <3>1 DEF TypeOK, CpuPc
    <2> QED
      BY <1>4, <2>1, <2>2, <2>3, <2>4, <2>5
         DEF PopOwn, TypeOK, destroyVars, balanceVars, threadVars
  <1>5. CASE GoIdle(c)
    <2>1. locked' \in [CPUs -> BOOLEAN]
      BY <1>5 DEF GoIdle, TypeOK
    <2>2. hand' \in [CPUs -> Thread \cup {NoThread}]
      BY <1>5, ThreadAssumption DEF GoIdle, TypeOK
    <2>3. pc' \in [CPUs -> CpuPc]
      BY <1>5 DEF GoIdle, Goto, CpuPc, TypeOK
    <2> QED
      BY <1>5, <2>1, <2>2, <2>3
         DEF GoIdle, TypeOK, destroyVars, balanceVars, threadVars, errorVars
  <1>6. CASE Scan(c)
    <2>1. idx' \in [CPUs -> 1..N+1]
      <3>1. idx' = [idx EXCEPT ![c] = idx[c] + 1] \/ idx' = idx
        BY <1>6 DEF Scan
      <3>2. idx[c] + 1 \in 1..N+1
        BY <1>6, NAssumption, IdxType DEF Scan
      <3> QED
        BY <3>1, <3>2 DEF TypeOK
    <2>2. locked' \in [CPUs -> BOOLEAN]
      BY <1>6 DEF Scan, TypeOK
    <2>3. pc' \in [CPUs -> CpuPc]
      <3>1. pc' = [pc EXCEPT ![c] = "steal"] \/ pc' = pc
        BY <1>6 DEF Scan, Goto
      <3> QED
        BY <3>1 DEF TypeOK, CpuPc
    <2> QED
      BY <1>6, <2>1, <2>2, <2>3
         DEF Scan, TypeOK, destroyVars, balanceVars, threadVars, errorVars
  <1>7. CASE Steal(c)
    <2>1. threads' \in [CPUs -> Seq(Thread)]
      BY <1>7, PopTurnType DEF Steal, TypeOK, ControlInv, LocalInv
    <2>2. hand' \in [CPUs -> Thread \cup {NoThread}]
      BY <1>7, PopTurnType DEF Steal, TypeOK, ControlInv, LocalInv
    <2>3. fault' \in {"none", "stack", "freed"}
      BY <1>7, PopTurnType DEF Steal, TypeOK, ControlInv, LocalInv
    <2>4. locked' \in [CPUs -> BOOLEAN]
      BY <1>7 DEF Steal, TypeOK
    <2>5. pc' \in [CPUs -> CpuPc]
      <3>1. pc' = [pc EXCEPT ![c] = "found"] \/ pc' = pc
        BY <1>7 DEF Steal, Goto
      <3> QED
        BY <3>1 DEF TypeOK, CpuPc
    <2> QED
      BY <1>7, <2>1, <2>2, <2>3, <2>4, <2>5
         DEF Steal, TypeOK, destroyVars, balanceVars, threadVars
  <1>8. CASE StealNothing(c)
    <2>1. locked' \in [CPUs -> BOOLEAN]
      BY <1>8 DEF StealNothing, TypeOK
    <2>2. idx' \in [CPUs -> 1..N+1]
      <3>1. idx' = [idx EXCEPT ![c] = idx[c] + 1]
        BY <1>8 DEF StealNothing
      <3>2. idx[c] + 1 \in 1..N+1
        BY <1>8, NAssumption DEF StealNothing, ControlInv, LocalInv, CPUs
      <3> QED
        BY <3>1, <3>2, NAssumption DEF TypeOK
    <2>3. pc' \in [CPUs -> CpuPc]
      BY <1>8 DEF StealNothing, Goto, CpuPc, TypeOK
    <2> QED
      BY <1>8, <2>1, <2>2, <2>3
         DEF StealNothing, TypeOK, destroyVars, balanceVars, threadVars,
         errorVars
  <1>9. CASE StartBalance(c)
    <2>1. balanceLock' \in BOOLEAN
      BY <1>9 DEF StartBalance, TypeOK
    <2>2. idx' \in [CPUs -> 1..N+1]
      BY <1>9, NAssumption DEF StartBalance, TypeOK
    <2>3. pc' \in [CPUs -> CpuPc]
      BY <1>9 DEF StartBalance, Goto, CpuPc, TypeOK
    <2> QED
      BY <1>9, <2>1, <2>2, <2>3
         DEF StartBalance, TypeOK, queueVars, destroyVars, threadVars,
         errorVars
  <1>10. CASE SkipBalance(c)
    <2>1. pc' \in [CPUs -> CpuPc]
      BY <1>10 DEF SkipBalance, Goto, CpuPc, TypeOK
    <2> QED
      BY <1>10, <2>1
         DEF SkipBalance, TypeOK, queueVars, destroyVars, balanceVars,
         threadVars, errorVars
  <1>11. CASE SwitchTo(c)
    <2>1. currentThread' \in [CPUs -> Thread]
      BY <1>11 DEF SwitchTo, TypeOK, ControlInv, LocalInv, HasHand
    <2>2. hand' \in [CPUs -> Thread \cup {NoThread}]
      BY <1>11 DEF SwitchTo, TypeOK
    <2>3. idx' \in [CPUs -> 1..N+1]
      BY <1>11, NAssumption DEF SwitchTo, TypeOK
    <2>4. state' \in [Thread -> ThreadState]
      <3>1. state' = state \/ state' = [state EXCEPT ![hand[c]] = "Running"]
        BY <1>11 DEF SwitchTo
      <3>2. state \in [Thread -> ThreadState] /\ "Running" \in ThreadState
        BY DEF TypeOK, ThreadState
      <3> QED
        BY <3>1, <3>2
    <2>5. pc' \in [CPUs -> CpuPc]
      <3>1. pc' = [pc EXCEPT ![c] = "panic"] \/ pc' = [pc EXCEPT ![c] = "thread"]
        BY <1>11 DEF SwitchTo, Goto, Panic
      <3> QED
        BY <3>1 DEF TypeOK, CpuPc
    <2>6. failed' \subseteq Asserts
      BY <1>11 DEF SwitchTo, Asserts, TypeOK, Panic
    <2>7. fault' \in {"none", "stack", "freed"}
      BY <1>11 DEF SwitchTo, TypeOK
    <2> QED
      BY <1>11, <2>1, <2>2, <2>3, <2>4, <2>5, <2>6, <2>7
         DEF SwitchTo, TypeOK, queueVars, destroyVars, balanceVars, threadVars
  <1>12. CASE SortInsert(c)
    <2>1. sorted' \in [CPUs -> Seq(CPUs)]
      BY <1>12, InsertType
    <2>2. idx' \in [CPUs -> 1..N+1]
      <3>1. idx' = [idx EXCEPT ![c] = idx[c] + 1] \/ idx' = [idx EXCEPT ![c] = 1]
        BY <1>12 DEF SortInsert
      <3>2. idx[c] + 1 \in 1..N+1
        BY <1>12, InsertType, NAssumption DEF CPUs
      <3>3. idx \in [CPUs -> 1..N+1] /\ 1 \in 1..N+1
        BY IdxType DEF TypeOK
      <3> QED
        BY <3>1, <3>2, <3>3, ExceptType
    <2>3. pc' \in [CPUs -> CpuPc]
      BY <1>12 DEF SortInsert, Goto, CpuPc, TypeOK
    <2> QED
      BY <1>12, <2>1, <2>2, <2>3
         DEF SortInsert, TypeOK, queueVars, destroyVars, threadVars, errorVars
  <1>13. CASE LockFirst(c)
    <2>1. locked' \in [CPUs -> BOOLEAN]
      BY <1>13 DEF LockFirst, TypeOK
    <2>2. pc' \in [CPUs -> CpuPc]
      BY <1>13 DEF LockFirst, Goto, CpuPc, TypeOK
    <2> QED
      BY <1>13, <2>1, <2>2
         DEF LockFirst, TypeOK, destroyVars, balanceVars, threadVars, errorVars
  <1>14. CASE LockSecond(c)
    <2>1. locked' \in [CPUs -> BOOLEAN]
      BY <1>14 DEF LockSecond, TypeOK
    <2>2. pc' \in [CPUs -> CpuPc]
      BY <1>14 DEF LockSecond, Goto, CpuPc, TypeOK
    <2> QED
      BY <1>14, <2>1, <2>2
         DEF LockSecond, TypeOK, destroyVars, balanceVars, threadVars,
         errorVars
  <1>15. CASE MoveOne(c)
    <2>1. threads' \in [CPUs -> Seq(Thread)]
      BY <1>15, MoveType
    <2> QED
      BY <1>15, <2>1
         DEF MoveOne, TypeOK, destroyVars, cpuVars, balanceVars, threadVars,
         errorVars
  <1>16. CASE UnlockPair(c)
    <2>1. locked' \in [CPUs -> BOOLEAN]
      BY <1>16 DEF UnlockPair, TypeOK
    <2>2. idx' \in [CPUs -> 1..N+1]
      <3>1. idx' = [idx EXCEPT ![c] = idx[c] + 1]
        BY <1>16 DEF UnlockPair
      <3>2. idx[c] + 1 \in 1..N+1
        <4>1. idx[c] <= N \div 2
          BY <1>16 DEF UnlockPair, ControlInv, LocalInv
        <4> QED
          BY <4>1, NAssumption, IdxType
      <3> QED
        BY <3>1, <3>2, NAssumption DEF TypeOK
    <2>3. pc' \in [CPUs -> CpuPc]
      BY <1>16 DEF UnlockPair, Goto, CpuPc, TypeOK
    <2> QED
      BY <1>16, <2>1, <2>2, <2>3
         DEF UnlockPair, TypeOK, destroyVars, balanceVars, threadVars,
         errorVars
  <1>17. CASE EndBalance(c)
    <2>1. balanceLock' \in BOOLEAN
      BY <1>17 DEF EndBalance, TypeOK
    <2>2. sorted' \in [CPUs -> Seq(CPUs)]
      BY <1>17 DEF EndBalance, TypeOK
    <2>3. pc' \in [CPUs -> CpuPc]
      BY <1>17 DEF EndBalance, Goto, CpuPc, TypeOK
    <2> QED
      BY <1>17, <2>1, <2>2, <2>3
         DEF EndBalance, TypeOK, queueVars, destroyVars, threadVars, errorVars
  <1>18. CASE ExitPush(c)
    <2>1. toDestroyLock' \in [CPUs -> BOOLEAN]
      BY <1>18 DEF ExitPush, TypeOK
    <2>2. toDestroy' \in [CPUs -> Seq(Thread)]
      <3> DEFINE q == tcpu[currentThread[c]]
      <3>1. Append(toDestroy[q], currentThread[q]) \in Seq(Thread)
        BY CapturedCpu DEF TypeOK
      <3>2. toDestroy' = [toDestroy EXCEPT ![q] = Append(toDestroy[q], currentThread[q])]
        BY <1>18 DEF ExitPush
      <3> QED
        BY <3>1, <3>2 DEF TypeOK
    <2>3. reg' \in [CPUs -> Int]
      BY <1>18, CapturedCpu DEF ExitPush, TypeOK
    <2>4. pc' \in [CPUs -> CpuPc]
      BY <1>18 DEF ExitPush, Goto, CpuPc, TypeOK
    <2> QED
      BY <1>18, <2>1, <2>2, <2>3, <2>4
         DEF ExitPush, TypeOK, queueVars, balanceVars, threadVars, errorVars
  <1>19. CASE ExitStore(c)
    <2>1. toDestroySize' \in [CPUs -> Int]
      <3>1. reg[c] \in Int
        BY DEF TypeOK
      <3>2. reg[c] + 1 \in Int
        BY <3>1
      <3> QED
        BY <1>19, <3>2, ExceptType DEF ExitStore, TypeOK
    <2>2. toDestroyLock' \in [CPUs -> BOOLEAN]
      BY <1>19 DEF ExitStore, TypeOK
    <2>3. reg' \in [CPUs -> Int]
      BY <1>19 DEF ExitStore, TypeOK
    <2>4. pc' \in [CPUs -> CpuPc]
      BY <1>19 DEF ExitStore, Goto, CpuPc, TypeOK
    <2> QED
      BY <1>19, <2>1, <2>2, <2>3, <2>4
         DEF ExitStore, TypeOK, queueVars, balanceVars, threadVars, errorVars
  <1> QED
    BY <1>1, <1>2, <1>3, <1>4, <1>5, <1>6, <1>7, <1>8, <1>9, <1>10, <1>11,
       <1>12, <1>13, <1>14, <1>15, <1>16, <1>17, <1>18, <1>19 DEF CpuStep

LEMMA ProgramStepType ==
  ASSUME TypeOK, ControlInv, NEW c \in CPUs, ProgramStep(c)
  PROVE  TypeOK'
  <1>1. ASSUME NEW u \in User, Create(c, u) PROVE TypeOK'
    <2>1. state' \in [Thread -> ThreadState]
      BY <1>1 DEF Create, ThreadState, TypeOK
    <2>2. target' \in [Thread -> Thread \cup {NoThread}]
      BY <1>1, ThreadAssumption DEF Create, TypeOK
    <2>3. tcpu' \in [Thread -> CPUs]
      BY <1>1 DEF Create, TypeOK
    <2>4. tpc' \in [Thread -> ThreadPc]
      BY <1>1 DEF Create, ThreadGoto, ThreadPc, TypeOK
    <2> QED
      BY <1>1, <2>1, <2>2, <2>3, <2>4
         DEF Create, TypeOK, queueVars, destroyVars, cpuVars, balanceVars,
         errorVars
  <1>2. CASE AddLock(c)
    <2>1. locked' \in [CPUs -> BOOLEAN]
      BY <1>2 DEF AddLock, TypeOK
    <2>2. tpc' \in [Thread -> ThreadPc]
      BY <1>2 DEF AddLock, ThreadGoto, ThreadPc, TypeOK
    <2> QED
      BY <1>2, <2>1, <2>2
         DEF AddLock, TypeOK, destroyVars, cpuVars, balanceVars, errorVars
  <1>3. CASE AddPush(c)
    <2>1. threads' \in [CPUs -> Seq(Thread)]
      BY <1>3, ThreadAssumption DEF AddPush, TypeOK, ControlInv
    <2>2. locked' \in [CPUs -> BOOLEAN]
      BY <1>3 DEF AddPush, TypeOK
    <2>3. target' \in [Thread -> Thread \cup {NoThread}]
      BY <1>3 DEF AddPush, TypeOK
    <2>4. tpc' \in [Thread -> ThreadPc]
      BY <1>3 DEF AddPush, ThreadGoto, ThreadPc, TypeOK
    <2> QED
      BY <1>3, <2>1, <2>2, <2>3, <2>4
         DEF AddPush, TypeOK, destroyVars, cpuVars, balanceVars, errorVars
  <1>4. CASE ExitCapture(c)
    <2>1. tcpu' \in [Thread -> CPUs]
      BY <1>4 DEF ExitCapture, TypeOK
    <2>2. tpc' \in [Thread -> ThreadPc]
      BY <1>4 DEF ExitCapture, ThreadGoto, ThreadPc, TypeOK
    <2> QED
      BY <1>4, <2>1, <2>2
         DEF ExitCapture, TypeOK, queueVars, destroyVars, cpuVars, balanceVars,
         errorVars
  <1>5. CASE ExitKill(c)
    <2>1. state' \in [Thread -> ThreadState]
      BY <1>5 DEF ExitKill, ThreadState, TypeOK
    <2>2. pc' \in [CPUs -> CpuPc]
      BY <1>5 DEF ExitKill, Goto, CpuPc, TypeOK
    <2>3. tpc' \in [Thread -> ThreadPc]
      BY <1>5 DEF ExitKill, ThreadGoto, ThreadPc, TypeOK
    <2> QED
      BY <1>5, <2>1, <2>2, <2>3
         DEF ExitKill, TypeOK, queueVars, destroyVars, balanceVars, errorVars
  <1> QED
    BY <1>1, <1>2, <1>3, <1>4, <1>5 DEF ProgramStep

LEMMA DestroyerStepType ==
  ASSUME TypeOK, ControlInv, NEW c \in CPUs, NEW t \in Destroyers,
         DestroyerStep(c, t)
  PROVE  TypeOK'
  <1>1. CASE DestroyerStart(c, t)
    <2>1. tcpu' \in [Thread -> CPUs]
      BY <1>1 DEF DestroyerStart, TypeOK
    <2>2. tpc' \in [Thread -> ThreadPc]
      BY <1>1 DEF DestroyerStart, ThreadGoto, ThreadPc, TypeOK
    <2> QED
      BY <1>1, <2>1, <2>2
         DEF DestroyerStart, TypeOK, queueVars, destroyVars, cpuVars,
         balanceVars, errorVars
  <1>2. CASE DestroyerYield(c, t)
    BY <1>2, PreemptType DEF DestroyerYield
  <1>3. CASE DestroyerCheck(c, t)
    <2>1. tpc' \in [Thread -> ThreadPc]
      BY <1>3 DEF DestroyerCheck, ThreadGoto, ThreadPc, TypeOK
    <2> QED
      BY <1>3, <2>1
         DEF DestroyerCheck, TypeOK, queueVars, destroyVars, cpuVars, balanceVars, errorVars
  <1>4. CASE PopAssert(c, t)
    <2>1. pc' \in [CPUs -> CpuPc]
      BY <1>4 DEF PopAssert, Goto, CpuPc, TypeOK, Panic
    <2>2. failed' \subseteq Asserts
      <3>1. failed' = failed \/ failed' = failed \cup {"front"}
        BY <1>4 DEF PopAssert, Panic
      <3> QED
        BY <3>1 DEF Asserts, TypeOK
    <2>3. tpc' \in [Thread -> ThreadPc]
      <3>1. tpc' = tpc \/ tpc' = [tpc EXCEPT ![t] = "slot"]
        BY <1>4 DEF PopAssert, ThreadGoto, threadVars
      <3>2. tpc \in [Thread -> ThreadPc] /\ "slot" \in ThreadPc
        BY DEF TypeOK, ThreadPc
      <3> QED
        BY <3>1, <3>2
    <2> QED
      BY <1>4, <2>1, <2>2, <2>3 DEF PopAssert, TypeOK, queueVars, destroyVars, balanceVars
  <1>8. CASE PopFront(c, t)
    <2>1. tpc' \in [Thread -> ThreadPc]
      BY <1>8 DEF PopFront, ThreadGoto, ThreadPc, TypeOK
    <2>2. slot' \in [Thread -> Nat]
      BY <1>8, DestroyersType DEF PopFront, TypeOK
    <2> QED
      BY <1>8, <2>1, <2>2
         DEF PopFront, TypeOK, queueVars, destroyVars, cpuVars, balanceVars, errorVars
  <1>9. CASE PopNext(c, t)
    <2>1. tpc' \in [Thread -> ThreadPc]
      BY <1>9 DEF PopNext, ThreadGoto, ThreadPc, TypeOK
    <2>2. treg' \in [Thread -> Int]
      <3>1. /\ treg \in [Thread -> Int] /\ lastRead \in [CPUs -> Nat]
            /\ tcpu \in [Thread -> CPUs] /\ t \in Thread
        BY DestroyersType DEF TypeOK
      <3>2. lastRead[tcpu[t]] + 1 \in Int
        BY <3>1
      <3> QED
        BY <1>9, <3>1, <3>2, ExceptType DEF PopNext
    <2> QED
      BY <1>9, <2>1, <2>2
         DEF PopNext, TypeOK, queueVars, destroyVars, cpuVars, balanceVars, errorVars
  <1>10. CASE PopAdvance(c, t)
    <2>1. tpc' \in [Thread -> ThreadPc]
      BY <1>10 DEF PopAdvance, ThreadGoto, ThreadPc, TypeOK
    <2>2. lastRead' \in [CPUs -> Nat]
      <3>1. treg[t] \in Int /\ treg[t] > 0
        BY <1>10, DestroyersType DEF PopAdvance, TypeOK, ControlInv
      <3>2. lastRead \in [CPUs -> Nat]
        BY DEF TypeOK
      <3>3. treg[t] \in Nat
        BY <3>1
      <3> QED
        BY <1>10, <3>2, <3>3, ExceptType DEF PopAdvance
    <2> QED
      BY <1>10, <2>1, <2>2 DEF PopAdvance, TypeOK, queueVars, cpuVars, balanceVars, errorVars
  <1>11. CASE PopSize(c, t)
    <2>1. tpc' \in [Thread -> ThreadPc]
      BY <1>11 DEF PopSize, ThreadGoto, ThreadPc, TypeOK
    <2>2. treg' \in [Thread -> Int]
      BY <1>11, DestroyersType DEF PopSize, TypeOK
    <2> QED
      BY <1>11, <2>1, <2>2
         DEF PopSize, TypeOK, queueVars, destroyVars, cpuVars, balanceVars, errorVars
  <1>12. CASE PopStore(c, t)
    <2>1. tpc' \in [Thread -> ThreadPc]
      BY <1>12 DEF PopStore, ThreadGoto, ThreadPc, TypeOK
    <2>2. toDestroySize' \in [CPUs -> Int]
      <3>1. toDestroySize \in [CPUs -> Int] /\ treg[t] \in Int
        BY DestroyersType DEF TypeOK
      <3>2. treg[t] - 1 \in Int
        BY <3>1
      <3> QED
        BY <1>12, <3>1, <3>2, ExceptType DEF PopStore
    <2> QED
      BY <1>12, <2>1, <2>2 DEF PopStore, TypeOK, queueVars, cpuVars, balanceVars, errorVars
  <1>13. CASE DestroyerTake(c, t)
    <2>1. pc' \in [CPUs -> CpuPc]
      BY <1>13 DEF DestroyerTake, Goto, CpuPc, TypeOK, Panic
    <2>2. failed' \subseteq Asserts
      <3>1. failed' = failed \/ failed' = failed \cup {"destroyer"}
        BY <1>13 DEF DestroyerTake, Panic
      <3> QED
        BY <3>1 DEF Asserts, TypeOK
    <2>3. tpc' \in [Thread -> ThreadPc]
      <3>1. tpc' = tpc \/ tpc' = [tpc EXCEPT ![t] = "destroyLock"]
        BY <1>13 DEF DestroyerTake, ThreadGoto
      <3> QED
        BY <3>1 DEF TypeOK, ThreadPc
    <2>4. target' \in [Thread -> Thread \cup {NoThread}]
      <3>1. toDestroy[tcpu[t]] \in Seq(Thread)
        BY DestroyersType DEF TypeOK
      <3>2. slot[t] \in DOMAIN toDestroy[tcpu[t]] => toDestroy[tcpu[t]][slot[t]] \in Thread
        BY <3>1
      <3>3. \/ target' = target
            \/ /\ slot[t] \in DOMAIN toDestroy[tcpu[t]]
               /\ target' = [target EXCEPT ![t] = toDestroy[tcpu[t]][slot[t]]]
        BY <1>13 DEF DestroyerTake
      <3> QED
        BY <3>2, <3>3 DEF TypeOK
    <2>5. fault' \in {"none", "stack", "freed"}
      BY <1>13 DEF DestroyerTake, TypeOK
    <2>6. slot' \in [Thread -> Nat] /\ treg' \in [Thread -> Int]
      <3>1. slot \in [Thread -> Nat] /\ treg \in [Thread -> Int]
        BY DEF TypeOK
      <3>2. 0 \in Nat /\ 0 \in Int
        OBVIOUS
      <3>3. /\ slot' = slot \/ slot' = [slot EXCEPT ![t] = 0]
            /\ treg' = treg \/ treg' = [treg EXCEPT ![t] = 0]
        BY <1>13 DEF DestroyerTake
      <3> QED
        BY <3>1, <3>2, <3>3, ExceptType
    <2> QED
      BY <1>13, <2>1, <2>2, <2>3, <2>4, <2>5, <2>6
         DEF DestroyerTake, TypeOK, queueVars, destroyVars, balanceVars
  <1>5. CASE DestroyerLock(c, t)
    <2>1. locked' \in [CPUs -> BOOLEAN]
      BY <1>5 DEF DestroyerLock, TypeOK
    <2>2. tpc' \in [Thread -> ThreadPc]
      BY <1>5 DEF DestroyerLock, ThreadGoto, ThreadPc, TypeOK
    <2> QED
      BY <1>5, <2>1, <2>2
         DEF DestroyerLock, TypeOK, destroyVars, cpuVars, balanceVars,
         errorVars
  <1>6. CASE DestroyerReplace(c, t)
    <2>1. threads' \in [CPUs -> Seq(Thread)]
      <3> DEFINE q == tcpu[t]
                 s == threads[q]
                 r == [k \in 1..Len(s) |-> IF s[k] = target[t]
                                           THEN killedThread ELSE s[k]]
      <3>1. q \in CPUs /\ s \in Seq(Thread)
        BY DestroyersType DEF TypeOK
      <3>2. r \in Seq(Thread)
        BY <3>1, ThreadAssumption
      <3>3. threads' = [threads EXCEPT ![q] = r]
        BY <1>6 DEF DestroyerReplace
      <3> HIDE DEF q, r
      <3> QED
        BY <3>2, <3>3 DEF TypeOK
    <2>2. locked' \in [CPUs -> BOOLEAN]
      BY <1>6 DEF DestroyerReplace, TypeOK
    <2>3. tpc' \in [Thread -> ThreadPc]
      BY <1>6 DEF DestroyerReplace, ThreadGoto, ThreadPc, TypeOK
    <2> QED
      BY <1>6, <2>1, <2>2, <2>3
         DEF DestroyerReplace, TypeOK, destroyVars, cpuVars, balanceVars,
         errorVars
  <1>7. CASE DestroyThread(c, t)
    <2>1. state' \in [Thread -> ThreadState]
      BY <1>7 DEF DestroyThread, ThreadState, TypeOK
    <2>2. target' \in [Thread -> Thread \cup {NoThread}]
      BY <1>7 DEF DestroyThread, TypeOK
    <2>3. pc' \in [CPUs -> CpuPc]
      BY <1>7 DEF DestroyThread, Goto, CpuPc, TypeOK, Panic
    <2>4. failed' \subseteq Asserts
      BY <1>7 DEF DestroyThread, Asserts, TypeOK, Panic
    <2>5. tpc' \in [Thread -> ThreadPc]
      BY <1>7 DEF DestroyThread, ThreadGoto, ThreadPc, TypeOK
    <2>6. fault' \in {"none", "stack", "freed"}
      BY <1>7 DEF DestroyThread, TypeOK
    <2> QED
      BY <1>7, <2>1, <2>2, <2>3, <2>4, <2>5, <2>6
         DEF DestroyThread, TypeOK, queueVars, destroyVars, balanceVars
  <1> QED
    BY <1>1, <1>2, <1>3, <1>4, <1>5, <1>6, <1>7, <1>8, <1>9, <1>10, <1>11, <1>12, <1>13
       DEF DestroyerStep

-----------------------------------------------------------------------------
(***************************************************************************)
(* Locks.  A step changes what one CPU or one thread holds; the lemmas     *)
(* below say when that keeps the lock invariant, and the action proofs     *)
(* only compare what is held before and after.                             *)
(***************************************************************************)
LEMMA CpuLockStep ==
  ASSUME QueueLockInv, NEW c \in CPUs,
         \A d \in CPUs : d # c =>
            \A q \in CPUs : HoldsCpu(d, q)' <=> HoldsCpu(d, q),
         \A t \in Thread, q \in CPUs : HoldsThread(t, q)' <=> HoldsThread(t, q),
         \A q \in CPUs :
            \/ ~HoldsCpu(c, q) /\ HoldsCpu(c, q)' /\ ~locked[q] /\ locked'[q]
            \/ HoldsCpu(c, q) /\ ~HoldsCpu(c, q)' /\ ~locked'[q]
            \/ (HoldsCpu(c, q)' <=> HoldsCpu(c, q)) /\ (locked'[q] <=> locked[q])
  PROVE  QueueLockInv'
  BY DEF QueueLockInv

LEMMA ThreadLockStep ==
  ASSUME QueueLockInv, NEW t \in Thread,
         \A d, q \in CPUs : HoldsCpu(d, q)' <=> HoldsCpu(d, q),
         \A u \in Thread : u # t =>
            \A q \in CPUs : HoldsThread(u, q)' <=> HoldsThread(u, q),
         \A q \in CPUs :
            \/ ~HoldsThread(t, q) /\ HoldsThread(t, q)' /\ ~locked[q] /\ locked'[q]
            \/ HoldsThread(t, q) /\ ~HoldsThread(t, q)' /\ ~locked'[q]
            \/ (HoldsThread(t, q)' <=> HoldsThread(t, q)) /\ (locked'[q] <=> locked[q])
  PROVE  QueueLockInv'
  BY DEF QueueLockInv

LEMMA CpuFrame ==
  ASSUME TypeOK, NEW c \in CPUs, CpuStep(c)
  PROVE  /\ \A d \in CPUs : d # c =>
              /\ pc'[d] = pc[d] /\ hand'[d] = hand[d]
              /\ idx'[d] = idx[d] /\ sorted'[d] = sorted[d]
         /\ tpc' = tpc /\ tcpu' = tcpu /\ target' = target /\ treg' = treg
  <1> USE DEF TypeOK, Goto, threadVars, cpuVars, balanceVars
  <1>1. CASE Enqueue(c)
    BY <1>1 DEF Enqueue
  <1>2. CASE SwitchNext(c)
    BY <1>2 DEF SwitchNext
  <1>3. CASE LockOwn(c)
    BY <1>3 DEF LockOwn
  <1>4. CASE PopOwn(c)
    BY <1>4 DEF PopOwn, PopTurn
  <1>5. CASE GoIdle(c)
    BY <1>5 DEF GoIdle
  <1>6. CASE Scan(c)
    BY <1>6 DEF Scan
  <1>7. CASE Steal(c)
    BY <1>7 DEF Steal, PopTurn
  <1>8. CASE StealNothing(c)
    BY <1>8 DEF StealNothing
  <1>9. CASE StartBalance(c)
    BY <1>9 DEF StartBalance
  <1>10. CASE SkipBalance(c)
    BY <1>10 DEF SkipBalance
  <1>11. CASE SwitchTo(c)
    BY <1>11 DEF SwitchTo, Panic
  <1>12. CASE SortInsert(c)
    BY <1>12 DEF SortInsert
  <1>13. CASE LockFirst(c)
    BY <1>13 DEF LockFirst
  <1>14. CASE LockSecond(c)
    BY <1>14 DEF LockSecond
  <1>15. CASE MoveOne(c)
    BY <1>15 DEF MoveOne
  <1>16. CASE UnlockPair(c)
    BY <1>16 DEF UnlockPair
  <1>17. CASE EndBalance(c)
    BY <1>17 DEF EndBalance
  <1>18. CASE ExitPush(c)
    BY <1>18 DEF ExitPush
  <1>19. CASE ExitStore(c)
    BY <1>19 DEF ExitStore
  <1> QED
    BY <1>1, <1>2, <1>3, <1>4, <1>5, <1>6, <1>7, <1>8, <1>9, <1>10, <1>11,
       <1>12, <1>13, <1>14, <1>15, <1>16, <1>17, <1>18, <1>19 DEF CpuStep

LEMMA CpuLocal ==
  ASSUME TypeOK, ControlInv, NEW c \in CPUs, CpuStep(c)
  PROVE  LocalInv(c)'
  <1>0. LocalInv(c)
    BY DEF ControlInv
  <1> USE DEF LocalInv, Balancing, HasHand, Goto, balanceVars, cpuVars
  <1>1. CASE Enqueue(c)
    BY <1>0, <1>1 DEF Enqueue, TypeOK
  <1>2. CASE SwitchNext(c)
    BY <1>0, <1>2 DEF SwitchNext, TypeOK
  <1>3. CASE LockOwn(c)
    BY <1>0, <1>3 DEF LockOwn, TypeOK
  <1>4. CASE PopOwn(c)
    <2>1. hand'[c] \in Thread \cup {NoThread}
      <3>1. c \in CPUs /\ PopTurn(c, c)
        BY <1>0, <1>4 DEF PopOwn
      <3>2. hand' \in [CPUs -> Thread \cup {NoThread}]
        BY <3>1, PopTurnType
      <3> QED
        BY <3>2
    <2>2. \/ pc'[c] = "found" /\ hand'[c] # NoThread
          \/ pc'[c] = "pop"
      BY <1>4 DEF PopOwn, TypeOK
    <2>3. sorted'[c] = sorted[c] /\ sorted[c] = << >> /\ idx'[c] = idx[c]
      BY <1>0, <1>4 DEF PopOwn
    <2>4. Distinct(sorted'[c])
      BY <1>0, <2>3
    <2>5. pc[c] = "pop"
      BY <1>4 DEF PopOwn
    <2> QED
      BY <1>0, <2>1, <2>2, <2>3, <2>4, <2>5
  <1>5. CASE GoIdle(c)
    BY <1>0, <1>5, ThreadAssumption DEF GoIdle, TypeOK
  <1>6. CASE Scan(c)
    <2>1. idx[c] \in CPUs
      BY <1>6, IdxType, NAssumption DEF Scan, CPUs
    <2>2. \/ pc'[c] = "scan"
          \/ pc'[c] = "steal" /\ idx'[c] = idx[c] /\ idx[c] # c
      BY <1>6 DEF Scan, TypeOK
    <2>3. sorted'[c] = sorted[c] /\ sorted[c] = << >> /\ Distinct(sorted'[c])
      BY <1>0, <1>6 DEF Scan
    <2> QED
      BY <2>1, <2>2, <2>3
  <1>7. CASE Steal(c)
    <2>1. hand'[c] \in Thread \cup {NoThread}
      <3>1. idx[c] \in CPUs /\ PopTurn(c, idx[c])
        BY <1>0, <1>7 DEF Steal
      <3>2. hand' \in [CPUs -> Thread \cup {NoThread}]
        BY <3>1, PopTurnType
      <3> QED
        BY <3>2
    <2>2. \/ pc'[c] = "found" /\ hand'[c] # NoThread
          \/ pc'[c] = "steal"
      BY <1>7 DEF Steal, TypeOK
    <2>3. sorted'[c] = sorted[c] /\ sorted[c] = << >> /\ idx'[c] = idx[c]
      BY <1>0, <1>7 DEF Steal
    <2>4. Distinct(sorted'[c])
      BY <1>0, <2>3
    <2>5. pc[c] = "steal"
      BY <1>7 DEF Steal
    <2> QED
      BY <1>0, <2>1, <2>2, <2>3, <2>4, <2>5
  <1>8. CASE StealNothing(c)
    BY <1>0, <1>8 DEF StealNothing, TypeOK
  <1>9. CASE StartBalance(c)
    <2>1. /\ pc'[c] = "sort" /\ hand'[c] = hand[c] /\ idx'[c] = 1
          /\ sorted'[c] = sorted[c]
      BY <1>9 DEF StartBalance, TypeOK
    <2>2. hand[c] \in Thread /\ sorted[c] = << >> /\ Distinct(sorted'[c])
      BY <1>0, <1>9, <2>1 DEF StartBalance
    <2> QED
      BY <2>1, <2>2, NAssumption
  <1>10. CASE SkipBalance(c)
    BY <1>0, <1>10 DEF SkipBalance, TypeOK
  <1>11. CASE SwitchTo(c)
    BY <1>0, <1>11 DEF SwitchTo, Panic, TypeOK
  <1>12. CASE SortInsert(c)
    <2>1. /\ idx[c] \in Nat /\ idx[c] <= N
          /\ Len(sorted'[c]) = idx[c] /\ Distinct(sorted'[c])
          /\ \A i \in 1..Len(sorted'[c]) : sorted'[c][i] <= idx[c]
          /\ sorted'[c] \in Seq(CPUs)
      BY <1>12, InsertType, NAssumption DEF CPUs
    <2>2. hand'[c] = hand[c] /\ hand[c] \in Thread
      BY <1>0, <1>12 DEF SortInsert
    <2>3. CASE idx[c] = N
      <3>1. pc'[c] = "lock1" /\ Len(sorted'[c]) = N
        BY <1>12, <2>1, <2>3 DEF SortInsert, TypeOK
      <3> QED
        BY <3>1, <2>1, <2>2
    <2>4. CASE idx[c] # N
      <3>1. pc'[c] = "sort" /\ idx'[c] = idx[c] + 1
        BY <1>12, <2>4 DEF SortInsert, TypeOK
      <3>2. \A i \in 1..Len(sorted'[c]) : sorted'[c][i] \in Nat
        BY <2>1, NAssumption DEF CPUs
      <3>3. \A i \in 1..Len(sorted'[c]) : sorted'[c][i] < idx'[c]
        BY <2>1, <3>1, <3>2
      <3>4. Len(sorted'[c]) = idx'[c] - 1 /\ idx'[c] <= N
        BY <2>1, <2>4, <3>1, NAssumption
      <3> QED
        BY <3>1, <3>3, <3>4, <2>1, <2>2
    <2> QED
      BY <2>3, <2>4
  <1>13. CASE LockFirst(c)
    BY <1>0, <1>13 DEF LockFirst, TypeOK
  <1>14. CASE LockSecond(c)
    BY <1>0, <1>14 DEF LockSecond, TypeOK
  <1>15. CASE MoveOne(c)
    BY <1>0, <1>15 DEF MoveOne, TypeOK
  <1>16. CASE UnlockPair(c)
    BY <1>0, <1>16 DEF UnlockPair, TypeOK
  <1>17. CASE EndBalance(c)
    <2>1. pc'[c] = "to" /\ hand'[c] = hand[c] /\ sorted'[c] = << >>
      BY <1>17 DEF EndBalance, TypeOK
    <2>2. hand[c] \in Thread /\ Distinct(sorted'[c])
      BY <1>0, <1>17, <2>1 DEF EndBalance, Distinct
    <2> QED
      BY <2>1, <2>2
  <1>18. CASE ExitPush(c)
    BY <1>0, <1>18 DEF ExitPush, TypeOK
  <1>19. CASE ExitStore(c)
    BY <1>0, <1>19 DEF ExitStore, TypeOK
  <1> QED
    BY <1>1, <1>2, <1>3, <1>4, <1>5, <1>6, <1>7, <1>8, <1>9, <1>10, <1>11,
       <1>12, <1>13, <1>14, <1>15, <1>16, <1>17, <1>18, <1>19 DEF CpuStep

LEMMA CpuLocks ==
  ASSUME TypeOK, ControlInv, QueueLockInv, NEW c \in CPUs, CpuStep(c)
  PROVE  QueueLockInv'
  <1> DEFINE Change(q) ==
        \/ ~HoldsCpu(c, q) /\ HoldsCpu(c, q)' /\ ~locked[q] /\ locked'[q]
        \/ HoldsCpu(c, q) /\ ~HoldsCpu(c, q)' /\ ~locked'[q]
        \/ (HoldsCpu(c, q)' <=> HoldsCpu(c, q)) /\ (locked'[q] <=> locked[q])
  <1> SUFFICES ASSUME NEW q \in CPUs PROVE Change(q)
    <2>1. \A d \in CPUs : d # c =>
            \A r \in CPUs : HoldsCpu(d, r)' <=> HoldsCpu(d, r)
      BY CpuFrame DEF HoldsCpu, Cpu1, Cpu2
    <2>2. \A t \in Thread, r \in CPUs : HoldsThread(t, r)' <=>
       HoldsThread(t, r)
      BY CpuFrame DEF HoldsThread
    <2> QED
      BY <2>1, <2>2, CpuLockStep
  <1>0. LocalInv(c)
    BY DEF ControlInv
  <1> USE DEF HoldsCpu, Cpu1, Cpu2, Goto, balanceVars, cpuVars, queueVars
  <1>1. CASE Enqueue(c)
    BY <1>0, <1>1 DEF Enqueue, TypeOK, LocalInv
  <1>2. CASE SwitchNext(c)
    BY <1>0, <1>2 DEF SwitchNext, TypeOK, LocalInv
  <1>3. CASE LockOwn(c)
    BY <1>0, <1>3 DEF LockOwn, TypeOK, LocalInv
  <1>4. CASE PopOwn(c)
    BY <1>0, <1>4 DEF PopOwn, PopTurn, TypeOK, LocalInv
  <1>5. CASE GoIdle(c)
    BY <1>0, <1>5 DEF GoIdle, TypeOK, LocalInv
  <1>6. CASE Scan(c)
    <2>1. CASE idx[c] = c \/ threads[idx[c]] = << >> \/ locked[idx[c]]
      BY <1>6, <2>1 DEF Scan, TypeOK
    <2>2. CASE ~(idx[c] = c \/ threads[idx[c]] = << >> \/ locked[idx[c]])
      <3>1. /\ pc'[c] = "steal" /\ pc[c] = "scan" /\ idx' = idx
            /\ locked' = [locked EXCEPT ![idx[c]] = TRUE]
        BY <1>6, <2>2 DEF Scan, TypeOK
      <3> QED
        BY <2>2, <3>1 DEF TypeOK
    <2> QED
      BY <2>1, <2>2
  <1>7. CASE Steal(c)
    BY <1>0, <1>7 DEF Steal, PopTurn, TypeOK, LocalInv
  <1>8. CASE StealNothing(c)
    BY <1>0, <1>8 DEF StealNothing, TypeOK, LocalInv
  <1>9. CASE StartBalance(c)
    BY <1>0, <1>9 DEF StartBalance, TypeOK, LocalInv
  <1>10. CASE SkipBalance(c)
    BY <1>0, <1>10 DEF SkipBalance, TypeOK, LocalInv
  <1>11. CASE SwitchTo(c)
    BY <1>0, <1>11 DEF SwitchTo, Panic, TypeOK, LocalInv
  <1>12. CASE SortInsert(c)
    BY <1>0, <1>12 DEF SortInsert, TypeOK, LocalInv
  <1>13. CASE LockFirst(c)
    BY <1>0, <1>13, PairType DEF LockFirst, TypeOK, LocalInv
  <1>14. CASE LockSecond(c)
    BY <1>0, <1>14, PairType DEF LockSecond, TypeOK, LocalInv
  <1>15. CASE MoveOne(c)
    BY <1>0, <1>15, PairType DEF MoveOne, TypeOK, LocalInv
  <1>16. CASE UnlockPair(c)
    BY <1>0, <1>16, PairType DEF UnlockPair, TypeOK, LocalInv
  <1>17. CASE EndBalance(c)
    BY <1>0, <1>17 DEF EndBalance, TypeOK, LocalInv
  <1>18. CASE ExitPush(c)
    BY <1>0, <1>18 DEF ExitPush, TypeOK, LocalInv
  <1>19. CASE ExitStore(c)
    BY <1>0, <1>19 DEF ExitStore, TypeOK, LocalInv
  <1> QED
    BY <1>1, <1>2, <1>3, <1>4, <1>5, <1>6, <1>7, <1>8, <1>9, <1>10, <1>11,
       <1>12, <1>13, <1>14, <1>15, <1>16, <1>17, <1>18, <1>19 DEF CpuStep

LEMMA CpuBalance ==
  ASSUME TypeOK, BalanceLockInv, NEW c \in CPUs, CpuStep(c)
  PROVE  BalanceLockInv'
  <1>0. \A d \in CPUs : d # c => (Balancing(d)' <=> Balancing(d))
    BY CpuFrame DEF Balancing
  <1>a. ASSUME (Balancing(c)' <=> Balancing(c)) /\ balanceLock' = balanceLock
        PROVE  BalanceLockInv'
    BY <1>0, <1>a DEF BalanceLockInv
  <1> USE DEF Balancing, Goto, TypeOK, balanceVars, cpuVars
  <1>1. CASE Enqueue(c)
    BY <1>a, <1>1 DEF Enqueue
  <1>2. CASE SwitchNext(c)
    BY <1>a, <1>2 DEF SwitchNext
  <1>3. CASE LockOwn(c)
    BY <1>a, <1>3 DEF LockOwn
  <1>4. CASE PopOwn(c)
    BY <1>a, <1>4 DEF PopOwn, PopTurn
  <1>5. CASE GoIdle(c)
    BY <1>a, <1>5 DEF GoIdle
  <1>6. CASE Scan(c)
    BY <1>a, <1>6 DEF Scan
  <1>7. CASE Steal(c)
    BY <1>a, <1>7 DEF Steal, PopTurn
  <1>8. CASE StealNothing(c)
    BY <1>a, <1>8 DEF StealNothing
  <1>9. CASE StartBalance(c)
    <2>1. ~balanceLock /\ balanceLock' /\ Balancing(c)'
      BY <1>9 DEF StartBalance
    <2> QED
      BY <1>0, <2>1 DEF BalanceLockInv
  <1>10. CASE SkipBalance(c)
    BY <1>a, <1>10 DEF SkipBalance
  <1>11. CASE SwitchTo(c)
    BY <1>a, <1>11 DEF SwitchTo, Panic
  <1>12. CASE SortInsert(c)
    BY <1>a, <1>12 DEF SortInsert
  <1>13. CASE LockFirst(c)
    BY <1>a, <1>13 DEF LockFirst
  <1>14. CASE LockSecond(c)
    BY <1>a, <1>14 DEF LockSecond
  <1>15. CASE MoveOne(c)
    BY <1>a, <1>15 DEF MoveOne
  <1>16. CASE UnlockPair(c)
    BY <1>a, <1>16 DEF UnlockPair
  <1>17. CASE EndBalance(c)
    <2>1. Balancing(c) /\ ~balanceLock' /\ ~Balancing(c)'
      BY <1>17 DEF EndBalance
    <2> QED
      BY <1>0, <2>1 DEF BalanceLockInv
  <1>18. CASE ExitPush(c)
    BY <1>a, <1>18 DEF ExitPush
  <1>19. CASE ExitStore(c)
    BY <1>a, <1>19 DEF ExitStore
  <1> QED
    BY <1>1, <1>2, <1>3, <1>4, <1>5, <1>6, <1>7, <1>8, <1>9, <1>10, <1>11,
       <1>12, <1>13, <1>14, <1>15, <1>16, <1>17, <1>18, <1>19 DEF CpuStep
LEMMA CpuControl ==
  ASSUME TypeOK, ControlInv, NEW c \in CPUs, CpuStep(c)
  PROVE  ControlInv'
  <1>1. \A d \in CPUs : d # c => LocalInv(d)'
    BY CpuFrame DEF ControlInv, LocalInv, Balancing
  <1>2. LocalInv(c)'
    BY CpuLocal
  <1>3. tpc' = tpc /\ target' = target /\ treg' = treg
    BY CpuFrame
  <1> QED
    BY <1>1, <1>2, <1>3 DEF ControlInv

(***************************************************************************)
(* The steps of threads and of the timer leave the scheduler's local       *)
(* variables alone and enter the scheduler, if at all, from "thread".      *)
(***************************************************************************)
ThreadMoves(c) ==
  /\ \/ pc' = pc
     \/ pc[c] = "thread" /\ \E l \in {"panic", "enqueue", "exitPush"} :
                               pc' = [pc EXCEPT ![c] = l]
  /\ hand' = hand /\ idx' = idx /\ sorted' = sorted
  /\ balanceLock' = balanceLock

LEMMA ThreadFrame ==
  ASSUME TypeOK, NEW c \in CPUs, ThreadMoves(c)
  PROVE  /\ (\A d \in CPUs : LocalInv(d)) => \A d \in CPUs : LocalInv(d)'
         /\ \A d, q \in CPUs : HoldsCpu(d, q)' <=> HoldsCpu(d, q)
         /\ BalanceLockInv => BalanceLockInv'
  <1>1. \A d \in CPUs : /\ hand'[d] = hand[d] /\ idx'[d] = idx[d]
                        /\ sorted'[d] = sorted[d]
                        /\ \/ pc'[d] = pc[d]
                           \/ /\ pc[d] = "thread"
                              /\ pc'[d] \in {"panic", "enqueue", "exitPush"}
    BY DEF ThreadMoves, TypeOK
  <1>2. \A d \in CPUs : Balancing(d)' <=> Balancing(d)
    BY <1>1 DEF Balancing
  <1>3. ASSUME NEW d \in CPUs, LocalInv(d) PROVE LocalInv(d)'
    BY <1>1, <1>2, <1>3 DEF LocalInv, HasHand
  <1>4. \A d, q \in CPUs : HoldsCpu(d, q)' <=> HoldsCpu(d, q)
    BY <1>1 DEF HoldsCpu, Cpu1, Cpu2
  <1>5. BalanceLockInv => BalanceLockInv'
    BY <1>2 DEF BalanceLockInv, ThreadMoves
  <1> QED
    BY <1>3, <1>4, <1>5

\* One thread's own variables and the queue locks, when t takes a step.
ThreadSafe(t) ==
  /\ \A u \in Thread : u # t => /\ tpc'[u] = tpc[u] /\ tcpu'[u] = tcpu[u]
                                /\ target'[u] = target[u] /\ treg'[u] = treg[u]
  /\ t = Main /\ tpc'[t] \in {"addLock", "addPush"} => target'[t] \in Thread
  /\ tpc'[t] = "advance" => treg'[t] > 0
  /\ \A q \in CPUs :
       \/ ~HoldsThread(t, q) /\ HoldsThread(t, q)' /\ ~locked[q] /\ locked'[q]
       \/ HoldsThread(t, q) /\ ~HoldsThread(t, q)' /\ ~locked'[q]
       \/ (HoldsThread(t, q)' <=> HoldsThread(t, q)) /\ (locked'[q] <=> locked[q])

LEMMA ThreadPreserves ==
  ASSUME TypeOK, ControlInv, LockInv, NEW c \in CPUs, NEW t \in Thread,
         ThreadMoves(c), ThreadSafe(t)
  PROVE  ControlInv' /\ LockInv'
  <1>1. \A d \in CPUs : LocalInv(d)'
    BY ThreadFrame DEF ControlInv
  <1>2. /\ tpc'[Main] \in {"addLock", "addPush"} => target'[Main] \in Thread
        /\ \A u \in Thread : tpc'[u] = "advance" => treg'[u] > 0
    BY ThreadAssumption DEF ThreadSafe, ControlInv
  <1>3. QueueLockInv'
    <2>1. \A u \in Thread : u # t =>
            \A q \in CPUs : HoldsThread(u, q)' <=> HoldsThread(u, q)
      BY DEF ThreadSafe, HoldsThread
    <2> QED
      BY <2>1, ThreadFrame, ThreadLockStep DEF ThreadSafe, LockInv
  <1>4. BalanceLockInv'
    BY ThreadFrame DEF LockInv
  <1> QED
    BY <1>1, <1>2, <1>3, <1>4 DEF ControlInv, LockInv

LEMMA PreemptPreserves ==
  ASSUME TypeOK, ControlInv, LockInv, NEW c \in CPUs, Preempt(c)
  PROVE  ControlInv' /\ LockInv'
  <1>1. ThreadMoves(c)
    BY DEF Preempt, Panic, Goto, ThreadMoves, balanceVars
  <1>2. ThreadSafe(Main) /\ Main \in Thread
    BY ThreadAssumption DEF Preempt, ThreadSafe, HoldsThread, threadVars,
                            queueVars, ControlInv
  <1> QED
    BY <1>1, <1>2, ThreadPreserves

LEMMA ProgramPreserves ==
  ASSUME TypeOK, ControlInv, LockInv, NEW c \in CPUs, ProgramStep(c)
  PROVE  ControlInv' /\ LockInv'
  <1> USE ThreadAssumption DEF HoldsThread, ThreadGoto, Goto, queueVars,
                               cpuVars, balanceVars, TypeOK
  <1>1. ASSUME NEW u \in User, Create(c, u) PROVE ControlInv' /\ LockInv'
    <2>1. ThreadMoves(c)
      BY <1>1 DEF Create, ThreadMoves
    <2>2. ThreadSafe(Main)
      BY <1>1 DEF Create, ThreadSafe, ControlInv
    <2>3. Main \in Thread
      OBVIOUS
    <2> QED
      BY <2>1, <2>2, <2>3, ThreadPreserves
  <1>2. CASE AddLock(c)
    <2>1. ThreadMoves(c)
      BY <1>2 DEF AddLock, ThreadMoves
    <2>2. ThreadSafe(Main)
      BY <1>2 DEF AddLock, ThreadSafe, ControlInv
    <2>3. Main \in Thread
      OBVIOUS
    <2> QED
      BY <2>1, <2>2, <2>3, ThreadPreserves
  <1>3. CASE AddPush(c)
    <2>1. ThreadMoves(c)
      BY <1>3 DEF AddPush, ThreadMoves
    <2>2. ThreadSafe(Main)
      BY <1>3 DEF AddPush, ThreadSafe, ControlInv
    <2>3. Main \in Thread
      OBVIOUS
    <2> QED
      BY <2>1, <2>2, <2>3, ThreadPreserves
  <1>4. CASE ExitCapture(c)
    <2>1. ThreadMoves(c)
      BY <1>4 DEF ExitCapture, ThreadMoves
    <2>2. PICK t \in Thread : t = currentThread[c]
      OBVIOUS
    <2>3. ThreadSafe(t)
      BY <1>4, <2>2 DEF ExitCapture, ThreadSafe, ControlInv
    <2> QED
      BY <2>1, <2>3, ThreadPreserves
  <1>5. CASE ExitKill(c)
    <2>1. ThreadMoves(c)
      BY <1>5 DEF ExitKill, ThreadMoves
    <2>2. PICK t \in Thread : t = currentThread[c]
      OBVIOUS
    <2>3. ThreadSafe(t)
      BY <1>5, <2>2 DEF ExitKill, ThreadSafe, ControlInv
    <2> QED
      BY <2>1, <2>3, ThreadPreserves
  <1> QED
    BY <1>1, <1>2, <1>3, <1>4, <1>5 DEF ProgramStep

LEMMA DestroyerPreserves ==
  ASSUME TypeOK, ControlInv, LockInv, NEW c \in CPUs, NEW t \in Destroyers,
         DestroyerStep(c, t)
  PROVE  ControlInv' /\ LockInv'
  <1>0. t \in Thread
    BY DestroyersType
  <1> USE <1>0 DEF HoldsThread, ThreadGoto, Goto, Panic, Executes, queueVars,
                   cpuVars, balanceVars, TypeOK
  <1>1. CASE DestroyerStart(c, t)
    <2>1. ThreadMoves(c)
      BY <1>1 DEF DestroyerStart, ThreadMoves
    <2>2. ThreadSafe(t)
      BY <1>1 DEF DestroyerStart, ThreadSafe, ControlInv
    <2> QED
      BY <2>1, <2>2, ThreadPreserves
  <1>2. CASE DestroyerYield(c, t)
    BY <1>2, PreemptPreserves DEF DestroyerYield
  <1>3. CASE DestroyerCheck(c, t)
    <2>1. ThreadMoves(c)
      BY <1>3 DEF DestroyerCheck, ThreadMoves
    <2>2. ThreadSafe(t)
      BY <1>3 DEF DestroyerCheck, ThreadSafe, ControlInv
    <2> QED
      BY <2>1, <2>2, ThreadPreserves
  <1>4. CASE PopAssert(c, t)
    <2>1. ThreadMoves(c)
      BY <1>4 DEF PopAssert, ThreadMoves
    <2>2. ThreadSafe(t)
      BY <1>4 DEF PopAssert, ThreadSafe, ControlInv
    <2> QED
      BY <2>1, <2>2, ThreadPreserves
  <1>8. CASE PopFront(c, t)
    <2>1. ThreadMoves(c)
      BY <1>8 DEF PopFront, ThreadMoves
    <2>2. ThreadSafe(t)
      BY <1>8 DEF PopFront, ThreadSafe, ControlInv
    <2> QED
      BY <2>1, <2>2, ThreadPreserves
  <1>9. CASE PopNext(c, t)
    <2>1. ThreadMoves(c)
      BY <1>9 DEF PopNext, ThreadMoves
    <2>2. ThreadSafe(t)
      BY <1>9 DEF PopNext, ThreadSafe, ControlInv
    <2> QED
      BY <2>1, <2>2, ThreadPreserves
  <1>10. CASE PopAdvance(c, t)
    <2>1. ThreadMoves(c)
      BY <1>10 DEF PopAdvance, ThreadMoves
    <2>2. ThreadSafe(t)
      BY <1>10 DEF PopAdvance, ThreadSafe, ControlInv
    <2> QED
      BY <2>1, <2>2, ThreadPreserves
  <1>11. CASE PopSize(c, t)
    <2>1. ThreadMoves(c)
      BY <1>11 DEF PopSize, ThreadMoves
    <2>2. ThreadSafe(t)
      BY <1>11 DEF PopSize, ThreadSafe, ControlInv
    <2> QED
      BY <2>1, <2>2, ThreadPreserves
  <1>12. CASE PopStore(c, t)
    <2>1. ThreadMoves(c)
      BY <1>12 DEF PopStore, ThreadMoves
    <2>2. ThreadSafe(t)
      BY <1>12 DEF PopStore, ThreadSafe, ControlInv
    <2> QED
      BY <2>1, <2>2, ThreadPreserves
  <1>13. CASE DestroyerTake(c, t)
    <2>1. ThreadMoves(c)
      BY <1>13 DEF DestroyerTake, ThreadMoves
    <2>2. ThreadSafe(t)
      BY <1>13 DEF DestroyerTake, ThreadSafe, ControlInv
    <2> QED
      BY <2>1, <2>2, ThreadPreserves
  <1>5. CASE DestroyerLock(c, t)
    <2>1. ThreadMoves(c)
      BY <1>5 DEF DestroyerLock, ThreadMoves
    <2>2. ThreadSafe(t)
      BY <1>5 DEF DestroyerLock, ThreadSafe, ControlInv
    <2> QED
      BY <2>1, <2>2, ThreadPreserves
  <1>6. CASE DestroyerReplace(c, t)
    <2>1. ThreadMoves(c)
      BY <1>6 DEF DestroyerReplace, ThreadMoves
    <2>2. ThreadSafe(t)
      BY <1>6 DEF DestroyerReplace, ThreadSafe, ControlInv
    <2> QED
      BY <2>1, <2>2, ThreadPreserves
  <1>7. CASE DestroyThread(c, t)
    <2>1. ThreadMoves(c)
      BY <1>7 DEF DestroyThread, ThreadMoves
    <2>2. ThreadSafe(t)
      BY <1>7 DEF DestroyThread, ThreadSafe, ControlInv
    <2> QED
      BY <2>1, <2>2, ThreadPreserves
  <1> QED
    BY <1>1, <1>2, <1>3, <1>4, <1>5, <1>6, <1>7, <1>8, <1>9, <1>10, <1>11, <1>12, <1>13
       DEF DestroyerStep

-----------------------------------------------------------------------------
(* The inductive invariant, and the theorem.                               *)

IInv == TypeOK /\ ControlInv /\ LockInv

LEMMA InitIInv == Init => IInv
  <1> SUFFICES ASSUME Init PROVE IInv
    OBVIOUS
  <1>1. TypeOK
    BY InitTypeOK
  <1>2. \A c \in CPUs : pc[c] = "switch" /\ sorted[c] = << >>
    BY DEF Init
  <1>3. \A t \in Thread : tpc[t] \in {"start", "run"}
    BY DEF Init
  <1>4. ControlInv
    BY <1>2, <1>3, ThreadAssumption
       DEF ControlInv, LocalInv, Balancing, HasHand, Distinct
  <1>5. \A q \in CPUs : /\ ~locked[q]
                        /\ \A c \in CPUs : ~HoldsCpu(c, q)
                        /\ \A t \in Thread : ~HoldsThread(t, q)
    BY <1>2, <1>3 DEF Init, HoldsCpu, HoldsThread
  <1>6. QueueLockInv
    BY <1>5 DEF QueueLockInv
  <1>7. BalanceLockInv
    BY <1>2 DEF Init, BalanceLockInv, Balancing
  <1> QED
    BY <1>1, <1>4, <1>6, <1>7 DEF IInv, LockInv

LEMMA NextIInv == IInv /\ [Next]_vars => IInv'
  <1> SUFFICES ASSUME IInv, [Next]_vars PROVE IInv'
    OBVIOUS
  <1>0. TypeOK /\ ControlInv /\ LockInv
    BY DEF IInv
  <1>1. ASSUME NEW c \in CPUs, Tick(c) PROVE IInv'
    BY <1>0, <1>1, PreemptType, PreemptPreserves DEF Tick, IInv
  <1>2. ASSUME NEW c \in CPUs, CpuStep(c) PROVE IInv'
    BY <1>0, <1>2, CpuStepType, CpuControl, CpuLocks, CpuBalance DEF IInv, LockInv
  <1>3. ASSUME NEW c \in CPUs, ProgramStep(c) PROVE IInv'
    BY <1>0, <1>3, ProgramStepType, ProgramPreserves DEF IInv
  <1>4. ASSUME NEW c \in CPUs, NEW t \in Destroyers, DestroyerStep(c, t) PROVE IInv'
    BY <1>0, <1>4, DestroyerStepType, DestroyerPreserves DEF IInv
  <1>5. CASE UNCHANGED vars
    <2>1. TypeOK'
      BY <1>0, <1>5 DEF vars, TypeOK, queueVars, destroyVars, cpuVars,
                        balanceVars, threadVars, errorVars
    <2>2. ControlInv'
      BY <1>0, <1>5 DEF vars, ControlInv, LocalInv, Balancing, queueVars,
                        cpuVars, balanceVars, threadVars
    <2>3. LockInv'
      BY <1>0, <1>5 DEF vars, LockInv, QueueLockInv, BalanceLockInv, HoldsCpu,
                        HoldsThread, Cpu1, Cpu2, Balancing, queueVars, cpuVars,
                        balanceVars, threadVars
    <2> QED
      BY <2>1, <2>2, <2>3 DEF IInv
  <1> QED
    BY <1>1, <1>2, <1>3, <1>4, <1>5 DEF Next

\* Every variable keeps its type: in particular no queue ever holds anything
\* but threads, and the size of threadsToDestroy, updated without a lock,
\* never wraps below zero.
THEOREM SchedulerType == Spec => []TypeOK
  <1>1. Spec => []IInv
    BY InitIInv, NextIInv, PTL DEF Spec
  <1> QED
    BY <1>1, PTL DEF IInv

\* The run queue locks and the balance lock exclude each other's holders for
\* every number of CPUs and threads, although addThread() and the destroyer
\* hold them with interrupts enabled and may be migrated while they do.
THEOREM LockSafety == Spec => []LockInv
  <1>1. Spec => []IInv
    BY InitIInv, NextIInv, PTL DEF Spec
  <1> QED
    BY <1>1, PTL DEF IInv

-----------------------------------------------------------------------------
(* No cycle of spinning CPUs.                                              *)

\* A CPU that others spin on while it spins itself is the balancer, between
\* its two locks: everybody else takes a second lock with tryLock().
LEMMA SpunOnBalancer ==
  ASSUME IInv, NEW c \in CPUs, NEW d \in CPUs, NEW e \in CPUs,
         SpinsOn(c, d), SpinsOn(d, e)
  PROVE  pc[d] = "lock2" /\ Balancing(d)
  <1>1. \E q \in CPUs : HoldsCpu(d, q)
    BY PairType DEF SpinsOn, IInv
  <1>2. pc[d] \in {"pop", "scan", "steal", "lock2", "move"}
    BY <1>1 DEF HoldsCpu
  <1>3. pc[d] \in {"enqueue", "lock", "lock1", "lock2"}
    BY DEF SpinsOn
  <1> QED
    BY <1>2, <1>3 DEF Balancing

\* The balancer does not spin on itself: the queues of a pair differ.
LEMMA NoSelfSpin ==
  ASSUME IInv, NEW c \in CPUs, pc[c] = "lock2"
  PROVE  ~SpinsOn(c, c)
  BY PairType DEF IInv, SpinsOn, HoldsCpu

\* No group of CPUs ever spins on one another with interrupts disabled,
\* whatever their number: an order of the queue locks is not needed, because
\* stealing uses tryLock() and only one CPU balances at a time.
THEOREM SpinSafety == Spec => []NoSpinCycle
  <1>1. ASSUME IInv, NEW S \in (SUBSET CPUs) \ {{}}, \A c \in S : \E d \in S : SpinsOn(c, d)
        PROVE  FALSE
    <2>1. PICK c : c \in S
      <3>1. S \in SUBSET CPUs /\ S \notin {{}}
        BY <1>1, Zenon
      <3>2. ASSUME \A x : x \notin S PROVE S = {}
        BY <3>2
      <3> QED
        BY <3>1, <3>2
    <2>2. PICK d \in S : SpinsOn(c, d)
      BY <1>1, <2>1
    <2>3. PICK e \in S : SpinsOn(d, e)
      BY <1>1
    <2>4. PICK f \in S : SpinsOn(e, f)
      BY <1>1
    <2>5. c \in CPUs /\ d \in CPUs /\ e \in CPUs /\ f \in CPUs
      BY <1>1, <2>1
    <2>6. pc[d] = "lock2" /\ Balancing(d) /\ Balancing(e)
      BY <1>1, <2>2, <2>3, <2>4, <2>5, SpunOnBalancer
    <2>7. d = e
      BY <1>1, <2>5, <2>6 DEF IInv, LockInv, BalanceLockInv
    <2> QED
      BY <1>1, <2>3, <2>5, <2>6, <2>7, NoSelfSpin
  <1>2. IInv => NoSpinCycle
    BY <1>1 DEF NoSpinCycle
  <1>3. Spec => []IInv
    BY InitIInv, NextIInv, PTL DEF Spec
  <1> QED
    BY <1>2, <1>3, PTL

-----------------------------------------------------------------------------
(***************************************************************************)
(* No thread is lost or duplicated: ticks, stealing, balancing, creation   *)
(* and exit keep every live thread in exactly one place.                   *)
(***************************************************************************)

\* The queues that hold t; and none holds it twice.
Queues(t) == {q \in CPUs : InSeq(t, threads[q])}
Single(t) == \A q \in CPUs : Once(t, threads[q])

\* A thread that has not exited and was not killed.
Alive(t) == state[t] \in {"Stopped", "Running"} /\ tpc[t] # "exited"

NoPlace(t) == Queues(t) = {} /\ InHand(t) = {} /\ OnCpu(t) = {} /\ target[Main] # t

OnePlace(t) ==
  /\ Single(t)
  /\ \/ (\E q \in CPUs : Queues(t) = {q}) /\ InHand(t) = {} /\ OnCpu(t) = {} /\ target[Main] # t
     \/ (\E c \in CPUs : InHand(t) = {c}) /\ Queues(t) = {} /\ OnCpu(t) = {} /\ target[Main] # t
     \/ (\E c \in CPUs : OnCpu(t) = {c}) /\ Queues(t) = {} /\ InHand(t) = {} /\ target[Main] # t
     \/ target[Main] = t /\ Queues(t) = {} /\ InHand(t) = {} /\ OnCpu(t) = {}

\* What the destroyer t has popped was killed, and stays so.
Condemned(t) ==
  tpc[t] \in {"destroyLock", "replace", "destroy"} =>
    target[t] \in Thread /\ state[target[t]] \in {"Killed", "Freed"}

\* A live thread has a place, and one that was not created yet has none.
Placed(t) == (Alive(t) => OnePlace(t)) /\ (state[t] = "Unborn" => NoPlace(t))

EmptyHands == \A c \in CPUs : pc[c] \notin HasHand => hand[c] = NoThread

NothingAdded == tpc[Main] \notin {"addLock", "addPush"} => target[Main] = NoThread

PlaceInv ==
  /\ \A t \in Ordinary : Placed(t)
  /\ EmptyHands
  /\ NothingAdded
  /\ \A t \in Destroyers : Condemned(t)

-----------------------------------------------------------------------------
(* The places of one thread from a step to the next.                       *)

OnCpuPc == {"thread", "enqueue", "panic"}

\* The step leaves thread t where it was.
Kept(t) ==
  /\ Queues(t)' = Queues(t) /\ (Single(t) => Single(t)')
  /\ InHand(t)' = InHand(t) /\ OnCpu(t)' = OnCpu(t)
  /\ target'[Main] = t <=> target[Main] = t

LEMMA KeptPlace ==
  ASSUME NEW t, Kept(t)
  PROVE  (OnePlace(t) => OnePlace(t)') /\ (NoPlace(t) => NoPlace(t)')
  BY DEF Kept, OnePlace, NoPlace

\* One queue changes.
LEMMA QueueStep ==
  ASSUME TypeOK, NEW q \in CPUs, NEW s, threads' = [threads EXCEPT ![q] = s],
         NEW t, Once(t, threads[q]) => Once(t, s)
  PROVE  /\ Queues(t)' = IF InSeq(t, s) THEN Queues(t) \cup {q} ELSE Queues(t) \ {q}
         /\ Single(t) => Single(t)'
  <1>1. threads'[q] = s /\ \A p \in CPUs : p # q => threads'[p] = threads[p]
    BY DEF TypeOK
  <1>2. Queues(t)' = {p \in CPUs : InSeq(t, threads'[p])}
    BY DEF Queues, InSeq
  <1>3. Queues(t)' = IF InSeq(t, s) THEN Queues(t) \cup {q} ELSE Queues(t) \ {q}
    BY <1>1, <1>2 DEF Queues
  <1>4. Single(t) => Single(t)'
    BY <1>1 DEF Single, Once
  <1> QED
    BY <1>3, <1>4

LEMMA QueuesSame ==
  ASSUME NEW t, threads' = threads
  PROVE  Queues(t)' = Queues(t) /\ (Single(t) => Single(t)')
  BY DEF Queues, Single, InSeq, Once

\* A CPU moves between two steps at neither of which it executes its thread.
LEMMA OnCpuSame ==
  ASSUME TypeOK, NEW t, currentThread' = currentThread, NEW c \in CPUs,
         \A d \in CPUs : d # c => pc'[d] = pc[d],
         pc[c] \in OnCpuPc <=> pc'[c] \in OnCpuPc
  PROVE  OnCpu(t)' = OnCpu(t)
  <1>1. \A d \in CPUs : pc'[d] \in OnCpuPc <=> pc[d] \in OnCpuPc
    OBVIOUS
  <1> QED
    BY <1>1 DEF OnCpu, OnCpuPc

LEMMA OrdinaryType ==
  ASSUME NEW t \in Ordinary
  PROVE  t \in Thread /\ t # NoThread /\ t # killedThread /\ \A c \in CPUs : idle[c] # t
  BY ThreadAssumption DEF Ordinary, Idles

LEMMA KeptPlaced ==
  ASSUME NEW t, Kept(t), Placed(t), state'[t] = state[t] \/ state'[t] \in {"Killed", "Freed"}
                                    \/ (Alive(t) /\ state'[t] \in {"Stopped", "Running"}),
         tpc'[t] = tpc[t] \/ tpc[t] # "exited"
  PROVE  Placed(t)'
  BY KeptPlace DEF Placed, Alive

\* The thread a CPU takes from a queue is in its hand, or back in the queue.
LEMMA PopTurnPlace ==
  ASSUME TypeOK, NEW c \in CPUs, NEW q \in CPUs, PopTurn(c, q), hand[c] = NoThread,
         NEW t \in Ordinary, Placed(t), OnCpu(t)' = OnCpu(t),
         target' = target, state' = state, tpc' = tpc
  PROVE  Placed(t)'
  <1> DEFINE s == threads[q]
             h == Head(s)
  <1>1. s \in Seq(Thread) /\ s # << >> /\ t \in Thread /\ t # NoThread /\ h \in Thread
        /\ Tail(s) \in Seq(Thread)
    BY HeadTail, OrdinaryType DEF PopTurn, TypeOK
  <1>2. threads' = [threads EXCEPT ![q] = IF state[h] = "Running" THEN Append(Tail(s), h) ELSE Tail(s)]
    BY DEF PopTurn
  <1>3. hand' = [hand EXCEPT ![c] = IF state[h] = "Stopped" THEN h ELSE NoThread]
    BY DEF PopTurn
  <1>4. /\ InSeq(t, Append(Tail(s), h)) <=> InSeq(t, s)
        /\ Once(t, s) => Once(t, Append(Tail(s), h))
        /\ InSeq(t, s) <=> h = t \/ InSeq(t, Tail(s))
        /\ Once(t, s) => Once(t, Tail(s)) /\ ~(h = t /\ InSeq(t, Tail(s)))
    BY <1>1, RotateOccurs, TailOccurs
  <1>5. InSeq(t, s) <=> q \in Queues(t)
    BY DEF Queues
  <1> HIDE DEF s, h
  <1>6. state[h] = "Running" => Queues(t)' = Queues(t) /\ (Single(t) => Single(t)')
    <2> SUFFICES ASSUME state[h] = "Running"
                 PROVE  Queues(t)' = Queues(t) /\ (Single(t) => Single(t)')
      OBVIOUS
    <2>1. threads' = [threads EXCEPT ![q] = Append(Tail(s), h)]
      BY <1>2
    <2>2. Once(t, threads[q]) => Once(t, Append(Tail(s), h))
      BY <1>4 DEF s
    <2>3. /\ Queues(t)' = IF InSeq(t, Append(Tail(s), h)) THEN Queues(t) \cup {q} ELSE Queues(t) \ {q}
          /\ Single(t) => Single(t)'
      BY <2>1, <2>2, QueueStep
    <2>4. InSeq(t, Append(Tail(s), h)) <=> q \in Queues(t)
      BY <1>4, <1>5
    <2> QED
      BY <2>3, <2>4
  <1>7. state[h] # "Running" => /\ Queues(t)' = IF InSeq(t, Tail(s)) THEN Queues(t) \cup {q}
                                                ELSE Queues(t) \ {q}
                                /\ Single(t) => Single(t)'
    <2> SUFFICES ASSUME state[h] # "Running"
                 PROVE  /\ Queues(t)' = IF InSeq(t, Tail(s)) THEN Queues(t) \cup {q}
                                        ELSE Queues(t) \ {q}
                        /\ Single(t) => Single(t)'
      OBVIOUS
    <2>1. threads' = [threads EXCEPT ![q] = Tail(s)]
      BY <1>2
    <2>2. Once(t, threads[q]) => Once(t, Tail(s))
      BY <1>4 DEF s
    <2> QED
      BY <2>1, <2>2, QueueStep
  <1>8. CASE h # t \/ state[h] = "Running"
    <2>1. Queues(t)' = Queues(t) /\ (Single(t) => Single(t)')
      BY <1>4, <1>5, <1>6, <1>7, <1>8
    <2>2. InHand(t)' = InHand(t)
      <3>1. hand'[c] # t /\ hand[c] # t
        BY <1>1, <1>3, <1>8 DEF TypeOK
      <3>2. \A d \in CPUs : d # c => hand'[d] = hand[d]
        BY <1>3 DEF TypeOK
      <3>3. \A d \in CPUs : hand'[d] = t <=> hand[d] = t
        BY <3>1, <3>2
      <3> QED
        BY <3>3 DEF InHand
    <2>3. Kept(t)
      BY <2>1, <2>2 DEF Kept
    <2> QED
      BY <2>3, KeptPlaced
  <1>9. CASE h = t /\ state[t] = "Stopped"
    <2>1. q \in Queues(t)
      BY <1>4, <1>5, <1>9
    <2>2. InHand(t)' = InHand(t) \cup {c}
      <3>1. \A d \in CPUs : hand'[d] = t <=> hand[d] = t \/ d = c
        BY <1>3, <1>9 DEF TypeOK
      <3> QED
        BY <3>1 DEF InHand
    <2>3. ASSUME Alive(t) PROVE OnePlace(t)'
      <3>1. /\ Single(t) /\ Queues(t) = {q} /\ InHand(t) = {} /\ OnCpu(t) = {}
            /\ target[Main] # t
        BY <2>1, <2>3 DEF Placed, OnePlace
      <3>2. Queues(t)' = {} /\ Single(t)'
        <4>1. Once(t, s)
          BY <3>1 DEF Single, s
        <4> QED
          BY <1>4, <1>7, <1>9, <3>1, <4>1
      <3>3. InHand(t)' = {c}
        BY <2>2, <3>1
      <3> QED
        BY <3>1, <3>2, <3>3 DEF OnePlace
    <2> QED
      BY <1>9, <2>3 DEF Placed, Alive
  <1>10. CASE h = t /\ state[t] \notin {"Stopped", "Running"}
    <2>1. q \in Queues(t)
      BY <1>4, <1>5, <1>10
    <2>2. state[t] # "Unborn"
      BY <2>1 DEF Placed, NoPlace
    <2> QED
      BY <1>10, <2>2 DEF Placed, Alive
  <1> QED
    BY <1>8, <1>9, <1>10
\* A step of CPU c that moves no thread.
LEMMA SilentPlaced ==
  ASSUME TypeOK, NEW c \in CPUs, NEW t \in Ordinary, Placed(t),
         threads' = threads, currentThread' = currentThread,
         \A d \in CPUs : hand'[d] = t <=> hand[d] = t,
         \A d \in CPUs : d # c => pc'[d] = pc[d],
         pc[c] \in OnCpuPc <=> pc'[c] \in OnCpuPc,
         target'[Main] = t <=> target[Main] = t,
         \/ state'[t] = state[t]
         \/ state'[t] \in {"Killed", "Freed"}
         \/ state[t] \in {"Stopped", "Running"} /\ state'[t] \in {"Stopped", "Running"},
         tpc'[t] = tpc[t] \/ tpc[t] # "exited"
  PROVE  Placed(t)'
  <1>1. Queues(t)' = Queues(t) /\ (Single(t) => Single(t)')
    BY QueuesSame
  <1>2. InHand(t)' = InHand(t)
    BY DEF InHand
  <1>3. OnCpu(t)' = OnCpu(t)
    BY OnCpuSame
  <1>4. Kept(t)
    BY <1>1, <1>2, <1>3 DEF Kept
  <1>5. CASE tpc'[t] = "exited"
    BY <1>4, <1>5, KeptPlace DEF Placed, Alive
  <1>6. CASE tpc'[t] # "exited"
    <2>1. Alive(t)' => Alive(t)
      BY <1>6 DEF Alive
    <2>2. state'[t] = "Unborn" => state[t] = "Unborn"
      OBVIOUS
    <2> QED
      BY <1>4, <2>1, <2>2, KeptPlace DEF Placed
  <1> QED
    BY <1>5, <1>6

\* Balancing: the head of one queue goes to the end of another.
LEMMA MovePlaced ==
  ASSUME TypeOK, ControlInv, NEW c \in CPUs, MoveOne(c), NEW t \in Ordinary, Placed(t)
  PROVE  Placed(t)'
  <1> DEFINE few == Cpu1(c)
             many == Cpu2(c)
             h == Head(threads[many])
  <1>1. few \in CPUs /\ many \in CPUs /\ few # many
    BY PairType DEF MoveOne
  <1>2. /\ threads[few] \in Seq(Thread) /\ threads[many] \in Seq(Thread) /\ threads[many] # << >>
        /\ h \in Thread /\ Tail(threads[many]) \in Seq(Thread)
    BY <1>1, HeadTail DEF TypeOK, MoveOne, Uneven
  <1>3. /\ threads'[few] = Append(threads[few], h) /\ threads'[many] = Tail(threads[many])
        /\ \A q \in CPUs : q \notin {few, many} => threads'[q] = threads[q]
    <2>1. threads' = [threads EXCEPT ![few] = Append(@, h), ![many] = Tail(@)]
      BY DEF MoveOne
    <2> HIDE DEF few, many, h
    <2> QED BY <1>1, <2>1 DEF TypeOK
  <1> HIDE DEF few, many
  <1>4. /\ InSeq(t, Append(threads[few], h)) <=> InSeq(t, threads[few]) \/ h = t
        /\ Once(t, threads[few]) /\ ~(h = t /\ InSeq(t, threads[few])) => Once(t, Append(threads[few], h))
        /\ InSeq(t, threads[many]) <=> h = t \/ InSeq(t, Tail(threads[many]))
        /\ Once(t, threads[many]) =>
             Once(t, Tail(threads[many])) /\ ~(h = t /\ InSeq(t, Tail(threads[many])))
    BY <1>2, AppendOccurs, TailOccurs
  <1> HIDE DEF h
  <1>5. Queues(t)' = {q \in CPUs : InSeq(t, threads'[q])}
    BY DEF Queues, InSeq
  <1>6. Single(t)' <=> \A q \in CPUs : Once(t, threads'[q])
    BY DEF Single, Once
  <1>7. InHand(t)' = InHand(t) /\ OnCpu(t)' = OnCpu(t) /\ target' = target /\ state' = state /\ tpc' = tpc
    BY DEF MoveOne, InHand, OnCpu, cpuVars, threadVars
  <1>8. CASE h # t
    <2>1. Queues(t)' = Queues(t)
      BY <1>3, <1>4, <1>5, <1>8 DEF Queues
    <2>2. Single(t) => Single(t)'
      BY <1>1, <1>3, <1>4, <1>6, <1>8 DEF Single
    <2> QED
      BY <1>7, <2>1, <2>2, KeptPlaced DEF Kept
  <1>9. CASE h = t
    <2>1. many \in Queues(t)
      BY <1>1, <1>4, <1>9 DEF Queues
    <2>2. ASSUME Alive(t) PROVE OnePlace(t)'
      <3>1. /\ Single(t) /\ Queues(t) = {many} /\ InHand(t) = {} /\ OnCpu(t) = {}
            /\ target[Main] # t
        BY <2>1, <2>2 DEF Placed, OnePlace
      <3>2. \A q \in CPUs : q # many => ~InSeq(t, threads[q])
        BY <3>1 DEF Queues
      <3>3. ~InSeq(t, Tail(threads[many])) /\ Once(t, Tail(threads[many]))
        BY <1>1, <1>4, <1>9, <3>1 DEF Single
      <3>4. \A q \in CPUs : InSeq(t, threads'[q]) <=> q = few
        BY <1>1, <1>3, <1>4, <1>9, <3>2, <3>3
      <3>5. Queues(t)' = {few}
        BY <1>1, <1>5, <3>4
      <3>6. Single(t)'
        BY <1>1, <1>3, <1>4, <1>6, <3>1, <3>2, <3>3 DEF Single
      <3> QED
        BY <1>1, <1>7, <3>1, <3>5, <3>6 DEF OnePlace
    <2>3. state[t] # "Unborn"
      BY <2>1 DEF Placed, NoPlace
    <2> QED
      BY <1>7, <2>2, <2>3 DEF Placed, Alive
  <1> QED
    BY <1>8, <1>9

\* A tick or a yield queues the thread of the CPU.
LEMMA EnqueuePlaced ==
  ASSUME TypeOK, NEW c \in CPUs, Enqueue(c), NEW t \in Ordinary, Placed(t)
  PROVE  Placed(t)'
  <1>1. /\ threads[c] \in Seq(Thread) /\ currentThread[c] \in Thread
        /\ threads' = [threads EXCEPT ![c] = Append(threads[c], currentThread[c])]
        /\ pc[c] = "enqueue" /\ pc'[c] = "switch" /\ \A d \in CPUs : d # c => pc'[d] = pc[d]
        /\ currentThread' = currentThread /\ InHand(t)' = InHand(t)
        /\ target' = target /\ state' = state /\ tpc' = tpc
    BY DEF TypeOK, Enqueue, Goto, InHand, threadVars
  <1>2. /\ InSeq(t, Append(threads[c], currentThread[c])) <=> InSeq(t, threads[c]) \/ currentThread[c] = t
        /\ Once(t, threads[c]) /\ ~(currentThread[c] = t /\ InSeq(t, threads[c]))
             => Once(t, Append(threads[c], currentThread[c]))
    BY <1>1, AppendOccurs
  <1>3. CASE currentThread[c] # t
    <2>1. Once(t, threads[c]) => Once(t, Append(threads[c], currentThread[c]))
      BY <1>2, <1>3
    <2>2. /\ Queues(t)' = IF InSeq(t, Append(threads[c], currentThread[c])) THEN Queues(t) \cup {c}
                          ELSE Queues(t) \ {c}
          /\ Single(t) => Single(t)'
      BY <1>1, <2>1, QueueStep
    <2>3. InSeq(t, Append(threads[c], currentThread[c])) <=> c \in Queues(t)
      BY <1>2, <1>3 DEF Queues
    <2>4. Queues(t)' = Queues(t)
      BY <2>2, <2>3
    <2>5. OnCpu(t)' = OnCpu(t)
      <3>1. \A d \in CPUs : currentThread[d] = t => pc'[d] = pc[d]
        BY <1>1, <1>3
      <3> QED
        BY <1>1, <3>1 DEF OnCpu
    <2> QED
      BY <1>1, <2>2, <2>4, <2>5, KeptPlaced DEF Kept
  <1>4. CASE currentThread[c] = t
    <2>1. c \in OnCpu(t)
      BY <1>1, <1>4 DEF OnCpu
    <2>2. ASSUME Alive(t) PROVE OnePlace(t)'
      <3>1. /\ Single(t) /\ Queues(t) = {} /\ InHand(t) = {} /\ OnCpu(t) = {c}
            /\ target[Main] # t
        BY <2>1, <2>2 DEF Placed, OnePlace
      <3>2. ~InSeq(t, threads[c]) /\ Once(t, threads[c])
        BY <3>1 DEF Queues, Single
      <3>3. /\ Queues(t)' = Queues(t) \cup {c}
            /\ Single(t)'
        BY <1>1, <1>2, <1>4, <3>1, <3>2, QueueStep
      <3>4. OnCpu(t)' = {}
        <4>1. \A d \in CPUs : d # c => ~(currentThread[d] = t /\ pc[d] \in {"thread", "enqueue", "panic"})
          BY <3>1 DEF OnCpu
        <4>2. \A d \in CPUs : ~(currentThread'[d] = t /\ pc'[d] \in {"thread", "enqueue", "panic"})
          BY <1>1, <4>1
        <4> QED
          BY <4>2 DEF OnCpu
      <3> QED
        BY <1>1, <3>1, <3>3, <3>4 DEF OnePlace
    <2>3. state[t] # "Unborn"
      BY <2>1 DEF Placed, NoPlace
    <2> QED
      BY <1>1, <2>2, <2>3 DEF Placed, Alive
  <1> QED
    BY <1>3, <1>4
\* switchTo(): the thread in hand becomes the one the CPU executes.
LEMMA SwitchPlaced ==
  ASSUME TypeOK, NEW c \in CPUs, SwitchTo(c), NEW t \in Ordinary, Placed(t)
  PROVE  Placed(t)'
  <1>1. /\ currentThread'[c] = hand[c] /\ hand'[c] = NoThread /\ pc[c] = "to"
        /\ pc'[c] \in {"thread", "panic"} /\ t # NoThread
        /\ \A d \in CPUs : d # c => /\ currentThread'[d] = currentThread[d]
                                    /\ hand'[d] = hand[d] /\ pc'[d] = pc[d]
    BY OrdinaryType DEF TypeOK, SwitchTo, Goto, Panic
  <1>2. threads' = threads /\ target' = target /\ tpc' = tpc
    BY DEF SwitchTo, queueVars, threadVars
  <1>3. state' = state \/ (state[hand[c]] = "Stopped" /\ state' = [state EXCEPT ![hand[c]] = "Running"])
    BY DEF SwitchTo
  <1>4. \/ state'[t] = state[t]
        \/ state[t] \in {"Stopped", "Running"} /\ state'[t] \in {"Stopped", "Running"}
    BY <1>3, OrdinaryType DEF TypeOK
  <1>5. Queues(t)' = Queues(t) /\ (Single(t) => Single(t)')
    BY <1>2, QueuesSame
  <1>6. /\ Alive(t)' => Alive(t)
        /\ state'[t] = "Unborn" => state[t] = "Unborn"
    BY <1>2, <1>4 DEF Alive
  <1>7. \A d \in CPUs : /\ d \in InHand(t)' <=> d \in InHand(t) /\ d # c
                        /\ d \in OnCpu(t)' <=> IF d = c THEN c \in InHand(t) ELSE d \in OnCpu(t)
    BY <1>1 DEF InHand, OnCpu
  <1>8. InHand(t) \subseteq CPUs /\ OnCpu(t) \subseteq CPUs /\ InHand(t)' \subseteq CPUs
        /\ OnCpu(t)' \subseteq CPUs /\ c \notin OnCpu(t)
    BY <1>1 DEF InHand, OnCpu
  <1>9. CASE c \notin InHand(t)
    <2>1. InHand(t)' = InHand(t) /\ OnCpu(t)' = OnCpu(t)
      BY <1>7, <1>8, <1>9
    <2> QED
      BY <1>2, <1>5, <1>6, <2>1, KeptPlace DEF Kept, Placed
  <1>10. CASE c \in InHand(t)
    <2>1. ASSUME Alive(t) PROVE OnePlace(t)'
      <3>1. /\ Single(t) /\ Queues(t) = {} /\ InHand(t) = {c} /\ OnCpu(t) = {}
            /\ target[Main] # t
        BY <1>10, <2>1 DEF Placed, OnePlace
      <3>2. InHand(t)' = {} /\ OnCpu(t)' = {c}
        BY <1>7, <1>8, <3>1
      <3> QED
        BY <1>2, <1>5, <3>1, <3>2 DEF OnePlace
    <2>2. state[t] # "Unborn"
      BY <1>10 DEF Placed, NoPlace
    <2> QED
      BY <1>6, <2>1, <2>2 DEF Placed
  <1> QED
    BY <1>9, <1>10

LEMMA CpuPlaced ==
  ASSUME TypeOK, ControlInv, EmptyHands, NEW c \in CPUs, CpuStep(c), NEW t \in Ordinary, Placed(t)
  PROVE  Placed(t)'
  <1>0. /\ \A d \in CPUs : d # c => pc'[d] = pc[d] /\ hand'[d] = hand[d]
        /\ tpc' = tpc /\ target' = target
        /\ t \in Thread /\ t # NoThread /\ \A d \in CPUs : idle[d] # t
    BY CpuFrame, OrdinaryType
  <1>a. ASSUME threads' = threads, currentThread' = currentThread, hand'[c] = hand[c],
               state' = state, pc[c] \notin OnCpuPc, pc'[c] \notin OnCpuPc
        PROVE  Placed(t)'
    BY <1>0, <1>a, SilentPlaced
  <1> USE DEF Goto, TypeOK, OnCpuPc, queueVars, balanceVars
  <1>1. CASE Enqueue(c)
    BY <1>1, EnqueuePlaced
  <1>2. CASE SwitchNext(c)
    <2>1. \/ state'[t] = state[t]
          \/ state[t] \in {"Stopped", "Running"} /\ state'[t] \in {"Stopped", "Running"}
      BY <1>0, <1>2 DEF SwitchNext
    <2> QED
      BY <1>0, <1>2, <2>1, SilentPlaced DEF SwitchNext
  <1>3. CASE LockOwn(c)
    BY <1>a, <1>3 DEF LockOwn
  <1>4. CASE PopOwn(c)
    <2>1. hand[c] = NoThread /\ PopTurn(c, c) /\ state' = state
      BY <1>4 DEF PopOwn, EmptyHands, HasHand
    <2>2. OnCpu(t)' = OnCpu(t)
      <3>1. currentThread' = currentThread /\ (pc' = pc \/ pc' = [pc EXCEPT ![c] = "found"])
        BY <1>4 DEF PopOwn
      <3>2. pc[c] \notin OnCpuPc /\ pc'[c] \notin OnCpuPc
        BY <1>4, <3>1 DEF PopOwn
      <3> QED
        BY <1>0, <3>1, <3>2, OnCpuSame
    <2> QED
      BY <1>0, <2>1, <2>2, PopTurnPlace
  <1>5. CASE GoIdle(c)
    <2>1. hand[c] = NoThread /\ hand'[c] = idle[c]
      BY <1>5 DEF GoIdle, EmptyHands, HasHand
    <2> QED
      BY <1>0, <1>5, <2>1, SilentPlaced DEF GoIdle
  <1>6. CASE Scan(c)
    BY <1>a, <1>6 DEF Scan
  <1>7. CASE Steal(c)
    <2>1. hand[c] = NoThread /\ PopTurn(c, idx[c]) /\ state' = state /\ idx[c] \in CPUs
      BY <1>7 DEF Steal, EmptyHands, HasHand, ControlInv, LocalInv
    <2>2. OnCpu(t)' = OnCpu(t)
      <3>1. currentThread' = currentThread /\ (pc' = pc \/ pc' = [pc EXCEPT ![c] = "found"])
        BY <1>7 DEF Steal
      <3>2. pc[c] \notin OnCpuPc /\ pc'[c] \notin OnCpuPc
        BY <1>7, <3>1 DEF Steal
      <3> QED
        BY <1>0, <3>1, <3>2, OnCpuSame
    <2> QED
      BY <1>0, <2>1, <2>2, PopTurnPlace
  <1>8. CASE StealNothing(c)
    BY <1>a, <1>8 DEF StealNothing
  <1>9. CASE StartBalance(c)
    BY <1>a, <1>9 DEF StartBalance
  <1>10. CASE SkipBalance(c)
    BY <1>a, <1>10 DEF SkipBalance
  <1>11. CASE SwitchTo(c)
    BY <1>11, SwitchPlaced
  <1>12. CASE SortInsert(c)
    BY <1>a, <1>12 DEF SortInsert
  <1>13. CASE LockFirst(c)
    BY <1>a, <1>13 DEF LockFirst
  <1>14. CASE LockSecond(c)
    BY <1>a, <1>14 DEF LockSecond
  <1>15. CASE MoveOne(c)
    BY <1>15, MovePlaced
  <1>16. CASE UnlockPair(c)
    BY <1>a, <1>16 DEF UnlockPair
  <1>17. CASE EndBalance(c)
    BY <1>a, <1>17 DEF EndBalance
  <1>18. CASE ExitPush(c)
    BY <1>a, <1>18 DEF ExitPush
  <1>19. CASE ExitStore(c)
    BY <1>a, <1>19 DEF ExitStore
  <1> QED
    BY <1>1, <1>2, <1>3, <1>4, <1>5, <1>6, <1>7, <1>8, <1>9, <1>10, <1>11,
       <1>12, <1>13, <1>14, <1>15, <1>16, <1>17, <1>18, <1>19 DEF CpuStep

\* The hand of a CPU is empty again when the scheduler leaves the CPU.
LEMMA CpuHands ==
  ASSUME TypeOK, EmptyHands, NEW c \in CPUs, CpuStep(c)
  PROVE  EmptyHands'
  <1>0. \A d \in CPUs : d # c => pc'[d] = pc[d] /\ hand'[d] = hand[d]
    BY CpuFrame
  <1>a. pc'[c] \in HasHand \/ hand'[c] = NoThread
    <2> USE DEF Goto, TypeOK, HasHand, EmptyHands, cpuVars
    <2>1. CASE Enqueue(c) \/ SwitchNext(c) \/ LockOwn(c)
      BY <2>1 DEF Enqueue, SwitchNext, LockOwn
    <2>2. CASE PopOwn(c) \/ Steal(c)
      BY <2>2 DEF PopOwn, Steal, PopTurn
    <2>3. CASE GoIdle(c) \/ Scan(c) \/ StealNothing(c)
      BY <2>3 DEF GoIdle, Scan, StealNothing
    <2>4. CASE StartBalance(c) \/ SkipBalance(c) \/ SortInsert(c)
      BY <2>4 DEF StartBalance, SkipBalance, SortInsert
    <2>5. CASE SwitchTo(c)
      BY <2>5 DEF SwitchTo, Panic
    <2>6. CASE LockFirst(c) \/ LockSecond(c) \/ MoveOne(c) \/ UnlockPair(c) \/ EndBalance(c)
      BY <2>6 DEF LockFirst, LockSecond, MoveOne, UnlockPair, EndBalance
    <2>7. CASE ExitPush(c) \/ ExitStore(c)
      BY <2>7 DEF ExitPush, ExitStore
    <2> QED
      BY <2>1, <2>2, <2>3, <2>4, <2>5, <2>6, <2>7 DEF CpuStep
  <1> QED
    BY <1>0, <1>a DEF EmptyHands
-----------------------------------------------------------------------------
(* The steps of threads.                                                   *)

LEMMA PreemptPlaced ==
  ASSUME TypeOK, NEW c \in CPUs, Preempt(c), NEW t \in Ordinary, Placed(t)
  PROVE  Placed(t)'
  <1>1. /\ pc[c] \in OnCpuPc /\ pc'[c] \in OnCpuPc
        /\ \A d \in CPUs : d # c => pc'[d] = pc[d]
    BY DEF TypeOK, Preempt, Panic, Goto, OnCpuPc
  <1>2. \/ state'[t] = state[t]
        \/ state[t] \in {"Stopped", "Running"} /\ state'[t] \in {"Stopped", "Running"}
    BY OrdinaryType DEF TypeOK, Preempt
  <1> QED
    BY <1>1, <1>2, SilentPlaced DEF Preempt, queueVars, threadVars

\* createThread() gives the new thread its place, the argument of addThread().
LEMMA CreatePlaced ==
  ASSUME TypeOK, PlaceInv, NEW c \in CPUs, NEW u \in User, Create(c, u), NEW t \in Ordinary
  PROVE  Placed(t)'
  <1>1. /\ target[Main] = NoThread /\ target'[Main] = u /\ state[u] = "Unborn" /\ u \in Thread
        /\ state' = [state EXCEPT ![u] = "Stopped"] /\ t \in Thread /\ t # NoThread
        /\ u # Main /\ tpc'[u] = tpc[u] /\ (t # Main => tpc'[t] = tpc[t])
        /\ (tpc'[t] = tpc[t] \/ tpc[t] # "exited")
    BY OrdinaryType, ThreadAssumption DEF TypeOK, PlaceInv, NothingAdded, Create, ThreadGoto
  <1>2. /\ threads' = threads /\ pc' = pc /\ hand' = hand /\ currentThread' = currentThread
    BY DEF Create, queueVars, cpuVars
  <1>3. Placed(t)
    BY DEF PlaceInv
  <1>4. CASE t # u
    BY <1>1, <1>2, <1>3, <1>4, SilentPlaced DEF TypeOK
  <1>5. CASE t = u
    <2>1. NoPlace(t)
      BY <1>1, <1>3, <1>5 DEF Placed
    <2>2. Queues(t)' = {} /\ InHand(t)' = {} /\ OnCpu(t)' = {}
      BY <1>2, <2>1, QueuesSame DEF NoPlace, InHand, OnCpu
    <2>3. \A q \in CPUs : ~InSeq(t, threads[q])
      BY <2>1 DEF NoPlace, Queues
    <2>4. Single(t)'
      BY <1>2, <2>3 DEF Single, Once, InSeq
    <2> QED
      BY <1>1, <1>5, <2>2, <2>4 DEF Placed, OnePlace, TypeOK
  <1> QED
    BY <1>4, <1>5

\* addThread() queues its argument.
LEMMA AddPushPlaced ==
  ASSUME TypeOK, ControlInv, NEW c \in CPUs, AddPush(c), NEW t \in Ordinary, Placed(t)
  PROVE  Placed(t)'
  <1> DEFINE q == tcpu[Main]
             x == target[Main]
  <1>1. /\ q \in CPUs /\ x \in Thread /\ threads[q] \in Seq(Thread) /\ t # NoThread
        /\ threads' = [threads EXCEPT ![q] = Append(threads[q], x)]
        /\ target'[Main] = NoThread /\ state' = state
        /\ tpc'[t] = tpc[t] \/ tpc[t] # "exited"
    BY ThreadAssumption, OrdinaryType DEF TypeOK, ControlInv, AddPush, ThreadGoto
  <1>2. InHand(t)' = InHand(t) /\ OnCpu(t)' = OnCpu(t)
    BY DEF AddPush, InHand, OnCpu, cpuVars
  <1>3. Alive(t)' => Alive(t)
    BY <1>1, ThreadAssumption DEF Alive, AddPush, ThreadGoto, TypeOK
  <1>4. /\ InSeq(t, Append(threads[q], x)) <=> InSeq(t, threads[q]) \/ x = t
        /\ Once(t, threads[q]) /\ ~(x = t /\ InSeq(t, threads[q])) => Once(t, Append(threads[q], x))
    BY <1>1, AppendOccurs
  <1> HIDE DEF q
  <1>5. CASE x # t
    <2>1. Once(t, threads[q]) => Once(t, Append(threads[q], x))
      BY <1>4, <1>5
    <2>2. /\ Queues(t)' = IF InSeq(t, Append(threads[q], x)) THEN Queues(t) \cup {q}
                          ELSE Queues(t) \ {q}
          /\ Single(t) => Single(t)'
      BY <1>1, <2>1, QueueStep
    <2>3. InSeq(t, Append(threads[q], x)) <=> q \in Queues(t)
      BY <1>1, <1>4, <1>5 DEF Queues
    <2>4. Queues(t)' = Queues(t)
      BY <2>2, <2>3
    <2>5. Kept(t)
      BY <1>1, <1>2, <1>5, <2>2, <2>4 DEF Kept
    <2> QED
      BY <1>1, <1>3, <2>5, KeptPlace DEF Placed
  <1>6. CASE x = t
    <2>1. ASSUME Alive(t) PROVE OnePlace(t)'
      <3>1. Single(t) /\ Queues(t) = {} /\ InHand(t) = {} /\ OnCpu(t) = {}
        BY <1>6, <2>1 DEF Placed, OnePlace
      <3>2. ~InSeq(t, threads[q]) /\ Once(t, threads[q])
        BY <1>1, <3>1 DEF Queues, Single
      <3>3. Queues(t)' = Queues(t) \cup {q} /\ Single(t)'
        BY <1>1, <1>4, <1>6, <3>1, <3>2, QueueStep
      <3> QED
        BY <1>1, <1>2, <3>1, <3>3 DEF OnePlace
    <2>2. state[t] # "Unborn"
      BY <1>6 DEF Placed, NoPlace
    <2> QED
      BY <1>1, <1>3, <2>1, <2>2 DEF Placed
  <1> QED
    BY <1>5, <1>6

\* exit(): whatever thread is killed, the one that leaves has exited.
LEMMA ExitKillPlaced ==
  ASSUME TypeOK, NEW c \in CPUs, ExitKill(c), NEW t \in Ordinary, Placed(t)
  PROVE  Placed(t)'
  <1>1. /\ pc[c] = "thread" /\ pc'[c] = "exitPush" /\ \A d \in CPUs : d # c => pc'[d] = pc[d]
        /\ currentThread' = currentThread /\ currentThread[c] \in Thread
        /\ tpc'[currentThread[c]] = "exited" /\ (t # currentThread[c] => tpc'[t] = tpc[t])
    BY OrdinaryType DEF TypeOK, ExitKill, Goto, ThreadGoto
  <1>2. state'[t] = state[t] \/ state'[t] = "Killed"
    BY OrdinaryType DEF TypeOK, ExitKill
  <1>3. Queues(t)' = Queues(t) /\ (Single(t) => Single(t)') /\ InHand(t)' = InHand(t) /\ target' = target
    BY QueuesSame DEF ExitKill, queueVars, InHand
  <1>4. CASE t = currentThread[c]
    <2>1. c \in OnCpu(t)
      BY <1>1, <1>4 DEF OnCpu
    <2>2. state[t] # "Unborn"
      BY <2>1 DEF Placed, NoPlace
    <2> QED
      BY <1>1, <1>2, <1>4, <2>2 DEF Placed, Alive
  <1>5. CASE t # currentThread[c]
    <2>1. \A d \in CPUs : currentThread[d] = t => pc'[d] = pc[d]
      BY <1>1, <1>5
    <2>2. OnCpu(t)' = OnCpu(t)
      BY <1>1, <2>1 DEF OnCpu
    <2>3. Kept(t)
      BY <1>3, <2>2 DEF Kept
    <2> QED
      BY <1>1, <1>2, <1>5, <2>3, KeptPlaced
  <1> QED
    BY <1>4, <1>5

LEMMA ProgramPlaced ==
  ASSUME TypeOK, ControlInv, PlaceInv, NEW c \in CPUs, ProgramStep(c), NEW t \in Ordinary
  PROVE  Placed(t)'
  <1>0. Placed(t)
    BY DEF PlaceInv
  <1> USE <1>0 DEF TypeOK, ThreadGoto, OnCpuPc, queueVars, cpuVars
  <1>1. ASSUME NEW u \in User, Create(c, u) PROVE Placed(t)'
    BY <1>1, CreatePlaced
  <1>2. CASE AddLock(c)
    <2>1. tpc'[t] = tpc[t] \/ tpc[t] # "exited"
      BY <1>2, ThreadAssumption, OrdinaryType DEF AddLock
    <2> QED
      BY <1>2, <2>1, SilentPlaced DEF AddLock
  <1>3. CASE AddPush(c)
    BY <1>3, AddPushPlaced
  <1>4. CASE ExitCapture(c)
    <2>1. tpc'[t] = tpc[t] \/ tpc[t] # "exited"
      BY <1>4, OrdinaryType DEF ExitCapture
    <2> QED
      BY <1>4, <2>1, SilentPlaced DEF ExitCapture
  <1>5. CASE ExitKill(c)
    BY <1>5, ExitKillPlaced
  <1> QED
    BY <1>1, <1>2, <1>3, <1>4, <1>5 DEF ProgramStep
LEMMA RolesApart ==
  ASSUME NEW t \in Destroyers
  PROVE  t \in Thread /\ t # Main /\ t \notin User /\ t \notin Exiting
  BY ThreadAssumption DEF Destroyers

\* replaceAll() only removes a thread that was killed.
LEMMA ReplacePlaced ==
  ASSUME TypeOK, NEW c \in CPUs, NEW u \in Destroyers, DestroyerReplace(c, u), Condemned(u),
         NEW t \in Ordinary, Placed(t)
  PROVE  Placed(t)'
  <1> DEFINE q == tcpu[u]
             s == [k \in 1..Len(threads[q]) |-> IF threads[q][k] = target[u]
                                                THEN killedThread ELSE threads[q][k]]
  <1>1. /\ q \in CPUs /\ u \in Thread /\ u # Main /\ threads[q] \in Seq(Thread)
        /\ threads' = [threads EXCEPT ![q] = s]
        /\ target' = target /\ state' = state /\ InHand(t)' = InHand(t) /\ OnCpu(t)' = OnCpu(t)
        /\ tpc'[t] = tpc[t] \/ tpc[t] # "exited"
    BY RolesApart, OrdinaryType
       DEF TypeOK, DestroyerReplace, ThreadGoto, InHand, OnCpu, cpuVars
  <1>2. state[target[u]] \in {"Killed", "Freed"}
    BY DEF Condemned, DestroyerReplace
  <1>3. CASE t = target[u]
    BY <1>1, <1>2, <1>3 DEF Placed, Alive
  <1>4. CASE t # target[u]
    <2>1. /\ InSeq(t, s) <=> InSeq(t, threads[q])
          /\ Once(t, threads[q]) => Once(t, s)
      <3>1. killedThread # t
        BY OrdinaryType
      <3>2. DOMAIN threads[q] = 1..Len(threads[q]) /\ DOMAIN s = 1..Len(threads[q])
        BY <1>1
      <3>3. \A k \in 1..Len(threads[q]) : s[k] = t <=> threads[q][k] = t
        BY <1>4, <3>1
      <3> HIDE DEF s, q
      <3> QED
        BY <3>2, <3>3 DEF InSeq, Once
    <2> HIDE DEF s, q
    <2>2. /\ Queues(t)' = IF InSeq(t, s) THEN Queues(t) \cup {q} ELSE Queues(t) \ {q}
          /\ Single(t) => Single(t)'
      BY <1>1, <2>1, QueueStep
    <2>3. InSeq(t, s) <=> q \in Queues(t)
      BY <1>1, <2>1 DEF Queues
    <2>4. Queues(t)' = Queues(t)
      BY <2>2, <2>3
    <2>5. Kept(t)
      BY <1>1, <2>2, <2>4 DEF Kept
    <2>6. Alive(t)' => Alive(t)
      BY <1>1, RolesApart, OrdinaryType DEF Alive, DestroyerReplace, ThreadGoto, TypeOK
    <2> QED
      BY <1>1, <2>5, <2>6, KeptPlace DEF Placed
  <1> QED
    BY <1>3, <1>4

LEMMA DestroyerPlaced ==
  ASSUME TypeOK, PlaceInv, NEW c \in CPUs, NEW u \in Destroyers, DestroyerStep(c, u), NEW t \in Ordinary
  PROVE  Placed(t)'
  <1>0. Placed(t) /\ u \in Thread /\ u # Main /\ t \in Thread /\ Condemned(u) /\ Main \in Thread
    BY RolesApart, OrdinaryType, ThreadAssumption DEF PlaceInv
  <1>a. ASSUME threads' = threads, currentThread' = currentThread, hand' = hand,
               pc' = pc \/ (pc[c] = "thread" /\ pc' = [pc EXCEPT ![c] = "panic"]),
               target' = target \/ \E v : target' = [target EXCEPT ![u] = v],
               state' = state \/ \E v : state' = [state EXCEPT ![v] = "Freed"],
               tpc' = tpc \/ (tpc[u] # "exited" /\ \E l : tpc' = [tpc EXCEPT ![u] = l])
        PROVE  Placed(t)'
    <2>1. /\ \A d \in CPUs : d # c => pc'[d] = pc[d]
          /\ pc[c] \in OnCpuPc <=> pc'[c] \in OnCpuPc
      BY <1>a DEF TypeOK, OnCpuPc
    <2>2. target'[Main] = target[Main]
      BY <1>0, <1>a DEF TypeOK
    <2>3. state'[t] = state[t] \/ state'[t] \in {"Killed", "Freed"}
      BY <1>0, <1>a DEF TypeOK
    <2>4. tpc'[t] = tpc[t] \/ tpc[t] # "exited"
      BY <1>0, <1>a DEF TypeOK
    <2> QED
      BY <1>0, <1>a, <2>1, <2>2, <2>3, <2>4, SilentPlaced
  <1> USE DEF ThreadGoto, Goto, Executes, queueVars, cpuVars
  <1>1. CASE DestroyerStart(c, u)
    BY <1>a, <1>1 DEF DestroyerStart
  <1>2. CASE DestroyerYield(c, u)
    BY <1>0, <1>2, PreemptPlaced DEF DestroyerYield
  <1>3. CASE DestroyerCheck(c, u)
    BY <1>a, <1>3 DEF DestroyerCheck
  <1>4. CASE PopAssert(c, u)
    BY <1>a, <1>4 DEF PopAssert, Panic
  <1>8. CASE PopFront(c, u)
    BY <1>a, <1>8 DEF PopFront
  <1>9. CASE PopNext(c, u)
    BY <1>a, <1>9 DEF PopNext
  <1>10. CASE PopAdvance(c, u)
    BY <1>a, <1>10 DEF PopAdvance
  <1>11. CASE PopSize(c, u)
    BY <1>a, <1>11 DEF PopSize
  <1>12. CASE PopStore(c, u)
    BY <1>a, <1>12 DEF PopStore
  <1>13. CASE DestroyerTake(c, u)
    BY <1>a, <1>13 DEF DestroyerTake, Panic
  <1>5. CASE DestroyerLock(c, u)
    BY <1>a, <1>5 DEF DestroyerLock
  <1>6. CASE DestroyerReplace(c, u)
    BY <1>0, <1>6, ReplacePlaced
  <1>7. CASE DestroyThread(c, u)
    BY <1>a, <1>7 DEF DestroyThread, Panic
  <1> QED
    BY <1>1, <1>2, <1>3, <1>4, <1>5, <1>6, <1>7, <1>8, <1>9, <1>10, <1>11, <1>12, <1>13
       DEF DestroyerStep

-----------------------------------------------------------------------------
(* The other parts of the invariant.                                       *)

\* A thread that was killed stays killed or freed.
DeadStay == \A v \in Thread : state[v] \in {"Killed", "Freed"} => state'[v] \in {"Killed", "Freed"}

LEMMA CondemnedKept ==
  ASSUME TypeOK, NEW t \in Destroyers, Condemned(t), DeadStay, fault = "none",
         tpc'[t] = tpc[t], target'[t] = target[t]
  PROVE  Condemned(t)'
  BY DEF Condemned, DeadStay

LEMMA CpuDeadStay ==
  ASSUME TypeOK, NEW c \in CPUs, CpuStep(c)
  PROVE  DeadStay
  <1>a. ASSUME state' = state PROVE DeadStay
    BY <1>a DEF DeadStay
  <1>1. CASE SwitchNext(c)
    BY <1>1 DEF SwitchNext, DeadStay, TypeOK
  <1>2. CASE SwitchTo(c)
    BY <1>2 DEF SwitchTo, DeadStay, TypeOK
  <1>3. CASE ~SwitchNext(c) /\ ~SwitchTo(c)
    BY <1>3, <1>a DEF CpuStep, Enqueue, LockOwn, PopOwn, GoIdle, Scan, Steal, StealNothing,
       StartBalance, SkipBalance, SortInsert, LockFirst, LockSecond, MoveOne, UnlockPair,
       EndBalance, ExitPush, ExitStore
  <1> QED
    BY <1>1, <1>2, <1>3

LEMMA CpuPlaceInv ==
  ASSUME TypeOK, ControlInv, PlaceInv, fault = "none", NEW c \in CPUs, CpuStep(c)
  PROVE  PlaceInv'
  <1>1. ASSUME NEW t \in Ordinary PROVE Placed(t)'
    BY CpuPlaced DEF PlaceInv
  <1>2. EmptyHands'
    BY CpuHands DEF PlaceInv
  <1>3. NothingAdded'
    BY CpuFrame DEF PlaceInv, NothingAdded
  <1>4. ASSUME NEW t \in Destroyers PROVE Condemned(t)'
    BY CpuFrame, CpuDeadStay, CondemnedKept DEF PlaceInv
  <1> QED
    BY <1>1, <1>2, <1>3, <1>4 DEF PlaceInv

\* The steps of threads leave the hands of the CPUs empty or full as they are.
LEMMA ThreadHands ==
  ASSUME TypeOK, EmptyHands, NEW c \in CPUs, ThreadMoves(c)
  PROVE  EmptyHands'
  BY DEF EmptyHands, ThreadMoves, HasHand, TypeOK

LEMMA PreemptPlaceInv ==
  ASSUME TypeOK, PlaceInv, fault = "none", NEW c \in CPUs, Preempt(c)
  PROVE  PlaceInv'
  <1>1. ASSUME NEW t \in Ordinary PROVE Placed(t)'
    BY PreemptPlaced DEF PlaceInv
  <1>2. EmptyHands'
    BY ThreadHands DEF PlaceInv, Preempt, Panic, Goto, ThreadMoves, balanceVars
  <1>3. NothingAdded'
    BY DEF PlaceInv, NothingAdded, Preempt, threadVars
  <1>4. DeadStay
    BY DEF Preempt, DeadStay, TypeOK
  <1>5. ASSUME NEW t \in Destroyers PROVE Condemned(t)'
    BY <1>4, CondemnedKept DEF PlaceInv, Preempt, threadVars
  <1> QED
    BY <1>1, <1>2, <1>3, <1>5 DEF PlaceInv

LEMMA ProgramPlaceInv ==
  ASSUME TypeOK, ControlInv, PlaceInv, fault = "none", NEW c \in CPUs, ProgramStep(c)
  PROVE  PlaceInv'
  <1>0. EmptyHands /\ NothingAdded /\ Main \in Thread
    BY ThreadAssumption DEF PlaceInv
  <1>1. ASSUME NEW t \in Ordinary PROVE Placed(t)'
    BY ProgramPlaced
  <1>2. ThreadMoves(c)
    BY DEF ProgramStep, Create, AddLock, AddPush, ExitCapture, ExitKill, ThreadMoves, Goto,
           cpuVars, balanceVars
  <1>3. NothingAdded'
    <2> USE <1>0 DEF NothingAdded, ThreadGoto, TypeOK
    <2>1. ASSUME NEW u \in User, Create(c, u) PROVE NothingAdded'
      BY <2>1 DEF Create
    <2>2. CASE AddLock(c)
      BY <2>2 DEF AddLock
    <2>3. CASE AddPush(c)
      BY <2>3 DEF AddPush
    <2>4. CASE ExitCapture(c)
      BY <2>4 DEF ExitCapture
    <2>5. CASE ExitKill(c)
      BY <2>5 DEF ExitKill
    <2> QED
      BY <2>1, <2>2, <2>3, <2>4, <2>5 DEF ProgramStep
  <1>4. DeadStay
    BY DEF ProgramStep, Create, AddLock, AddPush, ExitCapture, ExitKill, DeadStay, TypeOK
  <1>5. ASSUME NEW t \in Destroyers PROVE Condemned(t)'
    <2>1. t \in Thread /\ t # Main /\ t \notin Exiting /\ Condemned(t)
      BY RolesApart DEF PlaceInv
    <2> USE <1>4, <2>1 DEF ThreadGoto, TypeOK
    <2>2. ASSUME NEW u \in User, Create(c, u) PROVE Condemned(t)'
      BY <2>2, CondemnedKept DEF Create
    <2>3. CASE AddLock(c)
      BY <2>3, CondemnedKept DEF AddLock
    <2>4. CASE AddPush(c)
      BY <2>4, CondemnedKept DEF AddPush
    <2>5. CASE ExitCapture(c)
      BY <2>5, CondemnedKept DEF ExitCapture
    <2>6. CASE ExitKill(c)
      <3>1. CASE t # currentThread[c]
        BY <2>6, <3>1, CondemnedKept DEF ExitKill
      <3>2. CASE t = currentThread[c]
        BY <2>6, <3>2 DEF ExitKill, Condemned
      <3> QED
        BY <3>1, <3>2
    <2> QED
      BY <2>2, <2>3, <2>4, <2>5, <2>6 DEF ProgramStep
  <1> QED
    BY <1>0, <1>1, <1>2, <1>3, <1>5, ThreadHands DEF PlaceInv

LEMMA DestroyerPlaceInv ==
  ASSUME TypeOK, ControlInv, PlaceInv, fault = "none", NEW c \in CPUs, NEW u \in Destroyers,
         DestroyerStep(c, u)
  PROVE  PlaceInv'
  <1>0. /\ EmptyHands /\ NothingAdded /\ Main \in Thread /\ u \in Thread /\ u # Main
        /\ Condemned(u)
    BY RolesApart, ThreadAssumption DEF PlaceInv
  <1>1. ASSUME NEW t \in Ordinary PROVE Placed(t)'
    BY DestroyerPlaced
  <1>a. CASE DestroyerYield(c, u)
    BY <1>a, PreemptPlaceInv DEF DestroyerYield
  <1>b. CASE ~DestroyerYield(c, u)
    <2>1. ThreadMoves(c)
      BY <1>b DEF DestroyerStep, DestroyerStart, DestroyerCheck, PopAssert, PopFront, PopNext,
         PopAdvance, PopSize, PopStore, DestroyerTake, DestroyerLock,
         DestroyerReplace, DestroyThread, ThreadMoves, Executes, Panic, Goto, cpuVars, balanceVars
    <2>2. /\ tpc' = tpc \/ \E l : tpc' = [tpc EXCEPT ![u] = l]
          /\ target' = target \/ \E v : target' = [target EXCEPT ![u] = v]
      BY <1>b DEF DestroyerStep, DestroyerStart, DestroyerCheck, PopAssert, PopFront, PopNext,
         PopAdvance, PopSize, PopStore, DestroyerTake, DestroyerLock,
         DestroyerReplace, DestroyThread, ThreadGoto
    <2>3. NothingAdded'
      BY <1>0, <2>2 DEF NothingAdded, TypeOK
    <2>4. DeadStay
      BY <1>b DEF DestroyerStep, DestroyerStart, DestroyerCheck, PopAssert, PopFront, PopNext,
         PopAdvance, PopSize, PopStore, DestroyerTake, DestroyerLock,
         DestroyerReplace, DestroyThread, DeadStay, TypeOK
    <2>5. ASSUME NEW t \in Destroyers, t # u PROVE Condemned(t)'
      <3>1. t \in Thread /\ Condemned(t)
        BY RolesApart DEF PlaceInv
      <3> QED
        BY <1>0, <2>2, <2>4, <2>5, <3>1, CondemnedKept DEF TypeOK
    <2>6. Condemned(u)'
      <3> USE <1>0, <2>4 DEF ThreadGoto, TypeOK, Condemned, DeadStay
      <3>1. CASE DestroyerStart(c, u)
        BY <3>1 DEF DestroyerStart
      <3>2. CASE \/ DestroyerCheck(c, u) \/ PopAssert(c, u) \/ PopFront(c, u) \/ PopNext(c, u)
               \/ PopAdvance(c, u) \/ PopSize(c, u) \/ PopStore(c, u)
        BY <3>2 DEF DestroyerCheck, PopAssert, PopFront, PopNext, PopAdvance, PopSize, PopStore
      <3>3. CASE DestroyerTake(c, u)
        <4>0. /\ toDestroy \in [CPUs -> Seq(Thread)] /\ tcpu \in [Thread -> CPUs]
              /\ u \in Thread
          BY <1>0, DestroyersType DEF TypeOK
        <4>1. toDestroy[tcpu[u]] \in Seq(Thread)
          BY <4>0
        <4>2. ASSUME slot[u] \in DOMAIN toDestroy[tcpu[u]]
              PROVE  toDestroy[tcpu[u]][slot[u]] \in Thread
          BY <4>1, <4>2, SeqEntry
        <4> QED
          BY <3>3, <4>2 DEF DestroyerTake
      <3>4. CASE DestroyerLock(c, u)
        BY <3>4 DEF DestroyerLock
      <3>5. CASE DestroyerReplace(c, u)
        BY <3>5 DEF DestroyerReplace
      <3>6. CASE DestroyThread(c, u)
        BY <3>6 DEF DestroyThread
      <3> QED
        BY <1>b, <3>1, <3>2, <3>3, <3>4, <3>5, <3>6 DEF DestroyerStep
    <2> QED
      BY <1>0, <1>1, <2>1, <2>3, <2>5, <2>6, ThreadHands DEF PlaceInv
  <1> QED
    BY <1>a, <1>b

-----------------------------------------------------------------------------
(* From the initial states on.                                             *)

ThreadInv == IInv /\ PlaceInv

\* Where init() and start() leave the threads that exist: the destroyers and
\* the main thread are queued, once.
LEMMA InitPlaced ==
  ASSUME Init, NEW t \in Ordinary
  PROVE  Placed(t)
  <1>1. /\ t \in Thread /\ t \notin Idles /\ t # killedThread /\ t # NoThread
        /\ t \in Destroyers \cup {Main} \cup User
    BY ThreadAssumption DEF Ordinary, Idles, Destroyers
  <1>2. 1 \in CPUs
    BY NAssumption DEF CPUs
  <1>3. InHand(t) = {} /\ OnCpu(t) = {} /\ target[Main] # t
    BY <1>1, ThreadAssumption DEF Init, InHand, OnCpu
  <1>4. \A q \in CPUs :
          /\ InSeq(t, threads[q]) <=> destroyer[q] = t \/ (q = 1 /\ Main = t)
          /\ Once(t, threads[q])
    <2> SUFFICES ASSUME NEW q \in CPUs
                 PROVE  /\ InSeq(t, threads[q]) <=> destroyer[q] = t \/ (q = 1 /\ Main = t)
                        /\ Once(t, threads[q])
      OBVIOUS
    <2>1. destroyer[q] # Main
      BY ThreadAssumption
    <2>2. CASE q = 1
      <3>1. threads[q] = <<destroyer[q], Main>>
        BY <2>2 DEF Init
      <3> QED
        BY <2>1, <2>2, <3>1 DEF InSeq, Once
    <2>3. CASE q # 1
      <3>1. threads[q] = <<destroyer[q]>>
        BY <2>3 DEF Init
      <3> QED
        BY <2>3, <3>1 DEF InSeq, Once
    <2> QED
      BY <2>2, <2>3
  <1>5. Single(t)
    BY <1>4 DEF Single
  <1>6. CASE t \in Destroyers
    <2>1. PICK c \in CPUs : t = destroyer[c]
      BY <1>6 DEF Destroyers
    <2>2. Queues(t) = {c}
      BY <1>4, <2>1, ThreadAssumption DEF Queues
    <2>3. state[t] # "Unborn"
      BY <1>1, <2>1, ThreadAssumption DEF Init
    <2> QED
      BY <1>3, <1>5, <2>2, <2>3 DEF Placed, OnePlace
  <1>7. CASE t = Main
    <2>1. Queues(t) = {1}
      BY <1>2, <1>4, <1>7, ThreadAssumption DEF Queues
    <2>2. state[t] # "Unborn"
      BY <1>1, <1>7, ThreadAssumption DEF Init
    <2> QED
      BY <1>2, <1>3, <1>5, <2>1, <2>2 DEF Placed, OnePlace
  <1>8. CASE t \in User
    <2>1. Queues(t) = {}
      BY <1>4, <1>8, ThreadAssumption DEF Queues
    <2>2. state[t] = "Unborn"
      BY <1>1, <1>8 DEF Init
    <2> QED
      BY <1>3, <2>1, <2>2 DEF Placed, NoPlace, Alive
  <1> QED
    BY <1>1, <1>6, <1>7, <1>8

LEMMA InitThreadInv == Init => ThreadInv
  <1> SUFFICES ASSUME Init PROVE ThreadInv
    OBVIOUS
  <1>1. EmptyHands /\ NothingAdded
    BY ThreadAssumption DEF Init, EmptyHands, NothingAdded
  <1>2. ASSUME NEW t \in Destroyers PROVE Condemned(t)
    BY RolesApart DEF Init, Condemned
  <1> QED
    BY <1>1, <1>2, InitPlaced, InitIInv DEF ThreadInv, PlaceInv

LEMMA SamePlaceInv ==
  ASSUME PlaceInv, UNCHANGED vars
  PROVE  PlaceInv'
  BY DEF PlaceInv, vars, queueVars, destroyVars, cpuVars, balanceVars, threadVars, errorVars,
         Placed, Alive, OnePlace, NoPlace, Single, Once, Queues, InSeq, InHand, OnCpu,
         EmptyHands, NothingAdded, Condemned

LEMMA NextThreadInv == ThreadInv /\ [Next]_vars => ThreadInv'
  <1> SUFFICES ASSUME ThreadInv, [Next]_vars PROVE ThreadInv'
    OBVIOUS
  <1>0. TypeOK /\ ControlInv /\ PlaceInv /\ IInv
    BY DEF ThreadInv, IInv
  <1>1. IInv'
    BY <1>0, NextIInv
  <1>2. PlaceInv'
    <2>1. CASE UNCHANGED vars
      BY <1>0, <2>1, SamePlaceInv
    <2>2. CASE Next
      <3>1. PICK c \in CPUs : \/ Tick(c) \/ CpuStep(c) \/ ProgramStep(c)
                              \/ \E u \in Destroyers : DestroyerStep(c, u)
        BY <2>2 DEF Next
      <3>2. fault = "none"
        BY <2>2 DEF Next
      <3> QED
        BY <1>0, <3>1, <3>2, PreemptPlaceInv, CpuPlaceInv, ProgramPlaceInv, DestroyerPlaceInv
           DEF Tick
    <2> QED
      BY <2>1, <2>2
  <1> QED
    BY <1>1, <1>2 DEF ThreadInv

-----------------------------------------------------------------------------
(* The count of NoThreadLost.                                              *)

\* The queue entries of a thread that is in one queue, once, and of one that
\* is in none.
LEMMA EntriesCount ==
  ASSUME TypeOK, NEW t, Single(t)
  PROVE  /\ Queues(t) = {} => InQueue(t) = {}
         /\ \A q \in CPUs : Queues(t) = {q} => \E k : InQueue(t) = {<<q, k>>}
  <1>1. \A q \in CPUs : InSeq(t, threads[q]) <=> q \in Queues(t)
    BY DEF Queues
  <1>2. \A e : e \in InQueue(t) <=>
          \E q \in CPUs : \E k \in DOMAIN threads[q] : threads[q][k] = t /\ e = <<q, k>>
    BY DEF InQueue
  <1>3. ASSUME Queues(t) = {} PROVE InQueue(t) = {}
    BY <1>1, <1>2, <1>3 DEF InSeq
  <1>4. ASSUME NEW q \in CPUs, Queues(t) = {q} PROVE \E k : InQueue(t) = {<<q, k>>}
    <2>1. PICK k \in DOMAIN threads[q] : threads[q][k] = t
      BY <1>1, <1>4 DEF InSeq
    <2>2. \A j \in DOMAIN threads[q] : threads[q][j] = t => j = k
      BY <2>1 DEF Single, Once
    <2>3. \A r \in CPUs : r # q => \A j \in DOMAIN threads[r] : threads[r][j] # t
      BY <1>1, <1>4 DEF InSeq
    <2>4. \A e : e \in InQueue(t) <=> e = <<q, k>>
      BY <1>2, <2>1, <2>2, <2>3
    <2>5. InQueue(t) = {<<q, k>>}
      BY <2>4
    <2> QED
      BY <2>5
  <1> QED
    BY <1>3, <1>4

LEMMA OnePlaceCounts ==
  ASSUME TypeOK, NEW t \in Ordinary, OnePlace(t)
  PROVE  Cardinality(InQueue(t)) + Cardinality(InHand(t))
           + Cardinality(OnCpu(t)) + Cardinality(BeingAdded(t)) = 1
  <1>1. /\ Queues(t) = {} => InQueue(t) = {}
        /\ \A q \in CPUs : Queues(t) = {q} => \E k : InQueue(t) = {<<q, k>>}
    BY EntriesCount DEF OnePlace
  <1>2. /\ target[Main] = t => BeingAdded(t) = {Main}
        /\ target[Main] # t => BeingAdded(t) = {}
    BY DEF BeingAdded
  <1>3. Cardinality({}) = 0 /\ \A x : Cardinality({x}) = 1
    BY FS_EmptySet, FS_Singleton
  <1>4. \/ (\E x : InQueue(t) = {x}) /\ InHand(t) = {} /\ OnCpu(t) = {} /\ BeingAdded(t) = {}
        \/ (\E x : InHand(t) = {x}) /\ InQueue(t) = {} /\ OnCpu(t) = {} /\ BeingAdded(t) = {}
        \/ (\E x : OnCpu(t) = {x}) /\ InQueue(t) = {} /\ InHand(t) = {} /\ BeingAdded(t) = {}
        \/ (\E x : BeingAdded(t) = {x}) /\ InQueue(t) = {} /\ InHand(t) = {} /\ OnCpu(t) = {}
    BY <1>1, <1>2 DEF OnePlace
  <1> DEFINE n1 == Cardinality(InQueue(t))
             n2 == Cardinality(InHand(t))
             n3 == Cardinality(OnCpu(t))
             n4 == Cardinality(BeingAdded(t))
  <1>5. \/ n1 = 1 /\ n2 = 0 /\ n3 = 0 /\ n4 = 0
        \/ n1 = 0 /\ n2 = 1 /\ n3 = 0 /\ n4 = 0
        \/ n1 = 0 /\ n2 = 0 /\ n3 = 1 /\ n4 = 0
        \/ n1 = 0 /\ n2 = 0 /\ n3 = 0 /\ n4 = 1
    BY <1>3, <1>4, Zenon
  <1>6. n1 + n2 + n3 + n4 = 1
    <2> HIDE DEF n1, n2, n3, n4
    <2> QED
      BY <1>5
  <1> QED
    BY <1>6

\* Ticks, stealing, balancing, creation and exit neither lose nor duplicate
\* a thread, on any number of CPUs: each push() puts in a queue a thread the
\* CPU or the creator alone had, and each pop() hands it to one CPU, under
\* the lock of the queue; only replaceAll(), for killed threads, removes one.
THEOREM ThreadsKept == Spec => []NoThreadLost
  <1>1. ThreadInv => NoThreadLost
    <2> SUFFICES ASSUME ThreadInv, NEW t \in Ordinary,
                        state[t] \in {"Stopped", "Running"}, tpc[t] # "exited"
                 PROVE  Cardinality(InQueue(t)) + Cardinality(InHand(t))
                          + Cardinality(OnCpu(t)) + Cardinality(BeingAdded(t)) = 1
      BY DEF NoThreadLost
    <2>1. OnePlace(t)
      BY DEF ThreadInv, PlaceInv, Placed, Alive
    <2> QED
      BY <2>1, OnePlaceCounts DEF ThreadInv, IInv
  <1>2. Spec => []ThreadInv
    BY InitThreadInv, NextThreadInv, PTL DEF Spec
  <1> QED
    BY <1>1, <1>2, PTL

-----------------------------------------------------------------------------
(***************************************************************************)
(* On one CPU: no assert of the scheduler fails, no freed thread is read   *)
(* and none can be reached.                                                *)
(***************************************************************************)

\* The destroyer holds a thread it has popped.
Holding(d) == tpc[d] \in {"destroyLock", "replace", "destroy"}

\* It is inside pop(): before it stores lastRead, and after.
Reading(d) == tpc[d] \in {"front", "slot", "next", "advance"}
Advanced(d) == tpc[d] \in {"size", "store", "take"}

(***************************************************************************)
(* The inductive invariant on one CPU, beyond ThreadInv.                   *)
(***************************************************************************)

\* The queue holds stopped threads, each once, and the thread in hand is a
\* stopped one that has left it.
StoppedUp ==
  /\ \A t \in Thread : Once(t, threads[1]) /\ (InSeq(t, threads[1]) => state[t] = "Stopped")
  /\ hand[1] # NoThread => state[hand[1]] = "Stopped" /\ ~InSeq(hand[1], threads[1])
  /\ pc[1] = "scan" => threads[1] = << >>

\* Only the thread the CPU executes is running.  A thread about to be queued
\* is not queued yet, and one that is exiting was killed.
RunningUp ==
  /\ pc[1] = "thread" => state[currentThread[1]] = "Running"
  /\ pc[1] # "thread" => state[currentThread[1]] \in {"Stopped", "Killed"}
  /\ pc[1] = "enqueue" => /\ state[currentThread[1]] = "Stopped"
                          /\ ~InSeq(currentThread[1], threads[1])
  /\ pc[1] \in {"exitPush", "exitStore"} => state[currentThread[1]] = "Killed"
  /\ \A t \in Thread : state[t] = "Running" => pc[1] = "thread" /\ t = currentThread[1]

\* The first entry of the list the destroyer has not taken.
First == IF Advanced(destroyer[1]) THEN lastRead[1] - 1 ELSE lastRead[1]

\* What waits for the destroyer, and what it holds, are killed threads, each
\* pushed once.
KilledUp ==
  /\ \A t \in Thread : /\ Once(t, toDestroy[1])
                       /\ InSeq(t, toDestroy[1]) => state[t] \in {"Killed", "Freed"}
  /\ \A k \in 1..Len(toDestroy[1]) : k >= First => state[toDestroy[1][k]] = "Killed"
  /\ Holding(destroyer[1]) =>
       /\ target[destroyer[1]] \in Thread
       /\ state[target[destroyer[1]]] = "Killed"
       /\ \A k \in 1..Len(toDestroy[1]) :
            k >= lastRead[1] => toDestroy[1][k] # target[destroyer[1]]
  /\ pc[1] = "exitPush" =>
       /\ ~InSeq(currentThread[1], toDestroy[1])
       /\ Holding(destroyer[1]) => target[destroyer[1]] # currentThread[1]

\* The entries that are left, and the one pop() has passed but not counted.
Left == Len(toDestroy[1]) - lastRead[1] + 1
Unseen == IF tpc[destroyer[1]] \in {"size", "store"} THEN 1 ELSE 0

\* The race of pop() with exit() on _size loses counts, never entries: the
\* size is at most the number of entries left, and inside pop() not zero.
SizeUp ==
  /\ 0 <= toDestroySize[1] /\ toDestroySize[1] <= Left + Unseen
  /\ Reading(destroyer[1]) \/ tpc[destroyer[1]] = "size" => toDestroySize[1] >= 1
  /\ pc[1] = "exitStore" => reg[1] = toDestroySize[1] /\ reg[1] + 1 <= Left + Unseen
  /\ tpc[destroyer[1]] = "store" => treg[destroyer[1]] >= 1 /\ treg[destroyer[1]] <= Left + 1
  /\ lastRead[1] >= 1
  /\ tpc[destroyer[1]] = "next" => slot[destroyer[1]] = lastRead[1]
  /\ tpc[destroyer[1]] = "advance" => /\ slot[destroyer[1]] = lastRead[1]
                                      /\ treg[destroyer[1]] = lastRead[1] + 1
  /\ Advanced(destroyer[1]) => /\ slot[destroyer[1]] = lastRead[1] - 1
                               /\ slot[destroyer[1]] \in 1..Len(toDestroy[1])

\* The idle thread lives for ever, programs exit when they may, and the
\* thread addThread() is about to queue has no other place.
ProgramUp ==
  /\ state[idle[1]] \in {"Stopped", "Running"}
  /\ \A t \in Thread : tpc[t] = "exiting" => t \in Exiting
  /\ tpc[Main] \in {"addLock", "addPush"} =>
       /\ target[Main] \in User
       /\ state[target[Main]] = "Stopped"
       /\ ~InSeq(target[Main], threads[1])
       /\ target[Main] # hand[1] /\ target[Main] # currentThread[1]

NoError == failed = {} /\ fault = "none" /\ pc[1] # "panic"

UpInv == NoError /\ StoppedUp /\ RunningUp /\ KilledUp /\ SizeUp /\ ProgramUp

-----------------------------------------------------------------------------
(* The steps of the scheduler.                                             *)

LEMMA OneCpu ==
  ASSUME N = 1
  PROVE  CPUs = {1} /\ Destroyers = {destroyer[1]}
  <1>1. CPUs = {1}
    BY DEF CPUs
  <1> QED
    BY <1>1 DEF Destroyers

LEMMA RolesUp ==
  ASSUME N = 1
  PROVE  /\ destroyer[1] \in Thread /\ Main \in Thread /\ idle[1] \in Thread
         /\ User \subseteq Thread /\ Main \notin User /\ NoThread \notin Thread
         /\ destroyer[1] # Main /\ destroyer[1] \notin User /\ destroyer[1] \notin Exiting
         /\ idle[1] # Main /\ idle[1] # destroyer[1] /\ idle[1] \notin User
         /\ idle[1] \notin Exiting /\ idle[1] # killedThread
  BY OneCpu, ThreadAssumption DEF Destroyers

\* The scheduler between two switches, where it changes no thread's state.
InnerPc == {"switch", "lock", "pop", "scan", "steal", "found", "sort", "lock1", "lock2",
            "move", "to"}

LEMMA QuietUp ==
  ASSUME UpInv, pc[1] \in InnerPc, pc'[1] \in InnerPc, hand'[1] = hand[1],
         pc'[1] = "scan" => threads[1] = << >>,
         UNCHANGED <<threads, toDestroy, lastRead, toDestroySize, currentThread, threadVars, errorVars,
                     state>>
  PROVE  UpInv'
  <1> USE DEF InnerPc, threadVars, errorVars, InSeq, Once
  <1>1. NoError' /\ StoppedUp' /\ RunningUp'
    BY DEF UpInv, NoError, StoppedUp, RunningUp
  <1>2. KilledUp' /\ SizeUp' /\ ProgramUp'
    BY DEF UpInv, KilledUp, SizeUp, ProgramUp, Holding, Unseen, Left, First, Reading, Advanced
  <1> QED
    BY <1>1, <1>2 DEF UpInv

\* The thread of the CPU goes to the end of the queue.
LEMMA EnqueueUp ==
  ASSUME N = 1, TypeOK, EmptyHands, UpInv, Enqueue(1)
  PROVE  UpInv'
  <1> DEFINE Q == threads[1]
             C == currentThread[1]
  <1>1. /\ 1 \in CPUs /\ Q \in Seq(Thread) /\ C \in Thread
        /\ pc[1] = "enqueue" /\ pc'[1] = "switch" /\ threads'[1] = Append(Q, C)
        /\ hand[1] = NoThread
    BY OneCpu DEF TypeOK, Enqueue, Goto, EmptyHands, HasHand
  <1>2. UNCHANGED <<toDestroy, lastRead, toDestroySize, currentThread, hand, tpc, target, slot, treg,
                    failed, fault, state>>
    BY DEF Enqueue, destroyVars, threadVars, errorVars
  <1>3. state[C] = "Stopped" /\ ~InSeq(C, Q)
    BY <1>1 DEF UpInv, RunningUp
  <1>4. ASSUME NEW t
        PROVE  /\ InSeq(t, threads'[1]) <=> InSeq(t, Q) \/ C = t
               /\ Once(t, Q) => Once(t, threads'[1])
    BY <1>1, <1>3, AppendOccurs
  <1>5. NoError' /\ StoppedUp' /\ RunningUp'
    BY <1>1, <1>2, <1>3, <1>4 DEF UpInv, NoError, StoppedUp, RunningUp
  <1>6. KilledUp' /\ SizeUp' /\ ProgramUp'
    BY <1>1, <1>2, <1>3, <1>4 DEF UpInv, KilledUp, SizeUp, ProgramUp, Holding, Unseen, Left, First, Reading, Advanced
  <1> QED
    BY <1>5, <1>6 DEF UpInv

\* The head of the queue, a stopped thread, is taken.
LEMMA PopUp ==
  ASSUME N = 1, TypeOK, UpInv, PopOwn(1)
  PROVE  UpInv'
  <1> DEFINE Q == threads[1]
             h == Head(Q)
  <1>1. /\ 1 \in CPUs /\ Q \in Seq(Thread) /\ Q # << >> /\ h \in Thread /\ pc[1] = "pop"
    BY OneCpu, HeadTail DEF TypeOK, PopOwn, PopTurn
  <1>2. UNCHANGED <<toDestroy, lastRead, toDestroySize, currentThread, reg, tpc, target, slot, treg,
                    failed, state>>
    BY DEF PopOwn, destroyVars, threadVars
  <1>3. ASSUME NEW t
        PROVE  /\ InSeq(t, Q) <=> h = t \/ InSeq(t, Tail(Q))
               /\ Once(t, Q) => Once(t, Tail(Q)) /\ ~(h = t /\ InSeq(t, Tail(Q)))
    BY <1>1, TailOccurs
  <1>4. state[h] = "Stopped" /\ ~InSeq(h, Tail(Q))
    BY <1>1, <1>3 DEF UpInv, StoppedUp
  <1>5. /\ threads'[1] = Tail(Q) /\ hand'[1] = h /\ fault' = fault /\ pc'[1] = "found"
    <2>1. h # NoThread
      BY <1>1, ThreadAssumption
    <2> QED
      BY <1>1, <1>4, <2>1 DEF TypeOK, PopOwn, PopTurn, Goto
  <1>6. NoError' /\ StoppedUp' /\ RunningUp'
    BY <1>1, <1>2, <1>3, <1>4, <1>5 DEF UpInv, NoError, StoppedUp, RunningUp
  <1>7. KilledUp' /\ SizeUp' /\ ProgramUp'
    BY <1>1, <1>2, <1>3, <1>4, <1>5 DEF UpInv, KilledUp, SizeUp, ProgramUp, Holding, Unseen, Left, First, Reading, Advanced
  <1> QED
    BY <1>6, <1>7 DEF UpInv

\* The queue is empty: the idle thread, which no exit() can kill, is next.
LEMMA GoIdleUp ==
  ASSUME N = 1, TypeOK, ControlInv, UpInv, GoIdle(1)
  PROVE  UpInv'
  <1>1. /\ 1 \in CPUs /\ pc[1] \in {"pop", "scan"} /\ pc'[1] = "to" /\ hand'[1] = idle[1]
    BY OneCpu DEF TypeOK, GoIdle, Goto
  <1>2. UNCHANGED <<threads, toDestroy, lastRead, toDestroySize, currentThread, reg, tpc, target, slot, treg,
                    failed, fault, state>>
    BY DEF GoIdle, destroyVars, threadVars, errorVars
  <1>3. state[idle[1]] = "Stopped"
    BY <1>1, RolesUp DEF UpInv, ProgramUp, RunningUp
  <1>4. threads[1] = << >> /\ ~InSeq(idle[1], threads[1])
    BY <1>1 DEF GoIdle, UpInv, StoppedUp, InSeq
  <1>5. NoError' /\ StoppedUp' /\ RunningUp'
    BY <1>1, <1>2, <1>3, <1>4 DEF UpInv, NoError, StoppedUp, RunningUp
  <1>6. KilledUp' /\ SizeUp' /\ ProgramUp'
    BY <1>1, <1>2, <1>3, RolesUp DEF UpInv, KilledUp, SizeUp, ProgramUp, Holding, Unseen, Left, First, Reading, Advanced
  <1> QED
    BY <1>5, <1>6 DEF UpInv

\* switchTo(): the thread in hand runs, and no other does.
LEMMA SwitchUp ==
  ASSUME N = 1, TypeOK, ControlInv, UpInv, SwitchTo(1)
  PROVE  UpInv'
  <1>1. 1 \in CPUs /\ pc[1] = "to" /\ hand[1] \in Thread /\ hand[1] # NoThread
    BY OneCpu, ThreadAssumption DEF TypeOK, SwitchTo, ControlInv, LocalInv, HasHand
  <1>2. UNCHANGED <<threads, toDestroy, lastRead, toDestroySize, reg, tpc, target, slot, treg>>
    BY DEF SwitchTo, queueVars, destroyVars, threadVars
  <1>3. state[hand[1]] = "Stopped" /\ ~InSeq(hand[1], threads[1])
    BY <1>1 DEF UpInv, StoppedUp
  <1>4. /\ state' = [state EXCEPT ![hand[1]] = "Running"]
        /\ currentThread'[1] = hand[1] /\ hand'[1] = NoThread
        /\ pc'[1] = "thread" /\ failed' = failed /\ fault' = fault
    BY OneCpu, <1>1, <1>3 DEF TypeOK, SwitchTo, Goto
  <1>5. /\ state'[hand[1]] = "Running"
        /\ \A t \in Thread : t # hand[1] => state'[t] = state[t]
    BY <1>1, <1>4 DEF TypeOK
  <1>6. NoError' /\ StoppedUp'
    BY <1>1, <1>2, <1>3, <1>4, <1>5 DEF UpInv, NoError, StoppedUp
  <1>7. RunningUp'
    BY <1>1, <1>4, <1>5 DEF UpInv, RunningUp
  <1>8. KilledUp' /\ SizeUp'
    BY <1>1, <1>2, <1>3, <1>4, <1>5 DEF UpInv, KilledUp, SizeUp, Holding, Unseen, Left, First, Reading, Advanced
  <1>9. ProgramUp'
    BY <1>1, <1>2, <1>3, <1>4, <1>5, RolesUp DEF UpInv, ProgramUp
  <1> QED
    BY <1>6, <1>7, <1>8, <1>9 DEF UpInv

\* The exiting thread, which is in no list, waits for the destroyer.
LEMMA ExitPushUp ==
  ASSUME N = 1, TypeOK, UpInv, ExitPush(1)
  PROVE  UpInv'
  <1> DEFINE D == toDestroy[1]
             C == currentThread[1]
  <1>1. /\ 1 \in CPUs /\ D \in Seq(Thread) /\ C \in Thread /\ tcpu[C] = 1
        /\ pc[1] = "exitPush" /\ pc'[1] = "exitStore"
    BY OneCpu DEF TypeOK, ExitPush, Goto
  <1>2. /\ toDestroy'[1] = Append(D, C) /\ reg'[1] = toDestroySize[1]
        /\ Len(Append(D, C)) = Len(D) + 1
    BY <1>1 DEF TypeOK, ExitPush
  <1>3. UNCHANGED <<threads, lastRead, toDestroySize, currentThread, hand, tpc, target, slot, treg,
                    failed, fault, state>>
    BY DEF ExitPush, queueVars, threadVars, errorVars
  <1>4. /\ state[C] = "Killed" /\ ~InSeq(C, D)
        /\ Holding(destroyer[1]) => target[destroyer[1]] # C
    BY <1>1 DEF UpInv, RunningUp, KilledUp
  <1>5. ASSUME NEW t
        PROVE  /\ InSeq(t, toDestroy'[1]) <=> InSeq(t, D) \/ C = t
               /\ Once(t, D) => Once(t, toDestroy'[1])
    BY <1>1, <1>2, <1>4, AppendOccurs
  <1>6. NoError' /\ StoppedUp' /\ RunningUp' /\ ProgramUp'
    BY <1>1, <1>3 DEF UpInv, NoError, StoppedUp, RunningUp, ProgramUp
  <1>7. KilledUp'
    <2>1. ASSUME NEW k \in 1..Len(toDestroy'[1]), k >= First
          PROVE  state[toDestroy'[1][k]] = "Killed"
      <3>1. CASE k = Len(D) + 1
        BY <1>1, <1>2, <1>4, <3>1
      <3>2. CASE k # Len(D) + 1
        <4>1. k \in 1..Len(D) /\ toDestroy'[1][k] = D[k]
          BY <1>1, <1>2, <2>1, <3>2
        <4> QED
          BY <2>1, <4>1 DEF UpInv, KilledUp
      <3> QED
        BY <3>1, <3>2
    <2>2. ASSUME Holding(destroyer[1]), NEW k \in 1..Len(toDestroy'[1]), k >= lastRead[1]
          PROVE  toDestroy'[1][k] # target[destroyer[1]]
      <3>1. CASE k = Len(D) + 1
        BY <1>1, <1>2, <1>4, <2>2, <3>1
      <3>2. CASE k # Len(D) + 1
        <4>1. k \in 1..Len(D) /\ toDestroy'[1][k] = D[k]
          BY <1>1, <1>2, <2>2, <3>2
        <4> QED
          BY <2>2, <4>1 DEF UpInv, KilledUp
      <3> QED
        BY <3>1, <3>2
    <2>3. First' = First /\ (Holding(destroyer[1])' <=> Holding(destroyer[1]))
      BY <1>3 DEF First, Advanced, Holding
    <2>4. ASSUME NEW t \in Thread
          PROVE  /\ Once(t, toDestroy'[1])
                 /\ InSeq(t, toDestroy'[1]) => state[t] \in {"Killed", "Freed"}
      <3>1. /\ Once(t, D)
            /\ InSeq(t, D) => state[t] \in {"Killed", "Freed"}
        BY DEF UpInv, KilledUp
      <3>2. /\ InSeq(t, toDestroy'[1]) <=> InSeq(t, D) \/ C = t
            /\ Once(t, D) => Once(t, toDestroy'[1])
        BY <1>5
      <3> HIDE DEF D, C
      <3> QED
        BY <1>4, <3>1, <3>2
    <2>5. Holding(destroyer[1]) => /\ target[destroyer[1]] \in Thread
                                   /\ state[target[destroyer[1]]] = "Killed"
      BY DEF UpInv, KilledUp
    <2> QED
      BY <1>1, <1>3, <2>1, <2>2, <2>3, <2>4, <2>5 DEF KilledUp
  <1>8. SizeUp'
    <2>1. /\ toDestroySize[1] \in Int /\ lastRead[1] \in Nat /\ Len(D) \in Nat
          /\ slot[destroyer[1]] \in Nat
      <3>1. toDestroySize[1] \in Int /\ lastRead[1] \in Nat /\ slot[destroyer[1]] \in Nat
        BY <1>1, RolesUp DEF TypeOK
      <3>2. Len(D) \in Nat
        BY <1>1
      <3> QED
        BY <3>1, <3>2
    <2>2. treg[destroyer[1]] \in Int
      BY RolesUp DEF TypeOK
    <2>3. Len(toDestroy'[1]) = Len(D) + 1 /\ Unseen' = Unseen /\ Unseen \in Nat
      BY <1>2, <1>3 DEF Unseen
    <2> QED
      <3>1. SizeUp
        BY DEF UpInv
      <3>2. Left' = Left + 1 /\ Left \in Int
        <4>1. Left = Len(D) - lastRead[1] + 1 /\ Left' = Len(toDestroy'[1]) - lastRead[1] + 1
          BY <1>3 DEF Left
        <4>2. Len(toDestroy'[1]) = Len(D) + 1 /\ Len(D) \in Nat /\ lastRead[1] \in Nat
          BY <2>1, <2>3
        <4> DEFINE n == Len(D)
                   m == Len(toDestroy'[1])
                   k == lastRead[1]
        <4>3. m = n + 1 /\ n \in Nat /\ k \in Nat /\ Left = n - k + 1 /\ Left' = m - k + 1
          BY <4>1, <4>2
        <4> HIDE DEF n, m, k
        <4> QED
          BY <4>3
      <3>3. /\ Reading(destroyer[1])' <=> Reading(destroyer[1])
            /\ Advanced(destroyer[1])' <=> Advanced(destroyer[1])
        BY <1>3 DEF Reading, Advanced
      <3>4. slot[destroyer[1]] \in 1..Len(D) => slot[destroyer[1]] \in 1..Len(toDestroy'[1])
        BY <2>1, <2>3
      <3> QED
        BY <1>1, <1>2, <1>3, <2>1, <2>2, <2>3, <3>1, <3>2, <3>3, <3>4 DEF SizeUp
  <1> QED
    BY <1>6, <1>7, <1>8 DEF UpInv

LEMMA ExitStoreUp ==
  ASSUME N = 1, TypeOK, UpInv, ExitStore(1)
  PROVE  UpInv'
  <1>1. /\ 1 \in CPUs /\ currentThread[1] \in Thread /\ tcpu[currentThread[1]] = 1
        /\ pc[1] = "exitStore" /\ pc'[1] = "switch"
    BY OneCpu DEF TypeOK, ExitStore, Goto
  <1>2. toDestroySize'[1] = reg[1] + 1
    BY <1>1 DEF TypeOK, ExitStore
  <1>3. UNCHANGED <<threads, toDestroy, lastRead, currentThread, hand, tpc, target, slot, treg,
                    failed, fault, state>>
    BY DEF ExitStore, queueVars, threadVars, errorVars
  <1>4. NoError' /\ StoppedUp' /\ RunningUp' /\ KilledUp' /\ ProgramUp'
    BY <1>1, <1>3 DEF UpInv, NoError, StoppedUp, RunningUp, KilledUp, ProgramUp, Holding,
                      First, Advanced
  <1>5. SizeUp'
    <2>1. toDestroySize[1] \in Int
      BY <1>1 DEF TypeOK
    <2> QED
      BY <1>1, <1>2, <1>3, <2>1 DEF UpInv, SizeUp, Unseen, Left, Reading, Advanced
  <1> QED
    BY <1>4, <1>5 DEF UpInv

LEMMA CpuUp ==
  ASSUME N = 1, TypeOK, ControlInv, EmptyHands, UpInv, CpuStep(1)
  PROVE  UpInv'
  <1>0. 1 \in CPUs
    BY OneCpu
  <1>a. ASSUME pc[1] \in InnerPc, pc'[1] \in InnerPc, hand'[1] = hand[1],
               pc'[1] = "scan" => threads[1] = << >>, state' = state,
               threads' = threads, toDestroy' = toDestroy, lastRead' = lastRead,
               toDestroySize' = toDestroySize,
               currentThread' = currentThread, UNCHANGED threadVars, UNCHANGED errorVars
        PROVE  UpInv'
    BY <1>a, QuietUp
  <1> USE <1>0 DEF Goto, TypeOK, InnerPc, queueVars, destroyVars
  <1>1. CASE Enqueue(1)
    BY <1>1, EnqueueUp
  <1>2. CASE SwitchNext(1)
    <2>1. state' = state
      BY <1>2 DEF SwitchNext, UpInv, RunningUp
    <2> QED
      BY <1>a, <1>2, <2>1 DEF SwitchNext
  <1>3. CASE LockOwn(1)
    BY <1>a, <1>3 DEF LockOwn
  <1>4. CASE PopOwn(1)
    BY <1>4, PopUp
  <1>5. CASE GoIdle(1)
    BY <1>5, GoIdleUp
  <1>6. CASE Scan(1)
    <2>1. pc' = pc
      BY <1>6, OneCpu DEF Scan
    <2>2. pc[1] = "scan" /\ threads[1] = << >>
      BY <1>6 DEF Scan, UpInv, StoppedUp
    <2> QED
      BY <1>a, <1>6, <2>1, <2>2 DEF Scan
  <1>7. CASE Steal(1) \/ StealNothing(1)
    BY <1>7, OneCpu DEF Steal, StealNothing, ControlInv, LocalInv
  <1>8. CASE StartBalance(1)
    BY <1>a, <1>8 DEF StartBalance
  <1>9. CASE SkipBalance(1)
    BY <1>a, <1>9 DEF SkipBalance
  <1>10. CASE SwitchTo(1)
    BY <1>10, SwitchUp
  <1>11. CASE SortInsert(1)
    BY <1>a, <1>11 DEF SortInsert
  <1>12. CASE LockFirst(1) \/ LockSecond(1) \/ MoveOne(1) \/ UnlockPair(1)
    <2>1. idx[1] <= N \div 2
      BY <1>12 DEF LockFirst, LockSecond, MoveOne, UnlockPair, ControlInv, LocalInv
    <2>2. N \div 2 = 0
      OBVIOUS
    <2>3. idx[1] \in Nat /\ idx[1] >= 1
      BY IdxType
    <2> QED
      BY <2>1, <2>2, <2>3
  <1>13. CASE EndBalance(1)
    BY <1>a, <1>13 DEF EndBalance
  <1>14. CASE ExitPush(1)
    BY <1>14, ExitPushUp
  <1>15. CASE ExitStore(1)
    BY <1>15, ExitStoreUp
  <1> QED
    BY <1>1, <1>2, <1>3, <1>4, <1>5, <1>6, <1>7, <1>8, <1>9, <1>10, <1>11, <1>12, <1>13,
       <1>14, <1>15 DEF CpuStep

-----------------------------------------------------------------------------
(* The steps of threads.                                                   *)

\* A tick or a yield finds the thread of the CPU running.
LEMMA PreemptUp ==
  ASSUME N = 1, TypeOK, EmptyHands, UpInv, Preempt(1)
  PROVE  UpInv'
  <1> DEFINE C == currentThread[1]
  <1>1. 1 \in CPUs /\ C \in Thread /\ pc[1] = "thread" /\ hand[1] = NoThread
    BY OneCpu DEF TypeOK, Preempt, EmptyHands, HasHand
  <1>2. state[C] = "Running"
    BY <1>1 DEF UpInv, RunningUp
  <1>3. /\ state' = [state EXCEPT ![C] = "Stopped"] /\ pc'[1] = "enqueue" /\ failed' = failed
    BY <1>1, <1>2 DEF TypeOK, Preempt, Goto
  <1>4. UNCHANGED <<threads, toDestroy, lastRead, toDestroySize, currentThread, hand, reg, tpc, target, slot,
                    treg, fault>>
    BY DEF Preempt, queueVars, destroyVars, threadVars
  <1>5. state'[C] = "Stopped" /\ \A t \in Thread : t # C => state'[t] = state[t]
    BY <1>1, <1>3 DEF TypeOK
  <1>6. ~InSeq(C, threads[1])
    BY <1>1, <1>2 DEF UpInv, StoppedUp
  <1>7. NoError' /\ StoppedUp' /\ RunningUp'
    BY <1>1, <1>2, <1>3, <1>4, <1>5, <1>6 DEF UpInv, NoError, StoppedUp, RunningUp
  <1>8. KilledUp' /\ SizeUp'
    BY <1>1, <1>2, <1>3, <1>4, <1>5 DEF UpInv, KilledUp, SizeUp, Holding, Unseen, Left, First, Reading, Advanced
  <1>9. ProgramUp'
    BY <1>1, <1>2, <1>3, <1>4, <1>5, RolesUp DEF UpInv, ProgramUp
  <1> QED
    BY <1>7, <1>8, <1>9 DEF UpInv

\* A thread's step that changes only where it is in its code.
LEMMA ThreadQuietUp ==
  ASSUME N = 1, TypeOK, UpInv, NEW t \in Thread, NEW l, ThreadGoto(t, l),
         l \in {"addPush"} => tpc[t] = "addLock",
         UNCHANGED <<threads, destroyVars, cpuVars, target, slot, treg, errorVars, state>>,
         ~Reading(t), ~Advanced(t),
         l \notin {"addLock", "front", "slot", "next", "advance", "size", "store", "take"},
         l = "exiting" => t \in Exiting,
         l \in {"destroyLock", "replace", "destroy"} => tpc[t] \in {"destroyLock", "replace"}
  PROVE  UpInv'
  <1> USE DEF destroyVars, cpuVars, errorVars
  <1>1. \A u \in Thread : tpc'[u] = IF u = t THEN l ELSE tpc[u]
    BY DEF ThreadGoto, TypeOK
  <1>2. NoError' /\ StoppedUp' /\ RunningUp'
    BY DEF UpInv, NoError, StoppedUp, RunningUp
  <1>3. /\ Holding(destroyer[1])' => Holding(destroyer[1])
        /\ Reading(destroyer[1])' <=> Reading(destroyer[1])
        /\ Advanced(destroyer[1])' <=> Advanced(destroyer[1])
        /\ \A x \in {"next", "advance", "size", "store"} :
             tpc'[destroyer[1]] = x <=> tpc[destroyer[1]] = x
    BY <1>1, RolesUp DEF Holding, Reading, Advanced
  <1>4. KilledUp' /\ SizeUp'
    BY <1>3 DEF UpInv, KilledUp, SizeUp, First, Left, Unseen
  <1>5. ProgramUp'
    BY <1>1, RolesUp DEF UpInv, ProgramUp
  <1> QED
    BY <1>2, <1>4, <1>5 DEF UpInv

\* createThread(): the new thread is nowhere yet.
LEMMA CreateUp ==
  ASSUME N = 1, TypeOK, EmptyHands, UpInv, NEW u \in User, Create(1, u)
  PROVE  UpInv'
  <1>1. /\ 1 \in CPUs /\ u \in Thread /\ u # Main /\ u # NoThread /\ Main \in Thread
        /\ pc[1] = "thread" /\ currentThread[1] = Main /\ hand[1] = NoThread
        /\ state[u] = "Unborn"
    BY OneCpu, RolesUp DEF Create, Executes, EmptyHands, HasHand
  <1>2. UNCHANGED <<threads, toDestroy, lastRead, toDestroySize, currentThread, pc, hand, reg, slot, treg,
                    failed, fault>>
    BY DEF Create, queueVars, destroyVars, cpuVars, errorVars
  <1>3. /\ state'[u] = "Stopped" /\ \A t \in Thread : t # u => state'[t] = state[t]
        /\ tpc'[Main] = "addLock" /\ \A t \in Thread : t # Main => tpc'[t] = tpc[t]
        /\ target'[Main] = u /\ \A t \in Thread : t # Main => target'[t] = target[t]
    BY <1>1 DEF TypeOK, Create, ThreadGoto
  <1>4. ~InSeq(u, threads[1]) /\ ~InSeq(u, toDestroy[1])
    <2>1. InSeq(u, threads[1]) => state[u] = "Stopped"
      BY <1>1 DEF UpInv, StoppedUp
    <2>2. InSeq(u, toDestroy[1]) => state[u] \in {"Killed", "Freed"}
      BY <1>1 DEF UpInv, KilledUp
    <2> QED
      BY <1>1, <2>1, <2>2
  <1>5. NoError' /\ StoppedUp' /\ RunningUp'
    BY <1>1, <1>2, <1>3 DEF UpInv, NoError, StoppedUp, RunningUp
  <1>6. SizeUp'
    BY <1>1, <1>2, <1>3, RolesUp DEF UpInv, SizeUp, Unseen, Left, First, Reading, Advanced
  <1>7. KilledUp'
    <2>1. /\ Holding(destroyer[1])' <=> Holding(destroyer[1])
          /\ target'[destroyer[1]] = target[destroyer[1]]
      BY <1>3, RolesUp DEF Holding
    <2>2. \A t \in Thread : state[t] \in {"Killed", "Freed"} => state'[t] = state[t]
      BY <1>1, <1>3
    <2>3. First' = First
      BY <1>2, <1>3, RolesUp DEF First, Advanced
    <2>4. \A k \in 1..Len(toDestroy[1]) : toDestroy[1][k] \in Thread
      <3>1. toDestroy[1] \in Seq(Thread)
        BY <1>1 DEF TypeOK
      <3> QED
        BY <3>1
    <2> QED
      BY <1>1, <1>2, <2>1, <2>2, <2>3, <2>4 DEF UpInv, KilledUp
  <1>8. ProgramUp'
    BY <1>1, <1>2, <1>3, <1>4, RolesUp DEF UpInv, ProgramUp
  <1> QED
    BY <1>5, <1>6, <1>7, <1>8 DEF UpInv

\* addThread() queues a thread that has no other place.
LEMMA AddPushUp ==
  ASSUME N = 1, TypeOK, EmptyHands, UpInv, AddPush(1)
  PROVE  UpInv'
  <1> DEFINE Q == threads[1]
             x == target[Main]
  <1>1. /\ 1 \in CPUs /\ Main \in Thread /\ tcpu[Main] = 1 /\ tpc[Main] = "addPush"
        /\ pc[1] = "thread" /\ hand[1] = NoThread /\ Q \in Seq(Thread)
    BY OneCpu, RolesUp DEF TypeOK, AddPush, Executes, EmptyHands, HasHand
  <1>2. x \in User /\ x \in Thread /\ state[x] = "Stopped" /\ ~InSeq(x, Q)
    BY <1>1, RolesUp DEF UpInv, ProgramUp
  <1>3. UNCHANGED <<toDestroy, lastRead, toDestroySize, currentThread, pc, hand, reg, slot, treg, failed, fault,
                    state>>
    BY DEF AddPush, destroyVars, cpuVars, errorVars
  <1>4. /\ threads'[1] = Append(Q, x)
        /\ tpc'[Main] = "run" /\ \A t \in Thread : t # Main => tpc'[t] = tpc[t]
        /\ \A t \in Thread : t # Main => target'[t] = target[t]
    BY <1>1 DEF TypeOK, AddPush, ThreadGoto
  <1>5. ASSUME NEW t
        PROVE  /\ InSeq(t, threads'[1]) <=> InSeq(t, Q) \/ x = t
               /\ Once(t, Q) => Once(t, threads'[1])
    BY <1>1, <1>2, <1>4, AppendOccurs
  <1>6. NoError' /\ StoppedUp' /\ RunningUp'
    BY <1>1, <1>2, <1>3, <1>4, <1>5 DEF UpInv, NoError, StoppedUp, RunningUp
  <1>7. KilledUp' /\ SizeUp'
    BY <1>1, <1>3, <1>4, RolesUp DEF UpInv, KilledUp, SizeUp, Holding, Unseen, Left, First, Reading, Advanced
  <1>8. ProgramUp'
    BY <1>1, <1>3, <1>4, RolesUp DEF UpInv, ProgramUp
  <1> QED
    BY <1>6, <1>7, <1>8 DEF UpInv

\* exit() kills its caller, which runs and is therefore in no list.
LEMMA ExitKillUp ==
  ASSUME N = 1, TypeOK, EmptyHands, UpInv, ExitKill(1)
  PROVE  UpInv'
  <1> DEFINE C == currentThread[1]
  <1>1. /\ 1 \in CPUs /\ C \in Thread /\ tcpu[C] = 1 /\ tpc[C] = "exiting" /\ pc[1] = "thread"
        /\ hand[1] = NoThread
    BY OneCpu DEF TypeOK, ExitKill, EmptyHands, HasHand
  <1>2. C \in Exiting /\ state[C] = "Running"
    BY <1>1 DEF UpInv, ProgramUp, RunningUp
  <1>3. UNCHANGED <<threads, toDestroy, lastRead, toDestroySize, currentThread, hand, reg, target, slot, treg,
                    failed, fault>>
    BY DEF ExitKill, queueVars, destroyVars, errorVars
  <1>4. /\ state'[C] = "Killed" /\ \A t \in Thread : t # C => state'[t] = state[t]
        /\ tpc'[C] = "exited" /\ \A t \in Thread : t # C => tpc'[t] = tpc[t]
        /\ pc'[1] = "exitPush"
    BY <1>1 DEF TypeOK, ExitKill, ThreadGoto, Goto
  <1>5. ~InSeq(C, threads[1]) /\ ~InSeq(C, toDestroy[1])
    <2>1. InSeq(C, threads[1]) => state[C] = "Stopped"
      BY <1>1 DEF UpInv, StoppedUp
    <2>2. InSeq(C, toDestroy[1]) => state[C] \in {"Killed", "Freed"}
      BY <1>1 DEF UpInv, KilledUp
    <2> QED
      BY <1>2, <2>1, <2>2
  <1>6. Holding(destroyer[1]) => target[destroyer[1]] # C
    BY <1>2 DEF UpInv, KilledUp
  <1>7. NoError' /\ StoppedUp' /\ RunningUp'
    BY <1>1, <1>2, <1>3, <1>4, <1>5 DEF UpInv, NoError, StoppedUp, RunningUp
  <1>8. /\ First' = First /\ Left' = Left /\ Unseen' = Unseen
        /\ Holding(destroyer[1])' <=> Holding(destroyer[1])
        /\ Reading(destroyer[1])' <=> Reading(destroyer[1])
        /\ Advanced(destroyer[1])' <=> Advanced(destroyer[1])
        /\ \A l \in {"next", "advance", "size", "store"} :
             tpc'[destroyer[1]] = l <=> tpc[destroyer[1]] = l
    BY <1>1, <1>2, <1>3, <1>4, RolesUp
       DEF Holding, Unseen, Left, First, Reading, Advanced
  <1>b. SizeUp'
    BY <1>1, <1>3, <1>4, <1>8 DEF UpInv, SizeUp
  <1>a. KilledUp'
    <2>1. KilledUp
      BY DEF UpInv
    <2>2. \A k \in 1..Len(toDestroy[1]) : k >= First => state'[toDestroy[1][k]] = "Killed"
      <3>1. toDestroy[1] \in Seq(Thread)
        BY <1>1 DEF TypeOK
      <3> QED
        BY <1>4, <2>1, <3>1 DEF KilledUp
    <2>3. ASSUME NEW t \in Thread, InSeq(t, toDestroy[1])
          PROVE  state'[t] \in {"Killed", "Freed"}
      BY <1>4, <2>1, <2>3 DEF KilledUp
    <2>4. ASSUME NEW t \in Thread
          PROVE  Once(t, toDestroy[1])
      BY <2>1 DEF KilledUp
    <2>5. Holding(destroyer[1]) =>
            /\ target[destroyer[1]] \in Thread
            /\ state'[target[destroyer[1]]] = "Killed"
            /\ \A k \in 1..Len(toDestroy[1]) :
                 k >= lastRead[1] => toDestroy[1][k] # target[destroyer[1]]
      BY <1>4, <1>6, <2>1 DEF KilledUp
    <2> QED
      BY <1>3, <1>5, <1>6, <1>8, <2>2, <2>3, <2>4, <2>5 DEF KilledUp
  <1>9. ProgramUp'
    BY <1>1, <1>2, <1>3, <1>4, RolesUp DEF UpInv, ProgramUp
  <1> QED
    BY <1>7, <1>a, <1>b, <1>9 DEF UpInv

LEMMA ProgramStepUp ==
  ASSUME N = 1, TypeOK, EmptyHands, UpInv, ProgramStep(1)
  PROVE  UpInv'
  <1>1. ASSUME NEW u \in User, Create(1, u) PROVE UpInv'
    BY <1>1, CreateUp
  <1>2. CASE AddLock(1)
    <2>1. Main \in Thread /\ ThreadGoto(Main, "addPush")
      BY <1>2, RolesUp DEF AddLock
    <2> QED
      BY <1>2, <2>1, ThreadQuietUp DEF AddLock, Reading, Advanced
  <1>3. CASE AddPush(1)
    BY <1>3, AddPushUp
  <1>4. CASE ExitCapture(1)
    <2>1. /\ currentThread[1] \in Thread /\ currentThread[1] \in Exiting
          /\ ThreadGoto(currentThread[1], "exiting")
      BY <1>4, OneCpu DEF ExitCapture, TypeOK
    <2> QED
      BY <1>4, <2>1, ThreadQuietUp DEF ExitCapture, queueVars, Reading, Advanced
  <1>5. CASE ExitKill(1)
    BY <1>5, ExitKillUp
  <1> QED
    BY <1>1, <1>2, <1>3, <1>4, <1>5 DEF ProgramStep

\* What the steps of pop() leave alone.
LEMMA PopFrameUp ==
  ASSUME N = 1, TypeOK, UpInv, NEW l, ThreadGoto(destroyer[1], l), l # "exiting",
         UNCHANGED <<threads, toDestroy, currentThread, pc, hand, failed, fault, state>>,
         \A t \in Thread : t # destroyer[1] => target'[t] = target[t]
  PROVE  /\ NoError' /\ StoppedUp' /\ RunningUp' /\ ProgramUp'
         /\ tpc'[destroyer[1]] = l
  <1>1. \A t \in Thread : tpc'[t] = IF t = destroyer[1] THEN l ELSE tpc[t]
    BY DEF ThreadGoto, TypeOK
  <1>2. NoError' /\ StoppedUp' /\ RunningUp'
    BY DEF UpInv, NoError, StoppedUp, RunningUp
  <1>3. ProgramUp'
    BY <1>1, RolesUp DEF UpInv, ProgramUp
  <1> QED
    BY <1>1, <1>2, <1>3, RolesUp

\* The list as pop() finds it.
LEMMA ListUp ==
  ASSUME N = 1, TypeOK
  PROVE  /\ 1 \in CPUs /\ destroyer[1] \in Thread /\ tcpu[destroyer[1]] = 1
         /\ toDestroy[1] \in Seq(Thread) /\ Len(toDestroy[1]) \in Nat
         /\ toDestroySize[1] \in Int /\ lastRead[1] \in Nat
         /\ slot[destroyer[1]] \in Nat /\ treg[destroyer[1]] \in Int
  <1>1. 1 \in CPUs /\ destroyer[1] \in Thread /\ \A c \in CPUs : c = 1
    BY OneCpu, RolesUp
  <1>2. toDestroy[1] \in Seq(Thread)
    BY <1>1 DEF TypeOK
  <1>3. Len(toDestroy[1]) \in Nat
    BY <1>2
  <1>4. tcpu[destroyer[1]] \in CPUs
    BY <1>1 DEF TypeOK
  <1>5. /\ toDestroySize[1] \in Int /\ lastRead[1] \in Nat
        /\ slot[destroyer[1]] \in Nat /\ treg[destroyer[1]] \in Int
    BY <1>1 DEF TypeOK
  <1> QED
    BY <1>1, <1>2, <1>3, <1>4, <1>5

\* pop() up to its store of lastRead: the size stays above zero, whatever
\* exit() adds meanwhile, so that the assert in front() holds.
LEMMA PopReadsUp ==
  ASSUME N = 1, TypeOK, UpInv,
         \/ DestroyerCheck(1, destroyer[1]) \/ PopAssert(1, destroyer[1])
         \/ PopFront(1, destroyer[1]) \/ PopNext(1, destroyer[1])
  PROVE  UpInv'
  <1> DEFINE d == destroyer[1]
  <1> USE ListUp, RolesUp
  <1>0. SizeUp /\ KilledUp
    BY DEF UpInv
  <1>1. CASE DestroyerCheck(1, d)
    <2>1. /\ ThreadGoto(d, "front") /\ tpc[d] = "check" /\ pc[1] = "thread"
          /\ toDestroySize[1] # 0
          /\ UNCHANGED <<threads, toDestroy, lastRead, toDestroySize, currentThread, pc, hand,
                         reg, target, slot, treg, failed, fault, state>>
      BY <1>1 DEF DestroyerCheck, Executes, queueVars, destroyVars, cpuVars, errorVars
    <2>2. NoError' /\ StoppedUp' /\ RunningUp' /\ ProgramUp' /\ tpc'[d] = "front"
      BY <2>1, PopFrameUp
    <2>3. KilledUp'
      BY <1>0, <2>1, <2>2 DEF KilledUp, First, Holding, Advanced
    <2>4. SizeUp'
      BY <1>0, <2>1, <2>2 DEF SizeUp, Left, Unseen, Reading, Advanced
    <2> QED
      BY <2>2, <2>3, <2>4 DEF UpInv
  <1>2. CASE PopAssert(1, d)
    <2>1. tpc[d] = "front" /\ pc[1] = "thread" /\ toDestroySize[1] # 0
      BY <1>0, <1>2 DEF PopAssert, Executes, SizeUp, Reading
    <2>2. /\ ThreadGoto(d, "slot")
          /\ UNCHANGED <<threads, toDestroy, lastRead, toDestroySize, currentThread, pc, hand,
                         reg, target, slot, treg, failed, fault, state>>
      BY <1>2, <2>1 DEF PopAssert, queueVars, destroyVars
    <2>3. NoError' /\ StoppedUp' /\ RunningUp' /\ ProgramUp' /\ tpc'[d] = "slot"
      BY <2>2, PopFrameUp
    <2>4. KilledUp'
      BY <1>0, <2>1, <2>2, <2>3 DEF KilledUp, First, Holding, Advanced
    <2>5. SizeUp'
      BY <1>0, <2>1, <2>2, <2>3 DEF SizeUp, Left, Unseen, Reading, Advanced
    <2> QED
      BY <2>3, <2>4, <2>5 DEF UpInv
  <1>3. CASE PopFront(1, d)
    <2>1. /\ ThreadGoto(d, "next") /\ tpc[d] = "slot" /\ pc[1] = "thread"
          /\ UNCHANGED <<threads, toDestroy, lastRead, toDestroySize, currentThread, pc, hand,
                         reg, target, treg, failed, fault, state>>
      BY <1>3 DEF PopFront, Executes, queueVars, destroyVars, cpuVars, errorVars
    <2>2. slot'[d] = lastRead[1]
      BY <1>3 DEF PopFront, TypeOK
    <2>3. NoError' /\ StoppedUp' /\ RunningUp' /\ ProgramUp' /\ tpc'[d] = "next"
      BY <2>1, PopFrameUp
    <2>4. KilledUp'
      BY <1>0, <2>1, <2>3 DEF KilledUp, First, Holding, Advanced
    <2>5. SizeUp'
      BY <1>0, <2>1, <2>2, <2>3 DEF SizeUp, Left, Unseen, Reading, Advanced
    <2> QED
      BY <2>3, <2>4, <2>5 DEF UpInv
  <1>4. CASE PopNext(1, d)
    <2>1. /\ ThreadGoto(d, "advance") /\ tpc[d] = "next" /\ pc[1] = "thread"
          /\ UNCHANGED <<threads, toDestroy, lastRead, toDestroySize, currentThread, pc, hand,
                         reg, target, slot, failed, fault, state>>
      BY <1>4 DEF PopNext, Executes, queueVars, destroyVars, cpuVars, errorVars
    <2>2. treg'[d] = lastRead[1] + 1
      BY <1>4 DEF PopNext, TypeOK
    <2>3. NoError' /\ StoppedUp' /\ RunningUp' /\ ProgramUp' /\ tpc'[d] = "advance"
      BY <2>1, PopFrameUp
    <2>4. KilledUp'
      BY <1>0, <2>1, <2>3 DEF KilledUp, First, Holding, Advanced
    <2>5. SizeUp'
      BY <1>0, <2>1, <2>2, <2>3 DEF SizeUp, Left, Unseen, Reading, Advanced
    <2> QED
      BY <2>3, <2>4, <2>5 DEF UpInv
  <1> QED
    BY <1>1, <1>2, <1>3, <1>4

\* From there to the store of the size, which may be stale: the entry the
\* reference points to is not an entry that is left.
LEMMA PopWritesUp ==
  ASSUME N = 1, TypeOK, UpInv,
         \/ PopAdvance(1, destroyer[1]) \/ PopSize(1, destroyer[1]) \/ PopStore(1, destroyer[1])
  PROVE  UpInv'
  <1> DEFINE d == destroyer[1]
  <1> USE ListUp, RolesUp
  <1>0. SizeUp /\ KilledUp
    BY DEF UpInv
  <1>1. CASE PopAdvance(1, d)
    <2>1. /\ ThreadGoto(d, "size") /\ tpc[d] = "advance" /\ pc[1] = "thread"
          /\ UNCHANGED <<threads, toDestroy, toDestroySize, currentThread, pc, hand,
                         reg, target, slot, treg, failed, fault, state>>
      BY <1>1 DEF PopAdvance, Executes, queueVars, cpuVars, errorVars
    <2>2. lastRead'[1] = treg[d] /\ treg[d] = lastRead[1] + 1 /\ slot[d] = lastRead[1]
      BY <1>0, <1>1, <2>1 DEF PopAdvance, SizeUp, TypeOK
    <2>3. NoError' /\ StoppedUp' /\ RunningUp' /\ ProgramUp' /\ tpc'[d] = "size"
      BY <2>1, PopFrameUp
    <2>4. First' = First
      BY <2>1, <2>2, <2>3 DEF First, Advanced
    <2>6. KilledUp'
      BY <1>0, <2>1, <2>3, <2>4 DEF KilledUp, Holding
    <2>7. /\ toDestroySize[1] >= 1 /\ toDestroySize[1] <= Len(toDestroy[1]) - lastRead[1] + 1
          /\ lastRead[1] >= 1
      BY <1>0, <2>1 DEF SizeUp, Left, Unseen, Reading
    <2>8. Left' + Unseen' = Len(toDestroy[1]) - lastRead[1] + 1
      BY <2>1, <2>2, <2>3 DEF Left, Unseen
    <2>9. ~Reading(d)' /\ slot'[d] = lastRead'[1] - 1 /\ slot'[d] \in 1..Len(toDestroy'[1])
      BY <2>1, <2>2, <2>3, <2>7 DEF Reading
    <2>a. SizeUp'
      BY <2>1, <2>2, <2>3, <2>7, <2>8, <2>9 DEF SizeUp
    <2> QED
      BY <2>3, <2>6, <2>a DEF UpInv
  <1>2. CASE PopSize(1, d)
    <2>1. /\ ThreadGoto(d, "store") /\ tpc[d] = "size" /\ pc[1] = "thread"
          /\ UNCHANGED <<threads, toDestroy, lastRead, toDestroySize, currentThread, pc, hand,
                         reg, target, slot, failed, fault, state>>
      BY <1>2 DEF PopSize, Executes, queueVars, destroyVars, cpuVars, errorVars
    <2>2. treg'[d] = toDestroySize[1]
      BY <1>2 DEF PopSize, TypeOK
    <2>3. NoError' /\ StoppedUp' /\ RunningUp' /\ ProgramUp' /\ tpc'[d] = "store"
      BY <2>1, PopFrameUp
    <2>4. KilledUp'
      BY <1>0, <2>1, <2>3 DEF KilledUp, First, Holding, Advanced
    <2>5. SizeUp'
      BY <1>0, <2>1, <2>2, <2>3 DEF SizeUp, Left, Unseen, Reading, Advanced
    <2> QED
      BY <2>3, <2>4, <2>5 DEF UpInv
  <1>3. CASE PopStore(1, d)
    <2>1. /\ ThreadGoto(d, "take") /\ tpc[d] = "store" /\ pc[1] = "thread"
          /\ UNCHANGED <<threads, toDestroy, lastRead, currentThread, pc, hand,
                         reg, target, slot, treg, failed, fault, state>>
      BY <1>3 DEF PopStore, Executes, queueVars, cpuVars, errorVars
    <2>2. toDestroySize'[1] = treg[d] - 1
      BY <1>3 DEF PopStore, TypeOK
    <2>3. NoError' /\ StoppedUp' /\ RunningUp' /\ ProgramUp' /\ tpc'[d] = "take"
      BY <2>1, PopFrameUp
    <2>4. KilledUp'
      BY <1>0, <2>1, <2>3 DEF KilledUp, First, Holding, Advanced
    <2>5. SizeUp'
      BY <1>0, <2>1, <2>2, <2>3 DEF SizeUp, Left, Unseen, Reading, Advanced
    <2> QED
      BY <2>3, <2>4, <2>5 DEF UpInv
  <1> QED
    BY <1>1, <1>2, <1>3

\* The reference points to an entry, a killed thread that is pushed once.
LEMMA DestroyerTakeUp ==
  ASSUME N = 1, TypeOK, UpInv, DestroyerTake(1, destroyer[1])
  PROVE  UpInv'
  <1> DEFINE d == destroyer[1]
             D == toDestroy[1]
             v == D[slot[d]]
  <1> USE ListUp, RolesUp
  <1>0. SizeUp /\ KilledUp
    BY DEF UpInv
  <1>1. tpc[d] = "take" /\ pc[1] = "thread" /\ DOMAIN D = 1..Len(D)
    BY DEF DestroyerTake, Executes
  <1>2. slot[d] = lastRead[1] - 1 /\ slot[d] \in 1..Len(D)
    BY <1>0, <1>1 DEF SizeUp, Advanced
  <1>3. v \in Thread
    BY <1>2
  <1>4. state[v] = "Killed"
    BY <1>0, <1>1, <1>2 DEF KilledUp, First, Advanced
  <1>5. \A k \in 1..Len(D) : k >= lastRead[1] => D[k] # v
    <2>1. ASSUME NEW t \in Thread PROVE Once(t, D)
      BY <1>0 DEF KilledUp
    <2>2. Once(v, D)
      BY <1>3, <2>1
    <2> QED
      BY <1>1, <1>2, <2>2 DEF Once
  <1>6. /\ ThreadGoto(d, "destroyLock")
        /\ target' = [target EXCEPT ![d] = v]
        /\ UNCHANGED <<threads, toDestroy, lastRead, toDestroySize, currentThread, pc, hand,
                       reg, failed, fault, state>>
    BY <1>1, <1>2, <1>4 DEF DestroyerTake, queueVars, destroyVars
  <1>7. target'[d] = v /\ \A t \in Thread : t # d => target'[t] = target[t]
    <2>1. target \in [Thread -> Thread \cup {NoThread}]
      BY DEF TypeOK
    <2> HIDE DEF v
    <2> QED
      BY <1>6, <2>1
  <1>8. NoError' /\ StoppedUp' /\ RunningUp' /\ ProgramUp' /\ tpc'[d] = "destroyLock"
    BY <1>6, <1>7, PopFrameUp
  <1>9. KilledUp'
    <2>1. ASSUME NEW t \in Thread
          PROVE  /\ Once(t, D)
                 /\ InSeq(t, D) => state[t] \in {"Killed", "Freed"}
      BY <1>0 DEF KilledUp
    <2>2. \A k \in 1..Len(D) : k >= First' => state[D[k]] = "Killed"
      BY <1>0, <1>1, <1>2, <1>6, <1>8 DEF KilledUp, First, Advanced
    <2> HIDE DEF v
    <2> QED
      BY <1>1, <1>3, <1>4, <1>5, <1>6, <1>7, <2>1, <2>2 DEF KilledUp
  <1>10. SizeUp'
    BY <1>0, <1>1, <1>6, <1>8 DEF SizeUp, Left, Unseen, Reading, Advanced
  <1> QED
    BY <1>8, <1>9, <1>10 DEF UpInv

\* replaceAll() finds nothing to replace: the killed thread is not queued.
LEMMA DestroyerReplaceUp ==
  ASSUME N = 1, TypeOK, UpInv, DestroyerReplace(1, destroyer[1])
  PROVE  UpInv'
  <1> DEFINE d == destroyer[1]
             Q == threads[1]
  <1>1. /\ 1 \in CPUs /\ d \in Thread /\ d # Main /\ tcpu[d] = 1 /\ tpc[d] = "replace"
        /\ Q \in Seq(Thread)
    BY OneCpu, RolesUp DEF TypeOK, DestroyerReplace, Executes
  <1>2. target[d] \in Thread /\ state[target[d]] = "Killed" /\ ~InSeq(target[d], Q)
    BY <1>1 DEF UpInv, KilledUp, StoppedUp, Holding
  <1>3. threads'[1] = [k \in 1..Len(Q) |-> IF Q[k] = target[d] THEN killedThread ELSE Q[k]]
    BY <1>1 DEF TypeOK, DestroyerReplace
  <1>4. threads'[1] = Q
    <2>1. DOMAIN Q = 1..Len(Q) /\ Q = [k \in 1..Len(Q) |-> Q[k]]
      BY <1>1
    <2>2. \A k \in 1..Len(Q) : Q[k] # target[d]
      BY <1>2, <2>1 DEF InSeq
    <2> QED
      BY <1>3, <2>1, <2>2
  <1>5. threads' = threads
    BY <1>1, <1>4, OneCpu DEF TypeOK, DestroyerReplace
  <1>6. ThreadGoto(d, "destroy")
    BY DEF DestroyerReplace
  <1> QED
    BY <1>1, <1>5, <1>6, ThreadQuietUp DEF DestroyerReplace, Reading, Advanced

\* destroyThread() frees a thread nobody can reach.
LEMMA DestroyThreadUp ==
  ASSUME N = 1, TypeOK, EmptyHands, UpInv, DestroyThread(1, destroyer[1])
  PROVE  UpInv'
  <1> DEFINE d == destroyer[1]
             v == target[d]
  <1>1. /\ 1 \in CPUs /\ d \in Thread /\ d # Main /\ tpc[d] = "destroy"
        /\ pc[1] = "thread" /\ currentThread[1] = d /\ hand[1] = NoThread
    BY OneCpu, RolesUp DEF TypeOK, DestroyThread, Executes, EmptyHands, HasHand
  <1>2. /\ v \in Thread /\ state[v] = "Killed"
        /\ \A k \in 1..Len(toDestroy[1]) : k >= lastRead[1] => toDestroy[1][k] # v
    BY <1>1 DEF UpInv, KilledUp, Holding
  <1>3. v # d /\ ~InSeq(v, threads[1])
    BY <1>1, <1>2 DEF UpInv, RunningUp, StoppedUp
  <1>4. UNCHANGED <<threads, toDestroy, lastRead, toDestroySize, currentThread, pc, hand, reg, slot, treg,
                    failed, fault>>
    BY <1>1, <1>2, <1>3, OneCpu DEF DestroyThread, queueVars, destroyVars
  <1>5. /\ state'[v] = "Freed" /\ \A t \in Thread : t # v => state'[t] = state[t]
        /\ tpc'[d] = "check" /\ \A t \in Thread : t # d => tpc'[t] = tpc[t]
        /\ \A t \in Thread : t # d => target'[t] = target[t]
    BY <1>1, <1>2, <1>3 DEF TypeOK, DestroyThread, ThreadGoto
  <1>6. NoError' /\ StoppedUp' /\ RunningUp'
    BY <1>1, <1>2, <1>3, <1>4, <1>5 DEF UpInv, NoError, StoppedUp, RunningUp
  <1>7. /\ First' = First /\ Left' = Left /\ Unseen' = Unseen /\ ~Holding(destroyer[1])'
        /\ ~Reading(destroyer[1])' /\ ~Advanced(destroyer[1])'
        /\ \A l \in {"next", "advance", "size", "store"} : tpc'[destroyer[1]] # l
    BY <1>1, <1>4, <1>5 DEF Holding, Unseen, Left, First, Reading, Advanced
  <1>9. SizeUp'
    <2>1. Unseen = 0
      BY <1>1 DEF Unseen
    <2> QED
      BY <1>1, <1>4, <1>5, <1>7, <2>1 DEF UpInv, SizeUp
  <1>a. KilledUp'
    <2>0. KilledUp /\ First = lastRead[1]
      BY <1>1 DEF UpInv, First, Advanced
    <2>1. ASSUME NEW t \in Thread, InSeq(t, toDestroy[1])
          PROVE  state'[t] \in {"Killed", "Freed"}
      BY <1>5, <2>0, <2>1 DEF KilledUp
    <2>2. ASSUME NEW t \in Thread
          PROVE  Once(t, toDestroy[1])
      BY <2>0 DEF KilledUp
    <2>3. ASSUME NEW k \in 1..Len(toDestroy[1]), k >= First
          PROVE  state'[toDestroy[1][k]] = "Killed"
      <3>1. toDestroy[1] \in Seq(Thread)
        BY <1>1 DEF TypeOK
      <3>2. toDestroy[1][k] \in Thread /\ state[toDestroy[1][k]] = "Killed"
        BY <2>0, <2>3, <3>1 DEF KilledUp
      <3>3. toDestroy[1][k] # v
        BY <1>2, <2>0, <2>3
      <3> HIDE DEF v
      <3> QED
        BY <1>5, <3>2, <3>3
    <2> QED
      BY <1>1, <1>4, <1>7, <2>1, <2>2, <2>3 DEF KilledUp, Holding
  <1>8. ProgramUp'
    BY <1>1, <1>2, <1>4, <1>5, RolesUp DEF UpInv, ProgramUp
  <1> QED
    BY <1>6, <1>8, <1>9, <1>a DEF UpInv

LEMMA DestroyerStepUp ==
  ASSUME N = 1, TypeOK, ControlInv, EmptyHands, UpInv, DestroyerStep(1, destroyer[1])
  PROVE  UpInv'
  <1> DEFINE d == destroyer[1]
  <1>0. d \in Thread
    BY RolesUp
  <1>1. CASE DestroyerStart(1, d)
    <2>1. ThreadGoto(d, "check") /\ tpc[d] = "start"
      BY <1>1 DEF DestroyerStart
    <2> QED
      BY <1>0, <1>1, <2>1, ThreadQuietUp DEF DestroyerStart, queueVars, Reading, Advanced
  <1>2. CASE DestroyerYield(1, d)
    BY <1>2, PreemptUp DEF DestroyerYield
  <1>3. CASE \/ DestroyerCheck(1, d) \/ PopAssert(1, d) \/ PopFront(1, d) \/ PopNext(1, d)
    BY <1>3, PopReadsUp
  <1>4. CASE PopAdvance(1, d) \/ PopSize(1, d) \/ PopStore(1, d)
    BY <1>4, PopWritesUp
  <1>8. CASE DestroyerTake(1, d)
    BY <1>8, DestroyerTakeUp
  <1>5. CASE DestroyerLock(1, d)
    <2>1. ThreadGoto(d, "replace") /\ tpc[d] = "destroyLock"
      BY <1>5 DEF DestroyerLock
    <2> QED
      BY <1>0, <1>5, <2>1, ThreadQuietUp DEF DestroyerLock, Reading, Advanced
  <1>6. CASE DestroyerReplace(1, d)
    BY <1>6, DestroyerReplaceUp
  <1>7. CASE DestroyThread(1, d)
    BY <1>7, DestroyThreadUp
  <1> QED
    BY <1>1, <1>2, <1>3, <1>4, <1>5, <1>6, <1>7, <1>8 DEF DestroyerStep

-----------------------------------------------------------------------------
(* From the initial state on.                                              *)

LEMMA InitUp ==
  ASSUME N = 1, Init
  PROVE  UpInv
  <1>1. 1 \in CPUs /\ threads[1] = <<destroyer[1], Main>>
    BY OneCpu DEF Init
  <1>2. \A t : /\ InSeq(t, threads[1]) <=> t \in {destroyer[1], Main}
               /\ Once(t, threads[1])
    BY <1>1, RolesUp DEF InSeq, Once
  <1>3. /\ currentThread[1] = idle[1] /\ pc[1] = "switch" /\ hand[1] = NoThread
        /\ toDestroy[1] = << >> /\ lastRead[1] = 1 /\ toDestroySize[1] = 0 /\ failed = {} /\ fault = "none"
        /\ reg[1] = 0 /\ \A t \in Thread : treg[t] = 0
    BY <1>1 DEF Init
  <1>4. /\ state[idle[1]] = "Stopped" /\ state[destroyer[1]] = "Stopped" /\ state[Main] = "Stopped"
        /\ \A t \in Thread : state[t] # "Running" /\ tpc[t] \in {"start", "run"}
    BY OneCpu, RolesUp, ThreadAssumption DEF Init
  <1>5. NoError /\ StoppedUp /\ RunningUp
    BY <1>1, <1>2, <1>3, <1>4 DEF NoError, StoppedUp, RunningUp
  <1>6. KilledUp
    BY <1>3, <1>4, RolesUp DEF KilledUp, InSeq, Once, Holding
  <1>7. SizeUp
    BY <1>3, <1>4, RolesUp DEF SizeUp, Unseen, Left, First, Reading, Advanced
  <1>8. ProgramUp
    BY <1>4, RolesUp DEF ProgramUp
  <1> QED
    BY <1>5, <1>6, <1>7, <1>8 DEF UpInv

LEMMA SameUp ==
  ASSUME UpInv, UNCHANGED vars
  PROVE  UpInv'
  <1> USE DEF vars, queueVars, destroyVars, cpuVars, balanceVars, threadVars, errorVars
  <1>1. NoError' /\ StoppedUp' /\ RunningUp'
    BY DEF UpInv, NoError, StoppedUp, RunningUp
  <1>2. KilledUp' /\ SizeUp' /\ ProgramUp'
    BY DEF UpInv, KilledUp, SizeUp, ProgramUp, Holding, Unseen, Left, First, Reading, Advanced
  <1> QED
    BY <1>1, <1>2 DEF UpInv

LEMMA NextUp ==
  ASSUME N = 1, ThreadInv, UpInv, [Next]_vars
  PROVE  UpInv'
  <1>0. TypeOK /\ ControlInv /\ EmptyHands
    BY DEF ThreadInv, IInv, PlaceInv
  <1>1. CASE UNCHANGED vars
    BY <1>1, SameUp
  <1>2. CASE Next
    <2>1. \/ Tick(1) \/ CpuStep(1) \/ ProgramStep(1) \/ DestroyerStep(1, destroyer[1])
      BY <1>2, OneCpu DEF Next
    <2> QED
      BY <1>0, <2>1, PreemptUp, CpuUp, ProgramStepUp, DestroyerStepUp DEF Tick
  <1> QED
    BY <1>1, <1>2

LEMMA UpInvariant ==
  ASSUME N = 1
  PROVE  Spec => [](ThreadInv /\ UpInv)
  <1>1. Init => ThreadInv /\ UpInv
    BY InitThreadInv, InitUp
  <1>2. ThreadInv /\ UpInv /\ [Next]_vars => (ThreadInv /\ UpInv)'
    BY NextThreadInv, NextUp
  <1> QED
    BY <1>1, <1>2, PTL DEF Spec

\* Every assert of the scheduler holds on one CPU: a tick or a yield finds
\* the thread it interrupts running (scheduler.cpp:126, :140), switchTo()
\* gets a stopped thread, and the destroyer a killed one other than itself.
THEOREM AssertsHoldUp ==
  ASSUME N = 1
  PROVE  Spec => []AssertsHold
  <1>1. UpInv => AssertsHold
    BY DEF UpInv, NoError, AssertsHold
  <1> QED
    BY <1>1, UpInvariant, PTL

\* On one CPU the size of threadsToDestroy, which pop() and exit() update
\* without a common lock, never wraps below zero (scheduler.cpp:27, :29), and
\* it promises at most the entries pop() has not taken, and the one it has
\* taken and not yet counted (queue.h:61-62).
SizeCovered ==
  \A c \in CPUs : /\ 0 <= toDestroySize[c]
                  /\ toDestroySize[c] <= Len(toDestroy[c]) - lastRead[c] + 2

THEOREM SizeCoveredUp ==
  ASSUME N = 1
  PROVE  Spec => []SizeCovered
  <1>1. ThreadInv /\ UpInv => SizeCovered
    BY OneCpu, ListUp DEF UpInv, SizeUp, Left, Unseen, SizeCovered, ThreadInv, IInv
  <1> QED
    BY <1>1, UpInvariant, PTL

\* On one CPU no freed Thread object is read and no stack is freed under the
\* CPU, although pop() and exit() race on the size of threadsToDestroy: the
\* size is never larger than the number of entries, so pop() finds one.
THEOREM MemorySafeUp ==
  ASSUME N = 1
  PROVE  Spec => []MemorySafe
  <1>1. UpInv => MemorySafe
    BY DEF UpInv, NoError, MemorySafe
  <1> QED
    BY <1>1, UpInvariant, PTL

\* On one CPU a freed thread is in no queue, in no hand, not current, and not
\* waiting for the destroyer.
THEOREM NoDanglingUp ==
  ASSUME N = 1
  PROVE  Spec => []NoDangling
  <1>1. ThreadInv /\ UpInv => NoDangling
    <2> SUFFICES ASSUME ThreadInv, UpInv, NEW t \in Thread, state[t] = "Freed"
                 PROVE  /\ InQueue(t) = {} /\ InHand(t) = {}
                        /\ \A c \in CPUs :
                             /\ currentThread[c] # t
                             /\ \A k \in Unread(c) : toDestroy[c][k] # t
      BY DEF NoDangling
    <2>0. \A k \in 1..Len(toDestroy[1]) : k >= lastRead[1] => state[toDestroy[1][k]] = "Killed"
      BY ListUp DEF UpInv, KilledUp, First, ThreadInv, IInv
    <2>1. ~InSeq(t, threads[1]) /\ \A k \in Unread(1) : toDestroy[1][k] # t
      BY <2>0, ListUp DEF UpInv, StoppedUp, Unread, ThreadInv, IInv
    <2>2. hand[1] # t /\ currentThread[1] # t
      BY ThreadAssumption DEF UpInv, StoppedUp, RunningUp
    <2>3. InQueue(t) = {}
      <3>1. Queues(t) = {} /\ Single(t)
        BY <2>1, OneCpu DEF Queues, Single, UpInv, StoppedUp
      <3> QED
        BY <3>1, EntriesCount DEF ThreadInv, IInv
    <2>4. InHand(t) = {}
      BY <2>2, OneCpu DEF InHand
    <2> QED
      BY <2>1, <2>2, <2>3, <2>4, OneCpu DEF InSeq
  <1> QED
    BY <1>1, UpInvariant, PTL
=============================================================================
