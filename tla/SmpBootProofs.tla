----------------------------- MODULE SmpBootProofs -----------------------------
(***************************************************************************)
(* The start-up handshake and the queues of the processors that start,     *)
(* proved for any number of processors and any order of the MADT.          *)
(***************************************************************************)
EXTENDS SmpBoot, FiniteSetTheorems, TLAPS

-----------------------------------------------------------------------------
(* Where an element occurs in the sequences that the queue operations      *)
(* build.                                                                  *)

\* t occurs in s; and t does not occur twice.
InSeq(t, s) == \E k \in DOMAIN s : s[k] = t
Once(t, s) == \A j, k \in DOMAIN s : s[j] = t /\ s[k] = t => j = k

\* The parts of a sequence that is not empty.
LEMMA HeadTailIn ==
  ASSUME NEW S, NEW s \in Seq(S), s # << >>
  PROVE  Head(s) \in S /\ Tail(s) \in Seq(S)
  OBVIOUS

\* push()
LEMMA AppendOccurs ==
  ASSUME NEW S, NEW s \in Seq(S), NEW x \in S, NEW t
  PROVE  /\ InSeq(t, Append(s, x)) <=> InSeq(t, s) \/ x = t
         /\ Once(t, s) /\ ~(x = t /\ InSeq(t, s)) => Once(t, Append(s, x))
  <1>1. /\ Len(s) \in Nat /\ DOMAIN s = 1..Len(s) /\ DOMAIN Append(s, x) = 1..Len(s)+1
        /\ \A k \in 1..Len(s) : Append(s, x)[k] = s[k]
        /\ Append(s, x)[Len(s)+1] = x
    OBVIOUS
  <1>2. \A k \in 1..Len(s)+1 : k \in 1..Len(s) \/ k = Len(s) + 1
    BY <1>1
  <1>3. \A k \in 1..Len(s) : k \in 1..Len(s)+1
    BY <1>1
  <1>4. Len(s) + 1 \in 1..Len(s)+1
    BY <1>1
  <1> QED
    BY <1>1, <1>2, <1>3, <1>4 DEF InSeq, Once

\* pop()
LEMMA TailOccurs ==
  ASSUME NEW S, NEW s \in Seq(S), s # << >>, NEW t
  PROVE  /\ InSeq(t, s) <=> Head(s) = t \/ InSeq(t, Tail(s))
         /\ Once(t, s) => Once(t, Tail(s)) /\ ~(Head(s) = t /\ InSeq(t, Tail(s)))
  <1>1. /\ Len(s) \in Nat /\ Len(s) # 0 /\ DOMAIN s = 1..Len(s) /\ Tail(s) \in Seq(S)
        /\ DOMAIN Tail(s) = 1..Len(s)-1
        /\ Head(s) = s[1] /\ \A k \in 1..Len(s)-1 : Tail(s)[k] = s[k+1]
    OBVIOUS
  <1>2. \A k \in 1..Len(s) : k = 1 \/ (k - 1 \in 1..Len(s)-1 /\ (k - 1) + 1 = k)
    BY <1>1
  <1>3. \A k \in 1..Len(s)-1 : k + 1 \in 1..Len(s) /\ k + 1 # 1
    BY <1>1
  <1>4. 1 \in 1..Len(s)
    BY <1>1
  <1>5. \A j, k \in 1..Len(s)-1 : j + 1 = k + 1 => j = k
    BY <1>1
  <1>6. InSeq(t, s) <=> Head(s) = t \/ InSeq(t, Tail(s))
    <2>1. ASSUME NEW k \in 1..Len(s), s[k] = t PROVE Head(s) = t \/ InSeq(t, Tail(s))
      BY <1>1, <1>2, <2>1 DEF InSeq
    <2>2. ASSUME NEW k \in 1..Len(s)-1, Tail(s)[k] = t PROVE InSeq(t, s)
      BY <1>1, <1>3, <2>2 DEF InSeq
    <2>3. Head(s) = t => InSeq(t, s)
      BY <1>1, <1>4 DEF InSeq
    <2> QED
      BY <1>1, <2>1, <2>2, <2>3 DEF InSeq
  <1>7. ASSUME Once(t, s) PROVE Once(t, Tail(s))
    BY <1>1, <1>3, <1>5, <1>7 DEF Once
  <1>8. ASSUME Once(t, s), Head(s) = t, InSeq(t, Tail(s)) PROVE FALSE
    BY <1>1, <1>3, <1>4, <1>8 DEF Once, InSeq
  <1> QED
    BY <1>6, <1>7, <1>8

\* operator \o
LEMMA ConcatOccurs ==
  ASSUME NEW S, NEW a \in Seq(S), NEW p \in Seq(S), NEW t
  PROVE  /\ InSeq(t, a \o p) <=> InSeq(t, a) \/ InSeq(t, p)
         /\ Once(t, a) /\ Once(t, p) /\ ~(InSeq(t, a) /\ InSeq(t, p)) => Once(t, a \o p)
  <1> DEFINE n == Len(a)
             m == Len(p)
             r == a \o p
  <1>1. /\ n \in Nat /\ m \in Nat /\ DOMAIN a = 1..n /\ DOMAIN p = 1..m /\ DOMAIN r = 1..n+m
        /\ \A k \in 1..n+m : r[k] = IF k \in 1..n THEN a[k] ELSE p[k - n]
    OBVIOUS
  <1> HIDE DEF n, m, r
  <1>2. ASSUME NEW k \in 1..n+m
        PROVE  \/ k \in 1..n /\ r[k] = a[k]
               \/ k \notin 1..n /\ k - n \in 1..m /\ r[k] = p[k - n]
    BY <1>1
  <1>3. ASSUME NEW k \in 1..n PROVE k \in 1..n+m /\ r[k] = a[k]
    BY <1>1
  <1>4. ASSUME NEW k \in 1..m PROVE n + k \in 1..n+m /\ r[n + k] = p[k]
    <2>1. n + k \in 1..n+m /\ n + k \notin 1..n /\ (n + k) - n = k
      BY <1>1
    <2> QED
      BY <1>1, <2>1
  <1>5. InSeq(t, r) <=> InSeq(t, a) \/ InSeq(t, p)
    <2>1. InSeq(t, r) => InSeq(t, a) \/ InSeq(t, p)
      BY <1>1, <1>2 DEF InSeq
    <2>2. InSeq(t, a) => InSeq(t, r)
      BY <1>1, <1>3 DEF InSeq
    <2>3. InSeq(t, p) => InSeq(t, r)
      BY <1>1, <1>4 DEF InSeq
    <2> QED
      BY <2>1, <2>2, <2>3
  <1>6. ASSUME Once(t, a), Once(t, p), ~(InSeq(t, a) /\ InSeq(t, p)),
               NEW j \in 1..n+m, NEW k \in 1..n+m, r[j] = t, r[k] = t
        PROVE  j = k
    <2>1. CASE j \in 1..n
      <3>1. a[j] = t /\ InSeq(t, a)
        BY <1>1, <1>2, <1>6, <2>1 DEF InSeq
      <3>2. k \in 1..n /\ a[k] = t
        BY <1>1, <1>2, <1>6, <3>1 DEF InSeq
      <3> QED
        BY <1>1, <1>6, <2>1, <3>1, <3>2 DEF Once
    <2>2. CASE j \notin 1..n
      <3>1. j - n \in 1..m /\ p[j - n] = t /\ InSeq(t, p)
        BY <1>1, <1>2, <1>6, <2>2 DEF InSeq
      <3>2. k - n \in 1..m /\ p[k - n] = t
        BY <1>1, <1>2, <1>6, <3>1 DEF InSeq
      <3>3. j - n = k - n
        BY <1>1, <1>6, <3>1, <3>2 DEF Once
      <3> QED
        BY <1>1, <3>3
    <2> QED
      BY <2>1, <2>2
  <1>7. Once(t, a) /\ Once(t, p) /\ ~(InSeq(t, a) /\ InSeq(t, p)) => Once(t, r)
    BY <1>1, <1>6 DEF Once
  <1> QED
    BY <1>5, <1>7 DEF r

\* A sequence cut after m entries.
LEMMA CutOccurs ==
  ASSUME NEW S, NEW b \in Seq(S), NEW m \in Nat, m <= Len(b), NEW t
  PROVE  /\ SubSeq(b, 1, m) \in Seq(S) /\ Len(SubSeq(b, 1, m)) = m
         /\ SubSeq(b, m + 1, Len(b)) \in Seq(S) /\ Len(SubSeq(b, m + 1, Len(b))) = Len(b) - m
         /\ InSeq(t, b) <=> InSeq(t, SubSeq(b, 1, m)) \/ InSeq(t, SubSeq(b, m + 1, Len(b)))
         /\ Once(t, b) => /\ Once(t, SubSeq(b, 1, m)) /\ Once(t, SubSeq(b, m + 1, Len(b)))
                          /\ ~(InSeq(t, SubSeq(b, 1, m)) /\ InSeq(t, SubSeq(b, m + 1, Len(b))))
  <1> DEFINE p == SubSeq(b, 1, m)
             kept == SubSeq(b, m + 1, Len(b))
  <1> DEFINE n == Len(b)
  <1>1. /\ n \in Nat /\ DOMAIN b = 1..n
        /\ p \in Seq(S) /\ Len(p) = m /\ DOMAIN p = 1..m
        /\ kept \in Seq(S) /\ Len(kept) = n - m /\ DOMAIN kept = 1..n-m
        /\ \A k \in 1..m : p[k] = b[k]
        /\ \A k \in 1..n-m : kept[k] = b[k + m]
        /\ m <= n
    OBVIOUS
  <1> HIDE DEF n, p, kept
  <1>2. ASSUME NEW k \in 1..n PROVE k \in 1..m \/ (k - m \in 1..n-m /\ kept[k - m] = b[k])
    <2>1. k \in 1..m \/ (k - m \in 1..n-m /\ (k - m) + m = k)
      BY <1>1
    <2> QED
      BY <1>1, <2>1
  <1>3. ASSUME NEW k \in 1..n-m PROVE k + m \in 1..n /\ k + m \notin 1..m /\ kept[k] = b[k + m]
    BY <1>1
  <1>4. ASSUME NEW k \in 1..m PROVE k \in 1..n /\ p[k] = b[k]
    BY <1>1
  <1>5. InSeq(t, b) <=> InSeq(t, p) \/ InSeq(t, kept)
    <2>1. InSeq(t, b) => InSeq(t, p) \/ InSeq(t, kept)
      BY <1>1, <1>2 DEF InSeq
    <2>2. InSeq(t, p) => InSeq(t, b)
      BY <1>1, <1>4 DEF InSeq
    <2>3. InSeq(t, kept) => InSeq(t, b)
      BY <1>1, <1>3 DEF InSeq
    <2> QED
      BY <2>1, <2>2, <2>3
  <1>6. ASSUME Once(t, b) PROVE Once(t, p) /\ Once(t, kept) /\ ~(InSeq(t, p) /\ InSeq(t, kept))
    <2>1. Once(t, p)
      BY <1>1, <1>4, <1>6 DEF Once
    <2>2. ASSUME NEW j \in 1..n-m, NEW k \in 1..n-m, kept[j] = t, kept[k] = t PROVE j = k
      <3>1. j + m = k + m
        BY <1>1, <1>3, <1>6, <2>2 DEF Once
      <3> QED
        BY <1>1, <3>1
    <2>3. ASSUME NEW j \in 1..m, NEW k \in 1..n-m, p[j] = t, kept[k] = t PROVE FALSE
      <3>1. j = k + m
        BY <1>1, <1>3, <1>4, <1>6, <2>3 DEF Once
      <3> QED
        BY <1>3, <3>1
    <2> QED
      BY <1>1, <2>1, <2>2, <2>3 DEF Once, InSeq
  <1> QED
    BY <1>1, <1>5, <1>6 DEF n, p, kept
-----------------------------------------------------------------------------

Threads == {<<r, c>> : r \in {"idle", "destroyer", "main", "mainLoads"}, c \in CPUs}
Aps == CPUs \ {Boot}

Steps == {"acpi", "gdt", "apic", "calibrate", "calibrating", "sched", "threads", "map", "core",
          "init", "delay", "sipi", "wait", "reset", "unmap", "main", "start", "run",
          "off", "real", "long", "entry", "idt", "syscalls", "signal"}

TypeOK ==
    /\ pc \in [CPUs -> Steps]
    /\ entry \in Nat \ {0} /\ core \in Nat \ {0}
    /\ processors \in Seq(CPUs)
    /\ gs \in [CPUs -> CPUs \cup {None}] /\ stack \in [CPUs -> CPUs \cup {None}]
    /\ table \in [CPUs -> {"loader", "trampoline", "own"}]
    /\ idt \subseteq CPUs /\ if \subseteq CPUs /\ pit \subseteq CPUs /\ timer \subseteq CPUs
    /\ queue \in [CPUs -> Seq(Threads)] /\ current \in [CPUs -> Threads \cup {None}]

\* The processors registered are the enabled ones among the entries read, in
\* their order: no two entries name one processor, and the first is Boot.
MadtInv ==
    /\ entry \in 1..Len(Listed)+1
    /\ \A n \in 1..entry-1 : Listed[n] \in CPUs => \E i \in DOMAIN processors : processors[i] = Listed[n]
    /\ \A i \in DOMAIN processors : \E n \in 1..entry-1 : Listed[n] = processors[i]
    /\ \A i, j \in DOMAIN processors : processors[i] = processors[j] => i = j
    /\ gs[Boot] = IF processors = << >> THEN None ELSE Boot
    /\ pc[Boot] # "acpi" => entry = Len(Listed) + 1

Idling == {"off", "start", "run"}
NoCpu == {"off", "sipi", "real", "long", "entry"}
NoThread == NoCpu \cup {"sched", "threads"}
Working == {"real", "long", "entry", "sched", "threads", "gdt", "idt", "apic",
            "calibrate", "calibrating", "syscalls", "signal"}

\* What a processor that is not the boot one has set up, by its next step.
ApInv(c) ==
    /\ pc[c] \in Idling \cup Working \cup {"sipi"}
    /\ gs[c] = IF pc[c] \in NoCpu THEN None ELSE c
    /\ stack[c] = IF pc[c] \in NoCpu \ {"entry"} THEN None ELSE c
    /\ current[c] = None <=> pc[c] \in NoThread
    /\ pc[c] \notin NoThread \cup {"gdt"} => table[c] = "own"
    /\ pc[c] \notin NoThread \cup {"gdt", "idt"} => c \in idt
    /\ c \in pit <=> pc[c] = "calibrating"
    /\ c \in timer <=> pc[c] = "run"
    /\ c \in if => pc[c] = "run"

BeforeSmp == {"acpi", "gdt", "apic", "calibrate", "calibrating", "sched", "threads", "map"}
InLoop == {"core", "init", "delay", "sipi", "wait", "reset"}
AfterSmp == {"main", "start", "run"}

BootInv ==
    /\ pc[Boot] \in BeforeSmp \cup InLoop \cup {"unmap"} \cup AfterSmp
    /\ stack[Boot] = None /\ Boot \in idt
    /\ current[Boot] = None <=> pc[Boot] \in BeforeSmp \ {"map"}
    /\ pc[Boot] \notin {"acpi", "gdt"} => table[Boot] = "own"
    /\ Boot \in pit <=> pc[Boot] \in {"calibrating", "delay"}
    /\ Boot \in timer <=> pc[Boot] = "run"
    /\ Boot \in if => pc[Boot] \in {"acpi", "gdt", "run"}

\* The handshake: the processors registered before `core` idle or run, those
\* after it are off, and the one it names is where the boot processor waits
\* for it, reading the two parameters of the trampoline.
HandshakeInv ==
    /\ pc[Boot] \in BeforeSmp => core = 1 /\ \A c \in Aps : pc[c] = "off"
    /\ mapped <=> pc[Boot] \in InLoop \cup {"unmap"}
    /\ pc[Boot] \in InLoop \ {"core"} =>
          /\ core \in DOMAIN processors /\ processors[core] # Boot
          /\ apStack = processors[core] /\ apCoreIndex = core
    /\ \A c \in Aps :
          \/ pc[c] \in Idling
          \/ /\ pc[Boot] \in InLoop \ {"core"} /\ c = processors[core]
             /\ pc[c] = "sipi" <=> pc[Boot] \in {"delay", "sipi"}
             /\ pc[c] \in Working <=> pc[Boot] = "wait"
    /\ \A i \in DOMAIN processors : processors[i] # Boot =>
          /\ (i < core => pc[processors[i]] \in {"start", "run"})
          /\ (i > core => pc[processors[i]] = "off")
          /\ (i = core /\ pc[Boot] \in BeforeSmp \cup {"core", "init"} => pc[processors[i]] = "off")
          /\ (i = core /\ pc[Boot] \in {"delay", "sipi"} => pc[processors[i]] = "sipi")
          /\ (i = core /\ pc[Boot] \in {"wait", "reset"} => pc[processors[i]] # "off")
    /\ started <=> pc[Boot] \in {"wait", "reset"} /\ pc[processors[core]] \in {"start", "run"}
    /\ pc[Boot] = "reset" => started

\* The successor of a step in an order of steps.
LEMMA Successor ==
  ASSUME NEW o, NEW s, NEW n \in DOMAIN o, o[n] = s,
         \A m \in DOMAIN o : o[m] = s => m = n
  PROVE  (CHOOSE m \in DOMAIN o : o[m] = s) = n
  OBVIOUS

LEMMA ApOrderIs ==
  /\ DOMAIN ApOrder = 1..16
  /\ ApOrder[3] = "real" /\ ApOrder[4] = "long" /\ ApOrder[5] = "entry" /\ ApOrder[6] = "sched"
  /\ ApOrder[7] = "threads" /\ ApOrder[8] = "gdt" /\ ApOrder[9] = "idt" /\ ApOrder[10] = "apic"
  /\ ApOrder[11] = "calibrate" /\ ApOrder[12] = "calibrating" /\ ApOrder[13] = "syscalls"
  /\ ApOrder[14] = "signal" /\ ApOrder[15] = "start" /\ ApOrder[16] = "run"
  /\ \A m, n \in DOMAIN ApOrder : ApOrder[m] = ApOrder[n] => m = n
  BY SMTT(60) DEF ApOrder

LEMMA BspOrderIs ==
  /\ DOMAIN BspOrder = 1..18
  /\ BspOrder[1] = "acpi" /\ BspOrder[2] = "gdt" /\ BspOrder[3] = "apic"
  /\ BspOrder[4] = "calibrate" /\ BspOrder[5] = "calibrating" /\ BspOrder[6] = "sched"
  /\ BspOrder[7] = "threads" /\ BspOrder[8] = "map" /\ BspOrder[9] = "core"
  /\ BspOrder[10] = "init" /\ BspOrder[11] = "delay" /\ BspOrder[12] = "sipi"
  /\ BspOrder[13] = "wait" /\ BspOrder[14] = "reset" /\ BspOrder[15] = "unmap"
  /\ BspOrder[16] = "main" /\ BspOrder[17] = "start" /\ BspOrder[18] = "run"
  /\ \A m, n \in DOMAIN BspOrder : BspOrder[m] = BspOrder[n] => m = n
  BY SMTT(60) DEF BspOrder

\* One step of an order that has no step twice.
LEMMA StepOf ==
  ASSUME NEW c, NEW s, Step(c, s), NEW n \in DOMAIN Order(c), Order(c)[n] = s,
         \A m, k \in DOMAIN Order(c) : Order(c)[m] = Order(c)[k] => m = k
  PROVE  pc[c] = s /\ pc' = [pc EXCEPT ![c] = Order(c)[1 + n]]
  BY Successor DEF Step

LEMMA ApNext ==
  ASSUME NEW c \in CPUs \ {Boot}
  PROVE  /\ Step(c, "real") => pc[c] = "real" /\ pc' = [pc EXCEPT ![c] = "long"]
         /\ Step(c, "long") => pc[c] = "long" /\ pc' = [pc EXCEPT ![c] = "entry"]
         /\ Step(c, "entry") => pc[c] = "entry" /\ pc' = [pc EXCEPT ![c] = "sched"]
         /\ Step(c, "sched") => pc[c] = "sched" /\ pc' = [pc EXCEPT ![c] = "threads"]
         /\ Step(c, "threads") => pc[c] = "threads" /\ pc' = [pc EXCEPT ![c] = "gdt"]
         /\ Step(c, "gdt") => pc[c] = "gdt" /\ pc' = [pc EXCEPT ![c] = "idt"]
         /\ Step(c, "idt") => pc[c] = "idt" /\ pc' = [pc EXCEPT ![c] = "apic"]
         /\ Step(c, "apic") => pc[c] = "apic" /\ pc' = [pc EXCEPT ![c] = "calibrate"]
         /\ Step(c, "calibrate") =>
              pc[c] = "calibrate" /\ pc' = [pc EXCEPT ![c] = "calibrating"]
         /\ Step(c, "calibrating") =>
              pc[c] = "calibrating" /\ pc' = [pc EXCEPT ![c] = "syscalls"]
         /\ Step(c, "syscalls") => pc[c] = "syscalls" /\ pc' = [pc EXCEPT ![c] = "signal"]
         /\ Step(c, "signal") => pc[c] = "signal" /\ pc' = [pc EXCEPT ![c] = "start"]
         /\ Step(c, "start") => pc[c] = "start" /\ pc' = [pc EXCEPT ![c] = "run"]
  <1>1. Order(c) = ApOrder
    BY DEF Order
  <1>2. ASSUME NEW n \in 1..16, Step(c, ApOrder[n])
        PROVE  pc[c] = ApOrder[n] /\ pc' = [pc EXCEPT ![c] = ApOrder[1 + n]]
    BY <1>1, <1>2, ApOrderIs, StepOf
  <1> QED
    BY <1>2, ApOrderIs

LEMMA BspNext ==
  /\ Step(Boot, "acpi") => pc[Boot] = "acpi" /\ pc' = [pc EXCEPT ![Boot] = "gdt"]
  /\ Step(Boot, "gdt") => pc[Boot] = "gdt" /\ pc' = [pc EXCEPT ![Boot] = "apic"]
  /\ Step(Boot, "apic") => pc[Boot] = "apic" /\ pc' = [pc EXCEPT ![Boot] = "calibrate"]
  /\ Step(Boot, "calibrate") =>
       pc[Boot] = "calibrate" /\ pc' = [pc EXCEPT ![Boot] = "calibrating"]
  /\ Step(Boot, "calibrating") =>
       pc[Boot] = "calibrating" /\ pc' = [pc EXCEPT ![Boot] = "sched"]
  /\ Step(Boot, "sched") => pc[Boot] = "sched" /\ pc' = [pc EXCEPT ![Boot] = "threads"]
  /\ Step(Boot, "threads") => pc[Boot] = "threads" /\ pc' = [pc EXCEPT ![Boot] = "map"]
  /\ Step(Boot, "map") => pc[Boot] = "map" /\ pc' = [pc EXCEPT ![Boot] = "core"]
  /\ Step(Boot, "core") => pc[Boot] = "core" /\ pc' = [pc EXCEPT ![Boot] = "init"]
  /\ Step(Boot, "delay") => pc[Boot] = "delay" /\ pc' = [pc EXCEPT ![Boot] = "sipi"]
  /\ Step(Boot, "wait") => pc[Boot] = "wait" /\ pc' = [pc EXCEPT ![Boot] = "reset"]
  /\ Step(Boot, "unmap") => pc[Boot] = "unmap" /\ pc' = [pc EXCEPT ![Boot] = "main"]
  /\ Step(Boot, "main") => pc[Boot] = "main" /\ pc' = [pc EXCEPT ![Boot] = "start"]
  /\ Step(Boot, "start") => pc[Boot] = "start" /\ pc' = [pc EXCEPT ![Boot] = "run"]
  <1>1. Order(Boot) = BspOrder
    BY DEF Order
  <1>2. ASSUME NEW n \in 1..17, Step(Boot, BspOrder[n])
        PROVE  pc[Boot] = BspOrder[n] /\ pc' = [pc EXCEPT ![Boot] = BspOrder[1 + n]]
    BY <1>1, <1>2, BspOrderIs, StepOf
  <1> QED
    BY <1>2, BspOrderIs

-----------------------------------------------------------------------------
(* Threads and queues.                                                     *)

LEMMA NoneApart == None \notin Threads /\ None \notin CPUs
  BY SmpBootAssumption DEF Threads, CPUs

LEMMA ThreadNames ==
  /\ \A c \in CPUs : Idle(c) \in Threads /\ Destroyer(c) \in Threads
  /\ Main \in Threads /\ MainLoads \in Threads
  BY SmpBootAssumption DEF Threads, Idle, Destroyer, Main, MainLoads, CPUs

\* What balance() does to the queues q: each CPU of `small` takes, from the
\* front of the queue of its partner in `big`, half of what that has more.
Half(q, c, d) == (Len(q[d]) - Len(q[c])) \div 2

Pairs(q, r, p, small, big) ==
    /\ small \in SUBSET CPUs /\ big \in SUBSET CPUs /\ small \cap big = {}
    /\ \A c \in small : p[c] \in big /\ p[p[c]] = c
    /\ \A c \in big : p[c] \in small /\ p[p[c]] = c
    /\ \A c \in small : /\ Len(q[c]) <= Len(q[p[c]])
                        /\ r[c] = q[c] \o SubSeq(q[p[c]], 1, Half(q, c, p[c]))
    /\ \A c \in big : r[c] = SubSeq(q[c], Half(q, p[c], c) + 1, Len(q[c]))
    /\ \A c \in CPUs \ (small \cup big) : r[c] = q[c]

LEMMA BalancedPairs ==
  ASSUME processors \in Seq(CPUs), NEW q \in [CPUs -> Seq(Threads)], NEW s \in Sorted(q)
  PROVE  \E p \in [CPUs -> CPUs], small \in SUBSET CPUs, big \in SUBSET CPUs :
            Pairs(q, Balanced(q, s), p, small, big)
  <1> DEFINE L == Len(processors)
             h == L \div 2
             pos(c) == CHOOSE n \in DOMAIN s : s[n] = c
             p == [c \in CPUs |-> s[L + 1 - pos(c)]]
             small == {c \in CPUs : pos(c) <= h}
             big == {c \in CPUs : pos(c) > L - h}
             r == Balanced(q, s)
  <1>1. /\ L \in Nat /\ s \in [1..L -> CPUs] /\ Len(s) = L /\ DOMAIN s = 1..L
        /\ \A m, n \in 1..L : s[m] = s[n] => m = n
        /\ \A c \in CPUs : \E n \in 1..L : s[n] = c
    BY DEF Sorted, Bijection, Injection, Surjection, IsInjective
  <1>2. \A m, n \in 1..L : m < n => Len(q[s[m]]) <= Len(q[s[n]])
    BY <1>1 DEF Sorted
  <1>3. \A c \in CPUs : pos(c) \in 1..L /\ s[pos(c)] = c
    BY <1>1
  <1>4. h \in Nat /\ h + h <= L
    BY <1>1
  <1>5. \A c \in CPUs :
          r[c] = IF pos(c) <= h THEN q[c] \o SubSeq(q[p[c]], 1, Half(q, c, p[c]))
                 ELSE IF pos(c) > L - h THEN SubSeq(q[c], Half(q, p[c], c) + 1, Len(q[c]))
                 ELSE q[c]
    BY <1>1 DEF Balanced, Half
  <1> HIDE DEF pos, r, L, h
  <1>6. ASSUME NEW c \in CPUs
        PROVE  p[c] \in CPUs /\ pos(p[c]) = L + 1 - pos(c) /\ p[p[c]] = c
    <2>1. L + 1 - pos(c) \in 1..L
      BY <1>1, <1>3
    <2>2. p[c] = s[L + 1 - pos(c)]
      OBVIOUS
    <2>3. p[c] \in CPUs
      BY <1>1, <2>1, <2>2
    <2>4. pos(p[c]) \in 1..L /\ s[pos(p[c])] = p[c]
      BY <1>3, <2>3
    <2>5. pos(p[c]) = L + 1 - pos(c)
      BY <1>1, <2>1, <2>2, <2>4
    <2>6. p[p[c]] = s[L + 1 - pos(p[c])]
      BY <2>3
    <2>7. L + 1 - pos(p[c]) = pos(c)
      BY <1>1, <1>3, <2>5
    <2> QED
      BY <1>3, <2>3, <2>5, <2>6, <2>7
  <1>7. p \in [CPUs -> CPUs]
    BY <1>6
  <1>8. /\ \A c \in small : pos(c) <= h /\ c \in CPUs
        /\ \A c \in big : pos(c) > L - h /\ c \in CPUs
        /\ \A c \in CPUs : pos(c) <= h => c \in small
        /\ \A c \in CPUs : pos(c) > L - h => c \in big
        /\ small \in SUBSET CPUs /\ big \in SUBSET CPUs
    OBVIOUS
  <1> HIDE DEF p, small, big
  <1>9. small \cap big = {}
    <2>1. ASSUME NEW c \in small, c \in big PROVE FALSE
      <3>1. pos(c) <= h /\ pos(c) > L - h /\ pos(c) \in 1..L
        BY <1>3, <1>8, <2>1
      <3> QED
        BY <1>1, <1>4, <3>1
    <2> QED
      BY <2>1
  <1>10. ASSUME NEW c \in small
         PROVE  /\ p[c] \in big /\ p[p[c]] = c
                /\ Len(q[c]) <= Len(q[p[c]])
                /\ r[c] = q[c] \o SubSeq(q[p[c]], 1, Half(q, c, p[c]))
    <2>1. c \in CPUs /\ pos(c) <= h /\ pos(c) \in 1..L
      BY <1>3, <1>8
    <2>2. p[c] \in CPUs /\ pos(p[c]) = L + 1 - pos(c) /\ p[p[c]] = c
      BY <1>6, <2>1
    <2>3. pos(p[c]) > L - h /\ pos(c) < pos(p[c])
      BY <1>1, <1>4, <2>1, <2>2
    <2>4. pos(p[c]) \in 1..L /\ s[pos(p[c])] = p[c] /\ s[pos(c)] = c
      BY <1>3, <2>1, <2>2
    <2>5. Len(q[c]) <= Len(q[p[c]])
      BY <1>2, <2>1, <2>3, <2>4
    <2> QED
      BY <1>5, <1>8, <2>1, <2>2, <2>3, <2>5
  <1>11. ASSUME NEW c \in big
         PROVE  /\ p[c] \in small /\ p[p[c]] = c
                /\ r[c] = SubSeq(q[c], Half(q, p[c], c) + 1, Len(q[c]))
    <2>1. c \in CPUs /\ pos(c) > L - h /\ pos(c) \in 1..L
      BY <1>3, <1>8
    <2>2. p[c] \in CPUs /\ pos(p[c]) = L + 1 - pos(c) /\ p[p[c]] = c
      BY <1>6, <2>1
    <2>3. pos(p[c]) <= h /\ ~(pos(c) <= h)
      BY <1>1, <1>4, <2>1, <2>2
    <2> QED
      BY <1>5, <1>8, <2>1, <2>2, <2>3
  <1>12. \A c \in CPUs \ (small \cup big) : r[c] = q[c]
    BY <1>5, <1>8
  <1>13. Pairs(q, r, p, small, big)
    BY <1>8, <1>9, <1>10, <1>11, <1>12 DEF Pairs
  <1> QED
    BY <1>7, <1>8, <1>13 DEF r

\* A move within a pair, of queues a and b, stays within the length of b.
LEMMA HalfIs ==
  ASSUME NEW S, NEW a \in Seq(S), NEW b \in Seq(S), Len(a) <= Len(b)
  PROVE  /\ (Len(b) - Len(a)) \div 2 \in Nat /\ (Len(b) - Len(a)) \div 2 <= Len(b)
         /\ Len(b) <= 1 => (Len(b) - Len(a)) \div 2 = 0
  <1>1. Len(a) \in Nat /\ Len(b) \in Nat
    OBVIOUS
  <1> QED
    BY <1>1

\* The entries of queues c and d, of which the one takes from the other.
PairKept(q, r, c, d) ==
    /\ r[c] \in Seq(Threads) /\ r[d] \in Seq(Threads)
    /\ Len(q[d]) <= 1 => Len(r[c]) = Len(q[c]) /\ Len(r[d]) = Len(q[d])
    /\ \A t : ~InSeq(t, q[d]) => /\ ~InSeq(t, r[d])
                                 /\ InSeq(t, r[c]) <=> InSeq(t, q[c])
                                 /\ Once(t, q[c]) => Once(t, r[c]) /\ Once(t, r[d])
    /\ \A t : InSeq(t, q[d]) /\ ~InSeq(t, q[c]) /\ Once(t, q[d]) =>
         /\ Once(t, r[c]) /\ Once(t, r[d])
         /\ InSeq(t, r[c]) <=> ~InSeq(t, r[d])

\* The queues of a pair after the move, and where t is in them.
LEMMA PairMoves ==
  ASSUME NEW q \in [CPUs -> Seq(Threads)], NEW r, NEW p, NEW small, NEW big,
         Pairs(q, r, p, small, big), NEW c \in small
  PROVE  c \in CPUs /\ p[c] \in CPUs /\ PairKept(q, r, c, p[c])
  <1> DEFINE d == p[c]
  <1>1. /\ d \in big /\ p[d] = c /\ c \in CPUs /\ d \in CPUs /\ Len(q[c]) <= Len(q[d])
        /\ q[c] \in Seq(Threads) /\ q[d] \in Seq(Threads)
    BY DEF Pairs
  <1> DEFINE a == q[c]
             b == q[d]
             m == (Len(b) - Len(a)) \div 2
             taken == SubSeq(b, 1, m)
             kept == SubSeq(b, m + 1, Len(b))
  <1>2. r[c] = a \o taken /\ r[d] = kept
    BY <1>1 DEF Pairs, Half
  <1>3. m \in Nat /\ m <= Len(b) /\ (Len(b) <= 1 => m = 0)
    BY <1>1, HalfIs
  <1>4. a \in Seq(Threads) /\ b \in Seq(Threads)
    BY <1>1
  <1> HIDE DEF a, b, d, PairKept, m
  <1> HIDE DEF taken, kept
  <1>5. /\ taken \in Seq(Threads) /\ Len(taken) = m /\ kept \in Seq(Threads) /\ Len(kept) = Len(b) - m
        /\ \A t : /\ InSeq(t, b) <=> InSeq(t, taken) \/ InSeq(t, kept)
                  /\ Once(t, b) => Once(t, taken) /\ Once(t, kept) /\ ~(InSeq(t, taken) /\ InSeq(t, kept))
    <2>1. ASSUME NEW t
          PROVE  /\ taken \in Seq(Threads) /\ Len(taken) = m /\ kept \in Seq(Threads) /\ Len(kept) = Len(b) - m
                 /\ InSeq(t, b) <=> InSeq(t, taken) \/ InSeq(t, kept)
                 /\ Once(t, b) => Once(t, taken) /\ Once(t, kept) /\ ~(InSeq(t, taken) /\ InSeq(t, kept))
      <3>1. b \in Seq(Threads) /\ m \in Nat /\ m <= Len(b)
        BY <1>3, <1>4
      <3> QED
        BY <3>1, CutOccurs DEF taken, kept
    <2> QED
      BY <2>1
  <1>6. /\ a \o taken \in Seq(Threads) /\ Len(a \o taken) = Len(a) + Len(taken)
        /\ \A t : /\ InSeq(t, a \o taken) <=> InSeq(t, a) \/ InSeq(t, taken)
                  /\ Once(t, a) /\ Once(t, taken) /\ ~(InSeq(t, a) /\ InSeq(t, taken)) => Once(t, a \o taken)
    <2>1. a \in Seq(Threads) /\ taken \in Seq(Threads)
      BY <1>4, <1>5
    <2> QED
      BY <2>1, ConcatOccurs
  <1>7. Len(a) \in Nat /\ Len(b) \in Nat
    BY <1>4
  <1>8. \A t, x : ~InSeq(t, x) => Once(t, x)
    BY DEF InSeq, Once
  <1>9. Len(b) <= 1 => Len(r[c]) = Len(a) /\ Len(r[d]) = Len(b)
    BY <1>2, <1>3, <1>5, <1>6, <1>7
  <1> QED
    BY <1>1, <1>2, <1>5, <1>6, <1>8, <1>9 DEF a, b, d, PairKept

\* What balance() leaves are queues of threads.
LEMMA BalancedType ==
  ASSUME processors \in Seq(CPUs), NEW q \in [CPUs -> Seq(Threads)], NEW s \in Sorted(q)
  PROVE  Balanced(q, s) \in [CPUs -> Seq(Threads)]
  <1> DEFINE r == Balanced(q, s)
  <1>1. PICK p \in [CPUs -> CPUs], small \in SUBSET CPUs, big \in SUBSET CPUs :
               Pairs(q, r, p, small, big)
    BY BalancedPairs
  <1>2. ASSUME NEW c \in CPUs PROVE r[c] \in Seq(Threads)
    <2> HIDE DEF r
    <2>1. CASE c \in small
      BY <1>1, <2>1, PairMoves DEF PairKept
    <2>2. CASE c \in big
      <3>1. p[c] \in small /\ c = p[p[c]]
        BY <1>1, <2>2 DEF Pairs
      <3> QED
        BY <1>1, <3>1, PairMoves DEF PairKept
    <2>3. CASE c \notin small \cup big
      BY <1>1, <2>3 DEF Pairs
    <2> QED
      BY <2>1, <2>2, <2>3
  <1>3. r = [c \in CPUs |-> r[c]]
    BY DEF Balanced
  <1> HIDE DEF r
  <1> QED
    BY <1>2, <1>3 DEF r

\* The CPU that switches gets a thread, and the queues keep threads.
LEMMA SwitchType ==
  ASSUME processors \in Seq(CPUs), NEW q \in [CPUs -> Seq(Threads)], NEW c \in CPUs,
         SwitchNext(c, q)
  PROVE  /\ queue' \in [CPUs -> Seq(Threads)]
         /\ \E t \in Threads : current' = [current EXCEPT ![c] = t]
  <1>1. \A r \in [CPUs -> Seq(Threads)] : BalanceMay(r) \subseteq [CPUs -> Seq(Threads)]
    BY BalancedType DEF BalanceMay
  <1>2. ASSUME NEW d \in CPUs, q[d] # << >>
        PROVE  /\ Head(q[d]) \in Threads
               /\ [q EXCEPT ![d] = Tail(@)] \in [CPUs -> Seq(Threads)]
    BY <1>2, HeadTailIn
  <1>3. CASE q[c] # << >> /\ current' = [current EXCEPT ![c] = Head(q[c])]
             /\ queue' \in BalanceMay([q EXCEPT ![c] = Tail(@)])
    BY <1>1, <1>2, <1>3
  <1>4. ASSUME NEW d \in CPUs \ {c}, q[d] # << >>, current' = [current EXCEPT ![c] = Head(q[d])],
               queue' \in BalanceMay([q EXCEPT ![d] = Tail(@)])
        PROVE  /\ queue' \in [CPUs -> Seq(Threads)]
               /\ \E t \in Threads : current' = [current EXCEPT ![c] = t]
    BY <1>1, <1>2, <1>4
  <1>5. CASE current' = [current EXCEPT ![c] = Idle(c)] /\ queue' = q
    BY <1>5, ThreadNames
  <1> QED
    BY <1>3, <1>4, <1>5 DEF SwitchNext

-----------------------------------------------------------------------------
(* The steps of a processor, and what they leave to the others.            *)

\* Nothing of what processor d has set up changes.
Same(d) ==
    /\ pc'[d] = pc[d] /\ gs'[d] = gs[d] /\ stack'[d] = stack[d]
    /\ table'[d] = table[d] /\ current'[d] = current[d]
    /\ (d \in idt' <=> d \in idt) /\ (d \in pit' <=> d \in pit)
    /\ (d \in timer' <=> d \in timer) /\ (d \in if' <=> d \in if)

LEMMA SameApInv ==
  ASSUME NEW d \in Aps, ApInv(d), Same(d)
  PROVE  ApInv(d)'
  BY DEF ApInv, Same

LEMMA SameBootInv ==
  ASSUME BootInv, Same(Boot)
  PROVE  BootInv'
  BY DEF BootInv, Same

LEMMA AfterHeapIs ==
  ASSUME NEW c \in CPUs, gs[c] # None
  PROVE  AfterHeap(c) = if \ {c}
  BY DEF AfterHeap

LEMMA BootIn == Boot \in CPUs /\ Boot \notin Aps /\ Aps \subseteq CPUs
  BY SmpBootAssumption DEF CPUs, Aps

\* The CPU structure of a processor that has one is its own.
LEMMA OwnGs ==
  ASSUME TypeOK, MadtInv, BootInv, \A c \in Aps : ApInv(c), NEW c \in CPUs, gs[c] # None
  PROVE  gs[c] = c
  BY DEF MadtInv, ApInv, Aps

\* A processor past the creation of its structure has it.
LEMMA HasGs ==
  ASSUME TypeOK, MadtInv, BootInv, \A c \in Aps : ApInv(c), NEW c \in CPUs,
         pc[c] \notin NoCpu \/ c = Boot, pc[c] # "acpi"
  PROVE  gs[c] = c
  <1>1. CASE c \in Aps
    BY <1>1, BootIn DEF ApInv
  <1>2. CASE c = Boot
    <2>1. entry = Len(Listed) + 1
      BY <1>2 DEF MadtInv
    <2>2. \E n \in 1..entry-1 : Listed[n] \in CPUs
      <3>1. DOMAIN Listed = 1..Len(Listed) /\ Len(Listed) \in Nat
        BY SmpBootAssumption
      <3>2. PICK n \in DOMAIN Listed : Listed[n] = Boot
        BY SmpBootAssumption
      <3>3. n \in 1..entry-1
        BY <2>1, <3>1
      <3> QED
        BY <3>2, <3>3, BootIn
    <2>3. processors # << >>
      BY <2>2 DEF MadtInv
    <2> QED
      BY <1>2, <2>3 DEF MadtInv
  <1> QED
    BY <1>1, <1>2 DEF Aps

\* The invariant but for the handshake.
Local ==
    /\ TypeOK /\ MadtInv /\ BootInv /\ (\A c \in Aps : ApInv(c))
    /\ timer # {} => tickVector

\* A thread that a switch gives CPU c.
LEMMA SwitchGives ==
  ASSUME Local, NEW c \in CPUs, NEW q \in [CPUs -> Seq(Threads)], SwitchNext(c, q)
  PROVE  /\ current' \in [CPUs -> Threads \cup {None}]
         /\ current'[c] # None
         /\ \A d \in CPUs : d # c => current'[d] = current[d]
         /\ queue' \in [CPUs -> Seq(Threads)]
  <1>1. /\ queue' \in [CPUs -> Seq(Threads)]
        /\ \E t \in Threads : current' = [current EXCEPT ![c] = t]
    BY SwitchType DEF Local, TypeOK
  <1> QED
    BY <1>1, NoneApart DEF Local, TypeOK

LEMMA RunStepLocal ==
  ASSUME Local, NEW c \in CPUs, RunStep(c)
  PROVE  /\ TypeOK' /\ \A d \in CPUs : (d # c => Same(d))
         /\ pc' = pc /\ current[c] # None /\ current'[c] # None
         /\ UNCHANGED <<bootVars, deviceVars, if>>
  <1>1. pc[c] = "run" /\ gs[c] = c /\ current[c] # None
    <2>1. pc[c] = "run"
      BY DEF RunStep, Preempt, MainSyscalls, MainExit
    <2>2. gs[c] = c
      BY <2>1, HasGs DEF Local, NoCpu
    <2>3. current[c] # None
      BY <2>1, BootIn DEF Local, ApInv, BootInv, NoThread, NoCpu, BeforeSmp, Aps
    <2> QED
      BY <2>1, <2>2, <2>3
  <1>2. current[c] \in Threads
    BY <1>1 DEF Local, TypeOK
  <1>3. CASE Preempt(c)
    <2> DEFINE q == [queue EXCEPT ![c] = Append(@, current[c])]
    <2>1. q \in [CPUs -> Seq(Threads)]
      BY <1>2 DEF Local, TypeOK
    <2>2. SwitchNext(c, q)
      BY <1>1, <1>3 DEF Preempt
    <2> HIDE DEF q
    <2> QED
      BY <1>1, <1>3, <2>1, <2>2, SwitchGives
         DEF Preempt, Local, TypeOK, Same, bootVars, deviceVars
  <1>4. CASE MainSyscalls(c)
    BY <1>1, <1>4, ThreadNames, NoneApart DEF MainSyscalls, Local, TypeOK, Same, bootVars, deviceVars
  <1>5. CASE MainExit(c)
    <2>1. queue \in [CPUs -> Seq(Threads)] /\ SwitchNext(c, queue)
      BY <1>1, <1>5 DEF MainExit, Local, TypeOK
    <2> QED
      BY <1>1, <1>5, <2>1, SwitchGives DEF MainExit, Local, TypeOK, Same, bootVars, deviceVars
  <1> QED
    BY <1>3, <1>4, <1>5 DEF RunStep

\* What a step of processor c leaves alone.
Alone(c) ==
    /\ \A d \in CPUs : d # c => Same(d)
    /\ UNCHANGED <<processors, entry, core, apStack, apCoreIndex, mapped>>
    /\ gs'[Boot] = gs[Boot]

\* The step of c in the handshake.
Moves(c) ==
    \/ /\ pc[c] \in Working /\ pc'[c] \in Working /\ started' = started
    \/ /\ pc[c] = "signal" /\ pc'[c] = "start" /\ started' = TRUE
    \/ /\ pc[c] = "start" /\ pc'[c] = "run" /\ started' = started

LEMMA ApStepLocal ==
  ASSUME Local, HandshakeInv, NEW c \in Aps, ApStep(c)
  PROVE  TypeOK' /\ Alone(c) /\ Moves(c) /\ ApInv(c)' /\ timer' = timer /\ tickVector' = tickVector
  <1>0. /\ c \in CPUs /\ Boot \in CPUs /\ c # Boot /\ ApInv(c) /\ TypeOK
        /\ None \notin CPUs
    BY BootIn, NoneApart DEF Local
  <1>00. pc[c] \in Working => /\ apStack = c /\ apCoreIndex \in DOMAIN processors
                              /\ processors[apCoreIndex] = c
    BY <1>0 DEF HandshakeInv, Working, Idling
  <1> USE <1>0 DEF TypeOK, ApInv, NoThread, NoCpu, bootVars, deviceVars
  <1>1. CASE LongMode(c)
    <2>1. pc[c] = "real" /\ pc' = [pc EXCEPT ![c] = "long"]
      BY <1>1, ApNext DEF LongMode
    <2>2. TypeOK'
      BY <1>1, <2>1 DEF LongMode, TypeOK, Steps
    <2>3. Alone(c)
      BY <1>1, <2>1 DEF LongMode, Alone, Same
    <2>4. Moves(c)
      BY <1>1, <2>1 DEF LongMode, Moves, Working
    <2>5. ApInv(c)'
      BY <1>1, <2>1 DEF LongMode, ApInv, Idling, Working
    <2> QED
      BY <1>1, <2>2, <2>3, <2>4, <2>5 DEF LongMode
  <1>2. CASE TakeStack(c)
    <2>1. pc[c] = "long" /\ pc' = [pc EXCEPT ![c] = "entry"]
      BY <1>2, ApNext DEF TakeStack
    <2>0. apStack = c /\ processors[apCoreIndex] = c
      BY <1>00, <2>1 DEF Working, NoCpu
    <2>2. TypeOK'
      BY <1>2, <2>0, <2>1 DEF TakeStack, TypeOK, Steps
    <2>3. Alone(c)
      BY <1>2, <2>0, <2>1 DEF TakeStack, Alone, Same
    <2>4. Moves(c)
      BY <1>2, <2>1 DEF TakeStack, Moves, Working
    <2>5. ApInv(c)'
      BY <1>2, <2>0, <2>1 DEF TakeStack, ApInv, Idling, Working
    <2> QED
      BY <1>2, <2>2, <2>3, <2>4, <2>5 DEF TakeStack
  <1>3. CASE InitCPU(c)
    <2>1. pc[c] = "entry" /\ pc' = [pc EXCEPT ![c] = "sched"]
      BY <1>3, ApNext DEF InitCPU
    <2>0. apStack = c /\ processors[apCoreIndex] = c
      BY <1>00, <2>1 DEF Working, NoCpu
    <2>2. TypeOK'
      BY <1>3, <2>0, <2>1 DEF InitCPU, TypeOK, Steps
    <2>3. Alone(c)
      BY <1>3, <2>0, <2>1 DEF InitCPU, Alone, Same
    <2>4. Moves(c)
      BY <1>3, <2>1 DEF InitCPU, Moves, Working
    <2>5. ApInv(c)'
      BY <1>3, <2>0, <2>1 DEF InitCPU, ApInv, Idling, Working
    <2> QED
      BY <1>3, <2>2, <2>3, <2>4, <2>5 DEF InitCPU
  <1>4. CASE IdtInitAp(c)
    <2>1. pc[c] = "idt" /\ pc' = [pc EXCEPT ![c] = "apic"]
      BY <1>4, ApNext DEF IdtInitAp
    <2>2. TypeOK'
      BY <1>4, <2>1 DEF IdtInitAp, TypeOK, Steps
    <2>3. Alone(c)
      BY <1>4, <2>1 DEF IdtInitAp, Alone, Same
    <2>4. Moves(c)
      BY <1>4, <2>1 DEF IdtInitAp, Moves, Working
    <2>5. ApInv(c)'
      BY <1>4, <2>1 DEF IdtInitAp, ApInv, Idling, Working
    <2> QED
      BY <1>4, <2>2, <2>3, <2>4, <2>5 DEF IdtInitAp
  <1>5. CASE InitSyscalls(c)
    <2>1. pc[c] = "syscalls" /\ pc' = [pc EXCEPT ![c] = "signal"]
      BY <1>5, ApNext DEF InitSyscalls
    <2>2. TypeOK'
      BY <1>5, <2>1 DEF InitSyscalls, TypeOK, Steps
    <2>3. Alone(c)
      BY <1>5, <2>1 DEF InitSyscalls, Alone, Same
    <2>4. Moves(c)
      BY <1>5, <2>1 DEF InitSyscalls, Moves, Working
    <2>5. ApInv(c)'
      BY <1>5, <2>1 DEF InitSyscalls, ApInv, Idling, Working
    <2> QED
      BY <1>5, <2>2, <2>3, <2>4, <2>5 DEF InitSyscalls
  <1>6. CASE Signal(c)
    <2>1. pc[c] = "signal" /\ pc' = [pc EXCEPT ![c] = "start"]
      BY <1>6, ApNext DEF Signal
    <2>2. TypeOK'
      BY <1>6, <2>1 DEF Signal, TypeOK, Steps
    <2>3. Alone(c)
      BY <1>6, <2>1 DEF Signal, Alone, Same
    <2>4. Moves(c)
      BY <1>6, <2>1 DEF Signal, Moves, Working
    <2>5. ApInv(c)'
      BY <1>6, <2>1 DEF Signal, ApInv, Idling, Working
    <2> QED
      BY <1>6, <2>2, <2>3, <2>4, <2>5 DEF Signal
  <1> QED
    BY <1>1, <1>2, <1>3, <1>4, <1>5, <1>6 DEF ApStep

LEMMA ApStartLocal ==
  ASSUME Local, NEW c \in Aps, StartStep(c)
  PROVE  /\ TypeOK' /\ Alone(c) /\ Moves(c) /\ ApInv(c)'
         /\ (tickVector => tickVector') /\ (timer' = timer \/ tickVector')
  <1>0. /\ c \in CPUs /\ Boot \in CPUs /\ c # Boot /\ ApInv(c) /\ TypeOK
        /\ None \notin CPUs /\ None \notin Threads
        /\ Idle(c) \in Threads /\ Destroyer(c) \in Threads
    BY BootIn, NoneApart, ThreadNames DEF Local
  <1>w. pc[c] \in Working \cup {"start"} => pc[c] # "acpi"
    BY DEF Working
  <1>00. pc[c] \in Working \cup {"start"} /\ pc[c] \notin NoCpu => gs[c] = c /\ AfterHeap(c) = if \ {c}
    BY <1>0, HasGs, AfterHeapIs, <1>w DEF Local
  <1> USE <1>0 DEF TypeOK, ApInv, NoThread, NoCpu, bootVars, deviceVars
  <1>1. CASE GdtInstall(c)
    <2>1. pc[c] = "gdt" /\ pc' = [pc EXCEPT ![c] = "idt"]
      BY <1>1, ApNext DEF GdtInstall
    <2>0. gs[c] = c /\ AfterHeap(c) = if \ {c}
      BY <1>00, <2>1 DEF Working, NoCpu
    <2>2. TypeOK'
      BY <1>1, <2>0, <2>1 DEF GdtInstall, TypeOK, Steps
    <2>3. Alone(c)
      BY <1>1, <2>0, <2>1 DEF GdtInstall, Alone, Same
    <2>4. Moves(c)
      BY <1>1, <2>1 DEF GdtInstall, Moves, Working
    <2>5. ApInv(c)'
      BY <1>1, <2>0, <2>1 DEF GdtInstall, ApInv, Idling, Working
    <2> QED
      BY <1>1, <2>2, <2>3, <2>4, <2>5 DEF GdtInstall
  <1>2. CASE ApicInit(c)
    <2>1. pc[c] = "apic" /\ pc' = [pc EXCEPT ![c] = "calibrate"]
      BY <1>2, ApNext DEF ApicInit
    <2>2. TypeOK'
      BY <1>2, <2>1 DEF ApicInit, TypeOK, Steps
    <2>3. Alone(c)
      BY <1>2, <2>1 DEF ApicInit, Alone, Same
    <2>4. Moves(c)
      BY <1>2, <2>1 DEF ApicInit, Moves, Working
    <2>5. ApInv(c)'
      BY <1>2, <2>1 DEF ApicInit, ApInv, Idling, Working
    <2> QED
      BY <1>2, <2>2, <2>3, <2>4, <2>5 DEF ApicInit
  <1>3. CASE Calibrate(c)
    <2>1. pc[c] = "calibrate" /\ pc' = [pc EXCEPT ![c] = "calibrating"]
      BY <1>3, ApNext DEF Calibrate
    <2>2. TypeOK'
      BY <1>3, <2>1 DEF Calibrate, TypeOK, Steps
    <2>3. Alone(c)
      BY <1>3, <2>1 DEF Calibrate, Alone, Same
    <2>4. Moves(c)
      BY <1>3, <2>1 DEF Calibrate, Moves, Working
    <2>5. ApInv(c)'
      BY <1>3, <2>1 DEF Calibrate, ApInv, Idling, Working
    <2> QED
      BY <1>3, <2>2, <2>3, <2>4, <2>5 DEF Calibrate
  <1>4. CASE Calibrated(c)
    <2>1. pc[c] = "calibrating" /\ pc' = [pc EXCEPT ![c] = "syscalls"]
      BY <1>4, ApNext DEF Calibrated
    <2>2. TypeOK'
      BY <1>4, <2>1 DEF Calibrated, TypeOK, Steps
    <2>3. Alone(c)
      BY <1>4, <2>1 DEF Calibrated, Alone, Same
    <2>4. Moves(c)
      BY <1>4, <2>1 DEF Calibrated, Moves, Working
    <2>5. ApInv(c)'
      BY <1>4, <2>1 DEF Calibrated, ApInv, Idling, Working
    <2> QED
      BY <1>4, <2>2, <2>3, <2>4, <2>5 DEF Calibrated
  <1>5. CASE SchedulerInit(c)
    <2>1. pc[c] = "sched" /\ pc' = [pc EXCEPT ![c] = "threads"]
      BY <1>5, ApNext DEF SchedulerInit
    <2>0. gs[c] = c /\ AfterHeap(c) = if \ {c}
      BY <1>00, <2>1 DEF Working, NoCpu
    <2>2. TypeOK'
      BY <1>5, <2>0, <2>1 DEF SchedulerInit, TypeOK, Steps
    <2>3. Alone(c)
      BY <1>5, <2>0, <2>1 DEF SchedulerInit, Alone, Same
    <2>4. Moves(c)
      BY <1>5, <2>1 DEF SchedulerInit, Moves, Working
    <2>5. ApInv(c)'
      BY <1>5, <2>0, <2>1 DEF SchedulerInit, ApInv, Idling, Working
    <2> QED
      BY <1>5, <2>2, <2>3, <2>4, <2>5 DEF SchedulerInit
  <1>6. CASE CreateThreads(c)
    <2>1. pc[c] = "threads" /\ pc' = [pc EXCEPT ![c] = "gdt"]
      BY <1>6, ApNext DEF CreateThreads
    <2>0. gs[c] = c /\ AfterHeap(c) = if \ {c}
      BY <1>00, <2>1 DEF Working, NoCpu
    <2>2. TypeOK'
      BY <1>6, <2>0, <2>1 DEF CreateThreads, TypeOK, Steps
    <2>3. Alone(c)
      BY <1>6, <2>0, <2>1 DEF CreateThreads, Alone, Same
    <2>4. Moves(c)
      BY <1>6, <2>1 DEF CreateThreads, Moves, Working
    <2>5. ApInv(c)'
      BY <1>6, <2>0, <2>1 DEF CreateThreads, ApInv, Idling, Working
    <2> QED
      BY <1>6, <2>2, <2>3, <2>4, <2>5 DEF CreateThreads
  <1>7. CASE Start(c)
    <2>1. pc[c] = "start" /\ pc' = [pc EXCEPT ![c] = "run"]
      BY <1>7, ApNext DEF Start
    <2>2. gs[c] = c
      BY <1>00, <2>1 DEF NoCpu
    <2>3. SwitchNext(c, queue) /\ queue \in [CPUs -> Seq(Threads)]
      BY <1>7, <2>2 DEF Start
    <2>4. /\ current' \in [CPUs -> Threads \cup {None}] /\ current'[c] # None
          /\ \A d \in CPUs : d # c => current'[d] = current[d]
          /\ queue' \in [CPUs -> Seq(Threads)]
      BY <2>3, SwitchGives
    <2>5. TypeOK'
      BY <1>7, <2>1, <2>4 DEF Start, Steps
    <2>6. Alone(c)
      BY <1>7, <2>1, <2>4 DEF Start, Alone, Same
    <2>7. Moves(c)
      BY <1>7, <2>1 DEF Start, Moves
    <2>8. ApInv(c)'
      BY <1>7, <2>1, <2>4 DEF Start, Idling
    <2> QED
      BY <1>7, <2>5, <2>6, <2>7, <2>8 DEF Start
  <1> QED
    BY <1>1, <1>2, <1>3, <1>4, <1>5, <1>6, <1>7 DEF StartStep

\* The handshake through a step of a processor that is not the boot one.
LEMMA ApHandshake ==
  ASSUME Local, HandshakeInv, NEW c \in Aps, Alone(c), Moves(c), TypeOK'
  PROVE  HandshakeInv'
  <1>0. /\ c \in CPUs /\ Boot \in CPUs /\ c # Boot /\ TypeOK
        /\ \A d \in CPUs : d # c => pc'[d] = pc[d]
        /\ UNCHANGED <<processors, core, apStack, apCoreIndex, mapped>>
        /\ \A i \in DOMAIN processors : processors[i] \in CPUs
        /\ \A i, j \in DOMAIN processors : processors[i] = processors[j] => i = j
    BY BootIn DEF Local, Alone, Same, TypeOK, MadtInv
  <1>1. pc'[Boot] = pc[Boot]
    BY <1>0
  <1>2. pc[c] \in Working => pc[Boot] = "wait" /\ c = processors[core] /\ core \in DOMAIN processors
    BY DEF HandshakeInv, Working, Idling, InLoop
  <1>3. \A d \in Aps :
          \/ pc'[d] \in Idling
          \/ /\ pc[Boot] \in InLoop \ {"core"} /\ d = processors[core]
             /\ pc'[d] = "sipi" <=> pc[Boot] \in {"delay", "sipi"}
             /\ pc'[d] \in Working <=> pc[Boot] = "wait"
    <2> SUFFICES ASSUME NEW d \in Aps
                 PROVE \/ pc'[d] \in Idling
                       \/ /\ pc[Boot] \in InLoop \ {"core"} /\ d = processors[core]
                          /\ pc'[d] = "sipi" <=> pc[Boot] \in {"delay", "sipi"}
                          /\ pc'[d] \in Working <=> pc[Boot] = "wait"
      OBVIOUS
    <2>1. CASE d = c
      BY <1>2, <2>1 DEF Moves, Idling, Working, InLoop
    <2>2. CASE d # c
      BY <1>0, <2>2, BootIn DEF HandshakeInv
    <2> QED
      BY <2>1, <2>2
  <1>4. \A i \in DOMAIN processors : processors[i] # Boot =>
          /\ (i < core => pc'[processors[i]] \in {"start", "run"})
          /\ (i > core => pc'[processors[i]] = "off")
          /\ (i = core /\ pc[Boot] \in BeforeSmp \cup {"core", "init"} => pc'[processors[i]] = "off")
          /\ (i = core /\ pc[Boot] \in {"delay", "sipi"} => pc'[processors[i]] = "sipi")
          /\ (i = core /\ pc[Boot] \in {"wait", "reset"} => pc'[processors[i]] # "off")
    <2> SUFFICES ASSUME NEW i \in DOMAIN processors, processors[i] # Boot
                 PROVE  /\ (i < core => pc'[processors[i]] \in {"start", "run"})
                        /\ (i > core => pc'[processors[i]] = "off")
                        /\ (i = core /\ pc[Boot] \in BeforeSmp \cup {"core", "init"} => pc'[processors[i]] = "off")
                        /\ (i = core /\ pc[Boot] \in {"delay", "sipi"} => pc'[processors[i]] = "sipi")
                        /\ (i = core /\ pc[Boot] \in {"wait", "reset"} => pc'[processors[i]] # "off")
      OBVIOUS
    <2>1. CASE processors[i] = c
      <3>1. pc[c] \in Working => i = core
        BY <1>0, <1>2, <2>1
      <3>2. core \in Nat /\ i \in Nat
        BY DEF TypeOK, Local
      <3>3. /\ (i < core => pc[c] \in {"start", "run"})
            /\ (i > core => pc[c] = "off")
            /\ (i = core /\ pc[Boot] \in BeforeSmp \cup {"core", "init"} => pc[c] = "off")
            /\ (i = core /\ pc[Boot] \in {"delay", "sipi"} => pc[c] = "sipi")
        BY <2>1 DEF HandshakeInv
      <3>4. /\ pc'[c] \in Working \cup {"start", "run"} /\ pc[c] # "off"
            /\ (pc[c] = "start" => pc'[c] = "run") /\ pc[c] \in Working \cup {"start"}
        BY DEF Moves, Working
      <3> QED
        BY <2>1, <3>1, <3>2, <3>3, <3>4 DEF Working
    <2>2. CASE processors[i] # c
      BY <1>0, <2>2 DEF HandshakeInv
    <2> QED
      BY <2>1, <2>2
  <1>5. /\ started' <=> pc[Boot] \in {"wait", "reset"} /\ pc'[processors[core]] \in {"start", "run"}
        /\ pc[Boot] = "reset" => started'
    <2>1. CASE pc[Boot] \in {"wait", "reset"}
      <3>1. processors[core] \in CPUs /\ core \in DOMAIN processors
        BY <1>0, <2>1 DEF HandshakeInv, InLoop
      <3>2. /\ started <=> pc[processors[core]] \in {"start", "run"}
            /\ pc[Boot] = "reset" => started
        BY <2>1 DEF HandshakeInv
      <3> QED
        BY <1>0, <1>2, <2>1, <3>1, <3>2 DEF Moves, Working
    <2>2. CASE pc[Boot] \notin {"wait", "reset"}
      BY <1>2, <2>2 DEF Moves, HandshakeInv, Working
    <2> QED
      BY <2>1, <2>2
  <1>6. pc[Boot] \notin BeforeSmp
    BY <1>0 DEF HandshakeInv, Moves, Working
  <1> QED
    BY <1>0, <1>1, <1>3, <1>4, <1>5, <1>6 DEF HandshakeInv

\* The processors that are not the boot one keep the part of the boot one.
LEMMA AloneMadt ==
  ASSUME Local, NEW c \in CPUs, Alone(c), c # Boot \/ (pc[Boot] # "acpi" /\ pc'[Boot] # "acpi")
  PROVE  MadtInv'
  BY BootIn DEF Local, MadtInv, Alone, Same

LEMMA ApLocal ==
  ASSUME Local, NEW c \in Aps, Alone(c), TypeOK', ApInv(c)',
         tickVector => tickVector', timer' = timer \/ tickVector'
  PROVE  Local'
  <1>1. BootInv' /\ \A d \in Aps : ApInv(d)'
    BY SameApInv, SameBootInv, BootIn DEF Alone, Local
  <1>2. MadtInv'
    BY AloneMadt, BootIn
  <1> QED
    BY <1>1, <1>2 DEF Local

-----------------------------------------------------------------------------
(* The boot processor.                                                     *)

\* Its steps within a phase of the handshake.
BootMoves ==
    /\ pc[Boot] # "acpi" /\ pc'[Boot] # "acpi" /\ started' = started
    /\ \/ pc[Boot] \in BeforeSmp /\ pc'[Boot] \in BeforeSmp
       \/ pc[Boot] = "delay" /\ pc'[Boot] = "sipi"
       \/ pc[Boot] \in AfterSmp /\ pc'[Boot] \in AfterSmp

LEMMA BootStartLocal ==
  ASSUME Local, StartStep(Boot)
  PROVE  /\ TypeOK' /\ Alone(Boot) /\ BootMoves /\ BootInv'
         /\ (tickVector => tickVector') /\ (timer' = timer \/ tickVector')
  <1>0. /\ Boot \in CPUs /\ BootInv /\ TypeOK
        /\ None \notin CPUs /\ None \notin Threads
        /\ Idle(Boot) \in Threads /\ Destroyer(Boot) \in Threads
    BY BootIn, NoneApart, ThreadNames DEF Local
  <1>00. pc[Boot] # "acpi" => gs[Boot] = Boot /\ AfterHeap(Boot) = if \ {Boot}
    BY <1>0, HasGs, AfterHeapIs DEF Local
  <1> USE <1>0 DEF TypeOK, BootInv, BeforeSmp, bootVars, deviceVars
  <1>1. CASE GdtInstall(Boot)
    <2>1. pc[Boot] = "gdt" /\ pc' = [pc EXCEPT ![Boot] = "apic"]
      BY <1>1, BspNext DEF GdtInstall
    <2>0. gs[Boot] = Boot /\ AfterHeap(Boot) = if \ {Boot}
      BY <1>00, <2>1 DEF NoCpu
    <2>2. TypeOK'
      BY <1>1, <2>0, <2>1 DEF GdtInstall, TypeOK, Steps
    <2>3. Alone(Boot)
      BY <1>1, <2>0, <2>1 DEF GdtInstall, Alone, Same
    <2>4. BootInv'
      BY <1>1, <2>0, <2>1 DEF GdtInstall, BootInv, InLoop, AfterSmp
    <2> QED
      BY <1>1, <2>1, <2>2, <2>3, <2>4 DEF GdtInstall, BootMoves, BeforeSmp, AfterSmp, InLoop
  <1>2. CASE ApicInit(Boot)
    <2>1. pc[Boot] = "apic" /\ pc' = [pc EXCEPT ![Boot] = "calibrate"]
      BY <1>2, BspNext DEF ApicInit
    <2>2. TypeOK'
      BY <1>2, <2>1 DEF ApicInit, TypeOK, Steps
    <2>3. Alone(Boot)
      BY <1>2, <2>1 DEF ApicInit, Alone, Same
    <2>4. BootInv'
      BY <1>2, <2>1 DEF ApicInit, BootInv, InLoop, AfterSmp
    <2> QED
      BY <1>2, <2>1, <2>2, <2>3, <2>4 DEF ApicInit, BootMoves, BeforeSmp, AfterSmp, InLoop
  <1>3. CASE Calibrate(Boot)
    <2>1. pc[Boot] = "calibrate" /\ pc' = [pc EXCEPT ![Boot] = "calibrating"]
      BY <1>3, BspNext DEF Calibrate
    <2>2. TypeOK'
      BY <1>3, <2>1 DEF Calibrate, TypeOK, Steps
    <2>3. Alone(Boot)
      BY <1>3, <2>1 DEF Calibrate, Alone, Same
    <2>4. BootInv'
      BY <1>3, <2>1 DEF Calibrate, BootInv, InLoop, AfterSmp
    <2> QED
      BY <1>3, <2>1, <2>2, <2>3, <2>4 DEF Calibrate, BootMoves, BeforeSmp, AfterSmp, InLoop
  <1>4. CASE Calibrated(Boot)
    <2>1. pc[Boot] = "calibrating" /\ pc' = [pc EXCEPT ![Boot] = "sched"]
      BY <1>4, BspNext DEF Calibrated
    <2>2. TypeOK'
      BY <1>4, <2>1 DEF Calibrated, TypeOK, Steps
    <2>3. Alone(Boot)
      BY <1>4, <2>1 DEF Calibrated, Alone, Same
    <2>4. BootInv'
      BY <1>4, <2>1 DEF Calibrated, BootInv, InLoop, AfterSmp
    <2> QED
      BY <1>4, <2>1, <2>2, <2>3, <2>4 DEF Calibrated, BootMoves, BeforeSmp, AfterSmp, InLoop
  <1>5. CASE SchedulerInit(Boot)
    <2>1. pc[Boot] = "sched" /\ pc' = [pc EXCEPT ![Boot] = "threads"]
      BY <1>5, BspNext DEF SchedulerInit
    <2>0. gs[Boot] = Boot /\ AfterHeap(Boot) = if \ {Boot}
      BY <1>00, <2>1 DEF NoCpu
    <2>2. TypeOK'
      BY <1>5, <2>0, <2>1 DEF SchedulerInit, TypeOK, Steps
    <2>3. Alone(Boot)
      BY <1>5, <2>0, <2>1 DEF SchedulerInit, Alone, Same
    <2>4. BootInv'
      BY <1>5, <2>0, <2>1 DEF SchedulerInit, BootInv, InLoop, AfterSmp
    <2> QED
      BY <1>5, <2>1, <2>2, <2>3, <2>4 DEF SchedulerInit, BootMoves, BeforeSmp, AfterSmp, InLoop
  <1>6. CASE CreateThreads(Boot)
    <2>1. pc[Boot] = "threads" /\ pc' = [pc EXCEPT ![Boot] = "map"]
      BY <1>6, BspNext DEF CreateThreads
    <2>0. gs[Boot] = Boot /\ AfterHeap(Boot) = if \ {Boot}
      BY <1>00, <2>1 DEF NoCpu
    <2>2. TypeOK'
      BY <1>6, <2>0, <2>1 DEF CreateThreads, TypeOK, Steps
    <2>3. Alone(Boot)
      BY <1>6, <2>0, <2>1 DEF CreateThreads, Alone, Same
    <2>4. BootInv'
      BY <1>6, <2>0, <2>1 DEF CreateThreads, BootInv, InLoop, AfterSmp
    <2> QED
      BY <1>6, <2>1, <2>2, <2>3, <2>4 DEF CreateThreads, BootMoves, BeforeSmp, AfterSmp, InLoop
  <1>7. CASE Start(Boot)
    <2>1. pc[Boot] = "start" /\ pc' = [pc EXCEPT ![Boot] = "run"]
      BY <1>7, BspNext DEF Start
    <2>2. gs[Boot] = Boot
      BY <1>00, <2>1
    <2>3. SwitchNext(Boot, queue) /\ queue \in [CPUs -> Seq(Threads)]
      BY <1>7, <2>2 DEF Start
    <2>4. /\ current' \in [CPUs -> Threads \cup {None}] /\ current'[Boot] # None
          /\ \A d \in CPUs : d # Boot => current'[d] = current[d]
          /\ queue' \in [CPUs -> Seq(Threads)]
      BY <2>3, SwitchGives
    <2>5. TypeOK'
      BY <1>7, <2>1, <2>4 DEF Start, Steps
    <2>6. Alone(Boot)
      BY <1>7, <2>1, <2>4 DEF Start, Alone, Same
    <2>7. BootInv'
      BY <1>7, <2>1, <2>4 DEF Start, InLoop, AfterSmp
    <2> QED
      BY <1>7, <2>1, <2>5, <2>6, <2>7 DEF Start, BootMoves, AfterSmp
  <1> QED
    BY <1>1, <1>2, <1>3, <1>4, <1>5, <1>6, <1>7 DEF StartStep

LEMMA BootHandshake ==
  ASSUME Local, HandshakeInv, Alone(Boot), BootMoves, TypeOK'
  PROVE  HandshakeInv'
  <1>0. /\ \A d \in Aps : pc'[d] = pc[d]
        /\ UNCHANGED <<processors, core, apStack, apCoreIndex, mapped>>
        /\ \A i \in DOMAIN processors : processors[i] \in CPUs
        /\ \A i \in DOMAIN processors : processors[i] # Boot => pc'[processors[i]] = pc[processors[i]]
    BY BootIn DEF Local, Alone, Same, TypeOK, Aps
  <1> USE DEF BeforeSmp, InLoop, AfterSmp
  <1>1. CASE pc[Boot] \in BeforeSmp /\ pc'[Boot] \in BeforeSmp
    BY <1>0, <1>1 DEF HandshakeInv, BootMoves
  <1>2. CASE pc[Boot] = "delay" /\ pc'[Boot] = "sipi"
    BY <1>0, <1>2 DEF HandshakeInv, BootMoves
  <1>3. CASE pc[Boot] \in AfterSmp /\ pc'[Boot] \in AfterSmp
    BY <1>0, <1>3 DEF HandshakeInv, BootMoves
  <1> QED
    BY <1>1, <1>2, <1>3 DEF BootMoves

LEMMA BootLocal ==
  ASSUME Local, Alone(Boot), TypeOK', BootInv', pc[Boot] # "acpi", pc'[Boot] # "acpi",
         tickVector => tickVector', timer' = timer \/ tickVector'
  PROVE  Local'
  <1>1. \A d \in Aps : ApInv(d)'
    BY SameApInv, BootIn DEF Alone, Local
  <1>2. MadtInv'
    BY AloneMadt, BootIn
  <1> QED
    BY <1>1, <1>2 DEF Local

LEMMA BootQuietLocal ==
  ASSUME Local, DelayOver \/ AddMain
  PROVE  /\ TypeOK' /\ Alone(Boot) /\ BootMoves /\ BootInv'
         /\ (tickVector => tickVector') /\ timer' = timer
  <1>0. /\ Boot \in CPUs /\ BootInv /\ TypeOK /\ Main \in Threads
    BY BootIn, ThreadNames DEF Local
  <1>00. pc[Boot] # "acpi" => gs[Boot] = Boot /\ AfterHeap(Boot) = if \ {Boot}
    BY <1>0, HasGs, AfterHeapIs, NoneApart DEF Local
  <1> USE <1>0 DEF TypeOK, BootInv, BeforeSmp, bootVars, deviceVars
  <1>1. CASE DelayOver
    <2>1. pc[Boot] = "delay" /\ pc' = [pc EXCEPT ![Boot] = "sipi"]
      BY <1>1, BspNext DEF DelayOver
    <2>2. TypeOK'
      BY <1>1, <2>1 DEF DelayOver, Steps
    <2>3. Alone(Boot)
      BY <1>1, <2>1 DEF DelayOver, Alone, Same
    <2>4. BootInv'
      BY <1>1, <2>1 DEF DelayOver, InLoop, AfterSmp
    <2> QED
      BY <1>1, <2>1, <2>2, <2>3, <2>4 DEF DelayOver, BootMoves
  <1>2. CASE AddMain
    <2>1. pc[Boot] = "main" /\ pc' = [pc EXCEPT ![Boot] = "start"]
      BY <1>2, BspNext DEF AddMain
    <2>2. gs[Boot] = Boot /\ AfterHeap(Boot) = if \ {Boot}
      BY <1>00, <2>1
    <2>3. TypeOK'
      BY <1>2, <2>1, <2>2 DEF AddMain, Steps
    <2>4. Alone(Boot)
      BY <1>2, <2>1, <2>2 DEF AddMain, Alone, Same
    <2>5. BootInv'
      BY <1>2, <2>1, <2>2 DEF AddMain, InLoop, AfterSmp
    <2> QED
      BY <1>2, <2>1, <2>3, <2>4, <2>5 DEF AddMain, BootMoves, AfterSmp
  <1> QED
    BY <1>1, <1>2

\* The first entry enabled is that of the boot processor, and an entry read
\* later is that of another one.
LEMMA MadtEntry ==
  ASSUME TypeOK, MadtInv, entry <= Len(Listed), Listed[entry] \in Enabled
  PROVE  /\ entry \in DOMAIN Listed /\ Listed[entry] \in CPUs
         /\ processors = << >> => Listed[entry] = Boot
         /\ \A i \in DOMAIN processors : processors[i] # Listed[entry]
  <1>1. DOMAIN Listed = 1..Len(Listed) /\ Len(Listed) \in Nat /\ entry \in DOMAIN Listed
    BY SmpBootAssumption DEF MadtInv
  <1>2. \A m, n \in DOMAIN Listed : Listed[m] = Listed[n] => m = n
    BY SmpBootAssumption DEF IsInjective
  <1>3. ASSUME processors = << >> PROVE Listed[entry] = Boot
    <2>1. PICK n \in DOMAIN Listed : Listed[n] = Boot /\ \A m \in 1..n-1 : Listed[m] \notin Enabled
      BY SmpBootAssumption
    <2>2. \A m \in 1..entry-1 : Listed[m] \notin CPUs
      BY <1>3 DEF MadtInv
    <2>3. ~(n \in 1..entry-1)
      BY <2>1, <2>2, BootIn
    <2>4. ~(entry \in 1..n-1)
      BY <2>1
    <2>5. n = entry
      BY <1>1, <2>3, <2>4
    <2> QED
      BY <2>1, <2>5
  <1>4. ASSUME NEW i \in DOMAIN processors PROVE processors[i] # Listed[entry]
    <2>1. PICK n \in 1..entry-1 : Listed[n] = processors[i]
      BY DEF MadtInv
    <2>2. n \in DOMAIN Listed /\ n # entry
      BY <1>1, <2>1
    <2> QED
      BY <1>1, <1>2, <2>1, <2>2
  <1> QED
    BY <1>1, <1>3, <1>4 DEF CPUs

LEMMA AppendIs ==
  ASSUME NEW S, NEW s \in Seq(S), NEW x \in S
  PROVE  /\ Append(s, x) \in Seq(S) /\ Append(s, x) # << >>
         /\ DOMAIN s = 1..Len(s) /\ Len(s) \in Nat /\ DOMAIN Append(s, x) = 1..Len(s)+1
         /\ \A i \in 1..Len(s) : Append(s, x)[i] = s[i]
         /\ Append(s, x)[Len(s)+1] = x
         /\ \A i \in 1..Len(s)+1 : i \in 1..Len(s) \/ i = Len(s)+1
         /\ \A i \in 1..Len(s) : i \in 1..Len(s)+1
         /\ Len(s)+1 \in 1..Len(s)+1
  OBVIOUS

LEMMA RegisterInv ==
  ASSUME Local, HandshakeInv, RegisterCPU
  PROVE  Local' /\ HandshakeInv'
  <1>0. /\ Boot \in CPUs /\ BootInv /\ TypeOK /\ MadtInv /\ None \notin CPUs
        /\ (Listed[entry] \in Enabled => Listed[entry] \in CPUs)
        /\ (Listed[entry] \in Enabled /\ processors = << >> => Listed[entry] = Boot)
        /\ pc[Boot] = "acpi" /\ pc' = pc /\ entry' = entry + 1 /\ entry \in 1..Len(Listed)
        /\ Len(Listed) \in Nat /\ AfterHeap(Boot) \subseteq CPUs
        /\ \A d \in Aps : d \in AfterHeap(Boot) => d \in if
        /\ processors \in Seq(CPUs)
    BY BootIn, NoneApart, MadtEntry, SmpBootAssumption
       DEF Local, RegisterCPU, TypeOK, MadtInv, AfterHeap
  <1> DEFINE x == Listed[entry]
             n == Len(processors)
  <1>1. CASE x \in Enabled
    <2>0. /\ processors' = Append(processors, x) /\ x \in CPUs
          /\ gs' = (IF processors = << >> THEN [gs EXCEPT ![Boot] = Boot] ELSE gs)
      BY <1>0, <1>1 DEF RegisterCPU
    <2>1. /\ processors' \in Seq(CPUs) /\ processors' # << >> /\ n \in Nat
          /\ DOMAIN processors = 1..n /\ DOMAIN processors' = 1..n+1
          /\ \A i \in 1..n : processors'[i] = processors[i]
          /\ processors'[n + 1] = x
          /\ \A i \in 1..n+1 : i \in 1..n \/ i = n + 1
          /\ \A i \in 1..n : i \in 1..n+1
          /\ n + 1 \in 1..n+1
      BY <1>0, <2>0, AppendIs
    <2>2. \A i \in 1..n : processors[i] # x
      BY <1>0, <1>1, <2>1, MadtEntry
    <2>3. MadtInv'
      <3>1. entry' \in 1..Len(Listed)+1
        BY <1>0
      <3>2. \A m \in 1..entry'-1 : m \in 1..entry-1 \/ m = entry
        BY <1>0
      <3>3. entry \in 1..entry'-1 /\ \A m \in 1..entry-1 : m \in 1..entry'-1
        BY <1>0
      <3>4. \A m \in 1..entry'-1 : Listed[m] \in CPUs =>
              \E i \in DOMAIN processors' : processors'[i] = Listed[m]
        <4>1. ASSUME NEW m \in 1..entry-1, Listed[m] \in CPUs
              PROVE  \E i \in DOMAIN processors' : processors'[i] = Listed[m]
          <5>1. PICK i \in DOMAIN processors : processors[i] = Listed[m]
            BY <1>0, <4>1 DEF MadtInv
          <5> QED
            BY <2>1, <5>1
        <4>2. \E i \in DOMAIN processors' : processors'[i] = Listed[entry]
          BY <2>1
        <4> QED
          BY <3>2, <4>1, <4>2
      <3>5. \A i \in DOMAIN processors' : \E m \in 1..entry'-1 : Listed[m] = processors'[i]
        BY <1>0, <2>1, <3>3 DEF MadtInv
      <3>6. \A i, j \in DOMAIN processors' : processors'[i] = processors'[j] => i = j
        BY <1>0, <2>1, <2>2 DEF MadtInv
      <3>7. gs'[Boot] = Boot
        BY <1>0, <2>0 DEF MadtInv, TypeOK
      <3> QED
        BY <1>0, <2>1, <3>1, <3>4, <3>5, <3>6, <3>7 DEF MadtInv
    <2>4. TypeOK'
      <3>1. entry' \in Nat \ {0}
        BY <1>0
      <3>2. gs' \in [CPUs -> CPUs \cup {None}]
        BY <1>0, <2>0 DEF TypeOK
      <3> QED
        BY <1>0, <1>1, <2>1, <3>1, <3>2 DEF RegisterCPU, TypeOK, deviceVars
    <2>5. BootInv' /\ \A d \in Aps : ApInv(d)'
      <3>1. ASSUME NEW d \in Aps PROVE ApInv(d)'
        <4>1. ApInv(d) /\ d # Boot /\ d \in CPUs
          BY DEF Local, Aps
        <4>2. gs'[d] = gs[d]
          BY <1>0, <2>0, <4>1 DEF TypeOK
        <4>3. d \in if' => d \in if
          BY <1>0, <1>1 DEF RegisterCPU
        <4> QED
          BY <1>0, <4>1, <4>2, <4>3 DEF RegisterCPU, ApInv, deviceVars
      <3>2. BootInv'
        BY <1>0, <1>1 DEF RegisterCPU, BootInv, deviceVars
      <3> QED
        BY <3>1, <3>2
    <2>6. HandshakeInv'
      <3>1. /\ core = 1 /\ \A d \in Aps : pc[d] = "off"
        BY <1>0 DEF HandshakeInv, BeforeSmp
      <3>2. \A i \in DOMAIN processors' : processors'[i] # Boot => pc[processors'[i]] = "off" /\ ~(i < core)
        BY <2>1, <3>1 DEF Aps
      <3> QED
        BY <1>0, <3>1, <3>2 DEF RegisterCPU, HandshakeInv, BeforeSmp, InLoop, AfterSmp, Idling
    <2> QED
      BY <1>0, <2>3, <2>4, <2>5, <2>6 DEF Local, RegisterCPU, deviceVars
  <1>2. CASE x \notin Enabled
    <2>1. UNCHANGED <<processors, gs, if>>
      BY <1>2 DEF RegisterCPU
    <2>2. MadtInv'
      <3>1. entry' \in 1..Len(Listed)+1
        BY <1>0
      <3>2. \A m \in 1..entry'-1 : m \in 1..entry-1 \/ m = entry
        BY <1>0
      <3>3. \A m \in 1..entry-1 : m \in 1..entry'-1
        BY <1>0
      <3> QED
        BY <1>0, <1>2, <2>1, <3>1, <3>2, <3>3 DEF MadtInv, CPUs
    <2>3. TypeOK'
      <3>1. entry' \in Nat \ {0}
        BY <1>0
      <3> QED
        BY <1>0, <2>1, <3>1 DEF RegisterCPU, TypeOK, deviceVars
    <2>4. BootInv' /\ \A d \in Aps : ApInv(d)'
      BY <1>0, <2>1 DEF RegisterCPU, ApInv, BootInv, deviceVars, Local
    <2>5. HandshakeInv'
      BY <1>0, <2>1 DEF RegisterCPU, HandshakeInv
    <2> QED
      BY <1>0, <2>2, <2>3, <2>4, <2>5 DEF Local, RegisterCPU, deviceVars
  <1> QED
    BY <1>1, <1>2

\* The steps of startSMP() that change the phase of the handshake.
LEMMA AcpiDoneInv ==
  ASSUME Local, HandshakeInv, AcpiDone
  PROVE  Local' /\ HandshakeInv'
  <1>0. /\ Boot \in CPUs /\ BootInv /\ TypeOK /\ MadtInv /\ Len(Listed) \in Nat
        /\ pc[Boot] = "acpi" /\ pc' = [pc EXCEPT ![Boot] = "gdt"]
    BY BootIn, BspNext, SmpBootAssumption DEF Local, AcpiDone
  <1>1. TypeOK'
    BY <1>0 DEF AcpiDone, TypeOK, Steps, bootVars, deviceVars
  <1>2. Alone(Boot)
    BY <1>0 DEF AcpiDone, Alone, Same, TypeOK, bootVars, deviceVars
  <1>3. BootInv'
    BY <1>0 DEF AcpiDone, BootInv, TypeOK, BeforeSmp, InLoop, AfterSmp, bootVars, deviceVars
  <1>4. entry = Len(Listed) + 1
    BY <1>0 DEF AcpiDone, MadtInv
  <1>5. MadtInv'
    BY <1>0, <1>4 DEF AcpiDone, MadtInv, bootVars
  <1>6. HandshakeInv'
    BY <1>0, BootIn DEF AcpiDone, HandshakeInv, TypeOK, BeforeSmp, InLoop, AfterSmp, bootVars, Aps
  <1>7. \A d \in Aps : ApInv(d)'
    BY <1>2, SameApInv, BootIn DEF Alone, Local
  <1> QED
    BY <1>1, <1>3, <1>5, <1>6, <1>7 DEF AcpiDone, Local, deviceVars

\* A step of the boot processor that changes nothing a processor has set up,
\* but its own flag and its next step.
LEMMA BootPlain ==
  ASSUME Local, TypeOK', BootInv', pc[Boot] # "acpi", pc'[Boot] # "acpi",
         \A d \in Aps : pc'[d] = pc[d],
         UNCHANGED <<entry, processors, gs, stack, table, idt, deviceVars, current>>,
         if' \subseteq if
  PROVE  Local'
  <1>1. MadtInv'
    BY DEF Local, MadtInv
  <1>2. \A d \in Aps : ApInv(d)'
    BY DEF Local, ApInv, deviceVars
  <1> QED
    BY <1>1, <1>2 DEF Local, deviceVars

LEMMA PlainFacts ==
  ASSUME Local
  PROVE  /\ Boot \in CPUs /\ BootInv /\ TypeOK /\ Boot \notin Aps /\ Aps \subseteq CPUs
         /\ processors \in Seq(CPUs) /\ Len(processors) \in Nat
         /\ DOMAIN processors = 1..Len(processors)
         /\ \A i \in DOMAIN processors : processors[i] \in CPUs
         /\ \A i \in DOMAIN processors : processors[i] # Boot => processors[i] \in Aps
         /\ \A i, j \in DOMAIN processors : processors[i] = processors[j] => i = j
         /\ pc[Boot] # "acpi" => /\ gs[Boot] = Boot /\ AfterHeap(Boot) = if \ {Boot}
                                 /\ processors # << >>
         /\ core \in Nat \ {0}
  <1>1. TypeOK /\ Boot \in CPUs /\ BootInv /\ MadtInv
    BY BootIn DEF Local
  <1>2. processors \in Seq(CPUs) /\ core \in Nat \ {0}
    BY <1>1 DEF TypeOK
  <1>3. pc[Boot] # "acpi" => gs[Boot] = Boot /\ AfterHeap(Boot) = if \ {Boot}
    BY <1>1, HasGs, AfterHeapIs, NoneApart DEF Local
  <1>4. pc[Boot] # "acpi" => processors # << >>
    BY <1>1, <1>3, NoneApart DEF MadtInv
  <1> QED
    BY <1>1, <1>2, <1>3, <1>4, BootIn DEF MadtInv, Aps

LEMMA MapInv ==
  ASSUME Local, HandshakeInv, MapTrampoline
  PROVE  Local' /\ HandshakeInv'
  <1> USE PlainFacts
  <1>1. CASE /\ Len(processors) <= 1 \/ ~Lapic
             /\ pc[Boot] = "map" /\ pc' = [pc EXCEPT ![Boot] = "main"]
             /\ mapped' = mapped /\ if' = if
    <2>1. TypeOK'
      BY <1>1 DEF MapTrampoline, TypeOK, Steps, deviceVars
    <2>2. BootInv'
      BY <1>1 DEF MapTrampoline, BootInv, TypeOK, BeforeSmp, InLoop, AfterSmp, deviceVars
    <2>3. Local'
      BY <1>1, <2>1, <2>2, BootPlain DEF MapTrampoline, TypeOK
    <2>4. core = 1 /\ \A d \in Aps : pc[d] = "off"
      BY <1>1 DEF HandshakeInv, BeforeSmp
    <2>5. HandshakeInv'
      BY <1>1, <2>4 DEF MapTrampoline, HandshakeInv, TypeOK, BeforeSmp, InLoop, AfterSmp, Idling
    <2> QED
      BY <2>3, <2>5
  <1>2. CASE Len(processors) > 1 /\ Lapic /\ Step(Boot, "map") /\ mapped' = TRUE /\ if' = if \ {Boot}
    <2>0. pc[Boot] = "map" /\ pc' = [pc EXCEPT ![Boot] = "core"]
      BY <1>2, BspNext
    <2>1. TypeOK'
      BY <1>2, <2>0 DEF MapTrampoline, TypeOK, Steps, deviceVars
    <2>2. BootInv'
      BY <1>2, <2>0 DEF MapTrampoline, BootInv, TypeOK, BeforeSmp, InLoop, AfterSmp, deviceVars
    <2>3. Local'
      BY <1>2, <2>0, <2>1, <2>2, BootPlain DEF MapTrampoline, TypeOK
    <2>4. core = 1 /\ \A d \in Aps : pc[d] = "off"
      BY <2>0 DEF HandshakeInv, BeforeSmp
    <2>5. HandshakeInv'
      BY <1>2, <2>0, <2>4 DEF MapTrampoline, HandshakeInv, TypeOK, BeforeSmp, InLoop, AfterSmp, Idling
    <2> QED
      BY <2>3, <2>5
  <1> QED
    BY <1>1, <1>2 DEF MapTrampoline

LEMMA NextCoreInv ==
  ASSUME Local, HandshakeInv, NextCore
  PROVE  Local' /\ HandshakeInv'
  <1> USE PlainFacts
  <1>0. pc[Boot] = "core"
    BY BspNext DEF NextCore
  <1>1. CASE core > Len(processors) /\ pc' = [pc EXCEPT ![Boot] = "unmap"]
             /\ UNCHANGED <<core, apStack, apCoreIndex, if>>
    <2>1. TypeOK'
      BY <1>0, <1>1 DEF NextCore, TypeOK, Steps, deviceVars
    <2>2. BootInv'
      BY <1>0, <1>1 DEF NextCore, BootInv, TypeOK, BeforeSmp, InLoop, AfterSmp, deviceVars
    <2>3. Local'
      BY <1>0, <1>1, <2>1, <2>2, BootPlain DEF NextCore, TypeOK
    <2>5. HandshakeInv'
      BY <1>0, <1>1 DEF NextCore, HandshakeInv, TypeOK, BeforeSmp, InLoop, AfterSmp, Idling
    <2> QED
      BY <2>3, <2>5
  <1>2. CASE core <= Len(processors) /\ processors[core] = gs[Boot] /\ core' = core + 1
             /\ UNCHANGED <<pc, apStack, apCoreIndex, if>>
    <2>0. core' \in Nat \ {0}
      BY <1>2
    <2>1. TypeOK'
      BY <1>0, <1>2, <2>0 DEF NextCore, TypeOK, deviceVars
    <2>2. BootInv'
      BY <1>0, <1>2 DEF NextCore, BootInv, deviceVars
    <2>3. Local'
      BY <1>0, <1>2, <2>1, <2>2, BootPlain DEF NextCore
    <2>4. \A i \in DOMAIN processors : processors[i] # Boot => i # core
      BY <1>0, <1>2
    <2>5. \A i \in DOMAIN processors :
             (i < core' => i < core \/ i = core) /\ (i > core' => i > core) /\ (i = core' => i > core)
      BY <1>2
    <2>6. HandshakeInv'
      BY <1>0, <1>2, <2>4, <2>5 DEF NextCore, HandshakeInv, BeforeSmp, InLoop, AfterSmp, Idling
    <2> QED
      BY <2>3, <2>6
  <1>3. CASE core <= Len(processors) /\ processors[core] # gs[Boot] /\ Step(Boot, "core")
             /\ apStack' = processors[core] /\ apCoreIndex' = core
             /\ if' = AfterHeap(Boot) /\ core' = core
    <2>0. pc' = [pc EXCEPT ![Boot] = "init"] /\ processors[core] # Boot /\ if' = if \ {Boot}
          /\ core \in DOMAIN processors
      BY <1>0, <1>3, BspNext
    <2>1. TypeOK'
      BY <1>0, <1>3, <2>0 DEF NextCore, TypeOK, Steps, deviceVars
    <2>2. BootInv'
      BY <1>0, <1>3, <2>0 DEF NextCore, BootInv, TypeOK, BeforeSmp, InLoop, AfterSmp, deviceVars
    <2>3. Local'
      BY <1>0, <1>3, <2>0, <2>1, <2>2, BootPlain DEF NextCore, TypeOK
    <2>5. HandshakeInv'
      BY <1>0, <1>3, <2>0 DEF NextCore, HandshakeInv, TypeOK, BeforeSmp, InLoop, AfterSmp, Idling
    <2> QED
      BY <2>3, <2>5
  <1> QED
    BY <1>1, <1>2, <1>3 DEF NextCore

LEMMA WaitInv ==
  ASSUME Local, HandshakeInv, Wait
  PROVE  Local' /\ HandshakeInv'
  <1> USE PlainFacts
  <1>0. pc[Boot] = "wait" /\ pc' = [pc EXCEPT ![Boot] = "reset"] /\ started
    BY BspNext DEF Wait
  <1>1. TypeOK'
    BY <1>0 DEF Wait, TypeOK, Steps, bootVars, deviceVars
  <1>2. BootInv'
    BY <1>0 DEF Wait, BootInv, TypeOK, BeforeSmp, InLoop, AfterSmp, bootVars, deviceVars
  <1>3. Local'
    BY <1>0, <1>1, <1>2, BootPlain DEF Wait, TypeOK, bootVars
  <1>4. pc[processors[core]] \in {"start", "run"}
    BY <1>0 DEF HandshakeInv
  <1>5. \A d \in Aps : pc[d] \in Idling
    BY <1>0, <1>4 DEF HandshakeInv, Idling
  <1>6. HandshakeInv'
    BY <1>0, <1>4, <1>5 DEF Wait, HandshakeInv, TypeOK, BeforeSmp, InLoop, AfterSmp, bootVars
  <1> QED
    BY <1>3, <1>6

LEMMA ResetInv ==
  ASSUME Local, HandshakeInv, Reset
  PROVE  Local' /\ HandshakeInv'
  <1> USE PlainFacts
  <1>0. /\ pc[Boot] = "reset" /\ pc' = [pc EXCEPT ![Boot] = "core"] /\ started /\ ~started'
        /\ core' = core + 1 /\ core' \in Nat \ {0}
    BY DEF Reset, Acknowledged, HandshakeInv
  <1>1. TypeOK'
    BY <1>0 DEF Reset, TypeOK, Steps, deviceVars
  <1>2. BootInv'
    BY <1>0 DEF Reset, BootInv, TypeOK, BeforeSmp, InLoop, AfterSmp, deviceVars
  <1>3. Local'
    BY <1>0, <1>1, <1>2, BootPlain DEF Reset, TypeOK
  <1>4. pc[processors[core]] \in {"start", "run"}
    BY <1>0 DEF HandshakeInv
  <1>5. \A i \in DOMAIN processors :
          (i < core' => i < core \/ i = core) /\ (i > core' => i > core) /\ (i = core' => i > core)
    BY <1>0
  <1>6. \A d \in Aps : pc[d] \in Idling
    BY <1>0, <1>4 DEF HandshakeInv, Idling
  <1>7. HandshakeInv'
    BY <1>0, <1>4, <1>5, <1>6 DEF Reset, HandshakeInv, TypeOK, BeforeSmp, InLoop, AfterSmp
  <1> QED
    BY <1>3, <1>7

LEMMA UnmapInv ==
  ASSUME Local, HandshakeInv, Unmap
  PROVE  Local' /\ HandshakeInv'
  <1> USE PlainFacts
  <1>0. pc[Boot] = "unmap" /\ pc' = [pc EXCEPT ![Boot] = "main"]
    BY BspNext DEF Unmap
  <1>1. TypeOK'
    BY <1>0 DEF Unmap, TypeOK, Steps, deviceVars
  <1>2. BootInv'
    BY <1>0 DEF Unmap, BootInv, TypeOK, BeforeSmp, InLoop, AfterSmp, deviceVars
  <1>3. Local'
    BY <1>0, <1>1, <1>2, BootPlain DEF Unmap, TypeOK
  <1>4. HandshakeInv'
    BY <1>0 DEF Unmap, HandshakeInv, TypeOK, BeforeSmp, InLoop, AfterSmp
  <1> QED
    BY <1>3, <1>4

\* The INIT and the SIPI also move the processor they are sent to.
LEMMA SignalledInv ==
  ASSUME Local, TypeOK', BootInv', pc[Boot] # "acpi", pc'[Boot] # "acpi",
         NEW x \in Aps,
         \/ pc[x] = "off" /\ pc'[x] = "sipi"
         \/ pc[x] = "sipi" /\ pc'[x] = "real",
         \A d \in Aps : d # x => pc'[d] = pc[d],
         UNCHANGED bootVars, UNCHANGED <<if, timer, tickVector, current>>,
         \A d \in Aps : d \in pit' <=> d \in pit
  PROVE  Local'
  <1>1. MadtInv'
    BY DEF Local, MadtInv, bootVars
  <1>2. ASSUME NEW d \in Aps PROVE ApInv(d)'
    <2>1. ApInv(d)
      BY DEF Local
    <2>2. CASE d = x
      BY <2>1, <2>2 DEF ApInv, bootVars, NoThread, NoCpu, Idling, Working
    <2>3. CASE d # x
      BY <2>1, <2>3 DEF ApInv, bootVars
    <2> QED
      BY <2>2, <2>3
  <1> QED
    BY <1>1, <1>2 DEF Local

LEMMA SendInitInv ==
  ASSUME Local, HandshakeInv, SendInit
  PROVE  Local' /\ HandshakeInv'
  <1> USE PlainFacts
  <1> DEFINE x == processors[core]
  <1>0. /\ pc[Boot] = "init" /\ core \in DOMAIN processors /\ x \in Aps /\ pc[x] = "off"
    BY DEF SendInit, HandshakeInv, InLoop
  <1>1. /\ pc' = [pc EXCEPT ![Boot] = "delay", ![x] = "sipi"]
        /\ x \in CPUs /\ x # Boot
    BY <1>0 DEF SendInit
  <1>2. /\ pc'[Boot] = "delay" /\ pc'[x] = "sipi" /\ pc' \in [CPUs -> Steps]
        /\ \A d \in Aps : d # x => pc'[d] = pc[d]
    BY <1>1 DEF TypeOK, Steps
  <1>3. TypeOK'
    BY <1>2 DEF SendInit, TypeOK, bootVars
  <1>4. BootInv'
    BY <1>0, <1>2 DEF SendInit, BootInv, BeforeSmp, InLoop, AfterSmp, bootVars
  <1>5. Local'
    <2>1. UNCHANGED bootVars /\ UNCHANGED <<if, timer, tickVector, current>>
          /\ \A d \in Aps : d \in pit' <=> d \in pit
      BY DEF SendInit
    <2> HIDE DEF x
    <2> QED
      BY <1>0, <1>2, <1>3, <1>4, <2>1, SignalledInv
  <1>6. /\ \A d \in Aps : d # x => pc[d] \in Idling
        /\ \A i \in DOMAIN processors : processors[i] # Boot => (processors[i] = x <=> i = core)
    BY <1>0 DEF HandshakeInv, InLoop
  <1>7. HandshakeInv'
    BY <1>0, <1>2, <1>6 DEF SendInit, HandshakeInv, BeforeSmp, InLoop, AfterSmp, Idling, Working, bootVars
  <1> QED
    BY <1>5, <1>7

LEMMA SendSipiInv ==
  ASSUME Local, HandshakeInv, SendSipi
  PROVE  Local' /\ HandshakeInv'
  <1> USE PlainFacts
  <1> DEFINE x == processors[core]
  <1>0. /\ pc[Boot] = "sipi" /\ core \in DOMAIN processors /\ x \in Aps /\ x # Boot
    BY DEF SendSipi, HandshakeInv, InLoop
  <1>6. /\ \A d \in Aps : d # x => pc[d] \in Idling
        /\ \A i \in DOMAIN processors : processors[i] # Boot => (processors[i] = x <=> i = core)
    BY <1>0 DEF HandshakeInv, InLoop
  <1>1. pc[x] = "sipi"
    BY <1>0 DEF HandshakeInv
  <1>2. /\ pc'[Boot] = "wait" /\ pc'[x] = "real" /\ pc' \in [CPUs -> Steps]
        /\ \A d \in Aps : d # x => pc'[d] = pc[d]
    BY <1>0, <1>1 DEF SendSipi, TypeOK, Steps
  <1>3. TypeOK'
    BY <1>2 DEF SendSipi, TypeOK, bootVars, deviceVars
  <1>4. BootInv'
    BY <1>0, <1>2 DEF SendSipi, BootInv, BeforeSmp, InLoop, AfterSmp, bootVars, deviceVars
  <1>5. Local'
    <2>1. UNCHANGED bootVars /\ UNCHANGED <<if, timer, tickVector, current>> /\ pit' = pit
      BY DEF SendSipi, deviceVars
    <2> HIDE DEF x
    <2> QED
      BY <1>0, <1>1, <1>2, <1>3, <1>4, <2>1, SignalledInv
  <1>7. HandshakeInv'
    BY <1>0, <1>2, <1>6 DEF SendSipi, HandshakeInv, BeforeSmp, InLoop, AfterSmp, Idling, Working, bootVars
  <1> QED
    BY <1>5, <1>7

-----------------------------------------------------------------------------
(* The inductive invariant and the theorems.                               *)

Inv == Local /\ HandshakeInv

LEMMA InitInv == Init => Inv
  <1> SUFFICES ASSUME Init PROVE Inv
    OBVIOUS
  <1>0. /\ Boot \in CPUs /\ None \notin CPUs /\ Len(Listed) \in Nat /\ \A c \in Aps : c # Boot /\ c \in CPUs
        /\ processors = << >> /\ DOMAIN processors = {} /\ processors \in Seq(CPUs)
        /\ << >> \in Seq(Threads)
    BY BootIn, NoneApart, SmpBootAssumption DEF Init, Aps
  <1>1. TypeOK
    BY <1>0 DEF Init, TypeOK, Steps
  <1>2. MadtInv
    BY <1>0 DEF Init, MadtInv
  <1>3. BootInv
    BY <1>0 DEF Init, BootInv, BeforeSmp
  <1>4. \A c \in Aps : ApInv(c)
    BY <1>0 DEF Init, ApInv, NoThread, NoCpu, Idling
  <1>5. HandshakeInv
    BY <1>0 DEF Init, HandshakeInv, BeforeSmp, InLoop, AfterSmp, Idling
  <1>6. timer = {}
    BY DEF Init
  <1> QED
    BY <1>1, <1>2, <1>3, <1>4, <1>5, <1>6 DEF Inv, Local

LEMMA NextInv == Inv /\ [Next]_vars => Inv'
  <1> SUFFICES ASSUME Local, HandshakeInv, [Next]_vars PROVE Local' /\ HandshakeInv'
    BY DEF Inv
  <1>1. CASE UNCHANGED vars
    BY <1>1 DEF vars, bootVars, deviceVars, Local, TypeOK, MadtInv, BootInv, ApInv, HandshakeInv
  <1>2. CASE BspStep
    <2>1. CASE DelayOver \/ AddMain
      BY <2>1, BootQuietLocal, BootHandshake, BootLocal DEF BootMoves
    <2> QED
      BY <1>2, <2>1, RegisterInv, AcpiDoneInv, MapInv, NextCoreInv, SendInitInv, SendSipiInv,
         WaitInv, ResetInv, UnmapInv DEF BspStep
  <1>3. ASSUME NEW c \in Aps, ApStep(c) PROVE Local' /\ HandshakeInv'
    BY <1>3, ApStepLocal, ApHandshake, ApLocal
  <1>4. ASSUME NEW c \in CPUs, StartStep(c) PROVE Local' /\ HandshakeInv'
    <2>1. CASE c = Boot
      BY <1>4, <2>1, BootStartLocal, BootHandshake, BootLocal DEF BootMoves
    <2>2. CASE c \in Aps
      BY <1>4, <2>2, ApStartLocal, ApHandshake, ApLocal
    <2> QED
      BY <2>1, <2>2 DEF Aps
  <1>5. ASSUME NEW c \in CPUs, RunStep(c) PROVE Local' /\ HandshakeInv'
    <2>1. /\ TypeOK' /\ \A d \in CPUs : (d # c => Same(d))
          /\ pc' = pc /\ current[c] # None /\ current'[c] # None
          /\ UNCHANGED <<bootVars, deviceVars, if>>
      BY <1>5, RunStepLocal
    <2>2. MadtInv'
      BY <2>1 DEF Local, MadtInv, bootVars
    <2>3. BootInv'
      <3>1. current'[Boot] = None <=> current[Boot] = None
        BY <2>1, BootIn DEF Same
      <3> QED
        BY <2>1, <3>1 DEF Local, BootInv, bootVars, deviceVars
    <2>4. ASSUME NEW d \in Aps PROVE ApInv(d)'
      <3>1. (current'[d] = None <=> current[d] = None) /\ ApInv(d)
        BY <2>1, BootIn DEF Same, Local
      <3> QED
        BY <2>1, <3>1 DEF ApInv, bootVars, deviceVars
    <2>5. HandshakeInv'
      BY <2>1 DEF HandshakeInv, bootVars
    <2> QED
      BY <2>1, <2>2, <2>3, <2>4, <2>5 DEF Local, deviceVars
  <1> QED
    BY <1>1, <1>2, <1>3, <1>4, <1>5 DEF Next, Aps

LEMMA Invariance == Spec => []Inv
  BY InitInv, NextInv, PTL DEF Spec

\* startSMP() hands every processor its stack and its CPU structure through
\* the same two variables; each one that reads them finds its own, whatever
\* the number of processors and the order of the MADT: only the processor the
\* boot processor waits for is between its SIPI and its signal.
THEOREM IdentitySafety == Spec => []OwnIdentity
  <1>1. Inv => OwnIdentity
    <2> SUFFICES ASSUME Local PROVE OwnIdentity
      BY DEF Inv
    <2>1. ASSUME NEW c \in Aps
          PROVE  /\ gs[c] \in {None, c} /\ stack[c] \in {None, c}
                 /\ pc[c] \notin {"off", "sipi", "real", "long"} => stack[c] = c
                 /\ current[c] # None => gs[c] = c
      BY DEF Local, ApInv, NoThread, NoCpu
    <2>2. /\ gs[Boot] \in {None, Boot} /\ stack[Boot] \in {None, Boot}
          /\ current[Boot] # None => gs[Boot] = Boot
      <3>1. current[Boot] # None => pc[Boot] # "acpi"
        BY DEF Local, BootInv, BeforeSmp
      <3> QED
        BY <3>1, PlainFacts DEF Local, MadtInv, BootInv
    <2> QED
      BY <2>1, <2>2 DEF OwnIdentity, Aps
  <1> QED
    BY <1>1, Invariance, PTL

\* A set whose elements are all one has at most one.
LEMMA AtMostOne ==
  ASSUME NEW S, NEW x, S \subseteq {x}
  PROVE  Cardinality(S) <= 1
  <1>1. S = {} \/ S = {x}
    OBVIOUS
  <1>2. Cardinality({}) = 0 /\ Cardinality({x}) = 1
    BY FS_EmptySet, FS_Singleton
  <1> QED
    BY <1>1, <1>2

\* One processor at a time uses the PIT and the thread list of the kernel
\* process, and the trampoline page is mapped as long as a processor executes
\* or has its GDT there: the handshake on `started` covers them.
THEOREM HandshakeSafety == Spec => []HandshakeCovers
  <1>1. Inv => HandshakeCovers
    <2> SUFFICES ASSUME Local, HandshakeInv PROVE HandshakeCovers
      BY DEF Inv
    <2> DEFINE shares == {c \in CPUs : pc[c] \in Shares}
    <2>1. \A c \in Aps : pc[c] \in Shares \cup Trampolined => pc[Boot] = "wait" /\ c = processors[core]
      BY DEF HandshakeInv, Shares, Trampolined, Idling, Working, InLoop
    <2>2. pc[Boot] = "wait" => shares \subseteq {processors[core]}
      BY <2>1 DEF Shares, Aps
    <2>3. pc[Boot] # "wait" => shares \subseteq {Boot}
      BY <2>1 DEF Aps
    <2>4. pit \subseteq shares
      BY DEF Local, TypeOK, ApInv, BootInv, Shares, Aps
    <2>5. \E x : shares \subseteq {x} /\ pit \subseteq {x}
      BY <2>2, <2>3, <2>4
    <2>6. Cardinality(pit) <= 1 /\ Cardinality(shares) <= 1
      <3> HIDE DEF shares
      <3> QED
        BY <2>5, AtMostOne
    <2>7. \A c \in Aps : pc[c] \in Trampolined => mapped
      BY <2>1 DEF HandshakeInv, InLoop
    <2> QED
      BY <2>6, <2>7 DEF HandshakeCovers, Aps
  <1> QED
    BY <1>1, Invariance, PTL

\* The first tick of a processor finds its vector, its GDT, its CPU structure
\* and a current thread, and no other start-up code runs with interrupts on.
THEOREM TickSafety == Spec => []TickReady
  <1>1. Inv => TickReady
    <2> SUFFICES ASSUME Local, NEW c \in CPUs
                 PROVE  /\ c \in timer => /\ c \in idt /\ tickVector
                                          /\ table[c] = "own" /\ gs[c] # None /\ current[gs[c]] # None
                        /\ c \in if /\ c \notin timer => c = Boot /\ pc[c] \in {"acpi", "gdt"}
      BY DEF Inv, TickReady
    <2>1. CASE c = Boot
      BY <2>1, PlainFacts, NoneApart DEF Local, BootInv, BeforeSmp
    <2>2. CASE c \in Aps
      BY <2>2, BootIn, NoneApart DEF Local, ApInv, NoThread, NoCpu
    <2> QED
      BY <2>1, <2>2 DEF Aps
  <1> QED
    BY <1>1, Invariance, PTL

-----------------------------------------------------------------------------
(* No thread is wiped: the destroyers through the queues.                  *)

Holders(q, t) == {c \in CPUs : InSeq(t, q[c])}
Running(cur, t) == {c \in CPUs : cur[c] = t}

\* Thread t is in one queue, once, or current on one CPU; and nowhere.
OnceIn(q, cur, t) ==
    /\ \A c \in CPUs : Once(t, q[c])
    /\ \/ (\E d \in CPUs : Holders(q, t) = {d}) /\ Running(cur, t) = {}
       \/ (\E d \in CPUs : Running(cur, t) = {d}) /\ Holders(q, t) = {}

Nowhere(q, cur, t) == Holders(q, t) = {} /\ Running(cur, t) = {}

\* balance() moves entries between the queues of a pair, each to one of them.
LEMMA PairsKeep ==
  ASSUME NEW q \in [CPUs -> Seq(Threads)], NEW r, NEW p \in [CPUs -> CPUs], NEW small, NEW big,
         Pairs(q, r, p, small, big)
  PROVE  \A t : (\A c \in CPUs : Once(t, q[c])) /\ (\E e \in CPUs : Holders(q, t) = {e}) =>
            (\A c \in CPUs : Once(t, r[c])) /\ (\E e \in CPUs : Holders(r, t) = {e})
  <1> SUFFICES ASSUME NEW t, \A c \in CPUs : Once(t, q[c]), NEW e \in CPUs, Holders(q, t) = {e}
               PROVE  (\A c \in CPUs : Once(t, r[c])) /\ (\E f \in CPUs : Holders(r, t) = {f})
    OBVIOUS
  <1> DEFINE f == IF e \in big /\ InSeq(t, r[p[e]]) THEN p[e] ELSE e
  <1>1. \A c \in CPUs : InSeq(t, q[c]) <=> c = e
    BY DEF Holders
  <1>2. \A c \in small : p[c] \in big /\ p[p[c]] = c
    BY DEF Pairs
  <1>3. \A c \in big : p[c] \in small /\ p[p[c]] = c
    BY DEF Pairs
  <1>4. small \in SUBSET CPUs /\ big \in SUBSET CPUs /\ \A c \in small : c \notin big
    BY DEF Pairs
  <1>5. ASSUME NEW c \in small
        PROVE  /\ Once(t, r[c]) /\ Once(t, r[p[c]])
               /\ InSeq(t, r[c]) <=> c = f
               /\ InSeq(t, r[p[c]]) <=> p[c] = f
    <2>1. c \in CPUs /\ p[c] \in CPUs /\ p[c] \in big /\ p[p[c]] = c /\ c # p[c] /\ c \notin big
      BY <1>2, <1>4
    <2>2. /\ ~InSeq(t, q[p[c]]) => /\ ~InSeq(t, r[p[c]])
                                   /\ InSeq(t, r[c]) <=> InSeq(t, q[c])
                                   /\ Once(t, q[c]) => Once(t, r[c]) /\ Once(t, r[p[c]])
          /\ InSeq(t, q[p[c]]) /\ ~InSeq(t, q[c]) /\ Once(t, q[p[c]]) =>
               /\ Once(t, r[c]) /\ Once(t, r[p[c]])
               /\ InSeq(t, r[c]) <=> ~InSeq(t, r[p[c]])
      <3>1. PairKept(q, r, c, p[c])
        BY PairMoves
      <3> QED
        BY <3>1 DEF PairKept
    <2>3. Once(t, q[c]) /\ Once(t, q[p[c]])
      BY <2>1
    <2>4. CASE p[c] = e
      <3>1. f = IF InSeq(t, r[c]) THEN c ELSE e
        BY <2>1, <2>4
      <3> QED
        BY <1>1, <2>1, <2>2, <2>3, <2>4, <3>1
    <2>5. CASE c = e
      <3>1. f = e
        BY <2>1, <2>5
      <3> QED
        BY <1>1, <2>1, <2>2, <2>3, <2>5, <3>1
    <2>6. CASE c # e /\ p[c] # e
      <3>1. f = e \/ (e \in big /\ f = p[e])
        OBVIOUS
      <3>2. f # c /\ f # p[c]
        BY <1>3, <1>4, <2>1, <2>6, <3>1
      <3> QED
        BY <1>1, <2>1, <2>2, <2>3, <2>6, <3>2
    <2> QED
      BY <2>4, <2>5, <2>6
  <1>6. f \in CPUs
    OBVIOUS
  <1>7. ASSUME NEW c \in CPUs PROVE Once(t, r[c]) /\ (InSeq(t, r[c]) <=> c = f)
    <2>1. CASE c \in small
      BY <1>5, <2>1
    <2>2. CASE c \in big
      <3>1. p[c] \in small /\ c = p[p[c]]
        BY <1>3, <2>2
      <3> QED
        BY <1>5, <3>1
    <2>3. CASE c \notin small \cup big
      <3>1. r[c] = q[c]
        BY <2>3 DEF Pairs
      <3>2. f = e \/ (e \in big /\ f = p[e])
        OBVIOUS
      <3>3. f = c <=> e = c
        BY <1>3, <2>3, <3>2
      <3> QED
        BY <1>1, <3>1, <3>3
    <2> QED
      BY <2>1, <2>2, <2>3
  <1> HIDE DEF f
  <1> QED
    BY <1>6, <1>7 DEF Holders

\* ... and leaves a thread that is in none of them in none; queues of at most
\* one entry keep their lengths.
LEMMA PairsEmpty ==
  ASSUME NEW q \in [CPUs -> Seq(Threads)], NEW r, NEW p \in [CPUs -> CPUs], NEW small, NEW big,
         Pairs(q, r, p, small, big)
  PROVE  /\ \A t : Holders(q, t) = {} => Holders(r, t) = {} /\ \A c \in CPUs : Once(t, r[c])
         /\ (\A c \in CPUs : Len(q[c]) <= 1) => \A c \in CPUs : Len(r[c]) = Len(q[c])
  <1>1. ASSUME NEW c \in CPUs
        PROVE  \/ p[c] \in CPUs /\ PairKept(q, r, c, p[c])
               \/ p[c] \in CPUs /\ PairKept(q, r, p[c], c)
               \/ r[c] = q[c]
    <2>1. CASE c \in small
      BY <2>1, PairMoves
    <2>2. CASE c \in big
      <3>1. p[c] \in small /\ c = p[p[c]] /\ p[c] \in CPUs
        BY <2>2 DEF Pairs
      <3>2. PairKept(q, r, p[c], p[p[c]])
        BY <3>1, PairMoves
      <3> QED
        BY <3>1, <3>2
    <2> QED
      BY <2>1, <2>2 DEF Pairs
  <1>2. \A t, x : ~InSeq(t, x) => Once(t, x)
    BY DEF InSeq, Once
  <1>3. ASSUME NEW t, Holders(q, t) = {}, NEW c \in CPUs PROVE ~InSeq(t, r[c])
    <2>1. \A d \in CPUs : ~InSeq(t, q[d])
      BY <1>3 DEF Holders
    <2> QED
      BY <1>1, <2>1 DEF PairKept
  <1>4. ASSUME \A c \in CPUs : Len(q[c]) <= 1, NEW c \in CPUs PROVE Len(r[c]) = Len(q[c])
    BY <1>1, <1>4 DEF PairKept
  <1> QED
    BY <1>2, <1>3, <1>4 DEF Holders

LEMMA BalanceKeeps ==
  ASSUME processors \in Seq(CPUs), NEW q \in [CPUs -> Seq(Threads)], NEW r \in BalanceMay(q), NEW cur
  PROVE  /\ \A t : OnceIn(q, cur, t) => OnceIn(r, cur, t)
         /\ \A t : Nowhere(q, cur, t) => Nowhere(r, cur, t)
         /\ (\A c \in CPUs : Len(q[c]) <= 1) => \A c \in CPUs : Len(r[c]) = Len(q[c])
  <1>1. CASE r = q
    BY <1>1
  <1>2. CASE r # q
    <2>1. PICK p \in [CPUs -> CPUs], small \in SUBSET CPUs, big \in SUBSET CPUs :
                 Pairs(q, r, p, small, big)
      BY <1>2, BalancedPairs DEF BalanceMay
    <2>5. \A t : (\A c \in CPUs : Once(t, q[c])) /\ (\E e \in CPUs : Holders(q, t) = {e}) =>
                (\A c \in CPUs : Once(t, r[c])) /\ (\E e \in CPUs : Holders(r, t) = {e})
      BY <2>1, PairsKeep
    <2>2. ASSUME NEW t, OnceIn(q, cur, t) PROVE OnceIn(r, cur, t)
      <3>0. \A c \in CPUs : Once(t, q[c])
        BY <2>2 DEF OnceIn
      <3>1. CASE (\E d \in CPUs : Holders(q, t) = {d}) /\ Running(cur, t) = {}
        <4>1. (\A c \in CPUs : Once(t, r[c])) /\ \E e \in CPUs : Holders(r, t) = {e}
          BY <2>5, <3>0, <3>1
        <4> QED
          BY <3>1, <4>1 DEF OnceIn
      <3>2. CASE (\E d \in CPUs : Running(cur, t) = {d}) /\ Holders(q, t) = {}
        <4>1. Holders(r, t) = {} /\ \A c \in CPUs : Once(t, r[c])
          BY <2>1, <3>2, PairsEmpty
        <4> QED
          BY <3>2, <4>1 DEF OnceIn
      <3> QED
        BY <2>2, <3>1, <3>2 DEF OnceIn
    <2>3. ASSUME NEW t, Nowhere(q, cur, t) PROVE Nowhere(r, cur, t)
      BY <2>1, <2>3, PairsEmpty DEF Nowhere
    <2> QED
      BY <2>1, <2>2, <2>3, PairsEmpty
  <1> QED
    BY <1>1, <1>2

\* Taking the head of a queue makes it the current thread of CPU c.
LEMMA TakeHead ==
  ASSUME NEW q \in [CPUs -> Seq(Threads)], NEW cur, DOMAIN cur = CPUs, NEW c \in CPUs, NEW d \in CPUs,
         q[d] # << >>, cur[c] = None, NEW t \in Threads
  PROVE  /\ OnceIn(q, cur, t) => OnceIn([q EXCEPT ![d] = Tail(@)], [cur EXCEPT ![c] = Head(q[d])], t)
         /\ Nowhere(q, cur, t) => Nowhere([q EXCEPT ![d] = Tail(@)], [cur EXCEPT ![c] = Head(q[d])], t)
  <1> DEFINE q2 == [q EXCEPT ![d] = Tail(@)]
             cur2 == [cur EXCEPT ![c] = Head(q[d])]
  <1>0. t # None
    BY NoneApart
  <1>1. /\ InSeq(t, q[d]) <=> Head(q[d]) = t \/ InSeq(t, Tail(q[d]))
        /\ Once(t, q[d]) => Once(t, Tail(q[d])) /\ ~(Head(q[d]) = t /\ InSeq(t, Tail(q[d])))
    BY TailOccurs
  <1>2. \A e \in CPUs : q2[e] = IF e = d THEN Tail(q[d]) ELSE q[e]
    OBVIOUS
  <1>3. \A e \in CPUs : cur2[e] = IF e = c THEN Head(q[d]) ELSE cur[e]
    OBVIOUS
  <1> HIDE DEF q2, cur2
  <1>4. ASSUME Nowhere(q, cur, t) PROVE Nowhere(q2, cur2, t)
    <2>1. \A e \in CPUs : ~InSeq(t, q[e]) /\ cur[e] # t
      BY <1>4 DEF Nowhere, Holders, Running
    <2>2. \A e \in CPUs : ~InSeq(t, q2[e]) /\ cur2[e] # t
      BY <1>1, <1>2, <1>3, <2>1
    <2> QED
      BY <2>2 DEF Nowhere, Holders, Running
  <1>5. ASSUME OnceIn(q, cur, t) PROVE OnceIn(q2, cur2, t)
    <2>1. \A e \in CPUs : Once(t, q2[e])
      BY <1>1, <1>2, <1>5 DEF OnceIn
    <2>2. CASE \E f \in CPUs : Running(cur, t) = {f} /\ Holders(q, t) = {}
      <3>1. PICK f \in CPUs : Running(cur, t) = {f}
        BY <2>2
      <3>2. \A e \in CPUs : ~InSeq(t, q[e]) /\ (cur[e] = t <=> e = f)
        BY <2>2, <3>1 DEF Holders, Running
      <3>3. f # c
        BY <1>0, <3>2
      <3>4. \A e \in CPUs : ~InSeq(t, q2[e]) /\ (cur2[e] = t <=> e = f)
        BY <1>1, <1>2, <1>3, <3>2, <3>3
      <3> QED
        BY <2>1, <3>4 DEF OnceIn, Holders, Running
    <2>3. CASE \E f \in CPUs : Holders(q, t) = {f} /\ Running(cur, t) = {}
      <3>1. PICK f \in CPUs : Holders(q, t) = {f}
        BY <2>3
      <3>2. \A e \in CPUs : cur[e] # t /\ (InSeq(t, q[e]) <=> e = f)
        BY <2>3, <3>1 DEF Holders, Running
      <3>3. CASE Head(q[d]) = t
        <4>1. d = f /\ ~InSeq(t, Tail(q[d]))
          BY <1>1, <1>5, <3>2, <3>3 DEF OnceIn
        <4>2. \A e \in CPUs : ~InSeq(t, q2[e]) /\ (cur2[e] = t <=> e = c)
          BY <1>2, <1>3, <3>2, <3>3, <4>1
        <4> QED
          BY <2>1, <4>2 DEF OnceIn, Holders, Running
      <3>4. CASE Head(q[d]) # t
        <4>1. \A e \in CPUs : cur2[e] # t /\ (InSeq(t, q2[e]) <=> e = f)
          BY <1>1, <1>2, <1>3, <3>2, <3>4
        <4> QED
          BY <2>1, <4>1 DEF OnceIn, Holders, Running
      <3> QED
        BY <3>3, <3>4
    <2> QED
      BY <1>5, <2>2, <2>3 DEF OnceIn
  <1> QED
    BY <1>4, <1>5 DEF q2, cur2
\* Pushing thread x on the queue of CPU c.
LEMMA PushKeeps ==
  ASSUME NEW q \in [CPUs -> Seq(Threads)], NEW cur, NEW c \in CPUs, NEW x \in Threads, NEW t
  PROVE  /\ x # t /\ OnceIn(q, cur, t) => OnceIn([q EXCEPT ![c] = Append(@, x)], cur, t)
         /\ x # t /\ Nowhere(q, cur, t) => Nowhere([q EXCEPT ![c] = Append(@, x)], cur, t)
         /\ x = t /\ Nowhere(q, cur, t) => OnceIn([q EXCEPT ![c] = Append(@, x)], cur, t)
  <1> DEFINE q2 == [q EXCEPT ![c] = Append(@, x)]
  <1>1. /\ InSeq(t, Append(q[c], x)) <=> InSeq(t, q[c]) \/ x = t
        /\ Once(t, q[c]) /\ ~(x = t /\ InSeq(t, q[c])) => Once(t, Append(q[c], x))
    BY AppendOccurs
  <1>2. \A e \in CPUs : q2[e] = IF e = c THEN Append(q[c], x) ELSE q[e]
    OBVIOUS
  <1>3. \A s : ~InSeq(t, s) => Once(t, s)
    BY DEF InSeq, Once
  <1> HIDE DEF q2
  <1>4. ASSUME x # t
        PROVE  /\ \A e \in CPUs : InSeq(t, q2[e]) <=> InSeq(t, q[e])
               /\ \A e \in CPUs : Once(t, q[e]) => Once(t, q2[e])
    BY <1>1, <1>2, <1>4
  <1>5. x # t => Holders(q2, t) = Holders(q, t)
    BY <1>4 DEF Holders
  <1>6. ASSUME x = t, Nowhere(q, cur, t) PROVE OnceIn(q2, cur, t)
    <2>1. \A e \in CPUs : ~InSeq(t, q[e])
      BY <1>6 DEF Nowhere, Holders
    <2>2. \A e \in CPUs : Once(t, q2[e]) /\ (InSeq(t, q2[e]) <=> e = c)
      BY <1>1, <1>2, <1>3, <1>6, <2>1
    <2>3. Holders(q2, t) = {c}
      BY <2>2 DEF Holders
    <2> QED
      BY <1>6, <2>2, <2>3 DEF OnceIn, Nowhere
  <1> QED
    BY <1>4, <1>5, <1>6 DEF OnceIn, Nowhere, q2

\* Replacing the current thread of CPU c by another or by none.
LEMMA ReplaceKeeps ==
  ASSUME NEW q, NEW cur, DOMAIN cur = CPUs, NEW c \in CPUs, NEW x, NEW t, x # t
  PROVE  /\ cur[c] # t /\ OnceIn(q, cur, t) => OnceIn(q, [cur EXCEPT ![c] = x], t)
         /\ Nowhere(q, cur, t) => Nowhere(q, [cur EXCEPT ![c] = x], t)
         /\ cur[c] = t /\ OnceIn(q, cur, t) => Nowhere(q, [cur EXCEPT ![c] = x], t)
  <1> DEFINE cur2 == [cur EXCEPT ![c] = x]
  <1>1. \A e \in CPUs : cur2[e] = IF e = c THEN x ELSE cur[e]
    OBVIOUS
  <1> HIDE DEF cur2
  <1>2. cur[c] # t => Running(cur2, t) = Running(cur, t)
    BY <1>1 DEF Running
  <1>3. ASSUME cur[c] = t, OnceIn(q, cur, t) PROVE Nowhere(q, cur2, t)
    <2>1. c \in Running(cur, t)
      BY <1>3 DEF Running
    <2>2. Running(cur, t) = {c} /\ Holders(q, t) = {}
      BY <1>3, <2>1 DEF OnceIn
    <2>3. \A e \in CPUs : cur[e] = t => e = c
      BY <2>2 DEF Running
    <2>4. Running(cur2, t) = {}
      BY <1>1, <2>3 DEF Running
    <2> QED
      BY <2>2, <2>4 DEF Nowhere
  <1>4. Nowhere(q, cur, t) => cur[c] # t
    BY DEF Nowhere, Running
  <1> QED
    BY <1>2, <1>3, <1>4 DEF OnceIn, Nowhere, cur2

\* switchNext() on CPU c, with its former thread put away, moves every thread
\* but the idle one from one place to one place ...
LEMMA SwitchKeeps ==
  ASSUME processors \in Seq(CPUs), NEW q \in [CPUs -> Seq(Threads)], NEW c \in CPUs,
         current \in [CPUs -> Threads \cup {None}], SwitchNext(c, q),
         NEW t \in Threads, t # Idle(c)
  PROVE  /\ OnceIn(q, [current EXCEPT ![c] = None], t) => OnceIn(queue', current', t)
         /\ Nowhere(q, [current EXCEPT ![c] = None], t) => Nowhere(queue', current', t)
  <1> DEFINE cur == [current EXCEPT ![c] = None]
  <1>1. ASSUME NEW d \in CPUs, q[d] # << >>, current' = [current EXCEPT ![c] = Head(q[d])],
               queue' \in BalanceMay([q EXCEPT ![d] = Tail(@)])
        PROVE  /\ OnceIn(q, cur, t) => OnceIn(queue', current', t)
               /\ Nowhere(q, cur, t) => Nowhere(queue', current', t)
    <2> DEFINE q2 == [q EXCEPT ![d] = Tail(@)]
    <2>1. DOMAIN cur = CPUs /\ cur[c] = None /\ current' = [cur EXCEPT ![c] = Head(q[d])]
      BY <1>1
    <2>2. q2 \in [CPUs -> Seq(Threads)]
      BY <1>1, HeadTailIn
    <2>3. /\ OnceIn(q, cur, t) => OnceIn(q2, current', t)
          /\ Nowhere(q, cur, t) => Nowhere(q2, current', t)
      <3> HIDE DEF cur
      <3>1. /\ OnceIn(q, cur, t) => OnceIn([q EXCEPT ![d] = Tail(@)], [cur EXCEPT ![c] = Head(q[d])], t)
            /\ Nowhere(q, cur, t) => Nowhere([q EXCEPT ![d] = Tail(@)], [cur EXCEPT ![c] = Head(q[d])], t)
        BY <1>1, <2>1, TakeHead
      <3> QED
        BY <2>1, <3>1
    <2>4. queue' \in BalanceMay(q2)
      BY <1>1
    <2> HIDE DEF q2, cur
    <2>5. /\ OnceIn(q2, current', t) => OnceIn(queue', current', t)
          /\ Nowhere(q2, current', t) => Nowhere(queue', current', t)
      BY <2>2, <2>4, BalanceKeeps
    <2> QED
      BY <2>3, <2>5
  <1>2. ASSUME queue' = q, current' = [current EXCEPT ![c] = Idle(c)]
        PROVE  /\ OnceIn(q, cur, t) => OnceIn(queue', current', t)
               /\ Nowhere(q, cur, t) => Nowhere(queue', current', t)
    <2>1. /\ DOMAIN cur = CPUs /\ cur[c] # t /\ current' = [cur EXCEPT ![c] = Idle(c)]
      BY <1>2, NoneApart
    <2> HIDE DEF cur
    <2>2. Idle(c) # t
      OBVIOUS
    <2>3. /\ OnceIn(q, cur, t) => OnceIn(q, [cur EXCEPT ![c] = Idle(c)], t)
          /\ Nowhere(q, cur, t) => Nowhere(q, [cur EXCEPT ![c] = Idle(c)], t)
      BY <2>1, <2>2, ReplaceKeeps
    <2> QED
      BY <1>2, <2>1, <2>3
  <1> QED
    BY <1>1, <1>2 DEF SwitchNext

\* ... and with one thread at most in each queue, it leaves that so.
LEMMA SwitchLens ==
  ASSUME processors \in Seq(CPUs), NEW q \in [CPUs -> Seq(Threads)], NEW c \in CPUs,
         SwitchNext(c, q),
         \A e \in CPUs : Len(q[e]) <= IF e = c THEN 2 ELSE 1
  PROVE  /\ \A e \in CPUs : Len(queue'[e]) <= 1
         /\ \A e \in CPUs : q[e] = << >> => Len(queue'[e]) = 0
  <1>0. \A e \in CPUs : Len(q[e]) \in Nat /\ (q[e] = << >> <=> Len(q[e]) = 0)
    OBVIOUS
  <1>1. ASSUME NEW d \in CPUs, q[d] # << >>, d = c \/ q[c] = << >>,
               queue' \in BalanceMay([q EXCEPT ![d] = Tail(@)])
        PROVE  \A e \in CPUs : Len(queue'[e]) <= 1 /\ (q[e] = << >> => Len(queue'[e]) = 0)
    <2> DEFINE q2 == [q EXCEPT ![d] = Tail(@)]
    <2>1. q2 \in [CPUs -> Seq(Threads)]
      BY <1>1, HeadTailIn
    <2>2. Len(Tail(q[d])) = Len(q[d]) - 1
      BY <1>1
    <2>3. \A e \in CPUs : Len(q2[e]) = IF e = d THEN Len(q[d]) - 1 ELSE Len(q[e])
      BY <2>2
    <2>4. queue' \in BalanceMay(q2)
      BY <1>1
    <2> HIDE DEF q2
    <2>5. \A e \in CPUs : Len(q2[e]) <= 1
      BY <1>0, <1>1, <2>3
    <2>6. \A e \in CPUs : Len(queue'[e]) = Len(q2[e])
      BY <2>1, <2>4, <2>5, BalanceKeeps
    <2> QED
      BY <1>0, <1>1, <2>3, <2>5, <2>6
  <1>2. CASE q[c] = << >> /\ queue' = q
    BY <1>0, <1>2
  <1> QED
    BY <1>1, <1>2 DEF SwitchNext
LEMMA DestroyerNames ==
  \A c, d \in CPUs : /\ Destroyer(c) \in Threads /\ Idle(c) \in Threads
                     /\ Destroyer(c) # Idle(d) /\ Destroyer(c) # Main /\ Destroyer(c) # MainLoads
                     /\ c # d => Destroyer(c) # Destroyer(d)
  BY ThreadNames DEF Destroyer, Idle, Main, MainLoads

\* Each destroyer created is in one place.  Until the main thread is added no
\* queue has two entries and that of a CPU without a thread has none, so that
\* balance() moves nothing to a CPU that is still to construct its queue.
QueueInv ==
    /\ \A c \in CPUs : current[c] # None => OnceIn(queue, current, Destroyer(c))
    /\ \A c \in CPUs : current[c] = None => Nowhere(queue, current, Destroyer(c))
    /\ pc[Boot] \notin {"start", "run"} =>
          \A c \in CPUs : Len(queue[c]) <= 1 /\ (current[c] = None => Len(queue[c]) = 0)
    /\ \A c \in CPUs : pc[c] # "run" /\ current[c] # None => current[c] = Idle(c)

LEMMA QueueInit == Init => QueueInv
  <1> SUFFICES ASSUME Init PROVE QueueInv
    OBVIOUS
  <1>1. \A c \in CPUs : queue[c] = << >> /\ current[c] = None
    BY DEF Init
  <1>2. \A t : ~InSeq(t, << >>)
    BY DEF InSeq
  <1>3. \A c \in CPUs : Nowhere(queue, current, Destroyer(c))
    BY <1>1, <1>2, NoneApart, DestroyerNames DEF Nowhere, Holders, Running
  <1> QED
    BY <1>1, <1>3 DEF QueueInv

\* A step that leaves the queues and the current threads alone.
LEMMA QueueSame ==
  ASSUME QueueInv, UNCHANGED <<queue, current>>,
         pc[Boot] \in {"start", "run"} => pc'[Boot] \in {"start", "run"},
         \A c \in CPUs : pc[c] = "run" => pc'[c] = "run"
  PROVE  QueueInv'
  BY DEF QueueInv

\* Scheduler::init() constructs a queue that is empty, and CreateThreads gives
\* a destroyer its first place.
LEMMA QueueCreate ==
  ASSUME Inv, QueueInv, NEW c \in CPUs, CreateThreads(c), gs[c] = c, current[c] = None,
         \A d \in CPUs : pc[d] = "run" => pc'[d] = "run",
         pc[Boot] \notin {"start", "run"}
  PROVE  QueueInv'
  <1>1. /\ current' = [current EXCEPT ![c] = Idle(c)]
        /\ queue' = [queue EXCEPT ![c] = Append(@, Destroyer(c))]
    BY DEF CreateThreads
  <1>2. /\ queue \in [CPUs -> Seq(Threads)] /\ DOMAIN current = CPUs
        /\ Len(queue[c]) = 0
    BY DEF Inv, Local, TypeOK, QueueInv
  <1>3. Len(queue'[c]) = 1 /\ Len(queue'[c]) <= 1 /\ \A d \in CPUs : d # c => queue'[d] = queue[d]
    BY <1>1, <1>2, DestroyerNames
  <1>4. current'[c] = Idle(c) /\ \A d \in CPUs : d # c => current'[d] = current[d]
    BY <1>1, <1>2
  <1>5. Idle(c) # None
    BY DestroyerNames, NoneApart
  <1>6. ASSUME NEW d \in CPUs
        PROVE  /\ current'[d] # None => OnceIn(queue', current', Destroyer(d))
               /\ current'[d] = None => Nowhere(queue', current', Destroyer(d))
    <2> DEFINE t == Destroyer(d)
               cur == [current EXCEPT ![c] = Idle(c)]
    <2>1. /\ Idle(c) # t /\ t \in Threads /\ Destroyer(c) \in Threads /\ t # None
      BY DestroyerNames, NoneApart
    <2>2. current[c] # t
      BY <2>1
    <2> HIDE DEF t
    <2>3. /\ OnceIn(queue, current, t) => OnceIn(queue, cur, t)
          /\ Nowhere(queue, current, t) => Nowhere(queue, cur, t)
      BY <1>2, <2>1, <2>2, ReplaceKeeps
    <2> HIDE DEF cur
    <2>4. /\ Destroyer(c) # t /\ OnceIn(queue, cur, t) =>
               OnceIn([queue EXCEPT ![c] = Append(@, Destroyer(c))], cur, t)
          /\ Destroyer(c) # t /\ Nowhere(queue, cur, t) =>
               Nowhere([queue EXCEPT ![c] = Append(@, Destroyer(c))], cur, t)
          /\ Destroyer(c) = t /\ Nowhere(queue, cur, t) =>
               OnceIn([queue EXCEPT ![c] = Append(@, Destroyer(c))], cur, t)
      BY <1>2, <2>1, PushKeeps
    <2>5. queue' = [queue EXCEPT ![c] = Append(@, Destroyer(c))] /\ current' = cur
      BY <1>1 DEF cur
    <2>6. /\ current[d] # None => OnceIn(queue, current, t)
          /\ current[d] = None => Nowhere(queue, current, t)
      BY DEF QueueInv, t
    <2>7. d # c => Destroyer(c) # t
      BY DestroyerNames DEF t
    <2>8. d = c => Destroyer(c) = t
      BY DEF t
    <2>9. CASE d = c
      <3>1. OnceIn(queue', current', t)
        BY <2>3, <2>4, <2>5, <2>6, <2>8, <2>9
      <3> QED
        BY <1>4, <1>5, <2>9, <3>1 DEF t
    <2>10. CASE d # c
      <3>1. /\ current[d] # None => OnceIn(queue', current', t)
            /\ current[d] = None => Nowhere(queue', current', t)
        BY <2>3, <2>4, <2>5, <2>6, <2>7, <2>10
      <3> QED
        BY <1>4, <2>10, <3>1 DEF t
    <2> QED
      BY <2>9, <2>10
  <1>7. \A d \in CPUs : current'[d] = None => Len(queue'[d]) = 0
    BY <1>3, <1>4, <1>5 DEF QueueInv
  <1>8. ASSUME NEW d \in CPUs PROVE Len(queue'[d]) <= 1
    <2>2. Len(queue[d]) <= 1
      BY DEF QueueInv
    <2>3. CASE d = c
      BY <1>3, <2>3
    <2>4. CASE d # c
      <3>1. queue'[d] = queue[d]
        BY <1>3, <2>4
      <3> QED
        BY <2>2, <3>1
    <2> QED
      BY <2>3, <2>4
  <1>9. \A d \in CPUs : pc'[d] # "run" /\ current'[d] # None => current'[d] = Idle(d)
    BY <1>4 DEF QueueInv
  <1> QED
    BY <1>6, <1>7, <1>8, <1>9 DEF QueueInv

\* A switch of CPU c, with the queues as q once its former thread is put away.
LEMMA QueueSwitch ==
  ASSUME Inv, QueueInv, NEW c \in CPUs, NEW q \in [CPUs -> Seq(Threads)], SwitchNext(c, q),
         \A d \in CPUs : /\ OnceIn(queue, current, Destroyer(d)) =>
                              OnceIn(q, [current EXCEPT ![c] = None], Destroyer(d))
                         /\ Nowhere(queue, current, Destroyer(d)) =>
                              Nowhere(q, [current EXCEPT ![c] = None], Destroyer(d)),
         \A d \in CPUs : d # c => q[d] = queue[d],
         Len(q[c]) <= Len(queue[c]) + 1,
         current[c] # None, current'[c] # None,
         pc'[c] = "run", \A d \in CPUs : d # c => pc'[d] = pc[d] /\ current'[d] = current[d],
         pc[Boot] \in {"start", "run"} => pc'[Boot] \in {"start", "run"}
  PROVE  QueueInv'
  <1>1. /\ processors \in Seq(CPUs) /\ current \in [CPUs -> Threads \cup {None}]
        /\ queue \in [CPUs -> Seq(Threads)]
    BY DEF Inv, Local, TypeOK
  <1>2. ASSUME NEW d \in CPUs
        PROVE  /\ OnceIn(queue, current, Destroyer(d)) => OnceIn(queue', current', Destroyer(d))
               /\ Nowhere(queue, current, Destroyer(d)) => Nowhere(queue', current', Destroyer(d))
    <2> DEFINE t == Destroyer(d)
    <2>1. t \in Threads /\ t # Idle(c)
      BY DestroyerNames
    <2>2. /\ OnceIn(queue, current, t) => OnceIn(q, [current EXCEPT ![c] = None], t)
          /\ Nowhere(queue, current, t) => Nowhere(q, [current EXCEPT ![c] = None], t)
      OBVIOUS
    <2> HIDE DEF t
    <2>3. /\ OnceIn(q, [current EXCEPT ![c] = None], t) => OnceIn(queue', current', t)
          /\ Nowhere(q, [current EXCEPT ![c] = None], t) => Nowhere(queue', current', t)
      BY <1>1, <2>1, SwitchKeeps
    <2> QED
      BY <2>2, <2>3 DEF t
  <1>3. \A d \in CPUs : current'[d] = None <=> current[d] = None
    OBVIOUS
  <1>4. ASSUME pc[Boot] \notin {"start", "run"}
        PROVE  /\ \A d \in CPUs : Len(queue'[d]) <= 1
               /\ \A d \in CPUs : d # c /\ Len(queue[d]) = 0 => Len(queue'[d]) = 0
    <2>1. \A d \in CPUs : Len(queue[d]) <= 1 /\ Len(queue[d]) \in Nat /\ Len(q[d]) \in Nat
      BY <1>1, <1>4 DEF QueueInv
    <2>2. \A d \in CPUs : Len(q[d]) <= IF d = c THEN 2 ELSE 1
      BY <2>1
    <2>3. \A d \in CPUs : d # c /\ Len(queue[d]) = 0 => q[d] = << >>
      OBVIOUS
    <2> QED
      BY <1>1, <2>2, <2>3, SwitchLens
  <1>5. ASSUME pc[Boot] \notin {"start", "run"}, NEW d \in CPUs, current'[d] = None
        PROVE  Len(queue'[d]) = 0
    <2>1. current[d] = None /\ d # c
      BY <1>3, <1>5
    <2> QED
      BY <1>4, <1>5, <2>1 DEF QueueInv
  <1>6. pc'[Boot] \notin {"start", "run"} => pc[Boot] \notin {"start", "run"}
    OBVIOUS
  <1>7. ASSUME NEW d \in CPUs, pc'[d] # "run", current'[d] # None PROVE current'[d] = Idle(d)
    <2>1. d # c
      BY <1>7
    <2>2. pc[d] # "run" /\ current'[d] = current[d]
      BY <1>7, <2>1
    <2> QED
      BY <1>7, <2>2 DEF QueueInv
  <1>8. \A d \in CPUs : /\ current'[d] # None => OnceIn(queue', current', Destroyer(d))
                        /\ current'[d] = None => Nowhere(queue', current', Destroyer(d))
    BY <1>2, <1>3 DEF QueueInv
  <1> QED
    BY <1>4, <1>5, <1>6, <1>7, <1>8 DEF QueueInv

LEMMA StepRuns ==
  ASSUME TypeOK, NEW c \in CPUs, NEW s, s \notin {"start", "run"}, Step(c, s)
  PROVE  /\ pc[Boot] \in {"start", "run"} => pc'[Boot] \in {"start", "run"}
         /\ \A d \in CPUs : pc[d] = "run" => pc'[d] = "run"
         /\ pc[c] = s
  <1>1. pc[c] = s /\ \E x : pc' = [pc EXCEPT ![c] = x]
    BY DEF Step
  <1>2. DOMAIN pc = CPUs /\ Boot \in CPUs
    BY BootIn DEF TypeOK
  <1>3. \A d \in CPUs : d # c => pc'[d] = pc[d]
    BY <1>1, <1>2
  <1> QED
    BY <1>1, <1>2, <1>3

LEMMA QueueBsp ==
  ASSUME Inv, QueueInv, BspStep
  PROVE  QueueInv'
  <1>0. TypeOK /\ Boot \in CPUs
    BY BootIn DEF Inv, Local
  <1>1. CASE AddMain
    <2>1. /\ queue' = [queue EXCEPT ![Boot] = Append(@, Main)] /\ UNCHANGED current
          /\ pc[Boot] = "main" /\ pc' = [pc EXCEPT ![Boot] = "start"]
      <3>1. pc[Boot] = "main" /\ pc' = [pc EXCEPT ![Boot] = "start"]
        BY <1>1, BspNext DEF AddMain
      <3>2. gs[Boot] = Boot
        BY <1>0, <3>1, HasGs DEF Inv, Local
      <3> QED
        BY <1>1, <3>1, <3>2 DEF AddMain
    <2>3. queue \in [CPUs -> Seq(Threads)] /\ Main \in Threads
      BY <1>0, ThreadNames DEF TypeOK
    <2>4. ASSUME NEW c \in CPUs
          PROVE  /\ current'[c] # None => OnceIn(queue', current', Destroyer(c))
                 /\ current'[c] = None => Nowhere(queue', current', Destroyer(c))
      <3> DEFINE t == Destroyer(c)
      <3>1. Main # t /\ t \in Threads
        BY DestroyerNames
      <3>2. /\ current[c] # None => OnceIn(queue, current, t)
            /\ current[c] = None => Nowhere(queue, current, t)
        BY DEF QueueInv
      <3> HIDE DEF t
      <3>3. /\ OnceIn(queue, current, t) =>
                   OnceIn([queue EXCEPT ![Boot] = Append(@, Main)], current, t)
            /\ Nowhere(queue, current, t) =>
                   Nowhere([queue EXCEPT ![Boot] = Append(@, Main)], current, t)
        BY <1>0, <2>3, <3>1, PushKeeps
      <3> QED
        BY <2>1, <3>2, <3>3 DEF t
    <2>5. pc'[Boot] = "start" /\ \A c \in CPUs : c # Boot => pc'[c] = pc[c]
      BY <1>0, <2>1 DEF TypeOK
    <2>6. ASSUME NEW c \in CPUs, pc'[c] # "run", current'[c] # None PROVE current'[c] = Idle(c)
      <3>1. pc[c] # "run"
        BY <2>1, <2>5, <2>6
      <3> QED
        BY <2>1, <2>6, <3>1 DEF QueueInv
    <2> QED
      BY <2>4, <2>5, <2>6 DEF QueueInv
  <1>2. CASE ~AddMain
    <2>1. UNCHANGED <<queue, current>> /\ pc[Boot] \notin {"start", "run"}
      BY <1>2 DEF BspStep, RegisterCPU, AcpiDone, MapTrampoline, NextCore, SendInit, DelayOver,
                  SendSipi, Wait, Reset, Unmap, Step
    <2>2. \A d \in CPUs : pc[d] = "run" => pc'[d] = "run"
      <3>1. CASE AcpiDone \/ DelayOver \/ Wait \/ Unmap
        BY <1>0, <3>1, StepRuns DEF AcpiDone, DelayOver, Wait, Unmap
      <3>2. CASE RegisterCPU \/ Reset
        BY <1>0, <3>2 DEF RegisterCPU, Reset, TypeOK
      <3>3. CASE MapTrampoline
        BY <1>0, <3>3, StepRuns DEF MapTrampoline, TypeOK
      <3>4. CASE NextCore
        BY <1>0, <3>4, StepRuns DEF NextCore, TypeOK
      <3>5. CASE SendInit
        <4>1. /\ pc[Boot] = "init" /\ core \in DOMAIN processors
              /\ processors[core] # Boot
          BY <3>5 DEF SendInit, Inv, HandshakeInv, InLoop
        <4>2. pc[processors[core]] = "off"
          BY <4>1 DEF Inv, HandshakeInv
        <4> QED
          BY <1>0, <3>5, <4>1, <4>2 DEF SendInit, TypeOK
      <3>6. CASE SendSipi
        BY <1>0, <3>6 DEF SendSipi
      <3> QED
        BY <1>2, <3>1, <3>2, <3>3, <3>4, <3>5, <3>6 DEF BspStep
    <2> QED
      BY <2>1, <2>2, QueueSame
  <1> QED
    BY <1>1, <1>2

LEMMA QueueStart ==
  ASSUME Inv, QueueInv, NEW c \in CPUs, StartStep(c)
  PROVE  QueueInv'
  <1>0. TypeOK
    BY DEF Inv, Local
  <1>1. CASE GdtInstall(c) \/ ApicInit(c) \/ Calibrate(c) \/ Calibrated(c)
    <2>1. /\ UNCHANGED <<queue, current>>
          /\ \E s \in {"gdt", "apic", "calibrate", "calibrating"} : Step(c, s)
      BY <1>1 DEF GdtInstall, ApicInit, Calibrate, Calibrated
    <2> QED
      BY <1>0, <2>1, StepRuns, QueueSame
  <1>2. CASE SchedulerInit(c) \/ CreateThreads(c)
    <2>1. \E s \in {"sched", "threads"} : Step(c, s)
      BY <1>2 DEF SchedulerInit, CreateThreads
    <2>2. /\ pc[c] \in {"sched", "threads"}
          /\ \A d \in CPUs : pc[d] = "run" => pc'[d] = "run"
          /\ pc[Boot] \in {"start", "run"} => pc'[Boot] \in {"start", "run"}
      BY <1>0, <2>1, StepRuns
    <2>7. pc[Boot] \notin {"start", "run"}
      BY <2>2, BootIn DEF Inv, HandshakeInv, Idling, Working, InLoop, Aps
    <2>3. gs[c] = c
      BY <2>2, HasGs DEF Inv, Local, NoCpu
    <2>4. current[c] = None
      BY <2>2 DEF Inv, Local, ApInv, BootInv, NoThread, BeforeSmp, Aps
    <2>5. CASE SchedulerInit(c)
      <3>1. queue[c] = << >> /\ queue \in [CPUs -> Seq(Threads)]
        BY <1>0, <2>4, <2>7 DEF QueueInv, TypeOK
      <3>2. UNCHANGED <<queue, current>>
        BY <2>3, <2>5, <3>1 DEF SchedulerInit
      <3> QED
        BY <2>2, <3>2, QueueSame
    <2>6. CASE CreateThreads(c)
      BY <2>2, <2>3, <2>4, <2>6, <2>7, QueueCreate
    <2> QED
      BY <1>2, <2>5, <2>6
  <1>3. CASE Start(c)
    <2>1. pc[c] = "start" /\ pc' = [pc EXCEPT ![c] = "run"]
      BY <1>3, BootIn, BspNext, ApNext DEF Start, Aps
    <2>2. gs[c] = c
      BY <2>1, HasGs DEF Inv, Local, NoCpu
    <2>3. current[c] # None
      BY <2>1 DEF Inv, Local, ApInv, BootInv, NoThread, NoCpu, BeforeSmp, Aps
    <2>4. current[c] = Idle(c)
      BY <2>1, <2>3 DEF QueueInv
    <2>5. SwitchNext(c, queue) /\ queue \in [CPUs -> Seq(Threads)]
          /\ current \in [CPUs -> Threads \cup {None}] /\ processors \in Seq(CPUs)
      BY <1>0, <1>3, <2>2 DEF Start, TypeOK
    <2>6. current'[c] # None /\ \A d \in CPUs : d # c => current'[d] = current[d]
      BY <2>5, SwitchType, NoneApart
    <2>7. ASSUME NEW d \in CPUs
          PROVE  /\ OnceIn(queue, current, Destroyer(d)) =>
                       OnceIn(queue, [current EXCEPT ![c] = None], Destroyer(d))
                 /\ Nowhere(queue, current, Destroyer(d)) =>
                       Nowhere(queue, [current EXCEPT ![c] = None], Destroyer(d))
      <3> DEFINE t == Destroyer(d)
      <3>1. None # t /\ current[c] # t
        BY <2>4, DestroyerNames, NoneApart
      <3>2. DOMAIN current = CPUs
        BY <2>5
      <3> HIDE DEF t
      <3>3. /\ OnceIn(queue, current, t) => OnceIn(queue, [current EXCEPT ![c] = None], t)
            /\ Nowhere(queue, current, t) => Nowhere(queue, [current EXCEPT ![c] = None], t)
        BY <3>1, <3>2, ReplaceKeeps
      <3> QED
        BY <3>3 DEF t
    <2>8. pc'[c] = "run" /\ \A d \in CPUs : d # c => pc'[d] = pc[d]
      BY <1>0, <2>1 DEF TypeOK
    <2>9. pc[Boot] \in {"start", "run"} => pc'[Boot] \in {"start", "run"}
      BY <2>8, BootIn
    <2>10. Len(queue[c]) <= Len(queue[c]) + 1
      BY <2>5
    <2> QED
      BY <2>3, <2>5, <2>6, <2>7, <2>8, <2>9, <2>10, QueueSwitch
  <1> QED
    BY <1>1, <1>2, <1>3 DEF StartStep

LEMMA QueueRun ==
  ASSUME Inv, QueueInv, NEW c \in CPUs, RunStep(c)
  PROVE  QueueInv'
  <1>0. /\ queue \in [CPUs -> Seq(Threads)] /\ processors \in Seq(CPUs)
        /\ current \in [CPUs -> Threads \cup {None}] /\ DOMAIN current = CPUs
    BY DEF Inv, Local, TypeOK
  <1>1. pc[c] = "run" /\ pc' = pc
    BY DEF RunStep, Preempt, MainSyscalls, MainExit
  <1>2. gs[c] = c
    BY <1>1, HasGs DEF Inv, Local, NoCpu
  <1>3. current[c] # None /\ current[c] \in Threads
    BY <1>0, <1>1 DEF Inv, Local, ApInv, BootInv, NoThread, NoCpu, BeforeSmp, Aps
  <1>4. ASSUME NEW q \in [CPUs -> Seq(Threads)], SwitchNext(c, q)
        PROVE  current'[c] # None /\ \A d \in CPUs : d # c => current'[d] = current[d]
    <2>1. PICK x \in Threads : current' = [current EXCEPT ![c] = x]
      BY <1>0, <1>4, SwitchType
    <2> QED
      BY <1>0, <2>1, NoneApart
  <1>5. CASE Preempt(c)
    <2> DEFINE q == [queue EXCEPT ![c] = Append(@, current[c])]
    <2>1. q \in [CPUs -> Seq(Threads)] /\ SwitchNext(c, q)
      BY <1>0, <1>2, <1>3, <1>5 DEF Preempt
    <2>2. /\ \A d \in CPUs : d # c => q[d] = queue[d]
          /\ Len(q[c]) <= Len(queue[c]) + 1
      BY <1>0, <1>3
    <2>3. ASSUME NEW d \in CPUs
          PROVE  /\ OnceIn(queue, current, Destroyer(d)) =>
                       OnceIn(q, [current EXCEPT ![c] = None], Destroyer(d))
                 /\ Nowhere(queue, current, Destroyer(d)) =>
                       Nowhere(q, [current EXCEPT ![c] = None], Destroyer(d))
      <3> DEFINE t == Destroyer(d)
                 x == current[c]
                 cur == [current EXCEPT ![c] = None]
      <3>1. None # t /\ x \in Threads
        BY <1>3, DestroyerNames, NoneApart
      <3> HIDE DEF t
      <3>2. /\ x # t /\ OnceIn(queue, current, t) => OnceIn(queue, cur, t)
            /\ Nowhere(queue, current, t) => Nowhere(queue, cur, t)
            /\ x = t /\ OnceIn(queue, current, t) => Nowhere(queue, cur, t)
        BY <1>0, <3>1, ReplaceKeeps
      <3>3. Nowhere(queue, current, t) => x # t
        BY DEF Nowhere, Running
      <3>4. q = [queue EXCEPT ![c] = Append(@, x)]
        OBVIOUS
      <3> HIDE DEF cur, x, q
      <3>5. /\ x # t /\ OnceIn(queue, cur, t) => OnceIn([queue EXCEPT ![c] = Append(@, x)], cur, t)
            /\ x # t /\ Nowhere(queue, cur, t) => Nowhere([queue EXCEPT ![c] = Append(@, x)], cur, t)
            /\ x = t /\ Nowhere(queue, cur, t) => OnceIn([queue EXCEPT ![c] = Append(@, x)], cur, t)
        BY <1>0, <3>1, PushKeeps
      <3>6. /\ OnceIn(queue, current, t) => OnceIn(q, cur, t)
            /\ Nowhere(queue, current, t) => Nowhere(q, cur, t)
        BY <3>2, <3>3, <3>4, <3>5
      <3> QED
        BY <3>6 DEF t, cur
    <2> HIDE DEF q
    <2> QED
      BY <1>1, <1>3, <1>4, <2>1, <2>2, <2>3, QueueSwitch
  <1>6. CASE MainSyscalls(c)
    <2>1. current[c] = Main /\ current' = [current EXCEPT ![c] = MainLoads] /\ UNCHANGED queue
      BY <1>2, <1>6 DEF MainSyscalls
    <2>2. MainLoads # None /\ current'[c] = MainLoads /\ \A d \in CPUs : d # c => current'[d] = current[d]
      BY <1>0, <2>1, ThreadNames, NoneApart
    <2>3. ASSUME NEW d \in CPUs
          PROVE  /\ OnceIn(queue, current, Destroyer(d)) => OnceIn(queue', current', Destroyer(d))
                 /\ Nowhere(queue, current, Destroyer(d)) => Nowhere(queue', current', Destroyer(d))
      <3> DEFINE t == Destroyer(d)
      <3>1. MainLoads # t /\ current[c] # t
        BY <2>1, DestroyerNames
      <3> HIDE DEF t
      <3>2. /\ OnceIn(queue, current, t) => OnceIn(queue, [current EXCEPT ![c] = MainLoads], t)
            /\ Nowhere(queue, current, t) => Nowhere(queue, [current EXCEPT ![c] = MainLoads], t)
        BY <1>0, <3>1, ReplaceKeeps
      <3> QED
        BY <2>1, <3>2 DEF t
    <2> QED
      BY <1>1, <1>3, <2>1, <2>2, <2>3 DEF QueueInv
  <1>7. CASE MainExit(c)
    <2>1. SwitchNext(c, queue) /\ current[c] = MainLoads
      BY <1>2, <1>7 DEF MainExit
    <2>2. ASSUME NEW d \in CPUs
          PROVE  /\ OnceIn(queue, current, Destroyer(d)) =>
                       OnceIn(queue, [current EXCEPT ![c] = None], Destroyer(d))
                 /\ Nowhere(queue, current, Destroyer(d)) =>
                       Nowhere(queue, [current EXCEPT ![c] = None], Destroyer(d))
      <3> DEFINE t == Destroyer(d)
      <3>1. None # t /\ current[c] # t
        BY <2>1, DestroyerNames, NoneApart
      <3> HIDE DEF t
      <3>2. /\ OnceIn(queue, current, t) => OnceIn(queue, [current EXCEPT ![c] = None], t)
            /\ Nowhere(queue, current, t) => Nowhere(queue, [current EXCEPT ![c] = None], t)
        BY <1>0, <3>1, ReplaceKeeps
      <3> QED
        BY <3>2 DEF t
    <2>3. Len(queue[c]) <= Len(queue[c]) + 1
      BY <1>0
    <2> QED
      BY <1>0, <1>1, <1>3, <1>4, <2>1, <2>2, <2>3, QueueSwitch
  <1> QED
    BY <1>5, <1>6, <1>7 DEF RunStep

LEMMA QueueNext == Inv /\ QueueInv /\ [Next]_vars => QueueInv'
  <1> SUFFICES ASSUME Inv, QueueInv, [Next]_vars PROVE QueueInv'
    OBVIOUS
  <1>1. CASE UNCHANGED vars
    BY <1>1 DEF vars, QueueInv
  <1>2. ASSUME NEW c \in Aps, ApStep(c) PROVE QueueInv'
    <2>1. /\ UNCHANGED <<queue, current>>
          /\ \E s \in {"real", "long", "entry", "idt", "syscalls", "signal"} : Step(c, s)
      BY <1>2 DEF ApStep, LongMode, TakeStack, InitCPU, IdtInitAp, InitSyscalls, Signal
    <2> QED
      BY <2>1, BootIn, StepRuns, QueueSame DEF Inv, Local
  <1> QED
    BY <1>1, <1>2, QueueBsp, QueueStart, QueueRun DEF Next, Aps

\* A thread that is in one place is counted once.
LEMMA OnceCounts ==
  ASSUME TypeOK, NEW t, OnceIn(queue, current, t)
  PROVE  Places(t) = 1
  <1> DEFINE run == {c \in CPUs : current[c] = t}
             places == Entries(t)
             n1 == Cardinality(run)
             n2 == Cardinality(places)
  <1>0. Cardinality({}) = 0 /\ \A x : Cardinality({x}) = 1
    BY FS_EmptySet, FS_Singleton
  <1>1. CASE (\E d \in CPUs : Holders(queue, t) = {d}) /\ Running(current, t) = {}
    <2>1. PICK d \in CPUs : Holders(queue, t) = {d}
      BY <1>1
    <2>2. run = {}
      BY <1>1 DEF Running
    <2>3. \A c \in CPUs : InSeq(t, queue[c]) <=> c = d
      BY <2>1 DEF Holders
    <2>4. PICK k \in DOMAIN queue[d] : queue[d][k] = t
      BY <2>3 DEF InSeq
    <2>5. \A c \in CPUs : \A n : n \in DOMAIN queue[c] /\ queue[c][n] = t <=> c = d /\ n = k
      BY <2>3, <2>4 DEF InSeq, Once, OnceIn
    <2>6. places = {<<d, k>>}
      BY <2>4, <2>5 DEF Entries
    <2>7. n1 = 0 /\ n2 = 1
      BY <1>0, <2>2, <2>6, Zenon
    <2> HIDE DEF n1, n2
    <2>8. n1 + n2 = 1
      BY <2>7
    <2> QED
      BY <2>8 DEF Places, n1, n2
  <1>2. CASE (\E d \in CPUs : Running(current, t) = {d}) /\ Holders(queue, t) = {}
    <2>1. PICK d \in CPUs : Running(current, t) = {d}
      BY <1>2
    <2>2. run = {d}
      BY <2>1 DEF Running
    <2>3. \A c \in CPUs : \A n : ~(n \in DOMAIN queue[c] /\ queue[c][n] = t)
      BY <1>2 DEF Holders, InSeq
    <2>4. places = {}
      BY <2>3 DEF Entries
    <2>5. n1 = 1 /\ n2 = 0
      BY <1>0, <2>2, <2>4, Zenon
    <2> HIDE DEF n1, n2
    <2>6. n1 + n2 = 1
      BY <2>5
    <2> QED
      BY <2>6 DEF Places, n1, n2
  <1> QED
    BY <1>1, <1>2 DEF OnceIn

\* Scheduler::init() of a processor that starts constructs its queue in place
\* while the others switch and balance theirs: no destroyer is in it then, and
\* each one created stays in one queue or on one CPU, whatever the number of
\* processors, their order, and the switches and balances in between.
THEOREM DestroyersKept == Spec => []NoThreadWiped
  <1>1. Inv /\ QueueInv => NoThreadWiped
    BY OnceCounts DEF Inv, Local, QueueInv, NoThreadWiped
  <1>2. Init => QueueInv
    BY QueueInit
  <1>3. Inv /\ QueueInv /\ [Next]_vars => QueueInv'
    BY QueueNext
  <1> QED
    BY <1>1, <1>2, <1>3, Invariance, PTL DEF Spec
=============================================================================
