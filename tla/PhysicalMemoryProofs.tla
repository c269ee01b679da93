------------------------ MODULE PhysicalMemoryProofs ------------------------
(***************************************************************************)
(* The page allocator for any number of CPUs and pages, any byte width and *)
(* any requests: the bitmap is exact, a page has one owner and the search  *)
(* is first fit, except for the pages that a store of the unlocked         *)
(* freePages() put back (`lost`).                                          *)
(***************************************************************************)
EXTENDS PhysicalMemory, TLAPS

WorkType ==
    [pc : {"idle", "lock", "scan", "set", "clear", "panic"}, count : Nat, align : Nat,
     i : 0 .. Pages, size : 0 .. Pages, index : 0 .. Pages, page : 0 .. Pages, end : 0 .. Pages,
     loaded : BOOLEAN, byte : SUBSET Page, free : SUBSET Page]

Types ==
    /\ used \subseteq Page /\ lost \subseteq Page
    /\ lock \in CPUs \cup {NoCPU}
    /\ work \in [CPUs -> WorkType]
    /\ blocks \in [CPUs -> SUBSET BlockType]
    /\ \A c \in CPUs : \A b \in blocks[c] : b.index + b.count <= Pages

\* Where the run of free pages that the search is about to try begins.
From(w) == IF w.size = 0 THEN w.i ELSE w.index

\* No aligned run that was free when the lock was taken begins below first.
NoneBelow(w, first) ==
    \A s \in 0 .. Pages - w.count :
        s % w.align = 0 /\ s .. s + w.count - 1 \subseteq w.free \ lost => first <= s

\* findFreePages() between two rounds: the run so far, and the pages that were
\* free when it began, are free still: only the holder of the lock sets bits.
Scanning(w) ==
    /\ w.count \in Counts /\ w.size < w.count
    /\ w.size > 0 => /\ w.index + w.size = w.i /\ w.index % w.align = 0
                     /\ \A q \in Page \ lost : w.index <= q /\ q < w.i => q \notin used
    /\ \A q \in w.free \ lost : q \notin used
    /\ NoneBelow(w, From(w))

\* setUsed() on the pages found: those before page are marked, the others not yet.
Setting(w) ==
    /\ w.count \in Counts /\ w.end = w.index + w.count /\ w.index % w.align = 0
    /\ w.index <= w.page /\ w.page <= w.end
    /\ \A q \in Page \ lost : /\ w.index <= q /\ q < w.page => q \in used
                              /\ w.page <= q /\ q < w.end => q \notin used
    /\ NoneBelow(w, w.index)

\* setFree() on the pages given back.
Clearing(w) ==
    /\ w.page <= w.end
    /\ \A q \in Page \ lost : w.page <= q /\ q < w.end => q \in used

CpuOK(c) ==
    LET w == work[c]
    IN  /\ w.pc \in {"scan", "set", "panic"} => lock = c
        /\ w.loaded => /\ w.pc \in {"set", "clear"} /\ w.page < w.end
                       /\ w.byte \subseteq ByteOf(w.page)
        /\ w.pc = "lock" => w.count \in Counts
        /\ w.pc \in {"lock", "scan"} => w.size < w.count
        /\ w.pc = "lock" => w.i = 0 /\ w.size = 0
        /\ w.pc = "scan" => Scanning(w)
        /\ w.pc = "set" => Setting(w)
        /\ w.pc = "clear" => Clearing(w)

\* Page q belongs to CPU c: in a block of its own, or one it works on.
Owns(c, q) == \E b \in blocks[c] : b.index <= q /\ q < b.index + b.count
Works(c, q) == LET w == work[c]
               IN  \/ w.pc = "set" /\ w.index <= q /\ q < w.index + w.count
                   \/ w.pc = "clear" /\ w.page <= q /\ q < w.end

\* Whatever is owned or worked on was available at boot and has one owner.
Claims ==
    \A q \in Page \ lost :
        /\ \A c \in CPUs : Owns(c, q) \/ Works(c, q) => q \in BootFree
        /\ \A c, d \in CPUs : Owns(c, q) => ~Works(d, q)
        /\ \A c, d \in CPUs : c # d => ~(Owns(c, q) /\ Owns(d, q)) /\ ~(Works(c, q) /\ Works(d, q))
        /\ \A c \in CPUs : \A a, b \in blocks[c] :
              a.index <= q /\ q < a.index + a.count /\ b.index <= q /\ q < b.index + b.count => a = b

Exact ==
    \A q \in Page \ lost :
        (\A c \in CPUs : ~Works(c, q)) => (q \in used <=> q \notin BootFree \/ \E c \in CPUs : Owns(c, q))

IInv ==
    /\ Types
    /\ \A c \in CPUs : CpuOK(c)
    /\ Claims
    /\ Exact

-----------------------------------------------------------------------------
(* Steps that leave the bitmap and the blocks alone *)

LEMMA IdleType ==
    Idle \in WorkType /\ Idle.i = 0 /\ Idle.size = 0 /\ Idle.loaded = FALSE /\ Idle.pc = "idle"
  BY PhysicalAssumption DEF Idle, WorkType

LEMMA InitIInv == Init => IInv
<1> SUFFICES ASSUME Init PROVE IInv
  OBVIOUS
<1>1. Idle \in WorkType
  BY IdleType
<1>2. \A c \in CPUs : work[c] = Idle /\ blocks[c] = {}
  BY DEF Init
<1>3. Types
  BY <1>1, PhysicalAssumption DEF Init, Types, Page
<1>4. \A c \in CPUs : CpuOK(c)
  BY <1>2 DEF CpuOK, Idle
<1>5. Claims
  BY <1>2 DEF Claims, Owns, Works, Idle
<1>6. Exact
  BY <1>2 DEF Exact, Owns, Works, Idle, Init
<1> QED
  BY <1>3, <1>4, <1>5, <1>6 DEF IInv

LEMMA BlockFacts ==
    ASSUME IInv, NEW c \in CPUs, NEW b \in blocks[c]
    PROVE  /\ b \in BlockType /\ b.index \in Nat /\ b.count \in Nat \ {0}
           /\ b.index + b.count <= Pages /\ Pages \in Nat
<1>1. blocks \in [CPUs -> SUBSET BlockType] /\ b.index + b.count <= Pages
  BY DEF IInv, Types
<1>2. b \in BlockType
  BY <1>1
<1>3. Pages \in Nat /\ Counts \subseteq Nat \ {0}
  BY PhysicalAssumption
<1>4. b.index \in 0 .. Pages - 1 /\ b.count \in Counts
  BY <1>2 DEF BlockType, Page
<1>5. b.index \in Nat
  BY <1>3, <1>4
<1>6. b.count \in Nat \ {0}
  BY <1>3, <1>4
<1> QED BY <1>1, <1>2, <1>3, <1>5, <1>6

\* A CPU that does nothing, while no bit changes.
LEMMA OtherCpu ==
    ASSUME NEW d \in CPUs, CpuOK(d), work'[d] = work[d], used' = used, lost' = lost,
           lock = d => lock' = d
    PROVE  CpuOK(d)'
  BY DEF CpuOK, Scanning, Setting, Clearing, NoneBelow, From

\* Pages nobody owns or works on, so that a CPU may begin to.
Fresh(q) == q \in BootFree /\ q \notin used /\ \A d \in CPUs : ~Owns(d, q) /\ ~Works(d, q)

LEMMA WorkStep ==
    ASSUME IInv, NEW c \in CPUs, UNCHANGED <<used, lost, blocks>>,
           work' = [work EXCEPT ![c] = work'[c]], work'[c] \in WorkType, CpuOK(c)',
           lock' \in CPUs \cup {NoCPU}, \A d \in CPUs \ {c} : lock = d => lock' = d,
           \A q \in Page \ lost : Works(c, q) => Works(c, q)',
           \A q \in Page \ lost : Works(c, q)' => Works(c, q) \/ Fresh(q)
    PROVE  IInv'
<1>1. \A d \in CPUs \ {c} : work'[d] = work[d]
  BY DEF IInv, Types
<1>2. Types'
  BY DEF IInv, Types
<1>3. \A d \in CPUs : CpuOK(d)'
  BY <1>1, OtherCpu DEF IInv
<1>4. \A d \in CPUs, q \in Page \ lost : Owns(d, q)' <=> Owns(d, q)
  BY DEF Owns
<1>5. \A d \in CPUs \ {c}, q \in Page \ lost : Works(d, q)' <=> Works(d, q)
  BY <1>1 DEF Works
<1>6. Claims'
  <2> SUFFICES ASSUME NEW q \in Page \ lost
               PROVE  /\ \A d \in CPUs : Owns(d, q)' \/ Works(d, q)' => q \in BootFree
                      /\ \A d, e \in CPUs : Owns(d, q)' => ~Works(e, q)'
                      /\ \A d, e \in CPUs : d # e => ~(Owns(d, q)' /\ Owns(e, q)')
                                                    /\ ~(Works(d, q)' /\ Works(e, q)')
                      /\ \A d \in CPUs : \A a, b \in blocks[d] :
                            a.index <= q /\ q < a.index + a.count
                              /\ b.index <= q /\ q < b.index + b.count => a = b
    BY DEF Claims
  <2>1. /\ \A d \in CPUs : Owns(d, q) \/ Works(d, q) => q \in BootFree
        /\ \A d, e \in CPUs : Owns(d, q) => ~Works(e, q)
        /\ \A d, e \in CPUs : d # e => ~(Owns(d, q) /\ Owns(e, q)) /\ ~(Works(d, q) /\ Works(e, q))
        /\ \A d \in CPUs : \A a, b \in blocks[d] :
              a.index <= q /\ q < a.index + a.count /\ b.index <= q /\ q < b.index + b.count => a = b
    BY DEF IInv, Claims
  <2>2. /\ \A d \in CPUs : Owns(d, q)' <=> Owns(d, q)
        /\ \A d \in CPUs \ {c} : Works(d, q)' <=> Works(d, q)
        /\ Works(c, q)' => Works(c, q) \/ Fresh(q)
    BY <1>4, <1>5
  <2> QED BY <2>1, <2>2 DEF Fresh
<1>7. Exact'
  <2> SUFFICES ASSUME NEW q \in Page \ lost, \A d \in CPUs : ~Works(d, q)'
               PROVE  q \in used <=> q \notin BootFree \/ \E d \in CPUs : Owns(d, q)'
    BY DEF Exact
  <2>1. \A d \in CPUs : ~Works(d, q)
    BY <1>5
  <2> QED BY <1>4, <2>1 DEF IInv, Exact
<1> QED
  BY <1>2, <1>3, <1>6, <1>7 DEF IInv

LEMMA GetFreePagesStep ==
    ASSUME IInv, NEW c \in CPUs, NEW count \in Counts, NEW align \in Alignments,
           GetFreePages(c, count, align)
    PROVE  IInv'
<1> DEFINE w == [Idle EXCEPT !.pc = "lock", !.count = count, !.align = align]
<1>1. work \in [CPUs -> WorkType] /\ work[c].pc = "idle" /\ Counts \subseteq Nat \ {0}
      /\ Alignments \subseteq Nat \ {0} /\ Pages \in Nat
  BY PhysicalAssumption DEF GetFreePages, IInv, Types
<1>2. work' = [work EXCEPT ![c] = w] /\ work'[c] = w /\ UNCHANGED <<used, lock, blocks, lost>>
  BY <1>1 DEF GetFreePages
<1>3. /\ w \in WorkType /\ w.pc = "lock" /\ w.count = count /\ w.i = 0 /\ w.size = 0
      /\ w.loaded = FALSE
  <2>1. count \in Nat /\ align \in Nat
    BY <1>1
  <2> QED BY <2>1, IdleType DEF WorkType
<1> HIDE DEF w
<1>4. CpuOK(c)'
  BY <1>1, <1>2, <1>3 DEF CpuOK
<1>5. \A q \in Page \ lost : ~Works(c, q) /\ ~Works(c, q)'
  BY <1>1, <1>2, <1>3 DEF Works
<1>6. lock' \in CPUs \cup {NoCPU}
  BY <1>2 DEF IInv, Types
<1> QED
  BY <1>2, <1>3, <1>4, <1>5, <1>6, WorkStep

LEMMA LockStep ==
    ASSUME IInv, NEW c \in CPUs, Lock(c)
    PROVE  IInv'
<1> DEFINE w == [work[c] EXCEPT !.pc = "scan", !.free = Page \ used]
<1>1. work \in [CPUs -> WorkType] /\ work[c] \in WorkType /\ work[c].pc = "lock" /\ lock = NoCPU
      /\ CpuOK(c)
  BY DEF Lock, IInv, Types
<1>2. work' = [work EXCEPT ![c] = w] /\ work'[c] = w /\ lock' = c /\ UNCHANGED <<used, blocks, lost>>
  BY <1>1 DEF Lock
<1>3. /\ w \in WorkType /\ w.pc = "scan" /\ w.count = work[c].count /\ w.i = work[c].i
      /\ w.size = work[c].size /\ w.loaded = work[c].loaded /\ w.free = Page \ used
      /\ w.align = work[c].align
  BY <1>1 DEF WorkType
<1>4. work[c].count \in Counts /\ work[c].i = 0 /\ work[c].size = 0 /\ ~work[c].loaded
      /\ work[c].size < work[c].count
  BY <1>1 DEF CpuOK, WorkType
<1> HIDE DEF w
<1>5. Scanning(work[c])'
  BY <1>2, <1>3, <1>4 DEF Scanning, NoneBelow, From
<1>6. CpuOK(c)'
  BY <1>2, <1>3, <1>4, <1>5 DEF CpuOK
<1>7. \A q \in Page \ lost : ~Works(c, q) /\ ~Works(c, q)'
  BY <1>1, <1>2, <1>3 DEF Works
<1>8. \A d \in CPUs \ {c} : lock # d
  BY <1>1, PhysicalAssumption DEF NoCPU
<1> QED
  BY <1>2, <1>3, <1>6, <1>7, <1>8, WorkStep

\* What a CPU in findFreePages() knows.
LEMMA ScanFacts ==
    ASSUME IInv, NEW c \in CPUs, work[c].pc = "scan", work[c].i < Pages
    PROVE  LET w == work[c]
           IN  /\ w \in WorkType /\ lock = c /\ ~w.loaded /\ Scanning(w)
               /\ w.count \in Nat \ {0} /\ w.align \in Nat /\ w.i \in Nat /\ w.size \in Nat
               /\ w.index \in Nat /\ Pages \in Nat /\ w.i \in Page /\ w.i + 1 \in 0 .. Pages
               /\ w.free \subseteq Page /\ From(w) + w.count > w.i /\ From(w) <= w.i
               /\ From(w) \in 0 .. Pages
<1> DEFINE w == work[c]
<1>1. w \in WorkType /\ CpuOK(c)
  BY DEF IInv, Types
<1>2. lock = c /\ ~w.loaded /\ Scanning(w)
  BY <1>1 DEF CpuOK
<1>3. /\ w.count \in Nat \ {0} /\ w.align \in Nat /\ w.i \in 0 .. Pages /\ w.size \in 0 .. Pages
      /\ w.index \in 0 .. Pages /\ w.free \subseteq Page /\ Pages \in Nat
  BY <1>1, <1>2, PhysicalAssumption DEF WorkType, Scanning
<1>4. From(w) + w.count > w.i /\ From(w) <= w.i /\ From(w) \in 0 .. Pages
  <2> HIDE DEF w
  <2>1. w.size < w.count /\ (w.size > 0 => w.index + w.size = w.i)
    BY <1>2 DEF Scanning
  <2> QED BY <1>3, <2>1 DEF From
<1> HIDE DEF w
<1>5. w.i \in Page /\ w.i + 1 \in 0 .. Pages
  BY <1>3 DEF w, Page
<1> QED
  BY <1>1, <1>2, <1>3, <1>4, <1>5 DEF w

\* Bit i is set: the run ends, and no run that contains i begins below i + 1.
LEMMA ScanUsed ==
    ASSUME IInv, NEW c \in CPUs, work[c].pc = "scan", work[c].i < Pages, work[c].i \in used,
           work' = [work EXCEPT ![c].i = @ + 1, ![c].size = 0],
           UNCHANGED <<used, lock, blocks, lost>>
    PROVE  IInv'
<1> DEFINE w == work[c]
           n == [w EXCEPT !.i = @ + 1, !.size = 0]
<1>1. /\ w \in WorkType /\ lock = c /\ ~w.loaded /\ Scanning(w)
      /\ w.count \in Nat \ {0} /\ w.align \in Nat /\ w.i \in Nat /\ Pages \in Nat
      /\ w.i + 1 \in 0 .. Pages /\ w.free \subseteq Page /\ From(w) + w.count > w.i
      /\ From(w) \in 0 .. Pages /\ w.pc = "scan"
  BY ScanFacts
<1>2. work' = [work EXCEPT ![c] = n] /\ work'[c] = n /\ work \in [CPUs -> WorkType]
  BY DEF IInv, Types
<1> HIDE DEF w
<1>3. /\ n \in WorkType /\ n.pc = "scan" /\ n.loaded = w.loaded /\ n.count = w.count
      /\ n.align = w.align /\ n.i = w.i + 1 /\ n.size = 0 /\ n.free = w.free
  <2>1. 0 \in 0 .. Pages
    BY <1>1
  <2> QED BY <1>1, <2>1 DEF WorkType
<1> HIDE DEF n
<1>4. NoneBelow(n, w.i + 1)
  <2> SUFFICES ASSUME NEW s \in 0 .. Pages - w.count, s % w.align = 0,
                      s .. s + w.count - 1 \subseteq w.free \ lost, s <= w.i
               PROVE  FALSE
    BY <1>1, <1>3 DEF NoneBelow
  <2>1. From(w) <= s
    BY <1>1 DEF Scanning, NoneBelow
  <2>2. w.i \in s .. s + w.count - 1
    BY <1>1, <2>1
  <2> QED BY <1>1, <2>2 DEF Scanning, w
<1>5. Scanning(n)
  BY <1>1, <1>3, <1>4 DEF Scanning, From
<1>6. CpuOK(c)'
  BY <1>1, <1>2, <1>3, <1>5 DEF CpuOK, Scanning, NoneBelow, From
<1>7. \A q \in Page \ lost : ~Works(c, q) /\ ~Works(c, q)'
  BY <1>1, <1>2, <1>3 DEF Works, w
<1>8. lock' \in CPUs \cup {NoCPU}
  BY DEF IInv, Types
<1> QED
  BY <1>2, <1>3, <1>6, <1>7, <1>8, WorkStep

\* Bit i is clear but no block may begin there.
LEMMA ScanUnaligned ==
    ASSUME IInv, NEW c \in CPUs, work[c].pc = "scan", work[c].i < Pages,
           work[c].size = 0, ~CanStart(work[c]),
           work' = [work EXCEPT ![c].i = @ + 1], UNCHANGED <<used, lock, blocks, lost>>
    PROVE  IInv'
<1> DEFINE w == work[c]
           n == [w EXCEPT !.i = @ + 1]
<1>1. /\ w \in WorkType /\ lock = c /\ ~w.loaded /\ Scanning(w)
      /\ w.count \in Nat \ {0} /\ w.align \in Nat /\ w.i \in Nat /\ Pages \in Nat
      /\ w.i + 1 \in 0 .. Pages /\ w.size = 0 /\ w.i % w.align # 0 /\ w.pc = "scan"
  BY ScanFacts DEF CanStart
<1>2. work' = [work EXCEPT ![c] = n] /\ work'[c] = n /\ work \in [CPUs -> WorkType]
  BY DEF IInv, Types
<1> HIDE DEF w
<1>3. /\ n \in WorkType /\ n.pc = "scan" /\ n.loaded = w.loaded /\ n.count = w.count
      /\ n.align = w.align /\ n.i = w.i + 1 /\ n.size = 0 /\ n.free = w.free
  <2>1. 0 \in 0 .. Pages
    BY <1>1
  <2> QED BY <1>1, <2>1 DEF WorkType
<1> HIDE DEF n
<1>4. NoneBelow(n, w.i + 1)
  <2> SUFFICES ASSUME NEW s \in 0 .. Pages - w.count, s % w.align = 0,
                      s .. s + w.count - 1 \subseteq w.free \ lost
               PROVE  w.i + 1 <= s
    BY <1>1, <1>3 DEF NoneBelow
  <2>1. w.i <= s
    BY <1>1 DEF Scanning, NoneBelow, From
  <2>2. s # w.i
    BY <1>1
  <2> QED BY <1>1, <2>1, <2>2
<1>5. Scanning(n)
  BY <1>1, <1>3, <1>4 DEF Scanning, From
<1>6. CpuOK(c)'
  BY <1>1, <1>2, <1>3, <1>5 DEF CpuOK, Scanning, NoneBelow, From
<1>7. \A q \in Page \ lost : ~Works(c, q) /\ ~Works(c, q)'
  BY <1>1, <1>2, <1>3 DEF Works, w
<1>8. lock' \in CPUs \cup {NoCPU}
  BY DEF IInv, Types
<1> QED
  BY <1>2, <1>3, <1>6, <1>7, <1>8, WorkStep

\* Bit i prolongs the run, or begins one.
LEMMA ScanFree ==
    ASSUME IInv, NEW c \in CPUs, work[c].pc = "scan", work[c].i < Pages, work[c].i \notin used,
           work[c].size = 0 => CanStart(work[c]), work[c].size + 1 < work[c].count,
           work' = [work EXCEPT ![c].i = @ + 1, ![c].size = @ + 1, ![c].index = From(work[c])],
           UNCHANGED <<used, lock, blocks, lost>>
    PROVE  IInv'
<1> DEFINE w == work[c]
           n == [w EXCEPT !.i = @ + 1, !.size = @ + 1, !.index = From(w)]
<1>1. /\ w \in WorkType /\ lock = c /\ ~w.loaded /\ Scanning(w) /\ w.size \in Nat
      /\ w.count \in Nat \ {0} /\ w.align \in Nat /\ w.i \in Nat /\ w.index \in Nat /\ Pages \in Nat
      /\ w.i + 1 \in 0 .. Pages /\ w.free \subseteq Page /\ w.pc = "scan"
      /\ From(w) \in 0 .. Pages /\ w.i \notin used /\ w.size + 1 < w.count
      /\ w.size = 0 => w.i % w.align = 0
  BY ScanFacts DEF CanStart
<1>2. work' = [work EXCEPT ![c] = n] /\ work'[c] = n /\ work \in [CPUs -> WorkType]
  BY DEF IInv, Types
<1> HIDE DEF w
<1>3. From(w) + w.size = w.i /\ From(w) % w.align = 0 /\ w.size + 1 \in 0 .. Pages
  BY <1>1 DEF From, Scanning
<1>4. /\ n \in WorkType /\ n.pc = "scan" /\ n.loaded = w.loaded /\ n.count = w.count
      /\ n.align = w.align /\ n.i = w.i + 1 /\ n.size = w.size + 1 /\ n.free = w.free
      /\ n.index = From(w)
  BY <1>1, <1>3 DEF WorkType
<1> HIDE DEF n
<1>5. From(n) = From(w)
  BY <1>1, <1>4 DEF From
<1>6. \A q \in Page \ lost : From(w) <= q /\ q < w.i + 1 => q \notin used
  <2> SUFFICES ASSUME NEW q \in Page \ lost, From(w) <= q, q < w.i + 1, q # w.i
               PROVE  q \notin used
    BY <1>1
  <2>1. q \in Nat /\ q < w.i
    BY <1>1 DEF Page
  <2>2. w.size > 0 /\ w.index <= q
    BY <1>1, <2>1 DEF From
  <2> QED BY <1>1, <2>1, <2>2 DEF Scanning
<1>7. NoneBelow(n, From(n))
  BY <1>1, <1>4, <1>5 DEF Scanning, NoneBelow
<1>8. Scanning(n)
  BY <1>1, <1>3, <1>4, <1>6, <1>7 DEF Scanning
<1>9. CpuOK(c)'
  BY <1>1, <1>2, <1>4, <1>8 DEF CpuOK, Scanning, NoneBelow, From
<1>10. \A q \in Page \ lost : ~Works(c, q) /\ ~Works(c, q)'
  BY <1>1, <1>2, <1>4 DEF Works, w
<1>11. lock' \in CPUs \cup {NoCPU}
  BY DEF IInv, Types
<1> QED
  BY <1>2, <1>4, <1>9, <1>10, <1>11, WorkStep

\* A free page of the run is nobody's: who clears bits works on set ones, and who
\* sets bits holds the lock.
LEMMA FreeIsFresh ==
    ASSUME IInv, NEW c \in CPUs, work[c].pc = "scan", NEW q \in Page \ lost, q \notin used
    PROVE  Fresh(q)
<1>1. lock = c
  BY DEF IInv, CpuOK
<1>2. \A d \in CPUs : ~Works(d, q)
  <2> SUFFICES ASSUME NEW d \in CPUs, Works(d, q)
               PROVE  FALSE
    OBVIOUS
  <2>1. CpuOK(d)
    BY DEF IInv
  <2>2. CASE work[d].pc = "set"
    BY <1>1, <2>1, <2>2 DEF CpuOK
  <2>3. CASE work[d].pc = "clear"
    BY <2>1, <2>3 DEF CpuOK, Clearing, Works
  <2> QED BY <2>2, <2>3 DEF Works
<1> QED
  BY <1>2 DEF IInv, Exact, Fresh

\* Bit i completes the run.
LEMMA ScanFound ==
    ASSUME IInv, NEW c \in CPUs, work[c].pc = "scan", work[c].i < Pages, work[c].i \notin used,
           work[c].size = 0 => CanStart(work[c]), work[c].size + 1 = work[c].count,
           work' = [work EXCEPT ![c].pc = "set", ![c].size = work[c].count,
                                ![c].index = From(work[c]), ![c].page = From(work[c]),
                                ![c].end = From(work[c]) + work[c].count],
           UNCHANGED <<used, lock, blocks, lost>>
    PROVE  IInv'
<1> DEFINE w == work[c]
           n == [w EXCEPT !.pc = "set", !.size = w.count, !.index = From(w), !.page = From(w),
                          !.end = From(w) + w.count]
<1>1. /\ w \in WorkType /\ lock = c /\ ~w.loaded /\ Scanning(w) /\ w.size \in Nat
      /\ w.count \in Nat \ {0} /\ w.align \in Nat /\ w.i \in Nat /\ w.index \in Nat /\ Pages \in Nat
      /\ w.i + 1 \in 0 .. Pages /\ w.free \subseteq Page /\ w.pc = "scan"
      /\ From(w) \in 0 .. Pages /\ w.i \notin used /\ w.size + 1 = w.count
      /\ w.size = 0 => w.i % w.align = 0
  BY ScanFacts DEF CanStart
<1>2. work' = [work EXCEPT ![c] = n] /\ work'[c] = n /\ work \in [CPUs -> WorkType]
  BY DEF IInv, Types
<1>3. \A q \in Page \ lost : q \notin used => Fresh(q)
  BY <1>1, FreeIsFresh
<1>4. \A q \in Page \ lost : ~Works(c, q)
  BY <1>1 DEF Works
<1> HIDE DEF w
<1>5. /\ From(w) + w.size = w.i /\ From(w) % w.align = 0
      /\ w.count \in 0 .. Pages /\ From(w) + w.count \in 0 .. Pages
  BY <1>1 DEF From, Scanning
<1>6. /\ n \in WorkType /\ n.pc = "set" /\ n.loaded = w.loaded /\ n.count = w.count
      /\ n.align = w.align /\ n.free = w.free
      /\ n.index = From(w) /\ n.page = From(w) /\ n.end = From(w) + w.count
  BY <1>1, <1>5 DEF WorkType
<1> HIDE DEF n
<1>7. \A q \in Page \ lost : From(w) <= q /\ q < From(w) + w.count => q \notin used
  <2> SUFFICES ASSUME NEW q \in Page \ lost, From(w) <= q, q < From(w) + w.count, q # w.i
               PROVE  q \notin used
    BY <1>1
  <2>1. q \in Nat /\ q < w.i
    BY <1>1, <1>5 DEF Page
  <2>2. w.size > 0 /\ w.index <= q
    BY <1>1, <2>1 DEF From
  <2> QED BY <1>1, <2>1, <2>2 DEF Scanning
<1>8. NoneBelow(n, n.index)
  BY <1>1, <1>6 DEF Scanning, NoneBelow
<1>9. Setting(n)
  BY <1>1, <1>5, <1>6, <1>7, <1>8 DEF Setting, Scanning, Page
<1>10. CpuOK(c)'
  BY <1>1, <1>2, <1>6, <1>9 DEF CpuOK, Setting, NoneBelow
<1>11. \A q \in Page \ lost : Works(c, q)' => Fresh(q)
  BY <1>2, <1>3, <1>6, <1>7 DEF Works
<1>12. lock' \in CPUs \cup {NoCPU}
  BY DEF IInv, Types
<1> QED
  BY <1>2, <1>4, <1>6, <1>10, <1>11, <1>12, WorkStep

LEMMA ScanStep ==
    ASSUME IInv, NEW c \in CPUs, Scan(c)
    PROVE  IInv'
  BY ScanUsed, ScanUnaligned, ScanFree, ScanFound DEF Scan, BitmapEnd, From

LEMMA OutOfMemoryStep ==
    ASSUME IInv, NEW c \in CPUs, OutOfMemory(c)
    PROVE  IInv'
<1> DEFINE n == [work[c] EXCEPT !.pc = "panic"]
<1>1. work[c] \in WorkType /\ work[c].pc = "scan" /\ CpuOK(c) /\ work \in [CPUs -> WorkType]
  BY DEF OutOfMemory, IInv, Types
<1>2. work' = [work EXCEPT ![c] = n] /\ work'[c] = n /\ UNCHANGED <<used, lock, blocks, lost>>
  BY <1>1 DEF OutOfMemory
<1>3. n \in WorkType /\ n.pc = "panic" /\ n.loaded = work[c].loaded
  BY <1>1 DEF WorkType
<1> HIDE DEF n
<1>4. lock = c /\ ~work[c].loaded
  BY <1>1 DEF CpuOK
<1>5. CpuOK(c)'
  BY <1>2, <1>3, <1>4 DEF CpuOK
<1>6. \A q \in Page \ lost : ~Works(c, q) /\ ~Works(c, q)'
  BY <1>1, <1>2, <1>3 DEF Works
<1>7. lock' \in CPUs \cup {NoCPU}
  BY <1>2 DEF IInv, Types
<1> QED
  BY <1>2, <1>3, <1>5, <1>6, <1>7, WorkStep

LEMMA LoadStep ==
    ASSUME IInv, NEW c \in CPUs, Load(c)
    PROVE  IInv'
<1> DEFINE w == work[c]
           n == [w EXCEPT !.loaded = TRUE, !.byte = ByteOf(w.page) \cap used]
<1>1. /\ w \in WorkType /\ w.pc \in {"set", "clear"} /\ w.page < w.end /\ CpuOK(c)
      /\ work \in [CPUs -> WorkType]
  BY DEF Load, IInv, Types
<1>2. work' = [work EXCEPT ![c] = n] /\ work'[c] = n /\ UNCHANGED <<used, lock, blocks, lost>>
  BY <1>1 DEF Load
<1>3. ByteOf(w.page) \cap used \in SUBSET Page
  BY DEF ByteOf
<1>4. /\ n \in WorkType /\ n.pc = w.pc /\ n.loaded = TRUE /\ n.byte = ByteOf(w.page) \cap used
      /\ n.count = w.count /\ n.align = w.align /\ n.index = w.index /\ n.page = w.page
      /\ n.end = w.end /\ n.free = w.free
  <2> HIDE DEF w
  <2> QED BY <1>1, <1>3 DEF WorkType
<1> HIDE DEF n
<1>5. CpuOK(c)'
  BY <1>1, <1>2, <1>4 DEF CpuOK, Setting, Clearing, NoneBelow
<1>6. \A q \in Page \ lost : Works(c, q)' <=> Works(c, q)
  BY <1>2, <1>4 DEF Works
<1>7. lock' \in CPUs \cup {NoCPU}
  BY <1>2 DEF IInv, Types
<1> QED
  BY <1>2, <1>4, <1>5, <1>6, <1>7, WorkStep

LEMMA FreedStep ==
    ASSUME IInv, NEW c \in CPUs, Freed(c)
    PROVE  IInv'
<1>1. /\ work[c] \in WorkType /\ work[c].pc = "clear" /\ work[c].page = work[c].end
      /\ work \in [CPUs -> WorkType] /\ Pages \in Nat
  BY PhysicalAssumption DEF Freed, IInv, Types
<1>2. work' = [work EXCEPT ![c] = Idle] /\ work'[c] = Idle /\ UNCHANGED <<used, lock, blocks, lost>>
  BY <1>1 DEF Freed
<1>3. CpuOK(c)'
  BY <1>2, IdleType DEF CpuOK
<1>4. \A q \in Page \ lost : ~Works(c, q) /\ ~Works(c, q)'
  <2>1. work[c].end \in Nat /\ Page \subseteq Nat
    BY <1>1 DEF WorkType, Page
  <2> QED BY <1>1, <1>2, <2>1, IdleType DEF Works
<1>5. lock' \in CPUs \cup {NoCPU}
  BY <1>2 DEF IInv, Types
<1> QED
  BY <1>2, <1>3, <1>4, <1>5, IdleType, WorkStep

-----------------------------------------------------------------------------
(* Stores *)

\* A store changes the bit it is meant for; those it disturbs are lost.
LEMMA StoreBits ==
    ASSUME IInv, NEW c \in CPUs, NEW byte, work[c].loaded,
           byte \in {work[c].byte \cup {work[c].page}, work[c].byte \ {work[c].page}},
           Store(c, byte)
    PROVE  /\ used' \subseteq Page /\ lost' \subseteq Page /\ lost \subseteq lost'
           /\ \A q \in Page \ lost' : q # work[c].page => (q \in used' <=> q \in used)
           /\ work[c].page \in used' <=> work[c].page \in byte
           /\ work[c].page \in Page /\ work[c].page < work[c].end
           /\ lock' = lock /\ blocks' = blocks
           /\ work' = [work EXCEPT ![c] = work'[c]] /\ work'[c] \in WorkType
           /\ work'[c].loaded = FALSE /\ work'[c].page = work[c].page + 1
           /\ work'[c].pc = work[c].pc /\ work'[c].count = work[c].count
           /\ work'[c].align = work[c].align /\ work'[c].index = work[c].index
           /\ work'[c].end = work[c].end /\ work'[c].free = work[c].free
<1> DEFINE w == work[c]
           page == w.page
           n == [w EXCEPT !.loaded = FALSE, !.byte = {}, !.page = @ + 1]
<1>1. /\ w \in WorkType /\ page < w.end /\ w.byte \subseteq ByteOf(page)
      /\ work \in [CPUs -> WorkType] /\ used \subseteq Page /\ lost \subseteq Page /\ Pages \in Nat
  BY PhysicalAssumption DEF IInv, CpuOK, Types
<1>2. page \in Page /\ page + 1 \in 0 .. Pages /\ page \in Nat
  BY <1>1 DEF WorkType, Page
<1>3. /\ used' = (used \ ByteOf(page)) \cup byte
      /\ lost' = lost \cup {q \in ByteOf(page) \ {page} : (q \in used) # (q \in w.byte)}
      /\ work' = [work EXCEPT ![c] = n] /\ work'[c] = n
      /\ lock' = lock /\ blocks' = blocks
  BY <1>1 DEF Store
<1>4. page \in ByteOf(page) /\ ByteOf(page) \subseteq Page
  BY <1>2 DEF ByteOf
<1> HIDE DEF w
<1>5. /\ n \in WorkType /\ n.loaded = FALSE /\ n.page = page + 1 /\ n.pc = w.pc
      /\ n.count = w.count /\ n.align = w.align /\ n.index = w.index
      /\ n.end = w.end /\ n.free = w.free
  BY <1>1, <1>2 DEF WorkType
<1> HIDE DEF n, page
<1>6. used' \subseteq Page /\ lost' \subseteq Page /\ lost \subseteq lost'
  BY <1>1, <1>2, <1>3, <1>4 DEF w, page
<1>7. ASSUME NEW q \in Page \ lost', q # page PROVE q \in used' <=> q \in used
  <2>1. q \in byte <=> q \in w.byte
    BY <1>7 DEF w, page
  <2>2. CASE q \in ByteOf(page)
    BY <1>3, <1>7, <2>1, <2>2
  <2>3. CASE q \notin ByteOf(page)
    BY <1>1, <1>3, <2>1, <2>3
  <2> QED BY <2>2, <2>3
<1>8. page \in used' <=> page \in byte
  BY <1>3, <1>4
<1> QED
  BY <1>1, <1>2, <1>3, <1>5, <1>6, <1>7, <1>8 DEF w, page

\* More pages lost: what is asked of the others only gets weaker.
LEMMA NoneBelowLost ==
    ASSUME NEW w, NEW first, NoneBelow(w, first), lost \subseteq lost'
    PROVE  \A s \in 0 .. Pages - w.count :
               s % w.align = 0 /\ s .. s + w.count - 1 \subseteq w.free \ lost' => first <= s
  BY DEF NoneBelow

LEMMA ClaimsShrink ==
    ASSUME Claims, blocks' = blocks, \A q \in Page \ lost' : q \in Page \ lost,
           \A d \in CPUs, q \in Page : (Owns(d, q)' => Owns(d, q)) /\ (Works(d, q)' => Works(d, q))
    PROVE  Claims'
<1> SUFFICES ASSUME NEW q \in Page \ lost'
             PROVE  /\ \A d \in CPUs : Owns(d, q)' \/ Works(d, q)' => q \in BootFree
                    /\ \A d, e \in CPUs : Owns(d, q)' => ~Works(e, q)'
                    /\ \A d, e \in CPUs : d # e => ~(Owns(d, q)' /\ Owns(e, q)')
                                                  /\ ~(Works(d, q)' /\ Works(e, q)')
                    /\ \A d \in CPUs : \A a, b \in blocks[d] :
                          a.index <= q /\ q < a.index + a.count
                            /\ b.index <= q /\ q < b.index + b.count => a = b
  BY DEF Claims
<1>1. /\ \A d \in CPUs : Owns(d, q) \/ Works(d, q) => q \in BootFree
      /\ \A d, e \in CPUs : Owns(d, q) => ~Works(e, q)
      /\ \A d, e \in CPUs : d # e => ~(Owns(d, q) /\ Owns(e, q)) /\ ~(Works(d, q) /\ Works(e, q))
      /\ \A d \in CPUs : \A a, b \in blocks[d] :
            a.index <= q /\ q < a.index + a.count /\ b.index <= q /\ q < b.index + b.count => a = b
  BY DEF Claims
<1>2. \A d \in CPUs : (Owns(d, q)' => Owns(d, q)) /\ (Works(d, q)' => Works(d, q))
  OBVIOUS
<1> QED
  BY <1>1, <1>2

LEMMA SetUsedStep ==
    ASSUME IInv, NEW c \in CPUs, SetUsed(c)
    PROVE  IInv'
<1> DEFINE w == work[c]
           page == w.page
           n == work'[c]
<1>1. w.pc = "set" /\ w.loaded /\ Store(c, w.byte \cup {page})
  BY DEF SetUsed, Store
<1>2. /\ used' \subseteq Page /\ lost' \subseteq Page /\ lost \subseteq lost'
      /\ \A q \in Page \ lost' : q # page => (q \in used' <=> q \in used)
      /\ page \in used'
      /\ page \in Page /\ page < w.end /\ lock' = lock /\ blocks' = blocks
      /\ work' = [work EXCEPT ![c] = n] /\ n \in WorkType
      /\ n.loaded = FALSE /\ n.page = page + 1 /\ n.pc = w.pc
      /\ n.count = w.count /\ n.align = w.align /\ n.index = w.index
      /\ n.end = w.end /\ n.free = w.free
  <2> DEFINE byte == w.byte \cup {page}
  <2>1. byte \in {work[c].byte \cup {work[c].page}, work[c].byte \ {work[c].page}}
    OBVIOUS
  <2>2. page \in byte /\ Store(c, byte) /\ work[c].loaded
    BY <1>1
  <2> HIDE DEF byte
  <2> QED BY <2>1, <2>2, StoreBits
<1>3. /\ CpuOK(c) /\ lock = c /\ Setting(w) /\ work \in [CPUs -> WorkType] /\ w \in WorkType
      /\ Page \subseteq Nat /\ Pages \in Nat
  BY <1>1, PhysicalAssumption DEF IInv, CpuOK, Types, Page
<1>4. Types'
  BY <1>2, <1>3 DEF IInv, Types
<1>5. Setting(work[c])'
  <2>1. NoneBelow(w, w.index)
    BY <1>3 DEF Setting
  <2>2. \A s \in 0 .. Pages - n.count :
           s % n.align = 0 /\ s .. s + n.count - 1 \subseteq n.free \ lost' => n.index <= s
    BY <1>2, <2>1 DEF NoneBelow
  <2>3. \A q \in Page \ lost' : /\ n.index <= q /\ q < n.page => q \in used'
                                /\ n.page <= q /\ q < n.end => q \notin used'
    <3> SUFFICES ASSUME NEW q \in Page \ lost'
                 PROVE  /\ w.index <= q /\ q < page + 1 => q \in used'
                        /\ page + 1 <= q /\ q < w.end => q \notin used'
      BY <1>2
    <3>1. q \in Nat /\ page \in Nat /\ q \in Page \ lost
      BY <1>2, <1>3
    <3>2. CASE q = page
      BY <1>2, <3>1, <3>2
    <3>3. CASE q # page
      <4>1. /\ w.index <= q /\ q < page => q \in used
            /\ page <= q /\ q < w.end => q \notin used
        BY <1>3, <3>1 DEF Setting
      <4> QED BY <1>2, <3>1, <3>3, <4>1
    <3> QED BY <3>2, <3>3
  <2>4. /\ n.count \in Counts /\ n.end = n.index + n.count /\ n.index % n.align = 0
        /\ n.index <= n.page /\ n.page <= n.end
    BY <1>2, <1>3 DEF Setting, WorkType
  <2> QED BY <2>2, <2>3, <2>4 DEF Setting, NoneBelow
<1>6. CpuOK(c)'
  BY <1>1, <1>2, <1>3, <1>5 DEF CpuOK
<1>7. ASSUME NEW d \in CPUs \ {c} PROVE CpuOK(d)'
  <2>1. work'[d] = work[d] /\ CpuOK(d) /\ lock # d /\ work[d] \in WorkType
    BY <1>2, <1>3 DEF IInv, Types
  <2>2. work[d].pc = "clear" => Clearing(work[d])'
    <3> SUFFICES ASSUME work[d].pc = "clear", NEW q \in Page \ lost',
                        work[d].page <= q, q < work[d].end
                 PROVE  q \in used'
      BY <2>1 DEF CpuOK, Clearing
    <3>1. q \in used
      BY <1>2, <2>1 DEF CpuOK, Clearing
    <3> QED BY <1>2, <3>1
  <2> QED BY <2>1, <2>2 DEF CpuOK
<1>8. \A d \in CPUs, q \in Page :
         /\ Owns(d, q)' <=> Owns(d, q)
         /\ Works(d, q)' <=> Works(d, q)
  <2>1. \A d \in CPUs, q \in Page : Owns(d, q)' <=> Owns(d, q)
    BY <1>2 DEF Owns
  <2>2. ASSUME NEW d \in CPUs, NEW q \in Page PROVE Works(d, q)' <=> Works(d, q)
    <3>1. CASE d = c
      BY <1>1, <1>2, <3>1 DEF Works
    <3>2. CASE d # c
      BY <1>2, <1>3, <3>2 DEF Works
    <3> QED BY <3>1, <3>2
  <2> QED BY <2>1, <2>2
<1>9. Claims'
  <2>1. Claims /\ \A q \in Page \ lost' : q \in Page \ lost
    BY <1>2 DEF IInv
  <2>2. \A d \in CPUs, q \in Page : (Owns(d, q)' => Owns(d, q)) /\ (Works(d, q)' => Works(d, q))
    BY <1>8
  <2> QED BY <1>2, <2>1, <2>2, ClaimsShrink
<1>10. Exact'
  <2> SUFFICES ASSUME NEW q \in Page \ lost', \A d \in CPUs : ~Works(d, q)'
               PROVE  q \in used' <=> q \notin BootFree \/ \E d \in CPUs : Owns(d, q)'
    BY DEF Exact
  <2>1. Works(c, page)
    BY <1>1, <1>2, <1>3 DEF Works, Setting
  <2>2. \A d \in CPUs : ~Works(d, q)
    BY <1>8
  <2>6. q # page
    BY <2>1, <2>2
  <2>3. q \in used <=> q \notin BootFree \/ \E d \in CPUs : Owns(d, q)
    BY <1>2, <2>2 DEF IInv, Exact
  <2>4. q \in used' <=> q \in used
    BY <1>2, <2>6
  <2>5. \A d \in CPUs : Owns(d, q)' <=> Owns(d, q)
    BY <1>8
  <2> QED BY <2>3, <2>4, <2>5
<1> QED
  BY <1>4, <1>6, <1>7, <1>9, <1>10 DEF IInv

LEMMA SetFreeStep ==
    ASSUME IInv, NEW c \in CPUs, SetFree(c)
    PROVE  IInv'
<1> DEFINE w == work[c]
           page == w.page
           n == work'[c]
<1>1. w.pc = "clear" /\ w.loaded /\ Store(c, w.byte \ {page})
  BY DEF SetFree, Store
<1>2. /\ used' \subseteq Page /\ lost' \subseteq Page /\ lost \subseteq lost'
      /\ \A q \in Page \ lost' : q # page => (q \in used' <=> q \in used)
      /\ page \notin used'
      /\ page \in Page /\ page < w.end /\ lock' = lock /\ blocks' = blocks
      /\ work' = [work EXCEPT ![c] = n] /\ n \in WorkType
      /\ n.loaded = FALSE /\ n.page = page + 1 /\ n.pc = w.pc
      /\ n.count = w.count /\ n.align = w.align /\ n.index = w.index
      /\ n.end = w.end /\ n.free = w.free
  <2> DEFINE byte == w.byte \ {page}
  <2>1. byte \in {work[c].byte \cup {work[c].page}, work[c].byte \ {work[c].page}}
    OBVIOUS
  <2>2. page \notin byte /\ Store(c, byte) /\ work[c].loaded
    BY <1>1
  <2> HIDE DEF byte
  <2> QED BY <2>1, <2>2, StoreBits
<1>3. /\ CpuOK(c) /\ Clearing(w) /\ work \in [CPUs -> WorkType] /\ w \in WorkType
      /\ Page \subseteq Nat /\ Pages \in Nat /\ page \in Nat /\ w.end \in Nat
  BY <1>1, PhysicalAssumption DEF IInv, CpuOK, Types, Page, WorkType
<1>4. Types'
  BY <1>2, <1>3 DEF IInv, Types
<1>5. Works(c, page)
  BY <1>1, <1>2, <1>3 DEF Works
<1>6. page \notin lost => \A d \in CPUs \ {c} : ~Works(d, page)
  BY <1>2, <1>5 DEF IInv, Claims
<1>7. Clearing(work[c])'
  <2> SUFFICES ASSUME NEW q \in Page \ lost', page + 1 <= q, q < w.end
               PROVE  q \in used'
    BY <1>2, <1>3 DEF Clearing
  <2>1. q \in used
    BY <1>2, <1>3 DEF Clearing
  <2> QED BY <1>2, <1>3, <2>1
<1>8. CpuOK(c)'
  BY <1>1, <1>2, <1>3, <1>7 DEF CpuOK
<1>9. ASSUME NEW d \in CPUs \ {c} PROVE CpuOK(d)'
  <2>1. work'[d] = work[d] /\ CpuOK(d) /\ work[d] \in WorkType
    BY <1>2, <1>3 DEF IInv, Types
  <2>2. \A q \in Page \ lost' : q \notin used => q \notin used'
    BY <1>2
  <2>3. ASSUME work[d].pc = "clear" PROVE Clearing(work[d])'
    <3> SUFFICES ASSUME NEW q \in Page \ lost', work[d].page <= q, q < work[d].end
                 PROVE  q \in used'
      BY <2>1, <2>3 DEF CpuOK, Clearing
    <3>1. q \in used /\ Works(d, q)
      BY <1>2, <2>1, <2>3 DEF CpuOK, Clearing, Works
    <3>2. q # page
      BY <1>2, <1>6, <3>1
    <3> QED BY <1>2, <3>1, <3>2
  <2>4. ASSUME work[d].pc = "scan" PROVE Scanning(work[d])'
    <3>1. Scanning(work[d]) /\ work[d].free \subseteq Page
      BY <2>1, <2>4 DEF CpuOK, WorkType
    <3>2. \A q \in work[d].free \ lost' : q \notin used'
      BY <1>2, <2>2, <3>1 DEF Scanning
    <3>3. \A s \in 0 .. Pages - work[d].count :
             s % work[d].align = 0 /\ s .. s + work[d].count - 1 \subseteq work[d].free \ lost'
               => From(work[d]) <= s
      BY <1>2, <3>1, NoneBelowLost DEF Scanning
    <3>4. work[d].size > 0 =>
             \A q \in Page \ lost' : work[d].index <= q /\ q < work[d].i => q \notin used'
      BY <1>2, <2>2, <3>1 DEF Scanning
    <3> QED BY <2>1, <3>1, <3>2, <3>3, <3>4 DEF Scanning, NoneBelow, From
  <2>5. ASSUME work[d].pc = "set" PROVE Setting(work[d])'
    <3>1. Setting(work[d]) /\ work[d].index \in Nat /\ work[d].page \in Nat /\ work[d].count \in Nat
      BY <2>1, <2>5, PhysicalAssumption DEF CpuOK, WorkType
    <3>2. \A s \in 0 .. Pages - work[d].count :
             s % work[d].align = 0 /\ s .. s + work[d].count - 1 \subseteq work[d].free \ lost'
               => work[d].index <= s
      BY <1>2, <3>1, NoneBelowLost DEF Setting
    <3>3. ASSUME NEW q \in Page \ lost', work[d].index <= q, q < work[d].page PROVE q \in used'
      <4>1. q \in used
        BY <1>2, <3>1, <3>3 DEF Setting
      <4>2. q < work[d].index + work[d].count
        BY <1>3, <3>1, <3>3 DEF Setting
      <4>3. Works(d, q)
        BY <2>5, <3>3, <4>2 DEF Works
      <4>4. q # page
        BY <1>2, <1>6, <3>3, <4>3
      <4> QED BY <1>2, <3>3, <4>1, <4>4
    <3>4. \A q \in Page \ lost' : work[d].page <= q /\ q < work[d].end => q \notin used'
      BY <1>2, <2>2, <3>1 DEF Setting
    <3> QED BY <2>1, <3>1, <3>2, <3>3, <3>4 DEF Setting, NoneBelow
  <2> QED BY <1>2, <2>1, <2>3, <2>4, <2>5 DEF CpuOK
<1>10. \A d \in CPUs, q \in Page :
         /\ Owns(d, q)' <=> Owns(d, q)
         /\ Works(d, q)' <=> Works(d, q) /\ ~(d = c /\ q = page)
  <2>1. \A d \in CPUs, q \in Page : Owns(d, q)' <=> Owns(d, q)
    BY <1>2 DEF Owns
  <2>2. ASSUME NEW d \in CPUs, NEW q \in Page
        PROVE  Works(d, q)' <=> Works(d, q) /\ ~(d = c /\ q = page)
    <3>1. CASE d = c
      <4>1. q \in Nat /\ (page + 1 <= q <=> page <= q /\ q # page)
        BY <1>3
      <4> QED BY <1>1, <1>2, <3>1, <4>1 DEF Works
    <3>2. CASE d # c
      BY <1>2, <1>3, <3>2 DEF Works
    <3> QED BY <3>1, <3>2
  <2> QED BY <2>1, <2>2
<1>11. Claims'
  <2>1. Claims /\ \A q \in Page \ lost' : q \in Page \ lost
    BY <1>2 DEF IInv
  <2>2. \A d \in CPUs, q \in Page : (Owns(d, q)' => Owns(d, q)) /\ (Works(d, q)' => Works(d, q))
    BY <1>10
  <2> QED BY <1>2, <2>1, <2>2, ClaimsShrink
<1>12. Exact'
  <2> SUFFICES ASSUME NEW q \in Page \ lost', \A d \in CPUs : ~Works(d, q)'
               PROVE  q \in used' <=> q \notin BootFree \/ \E d \in CPUs : Owns(d, q)'
    BY DEF Exact
  <2>1. \A d \in CPUs : Owns(d, q)' <=> Owns(d, q)
    BY <1>10
  <2>2. CASE q = page
    <3>1. q \in BootFree /\ \A d \in CPUs : ~Owns(d, q)
      BY <1>2, <1>5, <2>2 DEF IInv, Claims
    <3> QED BY <1>2, <2>1, <2>2, <3>1
  <2>3. CASE q # page
    <3>1. \A d \in CPUs : ~Works(d, q)
      BY <1>10, <2>3
    <3>2. q \in used <=> q \notin BootFree \/ \E d \in CPUs : Owns(d, q)
      BY <1>2, <3>1 DEF IInv, Exact
    <3> QED BY <1>2, <2>1, <2>3, <3>2
  <2> QED BY <2>2, <2>3
<1> QED
  BY <1>4, <1>8, <1>9, <1>11, <1>12 DEF IInv

-----------------------------------------------------------------------------
(* Blocks change hands *)

\* The pages marked become a block of the CPU.
LEMMA UnlockStep ==
    ASSUME IInv, NEW c \in CPUs, Unlock(c)
    PROVE  IInv'
<1> DEFINE w == work[c]
           new == Block(w)
<1>1. /\ w.pc = "set" /\ w.page = w.end /\ CpuOK(c) /\ w \in WorkType
      /\ work \in [CPUs -> WorkType] /\ blocks \in [CPUs -> SUBSET BlockType]
      /\ Page \subseteq Nat /\ Pages \in Nat /\ Counts \subseteq Nat \ {0}
  BY PhysicalAssumption DEF Unlock, IInv, Types, Page
<1>2. /\ lock' = NoCPU /\ blocks' = [blocks EXCEPT ![c] = @ \cup {new}]
      /\ blocks'[c] = blocks[c] \cup {new} /\ \A d \in CPUs \ {c} : blocks'[d] = blocks[d]
      /\ work' = [work EXCEPT ![c] = Idle] /\ work'[c] = Idle
      /\ \A d \in CPUs \ {c} : work'[d] = work[d]
      /\ used' = used /\ lost' = lost
  BY <1>1 DEF Unlock
<1>3. lock = c /\ Setting(w)
  BY <1>1 DEF CpuOK
<1>4. /\ new \in BlockType /\ new.index = w.index /\ new.count = w.count
      /\ w.index \in Nat /\ w.count \in Nat /\ w.index + w.count <= Pages
      /\ w.end = w.index + w.count
  <2>1. /\ w.count \in Counts /\ w.end = w.index + w.count /\ w.index \in 0 .. Pages
        /\ w.end \in 0 .. Pages
    BY <1>1, <1>3 DEF Setting, WorkType
  <2> HIDE DEF w
  <2>6. w.count \in Nat \ {0}
    BY <1>1, <2>1
  <2>7. w.index \in Nat /\ w.end \in Nat /\ w.end <= Pages
    BY <1>1, <2>1
  <2>2. w.index \in Nat /\ w.count \in Nat \ {0} /\ w.index + w.count <= Pages
    BY <2>1, <2>6, <2>7
  <2>3. w.index \in Page
    BY <1>1, <2>2 DEF Page
  <2>4. new = [index |-> w.index, count |-> w.count]
    BY DEF Block
  <2> HIDE DEF new
  <2>5. new \in BlockType
    BY <2>1, <2>3, <2>4 DEF BlockType
  <2> QED BY <2>1, <2>2, <2>4, <2>5
<1> HIDE DEF new
<1>5. Types'
  <2>1. \A d \in CPUs : \A b \in blocks'[d] : b.index + b.count <= Pages
    BY <1>2, <1>4 DEF IInv, Types
  <2>2. blocks' \in [CPUs -> SUBSET BlockType]
    BY <1>1, <1>2, <1>4
  <2>3. work' \in [CPUs -> WorkType]
    BY <1>1, <1>2, IdleType
  <2> QED BY <1>2, <2>1, <2>2, <2>3 DEF IInv, Types
<1>6. ASSUME NEW d \in CPUs PROVE CpuOK(d)'
  <2>1. CASE d = c
    BY <1>2, <2>1, IdleType DEF CpuOK
  <2>2. CASE d # c
    BY <1>2, <1>3, <2>2, OtherCpu DEF IInv
  <2> QED BY <2>1, <2>2
<1>7. \A q \in Page : Works(c, q) <=> w.index <= q /\ q < w.index + w.count
  BY <1>1 DEF Works
<1>8. \A d \in CPUs, q \in Page :
         /\ Owns(d, q)' <=> Owns(d, q) \/ (d = c /\ Works(d, q))
         /\ Works(d, q)' <=> Works(d, q) /\ d # c
  <2>1. ASSUME NEW d \in CPUs, NEW q \in Page
        PROVE  Owns(d, q)' <=> Owns(d, q) \/ (d = c /\ Works(d, q))
    <3>1. CASE d = c
      BY <1>2, <1>4, <1>7, <3>1 DEF Owns
    <3>2. CASE d # c
      BY <1>2, <3>2 DEF Owns
    <3> QED BY <3>1, <3>2
  <2>2. ASSUME NEW d \in CPUs, NEW q \in Page
        PROVE  Works(d, q)' <=> Works(d, q) /\ d # c
    BY <1>2, IdleType DEF Works
  <2> QED BY <2>1, <2>2
<1>9. Claims'
  <2> SUFFICES ASSUME NEW q \in Page \ lost
               PROVE  /\ \A d \in CPUs : Owns(d, q)' \/ Works(d, q)' => q \in BootFree
                      /\ \A d, e \in CPUs : Owns(d, q)' => ~Works(e, q)'
                      /\ \A d, e \in CPUs : d # e => ~(Owns(d, q)' /\ Owns(e, q)')
                                                    /\ ~(Works(d, q)' /\ Works(e, q)')
                      /\ \A d \in CPUs : \A a, b \in blocks'[d] :
                            a.index <= q /\ q < a.index + a.count
                              /\ b.index <= q /\ q < b.index + b.count => a = b
    BY <1>2 DEF Claims
  <2>1. /\ \A d \in CPUs : Owns(d, q) \/ Works(d, q) => q \in BootFree
        /\ \A d, e \in CPUs : Owns(d, q) => ~Works(e, q)
        /\ \A d, e \in CPUs : d # e => ~(Owns(d, q) /\ Owns(e, q)) /\ ~(Works(d, q) /\ Works(e, q))
        /\ \A d \in CPUs : \A a, b \in blocks[d] :
              a.index <= q /\ q < a.index + a.count /\ b.index <= q /\ q < b.index + b.count => a = b
    BY DEF IInv, Claims
  <2>2. \A d \in CPUs : /\ Owns(d, q)' <=> Owns(d, q) \/ (d = c /\ Works(d, q))
                       /\ Works(d, q)' <=> Works(d, q) /\ d # c
    BY <1>8
  <2>3. ASSUME NEW d \in CPUs, NEW a \in blocks'[d], NEW b \in blocks'[d],
               a.index <= q, q < a.index + a.count, b.index <= q, q < b.index + b.count
        PROVE  a = b
    <3>1. CASE a \in blocks[d] /\ b \in blocks[d]
      BY <2>1, <2>3, <3>1
    <3>2. CASE a \in blocks[d] /\ b = new /\ d = c
      BY <1>4, <1>7, <2>1, <2>3, <3>2 DEF Owns
    <3>3. CASE b \in blocks[d] /\ a = new /\ d = c
      BY <1>4, <1>7, <2>1, <2>3, <3>3 DEF Owns
    <3>4. CASE a = new /\ b = new
      BY <3>4
    <3> QED BY <1>2, <3>1, <3>2, <3>3, <3>4
  <2>4. /\ \A d \in CPUs : Owns(d, q)' \/ Works(d, q)' => q \in BootFree
        /\ \A d, e \in CPUs : Owns(d, q)' => ~Works(e, q)'
        /\ \A d, e \in CPUs : d # e => ~(Owns(d, q)' /\ Owns(e, q)') /\ ~(Works(d, q)' /\ Works(e, q)')
    <3> SUFFICES ASSUME NEW d \in CPUs, NEW e \in CPUs
                 PROVE  /\ Owns(d, q)' \/ Works(d, q)' => q \in BootFree
                        /\ Owns(d, q)' => ~Works(e, q)'
                        /\ d # e => ~(Owns(d, q)' /\ Owns(e, q)') /\ ~(Works(d, q)' /\ Works(e, q)')
      OBVIOUS
    <3>1. /\ Owns(d, q)' <=> Owns(d, q) \/ (d = c /\ Works(d, q))
          /\ Works(d, q)' <=> Works(d, q) /\ d # c
      BY <1>8
    <3>2. /\ Owns(e, q)' <=> Owns(e, q) \/ (e = c /\ Works(e, q))
          /\ Works(e, q)' <=> Works(e, q) /\ e # c
      BY <1>8
    <3> QED BY <2>1, <3>1, <3>2
  <2> QED BY <2>3, <2>4
<1>10. Exact'
  <2> SUFFICES ASSUME NEW q \in Page \ lost, \A d \in CPUs : ~Works(d, q)'
               PROVE  q \in used <=> q \notin BootFree \/ \E d \in CPUs : Owns(d, q)'
    BY <1>2 DEF Exact
  <2>1. \A d \in CPUs : /\ Owns(d, q)' <=> Owns(d, q) \/ (d = c /\ Works(d, q))
                       /\ Works(d, q)' <=> Works(d, q) /\ d # c
    BY <1>8
  <2>2. CASE Works(c, q)
    <3>1. q \in used
      BY <1>1, <1>3, <1>4, <1>7, <2>2 DEF Setting
    <3>2. Owns(c, q)'
      BY <1>8, <2>2
    <3>3. \E d \in CPUs : Owns(d, q)'
      BY <3>2 DEF Owns
    <3> QED BY <3>1, <3>3
  <2>3. CASE ~Works(c, q)
    <3>1. \A d \in CPUs : ~Works(d, q)
      BY <2>1, <2>3
    <3>2. q \in used <=> q \notin BootFree \/ \E d \in CPUs : Owns(d, q)
      BY <3>1 DEF IInv, Exact
    <3>3. ASSUME NEW d \in CPUs PROVE Owns(d, q)' <=> Owns(d, q)
      BY <1>8, <2>3
    <3>4. (\E d \in CPUs : Owns(d, q)') <=> \E d \in CPUs : Owns(d, q)
      BY <3>3 DEF Owns
    <3> QED BY <3>2, <3>4
  <2> QED BY <2>2, <2>3
<1> QED
  BY <1>5, <1>6, <1>9, <1>10 DEF IInv

\* A block given back is worked on until its last bit is clear.
LEMMA FreePagesStep ==
    ASSUME IInv, NEW c \in CPUs, NEW owner \in CPUs, NEW block \in blocks[owner],
           FreePages(c, owner, block)
    PROVE  IInv'
<1> DEFINE n == [Idle EXCEPT !.pc = "clear", !.page = block.index, !.end = FreeEnd(block)]
           In(q) == block.index <= q /\ q < block.index + block.count
<1>1. /\ work[c].pc = "idle" /\ work \in [CPUs -> WorkType] /\ blocks \in [CPUs -> SUBSET BlockType]
      /\ Page \subseteq Nat /\ Pages \in Nat /\ Counts \subseteq Nat \ {0}
      /\ block \in BlockType /\ block.index + block.count <= Pages
  BY PhysicalAssumption DEF FreePages, IInv, Types, Page
<1>2. /\ blocks' = [blocks EXCEPT ![owner] = @ \ {block}]
      /\ blocks'[owner] = blocks[owner] \ {block}
      /\ \A d \in CPUs \ {owner} : blocks'[d] = blocks[d]
      /\ work' = [work EXCEPT ![c] = n] /\ work'[c] = n
      /\ \A d \in CPUs \ {c} : work'[d] = work[d]
      /\ used' = used /\ lost' = lost /\ lock' = lock
  BY <1>1 DEF FreePages
<1>3. /\ block.index \in Nat /\ block.count \in Nat \ {0}
      /\ block.index \in 0 .. Pages /\ block.index + block.count \in 0 .. Pages
  BY BlockFacts
<1>4. /\ n \in WorkType /\ n.pc = "clear" /\ n.page = block.index
      /\ n.end = block.index + block.count /\ n.loaded = FALSE
  BY <1>3, IdleType DEF WorkType, FreeEnd
<1> HIDE DEF n
<1>5. Types'
  <2>1. \A d \in CPUs : \A b \in blocks'[d] : b.index + b.count <= Pages
    BY <1>2 DEF IInv, Types
  <2>2. blocks' \in [CPUs -> SUBSET BlockType]
    BY <1>1, <1>2
  <2>3. work' \in [CPUs -> WorkType]
    BY <1>1, <1>2, <1>4
  <2> QED BY <1>2, <2>1, <2>2, <2>3 DEF IInv, Types
<1>6. \A q \in Page \ lost : In(q) => \A b \in blocks[owner] :
         b.index <= q /\ q < b.index + b.count => b = block
  BY DEF IInv, Claims
<1>7. \A d \in CPUs, q \in Page \ lost :
         /\ Owns(d, q)' <=> Owns(d, q) /\ ~(d = owner /\ In(q))
         /\ Works(d, q)' <=> Works(d, q) \/ (d = c /\ In(q))
  <2>1. ASSUME NEW d \in CPUs, NEW q \in Page \ lost
        PROVE  Owns(d, q)' <=> Owns(d, q) /\ ~(d = owner /\ In(q))
    <3>1. CASE d = owner
      BY <1>2, <1>6, <3>1 DEF Owns
    <3>2. CASE d # owner
      BY <1>2, <3>2 DEF Owns
    <3> QED BY <3>1, <3>2
  <2>2. ASSUME NEW d \in CPUs, NEW q \in Page \ lost
        PROVE  Works(d, q)' <=> Works(d, q) \/ (d = c /\ In(q))
    <3>1. CASE d = c
      BY <1>1, <1>2, <1>4, <3>1 DEF Works
    <3>2. CASE d # c
      BY <1>2, <3>2 DEF Works
    <3> QED BY <3>1, <3>2
  <2> QED BY <2>1, <2>2
<1>8. \A q \in Page : In(q) => Owns(owner, q)
  BY DEF Owns
<1>9. ASSUME NEW d \in CPUs PROVE CpuOK(d)'
  <2>1. CASE d = c
    <3>1. ASSUME NEW q \in Page \ lost, block.index <= q, q < block.index + block.count
          PROVE  q \in used
      <4>1. Owns(owner, q)
        BY <1>8, <3>1
      <4>2. \A e \in CPUs : ~Works(e, q)
        BY <4>1 DEF IInv, Claims
      <4> QED BY <4>1, <4>2 DEF IInv, Exact
    <3>2. Clearing(work[c])'
      BY <1>2, <1>3, <1>4, <3>1 DEF Clearing
    <3> QED BY <1>2, <1>4, <2>1, <3>2 DEF CpuOK
  <2>2. CASE d # c
    BY <1>2, <2>2, OtherCpu DEF IInv
  <2> QED BY <2>1, <2>2
<1> HIDE DEF In
<1>10. Claims'
  <2> SUFFICES ASSUME NEW q \in Page \ lost
               PROVE  /\ \A d \in CPUs : Owns(d, q)' \/ Works(d, q)' => q \in BootFree
                      /\ \A d, e \in CPUs : Owns(d, q)' => ~Works(e, q)'
                      /\ \A d, e \in CPUs : d # e => ~(Owns(d, q)' /\ Owns(e, q)')
                                                    /\ ~(Works(d, q)' /\ Works(e, q)')
                      /\ \A d \in CPUs : \A a, b \in blocks'[d] :
                            a.index <= q /\ q < a.index + a.count
                              /\ b.index <= q /\ q < b.index + b.count => a = b
    BY <1>2 DEF Claims
  <2>1. /\ \A d \in CPUs : Owns(d, q) \/ Works(d, q) => q \in BootFree
        /\ \A d, e \in CPUs : Owns(d, q) => ~Works(e, q)
        /\ \A d, e \in CPUs : d # e => ~(Owns(d, q) /\ Owns(e, q)) /\ ~(Works(d, q) /\ Works(e, q))
        /\ \A d \in CPUs : \A a, b \in blocks[d] :
              a.index <= q /\ q < a.index + a.count /\ b.index <= q /\ q < b.index + b.count => a = b
    BY DEF IInv, Claims
  <2>2. \A d \in CPUs : /\ Owns(d, q)' <=> Owns(d, q) /\ ~(d = owner /\ In(q))
                       /\ Works(d, q)' <=> Works(d, q) \/ (d = c /\ In(q))
    BY <1>7
  <2>3. \A d \in CPUs : blocks'[d] \subseteq blocks[d]
    BY <1>2
  <2>4. In(q) => Owns(owner, q)
    BY <1>8
  <2>5. In(q) => /\ q \in BootFree /\ \A d \in CPUs : ~Works(d, q)
                 /\ \A d \in CPUs : d # owner => ~Owns(d, q)
    BY <2>1, <2>4
  <2>6. /\ \A d \in CPUs : Owns(d, q)' \/ Works(d, q)' => q \in BootFree
        /\ \A d, e \in CPUs : Owns(d, q)' => ~Works(e, q)'
        /\ \A d, e \in CPUs : d # e => ~(Owns(d, q)' /\ Owns(e, q)') /\ ~(Works(d, q)' /\ Works(e, q)')
    <3> SUFFICES ASSUME NEW d \in CPUs, NEW e \in CPUs
                 PROVE  /\ Owns(d, q)' \/ Works(d, q)' => q \in BootFree
                        /\ Owns(d, q)' => ~Works(e, q)'
                        /\ d # e => ~(Owns(d, q)' /\ Owns(e, q)') /\ ~(Works(d, q)' /\ Works(e, q)')
      OBVIOUS
    <3>1. /\ Owns(d, q)' <=> Owns(d, q) /\ ~(d = owner /\ In(q))
          /\ Works(d, q)' <=> Works(d, q) \/ (d = c /\ In(q))
      BY <1>7
    <3>2. /\ Owns(e, q)' <=> Owns(e, q) /\ ~(e = owner /\ In(q))
          /\ Works(e, q)' <=> Works(e, q) \/ (e = c /\ In(q))
      BY <1>7
    <3> QED BY <2>1, <2>5, <3>1, <3>2
  <2> QED BY <2>1, <2>3, <2>6
<1>11. Exact'
  <2> SUFFICES ASSUME NEW q \in Page \ lost, \A d \in CPUs : ~Works(d, q)'
               PROVE  q \in used <=> q \notin BootFree \/ \E d \in CPUs : Owns(d, q)'
    BY <1>2 DEF Exact
  <2>1. ASSUME NEW d \in CPUs PROVE Works(d, q)' <=> Works(d, q) \/ (d = c /\ In(q))
    BY <1>7
  <2>2. ~In(q) /\ \A d \in CPUs : ~Works(d, q)
    BY <2>1
  <2>3. q \in used <=> q \notin BootFree \/ \E d \in CPUs : Owns(d, q)
    BY <2>2 DEF IInv, Exact
  <2>4. ASSUME NEW d \in CPUs PROVE Owns(d, q)' <=> Owns(d, q)
    BY <1>7, <2>2
  <2>5. (\E d \in CPUs : Owns(d, q)') <=> \E d \in CPUs : Owns(d, q)
    BY <2>4 DEF Owns
  <2> QED BY <2>3, <2>5
<1> QED
  BY <1>5, <1>9, <1>10, <1>11 DEF IInv

-----------------------------------------------------------------------------
(* The theorems *)

LEMMA NextIInv == IInv /\ [Next]_vars => IInv'
<1> SUFFICES ASSUME IInv, [Next]_vars PROVE IInv'
  OBVIOUS
<1>1. CASE UNCHANGED vars
  BY <1>1 DEF vars, IInv, Types, CpuOK, Scanning, Setting, Clearing, NoneBelow, From,
              Claims, Exact, Owns, Works
<1>2. ASSUME NEW c \in CPUs, NEW count \in Counts, NEW align \in Alignments,
             GetFreePages(c, count, align) PROVE IInv'
  BY <1>2, GetFreePagesStep
<1>3. ASSUME NEW c \in CPUs, Lock(c) PROVE IInv'
  BY <1>3, LockStep
<1>4. ASSUME NEW c \in CPUs, Scan(c) PROVE IInv'
  BY <1>4, ScanStep
<1>5. ASSUME NEW c \in CPUs, OutOfMemory(c) PROVE IInv'
  BY <1>5, OutOfMemoryStep
<1>6. ASSUME NEW c \in CPUs, Load(c) PROVE IInv'
  BY <1>6, LoadStep
<1>7. ASSUME NEW c \in CPUs, SetUsed(c) PROVE IInv'
  BY <1>7, SetUsedStep
<1>8. ASSUME NEW c \in CPUs, SetFree(c) PROVE IInv'
  BY <1>8, SetFreeStep
<1>9. ASSUME NEW c \in CPUs, Unlock(c) PROVE IInv'
  BY <1>9, UnlockStep
<1>10. ASSUME NEW c \in CPUs, NEW owner \in CPUs, NEW block \in blocks[owner],
              FreePages(c, owner, block) PROVE IInv'
  BY <1>10, FreePagesStep
<1>11. ASSUME NEW c \in CPUs, Freed(c) PROVE IInv'
  BY <1>11, FreedStep
<1> QED
  BY <1>1, <1>2, <1>3, <1>4, <1>5, <1>6, <1>7, <1>8, <1>9, <1>10, <1>11 DEF Next

LEMMA Invariance == Spec => []IInv
  BY InitIInv, NextIInv, PTL DEF Spec

\* Owned and Busy, page by page.
LEMMA Membership ==
    ASSUME IInv, NEW c \in CPUs, NEW q \in Page
    PROVE  /\ q \in Owned(c) <=> Owns(c, q)
           /\ q \in Busy(c) <=> Works(c, q)
<1>1. /\ q \in Nat /\ work[c] \in WorkType /\ blocks[c] \subseteq BlockType
      /\ BlockType = [index : Page, count : Counts] /\ Page \subseteq Nat
      /\ Counts \subseteq Nat /\ Pages \in Nat
  BY PhysicalAssumption DEF IInv, Types, Page, BlockType
<1>2. ASSUME NEW b \in blocks[c]
      PROVE  q \in PagesOf(b) <=> b.index <= q /\ q < b.index + b.count
  <2>1. b.index \in Nat /\ b.count \in Nat
    BY <1>1
  <2> QED BY <1>1, <2>1 DEF PagesOf
<1>3. q \in Owned(c) <=> Owns(c, q)
  BY <1>2 DEF Owned, Owns
<1>4. q \in Busy(c) <=> Works(c, q)
  <2>1. /\ work[c].index \in Nat /\ work[c].count \in Nat
        /\ work[c].page \in Nat /\ work[c].end \in Nat
    BY <1>1 DEF WorkType
  <2> QED BY <1>1, <2>1 DEF Busy, Works, PagesOf, Block
<1> QED BY <1>3, <1>4

(* Except for the pages an unlocked store disturbed and those being marked   *)
(* or cleared, a bit is set exactly if its page was never available or is in *)
(* a block handed out, for any number of CPUs.                               *)
THEOREM BitmapExactness == Spec => []BitmapExact
<1>1. IInv => TypeOK
  <2> SUFFICES ASSUME IInv PROVE TypeOK
    OBVIOUS
  <2>1. \A c \in CPUs : /\ work[c].pc \in {"idle", "lock", "scan", "set", "clear", "panic"}
                       /\ work[c].i \in 0 .. Pages /\ work[c].size \in 0 .. Pages
                       /\ work[c].page \in 0 .. Pages /\ work[c].end \in 0 .. Pages
                       /\ work[c].byte \subseteq Page /\ work[c].loaded \in BOOLEAN
    BY DEF IInv, Types, WorkType
  <2>2. ASSUME NEW c \in CPUs, NEW b \in blocks[c] PROVE PagesOf(b) \subseteq Page
    <3>1. b.index \in Nat /\ b.count \in Nat /\ b.index + b.count <= Pages /\ Pages \in Nat
      BY BlockFacts
    <3> QED BY <3>1 DEF PagesOf, Page
  <2> QED BY <2>1, <2>2 DEF IInv, Types, TypeOK
<1>2. ASSUME IInv, NEW q \in Page \ lost, \A c \in CPUs : q \notin Busy(c)
      PROVE  q \in used <=> q \notin BootFree \/ \E c \in CPUs : q \in Owned(c)
  BY <1>2, Membership DEF IInv, Exact
<1>3. IInv => BitmapExact
  BY <1>1, <1>2 DEF BitmapExact
<1> QED
  BY <1>3, Invariance, PTL

(* No two blocks share a page and no CPU works on a page of another, except  *)
(* through a store of freePages() that lost the update of another CPU.       *)
THEOREM PageExclusion == Spec => []Exclusive
<1>1. ASSUME IInv, NEW c \in CPUs, NEW a \in blocks[c], NEW b \in blocks[c], a # b
      PROVE  PagesOf(a) \cap PagesOf(b) \subseteq lost
  <2> SUFFICES ASSUME NEW q \in PagesOf(a) \cap PagesOf(b), q \notin lost
               PROVE  FALSE
    OBVIOUS
  <2>1. /\ a.index \in Nat /\ a.count \in Nat /\ b.index \in Nat /\ b.count \in Nat
        /\ a.index + a.count <= Pages /\ Pages \in Nat
    BY <1>1, BlockFacts
  <2>2. /\ q \in Page /\ a.index <= q /\ q < a.index + a.count
        /\ b.index <= q /\ q < b.index + b.count
    BY <2>1 DEF PagesOf, Page
  <2> QED BY <1>1, <2>2 DEF IInv, Claims
<1>2. ASSUME IInv, NEW c \in CPUs PROVE Owned(c) \cup Busy(c) \subseteq Page
  <2>1. ASSUME NEW b \in blocks[c] PROVE PagesOf(b) \subseteq Page
    <3>1. b.index \in Nat /\ b.count \in Nat /\ b.index + b.count <= Pages /\ Pages \in Nat
      BY <1>2, BlockFacts
    <3> QED BY <3>1 DEF PagesOf, Page
  <2>2. Owned(c) \subseteq Page
    BY <2>1 DEF Owned
  <2>3. /\ work[c].index \in Nat /\ work[c].count \in Nat /\ work[c].page \in Nat
        /\ work[c].end \in 0 .. Pages /\ Pages \in Nat /\ CpuOK(c)
    BY <1>2, PhysicalAssumption DEF IInv, Types, WorkType
  <2>4. Busy(c) \subseteq Page
    BY <2>3 DEF Busy, PagesOf, Block, Page, CpuOK, Setting
  <2> QED BY <2>2, <2>4
<1>3. ASSUME IInv, NEW c \in CPUs, NEW d \in CPUs, c # d
      PROVE  (Owned(c) \cup Busy(c)) \cap (Owned(d) \cup Busy(d)) \subseteq lost
  <2> SUFFICES ASSUME NEW q \in (Owned(c) \cup Busy(c)) \cap (Owned(d) \cup Busy(d)), q \notin lost
               PROVE  FALSE
    OBVIOUS
  <2>1. q \in Page
    BY <1>2, <1>3
  <2>2. (Owns(c, q) \/ Works(c, q)) /\ (Owns(d, q) \/ Works(d, q))
    BY <1>3, <2>1, Membership
  <2> QED BY <1>3, <2>1, <2>2 DEF IInv, Claims
<1>4. IInv => Exclusive
  BY <1>1, <1>3 DEF Exclusive
<1> QED
  BY <1>4, Invariance, PTL

(* The block found is free for the caller, aligned, and the lowest that was  *)
(* free all along: findFreePages() for every bitmap, count and alignment.    *)
THEOREM SearchIsFirstFit == Spec => []FirstFit
<1>1. ASSUME IInv, NEW c \in CPUs, work[c].pc = "set"
      PROVE  PagesOf(Block(work[c])) \subseteq Page
  <2>1. /\ work[c].index \in Nat /\ work[c].count \in Nat /\ work[c].end \in 0 .. Pages
        /\ Pages \in Nat
    BY <1>1, PhysicalAssumption DEF IInv, Types, WorkType
  <2>2. work[c].end = work[c].index + work[c].count
    BY <1>1 DEF IInv, CpuOK, Setting
  <2> QED BY <2>1, <2>2 DEF PagesOf, Block, Page
<1>2. ASSUME IInv, NEW c \in CPUs, work[c].pc = "set",
             NEW q \in PagesOf(Block(work[c])), q \notin lost
      PROVE  /\ q \in BootFree
             /\ q \in used <=> q < work[c].page
             /\ \A d \in CPUs : q \notin Owned(d) /\ (d # c => q \notin Busy(d))
  <2>1. q \in Page \ lost
    BY <1>1, <1>2
  <2>2. q \in Busy(c)
    BY <1>2 DEF Busy
  <2>3. Works(c, q)
    BY <1>2, <2>1, <2>2, Membership
  <2>4. q \in BootFree
    BY <1>2, <2>1, <2>3 DEF IInv, Claims
  <2>5. ASSUME NEW d \in CPUs PROVE q \notin Owned(d) /\ (d # c => q \notin Busy(d))
    <3>1. ~Owns(d, q) /\ (d # c => ~Works(d, q))
      BY <1>2, <2>1, <2>3 DEF IInv, Claims
    <3> QED BY <1>2, <2>1, <3>1, Membership
  <2>6. q \in used <=> q < work[c].page
    <3>1. /\ work[c].index \in Nat /\ work[c].count \in Nat /\ work[c].page \in Nat
          /\ q \in Nat /\ work[c].index <= q /\ q < work[c].index + work[c].count
      <4>1. work[c].index \in Nat /\ work[c].count \in Nat /\ work[c].page \in Nat
        BY <1>2, PhysicalAssumption DEF IInv, Types, WorkType
      <4> QED BY <1>2, <4>1 DEF PagesOf, Block
    <3>2. Setting(work[c])
      BY <1>2 DEF IInv, CpuOK
    <3>3. work[c].end = work[c].index + work[c].count
      BY <3>2 DEF Setting
    <3>4. /\ work[c].index <= q /\ q < work[c].page => q \in used
          /\ work[c].page <= q /\ q < work[c].end => q \notin used
      BY <2>1, <3>2 DEF Setting
    <3> QED BY <3>1, <3>3, <3>4
  <2> QED BY <2>4, <2>5, <2>6
<1>3. ASSUME IInv, NEW c \in CPUs, work[c].pc = "set"
      PROVE  /\ work[c].index % work[c].align = 0
             /\ NoneBelow(work[c], work[c].index)
  BY <1>3 DEF IInv, CpuOK, Setting
<1>4. IInv => FirstFit
  BY <1>1, <1>2, <1>3 DEF FirstFit, NoneBelow
<1> QED
  BY <1>4, Invariance, PTL
=============================================================================
