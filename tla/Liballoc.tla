------------------------------ MODULE Liballoc ------------------------------
(***************************************************************************)
(* The kernel heap: liballoc's kmalloc(), kfree(), kcalloc() and           *)
(* krealloc() on top of the page hooks of heap.cpp.  Memory obtained from  *)
(* the system is a list of majors (runs of pages with a header), each with *)
(* a list of minors (allocated blocks with a header) in address order.     *)
(* Everything between liballoc_lock() and liballoc_unlock() is one step:   *)
(* the spinlock is held and interrupts are off throughout.  krealloc() and *)
(* kcalloc() take and drop the lock several times and are several steps.   *)
(***************************************************************************)
EXTENDS Integers, Sequences, FiniteSets, FiniteSetsExt, Functions, TLC

CONSTANTS
    Threads,     \* callers
    HeapPages,   \* pages of the heap's region (physicalPagesSize)
    PageSize,    \* l_pageSize
    PageCount,   \* l_pageCount: pages requested at least
    MajorSize,   \* sizeof(struct liballoc_major)
    MinorSize,   \* sizeof(struct liballoc_minor)
    Alignment,   \* ALIGNMENT
    AlignInfo,   \* ALIGN_INFO
    Requests,    \* sizes asked for
    MaxHeld,     \* bound: blocks held when one more is asked for
    MaxCalls,    \* bound: unfinished krealloc() and kcalloc() calls
    MaxShared    \* bound: blocks held when such a call begins

ASSUME LiballocAssumption ==
    /\ {HeapPages, PageSize, PageCount, MajorSize, MinorSize, Alignment, AlignInfo}
          \subseteq Nat \ {0}
    /\ Alignment > 1 /\ PageSize % Alignment = 0
    /\ Requests \subseteq Nat /\ {MaxHeld, MaxCalls, MaxShared} \subseteq Nat

NULL == 0
PageAddress(i) == (i + 1) * PageSize     \* heapAddress + i * 4096
Page == 0 .. HeapPages - 1
Region == PageSize .. (HeapPages + 1) * PageSize - 1

VARIABLES
    pages,       \* pages with physicalPages[i] # 0: mapped
    major,       \* address -> liballoc_major, for those obtained and not returned
    minor,       \* address -> liballoc_minor, for the headers nothing overwrote
    shift,       \* address of a returned pointer -> the byte ALIGN() left before it
    memRoot, bestBet, allocated, inuse,  \* l_memRoot, l_bestBet, ...
    held,        \* pointers handed out and not freed
    call         \* thread -> its unfinished krealloc() or kcalloc()

heap == <<pages, major, minor, shift, memRoot, bestBet, allocated, inuse>>
vars == <<heap, held, call>>

Idle == [at |-> "idle", old |-> NULL, new |-> NULL, size |-> 0, realSize |-> 0]

Init ==
    /\ pages = {} /\ major = <<>> /\ minor = <<>> /\ shift = <<>>
    /\ memRoot = NULL /\ bestBet = NULL
    /\ allocated = 0 /\ inuse = 0
    /\ held = {}
    /\ call = [t \in Threads |-> Idle]

-----------------------------------------------------------------------------
(* Lists *)

\* The list of f that begins at a, followed until NULL or an address that holds
\* no node; longer than f if it is cyclic.
Chain(f, a) ==
    LET from[i \in Nat] ==
          IF i = 0 THEN IF a \in DOMAIN f THEN <<a>> ELSE <<>>
          ELSE LET s == from[i - 1]
                   next == IF s = <<>> THEN NULL ELSE f[s[Len(s)]].next
               IN  IF next \in DOMAIN f THEN Append(s, next) ELSE s
    IN  from[Cardinality(DOMAIN f)]

Majors == Chain(major, memRoot)
Minors(maj) == Chain(minor, major[maj].first)

\* f with fields of the node at a replaced, nothing when a is NULL.
SetNext(f, a, next) == [x \in DOMAIN f |-> IF x = a THEN [f[x] EXCEPT !.next = next] ELSE f[x]]
SetPrev(f, a, prev) == [x \in DOMAIN f |-> IF x = a THEN [f[x] EXCEPT !.prev = prev] ELSE f[x]]

-----------------------------------------------------------------------------
(* kmalloc() *)

\* ALIGN(): the pointer moves up by at least AlignInfo, and the distance is
\* stored AlignInfo below it.
Distance(p) == LET diff == (p + AlignInfo) % Alignment
               IN  AlignInfo + IF diff = 0 THEN 0 ELSE Alignment - diff

\* Mutant: the distance ALIGN() adds for the alignment is not undone.
UnalignInfoOnly(p) == IF shift[p] <= AlignInfo THEN p - shift[p] ELSE p

\* UNALIGN().
Unalign(p) == IF shift[p] < Alignment + AlignInfo THEN p - shift[p] ELSE p

MinorOf(p) == Unalign(p) - MinorSize

Size(req) == req + Alignment + AlignInfo
Need(req) == Size(req) + MinorSize
FreeIn(maj) == major[maj].size - major[maj].usage

\* Mutant: the size of the block in front is not taken off the gap.
EndOfHeader(m) == m + MinorSize

EndOf(m) == m + MinorSize + minor[m].size

\* The gaps of a major in the order malloc looks at them: before the first minor
\* (cases 2 and 3), then behind each (cases 4.1 and 4.2).
Gaps(maj) ==
    LET s == Minors(maj)
        n == Len(s)
    IN  [i \in 1 .. n + 1 |->
           [prev |-> IF i = 1 THEN NULL ELSE s[i - 1],
            next |-> IF i > n THEN NULL ELSE s[i],
            from |-> IF i = 1 THEN maj + MajorSize ELSE EndOf(s[i - 1]),
            to   |-> IF i > n THEN maj + major[maj].size ELSE s[i]]]

\* Mutant: a gap exactly as large as the block is passed over.
FittingStrict(maj, req) ==
    LET gaps == Gaps(maj) IN {i \in DOMAIN gaps : gaps[i].to - gaps[i].from > Need(req)}

\* The gaps that hold the block.
Fitting(maj, req) ==
    LET gaps == Gaps(maj) IN {i \in DOMAIN gaps : gaps[i].to - gaps[i].from >= Need(req)}

\* Cases 1 and 5 pass a major over: too little memory, or none of it contiguous.
Takes(maj, req) == FreeIn(maj) >= Need(req) /\ Fitting(maj, req) # {}

StartsAtBet(req) == bestBet # NULL /\ FreeIn(bestBet) > Need(req)

\* The majors in the order visited: from the best bet to the end and then all
\* over again, or from the root.
Visits(req) == IF StartsAtBet(req) THEN Chain(major, bestBet) \o Majors ELSE Majors

\* allocate_new_page() and liballoc_alloc(): the lowest run of enough free pages.
PagesFor(req) == LET st == Size(req) + MajorSize + MinorSize
                 IN  Max({PageCount, (st + PageSize - 1) \div PageSize})
Runs(req) == {i \in Page : \A j \in i .. i + PagesFor(req) - 1 : j \in Page \ pages}

\* A new major behind the last one, header included.
Grown(new, req) ==
    LET last == IF Majors = <<>> THEN NULL ELSE Majors[Len(Majors)]
    IN  (new :> [prev |-> last, next |-> NULL, pages |-> PagesFor(req),
                 size |-> PagesFor(req) * PageSize, usage |-> MajorSize, first |-> NULL])
        @@ SetNext(major, last, new)

\* l_bestBet after a search that saw these majors: the first with the most free
\* memory, if that is more than the old bet has.  A new major is seen when case 5
\* or the lack of a root created it, not when case 1 falls through to case 2.
NextBet(seen, new, req) ==
    LET old   == IF bestBet = NULL THEN 0 ELSE FreeIn(bestBet)
        most  == Max({old} \cup {FreeIn(seen[i]) : i \in DOMAIN seen})
        fresh == PagesFor(req) * PageSize - MajorSize
        loops == seen = <<>> \/ FreeIn(seen[Len(seen)]) >= Need(req)
    IN  IF new # NULL /\ loops /\ fresh > most THEN new
        ELSE IF most = old THEN bestBet
        ELSE seen[Min({i \in DOMAIN seen : FreeIn(seen[i]) = most})]

\* Where kmalloc(req) puts the block: major (NULL if nowhere), whether it is a new
\* one, the gap used there, and the best bet the search leaves.
Search(req) ==
    LET visits == Visits(req)
        takers == {i \in DOMAIN visits : Takes(visits[i], req)}
        new    == IF takers = {} /\ Runs(req) # {} THEN PageAddress(Min(Runs(req))) ELSE NULL
        seen   == IF takers = {} THEN visits ELSE SubSeq(visits, 1, Min(takers))
        maj    == IF takers = {} THEN new ELSE seen[Len(seen)]
    IN  [maj  |-> maj, grows |-> new # NULL, bet |-> NextBet(seen, new, req),
         gap  |-> IF takers = {} THEN [prev |-> NULL, next |-> NULL, from |-> new + MajorSize]
                  ELSE Gaps(maj)[Min(Fitting(maj, req))]]

Pointer(m) == m + MinorSize + Distance(m + MinorSize)
Result(found) == IF found.maj = NULL THEN NULL ELSE Pointer(found.gap.from)

\* The headers and ALIGN() bytes of blocks in use.  What kfree() left in a freed
\* block is followed up to the next change of the heap only: a kfree() after that
\* may find anything there.
Alive == Restrict(minor, {m \in DOMAIN minor : minor[m].magic})
AliveShift == Restrict(shift, {Pointer(m) : m \in DOMAIN Alive})

\* The header of a new minor at g.from between its neighbours.
Linked(g, maj, req) ==
    (g.from :> [prev |-> g.prev, next |-> g.next, block |-> maj, magic |-> TRUE,
                size |-> Size(req), reqSize |-> req])
    @@ SetPrev(SetNext(Alive, g.prev, g.from), g.next, g.from)

\* A major takes the block.
Charged(f, maj, g, req) ==
    [f EXCEPT ![maj].usage = @ + Need(req),
              ![maj].first = IF g.prev = NULL THEN g.from ELSE @]

Allocate(found, req) ==
    /\ bestBet' = found.bet
    /\ IF found.maj = NULL
       THEN UNCHANGED <<major, minor, shift, inuse, memRoot>>
       ELSE LET g == found.gap
            IN  /\ major' = Charged(IF found.grows THEN Grown(found.maj, req) ELSE major, found.maj, g, req)
                /\ minor' = Linked(g, found.maj, req)
                /\ shift' = (Pointer(g.from) :> Distance(g.from + MinorSize)) @@ AliveShift
                /\ inuse' = inuse + Size(req)
                /\ memRoot' = IF memRoot = NULL THEN found.maj ELSE memRoot
    /\ IF found.grows
       THEN /\ pages' = pages \cup {Min(Runs(req)) + j : j \in 0 .. PagesFor(req) - 1}
            /\ allocated' = allocated + PagesFor(req) * PageSize
       ELSE UNCHANGED <<pages, allocated>>

-----------------------------------------------------------------------------
(* kfree() *)

\* Mutant: the next minor keeps pointing back to the freed one.
UnlinkedForward(m) ==
    [SetNext(Alive, minor[m].prev, minor[m].next) EXCEPT ![m].magic = FALSE]

\* The list of minors and the major's header without m.
Unlinked(m) ==
    LET r == minor[m]
    IN  [SetPrev(SetNext(Alive, r.prev, r.next), r.next, r.prev) EXCEPT ![m].magic = FALSE]

\* Mutant: the header stays on the major's bill.
DischargedBlockOnly(m) ==
    [major EXCEPT ![minor[m].block].usage = @ - minor[m].size,
                  ![minor[m].block].first = IF minor[m].prev = NULL THEN minor[m].next ELSE @]

Discharged(m) ==
    LET r == minor[m]
    IN  [major EXCEPT ![r.block].usage = @ - (r.size + MinorSize),
                      ![r.block].first = IF r.prev = NULL THEN r.next ELSE @]

BetWithout(maj) == IF bestBet = maj THEN NULL ELSE bestBet

\* A major nothing is left in goes back to the system.
ReturnMajor(maj) ==
    LET r == major[maj]
        inside == maj .. maj + r.size - 1
    IN  /\ memRoot' = IF memRoot = maj THEN r.next ELSE memRoot
        /\ bestBet' = BetWithout(maj)
        /\ major' = Restrict(SetPrev(SetNext(major, r.prev, r.next), r.next, r.prev),
                             DOMAIN major \ {maj})
        /\ minor' = Restrict(Alive, DOMAIN Alive \ inside)
        /\ shift' = Restrict(AliveShift, DOMAIN AliveShift \ inside)
        /\ allocated' = allocated - r.size
        /\ pages' = {i \in pages : PageAddress(i) \notin inside}

\* A major with blocks left may become the best bet, if there is one.
KeepMajor(maj, after) ==
    LET free(x) == after[x].size - after[x].usage
    IN  /\ bestBet' = IF bestBet # NULL /\ free(maj) > free(bestBet) THEN maj ELSE bestBet
        /\ major' = after
        /\ shift' = AliveShift
        /\ UNCHANGED <<pages, memRoot, allocated>>

IsAlive(m) == minor[m].magic

\* A header that is not alive is an error, left alone (and counted).
Release(p) ==
    LET m == MinorOf(p)
        maj == minor[m].block
    IN  IF ~IsAlive(m)
        THEN UNCHANGED heap
        ELSE /\ inuse' = inuse - minor[m].size
             /\ IF Discharged(m)[maj].first = NULL
                THEN ReturnMajor(maj)
                ELSE KeepMajor(maj, Discharged(m)) /\ minor' = Unlinked(m)

-----------------------------------------------------------------------------
(* Callers *)

MayCall == /\ Cardinality({t \in Threads : call[t] # Idle}) < MaxCalls
           /\ Cardinality(held) <= MaxShared
\* kmalloc() and kfree() are one step each, under the lock: any idle thread's.
SomeIdle == \E t \in Threads : call[t] = Idle
HasRoom == Cardinality(held) < MaxHeld
Give(p) == held \cup ({p} \ {NULL})

\* Any thread may free what any other allocated, but not a block whose krealloc()
\* or kcalloc() has not returned.
Returned == held \ UNION {{call[t].old, call[t].new} : t \in Threads}

Malloc(req) ==
    /\ SomeIdle /\ HasRoom
    /\ LET found == Search(req)
       IN  Allocate(found, req) /\ held' = Give(Result(found))
    /\ UNCHANGED call

Free(p) ==
    /\ SomeIdle
    /\ Release(p)
    /\ held' = held \ {p}
    /\ UNCHANGED call

\* kfree() or krealloc() of a pointer freed before, while its header is still
\* the dead one.
FreeAgain(p) ==
    /\ SomeIdle
    /\ MinorOf(p) \in DOMAIN minor /\ ~minor[MinorOf(p)].magic
    /\ Release(p)
    /\ UNCHANGED <<held, call>>

\* kcalloc(): kmalloc(), then memset() of the result, NULL or not.
Calloc(t, req) ==
    /\ call[t] = Idle /\ MayCall /\ HasRoom
    /\ LET found == Search(req)
       IN  /\ Allocate(found, req)
           /\ held' = Give(Result(found))
           /\ call' = [call EXCEPT ![t] = [Idle EXCEPT !.at = "clear", !.new = Result(found), !.realSize = req]]

\* Mutant: the size of the block, alignment included, is taken for that of the data.
RealSizeOfBlock(p) == minor[MinorOf(p)].size

RealSize(p) == minor[MinorOf(p)].reqSize

\* krealloc(): in place when the block was asked for at that size or more ...
Realloc(t, p, size) ==
    /\ call[t] = Idle /\ MayCall /\ size > 0
    /\ IF RealSize(p) >= size
       THEN /\ minor' = [minor EXCEPT ![MinorOf(p)].reqSize = size]
            /\ UNCHANGED <<pages, major, shift, memRoot, bestBet, allocated, inuse, call>>
       ELSE /\ call' = [call EXCEPT ![t] = [Idle EXCEPT !.at = "alloc", !.old = p, !.size = size,
                                                       !.realSize = RealSize(p)]]
            /\ UNCHANGED heap
    /\ UNCHANGED held

\* ... and otherwise a new block, a copy, and kfree() of the old one.
ReallocAllocate(t) ==
    /\ call[t].at = "alloc"
    /\ LET found == Search(call[t].size)
       IN  /\ Allocate(found, call[t].size)
           /\ held' = Give(Result(found))
           /\ call' = [call EXCEPT ![t].at = "copy", ![t].new = Result(found)]

\* memset() and memcpy() write through the pointer they are given: a NULL is a
\* page fault in the kernel, which halts, unless there is nothing to write.
Write(t) ==
    /\ call[t].at \in {"clear", "copy"}
    /\ call' = [call EXCEPT ![t] = IF @.new = NULL /\ @.realSize > 0 THEN [@ EXCEPT !.at = "fault"]
                                   ELSE IF @.at = "copy" THEN [@ EXCEPT !.at = "free"] ELSE Idle]
    /\ UNCHANGED <<heap, held>>

ReallocFree(t) ==
    /\ call[t].at = "free"
    /\ Release(call[t].old)
    /\ held' = held \ {call[t].old}
    /\ call' = [call EXCEPT ![t] = Idle]

Next ==
    \/ \E req \in Requests : Malloc(req) \/ \E t \in Threads : Calloc(t, req)
    \/ \E p \in Returned :
          Free(p) \/ \E t \in Threads, size \in Requests : Realloc(t, p, size)
    \/ \E p \in DOMAIN shift : FreeAgain(p)
    \/ \E t \in Threads : ReallocAllocate(t) \/ Write(t) \/ ReallocFree(t)

Spec == Init /\ [][Next]_vars

-----------------------------------------------------------------------------
(* Properties *)

\* Every variable keeps its type; addresses are NULL or lie in the region.
TypeOK ==
    LET address == Region \cup {NULL}
    IN  /\ pages \subseteq Page
        /\ DOMAIN major \subseteq Region /\ DOMAIN minor \subseteq Region
        /\ \A a \in DOMAIN major : major[a] \in
              [prev : address, next : address, pages : Nat, size : Nat, usage : Nat, first : address]
        /\ \A a \in DOMAIN minor : minor[a] \in
              [prev : address, next : address, block : address, magic : BOOLEAN, size : Nat, reqSize : Nat]
        /\ \A p \in DOMAIN shift : p \in Region /\ shift[p] \in Nat
        /\ {memRoot, bestBet} \subseteq address
        /\ {allocated, inuse} \subseteq Nat
        /\ held \subseteq Region
        /\ call \in [Threads -> [at : {"idle", "alloc", "copy", "free", "clear", "fault"},
                                 old : address, new : address, size : Nat, realSize : Nat]]

\* The minors a walk from l_memRoot finds.
Blocks == UNION {Range(Minors(maj)) : maj \in Range(Majors)}

\* Both kinds of list are linked the same way forwards and backwards, every
\* major is listed, and the minors of a major are alive, know it, and lie in it
\* in address order without overlap; l_bestBet, dereferenced by the next
\* kmalloc() and kfree(), is none or one of the majors listed.
ListsSound ==
    LET majors == Majors
    IN  /\ TypeOK
        /\ bestBet \in {NULL} \cup Range(majors)
        /\ Range(majors) = DOMAIN major /\ Len(majors) = Cardinality(DOMAIN major)
        /\ \A i \in DOMAIN majors : major[majors[i]].prev = IF i = 1 THEN NULL ELSE majors[i - 1]
        /\ \A maj \in DOMAIN major : \A g \in Range(Gaps(maj)) :
              /\ g.from <= g.to
              /\ g.next # NULL =>
                    /\ minor[g.next].prev = g.prev /\ minor[g.next].block = maj
                    /\ minor[g.next].magic

\* The running totals are those of the lists after any sequence of calls,
\* failed ones and repeated frees included; the pages mapped are those of the
\* majors, no two share one, and no major is empty: when all is freed no page
\* stays behind.
Accounting ==
    /\ \A maj \in DOMAIN major :
          LET minors == Minors(maj)
          IN  /\ minors # <<>>
              /\ major[maj].usage =
                    MajorSize + FoldFunction(+, 0, [i \in DOMAIN minors |-> minor[minors[i]].size + MinorSize])
    /\ allocated = FoldFunction(+, 0, [maj \in DOMAIN major |-> major[maj].size])
    /\ inuse = FoldFunction(+, 0, [m \in Blocks |-> minor[m].size])
    /\ allocated = PageSize * Cardinality(pages)
    /\ pages = {i \in Page : \E maj \in DOMAIN major :
                    maj <= PageAddress(i) /\ PageAddress(i) < maj + major[maj].size}

\* The lists hold exactly the blocks the callers hold, and
\* UNALIGN() finds the header of each from the byte ALIGN() stored.
HeldIsLive ==
    LET blocks == Blocks
    IN  /\ held = {Pointer(m) : m \in blocks} /\ blocks = DOMAIN Alive
        /\ \A m \in blocks : MinorOf(Pointer(m)) = m

\* What krealloc() read under the lock still holds when it copies without it:
\* both blocks are alive and the bytes copied lie within both.
ReallocSound ==
    \A t \in Threads :
        LET c == call[t]
        IN  c.at = "copy" /\ c.new # NULL =>
              /\ {c.old, c.new} \subseteq held /\ c.old # c.new
              /\ \A p \in {c.old, c.new} : p + c.realSize <= EndOf(MinorOf(p))
              /\ minor[MinorOf(c.old)].reqSize = c.realSize

\* Pages are requested from the system only when no gap of any major holds the
\* block, wherever the search began.
GrowsOnlyWhenFull ==
    [][\A new \in DOMAIN major' \ DOMAIN major :
         LET need == minor'[major'[new].first].size + MinorSize
         IN  \A maj \in DOMAIN major : \A i \in DOMAIN Gaps(maj) :
               Gaps(maj)[i].to - Gaps(maj)[i].from < need]_vars

\* liballoc implements the abstract allocator: the blocks handed out are those
\* with a header alive, the ones HeldIsLive finds in the lists.
Abstract == INSTANCE Allocator WITH
                live <- {[ptr |-> Pointer(m), len |-> minor[m].reqSize] :
                            m \in {x \in DOMAIN minor : minor[x].magic}}
ImplementsAllocator == Abstract!Spec
=============================================================================
