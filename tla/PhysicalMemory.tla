--------------------------- MODULE PhysicalMemory ---------------------------
(***************************************************************************)
(* The physical page allocator: a bitmap with one bit per page, searched   *)
(* from the bottom by findFreePages() under a spinlock, and cleared by     *)
(* freePages() without it.  bitmap[i / 8] |= m and &= ~m are a load and a  *)
(* store of the whole byte, so that two CPUs can overwrite each other's    *)
(* bits of one byte.                                                       *)
(***************************************************************************)
EXTENDS Naturals, FiniteSets

CONSTANTS
    CPUs,        \* CPUs that allocate and free
    Pages,       \* number of bits in the bitmap (bitmapSize * 8)
    ByteBits,    \* bits per byte of the bitmap: 8 in the code
    BootFree,    \* pages the memory map makes available at boot
    Counts,      \* page counts requested from getFreePages()
    Alignments,  \* alignments requested, in pages
    MaxBlocks    \* bound: blocks a CPU holds

ASSUME PhysicalAssumption ==
    /\ Pages \in Nat
    /\ ByteBits \in Nat \ {0}
    /\ BootFree \subseteq 0 .. Pages - 1
    /\ Counts \subseteq Nat \ {0}
    /\ Alignments \subseteq Nat \ {0}
    /\ MaxBlocks \in Nat
    /\ "none" \notin CPUs

NoCPU == "none"
Page == 0 .. Pages - 1
PagesOf(block) == block.index .. block.index + block.count - 1

VARIABLES
    used,    \* pages whose bit is set
    lock,    \* holder of Physical::lock
    work,    \* CPU -> what it executes, and its local variables
    blocks,  \* CPU -> blocks it was given and has not freed
    lost     \* pages whose bit some store put back to an earlier value

vars == <<used, lock, work, blocks, lost>>

\* pc: "idle"; "lock", "scan", "set", "unlock" in getFreePages(); "clear" in
\* freePages().  i, size, index are those of findFreePages(); page and end the
\* loop of setUsed()/setFree(), byte what was loaded.  free, the pages free when
\* the lock was taken, is kept for FirstFit alone.
Idle == [pc |-> "idle", count |-> 0, align |-> 1, i |-> 0, size |-> 0, index |-> 0,
         page |-> 0, end |-> 0, loaded |-> FALSE, byte |-> {}, free |-> {}]

\* Pages below the end of the kernel, its bitmap and the initrd stay used.
Init ==
    /\ used = Page \ BootFree
    /\ lock = NoCPU
    /\ work = [c \in CPUs |-> Idle]
    /\ blocks = [c \in CPUs |-> {}]
    /\ lost = {}

\* bitmap[page / 8], as the set of its pages that are used.
ByteOf(page) == {q \in Page : q \div ByteBits = page \div ByteBits}

-----------------------------------------------------------------------------
(* getFreePages *)

BitmapEnd == Pages

\* Mutant: the count is taken for the alignment.
CanStartByCount(w) == w.i % w.count = 0
CanStart(w) == w.i % w.align = 0

GetFreePages(c, count, align) ==
    /\ work[c].pc = "idle"
    /\ Cardinality(blocks[c]) < MaxBlocks
    /\ work' = [work EXCEPT ![c] =
            [Idle EXCEPT !.pc = "lock", !.count = count, !.align = align]]
    /\ UNCHANGED <<used, lock, blocks, lost>>

\* Mutant: the search is not protected.
LockNoWait(c) ==
    /\ work[c].pc = "lock"
    /\ lock' = c
    /\ work' = [work EXCEPT ![c].pc = "scan", ![c].free = Page \ used]
    /\ UNCHANGED <<used, blocks, lost>>
Lock(c) ==
    /\ work[c].pc = "lock" /\ lock = NoCPU
    /\ lock' = c
    /\ work' = [work EXCEPT ![c].pc = "scan", ![c].free = Page \ used]
    /\ UNCHANGED <<used, blocks, lost>>

\* One round of findFreePages(): bit i is set, is free but cannot start a
\* block, or prolongs one.
Scan(c) ==
    LET w == work[c]
        starts == w.size = 0
        index == IF starts THEN w.i ELSE w.index
    IN
    /\ w.pc = "scan" /\ w.i < BitmapEnd
    /\ \/ /\ w.i \in used
          /\ work' = [work EXCEPT ![c].i = @ + 1, ![c].size = 0]
       \/ /\ w.i \notin used /\ starts /\ ~CanStart(w)
          /\ work' = [work EXCEPT ![c].i = @ + 1]
       \/ /\ w.i \notin used /\ (starts => CanStart(w))
          /\ w.size + 1 < w.count
          /\ work' = [work EXCEPT ![c].i = @ + 1, ![c].size = @ + 1,
                                  ![c].index = index]
       \/ /\ w.i \notin used /\ (starts => CanStart(w))
          /\ w.size + 1 = w.count
          /\ work' = [work EXCEPT ![c].pc = "set", ![c].size = w.count,
                                  ![c].index = index, ![c].page = index,
                                  ![c].end = index + w.count]
    /\ UNCHANGED <<used, lock, blocks, lost>>

\* No run is left: panic(), which stops this CPU with the lock held.
OutOfMemory(c) ==
    /\ work[c].pc = "scan" /\ work[c].i = BitmapEnd
    /\ work' = [work EXCEPT ![c].pc = "panic"]
    /\ UNCHANGED <<used, lock, blocks, lost>>

\* The load and the store of one |= or &= ~ on the byte of the page.
Load(c) ==
    /\ work[c].pc \in {"set", "clear"}
    /\ work[c].page < work[c].end /\ ~work[c].loaded
    /\ work' = [work EXCEPT ![c].loaded = TRUE,
                            ![c].byte = ByteOf(work[c].page) \cap used]
    /\ UNCHANGED <<used, lock, blocks, lost>>

Store(c, byte) ==
    LET page == work[c].page
    IN
    /\ work[c].loaded
    /\ used' = (used \ ByteOf(page)) \cup byte
    /\ lost' = lost \cup {q \in ByteOf(page) \ {page} :
                            (q \in used) # (q \in work[c].byte)}
    /\ work' = [work EXCEPT ![c].loaded = FALSE, ![c].byte = {}, ![c].page = @ + 1]
    /\ UNCHANGED <<lock, blocks>>

SetUsed(c) == work[c].pc = "set" /\ Store(c, work[c].byte \cup {work[c].page})
SetFree(c) == work[c].pc = "clear" /\ Store(c, work[c].byte \ {work[c].page})

Block(w) == [index |-> w.index, count |-> w.count]

Unlock(c) ==
    /\ work[c].pc = "set" /\ work[c].page = work[c].end
    /\ lock' = NoCPU
    /\ blocks' = [blocks EXCEPT ![c] = @ \cup {Block(work[c])}]
    /\ work' = [work EXCEPT ![c] = Idle]
    /\ UNCHANGED <<used, lost>>

-----------------------------------------------------------------------------
(* freePages, by whichever CPU *)

\* Mutant: the last page is left out.
FreeEndEarly(block) == block.index + block.count - 1
FreeEnd(block) == block.index + block.count

FreePages(c, owner, block) ==
    /\ work[c].pc = "idle"
    /\ block \in blocks[owner]
    /\ blocks' = [blocks EXCEPT ![owner] = @ \ {block}]
    /\ work' = [work EXCEPT ![c] =
            [Idle EXCEPT !.pc = "clear", !.page = block.index,
                         !.end = FreeEnd(block)]]
    /\ UNCHANGED <<used, lock, lost>>

Freed(c) ==
    /\ work[c].pc = "clear" /\ work[c].page = work[c].end
    /\ work' = [work EXCEPT ![c] = Idle]
    /\ UNCHANGED <<used, lock, blocks, lost>>

Next ==
    \E c \in CPUs :
        \/ \E count \in Counts, align \in Alignments : GetFreePages(c, count, align)
        \/ Lock(c)
        \/ Scan(c)
        \/ OutOfMemory(c)
        \/ Load(c)
        \/ SetUsed(c)
        \/ SetFree(c)
        \/ Unlock(c)
        \/ \E owner \in CPUs : \E block \in blocks[owner] : FreePages(c, owner, block)
        \/ Freed(c)

Spec == Init /\ [][Next]_vars

-----------------------------------------------------------------------------
BlockType == [index : Page, count : Counts]

\* Every variable has its type, and no block reaches past the bitmap.
TypeOK ==
    /\ used \subseteq Page /\ lost \subseteq Page
    /\ lock \in CPUs \cup {NoCPU}
    /\ \A c \in CPUs :
        /\ work[c].pc \in {"idle", "lock", "scan", "set", "clear", "panic"}
        /\ work[c].i \in 0 .. Pages /\ work[c].size \in 0 .. Pages
        /\ work[c].page \in 0 .. Pages /\ work[c].end \in 0 .. Pages
        /\ work[c].byte \subseteq Page /\ work[c].loaded \in BOOLEAN
        /\ blocks[c] \subseteq BlockType
        /\ \A b \in blocks[c] : PagesOf(b) \subseteq Page

\* The pages a CPU is marking or clearing.
Busy(c) == IF work[c].pc = "set" THEN PagesOf(Block(work[c]))
           ELSE IF work[c].pc = "clear" THEN work[c].page .. work[c].end - 1
           ELSE {}
Owned(c) == UNION {PagesOf(b) : b \in blocks[c]}

\* Apart from the pages that a store of the unlocked freePages() disturbed and
\* those some CPU is working on, the bitmap says exactly which pages are taken:
\* no page leaks, and none that is in use can be found free.
BitmapExact ==
    /\ TypeOK
    /\ \A q \in Page \ lost :
           (\A c \in CPUs : q \notin Busy(c)) =>
               (q \in used <=> q \notin BootFree \/ \E c \in CPUs : q \in Owned(c))

\* getFreePages() gives a page to one caller only; the unlocked store in
\* freePages() is the one way it can be given to two.
Exclusive ==
    /\ \A c \in CPUs : \A a, b \in blocks[c] :
            a # b => PagesOf(a) \cap PagesOf(b) \subseteq lost
    /\ \A c, d \in CPUs : c # d =>
            (Owned(c) \cup Busy(c)) \cap (Owned(d) \cup Busy(d)) \subseteq lost

\* The block found is free for the caller, aligned, and no aligned run that was
\* free when the lock was taken lies below it.  Free: its pages are inside the
\* bitmap and available at boot, belong to no block handed out, no other CPU is
\* marking or clearing them, and none is marked but by the caller, up to page.
FirstFit ==
    \A c \in CPUs :
        work[c].pc = "set" =>
            /\ PagesOf(Block(work[c])) \subseteq Page
            /\ \A q \in PagesOf(Block(work[c])) \ lost :
                /\ q \in BootFree
                /\ q \in used <=> q < work[c].page
                /\ \A d \in CPUs : q \notin Owned(d) /\ (d # c => q \notin Busy(d))
            /\ work[c].index % work[c].align = 0
            /\ \A s \in 0 .. Pages - work[c].count :
                s % work[c].align = 0
                    /\ s .. s + work[c].count - 1 \subseteq work[c].free \ lost
                    => work[c].index <= s
=============================================================================
