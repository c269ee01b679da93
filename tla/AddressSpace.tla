---------------------------- MODULE AddressSpace ----------------------------
(***************************************************************************)
(* Page frames, page tables and the life of a process's address space:     *)
(* kernel/memory/{virtual,heap}.cpp and the callers in scheduler/          *)
(* {process,thread,elf}.cpp.                                               *)
(*                                                                         *)
(* One CPU loads processes (loadProcess() in the main thread), another     *)
(* tears exited ones down (destroyThread() in the destroyer), and both use *)
(* the heap.  They share the frames, the kernel half of every page table   *)
(* and nothing else.  A step is one call of the frame allocator or one     *)
(* access to a page table: a space's lock keeps out only those who use the *)
(* same space.                                                             *)
(*                                                                         *)
(* The four levels of a page table are folded to three: the root (cr3)     *)
(* with one entry per region, a directory, and page tables.  A process's   *)
(* root has its own entry for the user region and copies of the kernel's   *)
(* for the other two, so those directories are shared.                     *)
(***************************************************************************)
EXTENDS Integers, FiniteSets

CONSTANTS Proc,        \* the processes that may be loaded
          NFrames,     \* physical pages
          Dirs,        \* entries of a directory
          Entries,     \* entries of a page table
          Headers,     \* what a program header may ask for: <<first page, pages>>
          StackPages,  \* pages of a user stack
          HeapPages,   \* pages of the heap's region
          None

K == "kernel"
Space == Proc \cup {K}
Frame == 0..NFrames-1
USER == 0      \* the regions: user addresses,
STACKS == 1    \* kernel stacks (from KERNEL_MIN_ADDRESS),
HEAP == 2      \* and the heap (from heapAddress)
Index == (0..Dirs-1) \cup (0..Entries-1) \cup {USER, STACKS, HEAP}

\* The pages of a region, by number.
PageNo == 0..Dirs*Entries-1

ASSUME SizeAssumption ==
  /\ NFrames \in Nat /\ NFrames >= 6
  /\ Dirs \in Nat \ {0} /\ Entries \in Nat \ {0}
  /\ StackPages \in Nat \ {0}
  /\ Headers \subseteq Nat \X (Nat \ {0})
  /\ \A h \in Headers : h[1] + h[2] <= Dirs * Entries
  /\ HeapPages \in 1..Entries
  /\ K \notin Proc /\ None \notin Nat

VARIABLES
  used,     \* the frames the bitmap marks used
  tab,      \* tab[f]: the entries of frame f as a page table: a frame or None
  root,     \* cr3 of a space, None while it does not exist
  status,   \* where a process is in its life
  stacks,   \* its thread's kernelStackBase and userStackBase
  heap,     \* Heap::physicalPages
  loader,   \* what the loading CPU is doing
  reaper,   \* what the CPU of the destroyer is doing
  lost      \* history: the frames whose only entry a mapPage() replaced

vars == <<used, tab, root, status, stacks, heap, loader, reaper, lost>>

Idle == [do |-> "idle"]

\* getFreePages() or allocSpace(): the next page to map, how many are left, the
\* address to return, and the segment's next frame.
LoaderOp == [do : {"map"}, p : Proc, region : {USER, STACKS}, n : PageNo, left : Nat, base : PageNo]
              \cup [do : {"mapSegment"}, p : Proc, region : {USER}, n : PageNo, left : Nat,
                    frame : Frame]

\* releasePages(), before and after unmapPage(); destroyAddressSpace(), at an
\* entry of a table or at last the root; liballoc_free().
ReaperOp == [do : {"release"}, p : Proc, region : {USER, STACKS}, n : PageNo, left : Nat]
              \cup [do : {"free"}, p : Proc, region : {USER, STACKS}, n : PageNo, left : Nat,
                    frame : Frame]
              \cup [do : {"destroy"}, p : Proc, dir : 0..Dirs, entry : 0..Entries]
              \cup [do : {"destroyRoot"}, p : Proc]
              \cup [do : {"unmapHeap"}, i : 0..HeapPages-1]

Status == {"unborn", "created", "loaded", "kstack", "running", "dead"}

TypeOK ==
  /\ used \subseteq Frame
  /\ tab \in [Frame -> [Index -> Frame \cup {None}]]
  /\ root \in [Space -> Frame \cup {None}]
  /\ status \in [Proc -> Status]
  /\ stacks \in [Proc -> [kernel : PageNo \cup {None}, user : PageNo \cup {None}]]
  /\ heap \in [0..HeapPages-1 -> Frame \cup {None}]
  /\ loader = Idle \/ loader \in LoaderOp
  /\ reaper = Idle \/ reaper \in ReaperOp
  /\ lost \subseteq Frame

-----------------------------------------------------------------------------
(* Page tables.  o = <<space, region>> says which directory.               *)

Empty == [x \in Index |-> None]

\* What a frame that is no table holds: bytes that look like present entries.
Garbage == [x \in Index |-> 0]

\* The directory, the k-th table and the x-th page of it under roots rt and
\* tables t: None when that or a level above it is not present.
DirOf(t, rt, o) == IF rt[o[1]] = None THEN None ELSE t[rt[o[1]]][o[2]]
TableOf(t, rt, o, k) ==
  LET d == DirOf(t, rt, o) IN IF d = None THEN None ELSE t[d][k]
PageOf(t, rt, o, k, x) ==
  LET b == TableOf(t, rt, o, k) IN IF b = None THEN None ELSE t[b][x]

Dir(o) == DirOf(tab, root, o)
Table(o, n) == TableOf(tab, root, o, n \div Entries)
Entry(o, n) == PageOf(tab, root, o, n \div Entries, n % Entries)

\* Physical::getFreePages(count): the lowest free run.  A call that finds none
\* panics: its CPU takes no step.
Lowest(S) == CHOOSE x \in S : \A y \in S : x <= y
FreeRuns(count) == {f \in Frame : \A x \in f .. f+count-1 : x \in Frame /\ x \notin used}
NextFrame == Lowest(FreeRuns(1))

\* "if (!entry->bits.present)": a zeroed frame becomes entry x of table t.
Grow(t, x) ==
  LET f == NextFrame
  IN /\ FreeRuns(1) # {}
     /\ used' = used \cup {f}
     /\ tab' = [tab EXCEPT ![f] = Empty, ![t][x] = f]

-----------------------------------------------------------------------------

\* The kernel's tables after boot: one page table in each kernel region, and
\* the stack of the idle thread.
Init ==
  /\ used = 0..5
  /\ tab = [[f \in Frame |-> Garbage]
              EXCEPT ![0] = [Empty EXCEPT ![STACKS] = 1, ![HEAP] = 2],
                     ![1] = [Empty EXCEPT ![0] = 3], ![2] = [Empty EXCEPT ![0] = 4],
                     ![3] = [Empty EXCEPT ![0] = 5], ![4] = Empty]
  /\ root = [s \in Space |-> IF s = K THEN 0 ELSE None]
  /\ status = [p \in Proc |-> "unborn"]
  /\ stacks = [p \in Proc |-> [kernel |-> None, user |-> None]]
  /\ heap = [i \in 0..HeapPages-1 |-> None]
  /\ loader = Idle
  /\ reaper = Idle
  /\ lost = {}

-----------------------------------------------------------------------------
(* loadProcess(): createProcess(), loadExecutable(), createThread().       *)

\* createAddressSpace(): the kernel half is copied, the user half cleared.
\* One process is loaded at a time.
CreateProcess(p) ==
  LET f == NextFrame
  IN /\ loader = Idle
     /\ \A q \in Proc : status[q] \notin {"created", "loaded", "kstack"}
     /\ status[p] = "unborn" /\ FreeRuns(1) # {}
     /\ used' = used \cup {f}
     /\ root' = [root EXCEPT ![p] = f]
     /\ tab' = [tab EXCEPT ![f] = [tab[root[K]] EXCEPT ![USER] = None]]
     /\ status' = [status EXCEPT ![p] = "created"]
     /\ UNCHANGED <<stacks, heap, loader, reaper, lost>>

Segment(p, h, f) ==
  [do |-> "mapSegment", p |-> p, region |-> USER, n |-> h[1], left |-> h[2], frame |-> f]

\* Mutant: findFreePages() instead of getFreePages(): nothing is marked.
AllocSegmentUnmarked(p, h) ==
  /\ loader = Idle
  /\ status[p] = "created" /\ FreeRuns(h[2]) # {}
  /\ loader' = Segment(p, h, Lowest(FreeRuns(h[2])))
  /\ UNCHANGED <<used, tab, root, status, stacks, heap, reaper, lost>>

\* loadExecutable(), for each program header of whatever type: allocSpace(),
\* its frames, contiguous and taken before the lock.
AllocSegment(p, h) ==
  LET f == Lowest(FreeRuns(h[2]))
  IN /\ loader = Idle
     /\ status[p] = "created" /\ FreeRuns(h[2]) # {}
     /\ used' = used \cup (f .. f+h[2]-1)
     /\ loader' = Segment(p, h, f)
     /\ UNCHANGED <<tab, root, status, stacks, heap, reaper, lost>>

\* The pages of a stack, which a thread asks for and gives back.
PagesOf(r) == IF r = STACKS THEN 1 ELSE StackPages

\* findFreePages(): the first run of absent entries in the region's first
\* directory, also across page tables.  Without one it panics.
Holes(o, size) ==
  {n \in PageNo : n + size <= Dirs * Entries /\ \A m \in n .. n+size-1 : Entry(o, m) = None}

\* Memory::getFreePages(): the lock of the space is held until the last page
\* is mapped.
FindPages(p, r) ==
  LET n == Lowest(Holes(<<p, r>>, PagesOf(r)))
  IN /\ loader = Idle
     /\ Holes(<<p, r>>, PagesOf(r)) # {}
     /\ loader' = [do |-> "map", p |-> p, region |-> r, n |-> n, left |-> PagesOf(r), base |-> n]
     /\ UNCHANGED <<used, tab, root, status, stacks, heap, reaper, lost>>

\* createThread(): the kernel stack in the shared half, then the user stack.
FindKernelStack(p) == status[p] = "loaded" /\ FindPages(p, STACKS)
FindUserStack(p) == status[p] = "kstack" /\ FindPages(p, USER)

\* Where the loader maps, and the tables it needs: findFreePages() has been
\* through all up to that of the last page, mapPage() goes to one.
Here == <<loader.p, loader.region>>
Needed ==
  IF loader.do = "map" THEN 0 .. (loader.base + PagesOf(loader.region) - 1) \div Entries
  ELSE {loader.n \div Entries}
Missing == {k \in Needed : TableOf(tab, root, Here, k) = None}

\* The levels that are missing are created, in this order.
AddDirectory ==
  /\ loader # Idle
  /\ Dir(Here) = None
  /\ Grow(root[loader.p], loader.region)
  /\ UNCHANGED <<root, status, stacks, heap, loader, reaper, lost>>
AddTable ==
  /\ loader # Idle
  /\ Dir(Here) # None /\ Missing # {}
  /\ Grow(Dir(Here), Lowest(Missing))
  /\ UNCHANGED <<root, status, stacks, heap, loader, reaper, lost>>

\* mapPage() of the page at hand: it reports a page that is mapped already,
\* and writes the entry all the same.
Map(f) ==
  /\ Missing = {}
  /\ tab' = [tab EXCEPT ![Table(Here, loader.n)][loader.n % Entries] = f]

\* Mutants: the loop does not advance, and the end of the stack is kept.
NextPageStuck(n) == n
StackEnd(op) == op.n

\* "virtualAddress + i", and the virtualAddress that is returned.
NextPage(n) == n + 1
StackBase(op) == op.base

\* allocSpace(), its loop under the lock: one frame after another.  Headers
\* may share a page: no table refers to the frame of the earlier one then.
\* After the last page comes the next header, or the thread is created.
MapSegment ==
  /\ loader.do = "mapSegment"
  /\ Map(loader.frame)
  /\ lost' = lost \cup ({Entry(Here, loader.n)} \ {None})
  /\ \/ /\ loader.left > 1
        /\ loader' = [loader EXCEPT !.n = NextPage(@), !.left = @ - 1, !.frame = @ + 1]
        /\ UNCHANGED status
     \/ /\ loader.left = 1
        /\ loader' = Idle
        /\ \/ UNCHANGED status
           \/ status' = [status EXCEPT ![loader.p] = "loaded"]
  /\ UNCHANGED <<used, root, stacks, heap, reaper>>

\* getFreePages(), its loop: a new frame for every page.
MapNext ==
  LET p == loader.p
  IN /\ loader.do = "map"
     /\ FreeRuns(1) # {}
     /\ used' = used \cup {NextFrame}
     /\ Map(NextFrame)
     /\ \/ /\ loader.left > 1
           /\ loader' = [loader EXCEPT !.n = NextPage(@), !.left = @ - 1]
           /\ UNCHANGED <<status, stacks>>
        \/ /\ loader.left = 1 /\ loader.region = STACKS
           /\ loader' = Idle
           /\ status' = [status EXCEPT ![p] = "kstack"]
           /\ stacks' = [stacks EXCEPT ![p].kernel = StackBase(loader)]
        \/ /\ loader.left = 1 /\ loader.region = USER
           /\ loader' = Idle
           /\ status' = [status EXCEPT ![p] = "running"]
           /\ stacks' = [stacks EXCEPT ![p].user = StackBase(loader)]
     /\ UNCHANGED <<root, heap, reaper, lost>>

-----------------------------------------------------------------------------
(* destroyThread(), then destroyProcess().                                 *)

Release(p, r, n, left) ==
  [do |-> "release", p |-> p, region |-> r, n |-> n, left |-> left]

\* The process's only thread has called exit() and reached the destroyer.
StartRelease(p) ==
  /\ reaper = Idle
  /\ status[p] = "running"
  /\ reaper' = Release(p, STACKS, stacks[p].kernel, PagesOf(STACKS))
  /\ status' = [status EXCEPT ![p] = "dead"]
  /\ UNCHANGED <<used, tab, root, stacks, heap, loader, lost>>

There == <<reaper.p, reaper.region>>

\* unmapPage(), under the lock.  It panics when the page is not mapped.
UnmapPage ==
  /\ reaper.do = "release"
  /\ Entry(There, reaper.n) # None
  /\ tab' = [tab EXCEPT ![Table(There, reaper.n)][reaper.n % Entries] = None]
  /\ reaper' = [do |-> "free", p |-> reaper.p, region |-> reaper.region, n |-> reaper.n,
                left |-> reaper.left, frame |-> Entry(There, reaper.n)]
  /\ UNCHANGED <<used, root, status, stacks, heap, loader, lost>>

Destroy(p, dir, entry) == [do |-> "destroy", p |-> p, dir |-> dir, entry |-> entry]

\* Physical::freePages(), outside the lock; then the next page of the stack,
\* the user stack after the kernel stack, and destroyAddressSpace().
FreePage ==
  LET p == reaper.p
  IN /\ reaper.do = "free"
     /\ used' = used \ {reaper.frame}
     /\ \/ /\ reaper.left > 1
           /\ reaper' = Release(p, reaper.region, NextPage(reaper.n), reaper.left - 1)
        \/ /\ reaper.left = 1 /\ reaper.region = STACKS
           /\ reaper' = Release(p, USER, stacks[p].user, PagesOf(USER))
        \/ /\ reaper.left = 1 /\ reaper.region = USER
           /\ reaper' = Destroy(p, 0, 0)
     /\ UNCHANGED <<tab, root, status, stacks, heap, loader, lost>>

\* destroyAddressSpace(), without a lock: every page of a table ...
Doomed == TableOf(tab, root, <<reaper.p, USER>>, reaper.dir)
PagesLeft == {x \in reaper.entry .. Entries-1 : tab[Doomed][x] # None}
DestroyPage ==
  LET x == Lowest(PagesLeft)
  IN /\ reaper.do = "destroy"
     /\ reaper.dir < Dirs /\ Doomed # None /\ PagesLeft # {}
     /\ used' = used \ {tab[Doomed][x]}
     /\ reaper' = Destroy(reaper.p, reaper.dir, x + 1)
     /\ UNCHANGED <<tab, root, status, stacks, heap, loader, lost>>

\* Mutant: the pages of a table are freed, the table is not.
DestroyPagesOnly ==
  /\ reaper.do = "destroy"
  /\ reaper.dir < Dirs
  /\ Doomed = None \/ PagesLeft = {}
  /\ reaper' = Destroy(reaper.p, reaper.dir + 1, 0)
  /\ UNCHANGED <<used, tab, root, status, stacks, heap, loader, lost>>

\* ... then the table, for every table of the user half that there is ...
DestroyTable ==
  /\ reaper.do = "destroy"
  /\ reaper.dir < Dirs
  /\ \/ /\ Doomed = None
        /\ UNCHANGED <<used, tab>>
     \/ /\ Doomed # None /\ PagesLeft = {}
        /\ used' = used \ {Doomed}
        /\ tab' = [tab EXCEPT ![Doomed] = Garbage]
  /\ reaper' = Destroy(reaper.p, reaper.dir + 1, 0)
  /\ UNCHANGED <<root, status, stacks, heap, loader, lost>>

\* ... and last the levels above.
DestroyDirectory ==
  LET d == Dir(<<reaper.p, USER>>)
  IN /\ reaper.do = "destroy"
     /\ reaper.dir = Dirs
     /\ used' = used \ {d}
     /\ tab' = [tab EXCEPT ![d] = Garbage]
     /\ reaper' = [do |-> "destroyRoot", p |-> reaper.p]
     /\ UNCHANGED <<root, status, stacks, heap, loader, lost>>
DestroyRoot ==
  LET p == reaper.p
  IN /\ reaper.do = "destroyRoot"
     /\ used' = used \ {root[p]}
     /\ tab' = [tab EXCEPT ![root[p]] = Garbage]
     /\ root' = [root EXCEPT ![p] = None]
     /\ stacks' = [stacks EXCEPT ![p] = [kernel |-> None, user |-> None]]
     /\ reaper' = Idle
     /\ UNCHANGED <<status, heap, loader, lost>>

-----------------------------------------------------------------------------
(* The heap's pages, with interrupts disabled and under the heap's lock:   *)
(* one CPU at a time.  The loader's kmalloc() grows the heap, the kfree()  *)
(* of destroyThread() shrinks it.                                          *)

HeapTable == Table(<<K, HEAP>>, 0)

\* liballoc_alloc(): the lowest free heap page.
HeapAlloc(i) ==
  /\ loader = Idle /\ reaper.do # "unmapHeap"
  /\ heap[i] = None /\ FreeRuns(1) # {}
  /\ \A j \in 0..i-1 : heap[j] # None
  /\ heap' = [heap EXCEPT ![i] = NextFrame]
  /\ used' = used \cup {NextFrame}
  /\ tab' = [tab EXCEPT ![HeapTable][i] = NextFrame]
  /\ UNCHANGED <<root, status, stacks, loader, reaper, lost>>

\* liballoc_free(): the frame is freed first ...
HeapFree(i) ==
  /\ reaper = Idle
  /\ heap[i] # None
  /\ used' = used \ {heap[i]}
  /\ reaper' = [do |-> "unmapHeap", i |-> i]
  /\ UNCHANGED <<tab, root, status, stacks, heap, loader, lost>>

\* ... and unmapped while the other CPU may already have it.
HeapUnmap ==
  /\ reaper.do = "unmapHeap"
  /\ tab[HeapTable][reaper.i] # None
  /\ tab' = [tab EXCEPT ![HeapTable][reaper.i] = None]
  /\ heap' = [heap EXCEPT ![reaper.i] = None]
  /\ reaper' = Idle
  /\ UNCHANGED <<used, root, status, stacks, loader, lost>>

-----------------------------------------------------------------------------

Next ==
  \/ \E p \in Proc : \/ CreateProcess(p)
                     \/ \E h \in Headers : AllocSegment(p, h)
                     \/ FindKernelStack(p) \/ FindUserStack(p)
                     \/ StartRelease(p)
  \/ AddDirectory \/ AddTable \/ MapSegment \/ MapNext
  \/ UnmapPage \/ FreePage
  \/ DestroyPage \/ DestroyTable \/ DestroyDirectory \/ DestroyRoot
  \/ \E i \in 0..HeapPages-1 : HeapAlloc(i) \/ HeapFree(i)
  \/ HeapUnmap

Spec == Init /\ [][Next]_vars

-----------------------------------------------------------------------------
(* Properties.                                                             *)

\* The directories there are: those of the kernel, which every root refers
\* to, and one for the user half of each process.
Own == {<<K, STACKS>>, <<K, HEAP>>} \cup (Proc \X {USER})

\* What destroyAddressSpace() has given back already, and the heap page that
\* is being freed: their entries stay for a while.
GoneDir(o) == reaper.do = "destroyRoot" /\ o[1] = reaper.p
GoneTable(o, k) ==
  GoneDir(o) \/ (reaper.do = "destroy" /\ o[1] = reaper.p /\ k < reaper.dir)
GonePage(o, k, x) ==
  \/ GoneTable(o, k)
  \/ reaper.do = "destroy" /\ o[1] = reaper.p /\ k = reaper.dir /\ x < reaper.entry
  \/ reaper.do = "unmapHeap" /\ o = <<K, HEAP>> /\ k = 0 /\ x = reaper.i

\* The frames in the hands of the loader.
InHand ==
  IF loader.do = "mapSegment" THEN loader.frame .. loader.frame+loader.left-1 ELSE {}

\* Every use of a frame, by the place that refers to it: <<place, frame>>.
Uses ==
  {u \in {<<<<"root", s>>, root[s]>> : s \in Space}
           \cup {<<<<"dir", o>>, Dir(o)>> : o \in {d \in Own : ~GoneDir(d)}}
           \cup {<<<<"table", a[1], a[2]>>, TableOf(tab, root, a[1], a[2])>> :
                   a \in {b \in Own \X (0..Dirs-1) : ~GoneTable(b[1], b[2])}}
           \cup {<<<<"page", a[1], a[2], a[3]>>, PageOf(tab, root, a[1], a[2], a[3])>> :
                   a \in {b \in Own \X (0..Dirs-1) \X (0..Entries-1) : ~GonePage(b[1], b[2], b[3])}}
           \cup {<<<<"loader", f>>, f>> : f \in InHand}
           \cup {<<<<"reaper">>, reaper.frame>> : r \in {q \in {reaper} : q.do = "free"}}
     : u[2] # None}

FramesOf(uses) == {u[2] : u \in uses}

\* Whatever the two CPUs allocate, map, unmap and free at the same time, a
\* frame has one use: it is one root, one directory, one table or one page of
\* one address space, or in the hands of the CPU that is about to map or free
\* it; the bitmap marks it used as long as it has that use; and a frame whose
\* entry was replaced is not given to anybody again.
FrameOnce ==
  LET uses == Uses
  IN /\ TypeOK
     /\ Cardinality(uses) = Cardinality(FramesOf(uses))
     /\ FramesOf(uses) \subseteq used \ lost
     /\ lost \subseteq used

\* A frame is marked used only while it has a use, but for those a program
\* header on a page of an earlier one replaced: destroying the thread and the
\* address space of a process gives back every other frame it ever had ("this
\* will release all memory", virtual.cpp:262).
NothingLost == used \subseteq FramesOf(Uses) \cup lost

\* unmapPage() never meets a page that is not mapped (its four panics): the
\* addresses a thread and the heap remember stay mapped until they free them.
NoUnmapPanic ==
  /\ reaper.do = "release" => Entry(There, reaper.n) # None
  /\ \A i \in 0..HeapPages-1 : heap[i] # None => tab[HeapTable][i] = heap[i]

\* loadExecutable() is about to map a page a program header asks for, and
\* entry x of table f is that page's.
HeaderPage(f, x) ==
  /\ loader.do = "mapSegment"
  /\ f = Table(Here, loader.n) /\ x = loader.n % Entries

\* mapPage() replaces a page that is mapped ("mapPage: page already mapped",
\* virtual.cpp:63) only when an executable has two program headers on one
\* page: never a stack's, the heap's, another process's, or a table.
NoRemap ==
  [][\A f \in used \cap used', x \in Index :
       tab[f][x] # None /\ ~HeaderPage(f, x) => tab'[f][x] \in {tab[f][x], None}]_vars
=============================================================================
