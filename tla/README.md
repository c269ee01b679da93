# A verification project for stacOS

stacOS is a 64-bit x86 kernel in C++: SMP start-up, a preemptive scheduler with
one run queue per CPU, paged address spaces, a virtual file system over an initrd
and a loadable ext2 driver, a text terminal and a keyboard driver. It has no
automated tests; its correctness rests on spinlocks, on disabling interrupts, on
`assert()` and on the order of statements. This directory holds TLA+ modules
translated from that code, TLC configurations for small instances, and TLAPS
proofs for every instance of what matters most. `PROJECT.json` maps each
definition to its source lines.

Paths below are relative to `src/src/`.

## 1. Inventory

### Components, their state and operations

| Component | State | Operations | Module |
|---|---|---|---|
| Scheduler (`kernel/scheduler/scheduler.cpp`) | per CPU: `threads`, `threadsToDestroy`, `currentThread`, `idleThread`; static `balanceLock`, `balanceTick` | tick and yield handlers, `switchNext`, stealing, `balance`, `switchTo`, destroyer thread | `Scheduler` |
| Threads (`kernel/scheduler/thread.cpp`) | `Thread::state`, stacks | `createThread`, `addThread`, `exit`, `destroyThread` | `Scheduler` (control), `AddressSpace` (pages) |
| `Queue<T>` (`include/lib/queue.h`) | `_data`, `_size`, `dataSize`, `lastRead`, `lastWritten` | `push`, `pop`, `front`, `replaceAll`, `realloc` | `RingQueue`, abstract `Fifo` |
| Physical pages (`kernel/memory/physical.cpp`) | the bitmap, its spinlock | `getFreePages`, `freePages` | `PhysicalMemory` |
| Virtual memory (`kernel/memory/virtual.cpp`) | page tables in frames, one lock per space | `mapPage`, `unmapPage`, `findFreePages`, `getFreePages`, `allocSpace`, `releasePages`, `createAddressSpace`, `destroyAddressSpace` | `AddressSpace` |
| Heap (`kernel/memory/heap.cpp`) | `physicalPages`, its lock | `liballoc_alloc`, `liballoc_free`, `liballoc_lock`, `liballoc_unlock` | `AddressSpace` (frames), `Liballoc` (pages) |
| liballoc (`kernel/memory/liballoc.c`) | list of majors, in each a list of minors; `l_bestBet`, totals | `kmalloc`, `kfree`, `kcalloc`, `krealloc` | `Liballoc`, abstract `Allocator` |
| Processes, ELF (`kernel/scheduler/{process,elf}.cpp`) | descriptor table, address space | `loadProcess`, `createProcess`, `allocateFdEntry`, `loadExecutable` | `AddressSpace`, `Vfs` |
| VFS (`kernel/fs/fs.cpp`, `kernel/syscalls/fs.cpp`) | `mountPoints`, open descriptors | `mount`, `findMountPoint`, `resolvePath`, `sysOpen`, `sysRead`, `sysWrite` | `Vfs` |
| ext2 (`modules/ext2`) | inode cache, `refCount` of nodes, `readonly` | `identify`, `Volume()`, `open`, `close`, `findEntry`, `cacheOrCreateNode`, `readInodeData` | `Vfs` |
| `HashMap` (`include/lib/hashMap.h`) | buckets | `get`, `set`, `remove` | `Vfs` |
| initrd, devfs (`kernel/fs`) | file lists | `findEntry`, `open`, `read` | `Vfs` |
| Terminal (`kernel/terminal.cpp`) | `x`, `y`, video memory | `printChar`, `printStr` | `Terminal` |
| ps2 (`modules/ps2`) | `shifting` | keyboard interrupt | `Terminal` |
| Interrupt and system call entry (`kernel/interrupts/{isr.asm,interrupts.cpp}`, `kernel/macros.asm`, `kernel/scheduler/switch.asm`, `kernel/syscalls/syscall.asm`) | per CPU: interrupt flag, `lockLevel`, GS base, registers; per thread: the saved frame | `disable`, `enable`, IRQ, exception, tick, yield, switch, system call | `Interrupts` |
| SMP start-up (`kernel/scheduler/smp.cpp`, `kernel/apBoot.asm`, `kernel/main.cpp`, with what it calls of ACPI, GDT, IDT, local APIC, PIT) | `started`, `apStack`, `apCoreIndex`, the trampoline page, `processors` | `kernelMain`, `startSMP`, trampoline, `apEntry` | `SmpBoot` |
| Vector, List, other containers; ELF loading and relocation; tar; IOAPIC, PIC, vector table; multiboot; log, serial | | | not modelled (section 8) |

### How they interact

* A timer tick (vector 32) or `yield` (0xF0) runs on the kernel stack of the
  thread it interrupts, puts that thread at the end of its CPU's queue, unlocks
  the queue and only then looks for the next thread and leaves the stack.
* A CPU with an empty queue takes a thread from another CPU's, holding both locks;
  now and then one CPU evens the queues out, holding two locks.
* `exit()` hands its thread to `threadsToDestroy`; the destroyer thread of that CPU
  replaces it in the run queue, frees its stacks and, with the last thread, the
  address space: frames return to the bitmap all other CPUs allocate from.
* A process's address space shares the kernel's upper tables by copying root
  entries, so kernel stacks and the heap are visible in every space.
* `sysOpen` finds the longest mount point, walks through nodes with
  open/findEntry/close, and keeps the last one in the descriptor table. An ext2
  node deletes itself when its count returns to 0, and only the inode cache
  keeps two lookups of one inode from building two nodes.
* Every `kmalloc` and `kfree` takes the heap's lock between `disable()` and
  `enable()`, which count nesting in `lockLevel` of the CPU; every entry to the kernel
  sets that counter to a constant of its own, and `switchTo` sets it to 0.
* The boot processor starts the others one at a time through one page of code, two
  parameters and one flag; those started run threads and balance all the queues
  while the rest are still starting.
* `sysWrite` and the keyboard interrupt both call `printChar`, without a lock.
* `panic()` and a failed `assert` halt the CPU they happen on, with whatever it
  has locked; the others go on. Every module models them so.

### What is hard, and what correctness means

`PROJECT.json` lists the hazards line by line. In short: two CPUs, or a thread and
the tick that interrupts it, between any two accesses to shared state; locks held
with interrupts enabled; a CPU pointer read before a migration; memory freed while
another CPU still runs on it or still maps it; load and store of a shared byte or
counter; a ring that grows while it wraps; a scroll that is postponed. For each
component, correct means:

* Scheduler: each lock has one holder, CPUs do not wait for one another in a circle,
  no thread is lost or queued twice, queued threads run, exited ones are freed and
  nothing freed can be reached, and the asserts hold.
* Queue: first in, first out, through wrapping, growth and `replaceAll`.
* Memory: a frame has one use and the bitmap agrees; teardown gives everything back;
  no page is remapped or unmapped twice; blocks are lowest fit, aligned, disjoint.
* VFS: the cache holds exactly the live nodes, counts cover their users, a
  descriptor's node is alive, and reading it gives the bytes of the file its path named.
* Heap: live blocks share no byte and lie in pages the heap has; headers and totals
  agree with them; pages are taken only when no block fits.
* Entry and exit of the kernel: GS base, interrupt flag and nesting count suit the code that
  runs, and a thread finds its registers again, on whichever CPU.
* Start-up: every processor gets its own stack and structure, and gets to run.
* Terminal: what scrolled away plus what is shown is the text written, in order.

## 2. Modules and the code

Names follow the source. A comment starting "Mutant:" marks a changed form of the
definition after it, a plausible slip in that code, used to see that the properties
notice it.

**RingQueue, Fifo.** `data` is the block `_data` as a function on its slots, `size`
is `_size`. `push` doubles a full block with `krealloc()`, which leaves the ring
where it is; slots nobody wrote hold `Junk`. `Fifo` is the promise: a sequence with
append, take the head and substitute. `F == INSTANCE Fifo WITH content <- Content`
reads the ring from `lastRead` on. `Spec` is a client that neither pushes into nor
calls `replaceAll` on a full ring whose `lastRead` is not 0 (`Room`): the run
queues have 1024 slots and stay far from it. A client that did would read `Junk` (section 5).

**Scheduler.** A step is one access to state another CPU or an interrupt handler
can see. `pc[c]` says where CPU c is in the scheduler, on the stack of its current
thread with interrupts disabled, or that it executes that thread (`"thread"`,
interrupts enabled, where alone a `Tick` can happen); `tpc[t]` says where a thread is in its own
kernel code (`addThread`, `exit`, the destroyer), which may be preempted and resumed
on another CPU while `tcpu[t]`, the CPU pointer it read, stays. Run queues are
sequences (what RingQueue is shown to implement). `threadsToDestroy` is popped without
its lock, so its members are variables of their own: `toDestroy` is every entry pushed so far, `lastRead`
the number of the next one to pop, `toDestroySize` the `_size`; and each access of
`empty()`, `front()` and `pop()` to them is a step (`DestroyerCheck`, `PopAssert` ... `PopStore`,
`DestroyerTake`), as are the load and the store in `exit()`. A size of -1 stands for 2^64 - 1.
The list has no last slot here: the code's block of 10 grows when `_size` says it is full, and
lost counts could make a push overwrite an entry, after 10 of them. When two CPUs run on one kernel stack or
freed memory is read the rest is undefined: `fault` records it and the model stops
there. `Init` is the state `init()` and `start()` leave, with the destroyers and the
main thread queued. Abstractions: one insertion of `balance()`'s sort reads its
sizes at one instant; a stealing CPU drops the victim's lock and its own in one
step; `balanceTick`, a counter incremented by all CPUs without synchronisation, is
"may balance".

**PhysicalMemory.** One bit per page; `|=` and `&= ~` are a load and a store of a
byte (`ByteBits` bits). `getFreePages` does that under the lock, `freePages` without
it. `lost` collects the pages whose bit some store put back to an earlier
value; it is a history variable no action reads.

**AddressSpace.** Frames hold page tables or data; a data frame read as a table
holds `Garbage`. The four levels are folded to three: a root with one entry per
region (user, kernel stacks, heap), a directory, page tables. One CPU loads
processes (`loader`), one runs the destroyer (`reaper`); a step is one call of the frame
allocator with the one entry that is written for it, or one access to a table: the lock of a
space keeps out only those who use that space, so the loops of `getFreePages`, `allocSpace` and
`destroyAddressSpace` are interleaved page by page and table by table with the other CPU.
`findFreePages` decides on its run at one instant (`Holes`) and creates the tables it walked through
after that (`AddDirectory`, `AddTable`). `loadExecutable` calls `allocSpace` for every program header
of the executable, of whatever type (`AllocSegment`, `MapSegment`), any number of times and in any order of addresses.
`lost` collects the frames whose entry a later header replaced; it is a history variable no action reads. `getFreePages` of physical memory is atomic here
and the lowest run (`NextFrame`), which `PhysicalMemory` justifies outside `lost`. When
no frame is left the code panics: the CPU takes no step.

**Vfs.** A path is a sequence of components; every call on a node is one step.
Nodes of ext2 occupy heap chunks (`Objects`). In this build (`-O0`) `delete` leaves
the fields of a chunk and the virtual table of `fs::Node`, whose methods return
`-EINVAL`: a dangling node does that until its chunk is reused, by another node (the
pointer then means that node) or by other data (`UseReused`: anything, recorded as
a failure). A directory is a sequence of blocks, of which `findEntry` reads block 0
and then those at an offset it advances too late (`BlocksRead`). `Devices` are the
superblock fields `identify()` and `Volume()` test; the failure of the latter mounts
a null root, as the code does. There is no `close` system call. `sysRead` changes
none of this state: it is an operator from a descriptor, an offset and a size to the count returned
and the bytes left in the buffer, with the block arithmetic of `readInodeData` as the
code has it, captured copies included (`ReadSize`, `BlockIndexEnd`). Bytes are
named by file and position. `Named` is the reference: what the path means on the tree,
looked up from the directory the mount point leads to (`top`, recorded for the property: after the
first walk that need not be the root, section 5).

**Liballoc, Allocator.** `major` and `minor` are the headers in the heap by address, with their
links; a pointer is a number, the distance of `ALIGN` is kept with the block, and
sizes are small numbers in the proportions of the code. `Malloc`, `Free`, `Realloc` are
the three locked regions of the API: the lock makes each atomic, and what
`krealloc` does between two of them (read the old size, allocate, copy, free) are
separate steps that other threads come between. `Search` walks majors from `l_bestBet`,
restarts at the head once (`Visits`), grows by `allocate_new_page` when nothing
fits; `Allocate` covers the five insertion cases. A second free of a block
whose header is untouched is recognised (`FreeAgain`); `l_errorCount`, which it increments, and the
other statistics are left out. `Allocator` is what callers
may rely on: a set of disjoint blocks, from which one is added or removed at a
time.

**Interrupts.** Per CPU the flag, `lockLevel`, GS base and the kind of code it executes; per stopped
thread the frame at `kernelStack`. Each entry (IRQ stub, tick, yield, system call,
exception) and each exit is one step with its `swapgs` rule, its constant for
`lockLevel`, its push or pop of registers. A register holds a label, the thread and the register whose
value it is; registers that both macros list in the same place are one (`"rest"`). Which
thread `SwitchTo` resumes is any stopped one: `Scheduler` says which. Exceptions halt
the CPU. A handler may open sections, as those that call the heap do. A thread that exits goes
through `exit()`, whose `disable()` nobody undoes, and `switchNext()`, which sets the counter to 1 again.

**SmpBoot.** `pc` follows `kernelMain()` on the boot processor and
trampoline plus `apEntry()` on the others (`BspOrder`, `ApOrder`), one step per call that touches
something shared: the parameters, the flag, the trampoline page, the PIT, the
queues. CPU structures are named by the processor they belong to, so "its own" can be
stated. A processor in `"run"` takes ticks: `switchNext`, stealing and `balance` in one step
each, enough to move threads into queues that are about to be constructed. The
local APICs are in the order of the MADT; `parseMADT` takes the first enabled one
for the boot processor, which `SmpBootAssumption` grants.

**Terminal.** `printChar` in the steps at which a second writer would meet a cursor
out of place. `gone` and `text`, what scrolled away and what was written, are
history for the properties.

**MC modules** give constants their values and the rings their largest size;
the modules named **...Proofs** hold the theorems (section 4).

## 3. Runs

Distinct states as TLC counts them.

| Run | Instance | States | Shows |
|---|---|---|---|
| `ring_queue` | 2 values, block 2 doubling to 8 | 23,883 | `IndexInv`, `NoJunkQueued`, and the ring implements `Fifo` |
| `sched_smp` | 2 CPUs, their idle and destroyer threads, Main exits | 1,294,159 | `TypeOK`, `LockInv`, `NoSpinCycle`, `NoThreadLost` |
| `sched_up` | 1 CPU, Main creates 2 threads, all exit | 24,133 | every assert, no use after free, no dangling reference; queued threads run, exited ones are freed |
| `address_space` | 2 processes, 15 frames, tables of 2 entries, 2 program headers of 1 and 2 pages | 347,007 | `FrameOnce`, `NothingLost`, `NoUnmapPanic`, `NoRemap` |
| `physical` | 2 CPUs, 4 pages in 2 bytes, runs of 1 or 2 | 879,874 | `BitmapExact`, `Exclusive`, `FirstFit` |
| `vfs_one` | 1 process, 7 inodes, 13 paths, 4 volumes; reads of 0 to 4 bytes over blocks of 3 | 140,291 | `CacheIsLive`, `RefsCover`, `FdLive`, `ReadsNamedFile`, `NodeAsserts` |
| `terminal` | 1 writer, 2x2 screen, 4 letters, 4 rows | 706,420 | `ReadsBack` |
| `liballoc` | 2 threads, 4 heap pages, majors of 1 or 2, two sizes | 47,237 | `ListsSound`, `Accounting`, `HeldIsLive`, `ReallocSound`, `GrowsOnlyWhenFull`, and the heap implements `Allocator` |
| `interrupts` | 2 CPUs, 1 user and 2 kernel threads, sections 2 deep | 1,171,491 | `GsMatches`, `FlagMatches`, `LevelCovers`, `RegistersKept` |
| `smp_boot` | a boot processor, 3 others, 1 disabled | 424 | `OwnIdentity`, `HandshakeCovers`, `NoThreadWiped`, `TickReady`, `AllRun` |

Two runs show that something the repository says of the code does not hold; each is a finding in
`PROJECT.json`:

* `sched_tick_assert` (`TickAssert`): `exit()` reads its CPU, is preempted and resumed on
  another one, and marks the thread its old CPU runs by now as killed: the next
  tick there fails `assert(state == Running)` (scheduler.cpp:126).
* `interrupts_unlock` (`UnlockEnables`): an IRQ sets `lockLevel` to 1 (interrupts.cpp:43) and
  its return does not undo that; the next lock and unlock of the heap counts 1, 2, 1 and leaves interrupts
  off, against "If it disabled interrupts, it enables interrupts" (liballoc.h:40).
  A user thread gets them back with `sysret`; a kernel thread such as the destroyer
  runs on without ticks until it yields, and is resumed with them off.

### What the passing runs do not claim

* `NoThreadLost` is stated while `fault = "none"`. With two CPUs the fault is
  reachable: the tick handler unlocks the queue before it leaves the thread's stack
  (scheduler.cpp:131), so another CPU can run the thread on the stack in use;
  and a destroyer that migrated frees the stack of a thread its CPU has not left.
  `MemorySafe` and `NoDangling` therefore hold, and are checked, on one CPU.
* The liveness properties exclude two states that are reachable even there:
  `Wedged`, a tick that lands while `addThread` or the destroyer holds the queue
  lock with interrupts enabled, after which the handler spins for ever on a lock its own
  preempted thread holds; and `CountLost`, an increment of `exit()` overwritten by
  a preempted `pop()`.
* `BitmapExact` and `Exclusive` exempt `lost`. That set becomes non-empty only
  because `freePages()` loads and stores without the lock, and two CPUs do get the same page
  then. The properties say there is no other way.
* `terminal` has one writer. With two, an interrupt between `++x` and the reset of
  `x` fails drawChar's `assert(x < width)`; panic() prints through the same
  function.
* `NodeAsserts` holds for one process, which is what `main()` starts; see section 5 for two.
* `ReadsNamedFile` is about ranges inside one block of an ext2 file, or inside an initrd
  file, where the code is right. For others it only says that no more than the
  caller's size is stored. And it takes the directory a walk starts from as it is: that this is the
  root does not hold (section 5).
* `RegistersKept` says of r11, r12 and r13 that they hold the thread's own three values in
  some order: the two macros disagree on the order, so every interrupt rotates them.
* `Interrupts` begins in `start()`. Before a CPU has its structure `enable()` is a plain
  `sti`: between the first `kmalloc` and `initCPU()` the boot processor runs with
  interrupts on and no handler could find its CPU; nothing is unmasked then. `TickReady`
  states where that is.
* `AllRun` needs every processor to answer: `startSMP()` waits without a timeout. It is about machines
  with local APICs (`Lapic`): without them `startSMP()` starts nobody, whatever the MADT lists. The run has
  them; the theorems hold either way.
* `NothingLost` and `NoRemap` exempt the page that two program headers of one executable ask for: there
  `mapPage()` reports the entry, replaces it, and the earlier frame is lost (`lost`, section 5). They say this is the
  only way; `FrameOnce` says that a lost frame is nobody else's.
* `FrameOnce` does not count the heap page that `liballoc_free` has freed and not yet
  unmapped: another CPU can own that frame while the heap still maps it. Stale
  TLB entries of other CPUs (the code sends no shootdown) are not represented.

### Bounds and why they are enough

* Two CPUs are needed for stealing, balancing and every lock order; the locks are proved
  for any number. Three exiting threads on one CPU fill, empty and refill
  `threadsToDestroy` around preempted pops. On two CPUs `PopBound` bounds what two destroyers do inside
  `pop()` at the same time, which only happens when one was balanced to the other's CPU before its first
  step: the CPUs then run, exit and fail asserts but do not switch threads, and a state in which their race has
  wrapped the size or passed the last entry is checked and not continued (from there on the list is
  garbage). The proofs have no such bound.
* A block of two slots growing to eight wraps, fills and grows at every offset; the
  general case is proved.
* Two-entry tables make a two-page stack cross tables, and put program headers and stack in
  the same and in different tables; the two headers are loaded once or twice each in either order (`MaxHeaders` in
  all), so they share a page, a table or nothing, or one is loaded over itself. With 15 frames one process
  runs, or is torn down, while the other is loaded into the frames it leaves, and at times none is left;
  `HeapAllocs` caps how often the heap grows. The theorems hold for any number of all of these.
* Bytes of two bits give neighbours in one byte and in two bytes; runs of two pages cross them.
* Two buckets for seven inodes give collisions with the root; the tree has a second
  name for the root, a name behind a mount point, a directory of two blocks, and a directory in a
  directory, whose node may take the chunk of the deleted root.
  `MaxFds` and `MaxRefs` cap descriptors and openers (a failed lookup leaks
  an opener, so counts grow without limit in the code).
* A 2x2 screen scrolls by wrapping and by newlines; `MaxText`, `MaxRows` and
  `MaxBelow` cap the letters, the rows used and the rows below the screen.
* Four pages hold up to four majors of one page or two majors of two, with up to four blocks in one:
  majors and blocks are unlinked at the head, in the middle and at the end, requests fail (and `kcalloc`
  meets the null pointer), the search restarts; two sizes give gaps that fit one and not the
  other. `MaxHeld`, `MaxCalls` and `MaxShared` cap the blocks, the unfinished calls and the blocks
  held when such a call begins.
* Two CPUs and three threads let a thread stopped through one entry on one CPU be resumed on
  the other after any other entry; `MaxDepth` 2 is a section inside a section.
* Four processors make `balance()` pair two short queues with two long ones while two processors
  have not started yet.
* Blocks of 3 bytes with two direct and one indirect pointer put offsets and ends at, before
  and after a boundary, and beyond the last block.
* Symmetry is used where no liveness property is checked and no action
  distinguishes the elements (processes, CPUs and threads of `physical`, `liballoc` and `interrupts`, chunks).

Deadlock is not checked where a system may stop: a CPU that panicked or spins on a
lost lock, an execution that became undefined, exhausted bounds.

### Fairness

`FairSpec` assumes weak fairness of `Tick` (the local APIC timer is periodic) and of
`CpuStep` (code running with interrupts disabled runs on), per CPU, and strong
fairness of `DestroyerStep`: a thread that runs again and again for a time slice of
10 ms executes its next instruction some time. Nothing is assumed of Main and of
user programs, which may loop, create or exit as they like.

`SmpBoot` assumes weak fairness of every processor's own start-up steps: nothing preempts
them, a delay of the PIT ends, and a SIPI sent to a processor that waits for one is delivered. It
assumes nothing of the threads that run on processors already started.

## 4. Proofs

TLAPS checks these for every value of the constants that meets the named assumptions.

* `QueueInv`, `QueueIsFifo` (`RingQueueProofs`; assumptions `JunkAssumption`: the
  unwritten slot is no element, `SizeAssumption`: the block is not empty). The invariant is
  `TypeOK /\ IndexInv /\ NoJunkQueued`. `IndexInv` relates the three counters, which the code updates
  independently: `lastRead + size` equals `lastWritten`, give or take one block, the
  second case because `push()` leaves `lastWritten` one past the end. Without it a
  slot between the indices need not be one that was written. The refinement
  proof shows per operation what happens to `Content`: lemmas `RingWrite`,
  `RingGrow` and `RingAdvance` say how slots move when a value is written, the block
  grows (only with `lastRead = 0`, from `Room`) and the head advances.
* `SchedulerType`, `LockSafety`, `SpinSafety` (`SchedulerProofs`; `NAssumption`: at least one CPU,
  `ThreadAssumption`: which objects are threads, and that the special ones are different). The
  invariant is `TypeOK /\ ControlInv /\ LockInv`. `ControlInv` says what the control state tells of
  the locals: a thief's victim is another CPU; `sorted` lists distinct CPUs below
  `idx` while it is filled, and all of them afterwards, so the pairs of `balance()` are two
  different CPUs and it never locks one queue twice; an index `pop()` stores is above 0. Each action is shown to change the set of holders
  of at most the locks it takes or drops (`CpuFrame`, `CpuLocks`, `ThreadFrame`).
  `SpinSafety` then follows from `LockInv`: only the holder of the balance lock holds a queue lock
  while it spins, so in a ring of CPUs that spin on one another each would be that holder.
* `ThreadsKept` (`SchedulerProofs`). `PlaceInv` gives every ordinary thread its place without
  counting: it occurs at most once in each queue, in at most one of them, and its queue, the CPU
  that carries it and the CPU it runs on exclude one another, according to the program counter. The
  queues change by push, pop and the moves of `balance()`; what these do to the occurrences of a
  thread are lemmas of their own (`AppendOccurs`, `TailOccurs`, `RotateOccurs`), of which the proofs about start-up
  use some too.
* `AssertsHoldUp`, `SizeCoveredUp`, `MemorySafeUp`, `NoDanglingUp` (`SchedulerProofs`): with one CPU (`N = 1`) no
  assert of the scheduler fails, no thread is used after it was freed and nothing refers to a freed
  thread, for any number of threads and any order of creations and exits. `UpInv` adds to
  `PlaceInv` the states: only the thread the CPU executes is `Running`, a queued one is `Stopped`, one
  that exits or waits for the destroyer is `Killed` and in one place, and the thread `addThread()` is
  about to queue is nowhere else. The race of `pop()` with `exit()` on the destroyer's list loses counts:
  `SizeUp` says, for every place inside `pop()`, that the size is at most the number of entries left and not 0
  while `front()` still relies on it, so it never wraps and no pop meets an empty list (`SizeCoveredUp`). With
  two CPUs the asserts do fail (run `sched_tick_assert`, section 5).
* `ReadsBackOneWriter` (`TerminalProofs`; one writer, `Writers = {w}`): what scrolled away and
  what is shown is the text written, for any size of screen and any text. The
  invariant says that nothing is shown at or after the cursor, but for the character just drawn, and that
  the cells with a letter, in reading order, spell the text (`Spells`: each shows the
  letter of its rank among them). A letter drawn at the cursor is therefore the last; that a
  backspace removes the last one, and only that, needs the greatest of a finite set of cells
  (`LastOne`, from well-founded strict inclusion), which stands in for induction on the text.
* `GsSafety`, `FlagSafety`, `LevelSafety`, `RegisterSafety` (`InterruptsProofs`;
  `InterruptsAssumption`). The properties speak of the CPUs; a switch makes the saved frames of a stopped
  thread the state of a CPU. The invariant therefore says of every frame on every
  stack what the properties say of the CPU that will return to it: the privilege level it was taken at,
  the flag in it, whose registers it holds, and the number of sections open below it.
* `FramesUsedOnce`, `FramesNotLost`, `UnmapsMapped`, `EntriesKept` (`AddressSpaceProofs`; `SizeAssumption`: the
  frames of the boot tables exist, sizes are not 0, program headers lie in the user region). That each frame is
  referred to once is not inductive: to free a page one must know which table held it, and that no other did. The
  invariant gives every reference a place, a root, an entry at some level or a CPU's hand (`Slot`), and takes
  `Holding`, the frame in each place, as one function: it is what the page tables say (`Tree`), less the entries of what
  the destroyer has freed and not yet removed (`Hidden`), and it is one to one onto the used frames (`Sole`).
  A frame whose entry was replaced has a place of its own, as those of the program header being loaded have
  (`Claimed`): so it is used, and nobody else's.
  Writing an entry, clearing it, making a root, freeing a table without children are then
  changes of that function at one place (`Put`), each with a lemma that keeps `Tree` and `Sole`. Around that the invariant
  says where each process is in its life and which of its pages its loader and its destroyer
  count on being mapped: the kernel's directories stay, the frames of the header being loaded were not yet replaced,
  the pages `getFreePages` found stay absent until it maps them though the shared
  kernel-stack tables change under it, the stacks of a thread that runs are mapped, what
  `destroyAddressSpace` has passed in a table is gone, and `physicalPages` agrees with the heap's table.
* `BitmapExactness`, `PageExclusion`, `SearchIsFirstFit` (`PhysicalMemoryProofs`;
  `PhysicalAssumption`, which includes that `"none"`, the owner of a free lock, is no CPU). The invariant adds to
  the three properties what the loops know half way: a search has passed only starts with a used page
  above them, a CPU in the loop that sets bits holds the lock and has set those below its index, and a
  page stored by `freePages()` between load and store of another is in `lost`.
* `IdentitySafety`, `HandshakeSafety`, `TickSafety`, `DestroyersKept` (`SmpBootProofs`;
  `SmpBootAssumption`: the MADT names no processor twice, its first enabled entry is the boot processor).
  `MadtInv` says that `processors` lists the enabled entries read, `BootInv` and `ApInv` what a processor
  has set up by its next step, and `HandshakeInv` that of all the processors only `processors[core]` is
  between INIT and its signal, while the boot processor waits. For `DestroyersKept` `QueueInv` adds
  that no queue has two entries before the main thread is added: until then `balance()` moves
  nothing, so a processor that has no thread yet has an empty queue to construct; afterwards none
  is left that starts.
* `CacheSafety`, `RemoveSafety`, and with one process `RefsSafety`, `DescriptorSafety`, `AssertSafety`
  (`VfsProofs`; `VfsAssumption`: directory entries name inodes
  of the volume, a node of one kind is none of another, the hash map has a bucket). The first two hold for any
  tree, number of chunks, buckets and processes: `CacheInv` says that each entry of the cache is a live node
  under its own inode, each live node has an entry and no two live nodes share an inode, which the
  dangling pointers of other walks cannot disturb, since `open()` and `close()` of a deleted node do nothing
  and a chunk in use is not given out. `CreateCache` and `RemoveCache` are the two steps
  that change it. For one process `CountInv` adds: a node under `findEntry()` or about to be closed is
  one more user than its descriptors, a chunk without a live node has none, and the one closed is alive.
  With two processes `RefsCover`, `FdLive` and `NodeAsserts` do not hold (section 5).

Each inductive invariant was model-checked, on the run of its module or a slightly
smaller instance, before it was proved.

Only model-checked: of `Vfs`
`ReadsNamedFile` (the reference follows the path by recursion); `Liballoc`
and its refinement of `Allocator` (its chains of blocks and majors are followed by recursion).

Out of the prover's reach and left to TLC: liveness under fairness and `ENABLED` (`QueuedRuns`,
`ExitedFreed`, `AllRun`), induction over data, recursive operators.

## 5. Disagreements met on the way without a run

Kept here so that they are not modelled away later. They are hazards in `PROJECT.json`
where a property could cover them.

* `threadDestroyerOfThreads` reads its CPU when it first runs; balanced away before
  that, it serves the other CPU and its own list is never emptied. Two destroyers then pop one
  list without a lock: one can store a size of 0 between the other's `empty()` and `front()`, whose
  `assert(_size > 0)` (queue.h:54) fails, or before its load, and the size wraps to 2^64 - 1. With two
  CPUs the model reaches both.
* A kernel thread's stack has 16 pages, `destroyThread` releases one.
* `loadExecutable` passes every program header to `allocSpace` (elf.cpp:238-257), without a look at `p_type`. Two headers
  that share a page, as `PT_LOAD` and `PT_GNU_RELRO` do in most executables, make `mapPage()` print "page already mapped" and
  replace the entry (virtual.cpp:61-69): the first header's bytes are gone from that page, and its
  frame is never freed. A header of size 0 (`PT_GNU_STACK`) fails `assert(count > 0)` in
  `Physical::findFreePages` with the lock of the physical memory held. `AddressSpace` assumes sizes above 0
  and user addresses, which nothing checks.
* `findFreePages` creates tables without the user bit, and does not reset the inner
  indices when an outer one advances: only the first gigabyte is searched.
* `readInodeData` captures its offsets by value: a read over several blocks copies each of
  them to the start of the buffer and returns the sum of the sizes; it rounds up by
  `size % blockSize` and not by the end of the range, so a read may take one block too many and
  return more than was asked for. `findEntry` never searches the last of several
  directory blocks; `HashMap::remove` trusts a bucket of one entry.
* `push()` into a full ring that wraps (`lastRead` not 0) grows the block in the middle of the
  ring: a later `pop()` returns a slot nobody wrote, against `assert(thread)` (scheduler.cpp:253).
* An idle thread is queued by a tick, stolen, and is at the same time the fallback of its own
  CPU: `assert(state == Stopped)` (scheduler.cpp:297) fails with two CPUs.
* The first walk through `/` deletes the mounted root, and the mount point keeps the pointer. While
  the chunk is free every lookup fails; once the heap gives it to the node of another directory,
  every absolute path is looked up from there. With two processes one closes a node built in that
  chunk which it never counted: `assert(refCount > 0)` (ext2.cpp:228).
* Newline, newline on the last row, backspace: `assert(y < height)` (terminal.cpp:43).
* `push_all_regs` pushes r12, r13, r11 where `pop_all_regs` expects r11, r12, r13.
* `TSS.IST1` is the lowest address of the block `kmalloc` returns, and stacks grow downwards
  (gdt.cpp:64): an exception writes below it.
* `switchTo` sets `RSP0` from the frame it resumes. A user thread preempted inside a system call
  and resumed there gets a kernel stack that starts below that frame from then on.
* `initSyscalls()` of `kernelSchedulerMain` runs on whichever CPU the main thread was balanced to:
  the boot processor may never be set up for system calls. `SmpBoot` reaches that (`calls`).
* `tickFems` is global and calibrated by each processor in turn; all use the last value. `parseMADT`
  takes the first enabled entry for the boot processor.
* `removeEntry` clears the entry before it masks the interrupt, and one in between fails
  `assert(entries[vector])`; masking ignores the IOAPIC's first interrupt number. Modules are never
  unloaded.
* `kcalloc` writes through, and `krealloc` copies to, the null pointer `kmalloc` returns on
  exhaustion; a double free is noticed only as long as the header is not reused. `l_bestBet` is
  described as "The major with the most free memory" (liballoc.c:89) and is only a hint.
* The last partial page of the initrd stays free; `File::read` of the initrd
  ignores the offset when it clamps the length.
* `sysWrite` to 1 and 2 goes to the terminal although `sysOpen` hands out
  descriptors from 0.

## 6. Plan

In this order, most important first; the first eight steps are done.

1. `RingQueue`, `Fifo`: the queue and its promise. Proved.
2. `Scheduler`: the core. Proved, but for liveness.
3. `AddressSpace`: frames through the life of a process. Proved.
4. `Vfs`: nodes, cache, descriptors, reading.
5. `PhysicalMemory`, `Terminal`.
6. `Liballoc`, `Allocator`: the heap and its promise.
7. `Interrupts`: entries and exits of the kernel, nesting.
8. `SmpBoot`: start-up of the processors.
9. Proofs, for any CPUs, threads, pages and processors: done for `Interrupts`, `PhysicalMemory`,
   `SmpBoot`, the cache and the counts of `Vfs`, the indices of `RingQueue`, `NoSpinCycle` and
   `NoThreadLost`, the asserts of the scheduler on one CPU, `ReadsBack` with one writer, all of `AddressSpace`. Next: `Liballoc`, whose chains
   would have to be stated by a rank in place of recursion.
10. `FrameAllocator`, an abstract allocator that `PhysicalMemory` implements (outside
   `lost`) and `AddressSpace` uses, which composes the two.
11. `Vector`, `List` as data refinements in the manner of `RingQueue`; tar and ELF as
   operators against a reference.

## 7. How to run

    tlc -config MCSchedulerSmp.cfg MCScheduler
    tlapm SchedulerProofs.tla

and likewise for the other configurations and the other proof modules. Each takes
seconds to a few minutes.

## 8. Not modelled, and why

* ELF loading, relocation and kernel symbols, tar headers, the layout of ext2 block groups,
  descriptors of GDT and IDT: layouts of data, walked once and sequentially. What
  loading does to memory is in `AddressSpace`.
* IOAPIC, PIC and the table of vectors: device registers, written at boot and when the one keyboard
  module registers its vector. The log and the serial port are output.
* The multiboot tables and boot.asm run before there is a second processor, an interrupt or a heap; the
  models start where they end.
* `Vector`, `List`, `String`: sequential containers, which the models use as sequences and sets.
* `checkAccess` and `checkStrAccess` read page flags, which `AddressSpace` does not carry.
* Contents of memory and of user programs, RSP0, the TLB.
