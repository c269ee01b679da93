-------------------------------- MODULE Vfs --------------------------------
(***************************************************************************)
(* The file system layer as system calls see it: the mount points of       *)
(* fs.cpp, the walk of resolvePath(), sysOpen() with the descriptor table  *)
(* of the process, and the nodes of the ext2 module, which count their     *)
(* openers, live in the inode cache of the volume and delete themselves    *)
(* when the count returns to 0.                                            *)
(*                                                                         *)
(* The nodes of ext2 are heap chunks (Objects).  delete leaves the fields  *)
(* of a chunk as they are and, in this build (-O0), the virtual table of   *)
(* the base class fs::Node: a call through a dangling pointer runs the     *)
(* base method, which fails with -EINVAL.  That lasts until the chunk is   *)
(* used again: for another node, and the pointer means that node, or for   *)
(* other data, and anything may happen (UseReused).                        *)
(*                                                                         *)
(* Each call on a node (open, findEntry, close) is one step, so processes  *)
(* interleave between the calls.                                           *)
(***************************************************************************)
EXTENDS Naturals, Sequences, FiniteSets

CONSTANTS
    Procs,       \* user processes, each with its one thread
    Objects,     \* heap chunks an Ext2Node may occupy
    Inodes,      \* inode numbers of the volume
    RootInode,   \* DEFAULT_ROOT_INODE
    Blocks,      \* inode of a directory -> its blocks, functions name -> inode
    CacheSize,   \* number of buckets of inodesCache (CACHE_SIZE)
    InitrdFiles, \* names of the files of the initrd
    Devices,     \* block devices main() may find under /initrd/ext2.bin
    Paths,       \* paths processes open, as sequences of components
    Modes,       \* OpenMode values passed to sysOpen()
    BlockSize,   \* Volume::blockSize
    Direct,      \* block pointers in an inode
    PerBlock,    \* block pointers in an indirect block
    InitrdSize,  \* size of a file of the initrd
    Offsets,     \* offsets and sizes passed to sysRead()
    Sizes,
    MaxFds,      \* bound: descriptors per process
    MaxRefs      \* bound: openers a node may have when a call starts

Names == UNION {{path[i] : i \in DOMAIN path} : path \in Paths}

\* The entries of a directory name inodes of the volume, and a node of one
\* kind is none of another.
ASSUME VfsAssumption ==
    /\ Inodes \subseteq Nat
    /\ RootInode \in Inodes
    /\ DOMAIN Blocks \subseteq Inodes
    /\ \A ino \in DOMAIN Blocks : \A k \in DOMAIN Blocks[ino] :
            \A name \in DOMAIN Blocks[ino][k] : Blocks[ino][k][name] \in Inodes
    /\ Objects \cap InitrdFiles = {}
    /\ (Objects \cup InitrdFiles) \cap {"null", "initrd root", "dev root"} = {}
    /\ Paths \subseteq Seq(Names)
    /\ CacheSize \in Nat \ {0}
    /\ BlockSize \in Nat \ {0} /\ Direct \in Nat /\ PerBlock \in Nat /\ InitrdSize \in Nat
    /\ Offsets \subseteq Nat /\ Sizes \subseteq Nat
    /\ MaxFds \in Nat
    /\ MaxRefs \in Nat

VARIABLES
    mounts,   \* mountPoints: sequence of [path, node]
    booted,   \* main() has called fs::mount("/")
    readonly, \* Volume::readonly
    obj,      \* the chunks: [ino, refs, live]
    cache,    \* inodesCache: bucket -> sequence of [key, data]
    fds,      \* process -> its descriptors, [node, mode, path, top]
    call,     \* process -> the sysOpen() it is in (top, for the properties: the
              \* inode of the directory the walk started from)
    failed    \* process -> why the kernel stopped its CPU: "" while it runs

vars == <<mounts, booted, readonly, obj, cache, fds, call, failed>>

-----------------------------------------------------------------------------
(* Nodes *)

NoNode == "null"
InitrdRoot == "initrd root"
DevFs == "dev root"
Node == Objects \cup InitrdFiles \cup {NoNode, InitrdRoot, DevFs}

\* A pointer to a chunk whose node was deleted.
Freed(n) == n \in Objects /\ ~obj[n].live
Live(n) == n \in Objects /\ obj[n].live

\* Node::type; a deleted node keeps the field.
IsDirectory(n) ==
    \/ n \in {InitrdRoot, DevFs}
    \/ n \in Objects /\ obj[n].ino \in DOMAIN Blocks

\* What findEntry() looks at in directory ino.  It reads block 0, and at the
\* end of a block the one at fileOffset, which is advanced after the read: the
\* blocks seen are 0, 0, 1, ... and never the last of several.
BlocksRead(ino) ==
    {k \in DOMAIN Blocks[ino] : k = 1 \/ k < Len(Blocks[ino])}
HasEntry(ino, name) == \E k \in BlocksRead(ino) : name \in DOMAIN Blocks[ino][k]
Entry(ino, name) ==
    LET k == CHOOSE k \in BlocksRead(ino) : name \in DOMAIN Blocks[ino][k]
    IN Blocks[ino][k][name]

-----------------------------------------------------------------------------
(* HashMap<uint32, Ext2Node *> *)

Bucket(ino) == ino % CacheSize
Hits(ino) == {i \in DOMAIN cache[Bucket(ino)] : cache[Bucket(ino)][i].key = ino}
First(S) == CHOOSE i \in S : \A j \in S : i <= j

Cached(ino) == Hits(ino) # {}
Get(ino) == cache[Bucket(ino)][First(Hits(ino))].data
Set(ino, o) ==
    [cache EXCEPT ![Bucket(ino)] = Append(@, [key |-> ino, data |-> o])]

\* remove() trusts a bucket with one entry to hold the key.
RemoveAsserts(ino) ==
    \/ cache[Bucket(ino)] = <<>>
    \/ Len(cache[Bucket(ino)]) > 1 /\ ~Cached(ino)
\* Mutant: the entry of a deleted node stays.
RemoveNothing(ino) == cache

Remove(ino) ==
    [cache EXCEPT ![Bucket(ino)] =
        IF Len(@) = 1 THEN <<>>
        ELSE SubSeq(@, 1, First(Hits(ino)) - 1)
                \o SubSeq(@, First(Hits(ino)) + 1, Len(@))]

-----------------------------------------------------------------------------
(* Mount points *)

IsPathSubset(subset, total) ==
    /\ Len(subset) <= Len(total)
    /\ \A i \in DOMAIN subset : subset[i] = total[i]

Matches(path) == {m \in DOMAIN mounts : IsPathSubset(mounts[m].path, path)}

\* findMountPoint(): the longest one that is a prefix, the first of equals.
FindMountPoint(path) ==
    CHOOSE m \in Matches(path) :
        \A o \in Matches(path) :
            \/ Len(mounts[o].path) < Len(mounts[m].path)
            \/ Len(mounts[o].path) = Len(mounts[m].path) /\ m <= o

\* Ext2::identify() and the constructor of Volume, on what they look at.
Identify(d) == d.magic /\ (d.revLevel = 0 \/ d.featuresIncompat = 0)
VolumeFails(d) == ~d.clean /\ d.errors \notin {1, 2}
VolumeReadonly(d) ==
    \/ ~d.clean /\ d.errors = 2
    \/ d.revLevel > 0 /\ d.featuresRoCompat # 0

-----------------------------------------------------------------------------
Idle == [pc |-> "idle", cur |-> NoNode, old |-> NoNode,
         rest |-> <<>>, path |-> <<>>, mode |-> 1, top |-> RootInode]

\* fs::Initrd::init() and DeviceManager::init() have run, the drivers are
\* loaded, and main() is about to mount the root file system.
Init ==
    /\ mounts = <<[path |-> <<"initrd">>, node |-> InitrdRoot],
                  [path |-> <<"dev">>, node |-> DevFs]>>
    /\ booted = FALSE
    /\ readonly = FALSE
    /\ obj = [o \in Objects |-> [ino |-> RootInode, refs |-> 0, live |-> FALSE]]
    /\ cache = [b \in 0 .. CacheSize - 1 |-> <<>>]
    /\ fds = [p \in Procs |-> <<>>]
    /\ call = [p \in Procs |-> Idle]
    /\ failed = [p \in Procs |-> ""]

New(ino) == [ino |-> ino, refs |-> 0, live |-> TRUE]

\* main(): fs::mount("/", device).  A volume that reports an error is mounted
\* with a null root; the result of mount() is not looked at.
Mount ==
    /\ ~booted
    /\ booted' = TRUE
    /\ \E d \in Devices :
        \/ /\ ~Identify(d)
           /\ UNCHANGED <<mounts, readonly, obj, cache>>
        \/ /\ Identify(d) /\ VolumeFails(d)
           /\ mounts' = Append(mounts, [path |-> <<>>, node |-> NoNode])
           /\ UNCHANGED <<readonly, obj, cache>>
        \/ /\ Identify(d) /\ ~VolumeFails(d)
           /\ readonly' = VolumeReadonly(d)
           /\ \E o \in Objects :
                /\ obj' = [obj EXCEPT ![o] = New(RootInode)]
                /\ cache' = Set(RootInode, o)
                /\ mounts' = Append(mounts, [path |-> <<>>, node |-> o])
    /\ UNCHANGED <<fds, call, failed>>

\* sysOpen() up to the loop of resolvePath().
SysOpen(p, path, mode) ==
    /\ failed[p] = "" /\ booted
    /\ call[p].pc = "idle"
    /\ Len(fds[p]) < MaxFds
    /\ \A o \in Objects : obj[o].refs <= MaxRefs
    /\ Matches(path) # {}
    /\ LET m == mounts[FindMountPoint(path)]
       IN call' = [call EXCEPT ![p] =
              [pc |-> "walk", cur |-> m.node, old |-> NoNode, path |-> path,
               rest |-> SubSeq(path, Len(m.path) + 1, Len(path)), mode |-> mode,
               top |-> IF m.node \in Objects THEN obj[m.node].ino ELSE RootInode]]
    /\ UNCHANGED <<mounts, booted, readonly, obj, cache, fds, failed>>

\* Mutants: open() does not count, or sets the count.
OpenedNot(n) == obj
OpenedOnce(n) == IF Live(n) THEN [obj EXCEPT ![n].refs = 1] ELSE obj

\* ext2 nodes count their openers; the base method of a deleted one and the
\* nodes of the initrd do not.
Opened(n) == IF Live(n) THEN [obj EXCEPT ![n].refs = @ + 1] ELSE obj

\* panic() and a page fault stop the CPU they happen on.
Panic(p, why) == failed' = [failed EXCEPT ![p] = why]

\* One round of the loop: the type check and open(READ), whose result
\* is not looked at.
Walk(p) ==
    /\ failed[p] = "" /\ call[p].pc = "walk" /\ call[p].rest # <<>>
    /\ \/ /\ call[p].cur = NoNode
          /\ Panic(p, "null")
          /\ UNCHANGED <<obj, call>>
       \/ /\ call[p].cur # NoNode
          /\ ~IsDirectory(call[p].cur)
          /\ call' = [call EXCEPT ![p] = Idle]
          /\ UNCHANGED <<obj, failed>>
       \/ /\ IsDirectory(call[p].cur)
          /\ obj' = Opened(call[p].cur)
          /\ call' = [call EXCEPT ![p].pc = "find"]
          /\ UNCHANGED failed
    /\ UNCHANGED <<mounts, booted, readonly, cache, fds>>

Found(p, n) ==
    call' = [call EXCEPT ![p].pc = "close", ![p].old = call[p].cur,
                         ![p].cur = n, ![p].rest = Tail(@)]

\* Ext2Node::findEntry(), with cacheOrCreateNode().
FindInExt2(p, n, name) ==
    /\ Live(n) /\ IsDirectory(n)
    /\ HasEntry(obj[n].ino, name)
    /\ LET ino == Entry(obj[n].ino, name)
       IN \/ /\ Cached(ino)
             /\ Found(p, Get(ino))
             /\ UNCHANGED <<obj, cache>>
          \/ /\ ~Cached(ino)
             /\ \E o \in Objects :
                    /\ ~obj[o].live
                    /\ obj' = [obj EXCEPT ![o] = New(ino)]
                    /\ cache' = Set(ino, o)
                    /\ Found(p, o)

FindInInitrd(p, n, name) ==
    /\ n = InitrdRoot /\ name \in InitrdFiles
    /\ Found(p, name)
    /\ UNCHANGED <<obj, cache>>

FindFails(n, name) ==
    \/ Freed(n) \/ n = DevFs
    \/ n = InitrdRoot /\ name \notin InitrdFiles
    \/ Live(n) /\ (IsDirectory(n) => ~HasEntry(obj[n].ino, name))

\* An error returns from resolvePath() without closing the directory.
Find(p) ==
    /\ failed[p] = "" /\ call[p].pc = "find"
    /\ LET n == call[p].cur
           name == Head(call[p].rest)
       IN \/ FindInExt2(p, n, name)
          \/ FindInInitrd(p, n, name)
          \/ /\ FindFails(n, name)
             /\ call' = [call EXCEPT ![p] = Idle]
             /\ UNCHANGED <<obj, cache>>
    /\ UNCHANGED <<mounts, booted, readonly, fds, failed>>

\* Mutant: off by one in the test for the last closer.
CloseExt2Early(p, n) ==
    /\ ~RemoveAsserts(obj[n].ino)
    /\ cache' = IF obj[n].refs <= 2 THEN Remove(obj[n].ino) ELSE cache
    /\ obj' = [obj EXCEPT ![n].refs = @ - 1, ![n].live = obj[n].refs > 2]
    /\ UNCHANGED failed

\* Ext2Node::close(): the last one out of the cache and deleted.
CloseExt2(p, n) ==
    \/ /\ obj[n].refs = 0
       /\ Panic(p, "refCount")
       /\ UNCHANGED <<obj, cache>>
    \/ /\ obj[n].refs > 1
       /\ obj' = [obj EXCEPT ![n].refs = @ - 1]
       /\ UNCHANGED <<cache, failed>>
    \/ /\ obj[n].refs = 1
       /\ RemoveAsserts(obj[n].ino)
       /\ Panic(p, "remove")
       /\ UNCHANGED <<obj, cache>>
    \/ /\ obj[n].refs = 1
       /\ ~RemoveAsserts(obj[n].ino)
       /\ cache' = Remove(obj[n].ino)
       /\ obj' = [obj EXCEPT ![n].refs = 0, ![n].live = FALSE]
       /\ UNCHANGED failed

\* old_node->close()
Close(p) ==
    /\ failed[p] = "" /\ call[p].pc = "close"
    /\ call' = [call EXCEPT ![p].pc = "walk", ![p].old = NoNode]
    /\ \/ Live(call[p].old) /\ CloseExt2(p, call[p].old)
       \/ ~Live(call[p].old) /\ UNCHANGED <<obj, cache, failed>>
    /\ UNCHANGED <<mounts, booted, readonly, fds>>

\* Process::allocateFdEntry(): the first slot without a node, or a new one.
FreeSlots(p) == {i \in DOMAIN fds[p] : fds[p][i].node = NoNode}
Slot(p) == IF FreeSlots(p) = {} THEN Len(fds[p]) + 1 ELSE First(FreeSlots(p))

Fd(p) == [node |-> call[p].cur, mode |-> call[p].mode, path |-> call[p].path, top |-> call[p].top]

Writes(mode) == mode \in {2, 3} \* mode & OpenMode::WRITE

\* open() refuses: the base method, or writing where it is not allowed.
OpenFails(n, mode) ==
    \/ Freed(n) \/ n = DevFs
    \/ Writes(mode) /\ (n \in Objects => readonly)

\* The rest of sysOpen(): open the node that was found and give it a slot.
OpenFound(p) ==
    /\ failed[p] = "" /\ call[p].pc = "walk" /\ call[p].rest = <<>>
    /\ LET n == call[p].cur
       IN \/ /\ n = NoNode
             /\ Panic(p, "null")
             /\ UNCHANGED <<obj, fds, call>>
          \/ /\ n # NoNode /\ OpenFails(n, call[p].mode)
             /\ call' = [call EXCEPT ![p] = Idle]
             /\ UNCHANGED <<obj, fds, failed>>
          \/ /\ n # NoNode /\ ~OpenFails(n, call[p].mode)
             /\ obj' = Opened(n)
             /\ fds' = [fds EXCEPT ![p] =
                    [i \in 1 .. Len(@) \cup {Slot(p)} |->
                        IF i = Slot(p) THEN Fd(p) ELSE @[i]]]
             /\ call' = [call EXCEPT ![p] = Idle]
             /\ UNCHANGED failed
    /\ UNCHANGED <<mounts, booted, readonly, cache>>

\* The chunk a dangling pointer leads to holds other data by now.
UseReused(p) ==
    /\ failed[p] = ""
    /\ \/ call[p].pc \in {"walk", "find"} /\ Freed(call[p].cur)
       \/ call[p].pc = "close" /\ Freed(call[p].old)
    /\ Panic(p, "wild")
    /\ UNCHANGED <<mounts, booted, readonly, obj, cache, fds, call>>

-----------------------------------------------------------------------------
(* Reading.  A call leaves the state of the kernel as it is; its result is  *)
(* the value returned and what was stored in the caller's buffer, bytes     *)
(* named by their file and their place in it.                               *)

Byte(file, x) == <<file, x>>
Result(count, buffer) == [count |-> count, buffer |-> buffer]
Error(code) == Result(code, <<>>)

\* Mutant: the division always rounds up.
BlockIndexEndUp(offset, size) == (offset + size) \div BlockSize + 1

BlockIndexEnd(offset, size) ==
    (offset + size) \div BlockSize + (IF size % BlockSize # 0 THEN 1 ELSE 0)

\* What the lambda of readInodeData() copies of each block: it captured offset
\* and bufferOffset by value, so each block gives the same part of itself and
\* all go to the start of the buffer.
ReadSize(offset, size) ==
    LET most == IF size < BlockSize THEN size ELSE BlockSize
        left == BlockSize - (offset % BlockSize)
    IN IF most < left THEN most ELSE left

\* readInodeData(): the last block read is what stays.  The size of the file
\* is not looked at; beyond the indirect block stands an assert.
ReadInodeData(ino, offset, size) ==
    LET start == offset \div BlockSize
        end == BlockIndexEnd(offset, size)
        n == ReadSize(offset, size)
    IN IF end > Direct + PerBlock THEN Error("panic")
       ELSE Result((end - start) * n,
                   IF end = start THEN <<>>
                   ELSE [k \in 1 .. n |-> Byte(ino, (end - 1) * BlockSize + (offset % BlockSize) + k - 1)])

\* File::read() of the initrd: the size is cut to that of the whole file.
ReadInitrd(name, offset, size) ==
    LET n == IF size < InitrdSize THEN size ELSE InitrdSize
    IN Result(n, [k \in 1 .. n |-> Byte(name, offset + k - 1)])

Reads(mode) == mode \in {1, 3} \* mode & OpenMode::READ

\* sysRead() on descriptor i.
SysRead(p, i, offset, size) ==
    LET n == fds[p][i].node
    IN IF i \notin DOMAIN fds[p] \/ n = NoNode THEN Error("EBADF")
       ELSE IF ~Reads(fds[p][i].mode) THEN Error("EACCES")
       ELSE IF n \in InitrdFiles THEN ReadInitrd(n, offset, size)
       ELSE IF Live(n) THEN ReadInodeData(obj[n].ino, offset, size)
       ELSE Error("EINVAL")

-----------------------------------------------------------------------------
Next ==
    \/ Mount
    \/ \E p \in Procs :
        \/ \E path \in Paths, mode \in Modes : SysOpen(p, path, mode)
        \/ Walk(p)
        \/ Find(p)
        \/ Close(p)
        \/ OpenFound(p)
        \/ UseReused(p)

Spec == Init /\ [][Next]_vars

-----------------------------------------------------------------------------
Descriptor == [node : Node, mode : Modes, path : Paths, top : Inodes]

\* Every variable has the shape its code gives it.
TypeOK ==
    /\ \A m \in DOMAIN mounts : mounts[m].node \in Node
    /\ booted \in BOOLEAN
    /\ readonly \in BOOLEAN
    /\ obj \in [Objects -> [ino : Inodes, refs : Nat, live : BOOLEAN]]
    /\ \A b \in DOMAIN cache : \A i \in DOMAIN cache[b] :
            cache[b][i].key \in Inodes /\ cache[b][i].data \in Objects
    /\ \A p \in Procs :
            /\ DOMAIN fds[p] = 1 .. Cardinality(DOMAIN fds[p])
            /\ \A i \in DOMAIN fds[p] : fds[p][i] \in Descriptor
    /\ \A p \in Procs : /\ call[p].pc \in {"idle", "walk", "find", "close"}
                        /\ call[p].cur \in Node /\ call[p].old \in Node
    /\ failed \in [Procs -> {"", "null", "wild", "refCount", "remove"}]

\* The cache holds exactly the nodes that are alive, each once and under its
\* own inode: findEntry() never hands out a deleted node and never builds a
\* second node, with a count of its own, for an inode that has one.
CacheIsLive ==
    /\ TypeOK
    /\ \A b \in DOMAIN cache : \A i \in DOMAIN cache[b] :
            LET e == cache[b][i]
            IN obj[e.data].live /\ obj[e.data].ino = e.key /\ Bucket(e.key) = b
    /\ \A o \in Objects : obj[o].live =>
            Cardinality({e \in UNION {{<<b, i>> : i \in DOMAIN cache[b]} :
                                       b \in DOMAIN cache} :
                         cache[e[1]][e[2]].data = o}) = 1
    /\ \A o, q \in Objects :
            obj[o].live /\ obj[q].live /\ obj[o].ino = obj[q].ino => o = q

Opens(o) ==
    UNION {{<<p, i>> : i \in {i \in DOMAIN fds[p] : fds[p][i].node = o}} : p \in Procs}
Walkers(o) == {p \in Procs : \/ call[p].pc = "find" /\ call[p].cur = o
                             \/ call[p].pc = "close" /\ call[p].old = o}

\* A node counts every descriptor that refers to it and every walk that has
\* it open, so that close() cannot take it from under them.
RefsCover ==
    \A o \in Objects :
        obj[o].live =>
            obj[o].refs >= Cardinality(Opens(o)) + Cardinality(Walkers(o))

\* sysRead() and sysWrite() call the node of a descriptor without any check:
\* it has not been deleted since sysOpen().
FdLive ==
    \A p \in Procs : \A i \in DOMAIN fds[p] : ~Freed(fds[p][i].node)

\* The file a path names, from directory top: the initrd is mounted over the root
\* volume, where a name is looked up in one directory after the other.
Named(path, top) ==
    LET dir[k \in 0 .. Len(path)] == IF k = 0 THEN top ELSE Entry(dir[k - 1], path[k])
    IN IF path[1] = "initrd" THEN path[2] ELSE dir[Len(path)]

\* Ranges that readInodeData() takes from one block, and File::read() from the
\* file.
InOneBlock(offset, size) ==
    /\ offset \div BlockSize = (offset + size - 1) \div BlockSize
    /\ size % BlockSize = 0 \/ (offset + size) % BlockSize # 0
    /\ offset + size <= (Direct + PerBlock) * BlockSize
InInitrd(offset, size) == offset + size <= InitrdSize

\* sysRead() gives the bytes of the file that the path of the descriptor named
\* when it was opened, whatever was opened, closed and deleted since and
\* whichever chunk the node lies in, for every range inside one block (ext2) or
\* inside the file (initrd); and it stores no more than the caller asked for.
\* The path is looked up from where the mount point led to: the first walk
\* deletes the root it points to, and another directory may lie there by then.
ReadsNamedFile ==
    \A p \in Procs : \A i \in DOMAIN fds[p] : \A offset \in Offsets, size \in Sizes :
        LET r == SysRead(p, i, offset, size)
            f == fds[p][i]
        IN /\ Len(r.buffer) <= size
           /\ /\ f.path \notin {<<>>, <<"initrd">>} /\ size > 0
              /\ IF f.node \in InitrdFiles THEN InInitrd(offset, size) ELSE InOneBlock(offset, size)
              => r = Result(size, [k \in 1 .. size |-> Byte(Named(f.path, f.top), offset + k - 1)])

\* The asserts on the count (Ext2Node::close) and on the bucket
\* (HashMap::remove) hold.
NodeAsserts == \A p \in Procs : failed[p] \notin {"refCount", "remove"}
=============================================================================
