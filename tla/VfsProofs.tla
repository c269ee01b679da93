------------------------------ MODULE VfsProofs ------------------------------
(***************************************************************************)
(* The inode cache and the life of the nodes, proved for any directory     *)
(* tree, any number of chunks and buckets: what the cache holds for any    *)
(* number of processes, what the reference counts cover for one.           *)
(***************************************************************************)
EXTENDS Vfs, Integers, FiniteSetTheorems, TLAPS

MountSet == [path : {<<>>, <<"initrd">>, <<"dev">>}, node : Node]
Chunk == [ino : Inodes, refs : Nat, live : BOOLEAN]
CacheEntry == [key : Inodes, data : Objects]
CallSet == [pc : {"idle", "walk", "find", "close"}, cur : Node, old : Node, rest : Seq(Names),
            path : Paths \cup {<<>>}, mode : Modes \cup {1}, top : Inodes]
Buckets == 0 .. CacheSize - 1

MountsInv ==
    /\ mounts \in Seq(MountSet) /\ Len(mounts) \in {2, 3}
    /\ mounts[1].path = <<"initrd">> /\ mounts[2].path = <<"dev">>
    /\ Len(mounts) = 3 => mounts[3].path = <<>>

CallInv ==
    /\ call \in [Procs -> CallSet]
    /\ \A p \in Procs : call[p].pc # "idle" => call[p].path \in Paths /\ call[p].mode \in Modes
    /\ \A p \in Procs : call[p].pc = "find" => call[p].rest # <<>>

\* No slot is ever given up, so the table of a process has no hole.
FdsInv ==
    /\ fds \in [Procs -> Seq(Descriptor)]
    /\ \A p \in Procs : \A i \in DOMAIN fds[p] : fds[p][i].node # NoNode

TypeInv ==
    /\ MountsInv
    /\ booted \in BOOLEAN /\ readonly \in BOOLEAN
    /\ obj \in [Objects -> Chunk]
    /\ cache \in [Buckets -> Seq(CacheEntry)]
    /\ FdsInv
    /\ CallInv
    /\ failed \in [Procs -> {"", "null", "wild", "refCount"}]
    /\ ~booted => /\ Len(mounts) = 2
                  /\ \A p \in Procs : call[p].pc = "idle" /\ fds[p] = <<>>

\* Each entry of the cache is a live node under its own inode, each live node
\* has one entry, and no two have the same inode.
CacheInv ==
    /\ \A b \in Buckets : \A i \in DOMAIN cache[b] :
           LET e == cache[b][i] IN obj[e.data].live /\ obj[e.data].ino = e.key /\ Bucket(e.key) = b
    /\ \A b \in Buckets : \A i, j \in DOMAIN cache[b] : cache[b][i].data = cache[b][j].data => i = j
    /\ \A o \in Objects : obj[o].live =>
           \E i \in DOMAIN cache[Bucket(obj[o].ino)] : cache[Bucket(obj[o].ino)][i].data = o
    /\ \A o, q \in Objects : obj[o].live /\ obj[q].live /\ obj[o].ino = obj[q].ino => o = q
    /\ ~booted => \A o \in Objects : ~obj[o].live

IInv == TypeInv /\ CacheInv

-----------------------------------------------------------------------------
(* The helpers of the model.                                               *)

LEMMA NodesApart ==
  /\ Objects \cap InitrdFiles = {}
  /\ NoNode \notin Objects \cup InitrdFiles /\ InitrdRoot \notin Objects \cup InitrdFiles
  /\ DevFs \notin Objects \cup InitrdFiles
  /\ NoNode # InitrdRoot /\ NoNode # DevFs /\ InitrdRoot # DevFs
  /\ Objects \subseteq Node /\ InitrdFiles \subseteq Node
  /\ NoNode \in Node /\ InitrdRoot \in Node /\ DevFs \in Node
  BY VfsAssumption DEF NoNode, InitrdRoot, DevFs, Node

\* HashMap::getBucketIndex()
LEMMA BucketIn == \A ino \in Inodes : Bucket(ino) \in Buckets
  <1> SUFFICES ASSUME NEW ino \in Inodes PROVE Bucket(ino) \in Buckets
    OBVIOUS
  <1>1. ino \in Int /\ CacheSize \in Int /\ CacheSize > 0
    <2>1. ino \in Nat
      BY VfsAssumption
    <2>2. CacheSize \in Nat /\ CacheSize # 0
      BY VfsAssumption
    <2> QED
      BY <2>1, <2>2
  <1>2. 0 <= ino % CacheSize /\ ino % CacheSize <= CacheSize - 1 /\ ino % CacheSize \in Int
    BY <1>1
  <1> QED
    BY <1>1, <1>2 DEF Bucket, Buckets

LEMMA FirstOfOne ==
  ASSUME NEW i \in Nat
  PROVE  First({i}) = i
  BY DEF First

\* A pointer into the volume found by name is an inode of the volume.
LEMMA EntryType ==
  ASSUME NEW ino \in DOMAIN Blocks, NEW name, HasEntry(ino, name)
  PROVE  Entry(ino, name) \in Inodes
  <1> DEFINE k == CHOOSE k \in BlocksRead(ino) : name \in DOMAIN Blocks[ino][k]
  <1>1. k \in BlocksRead(ino) /\ name \in DOMAIN Blocks[ino][k]
    BY DEF HasEntry
  <1>2. k \in DOMAIN Blocks[ino]
    BY <1>1 DEF BlocksRead
  <1> QED
    BY <1>1, <1>2, VfsAssumption DEF Entry

\* findMountPoint() returns one of the mount points.
LEMMA MountPointFound ==
  ASSUME MountsInv, NEW path, Matches(path) # {}
  PROVE  FindMountPoint(path) \in DOMAIN mounts
  <1>1. DOMAIN mounts = 1 .. Len(mounts) /\ Len(mounts) \in {2, 3}
    BY DEF MountsInv
  <1>2. \A m \in DOMAIN mounts : Len(mounts[m].path) = IF m = 3 THEN 0 ELSE 1
    <2>1. /\ Len(mounts[1].path) = 1 /\ Len(mounts[2].path) = 1
          /\ Len(mounts) = 3 => Len(mounts[3].path) = 0
      <3>1. Len(<<"initrd">>) = 1 /\ Len(<<"dev">>) = 1 /\ Len(<<>>) = 0
        OBVIOUS
      <3> QED
        BY <3>1 DEF MountsInv
    <2>2. ASSUME NEW m \in DOMAIN mounts PROVE Len(mounts[m].path) = IF m = 3 THEN 0 ELSE 1
      <3>1. m = 1 \/ m = 2 \/ (m = 3 /\ Len(mounts) = 3)
        <4>1. CASE Len(mounts) = 2
          <5>1. m \in 1 .. 2
            BY <1>1, <4>1
          <5> QED
            BY <5>1
        <4>2. CASE Len(mounts) = 3
          <5>1. m \in 1 .. 3
            BY <1>1, <4>2
          <5> QED
            BY <4>2, <5>1
        <4> QED
          BY <1>1, <4>1, <4>2
      <3> QED
        <4>1. CASE m = 1
          BY <2>1, <4>1
        <4>2. CASE m = 2
          BY <2>1, <4>2
        <4>3. CASE m = 3 /\ Len(mounts) = 3
          BY <2>1, <4>3
        <4> QED
          BY <3>1, <4>1, <4>2, <4>3
    <2> QED
      BY <2>2
  <1>3. Matches(path) \subseteq DOMAIN mounts
    BY DEF Matches
  <1>4. \E m \in Matches(path) : \A o \in Matches(path) : m <= o
    <2>1. CASE 1 \in Matches(path)
      BY <1>1, <1>3, <2>1
    <2>2. CASE 1 \notin Matches(path) /\ 2 \in Matches(path)
      BY <1>1, <1>3, <2>2
    <2>3. CASE 1 \notin Matches(path) /\ 2 \notin Matches(path)
      <3>1. Matches(path) \subseteq {3}
        BY <1>1, <1>3, <2>3
      <3> QED
        BY <3>1
    <2> QED
      BY <2>1, <2>2, <2>3
  <1>5. \E m \in Matches(path) : \A o \in Matches(path) :
            \/ Len(mounts[o].path) < Len(mounts[m].path)
            \/ Len(mounts[o].path) = Len(mounts[m].path) /\ m <= o
    <2>1. PICK m \in Matches(path) : \A o \in Matches(path) : m <= o
      BY <1>4
    <2>2. ASSUME NEW o \in Matches(path)
          PROVE  \/ Len(mounts[o].path) < Len(mounts[m].path)
                 \/ Len(mounts[o].path) = Len(mounts[m].path) /\ m <= o
      <3>1. m <= o /\ m \in 1 .. 3 /\ o \in 1 .. 3
        BY <1>1, <1>3, <2>1
      <3>2. Len(mounts[o].path) = (IF o = 3 THEN 0 ELSE 1) /\ Len(mounts[m].path) = IF m = 3 THEN 0 ELSE 1
        BY <1>2, <1>3
      <3> QED
        BY <3>1, <3>2
    <2> QED
      BY <2>2
  <1>6. FindMountPoint(path) \in Matches(path)
    BY <1>5 DEF FindMountPoint
  <1> QED
    BY <1>3, <1>6

\* A cached inode has one entry, which Get returns: the live node of it.
LEMMA HitsOne ==
  ASSUME IInv, NEW ino \in Inodes, Cached(ino)
  PROVE  /\ \E i \in DOMAIN cache[Bucket(ino)] : Hits(ino) = {i}
         /\ Get(ino) \in Objects /\ obj[Get(ino)].live /\ obj[Get(ino)].ino = ino
  <1> DEFINE b == Bucket(ino)
  <1>1. b \in Buckets /\ cache[b] \in Seq(CacheEntry)
    BY BucketIn DEF IInv, TypeInv
  <1>0. \A j \in DOMAIN cache[b] : j \in Nat /\ cache[b][j] \in CacheEntry
    BY <1>1
  <1>7. \A j \in DOMAIN cache[b] : cache[b][j].data \in Objects
    BY <1>0 DEF CacheEntry
  <1>2. PICK i \in Hits(ino) : TRUE
    BY DEF Cached
  <1>3. i \in DOMAIN cache[b] /\ i \in Nat /\ cache[b][i].key = ino /\ cache[b][i].data \in Objects
    BY <1>0, <1>2, <1>7 DEF Hits
  <1>4. ASSUME NEW j \in Hits(ino) PROVE j = i
    <2>1. j \in DOMAIN cache[b] /\ cache[b][j].key = ino /\ cache[b][j].data \in Objects
      BY <1>7 DEF Hits
    <2>2. /\ obj[cache[b][i].data].live /\ obj[cache[b][i].data].ino = ino
          /\ obj[cache[b][j].data].live /\ obj[cache[b][j].data].ino = ino
      BY <1>1, <1>3, <2>1 DEF IInv, CacheInv
    <2>3. cache[b][i].data = cache[b][j].data
      BY <1>3, <2>1, <2>2 DEF IInv, CacheInv
    <2> QED
      BY <1>1, <1>3, <2>1, <2>3 DEF IInv, CacheInv
  <1>5. Hits(ino) = {i}
    BY <1>2, <1>4
  <1>6. Get(ino) = cache[b][i].data
    BY <1>3, <1>5, FirstOfOne DEF Get
  <1> QED
    BY <1>1, <1>3, <1>5, <1>6 DEF IInv, CacheInv

\* The entry of a live node is found and HashMap::remove() never asserts.
LEMMA LiveCached ==
  ASSUME IInv, NEW n \in Objects, obj[n].live
  PROVE  /\ Cached(obj[n].ino) /\ Get(obj[n].ino) = n /\ ~RemoveAsserts(obj[n].ino)
         /\ obj[n].ino \in Inodes
  <1> DEFINE ino == obj[n].ino
             b == Bucket(ino)
  <1>1. ino \in Inodes
    BY DEF IInv, TypeInv, Chunk
  <1>2. b \in Buckets /\ cache[b] \in Seq(CacheEntry)
    BY <1>1, BucketIn DEF IInv, TypeInv
  <1>3. PICK i \in DOMAIN cache[b] : cache[b][i].data = n
    BY DEF IInv, CacheInv
  <1>4. cache[b][i].key = ino
    BY <1>2, <1>3 DEF IInv, CacheInv
  <1>5. Cached(ino)
    BY <1>3, <1>4 DEF Cached, Hits
  <1>6. cache[b] # <<>>
    BY <1>2, <1>3
  <1>7. Get(ino) \in Objects /\ obj[Get(ino)].live /\ obj[Get(ino)].ino = ino
    BY <1>1, <1>5, HitsOne
  <1>8. Get(ino) = n
    BY <1>7 DEF IInv, CacheInv
  <1> QED
    BY <1>1, <1>5, <1>6, <1>8 DEF RemoveAsserts
-----------------------------------------------------------------------------
(* What the steps do to the cache.                                         *)

\* A step that changes counts only.
LEMMA KeepCache ==
  ASSUME IInv, cache' = cache, booted => booted',
         \A o \in Objects : obj'[o].live = obj[o].live /\ obj'[o].ino = obj[o].ino,
         ~booted' => \A o \in Objects : ~obj[o].live
  PROVE  CacheInv'
  <1>1. \A b \in Buckets : \A i \in DOMAIN cache[b] : cache[b][i].data \in Objects
    <2>1. ASSUME NEW b \in Buckets, NEW i \in DOMAIN cache[b] PROVE cache[b][i].data \in Objects
      <3>1. cache[b] \in Seq(CacheEntry)
        BY DEF IInv, TypeInv
      <3>2. cache[b][i] \in CacheEntry
        BY <3>1
      <3> QED
        BY <3>2 DEF CacheEntry
    <2> QED
      BY <2>1
  <1> QED
    BY <1>1 DEF IInv, CacheInv

\* cacheOrCreateNode() for an inode that is not cached.
LEMMA CreateCache ==
  ASSUME IInv, NEW ino \in Inodes, ~Cached(ino), NEW o \in Objects, ~obj[o].live,
         obj' = [obj EXCEPT ![o] = New(ino)], cache' = Set(ino, o), booted'
  PROVE  /\ CacheInv'
         /\ obj' \in [Objects -> Chunk] /\ cache' \in [Buckets -> Seq(CacheEntry)]
  <1> DEFINE b == Bucket(ino)
             x == [key |-> ino, data |-> o]
             n == Len(cache[b])
  <1>1. /\ b \in Buckets /\ cache[b] \in Seq(CacheEntry) /\ n \in Nat
        /\ cache \in [Buckets -> Seq(CacheEntry)] /\ obj \in [Objects -> Chunk]
    <2>1. b \in Buckets
      BY BucketIn
    <2>2. cache \in [Buckets -> Seq(CacheEntry)] /\ obj \in [Objects -> Chunk]
      BY DEF IInv, TypeInv
    <2> HIDE DEF b
    <2>3. cache[b] \in Seq(CacheEntry)
      BY <2>1, <2>2
    <2> QED
      BY <2>1, <2>2, <2>3
  <1>2. x \in CacheEntry
    BY DEF CacheEntry
  <1>3. New(ino) \in Chunk
    BY DEF New, Chunk
  <1>4. cache' = [cache EXCEPT ![b] = Append(@, x)]
    BY DEF Set
  <1>5. obj' \in [Objects -> Chunk] /\ cache' \in [Buckets -> Seq(CacheEntry)]
    BY <1>1, <1>2, <1>3, <1>4
  <1>6. /\ obj'[o].live /\ obj'[o].ino = ino
        /\ \A q \in Objects : q # o => obj'[q] = obj[q]
    BY <1>1 DEF New
  <1>7. \A c \in Buckets : c # b => cache'[c] = cache[c]
    BY <1>1, <1>4
  <1>8. /\ DOMAIN cache'[b] = 1 .. n + 1 /\ DOMAIN cache[b] = 1 .. n
        /\ cache'[b][n + 1] = x /\ \A i \in 1 .. n : cache'[b][i] = cache[b][i]
    <2>1. cache'[b] = Append(cache[b], x)
      BY <1>1, <1>4
    <2> QED
      BY <1>1, <1>2, <2>1
  <1>9. x.key = ino /\ x.data = o
    OBVIOUS
  <1>10. \A c \in Buckets : \A i \in DOMAIN cache[c] : cache[c][i].data \in Objects /\ cache[c][i].data # o
    <2>1. ASSUME NEW c \in Buckets, NEW i \in DOMAIN cache[c]
          PROVE  cache[c][i].data \in Objects /\ cache[c][i].data # o
      <3>1. cache[c][i] \in CacheEntry
        BY <1>1
      <3>2. obj[cache[c][i].data].live
        BY DEF IInv, CacheInv
      <3> QED
        BY <3>1, <3>2 DEF CacheEntry
    <2> QED
      BY <2>1
  <1>11. \A q \in Objects : obj[q].live => obj[q].ino # ino
    BY LiveCached
  <1> HIDE DEF b, x, n
  <1>12. ASSUME NEW c \in Buckets, NEW i \in DOMAIN cache'[c]
         PROVE  \/ i \in DOMAIN cache[c] /\ cache'[c][i] = cache[c][i]
                \/ c = b /\ i = n + 1 /\ cache'[c][i] = x
    <2>1. CASE c # b
      BY <1>7, <2>1
    <2>2. CASE c = b
      <3>1. i \in 1 .. n \/ i = n + 1
        BY <1>1, <1>8, <2>2
      <3> QED
        BY <1>8, <2>2, <3>1
    <2> QED
      BY <2>1, <2>2
  <1>13. ASSUME NEW c \in Buckets, NEW i \in DOMAIN cache'[c]
         PROVE  LET e == cache'[c][i] IN obj'[e.data].live /\ obj'[e.data].ino = e.key /\ Bucket(e.key) = c
    <2>1. CASE i \in DOMAIN cache[c] /\ cache'[c][i] = cache[c][i]
      <3>1. obj'[cache[c][i].data] = obj[cache[c][i].data]
        BY <1>6, <1>10, <2>1
      <3> QED
        BY <2>1, <3>1 DEF IInv, CacheInv
    <2>2. CASE c = b /\ i = n + 1 /\ cache'[c][i] = x
      BY <1>6, <1>9, <2>2 DEF b
    <2> QED
      BY <1>12, <2>1, <2>2
  <1>14. ASSUME NEW c \in Buckets, NEW i \in DOMAIN cache'[c], NEW j \in DOMAIN cache'[c],
                cache'[c][i].data = cache'[c][j].data
         PROVE  i = j
    <2>1. CASE i \in DOMAIN cache[c] /\ cache'[c][i] = cache[c][i]
      <3>1. j \in DOMAIN cache[c] /\ cache'[c][j] = cache[c][j]
        BY <1>9, <1>10, <1>12, <1>14, <2>1
      <3> QED
        BY <1>14, <2>1, <3>1 DEF IInv, CacheInv
    <2>2. CASE c = b /\ i = n + 1 /\ cache'[c][i] = x
      BY <1>9, <1>10, <1>12, <1>14, <2>2
    <2> QED
      BY <1>12, <2>1, <2>2
  <1>15. ASSUME NEW q \in Objects, obj'[q].live
         PROVE  \E i \in DOMAIN cache'[Bucket(obj'[q].ino)] : cache'[Bucket(obj'[q].ino)][i].data = q
    <2>1. CASE q = o
      <3>1. Bucket(obj'[q].ino) = b
        BY <1>6, <2>1 DEF b
      <3>2. n + 1 \in DOMAIN cache'[b] /\ cache'[b][n + 1].data = o
        BY <1>1, <1>8, <1>9
      <3> QED
        BY <2>1, <3>1, <3>2
    <2>2. CASE q # o
      <3> DEFINE c == Bucket(obj[q].ino)
      <3>1. obj'[q] = obj[q] /\ obj[q].live
        BY <1>6, <1>15, <2>2
      <3>2. PICK i \in DOMAIN cache[c] : cache[c][i].data = q
        BY <3>1 DEF IInv, CacheInv
      <3>3. i \in DOMAIN cache'[c] /\ cache'[c][i] = cache[c][i]
        <4>1. c \in Buckets
          BY <3>1, LiveCached, BucketIn
        <4>2. CASE c = b
          BY <1>1, <1>8, <3>2, <4>2
        <4> QED
          BY <1>7, <3>2, <4>1, <4>2
      <3> QED
        BY <3>1, <3>2, <3>3
    <2> QED
      BY <2>1, <2>2
  <1>16. ASSUME NEW q \in Objects, NEW r \in Objects, obj'[q].live, obj'[r].live, obj'[q].ino = obj'[r].ino
         PROVE  q = r
    BY <1>6, <1>11, <1>16 DEF IInv, CacheInv
  <1> QED
    BY <1>5, <1>13, <1>14, <1>15, <1>16 DEF CacheInv

\* An entry removed from a sequence, as HashMap::remove() shifts the others.
LEMMA RemovedAt ==
  ASSUME NEW S, NEW s \in Seq(S), NEW i \in DOMAIN s
  PROVE  LET r == SubSeq(s, 1, i - 1) \o SubSeq(s, i + 1, Len(s))
         IN  /\ r \in Seq(S) /\ Len(r) = Len(s) - 1
             /\ \A k \in 1 .. Len(s) - 1 : r[k] = IF k < i THEN s[k] ELSE s[k + 1]
  <1> DEFINE n == Len(s)
             a == SubSeq(s, 1, i - 1)
             b == SubSeq(s, i + 1, n)
             r == a \o b
  <1>1. n \in Nat /\ i \in 1 .. n
    OBVIOUS
  <1>2. a \in Seq(S) /\ Len(a) = i - 1 /\ \A k \in 1 .. i - 1 : a[k] = s[k]
    BY <1>1
  <1>3. b \in Seq(S) /\ Len(b) = n - i /\ \A k \in 1 .. n - i : b[k] = s[k + i]
    BY <1>1
  <1> HIDE DEF a, b
  <1>4. r \in Seq(S) /\ Len(r) = n - 1
    BY <1>1, <1>2, <1>3
  <1>5. \A k \in 1 .. n - 1 : r[k] = IF k <= i - 1 THEN a[k] ELSE b[k - (i - 1)]
    BY <1>1, <1>2, <1>3, SMTT(60)
  <1>6. ASSUME NEW k \in 1 .. n - 1 PROVE r[k] = IF k < i THEN s[k] ELSE s[k + 1]
    <2>1. CASE k < i
      BY <1>1, <1>2, <1>5, <2>1
    <2>2. CASE ~(k < i)
      <3>1. k - (i - 1) \in 1 .. n - i /\ (k - (i - 1)) + i = k + 1
        BY <1>1, <2>2
      <3>2. b[k - (i - 1)] = s[k + 1]
        BY <1>3, <3>1
      <3> QED
        <4>1. ~(k <= i - 1)
          BY <1>1, <2>2
        <4>2. r[k] = b[k - (i - 1)]
          BY <1>5, <4>1
        <4> QED
          BY <2>2, <3>2, <4>2
    <2> QED
      BY <2>1, <2>2
  <1> QED
    BY <1>4, <1>6 DEF a, b

\* The last close(): the node leaves the cache and is deleted.
LEMMA RemoveCache ==
  ASSUME IInv, NEW n \in Objects, obj[n].live,
         obj' = [obj EXCEPT ![n].refs = 0, ![n].live = FALSE], cache' = Remove(obj[n].ino),
         booted' = booted
  PROVE  /\ CacheInv'
         /\ obj' \in [Objects -> Chunk] /\ cache' \in [Buckets -> Seq(CacheEntry)]
  <1> DEFINE ino == obj[n].ino
             b == Bucket(ino)
             s == cache[b]
             len == Len(s)
  <1>1. /\ cache \in [Buckets -> Seq(CacheEntry)] /\ obj \in [Objects -> Chunk] /\ ino \in Inodes
        /\ Cached(ino)
    BY LiveCached DEF IInv, TypeInv
  <1>2. b \in Buckets
    BY <1>1, BucketIn
  <1>3. PICK i \in DOMAIN s : Hits(ino) = {i}
    BY <1>1, HitsOne
  <1>4. s \in Seq(CacheEntry) /\ len \in Nat /\ DOMAIN s = 1 .. len
    BY <1>1, <1>2
  <1>5. s[i].data = n
    <2>1. Get(ino) = n
      BY LiveCached
    <2>2. First({i}) = i
      BY <1>4, FirstOfOne
    <2> QED
      BY <1>3, <2>1, <2>2 DEF Get
  <1>6. PICK t \in Seq(CacheEntry) :
           /\ cache' = [cache EXCEPT ![b] = t] /\ Len(t) = len - 1
           /\ \A k \in 1 .. len - 1 : t[k] = IF k < i THEN s[k] ELSE s[k + 1]
    <2>1. First(Hits(ino)) = i
      BY <1>3, <1>4, FirstOfOne
    <2>2. CASE len = 1
      <3>1. cache' = [cache EXCEPT ![b] = <<>>]
        BY <1>1, <1>2, <2>2 DEF Remove
      <3>2. <<>> \in Seq(CacheEntry) /\ Len(<<>>) = len - 1 /\ 1 .. len - 1 = {}
        BY <2>2
      <3> QED
        BY <3>1, <3>2
    <2>3. CASE len # 1
      <3> DEFINE t == SubSeq(s, 1, i - 1) \o SubSeq(s, i + 1, len)
      <3>1. cache' = [cache EXCEPT ![b] = t]
        BY <1>1, <1>2, <2>1, <2>3 DEF Remove
      <3>2. /\ t \in Seq(CacheEntry) /\ Len(t) = len - 1
            /\ \A k \in 1 .. len - 1 : t[k] = IF k < i THEN s[k] ELSE s[k + 1]
        BY <1>4, RemovedAt
      <3> HIDE DEF t
      <3> QED
        BY <3>1, <3>2
    <2> QED
      BY <2>2, <2>3
  <1>7. obj' \in [Objects -> Chunk] /\ cache' \in [Buckets -> Seq(CacheEntry)]
    <2>1. [obj[n] EXCEPT !.refs = 0, !.live = FALSE] \in Chunk
      <3>1. obj[n] \in Chunk
        BY <1>1
      <3> QED
        BY <3>1 DEF Chunk
    <2>2. obj' = [obj EXCEPT ![n] = [obj[n] EXCEPT !.refs = 0, !.live = FALSE]]
      BY <1>1
    <2> QED
      BY <1>1, <1>2, <1>6, <2>1, <2>2
  <1>8. /\ ~obj'[n].live
        /\ \A q \in Objects : q # n => obj'[q] = obj[q]
    <2>1. obj[n] \in Chunk
      BY <1>1
    <2> QED
      BY <1>1, <2>1 DEF Chunk
  <1>9. /\ cache'[b] = t /\ \A c \in Buckets : c # b => cache'[c] = cache[c]
    BY <1>1, <1>2, <1>6
  <1>10. \A c \in Buckets : \A k \in DOMAIN cache[c] : cache[c][k].data \in Objects
    <2>1. ASSUME NEW c \in Buckets, NEW k \in DOMAIN cache[c] PROVE cache[c][k].data \in Objects
      <3>1. cache[c][k] \in CacheEntry
        BY <1>1
      <3> QED
        BY <3>1 DEF CacheEntry
    <2> QED
      BY <2>1
  <1>11. \A c \in Buckets : \A k \in DOMAIN cache[c] : cache[c][k].data = n => c = b /\ k = i
    <2>1. ASSUME NEW c \in Buckets, NEW k \in DOMAIN cache[c], cache[c][k].data = n PROVE c = b /\ k = i
      <3>1. c = b
        BY <2>1 DEF IInv, CacheInv
      <3> QED
        BY <1>2, <1>5, <2>1, <3>1 DEF IInv, CacheInv
    <2> QED
      BY <2>1
  <1> DEFINE from(k) == IF k < i THEN k ELSE k + 1
  <1>12. ASSUME NEW k \in DOMAIN t
         PROVE  from(k) \in DOMAIN s /\ from(k) # i /\ t[k] = s[from(k)] /\ k \in 1 .. len - 1
    <2>1. k \in 1 .. len - 1 /\ i \in 1 .. len
      BY <1>4, <1>6
    <2> QED
      BY <1>4, <1>6, <2>1
  <1>13. \A k \in DOMAIN s : k # i => \E j \in DOMAIN t : from(j) = k
    <2>1. ASSUME NEW k \in DOMAIN s, k # i PROVE \E j \in DOMAIN t : from(j) = k
      <3>1. DOMAIN t = 1 .. len - 1 /\ k \in 1 .. len /\ i \in 1 .. len
        BY <1>4, <1>6
      <3>2. CASE k < i
        BY <1>4, <3>1, <3>2
      <3>3. CASE k > i
        <4>1. k - 1 \in 1 .. len - 1 /\ from(k - 1) = k
          BY <1>4, <3>1, <3>3
        <4> QED
          BY <3>1, <4>1
      <3> QED
        BY <1>4, <2>1, <3>1, <3>2, <3>3
    <2> QED
      BY <2>1
  <1>14. \A j, k \in DOMAIN t : from(j) = from(k) => j = k
    BY <1>4, <1>6
  <1> HIDE DEF from, b, ino, len, s
  <1>15. \A k \in DOMAIN s : s[k].data = n => k = i
    BY <1>2, <1>11 DEF s
  <1>16. ASSUME NEW c \in Buckets, NEW k \in DOMAIN cache'[c]
         PROVE  \E j \in DOMAIN cache[c] :
                   cache'[c][k] = cache[c][j] /\ cache[c][j].data \in Objects /\ cache[c][j].data # n
    <2>1. CASE c = b
      <3>1. k \in DOMAIN t /\ cache'[c][k] = s[from(k)] /\ from(k) \in DOMAIN s /\ from(k) # i
        BY <1>9, <1>12, <2>1
      <3>2. s[from(k)].data \in Objects /\ s[from(k)].data # n
        BY <1>2, <1>10, <1>15, <3>1 DEF s
      <3> QED
        BY <2>1, <3>1, <3>2 DEF s
    <2>2. CASE c # b
      BY <1>9, <1>10, <1>11, <2>2
    <2> QED
      BY <2>1, <2>2
  <1>17. ASSUME NEW c \in Buckets, NEW k \in DOMAIN cache'[c]
         PROVE  LET e == cache'[c][k] IN obj'[e.data].live /\ obj'[e.data].ino = e.key /\ Bucket(e.key) = c
    <2>1. PICK j \in DOMAIN cache[c] :
             cache'[c][k] = cache[c][j] /\ cache[c][j].data \in Objects /\ cache[c][j].data # n
      BY <1>16
    <2>2. obj'[cache[c][j].data] = obj[cache[c][j].data]
      BY <1>8, <2>1
    <2> QED
      BY <2>1, <2>2 DEF IInv, CacheInv
  <1>18. ASSUME NEW c \in Buckets, NEW j \in DOMAIN cache'[c], NEW k \in DOMAIN cache'[c],
                cache'[c][j].data = cache'[c][k].data
         PROVE  j = k
    <2>1. CASE c = b
      <3>1. /\ j \in DOMAIN t /\ cache'[c][j] = s[from(j)] /\ from(j) \in DOMAIN s
            /\ k \in DOMAIN t /\ cache'[c][k] = s[from(k)] /\ from(k) \in DOMAIN s
        BY <1>9, <1>12, <2>1
      <3>2. from(j) = from(k)
        BY <1>2, <1>18, <3>1 DEF IInv, CacheInv, s
      <3> QED
        BY <1>14, <3>1, <3>2
    <2>2. CASE c # b
      BY <1>9, <1>18, <2>2 DEF IInv, CacheInv
    <2> QED
      BY <2>1, <2>2
  <1>19. ASSUME NEW q \in Objects, obj'[q].live
         PROVE  \E k \in DOMAIN cache'[Bucket(obj'[q].ino)] : cache'[Bucket(obj'[q].ino)][k].data = q
    <2> DEFINE c == Bucket(obj[q].ino)
    <2>1. q # n /\ obj'[q] = obj[q]
      BY <1>8, <1>19
    <2>2. obj[q].live
      BY <1>19, <2>1
    <2>3. c \in Buckets
      BY <2>2, LiveCached, BucketIn
    <2>4. PICK k \in DOMAIN cache[c] : cache[c][k].data = q
      BY <2>2 DEF IInv, CacheInv
    <2> HIDE DEF c
    <2>5. \E j \in DOMAIN cache'[c] : cache'[c][j].data = q
      <3>1. CASE c = b
        <4>1. k \in DOMAIN s /\ k # i /\ s[k].data = q
          BY <1>5, <2>1, <2>4, <3>1 DEF s
        <4>2. PICK j \in DOMAIN t : from(j) = k
          BY <1>13, <4>1
        <4>3. t[j] = s[k]
          BY <1>12, <4>2
        <4> QED
          BY <1>9, <3>1, <4>1, <4>2, <4>3
      <3>2. CASE c # b
        BY <1>9, <2>3, <2>4, <3>2
      <3> QED
        BY <3>1, <3>2
    <2> QED
      BY <2>1, <2>5 DEF c
  <1>20. ASSUME NEW q \in Objects, NEW r \in Objects, obj'[q].live, obj'[r].live, obj'[q].ino = obj'[r].ino
         PROVE  q = r
    <2>1. q # n /\ r # n
      BY <1>8, <1>20
    <2>2. obj'[q] = obj[q] /\ obj'[r] = obj[r]
      BY <1>8, <2>1
    <2>3. obj[q].live /\ obj[r].live /\ obj[q].ino = obj[r].ino
      BY <1>20, <2>2
    <2> QED
      BY <2>3 DEF IInv, CacheInv
  <1>21. ~booted' => \A q \in Objects : ~obj'[q].live
    BY DEF IInv, CacheInv
  <1> QED
    BY <1>7, <1>17, <1>18, <1>19, <1>20, <1>21 DEF CacheInv

-----------------------------------------------------------------------------
(* The invariant holds in every state.                                     *)

LEMMA Appended ==
  ASSUME NEW S, NEW s \in Seq(S), NEW e \in S
  PROVE  /\ Append(s, e) \in Seq(S) /\ Len(Append(s, e)) = Len(s) + 1
         /\ \A i \in 1 .. Len(s) : Append(s, e)[i] = s[i]
         /\ Append(s, e)[Len(s) + 1] = e
  OBVIOUS

\* A step of one process changes its call only.
LEMMA CallChanges ==
  ASSUME CallInv, NEW p \in Procs, NEW r \in CallSet, call' = [call EXCEPT ![p] = r],
         r.pc # "idle" => r.path \in Paths /\ r.mode \in Modes,
         r.pc = "find" => r.rest # <<>>
  PROVE  CallInv'
  BY DEF CallInv

LEMMA IdleCall == Idle \in CallSet /\ Idle.pc = "idle"
  <1>1. RootInode \in Inodes
    BY VfsAssumption
  <1>2. <<>> \in Seq(Names)
    OBVIOUS
  <1> QED
    BY <1>1, <1>2, NodesApart DEF Idle, CallSet

\* open() changes nothing but a count.
LEMMA OpenedCounts ==
  ASSUME IInv, NEW n, obj' = Opened(n)
  PROVE  /\ obj' \in [Objects -> Chunk]
         /\ \A o \in Objects : /\ obj'[o].live = obj[o].live /\ obj'[o].ino = obj[o].ino
                              /\ obj'[o].refs = IF o = n /\ obj[o].live THEN obj[o].refs + 1 ELSE obj[o].refs
  <1>1. obj \in [Objects -> Chunk]
    BY DEF IInv, TypeInv
  <1>2. CASE ~Live(n)
    BY <1>1, <1>2 DEF Opened, Live
  <1>3. CASE Live(n)
    <2>1. n \in Objects /\ obj[n] \in Chunk /\ obj[n].live
      BY <1>1, <1>3 DEF Live
    <2>2. obj' = [obj EXCEPT ![n] = [obj[n] EXCEPT !.refs = @ + 1]]
      BY <1>1, <1>3, <2>1 DEF Opened
    <2>3. [obj[n] EXCEPT !.refs = @ + 1] \in Chunk
      BY <2>1 DEF Chunk
    <2>4. obj' \in [Objects -> Chunk]
      BY <1>1, <2>2, <2>3
    <2> QED
      BY <1>1, <2>1, <2>2, <2>4 DEF Chunk
  <1> QED
    BY <1>2, <1>3

\* What a step of a call leaves to be shown.
LEMMA CallStep ==
  ASSUME IInv, booted, UNCHANGED <<mounts, booted, readonly>>,
         obj' \in [Objects -> Chunk], cache' \in [Buckets -> Seq(CacheEntry)],
         FdsInv', CallInv', failed' \in [Procs -> {"", "null", "wild", "refCount"}],
         CacheInv'
  PROVE  IInv'
  BY DEF IInv, TypeInv, MountsInv

LEMMA Booted ==
  ASSUME IInv, NEW p \in Procs, call[p].pc # "idle"
  PROVE  booted
  BY DEF IInv, TypeInv

LEMMA InitInv == Init => IInv
  <1> SUFFICES ASSUME Init PROVE IInv
    OBVIOUS
  <1>1. MountsInv /\ Len(mounts) = 2
    <2> DEFINE m1 == [path |-> <<"initrd">>, node |-> InitrdRoot]
               m2 == [path |-> <<"dev">>, node |-> DevFs]
    <2>1. m1 \in MountSet /\ m2 \in MountSet
      BY NodesApart DEF MountSet
    <2>2. mounts = <<m1, m2>>
      BY DEF Init
    <2>3. mounts \in Seq(MountSet) /\ Len(mounts) = 2
      BY <2>1, <2>2
    <2>4. mounts[1].path = <<"initrd">> /\ mounts[2].path = <<"dev">>
      BY <2>2
    <2> QED
      BY <2>3, <2>4 DEF MountsInv
  <1>2. obj \in [Objects -> Chunk]
    <2>1. RootInode \in Inodes
      BY VfsAssumption
    <2> QED
      BY <2>1 DEF Init, Chunk
  <1>3. \A o \in Objects : ~obj[o].live
    BY DEF Init
  <1>4. cache \in [Buckets -> Seq(CacheEntry)] /\ \A b \in Buckets : cache[b] = <<>>
    <2>1. <<>> \in Seq(CacheEntry)
      OBVIOUS
    <2>2. cache = [b \in Buckets |-> <<>>]
      BY DEF Init, Buckets
    <2> QED
      BY <2>1, <2>2
  <1>5. FdsInv
    <2>1. <<>> \in Seq(Descriptor) /\ DOMAIN <<>> = {}
      OBVIOUS
    <2>2. fds = [p \in Procs |-> <<>>]
      BY DEF Init
    <2>3. \A p \in Procs : fds[p] = <<>>
      BY <2>2
    <2> QED
      BY <2>1, <2>2, <2>3 DEF FdsInv
  <1>6. CallInv
    BY IdleCall DEF Init, CallInv
  <1>7. TypeInv
    BY <1>1, <1>2, <1>4, <1>5, <1>6, IdleCall DEF Init, TypeInv
  <1>8. CacheInv
    BY <1>3, <1>4 DEF CacheInv
  <1> QED
    BY <1>7, <1>8 DEF IInv

LEMMA MountInv == ASSUME IInv, Mount PROVE IInv'
  <1>1. /\ ~booted /\ booted' /\ booted' \in BOOLEAN
        /\ UNCHANGED <<fds, call, failed>>
    BY DEF Mount
  <1>2. /\ Len(mounts) = 2 /\ mounts \in Seq(MountSet)
        /\ mounts[1].path = <<"initrd">> /\ mounts[2].path = <<"dev">>
        /\ \A o \in Objects : ~obj[o].live
    BY <1>1 DEF IInv, TypeInv, MountsInv, CacheInv
  <1>3. ASSUME NEW node \in Node, mounts' = Append(mounts, [path |-> <<>>, node |-> node])
        PROVE  MountsInv'
    <2> DEFINE m == [path |-> <<>>, node |-> node]
    <2>1. m \in MountSet /\ m.path = <<>>
      BY DEF MountSet
    <2>2. mounts' = Append(mounts, m)
      BY <1>3
    <2> HIDE DEF m
    <2>3. mounts \in Seq(MountSet) /\ Len(mounts) = 2
      BY <1>2
    <2>0. /\ Append(mounts, m) \in Seq(MountSet) /\ Len(Append(mounts, m)) = Len(mounts) + 1
          /\ \A i \in 1 .. Len(mounts) : Append(mounts, m)[i] = mounts[i]
          /\ Append(mounts, m)[Len(mounts) + 1] = m
      <3>1. m \in MountSet /\ mounts \in Seq(MountSet)
        BY <2>1, <2>3
      <3> QED
        BY <3>1, Appended
    <2>4. /\ mounts' \in Seq(MountSet) /\ Len(mounts') = Len(mounts) + 1
          /\ \A i \in 1 .. Len(mounts) : mounts'[i] = mounts[i]
          /\ mounts'[Len(mounts) + 1] = m
      BY <2>0, <2>2
    <2>5. Len(mounts') = 3 /\ mounts'[3] = m /\ mounts'[1] = mounts[1] /\ mounts'[2] = mounts[2]
      BY <2>3, <2>4
    <2> QED
      BY <1>2, <2>1, <2>4, <2>5 DEF MountsInv
  <1>4. FdsInv' /\ CallInv' /\ failed' \in [Procs -> {"", "null", "wild", "refCount"}]
    BY <1>1 DEF IInv, TypeInv, FdsInv, CallInv
  <1>5. CASE UNCHANGED <<mounts, readonly, obj, cache>>
    <2>1. CacheInv'
      BY <1>1, <1>5, KeepCache, <1>2
    <2> QED
      BY <1>1, <1>4, <1>5, <2>1 DEF IInv, TypeInv, MountsInv
  <1>6. CASE mounts' = Append(mounts, [path |-> <<>>, node |-> NoNode]) /\ UNCHANGED <<readonly, obj, cache>>
    <2>1. CacheInv'
      BY <1>1, <1>6, KeepCache, <1>2
    <2>2. MountsInv'
      BY <1>3, <1>6, NodesApart
    <2> QED
      BY <1>1, <1>4, <1>6, <2>1, <2>2 DEF IInv, TypeInv
  <1>7. ASSUME NEW d \in Devices, NEW o \in Objects, readonly' = VolumeReadonly(d),
               obj' = [obj EXCEPT ![o] = New(RootInode)], cache' = Set(RootInode, o),
               mounts' = Append(mounts, [path |-> <<>>, node |-> o])
        PROVE  IInv'
    <2>1. RootInode \in Inodes
      BY VfsAssumption
    <2>2. ~Cached(RootInode)
      <3>1. ASSUME Cached(RootInode) PROVE FALSE
        BY <1>2, <2>1, <3>1, HitsOne
      <3> QED
        BY <3>1
    <2>3. CacheInv' /\ obj' \in [Objects -> Chunk] /\ cache' \in [Buckets -> Seq(CacheEntry)]
      BY <1>1, <1>2, <1>7, <2>1, <2>2, CreateCache
    <2>4. MountsInv'
      BY <1>3, <1>7, NodesApart
    <2>5. readonly' \in BOOLEAN
      BY <1>7 DEF VolumeReadonly
    <2> QED
      BY <1>1, <1>4, <2>3, <2>4, <2>5 DEF IInv, TypeInv
  <1> QED
    BY <1>5, <1>6, <1>7 DEF Mount

LEMMA SysOpenInv ==
  ASSUME IInv, NEW p \in Procs, NEW path \in Paths, NEW mode \in Modes, SysOpen(p, path, mode)
  PROVE  IInv'
  <1> DEFINE m == mounts[FindMountPoint(path)]
             top == IF m.node \in Objects THEN obj[m.node].ino ELSE RootInode
             r == [pc |-> "walk", cur |-> m.node, old |-> NoNode, path |-> path,
                   rest |-> SubSeq(path, Len(m.path) + 1, Len(path)), mode |-> mode, top |-> top]
  <1>1. booted /\ Matches(path) # {} /\ UNCHANGED <<mounts, booted, readonly, obj, cache, fds, failed>>
    BY DEF SysOpen
  <1>2. call' = [call EXCEPT ![p] = r]
    BY DEF SysOpen
  <1>3. m \in MountSet
    <2>1. FindMountPoint(path) \in DOMAIN mounts /\ mounts \in Seq(MountSet)
      BY <1>1, MountPointFound DEF IInv, TypeInv, MountsInv
    <2> QED
      BY <2>1
  <1>4. m.node \in Node /\ Len(m.path) \in Nat
    <2>1. m.path = <<>> \/ m.path = <<"initrd">> \/ m.path = <<"dev">>
      BY <1>3 DEF MountSet
    <2>2. m.node \in Node
      BY <1>3 DEF MountSet
    <2> QED
      BY <2>1, <2>2
  <1>5. top \in Inodes
    BY VfsAssumption DEF IInv, TypeInv, Chunk
  <1>6. SubSeq(path, Len(m.path) + 1, Len(path)) \in Seq(Names)
    <2>1. path \in Seq(Names)
      BY VfsAssumption
    <2> HIDE DEF m
    <2>2. Len(m.path) + 1 \in 1 .. Len(path) + 1 \/ Len(m.path) + 1 > Len(path)
      BY <1>4, <2>1
    <2> QED
      BY <1>4, <2>1, <2>2
  <1>7. r \in CallSet
    BY <1>4, <1>5, <1>6, NodesApart DEF CallSet
  <1>8. r.pc = "walk" /\ r.path = path /\ r.mode = mode
    OBVIOUS
  <1> HIDE DEF r
  <1>9. CallInv'
    BY <1>2, <1>7, <1>8, CallChanges DEF IInv, TypeInv
  <1>10. CacheInv'
    BY <1>1, KeepCache
  <1> QED
    BY <1>1, <1>9, <1>10, CallStep DEF IInv, TypeInv, FdsInv

LEMMA WalkInv == ASSUME IInv, NEW p \in Procs, Walk(p) PROVE IInv'
  <1>1. /\ call[p].pc = "walk" /\ call[p].rest # <<>>
        /\ UNCHANGED <<mounts, booted, readonly, cache, fds>>
    BY DEF Walk
  <1>2. booted /\ FdsInv' /\ cache' \in [Buckets -> Seq(CacheEntry)]
    BY <1>1, Booted DEF IInv, TypeInv, FdsInv
  <1>3. CASE Panic(p, "null") /\ UNCHANGED <<obj, call>>
    <2>1. CacheInv'
      BY <1>1, <1>2, <1>3, KeepCache
    <2>2. failed' \in [Procs -> {"", "null", "wild", "refCount"}]
      BY <1>3 DEF Panic, IInv, TypeInv
    <2> QED
      BY <1>1, <1>2, <1>3, <2>1, <2>2, CallStep DEF IInv, TypeInv, CallInv
  <1>4. CASE call' = [call EXCEPT ![p] = Idle] /\ UNCHANGED <<obj, failed>>
    <2>1. CacheInv'
      BY <1>1, <1>2, <1>4, KeepCache
    <2>2. CallInv'
      BY <1>4, IdleCall, CallChanges DEF IInv, TypeInv
    <2> QED
      BY <1>1, <1>2, <1>4, <2>1, <2>2, CallStep DEF IInv, TypeInv
  <1>5. CASE /\ obj' = Opened(call[p].cur) /\ call' = [call EXCEPT ![p].pc = "find"]
             /\ UNCHANGED failed
    <2>1. /\ obj' \in [Objects -> Chunk]
          /\ \A o \in Objects : obj'[o].live = obj[o].live /\ obj'[o].ino = obj[o].ino
      BY <1>5, OpenedCounts
    <2>2. CacheInv'
      BY <1>1, <1>2, <2>1, KeepCache
    <2>3. CallInv'
      <3> DEFINE r == [call[p] EXCEPT !.pc = "find"]
      <3>1. call[p] \in CallSet /\ call[p].path \in Paths /\ call[p].mode \in Modes
        BY <1>1 DEF IInv, TypeInv, CallInv
      <3>2. r \in CallSet /\ r.path = call[p].path /\ r.mode = call[p].mode /\ r.rest = call[p].rest
        BY <3>1 DEF CallSet
      <3>3. call' = [call EXCEPT ![p] = r]
        BY <1>5
      <3> HIDE DEF r
      <3> QED
        BY <1>1, <3>1, <3>2, <3>3, CallChanges DEF IInv, TypeInv
    <2> QED
      BY <1>1, <1>2, <1>5, <2>1, <2>2, <2>3, CallStep DEF IInv, TypeInv
  <1> QED
    BY <1>3, <1>4, <1>5 DEF Walk

\* The call goes on with the node found.
LEMMA FoundCall ==
  ASSUME CallInv, NEW p \in Procs, call[p].pc = "find", NEW n \in Node, Found(p, n)
  PROVE  CallInv'
  <1> DEFINE r == [call[p] EXCEPT !.pc = "close", !.old = call[p].cur, !.cur = n, !.rest = Tail(@)]
  <1>1. call[p] \in CallSet /\ call[p].path \in Paths /\ call[p].mode \in Modes /\ call[p].rest # <<>>
    BY DEF CallInv
  <1>2. call[p].cur \in Node /\ call[p].rest \in Seq(Names)
    BY <1>1 DEF CallSet
  <1>3. Tail(call[p].rest) \in Seq(Names)
    BY <1>1, <1>2
  <1>4. r \in CallSet /\ r.pc = "close" /\ r.path = call[p].path /\ r.mode = call[p].mode
    BY <1>1, <1>2, <1>3 DEF CallSet
  <1>5. call' = [call EXCEPT ![p] = r]
    BY DEF Found
  <1> HIDE DEF r
  <1> QED
    BY <1>1, <1>4, <1>5, CallChanges

LEMMA FindInv == ASSUME IInv, NEW p \in Procs, Find(p) PROVE IInv'
  <1> DEFINE n == call[p].cur
             name == Head(call[p].rest)
  <1>1. call[p].pc = "find" /\ UNCHANGED <<mounts, booted, readonly, fds, failed>>
    BY DEF Find
  <1>2. booted /\ FdsInv' /\ failed' \in [Procs -> {"", "null", "wild", "refCount"}] /\ CallInv
    BY <1>1, Booted DEF IInv, TypeInv, FdsInv
  <1>3. ASSUME UNCHANGED <<obj, cache>>, CallInv' PROVE IInv'
    <2>1. CacheInv'
      BY <1>1, <1>2, <1>3, KeepCache
    <2> QED
      BY <1>1, <1>2, <1>3, <2>1, CallStep DEF IInv, TypeInv
  <1>4. CASE FindInExt2(p, n, name)
    <2>1. /\ n \in Objects /\ obj[n].live /\ obj[n].ino \in DOMAIN Blocks
          /\ HasEntry(obj[n].ino, name)
      BY <1>4, NodesApart DEF FindInExt2, Live, IsDirectory
    <2> DEFINE ino == Entry(obj[n].ino, name)
    <2>2. ino \in Inodes
      BY <2>1, EntryType
    <2>3. CASE Cached(ino) /\ Found(p, Get(ino)) /\ UNCHANGED <<obj, cache>>
      <3>1. Get(ino) \in Node
        BY <2>2, <2>3, HitsOne, NodesApart
      <3>2. CallInv'
        BY <1>1, <1>2, <2>3, <3>1, FoundCall
      <3> QED
        BY <1>3, <2>3, <3>2
    <2>4. ASSUME ~Cached(ino), NEW o \in Objects, ~obj[o].live, obj' = [obj EXCEPT ![o] = New(ino)],
                 cache' = Set(ino, o), Found(p, o)
          PROVE  IInv'
      <3>1. CacheInv' /\ obj' \in [Objects -> Chunk] /\ cache' \in [Buckets -> Seq(CacheEntry)]
        BY <1>1, <1>2, <2>2, <2>4, CreateCache
      <3>2. CallInv'
        BY <1>1, <1>2, <2>4, FoundCall, NodesApart
      <3> QED
        BY <1>1, <1>2, <3>1, <3>2, CallStep
    <2> QED
      BY <1>4, <2>3, <2>4 DEF FindInExt2
  <1>5. CASE FindInInitrd(p, n, name)
    <2>1. name \in Node /\ Found(p, name) /\ UNCHANGED <<obj, cache>>
      BY <1>5, NodesApart DEF FindInInitrd
    <2>2. CallInv'
      BY <1>1, <1>2, <2>1, FoundCall
    <2> QED
      BY <1>3, <2>1, <2>2
  <1>6. CASE call' = [call EXCEPT ![p] = Idle] /\ UNCHANGED <<obj, cache>>
    <2>1. CallInv'
      BY <1>2, <1>6, IdleCall, CallChanges
    <2> QED
      BY <1>3, <1>6, <2>1
  <1> QED
    BY <1>4, <1>5, <1>6 DEF Find

LEMMA CloseInv == ASSUME IInv, NEW p \in Procs, Close(p) PROVE IInv'
  <1> DEFINE n == call[p].old
  <1>1. /\ call[p].pc = "close" /\ call' = [call EXCEPT ![p].pc = "walk", ![p].old = NoNode]
        /\ UNCHANGED <<mounts, booted, readonly, fds>>
    BY DEF Close
  <1>2. booted /\ FdsInv'
    BY <1>1, Booted DEF IInv, TypeInv, FdsInv
  <1>3. CallInv'
    <2> DEFINE r == [call[p] EXCEPT !.pc = "walk", !.old = NoNode]
    <2>1. call[p] \in CallSet /\ call[p].path \in Paths /\ call[p].mode \in Modes
      BY <1>1 DEF IInv, TypeInv, CallInv
    <2>2. r \in CallSet /\ r.pc = "walk" /\ r.path = call[p].path /\ r.mode = call[p].mode
      BY <2>1, NodesApart DEF CallSet
    <2>3. call' = [call EXCEPT ![p] = r]
      BY <1>1
    <2> HIDE DEF r
    <2> QED
      BY <2>1, <2>2, <2>3, CallChanges DEF IInv, TypeInv
  <1>4. ASSUME UNCHANGED <<obj, cache>>,
               failed' \in [Procs -> {"", "null", "wild", "refCount"}]
        PROVE  IInv'
    <2>1. CacheInv'
      BY <1>1, <1>2, <1>4, KeepCache
    <2> QED
      BY <1>1, <1>2, <1>3, <1>4, <2>1, CallStep DEF IInv, TypeInv
  <1>5. failed \in [Procs -> {"", "null", "wild", "refCount"}] /\ obj \in [Objects -> Chunk]
    BY DEF IInv, TypeInv
  <1>6. CASE ~Live(n) /\ UNCHANGED <<obj, cache, failed>>
    BY <1>4, <1>5, <1>6
  <1>7. CASE Live(n) /\ CloseExt2(p, n)
    <2>1. n \in Objects /\ obj[n].live /\ ~RemoveAsserts(obj[n].ino)
      BY <1>7, LiveCached DEF Live
    <2>2. obj[n] \in Chunk /\ obj[n].refs \in Nat
      BY <1>5, <2>1 DEF Chunk
    <2>3. CASE Panic(p, "refCount") /\ UNCHANGED <<obj, cache>>
      BY <1>4, <1>5, <2>3 DEF Panic
    <2>4. CASE obj[n].refs > 1 /\ obj' = [obj EXCEPT ![n].refs = @ - 1] /\ UNCHANGED <<cache, failed>>
      <3>1. obj' = [obj EXCEPT ![n] = [obj[n] EXCEPT !.refs = @ - 1]]
        BY <2>4
      <3>2. [obj[n] EXCEPT !.refs = @ - 1] \in Chunk
        BY <2>2, <2>4 DEF Chunk
      <3>3. obj' \in [Objects -> Chunk]
        BY <1>5, <2>1, <3>1, <3>2
      <3>4. \A o \in Objects : obj'[o].live = obj[o].live /\ obj'[o].ino = obj[o].ino
        BY <1>5, <2>1, <2>2, <3>1 DEF Chunk
      <3>5. CacheInv'
        BY <1>1, <1>2, <2>4, <3>4, KeepCache
      <3> QED
        BY <1>1, <1>2, <1>3, <1>5, <2>4, <3>3, <3>5, CallStep DEF IInv, TypeInv
    <2>5. CASE /\ cache' = Remove(obj[n].ino) /\ obj' = [obj EXCEPT ![n].refs = 0, ![n].live = FALSE]
               /\ UNCHANGED failed
      <3>1. CacheInv' /\ obj' \in [Objects -> Chunk] /\ cache' \in [Buckets -> Seq(CacheEntry)]
        BY <1>1, <2>1, <2>5, RemoveCache
      <3> QED
        BY <1>1, <1>2, <1>3, <1>5, <2>5, <3>1, CallStep
    <2> QED
      BY <1>7, <2>1, <2>3, <2>4, <2>5 DEF CloseExt2
  <1> QED
    BY <1>6, <1>7 DEF Close

\* allocateFdEntry(): a descriptor at the end of the table.
LEMMA NewSlot ==
  ASSUME FdsInv, CallInv, NEW p \in Procs, call[p].pc = "walk", call[p].cur # NoNode,
         fds' = [fds EXCEPT ![p] =
             [i \in 1 .. Len(@) \cup {Slot(p)} |-> IF i = Slot(p) THEN Fd(p) ELSE @[i]]]
  PROVE  /\ FdsInv'
         /\ DOMAIN fds'[p] = 1 .. Len(fds[p]) + 1
         /\ \A i \in DOMAIN fds[p] : fds'[p][i] = fds[p][i]
         /\ fds'[p][Len(fds[p]) + 1] = Fd(p)
         /\ \A q \in Procs : q # p => fds'[q] = fds[q]
  <1> DEFINE n == Len(fds[p])
             s == [i \in 1 .. n + 1 |-> IF i = n + 1 THEN Fd(p) ELSE fds[p][i]]
  <1>1. /\ fds \in [Procs -> Seq(Descriptor)] /\ fds[p] \in Seq(Descriptor)
        /\ n \in Nat /\ DOMAIN fds[p] = 1 .. n
    BY DEF FdsInv
  <1>2. Slot(p) = n + 1
    <2>1. FreeSlots(p) = {}
      BY DEF FreeSlots, FdsInv
    <2> QED
      BY <2>1 DEF Slot
  <1>3. 1 .. n \cup {n + 1} = 1 .. n + 1
    BY <1>1
  <1>4. fds' = [fds EXCEPT ![p] = s]
    BY <1>1, <1>2, <1>3
  <1>5. Fd(p) \in Descriptor /\ Fd(p).node # NoNode
    <2>1. call[p] \in CallSet /\ call[p].path \in Paths /\ call[p].mode \in Modes
      BY DEF CallInv
    <2> QED
      BY <2>1 DEF Fd, Descriptor, CallSet
  <1>6. s \in Seq(Descriptor)
    <2>1. n + 1 \in Nat
      BY <1>1
    <2>2. \A i \in 1 .. n + 1 : s[i] \in Descriptor
      BY <1>1, <1>5
    <2>3. s \in [1 .. n + 1 -> Descriptor]
      BY <2>2
    <2> HIDE DEF s
    <2> QED
      BY <2>1, <2>3
  <1>7. /\ DOMAIN s = 1 .. n + 1 /\ s[n + 1] = Fd(p) /\ \A i \in 1 .. n : s[i] = fds[p][i]
    BY <1>1
  <1> HIDE DEF s
  <1>8. fds'[p] = s /\ \A q \in Procs : q # p => fds'[q] = fds[q]
    BY <1>1, <1>4
  <1>9. fds' \in [Procs -> Seq(Descriptor)]
    BY <1>1, <1>4, <1>6
  <1>10. ASSUME NEW q \in Procs, NEW i \in DOMAIN fds'[q] PROVE fds'[q][i].node # NoNode
    <2>1. CASE q = p
      <3>1. i \in 1 .. n \/ i = n + 1
        BY <1>1, <1>7, <1>8, <2>1
      <3> QED
        BY <1>1, <1>5, <1>7, <1>8, <2>1, <3>1 DEF FdsInv
    <2>2. CASE q # p
      BY <1>8, <2>2 DEF FdsInv
    <2> QED
      BY <2>1, <2>2
  <1> QED
    BY <1>1, <1>7, <1>8, <1>9, <1>10 DEF FdsInv

LEMMA OpenFoundInv == ASSUME IInv, NEW p \in Procs, OpenFound(p) PROVE IInv'
  <1> DEFINE n == call[p].cur
  <1>1. /\ call[p].pc = "walk" /\ UNCHANGED <<mounts, booted, readonly, cache>>
    BY DEF OpenFound
  <1>2. booted /\ cache' \in [Buckets -> Seq(CacheEntry)]
    BY <1>1, Booted DEF IInv, TypeInv
  <1>3. CallInv /\ FdsInv /\ failed \in [Procs -> {"", "null", "wild", "refCount"}]
    BY DEF IInv, TypeInv
  <1>4. CASE Panic(p, "null") /\ UNCHANGED <<obj, fds, call>>
    <2>1. CacheInv'
      BY <1>1, <1>2, <1>4, KeepCache
    <2>2. failed' \in [Procs -> {"", "null", "wild", "refCount"}]
      BY <1>3, <1>4 DEF Panic
    <2> QED
      BY <1>1, <1>2, <1>3, <1>4, <2>1, <2>2, CallStep DEF IInv, TypeInv, CallInv, FdsInv
  <1>5. CASE call' = [call EXCEPT ![p] = Idle] /\ UNCHANGED <<obj, fds, failed>>
    <2>1. CacheInv'
      BY <1>1, <1>2, <1>5, KeepCache
    <2>2. CallInv'
      BY <1>3, <1>5, IdleCall, CallChanges
    <2> QED
      BY <1>1, <1>2, <1>3, <1>5, <2>1, <2>2, CallStep DEF IInv, TypeInv, FdsInv
  <1>6. CASE /\ n # NoNode /\ obj' = Opened(n) /\ call' = [call EXCEPT ![p] = Idle] /\ UNCHANGED failed
             /\ fds' = [fds EXCEPT ![p] =
                    [i \in 1 .. Len(@) \cup {Slot(p)} |-> IF i = Slot(p) THEN Fd(p) ELSE @[i]]]
    <2>1. /\ obj' \in [Objects -> Chunk]
          /\ \A o \in Objects : obj'[o].live = obj[o].live /\ obj'[o].ino = obj[o].ino
      BY <1>6, OpenedCounts
    <2>2. CacheInv'
      BY <1>1, <1>2, <2>1, KeepCache
    <2>3. CallInv'
      BY <1>3, <1>6, IdleCall, CallChanges
    <2>4. FdsInv'
      BY <1>1, <1>3, <1>6, NewSlot
    <2> QED
      BY <1>1, <1>2, <1>3, <1>6, <2>1, <2>2, <2>3, <2>4, CallStep
  <1> QED
    BY <1>4, <1>5, <1>6 DEF OpenFound

LEMMA UseReusedInv == ASSUME IInv, NEW p \in Procs, UseReused(p) PROVE IInv'
  <1>1. UNCHANGED <<mounts, booted, readonly, obj, cache, fds, call>>
    BY DEF UseReused
  <1>2. call[p].pc # "idle"
    BY DEF UseReused
  <1>3. failed' \in [Procs -> {"", "null", "wild", "refCount"}]
    BY DEF UseReused, Panic, IInv, TypeInv
  <1>4. booted
    BY <1>2, Booted
  <1>5. CacheInv'
    BY <1>1, <1>4, KeepCache
  <1> QED
    BY <1>1, <1>3, <1>4, <1>5, CallStep DEF IInv, TypeInv, FdsInv, CallInv

LEMMA StutterInv == ASSUME IInv, UNCHANGED vars PROVE IInv'
  <1>1. CacheInv'
    BY DEF IInv, CacheInv, vars
  <1>2. TypeInv'
    BY DEF IInv, TypeInv, MountsInv, FdsInv, CallInv, vars
  <1> QED
    BY <1>1, <1>2 DEF IInv

\* Whatever the processes do, and however their calls interleave.
THEOREM Invariance == Spec => []IInv
  <1>1. ASSUME IInv, [Next]_vars PROVE IInv'
    <2>1. CASE Mount
      BY <1>1, <2>1, MountInv
    <2>2. ASSUME NEW p \in Procs, \E path \in Paths, mode \in Modes : SysOpen(p, path, mode) PROVE IInv'
      BY <1>1, <2>2, SysOpenInv
    <2>3. ASSUME NEW p \in Procs, \/ Walk(p) \/ Find(p) \/ Close(p) \/ OpenFound(p) \/ UseReused(p) PROVE IInv'
      BY <1>1, <2>3, WalkInv, FindInv, CloseInv, OpenFoundInv, UseReusedInv
    <2>4. CASE UNCHANGED vars
      BY <1>1, <2>4, StutterInv
    <2> QED
      BY <1>1, <2>1, <2>2, <2>3, <2>4 DEF Next
  <1> QED
    BY <1>1, InitInv, PTL DEF Spec

LEMMA OneEntry ==
  ASSUME IInv, NEW o \in Objects, obj[o].live
  PROVE  Cardinality({e \in UNION {{<<b, i>> : i \in DOMAIN cache[b]} : b \in DOMAIN cache} :
                         cache[e[1]][e[2]].data = o}) = 1
  <1> DEFINE S == {e \in UNION {{<<b, i>> : i \in DOMAIN cache[b]} : b \in DOMAIN cache} :
                         cache[e[1]][e[2]].data = o}
             B == Bucket(obj[o].ino)
  <1>1. B \in Buckets /\ DOMAIN cache = Buckets
    <2>1. obj[o].ino \in Inodes
      BY LiveCached
    <2> QED
      BY <2>1, BucketIn DEF IInv, TypeInv
  <1>2. PICK k \in DOMAIN cache[B] : cache[B][k].data = o
    BY DEF IInv, CacheInv
  <1>3. ASSUME NEW b \in Buckets, NEW i \in DOMAIN cache[b], cache[b][i].data = o
        PROVE  b = B /\ i = k
    <2>1. b = B
      BY <1>3 DEF IInv, CacheInv
    <2> QED
      BY <1>1, <1>2, <1>3, <2>1 DEF IInv, CacheInv
  <1> HIDE DEF B
  <1>4. <<B, k>> \in S
    BY <1>1, <1>2
  <1>5. ASSUME NEW e \in S PROVE e = <<B, k>>
    <2>1. PICK b \in Buckets : \E i \in DOMAIN cache[b] : e = <<b, i>>
      BY <1>1
    <2>2. PICK i \in DOMAIN cache[b] : e = <<b, i>>
      BY <2>1
    <2>3. e[1] = b /\ e[2] = i /\ cache[b][i].data = o
      BY <2>2
    <2> QED
      BY <1>3, <2>2, <2>3
  <1>6. S = {<<B, k>>}
    BY <1>4, <1>5
  <1> QED
    BY <1>6, FS_Singleton

LEMMA TypesHold == IInv => TypeOK
  <1> SUFFICES ASSUME IInv PROVE TypeOK
    OBVIOUS
  <1>1. \A m \in DOMAIN mounts : mounts[m].node \in Node
    <2>1. ASSUME NEW m \in DOMAIN mounts PROVE mounts[m].node \in Node
      <3>1. mounts \in Seq(MountSet)
        BY DEF IInv, TypeInv, MountsInv
      <3>2. mounts[m] \in MountSet
        BY <3>1
      <3> QED
        BY <3>2 DEF MountSet
    <2> QED
      BY <2>1
  <1>2. \A b \in DOMAIN cache : \A i \in DOMAIN cache[b] :
            cache[b][i].key \in Inodes /\ cache[b][i].data \in Objects
    <2>1. ASSUME NEW b \in DOMAIN cache, NEW i \in DOMAIN cache[b]
          PROVE  cache[b][i].key \in Inodes /\ cache[b][i].data \in Objects
      <3>1. cache[b] \in Seq(CacheEntry)
        BY DEF IInv, TypeInv
      <3>2. cache[b][i] \in CacheEntry
        BY <3>1
      <3> QED
        BY <3>2 DEF CacheEntry
    <2> QED
      BY <2>1
  <1>3. ASSUME NEW p \in Procs
        PROVE  /\ DOMAIN fds[p] = 1 .. Cardinality(DOMAIN fds[p])
               /\ \A i \in DOMAIN fds[p] : fds[p][i] \in Descriptor
    <2>1. fds[p] \in Seq(Descriptor)
      BY DEF IInv, TypeInv, FdsInv
    <2>2. DOMAIN fds[p] = 1 .. Len(fds[p]) /\ Len(fds[p]) \in Nat
      BY <2>1
    <2>3. Cardinality(1 .. Len(fds[p])) = Len(fds[p])
      <3>1. Cardinality(1 .. Len(fds[p])) = IF 1 > Len(fds[p]) THEN 0 ELSE Len(fds[p]) - 1 + 1
        BY <2>2, FS_Interval
      <3> QED
        BY <2>2, <3>1
    <2>4. \A i \in DOMAIN fds[p] : fds[p][i] \in Descriptor
      BY <2>1
    <2> QED
      BY <2>2, <2>3, <2>4
  <1>4. ASSUME NEW p \in Procs
        PROVE  /\ call[p].pc \in {"idle", "walk", "find", "close"}
               /\ call[p].cur \in Node /\ call[p].old \in Node
    <2>1. call[p] \in CallSet
      BY DEF IInv, TypeInv, CallInv
    <2> QED
      BY <2>1 DEF CallSet
  <1> QED
    BY <1>1, <1>2, <1>3, <1>4 DEF TypeOK, IInv, TypeInv, Chunk

\* The cache holds exactly the nodes that are alive, whatever number of
\* processes walk, open and close, and even though a walk may use a pointer to
\* a deleted node: such a pointer never reaches the cache.
THEOREM CacheSafety == Spec => []CacheIsLive
  <1>1. IInv => CacheIsLive
    <2> SUFFICES ASSUME IInv PROVE CacheIsLive
      OBVIOUS
    <2>1. DOMAIN cache = Buckets
      BY DEF IInv, TypeInv
    <2>2. TypeOK
      BY TypesHold
    <2> QED
      BY <2>1, <2>2, OneEntry DEF CacheIsLive, IInv, CacheInv
  <1> QED
    BY <1>1, Invariance, PTL

\* HashMap::remove() finds what it is asked for, for any number of processes.
THEOREM RemoveSafety == Spec => [](\A p \in Procs : failed[p] # "remove")
  <1>1. IInv => \A p \in Procs : failed[p] # "remove"
    BY DEF IInv, TypeInv
  <1> QED
    BY <1>1, Invariance, PTL

-----------------------------------------------------------------------------
(* The reference counts, for one process.  With two, a walk may hold a      *)
(* pointer to the deleted root while the other one builds a node in its     *)
(* chunk, and closes what it never opened.                                  *)

\* Process p has node o open in the middle of a walk.
Carries(p, o) == \/ call[p].pc = "find" /\ call[p].cur = o
                 \/ call[p].pc = "close" /\ call[p].old = o

CountInv ==
    /\ \A o \in Objects : IsFiniteSet(Opens(o))
    /\ RefsCover
    /\ FdLive
    /\ \A p \in Procs : call[p].pc = "close" /\ call[p].old \in Objects => obj[call[p].old].live

LEMMA PartOfOne ==
  ASSUME NEW p, NEW S, S \subseteq {p}
  PROVE  Cardinality(S) = IF p \in S THEN 1 ELSE 0
  <1>1. CASE p \in S
    <2>1. S = {p}
      BY <1>1
    <2> QED
      BY <1>1, <2>1, FS_Singleton
  <1>2. CASE p \notin S
    <2>1. S = {}
      BY <1>2
    <2> QED
      BY <1>2, <2>1, FS_EmptySet
  <1> QED
    BY <1>1, <1>2

LEMMA WalkersOne ==
  ASSUME NEW p, Procs = {p}, NEW o
  PROVE  /\ Cardinality(Walkers(o)) = IF Carries(p, o) THEN 1 ELSE 0
         /\ Cardinality(Walkers(o)') = IF Carries(p, o)' THEN 1 ELSE 0
  <1>1. Walkers(o) \subseteq {p} /\ (p \in Walkers(o) <=> Carries(p, o))
    BY DEF Walkers, Carries
  <1>2. Walkers(o)' \subseteq {p} /\ (p \in Walkers(o)' <=> Carries(p, o)')
    BY DEF Walkers, Carries
  <1>3. Cardinality(Walkers(o)) = IF p \in Walkers(o) THEN 1 ELSE 0
    BY <1>1, PartOfOne
  <1>4. Cardinality(Walkers(o)') = IF p \in Walkers(o)' THEN 1 ELSE 0
    BY <1>2, PartOfOne
  <1> QED
    BY <1>1, <1>2, <1>3, <1>4

\* A step that leaves the descriptors alone.  Nothing is opened or closed but
\* by the walk, a node is deleted when no descriptor has it, and a new one
\* starts with a count of its own.
Counts(p, o) ==
    /\ obj'[o].live => \/ /\ obj[o].live
                          /\ obj'[o].refs + (IF Carries(p, o) THEN 1 ELSE 0)
                                >= obj[o].refs + (IF Carries(p, o)' THEN 1 ELSE 0)
                       \/ ~obj[o].live /\ ~Carries(p, o)'
    /\ obj[o].live /\ ~obj'[o].live => Carries(p, o) /\ obj[o].refs = 1

LEMMA CountStep ==
  ASSUME NEW p, Procs = {p}, IInv, IInv', CountInv, fds' = fds,
         \A o \in Objects : Counts(p, o),
         call'[p].pc = "close" /\ call'[p].old \in Objects => obj'[call'[p].old].live
  PROVE  CountInv'
  <1>1. \A o \in Objects : Opens(o)' = Opens(o) /\ IsFiniteSet(Opens(o))
    BY DEF Opens, CountInv
  <1>2. \A o \in Objects : /\ obj[o].refs \in Nat /\ obj'[o].refs \in Nat
                          /\ Cardinality(Opens(o)) \in Nat
    <2>1. ASSUME NEW o \in Objects PROVE Cardinality(Opens(o)) \in Nat
      BY <1>1, FS_CardinalityType
    <2>2. obj \in [Objects -> Chunk] /\ obj' \in [Objects -> Chunk]
      BY DEF IInv, TypeInv
    <2>3. ASSUME NEW o \in Objects PROVE obj[o].refs \in Nat /\ obj'[o].refs \in Nat
      <3>1. obj[o] \in Chunk /\ obj'[o] \in Chunk
        BY <2>2
      <3> QED
        BY <3>1 DEF Chunk
    <2> QED
      BY <2>1, <2>3
  <1>3. \A o \in Objects : obj[o].live =>
            obj[o].refs >= Cardinality(Opens(o)) + (IF Carries(p, o) THEN 1 ELSE 0)
    BY WalkersOne DEF CountInv, RefsCover
  <1>4. ASSUME NEW o \in Objects, ~obj[o].live PROVE Opens(o) = {}
    <2>1. \A i \in DOMAIN fds[p] : fds[p][i].node # o
      BY <1>4 DEF CountInv, FdLive, Freed
    <2> QED
      BY <2>1 DEF Opens
  <1>5. ASSUME NEW o \in Objects, obj'[o].live
        PROVE  obj'[o].refs >= Cardinality(Opens(o)') + Cardinality(Walkers(o)')
    <2>1. Cardinality(Walkers(o)') = IF Carries(p, o)' THEN 1 ELSE 0
      BY WalkersOne
    <2>2. CASE obj[o].live /\ obj'[o].refs + (IF Carries(p, o) THEN 1 ELSE 0)
                                >= obj[o].refs + (IF Carries(p, o)' THEN 1 ELSE 0)
      BY <1>1, <1>2, <1>3, <2>1, <2>2
    <2>3. CASE ~obj[o].live /\ ~Carries(p, o)'
      <3>1. Cardinality(Opens(o)') = 0
        BY <1>1, <1>4, <2>3, FS_EmptySet
      <3> QED
        BY <1>2, <2>1, <2>3, <3>1
    <2> QED
      BY <1>5, <2>2, <2>3 DEF Counts
  <1>6. ASSUME NEW i \in DOMAIN fds'[p], fds'[p][i].node \in Objects PROVE obj'[fds'[p][i].node].live
    <2> DEFINE o == fds[p][i].node
    <2>1. i \in DOMAIN fds[p] /\ o \in Objects /\ <<p, i>> \in Opens(o)
      BY <1>6 DEF Opens
    <2>2. obj[o].live
      BY <2>1 DEF CountInv, FdLive, Freed
    <2>3. Cardinality(Opens(o)) # 0
      BY <1>1, <2>1, FS_EmptySet
    <2>4. CASE ~obj'[o].live
      <3>1. Carries(p, o) /\ obj[o].refs = 1
        BY <2>1, <2>2, <2>4 DEF Counts
      <3>2. 1 >= Cardinality(Opens(o)) + 1 /\ Cardinality(Opens(o)) \in Nat
        BY <1>2, <1>3, <2>1, <2>2, <3>1
      <3> QED
        BY <2>3, <3>2
    <2> QED
      BY <2>4
  <1>7. FdLive'
    BY <1>6 DEF FdLive, Freed
  <1>8. RefsCover'
    BY <1>5 DEF RefsCover
  <1> QED
    BY <1>1, <1>7, <1>8 DEF CountInv

LEMMA RefsType == ASSUME IInv PROVE \A o \in Objects : obj[o].refs \in Nat
  <1>1. obj \in [Objects -> Chunk]
    BY DEF IInv, TypeInv
  <1>2. ASSUME NEW o \in Objects PROVE obj[o].refs \in Nat
    <2>1. obj[o] \in Chunk
      BY <1>1
    <2> QED
      BY <2>1 DEF Chunk
  <1> QED
    BY <1>2

\* The same for a step that leaves the nodes alone, and closes nothing.
LEMMA CountKept ==
  ASSUME NEW p, Procs = {p}, IInv, IInv', CountInv, fds' = fds, obj' = obj,
         \A o \in Objects : Carries(p, o)' => Carries(p, o),
         call'[p].pc = "close" /\ call'[p].old \in Objects => obj[call'[p].old].live
  PROVE  CountInv'
  <1>1. \A o \in Objects : obj[o].refs \in Nat
    BY RefsType
  <1>2. ASSUME NEW o \in Objects PROVE Counts(p, o)
    <2>1. obj'[o].refs = obj[o].refs /\ obj[o].refs \in Nat /\ obj'[o].live = obj[o].live
      BY <1>1
    <2>2. Carries(p, o)' => Carries(p, o)
      OBVIOUS
    <2> QED
      BY <2>1, <2>2 DEF Counts
  <1>3. call'[p].pc = "close" /\ call'[p].old \in Objects => obj'[call'[p].old].live
    OBVIOUS
  <1> QED
    BY <1>2, <1>3, CountStep

LEMMA InitCount == Init => CountInv
  <1> SUFFICES ASSUME Init PROVE CountInv
    OBVIOUS
  <1>1. \A p \in Procs : fds[p] = <<>> /\ call[p].pc = "idle"
    BY DEF Init, Idle
  <1>2. DOMAIN <<>> = {}
    OBVIOUS
  <1>3. \A o \in Objects : Opens(o) = {} /\ ~obj[o].live
    BY <1>1, <1>2 DEF Opens, Init
  <1>4. \A o \in Objects : IsFiniteSet(Opens(o))
    BY <1>3, FS_EmptySet
  <1> QED
    BY <1>1, <1>2, <1>3, <1>4 DEF CountInv, RefsCover, FdLive

LEMMA MountCount ==
  ASSUME NEW p, Procs = {p}, IInv, IInv', CountInv, Mount PROVE CountInv'
  <1>1. UNCHANGED <<fds, call>> /\ call[p].pc = "idle" /\ \A o \in Objects : ~obj[o].live
    BY DEF Mount, IInv, TypeInv, CacheInv
  <1>2. \A o \in Objects : ~Carries(p, o)'
    BY <1>1 DEF Carries
  <1>3. \A o \in Objects : Counts(p, o)
    BY <1>1, <1>2 DEF Counts
  <1> QED
    BY <1>1, <1>3, CountStep

LEMMA SysOpenCount ==
  ASSUME NEW p, Procs = {p}, IInv, IInv', CountInv, NEW path \in Paths, NEW mode \in Modes,
         SysOpen(p, path, mode)
  PROVE  CountInv'
  <1>1. UNCHANGED <<fds, obj>> /\ call'[p].pc = "walk"
    BY DEF SysOpen, IInv, TypeInv, CallInv
  <1>2. \A o \in Objects : ~Carries(p, o)'
    BY <1>1 DEF Carries
  <1> QED
    BY <1>1, <1>2, CountKept

LEMMA WalkCount ==
  ASSUME NEW p, Procs = {p}, IInv, IInv', CountInv, Walk(p) PROVE CountInv'
  <1>1. call[p].pc = "walk" /\ fds' = fds /\ call \in [Procs -> CallSet] /\ p \in Procs
    BY DEF Walk, IInv, TypeInv, CallInv
  <1>2. CASE UNCHANGED <<obj, call>>
    <2>1. \A o \in Objects : ~Carries(p, o)'
      BY <1>1, <1>2 DEF Carries
    <2> QED
      BY <1>1, <1>2, <2>1, CountKept
  <1>3. CASE call' = [call EXCEPT ![p] = Idle] /\ UNCHANGED <<obj, failed>>
    <2>1. call'[p].pc = "idle"
      BY <1>1, <1>3, IdleCall
    <2>2. \A o \in Objects : ~Carries(p, o)'
      BY <2>1 DEF Carries
    <2> QED
      BY <1>1, <1>3, <2>1, <2>2, CountKept
  <1>4. CASE obj' = Opened(call[p].cur) /\ call' = [call EXCEPT ![p].pc = "find"]
    <2>1. call'[p].pc = "find" /\ call'[p].cur = call[p].cur
      <3>1. call[p] \in CallSet
        BY <1>1
      <3> QED
        BY <1>1, <1>4, <3>1 DEF CallSet
    <2>2. \A o \in Objects :
             /\ obj'[o].live = obj[o].live
             /\ obj'[o].refs = IF o = call[p].cur /\ obj[o].live THEN obj[o].refs + 1 ELSE obj[o].refs
      BY <1>4, OpenedCounts
    <2>3. \A o \in Objects : (Carries(p, o)' <=> o = call[p].cur) /\ ~Carries(p, o)
      BY <1>1, <2>1 DEF Carries
    <2>4. \A o \in Objects : obj[o].refs \in Nat
      BY RefsType
    <2>5. ASSUME NEW o \in Objects PROVE Counts(p, o)
      BY <2>2, <2>3, <2>4 DEF Counts
    <2> QED
      BY <1>1, <2>1, <2>5, CountStep
  <1> QED
    BY <1>2, <1>3, <1>4 DEF Walk

LEMMA FindCount ==
  ASSUME NEW p, Procs = {p}, IInv, IInv', CountInv, Find(p) PROVE CountInv'
  <1> DEFINE n == call[p].cur
             name == Head(call[p].rest)
  <1>1. call[p].pc = "find" /\ fds' = fds /\ call \in [Procs -> CallSet] /\ p \in Procs
    BY DEF Find, IInv, TypeInv, CallInv
  <1>2. ASSUME NEW m, Found(p, m)
        PROVE  /\ call'[p].pc = "close" /\ call'[p].old = n
               /\ \A o \in Objects : (Carries(p, o)' <=> o = n) /\ (Carries(p, o) <=> o = n)
    <2>1. call[p] \in CallSet
      BY <1>1
    <2>2. call'[p].pc = "close" /\ call'[p].old = n
      BY <1>1, <1>2, <2>1 DEF Found, CallSet
    <2> QED
      BY <1>1, <2>2 DEF Carries
  <1>3. ASSUME NEW m, Found(p, m), UNCHANGED <<obj, cache>>, n \in Objects => obj[n].live PROVE CountInv'
    BY <1>1, <1>2, <1>3, CountKept
  <1>4. CASE FindInExt2(p, n, name)
    <2> DEFINE ino == Entry(obj[n].ino, name)
    <2>1. n \in Objects /\ obj[n].live
      BY <1>4 DEF FindInExt2, Live
    <2>2. CASE Found(p, Get(ino)) /\ UNCHANGED <<obj, cache>>
      BY <1>3, <2>1, <2>2
    <2>3. ASSUME NEW o \in Objects, ~obj[o].live, obj' = [obj EXCEPT ![o] = New(ino)], Found(p, o)
          PROVE  CountInv'
      <3>1. /\ o # n /\ \A q \in Objects : q # o => obj'[q] = obj[q]
        BY <2>1, <2>3 DEF IInv, TypeInv
      <3>2. call'[p].pc = "close" /\ call'[p].old = n
            /\ \A q \in Objects : (Carries(p, q)' <=> q = n) /\ (Carries(p, q) <=> q = n)
        BY <1>2, <2>3
      <3>3. ASSUME NEW q \in Objects PROVE Counts(p, q)
        <4>1. CASE q = o
          BY <2>3, <3>1, <3>2, <4>1 DEF Counts
        <4>2. CASE q # o
          <5>1. obj'[q] = obj[q] /\ obj[q].refs \in Nat
            BY <3>1, <4>2, RefsType
          <5>2. Carries(p, q)' <=> Carries(p, q)
            BY <3>2
          <5> QED
            BY <5>1, <5>2 DEF Counts
        <4> QED
          BY <4>1, <4>2
      <3>5. n \in Objects /\ obj'[n].live
        BY <2>1, <3>1
      <3> QED
        BY <1>1, <3>2, <3>3, <3>5, CountStep
    <2> QED
      BY <1>4, <2>2, <2>3 DEF FindInExt2
  <1>5. CASE FindInInitrd(p, n, name)
    <2>1. n \notin Objects /\ Found(p, name) /\ UNCHANGED <<obj, cache>>
      BY <1>5, NodesApart DEF FindInInitrd
    <2> QED
      BY <1>3, <2>1
  <1>6. CASE call' = [call EXCEPT ![p] = Idle] /\ UNCHANGED <<obj, cache>>
    <2>1. call'[p].pc = "idle"
      BY <1>1, <1>6, IdleCall
    <2>2. \A o \in Objects : ~Carries(p, o)'
      BY <2>1 DEF Carries
    <2> QED
      BY <1>1, <1>6, <2>1, <2>2, CountKept
  <1> QED
    BY <1>4, <1>5, <1>6 DEF Find

\* The directory a walk closes is counted for it.
LEMMA CloseCounted ==
  ASSUME NEW p, Procs = {p}, IInv, CountInv, NEW n \in Objects, call[p].pc = "close", call[p].old = n,
         obj[n].live
  PROVE  obj[n].refs >= 1
  <1>1. Carries(p, n)
    BY DEF Carries
  <1>2. obj[n].refs >= Cardinality(Opens(n)) + 1
    BY <1>1, WalkersOne DEF CountInv, RefsCover
  <1>3. Cardinality(Opens(n)) \in Nat
    BY FS_CardinalityType DEF CountInv
  <1>4. obj[n].refs \in Nat
    BY RefsType
  <1> QED
    BY <1>2, <1>3, <1>4

LEMMA CloseCount ==
  ASSUME NEW p, Procs = {p}, IInv, IInv', CountInv, Close(p) PROVE CountInv'
  <1> DEFINE n == call[p].old
  <1>1. /\ call[p].pc = "close" /\ fds' = fds /\ call \in [Procs -> CallSet] /\ p \in Procs
        /\ call' = [call EXCEPT ![p].pc = "walk", ![p].old = NoNode]
    BY DEF Close, IInv, TypeInv, CallInv
  <1>2. call'[p].pc = "walk"
    <2>1. call[p] \in CallSet
      BY <1>1
    <2> QED
      BY <1>1, <2>1 DEF CallSet
  <1>3. \A o \in Objects : ~Carries(p, o)' /\ (Carries(p, o) <=> o = n)
    BY <1>1, <1>2 DEF Carries
  <1>4. CASE UNCHANGED obj
    BY <1>1, <1>2, <1>3, <1>4, CountKept
  <1>5. CASE Live(n) /\ CloseExt2(p, n) /\ ~UNCHANGED obj
    <2>1. n \in Objects /\ obj[n].live
      BY <1>5 DEF Live
    <2>2. obj \in [Objects -> Chunk] /\ obj[n] \in Chunk
      BY <2>1 DEF IInv, TypeInv
    <2>3. \A o \in Objects : o # n => obj'[o] = obj[o]
      BY <1>5, <2>2 DEF CloseExt2
    <2>4. \/ obj'[n].live /\ obj'[n].refs = obj[n].refs - 1
          \/ ~obj'[n].live /\ obj[n].refs = 1
      <3>1. CASE obj' = [obj EXCEPT ![n].refs = @ - 1]
        BY <2>1, <2>2, <3>1 DEF Chunk
      <3>2. CASE obj[n].refs = 1 /\ obj' = [obj EXCEPT ![n].refs = 0, ![n].live = FALSE]
        BY <2>1, <2>2, <3>2 DEF Chunk
      <3> QED
        BY <1>5, <3>1, <3>2 DEF CloseExt2
    <2>5. ASSUME NEW o \in Objects PROVE Counts(p, o)
      <3>1. obj[o].refs \in Nat
        BY RefsType
      <3>2. CASE o = n
        BY <1>3, <2>1, <2>4, <3>1, <3>2 DEF Counts
      <3>3. CASE o # n
        BY <1>3, <2>3, <3>1, <3>3 DEF Counts
      <3> QED
        BY <3>2, <3>3
    <2> QED
      BY <1>1, <1>2, <2>5, CountStep
  <1> QED
    BY <1>4, <1>5 DEF Close

LEMMA OpenFoundCount ==
  ASSUME NEW p, Procs = {p}, IInv, IInv', CountInv, OpenFound(p) PROVE CountInv'
  <1> DEFINE n == call[p].cur
             x == <<p, Len(fds[p]) + 1>>
  <1>1. call[p].pc = "walk" /\ call \in [Procs -> CallSet] /\ p \in Procs
    BY DEF OpenFound, IInv, TypeInv, CallInv
  <1>2. \A o \in Objects : ~Carries(p, o)
    BY <1>1 DEF Carries
  <1>3. CASE UNCHANGED <<obj, fds, call>>
    <2>1. \A o \in Objects : ~Carries(p, o)'
      BY <1>1, <1>3 DEF Carries
    <2> QED
      BY <1>1, <1>3, <2>1, CountKept
  <1>4. CASE call' = [call EXCEPT ![p] = Idle]
    <2>1. call'[p].pc = "idle"
      BY <1>1, <1>4, IdleCall
    <2>2. \A o \in Objects : ~Carries(p, o)'
      BY <2>1 DEF Carries
    <2>3. CASE UNCHANGED <<obj, fds>>
      BY <2>1, <2>2, <2>3, CountKept
    <2>4. CASE /\ n # NoNode /\ ~OpenFails(n, call[p].mode) /\ obj' = Opened(n)
               /\ fds' = [fds EXCEPT ![p] =
                      [i \in 1 .. Len(@) \cup {Slot(p)} |-> IF i = Slot(p) THEN Fd(p) ELSE @[i]]]
      <3>1. n \in Objects => obj[n].live
        BY <2>4 DEF OpenFails, Freed
      <3>2. \A o \in Objects :
               /\ obj'[o].live = obj[o].live
               /\ obj'[o].refs = IF o = n /\ obj[o].live THEN obj[o].refs + 1 ELSE obj[o].refs
        BY <2>4, OpenedCounts
      <3>3. FdsInv /\ CallInv
        BY DEF IInv, TypeInv
      <3>4. /\ DOMAIN fds'[p] = 1 .. Len(fds[p]) + 1
            /\ \A i \in DOMAIN fds[p] : fds'[p][i] = fds[p][i]
            /\ fds'[p][Len(fds[p]) + 1].node = n
        <4>1. fds' = [fds EXCEPT ![p] =
                 [i \in 1 .. Len(@) \cup {Slot(p)} |-> IF i = Slot(p) THEN Fd(p) ELSE @[i]]]
          BY <2>4
        <4>2. /\ DOMAIN fds'[p] = 1 .. Len(fds[p]) + 1
              /\ \A i \in DOMAIN fds[p] : fds'[p][i] = fds[p][i]
              /\ fds'[p][Len(fds[p]) + 1] = Fd(p)
          BY <1>1, <2>4, <3>3, <4>1, NewSlot
        <4>3. Fd(p).node = n
          BY DEF Fd
        <4> QED
          BY <4>2, <4>3
      <3>5. DOMAIN fds[p] = 1 .. Len(fds[p]) /\ Len(fds[p]) \in Nat
        <4>1. fds[p] \in Seq(Descriptor)
          BY <1>1, <3>3 DEF FdsInv
        <4> QED
          BY <4>1
      <3>6. ASSUME NEW o \in Objects
            PROVE  Opens(o)' = IF o = n THEN Opens(o) \cup {x} ELSE Opens(o)
        <4>1. Opens(o) = {<<p, i>> : i \in {i \in DOMAIN fds[p] : fds[p][i].node = o}}
          BY DEF Opens
        <4>2. Opens(o)' = {<<p, i>> : i \in {i \in DOMAIN fds'[p] : fds'[p][i].node = o}}
          BY DEF Opens
        <4>3. {i \in DOMAIN fds'[p] : fds'[p][i].node = o} =
                 {i \in DOMAIN fds[p] : fds[p][i].node = o} \cup (IF o = n THEN {Len(fds[p]) + 1} ELSE {})
          BY <3>4, <3>5
        <4> QED
          BY <4>1, <4>2, <4>3
      <3> HIDE DEF x
      <3>7. ASSUME NEW o \in Objects
            PROVE  /\ IsFiniteSet(Opens(o)')
                   /\ Cardinality(Opens(o)) \in Nat /\ Cardinality(Opens(o)') \in Nat
                   /\ Cardinality(Opens(o)') <= Cardinality(Opens(o)) + (IF o = n THEN 1 ELSE 0)
        <4>1. IsFiniteSet(Opens(o)) /\ Cardinality(Opens(o)) \in Nat
          BY FS_CardinalityType DEF CountInv
        <4>2. /\ IsFiniteSet(Opens(o) \cup {x})
              /\ Cardinality(Opens(o) \cup {x}) =
                    IF x \in Opens(o) THEN Cardinality(Opens(o)) ELSE Cardinality(Opens(o)) + 1
          BY <4>1, FS_AddElement
        <4>3. CASE o = n
          <5>1. Opens(o)' = Opens(o) \cup {x}
            BY <3>6, <4>3
          <5> QED
            BY <4>1, <4>2, <4>3, <5>1
        <4>4. CASE o # n
          <5>1. Opens(o)' = Opens(o)
            BY <3>6, <4>4
          <5> QED
            BY <4>1, <4>4, <5>1
        <4> QED
          BY <4>3, <4>4
      <3>8. ASSUME NEW o \in Objects, obj'[o].live
            PROVE  obj'[o].refs >= Cardinality(Opens(o)') + Cardinality(Walkers(o)')
        <4>1. Cardinality(Walkers(o)) = 0 /\ Cardinality(Walkers(o)') = 0
          BY <1>2, <2>2, WalkersOne
        <4>2. obj[o].live /\ obj[o].refs \in Nat
          BY <3>2, <3>8, RefsType
        <4>3. obj[o].refs >= Cardinality(Opens(o)) + Cardinality(Walkers(o))
          BY <4>2 DEF CountInv, RefsCover
        <4>4. obj'[o].refs = obj[o].refs + (IF o = n THEN 1 ELSE 0)
          BY <3>2, <4>2
        <4> QED
          BY <3>7, <4>1, <4>2, <4>3, <4>4
      <3>9. ASSUME NEW i \in DOMAIN fds'[p], fds'[p][i].node \in Objects PROVE obj'[fds'[p][i].node].live
        <4>1. CASE i = Len(fds[p]) + 1
          BY <3>1, <3>2, <3>4, <3>9, <4>1
        <4>2. CASE i # Len(fds[p]) + 1
          <5>1. i \in DOMAIN fds[p] /\ fds'[p][i] = fds[p][i]
            BY <3>4, <3>5, <4>2
          <5>2. obj[fds[p][i].node].live
            BY <3>9, <5>1 DEF CountInv, FdLive, Freed
          <5> QED
            BY <3>2, <3>9, <5>1, <5>2
        <4> QED
          BY <4>1, <4>2
      <3>10. FdLive'
        BY <3>9 DEF FdLive, Freed
      <3>11. RefsCover'
        BY <3>8 DEF RefsCover
      <3> QED
        BY <2>1, <3>7, <3>10, <3>11 DEF CountInv
    <2> QED
      BY <1>4, <2>3, <2>4, <1>3 DEF OpenFound
  <1> QED
    BY <1>3, <1>4 DEF OpenFound

\* The asserts, where the counts cover the walk: close() finds a count.
LEMMA AssertsStep ==
  ASSUME NEW p, Procs = {p}, IInv, CountInv, NodeAsserts, [Next]_vars PROVE NodeAsserts'
  <1>1. p \in Procs /\ failed \in [Procs -> {"", "null", "wild", "refCount"}] /\ failed[p] # "refCount"
    BY DEF IInv, TypeInv, NodeAsserts
  <1>2. ASSUME NEW why \in {"null", "wild"}, Panic(p, why) PROVE NodeAsserts'
    BY <1>1, <1>2 DEF Panic, NodeAsserts
  <1>3. CASE UNCHANGED failed
    BY <1>3 DEF NodeAsserts
  <1>4. ASSUME Close(p) PROVE UNCHANGED failed
    <2> DEFINE n == call[p].old
    <2>1. CASE Live(n) /\ CloseExt2(p, n)
      <3>1. n \in Objects /\ obj[n].live /\ call[p].pc = "close"
        BY <1>4, <2>1 DEF Live, Close
      <3>2. obj[n].refs >= 1
        BY <3>1, CloseCounted
      <3>3. ~RemoveAsserts(obj[n].ino)
        BY <3>1, LiveCached
      <3> QED
        BY <2>1, <3>2, <3>3 DEF CloseExt2
    <2> QED
      BY <1>4, <2>1 DEF Close
  <1>5. CASE Mount
    BY <1>3, <1>5 DEF Mount
  <1>6. ASSUME NEW q \in Procs,
               \/ \E path \in Paths, mode \in Modes : SysOpen(q, path, mode)
               \/ Walk(q) \/ Find(q) \/ Close(q) \/ OpenFound(q) \/ UseReused(q)
        PROVE  NodeAsserts'
    <2>1. q = p
      OBVIOUS
    <2>2. CASE \E path \in Paths, mode \in Modes : SysOpen(q, path, mode)
      BY <1>3, <2>2 DEF SysOpen
    <2>3. CASE Walk(q)
      BY <1>2, <1>3, <2>1, <2>3 DEF Walk
    <2>4. CASE Find(q)
      BY <1>3, <2>4 DEF Find
    <2>5. CASE Close(q)
      BY <1>3, <1>4, <2>1, <2>5
    <2>6. CASE OpenFound(q)
      BY <1>2, <1>3, <2>1, <2>6 DEF OpenFound
    <2>7. CASE UseReused(q)
      BY <1>2, <2>1, <2>7 DEF UseReused
    <2> QED
      BY <1>6, <2>2, <2>3, <2>4, <2>5, <2>6, <2>7
  <1>7. CASE UNCHANGED vars
    BY <1>3, <1>7 DEF vars
  <1> QED
    BY <1>5, <1>6, <1>7 DEF Next

LEMMA CountNext ==
  ASSUME NEW p, Procs = {p}, IInv, IInv', CountInv, [Next]_vars PROVE CountInv'
  <1>1. CASE Mount
    BY <1>1, MountCount
  <1>2. CASE \E path \in Paths, mode \in Modes : SysOpen(p, path, mode)
    BY <1>2, SysOpenCount
  <1>3. CASE Walk(p) \/ Find(p) \/ Close(p) \/ OpenFound(p)
    BY <1>3, WalkCount, FindCount, CloseCount, OpenFoundCount
  <1>4. CASE UseReused(p) \/ UNCHANGED vars
    <2>1. UNCHANGED <<obj, fds, call>> /\ p \in Procs
      BY <1>4 DEF UseReused, vars
    <2>2. \A o \in Objects : Carries(p, o)' => Carries(p, o)
      BY <2>1 DEF Carries
    <2>3. call'[p].pc = "close" /\ call'[p].old \in Objects => obj[call'[p].old].live
      BY <2>1 DEF CountInv
    <2> QED
      BY <2>1, <2>2, <2>3, CountKept
  <1> QED
    BY <1>1, <1>2, <1>3, <1>4 DEF Next

\* One process, and whatever it opens.
LEMMA CountInvariance ==
  ASSUME NEW p, Procs = {p}
  PROVE  Spec => [](CountInv /\ NodeAsserts)
  <1>1. Init => CountInv /\ NodeAsserts
    BY InitCount DEF Init, NodeAsserts
  <1>2. IInv /\ IInv' /\ CountInv /\ NodeAsserts /\ [Next]_vars => CountInv' /\ NodeAsserts'
    BY CountNext, AssertsStep
  <1> QED
    BY <1>1, <1>2, Invariance, PTL DEF Spec

\* With one process close() never takes a node from under a descriptor or from
\* under the walk that is looking into it.
THEOREM RefsSafety ==
  ASSUME NEW p, Procs = {p}
  PROVE  Spec => []RefsCover
  <1>1. CountInv => RefsCover
    BY DEF CountInv
  <1> QED
    BY <1>1, CountInvariance, PTL

\* With one process sysRead() and sysWrite() call nodes that are alive.
THEOREM DescriptorSafety ==
  ASSUME NEW p, Procs = {p}
  PROVE  Spec => []FdLive
  <1>1. CountInv => FdLive
    BY DEF CountInv
  <1> QED
    BY <1>1, CountInvariance, PTL

\* With one process the asserts of Ext2Node::close() and HashMap::remove() hold.
THEOREM AssertSafety ==
  ASSUME NEW p, Procs = {p}
  PROVE  Spec => []NodeAsserts
  BY CountInvariance, PTL
=============================================================================
