------------------------- MODULE AddressSpaceProofs -------------------------
(***************************************************************************)
(* A frame has one use and none is lost: the proof, for every number of    *)
(* processes, frames and pages, through loading, exit and the heap.        *)
(***************************************************************************)
EXTENDS AddressSpace, FiniteSetTheorems, WellFoundedInduction, TLAPS

-----------------------------------------------------------------------------
(* The places that may refer to a frame.                                   *)

TableNo == 0..Dirs-1
EntryNo == 0..Entries-1
HeapNo == 0..HeapPages-1
TableMap == [Frame -> [Index -> Frame \cup {None}]]
RootMap == [Space -> Frame \cup {None}]

RootSlot(s) == <<"root", s>>
DirSlot(o) == <<"dir", o>>
TableSlot(o, k) == <<"table", o, k>>
PageSlot(o, k, x) == <<"page", o, k, x>>
LoaderSlot(f) == <<"loader", f>>
ReaperSlot == <<"reaper">>

Top == {RootSlot(s) : s \in Space}
Child ==
  {DirSlot(o) : o \in Own} \cup {TableSlot(o, k) : o \in Own, k \in TableNo}
    \cup {PageSlot(o, k, x) : o \in Own, k \in TableNo, x \in EntryNo}
Hand == {LoaderSlot(f) : f \in Frame} \cup {ReaperSlot}
Slot == Top \cup Child \cup Hand

\* An entry is in the frame its place above holds, at an index.
Up(a) ==
  IF a[1] = "dir" THEN RootSlot(a[2][1])
  ELSE IF a[1] = "table" THEN DirSlot(a[2])
  ELSE TableSlot(a[2], a[3])
At(a) == IF a[1] = "dir" THEN a[2][2] ELSE IF a[1] = "table" THEN a[3] ELSE a[4]

\* h says which frame a place holds, None for none: what the tables t under
\* the roots rt say, except that c hides some.
Tree(h, t, rt, c) ==
  /\ \A s \in Space : h[RootSlot(s)] = rt[s]
  /\ \A a \in Child :
       h[a] = IF a \in c \/ h[Up(a)] = None THEN None ELSE t[h[Up(a)]][At(a)]

Slots == [Slot -> Frame \cup {None}]

\* Of the frames u each is in one place, and no other frame is in any.
Sole(h, u) ==
  /\ h \in Slots
  /\ u \subseteq Frame
  /\ \A a \in Slot : h[a] \in u \cup {None}
  /\ \A a, b \in Slot : h[a] = h[b] /\ h[a] # None => a = b
  /\ \A f \in u : \E a \in Slot : h[a] = f

\* What the reaper rp has given back but not yet removed from the tables.
Hidden(rp, a) ==
  \/ rp.do = "destroyRoot" /\ a[2][1] = rp.p
  \/ rp.do = "destroy" /\ a[2][1] = rp.p /\ a[1] # "dir"
       /\ (a[3] < rp.dir \/ (a[1] = "page" /\ a[3] = rp.dir /\ a[4] < rp.entry))
  \/ rp.do = "unmapHeap" /\ a = PageSlot(<<K, HEAP>>, 0, rp.i)

Gone(rp) == {a \in Child : Hidden(rp, a)}

Segments(ld) == IF ld.do = "mapSegment" THEN ld.frame .. ld.frame+ld.left-1 ELSE {}

\* The frames of the program header being loaded, and those that were replaced:
\* no table refers to them.
Claimed == Segments(loader) \cup lost

InHands(h, cl, rp) ==
  /\ \A f \in Frame : h[LoaderSlot(f)] = IF f \in cl THEN f ELSE None
  /\ h[ReaperSlot] = IF rp.do = "free" THEN rp.frame ELSE None

Hold(t, rt, cl, rp, a) ==
  IF a[1] = "root" THEN rt[a[2]]
  ELSE IF a[1] = "loader" THEN IF a[2] \in cl THEN a[2] ELSE None
  ELSE IF a[1] = "reaper" THEN IF rp.do = "free" THEN rp.frame ELSE None
  ELSE IF Hidden(rp, a) THEN None
  ELSE IF a[1] = "dir" THEN DirOf(t, rt, a[2])
  ELSE IF a[1] = "table" THEN TableOf(t, rt, a[2], a[3])
  ELSE PageOf(t, rt, a[2], a[3], a[4])

Holding(t, rt, cl, rp) == [a \in Slot |-> Hold(t, rt, cl, rp, a)]
H == Holding(tab, root, Claimed, reaper)

-----------------------------------------------------------------------------
(* Places are told apart by their level and their indices.                 *)

LEMMA OwnType ==
  \A o \in Own : /\ o = <<o[1], o[2]>> /\ o[1] \in Space
                 /\ o[2] \in {USER, STACKS, HEAP} /\ o[2] \in Index
  BY DEF Own, Space, Index

LEMMA UpAt ==
  /\ \A o : Up(DirSlot(o)) = RootSlot(o[1]) /\ At(DirSlot(o)) = o[2]
  /\ \A o, k : Up(TableSlot(o, k)) = DirSlot(o) /\ At(TableSlot(o, k)) = k
  /\ \A o, k, x : Up(PageSlot(o, k, x)) = TableSlot(o, k) /\ At(PageSlot(o, k, x)) = x
  BY DEF Up, At, DirSlot, TableSlot, PageSlot

LEMMA Apart ==
  /\ \A s, r : RootSlot(s) = RootSlot(r) => s = r
  /\ \A o, p : DirSlot(o) = DirSlot(p) => o = p
  /\ \A o, p, k, l : TableSlot(o, k) = TableSlot(p, l) => o = p /\ k = l
  /\ \A o, p, k, l, x, y : PageSlot(o, k, x) = PageSlot(p, l, y) => o = p /\ k = l /\ x = y
  /\ \A f, g : LoaderSlot(f) = LoaderSlot(g) => f = g
  /\ \A s, o : RootSlot(s) # DirSlot(o)
  /\ \A s, o, k : RootSlot(s) # TableSlot(o, k) /\ DirSlot(s) # TableSlot(o, k)
  /\ \A s, o, k, x : RootSlot(s) # PageSlot(o, k, x) /\ DirSlot(s) # PageSlot(o, k, x)
  /\ \A o, l, p, k, x : TableSlot(o, l) # PageSlot(p, k, x)
  <1>1. \A s, r : RootSlot(s) = RootSlot(r) => s = r
    BY DEF RootSlot
  <1>2. \A o, p : DirSlot(o) = DirSlot(p) => o = p
    BY DEF DirSlot
  <1>3. \A o, p, k, l : TableSlot(o, k) = TableSlot(p, l) => o = p /\ k = l
    BY DEF TableSlot
  <1>4. \A o, p, k, l, x, y : PageSlot(o, k, x) = PageSlot(p, l, y) => o = p /\ k = l /\ x = y
    BY DEF PageSlot
  <1>5. \A f, g : LoaderSlot(f) = LoaderSlot(g) => f = g
    BY DEF LoaderSlot
  <1>6. /\ \A s : RootSlot(s)[1] = "root"
        /\ \A o : DirSlot(o)[1] = "dir"
        /\ \A o, k : TableSlot(o, k)[1] = "table"
        /\ \A o, k, x : PageSlot(o, k, x)[1] = "page"
    BY DEF RootSlot, DirSlot, TableSlot, PageSlot
  <1>7. "root" # "dir" /\ "root" # "table" /\ "root" # "page" /\ "dir" # "table"
        /\ "dir" # "page" /\ "table" # "page"
    OBVIOUS
  <1>8. /\ \A s, o : RootSlot(s) # DirSlot(o)
        /\ \A s, o, k : RootSlot(s) # TableSlot(o, k) /\ DirSlot(s) # TableSlot(o, k)
        /\ \A s, o, k, x : RootSlot(s) # PageSlot(o, k, x) /\ DirSlot(s) # PageSlot(o, k, x)
        /\ \A o, l, p, k, x : TableSlot(o, l) # PageSlot(p, k, x)
    BY <1>6, <1>7
  <1> QED
    BY <1>1, <1>2, <1>3, <1>4, <1>5, <1>8

LEMMA ChildCases ==
  ASSUME NEW a \in Child
  PROVE  \/ \E o \in Own : a = DirSlot(o)
         \/ \E o \in Own, k \in TableNo : a = TableSlot(o, k)
         \/ \E o \in Own, k \in TableNo, x \in EntryNo : a = PageSlot(o, k, x)
  BY DEF Child

LEMMA IndexOf ==
  TableNo \subseteq Index /\ EntryNo \subseteq Index /\ HeapNo \subseteq EntryNo /\ None \notin Frame
  BY SizeAssumption DEF TableNo, EntryNo, HeapNo, Index, Frame

LEMMA ChildType ==
  /\ \A o \in Own : DirSlot(o) \in Child
  /\ \A o \in Own, k \in TableNo : TableSlot(o, k) \in Child
  /\ \A o \in Own, k \in TableNo, x \in EntryNo : PageSlot(o, k, x) \in Child
  /\ \A s \in Space : RootSlot(s) \in Top
  BY DEF Child, Top

LEMMA UpType ==
  ASSUME NEW a \in Child
  PROVE  Up(a) \in Top \cup Child /\ At(a) \in Index /\ Up(a) # a
  BY ChildCases, ChildType, UpAt, OwnType, IndexOf, Apart

\* An entry of a frame is in one place.
LEMMA UpOnce ==
  ASSUME NEW a \in Child, NEW b \in Child, Up(a) = Up(b), At(a) = At(b)
  PROVE  a = b
  <1>1. CASE \E o \in Own : a = DirSlot(o)
    <2>1. PICK o \in Own : a = DirSlot(o)
      BY <1>1
    <2>2. PICK p \in Own : b = DirSlot(p)
      BY <2>1, ChildCases, UpAt, Apart
    <2> QED
      BY <2>1, <2>2, UpAt, Apart, OwnType
  <1>2. CASE \E o \in Own, k \in TableNo : a = TableSlot(o, k)
    <2>1. PICK o \in Own, k \in TableNo : a = TableSlot(o, k)
      BY <1>2
    <2>2. PICK p \in Own, l \in TableNo : b = TableSlot(p, l)
      BY <2>1, ChildCases, UpAt, Apart
    <2> QED
      BY <2>1, <2>2, UpAt, Apart
  <1>3. CASE \E o \in Own, k \in TableNo, x \in EntryNo : a = PageSlot(o, k, x)
    <2>1. PICK o \in Own, k \in TableNo, x \in EntryNo : a = PageSlot(o, k, x)
      BY <1>3
    <2>2. PICK p \in Own, l \in TableNo, y \in EntryNo : b = PageSlot(p, l, y)
      BY <2>1, ChildCases, UpAt, Apart
    <2> QED
      BY <2>1, <2>2, UpAt, Apart
  <1> QED
    BY <1>1, <1>2, <1>3, ChildCases

\* No page has a place below it.
LEMMA PageLast ==
  ASSUME NEW o, NEW k, NEW x, NEW b \in Child
  PROVE  Up(b) # PageSlot(o, k, x)
  BY ChildCases, UpAt, Apart

LEMMA Disjoint ==
  /\ \A a \in Top : a \notin Child
  /\ \A a \in Top \cup Child : a \notin Hand
  /\ \A f \in Frame : LoaderSlot(f) \in Hand /\ LoaderSlot(f) # ReaperSlot
  /\ ReaperSlot \in Hand
  <1>1. /\ \A a \in Top : a[1] = "root"
        /\ \A a \in Child : a[1] \in {"dir", "table", "page"}
        /\ \A a \in Hand : a[1] \in {"loader", "reaper"}
    BY ChildCases DEF Top, Hand, RootSlot, DirSlot, TableSlot, PageSlot, LoaderSlot, ReaperSlot
  <1>2. \A f \in Frame : LoaderSlot(f)[1] = "loader"
    BY DEF LoaderSlot
  <1>3. ReaperSlot[1] = "reaper"
    BY DEF ReaperSlot
  <1> QED
    BY <1>1, <1>2, <1>3 DEF Hand

-----------------------------------------------------------------------------
(* What the tables say and what the places hold.                           *)

LEMMA TableTyped ==
  ASSUME NEW t \in TableMap, NEW f \in Frame, NEW x \in Index
  PROVE  t[f][x] \in Frame \cup {None}
  BY DEF TableMap

\* What hides a place hides those below it.
LEMMA HiddenBelow ==
  ASSUME NEW rp, NEW a \in Child, Up(a) \in Child, Hidden(rp, Up(a)),
         rp.do = "destroy" => rp.dir \in Nat /\ rp.entry \in Nat
  PROVE  Hidden(rp, a)
  <1>1. CASE \E o \in Own : a = DirSlot(o)
    BY <1>1, UpAt, OwnType, ChildType, Disjoint
  <1>2. CASE \E o \in Own, k \in TableNo : a = TableSlot(o, k)
    <2>1. PICK o \in Own, k \in TableNo : a = TableSlot(o, k)
      BY <1>2
    <2>2. Up(a) = DirSlot(o)
      BY <2>1, UpAt
    <2>3. /\ a[2] = o /\ DirSlot(o)[2] = o /\ DirSlot(o)[1] = "dir"
      BY <2>1 DEF TableSlot, DirSlot
    <2>4. \A k1, x1 : DirSlot(o) # PageSlot(<<K, HEAP>>, k1, x1)
      BY Apart
    <2> QED
      BY <2>2, <2>3, <2>4 DEF Hidden
  <1>3. CASE \E o \in Own, k \in TableNo, x \in EntryNo : a = PageSlot(o, k, x)
    <2>1. PICK o \in Own, k \in TableNo, x \in EntryNo : a = PageSlot(o, k, x)
      BY <1>3
    <2>2. Up(a) = TableSlot(o, k)
      BY <2>1, UpAt
    <2>3. /\ a[1] = "page" /\ a[2] = o /\ a[3] = k
          /\ TableSlot(o, k)[1] = "table" /\ TableSlot(o, k)[2] = o /\ TableSlot(o, k)[3] = k
      BY <2>1 DEF TableSlot, PageSlot
    <2>4. \A k1, x1 : TableSlot(o, k) # PageSlot(<<K, HEAP>>, k1, x1)
      BY Apart
    <2> QED
      BY <2>2, <2>3, <2>4 DEF Hidden
  <1> QED
    BY <1>1, <1>2, <1>3, ChildCases

LoaderTyped(ld) == ld = Idle \/ ld \in LoaderOp
ReaperTyped(rp) == rp = Idle \/ rp \in ReaperOp

LEMMA LoaderCases ==
  ASSUME NEW ld, LoaderTyped(ld)
  PROVE  \/ ld = Idle /\ ld.do = "idle"
         \/ /\ ld # Idle /\ ld.do = "map" /\ ld.p \in Proc /\ ld.region \in {USER, STACKS}
            /\ ld.n \in PageNo /\ ld.left \in Nat /\ ld.base \in PageNo
         \/ /\ ld # Idle /\ ld.do = "mapSegment" /\ ld.p \in Proc /\ ld.region = USER
            /\ ld.n \in PageNo /\ ld.left \in Nat /\ ld.frame \in Frame
  BY DEF LoaderTyped, LoaderOp, Idle

LEMMA ReaperCases ==
  ASSUME NEW rp, ReaperTyped(rp)
  PROVE  \/ rp = Idle /\ rp.do = "idle"
         \/ /\ rp # Idle /\ rp.do = "release" /\ rp.p \in Proc /\ rp.region \in {USER, STACKS}
            /\ rp.n \in PageNo /\ rp.left \in Nat
         \/ /\ rp # Idle /\ rp.do = "free" /\ rp.p \in Proc /\ rp.region \in {USER, STACKS}
            /\ rp.n \in PageNo /\ rp.left \in Nat /\ rp.frame \in Frame
         \/ /\ rp # Idle /\ rp.do = "destroy" /\ rp.p \in Proc
            /\ rp.dir \in 0..Dirs /\ rp.entry \in 0..Entries
         \/ rp # Idle /\ rp.do = "destroyRoot" /\ rp.p \in Proc
         \/ rp # Idle /\ rp.do = "unmapHeap" /\ rp.i \in 0..HeapPages-1
  BY DEF ReaperTyped, ReaperOp, Idle

HoldsAt(t, rt, cl, rp) ==
  /\ \A s : Hold(t, rt, cl, rp, RootSlot(s)) = rt[s]
  /\ \A f : Hold(t, rt, cl, rp, LoaderSlot(f)) = IF f \in cl THEN f ELSE None
  /\ Hold(t, rt, cl, rp, ReaperSlot) = IF rp.do = "free" THEN rp.frame ELSE None
  /\ \A o : Hold(t, rt, cl, rp, DirSlot(o)) =
               IF Hidden(rp, DirSlot(o)) THEN None ELSE DirOf(t, rt, o)
  /\ \A o, k : Hold(t, rt, cl, rp, TableSlot(o, k)) =
                  IF Hidden(rp, TableSlot(o, k)) THEN None ELSE TableOf(t, rt, o, k)
  /\ \A o, k, x : Hold(t, rt, cl, rp, PageSlot(o, k, x)) =
                     IF Hidden(rp, PageSlot(o, k, x)) THEN None ELSE PageOf(t, rt, o, k, x)

LEMMA HoldAt ==
  ASSUME NEW t, NEW rt, NEW cl, NEW rp
  PROVE  HoldsAt(t, rt, cl, rp)
  <1>1. \A s : Hold(t, rt, cl, rp, RootSlot(s)) = rt[s]
    BY DEF Hold, RootSlot
  <1>2. \A f : Hold(t, rt, cl, rp, LoaderSlot(f)) = IF f \in cl THEN f ELSE None
    BY DEF Hold, LoaderSlot
  <1>3. Hold(t, rt, cl, rp, ReaperSlot) = IF rp.do = "free" THEN rp.frame ELSE None
    BY DEF Hold, ReaperSlot
  <1>4. \A o : DirSlot(o)[1] = "dir" /\ DirSlot(o)[2] = o
    BY DEF DirSlot
  <1>5. \A o, k : TableSlot(o, k)[1] = "table" /\ TableSlot(o, k)[2] = o /\ TableSlot(o, k)[3] = k
    BY DEF TableSlot
  <1>6. \A o, k, x : /\ PageSlot(o, k, x)[1] = "page" /\ PageSlot(o, k, x)[2] = o
                     /\ PageSlot(o, k, x)[3] = k /\ PageSlot(o, k, x)[4] = x
    BY DEF PageSlot
  <1>7. /\ \A o : Hold(t, rt, cl, rp, DirSlot(o)) =
                     IF Hidden(rp, DirSlot(o)) THEN None ELSE DirOf(t, rt, o)
        /\ \A o, k : Hold(t, rt, cl, rp, TableSlot(o, k)) =
                       IF Hidden(rp, TableSlot(o, k)) THEN None ELSE TableOf(t, rt, o, k)
    BY <1>4, <1>5 DEF Hold
  <1>8. \A o, k, x : Hold(t, rt, cl, rp, PageSlot(o, k, x)) =
                       IF Hidden(rp, PageSlot(o, k, x)) THEN None ELSE PageOf(t, rt, o, k, x)
    BY <1>6 DEF Hold
  <1> QED
    BY <1>1, <1>2, <1>3, <1>7, <1>8 DEF HoldsAt

LEMMA SlotCases ==
  ASSUME NEW a \in Slot
  PROVE  \/ \E s \in Space : a = RootSlot(s)
         \/ \E o \in Own : a = DirSlot(o)
         \/ \E o \in Own, k \in TableNo : a = TableSlot(o, k)
         \/ \E o \in Own, k \in TableNo, x \in EntryNo : a = PageSlot(o, k, x)
         \/ \E f \in Frame : a = LoaderSlot(f)
         \/ a = ReaperSlot
  BY ChildCases DEF Slot, Top, Hand

LEMMA SlotType ==
  /\ \A s \in Space : RootSlot(s) \in Slot
  /\ \A o \in Own : DirSlot(o) \in Slot
  /\ \A o \in Own, k \in TableNo : TableSlot(o, k) \in Slot
  /\ \A o \in Own, k \in TableNo, x \in EntryNo : PageSlot(o, k, x) \in Slot
  /\ \A f \in Frame : LoaderSlot(f) \in Slot
  /\ ReaperSlot \in Slot
  /\ \A a \in Child : a \in Slot /\ Up(a) \in Slot
  BY ChildType, Disjoint, UpType DEF Slot

\* What the levels of a table give is a frame or none.
LEMMA PathType ==
  ASSUME NEW t \in TableMap, NEW rt \in RootMap, NEW o \in Own, NEW k \in TableNo, NEW x \in EntryNo
  PROVE  /\ DirOf(t, rt, o) \in Frame \cup {None}
         /\ TableOf(t, rt, o, k) \in Frame \cup {None}
         /\ PageOf(t, rt, o, k, x) \in Frame \cup {None}
  <1>1. rt[o[1]] \in Frame \cup {None}
    BY OwnType DEF RootMap
  <1>2. DirOf(t, rt, o) \in Frame \cup {None}
    BY <1>1, OwnType, TableTyped DEF DirOf
  <1>3. TableOf(t, rt, o, k) \in Frame \cup {None}
    BY <1>2, IndexOf, TableTyped DEF TableOf
  <1>4. PageOf(t, rt, o, k, x) \in Frame \cup {None}
    BY <1>3, IndexOf, TableTyped DEF PageOf
  <1> QED
    BY <1>2, <1>3, <1>4

LEMMA HoldingTree ==
  ASSUME NEW t \in TableMap, NEW rt \in RootMap, NEW cl, NEW rp, ReaperTyped(rp)
  PROVE  /\ Holding(t, rt, cl, rp) \in Slots
         /\ Tree(Holding(t, rt, cl, rp), t, rt, Gone(rp))
         /\ InHands(Holding(t, rt, cl, rp), cl, rp)
  <1> DEFINE h == Holding(t, rt, cl, rp)
  <1>0. HoldsAt(t, rt, cl, rp)
    BY HoldAt
  <1>1. \A a \in Slot : h[a] = Hold(t, rt, cl, rp, a)
    BY DEF Holding
  <1>2. \A a \in Child : a \in Gone(rp) <=> Hidden(rp, a)
    BY DEF Gone
  <1>3. rp.do = "destroy" => rp.dir \in Nat /\ rp.entry \in Nat
    BY ReaperCases, SizeAssumption
  <1>4. h \in Slots
    <2>1. \A s \in Space : Hold(t, rt, cl, rp, RootSlot(s)) \in Frame \cup {None}
      <3>1. \A s \in Space : rt[s] \in Frame \cup {None}
        BY DEF RootMap
      <3> QED
        BY <3>1, <1>0 DEF HoldsAt
    <2>2. \A o \in Own : Hold(t, rt, cl, rp, DirSlot(o)) \in Frame \cup {None}
      <3>1. 0 \in TableNo /\ 0 \in EntryNo
        BY SizeAssumption DEF TableNo, EntryNo
      <3>2. \A o \in Own : DirOf(t, rt, o) \in Frame \cup {None}
        BY <3>1, PathType
      <3> QED
        BY <3>2, <1>0 DEF HoldsAt
    <2>3. \A o \in Own, k \in TableNo : Hold(t, rt, cl, rp, TableSlot(o, k)) \in Frame \cup {None}
      <3>1. 0 \in EntryNo
        BY SizeAssumption DEF EntryNo
      <3>2. \A o \in Own, k \in TableNo : TableOf(t, rt, o, k) \in Frame \cup {None}
        BY <3>1, PathType
      <3> QED
        BY <3>2, <1>0 DEF HoldsAt
    <2>4. \A o \in Own, k \in TableNo, x \in EntryNo :
            Hold(t, rt, cl, rp, PageSlot(o, k, x)) \in Frame \cup {None}
      <3>1. \A o \in Own, k \in TableNo, x \in EntryNo : PageOf(t, rt, o, k, x) \in Frame \cup {None}
        BY PathType
      <3> QED
        BY <3>1, <1>0 DEF HoldsAt
    <2>5. \A f \in Frame : Hold(t, rt, cl, rp, LoaderSlot(f)) \in Frame \cup {None}
      BY <1>0 DEF HoldsAt
    <2>6. Hold(t, rt, cl, rp, ReaperSlot) \in Frame \cup {None}
      <3>1. rp.do = "free" => rp.frame \in Frame
        BY ReaperCases
      <3> QED
        BY <3>1, <1>0 DEF HoldsAt
    <2>7. \A a \in Slot : Hold(t, rt, cl, rp, a) \in Frame \cup {None}
      BY <2>1, <2>2, <2>3, <2>4, <2>5, <2>6, SlotCases
    <2> QED
      BY <2>7 DEF Holding, Slots
  <1>5. \A s \in Space : h[RootSlot(s)] = rt[s]
    BY <1>1, <1>0, SlotType DEF HoldsAt
  <1>6. ASSUME NEW a \in Child
        PROVE  h[a] = IF a \in Gone(rp) \/ h[Up(a)] = None THEN None ELSE t[h[Up(a)]][At(a)]
    <2>1. CASE \E o \in Own : a = DirSlot(o)
      <3>1. PICK o \in Own : a = DirSlot(o)
        BY <2>1
      <3>2. Up(a) = RootSlot(o[1]) /\ At(a) = o[2] /\ h[Up(a)] = rt[o[1]]
        BY <3>1, UpAt, <1>5, OwnType
      <3>3. h[a] = IF Hidden(rp, a) THEN None ELSE DirOf(t, rt, o)
        BY <3>1, <1>1, <1>0, SlotType DEF HoldsAt
      <3> QED
        BY <3>2, <3>3, <1>2 DEF DirOf
    <2>2. CASE \E o \in Own, k \in TableNo : a = TableSlot(o, k)
      <3>1. PICK o \in Own, k \in TableNo : a = TableSlot(o, k)
        BY <2>2
      <3>2. Up(a) = DirSlot(o) /\ At(a) = k /\ Up(a) \in Child
        BY <3>1, UpAt, ChildType
      <3>3. h[a] = IF Hidden(rp, a) THEN None ELSE TableOf(t, rt, o, k)
        BY <3>1, <1>1, <1>0, SlotType DEF HoldsAt
      <3>4. h[Up(a)] = IF Hidden(rp, Up(a)) THEN None ELSE DirOf(t, rt, o)
        BY <3>2, <1>1, <1>0, SlotType DEF HoldsAt
      <3>5. Hidden(rp, Up(a)) => Hidden(rp, a)
        BY <3>2, <1>3, HiddenBelow
      <3> QED
        BY <3>2, <3>3, <3>4, <3>5, <1>2 DEF TableOf
    <2>3. CASE \E o \in Own, k \in TableNo, x \in EntryNo : a = PageSlot(o, k, x)
      <3>1. PICK o \in Own, k \in TableNo, x \in EntryNo : a = PageSlot(o, k, x)
        BY <2>3
      <3>2. Up(a) = TableSlot(o, k) /\ At(a) = x /\ Up(a) \in Child
        BY <3>1, UpAt, ChildType
      <3>3. h[a] = IF Hidden(rp, a) THEN None ELSE PageOf(t, rt, o, k, x)
        BY <3>1, <1>1, <1>0, SlotType DEF HoldsAt
      <3>4. h[Up(a)] = IF Hidden(rp, Up(a)) THEN None ELSE TableOf(t, rt, o, k)
        BY <3>2, <1>1, <1>0, SlotType DEF HoldsAt
      <3>5. Hidden(rp, Up(a)) => Hidden(rp, a)
        BY <3>2, <1>3, HiddenBelow
      <3> QED
        BY <3>2, <3>3, <3>4, <3>5, <1>2 DEF PageOf
    <2> QED
      BY <2>1, <2>2, <2>3, ChildCases
  <1>7. Tree(h, t, rt, Gone(rp))
    BY <1>5, <1>6 DEF Tree
  <1>8. InHands(h, cl, rp)
    BY <1>1, <1>0, SlotType DEF InHands, HoldsAt
  <1> QED
    BY <1>4, <1>7, <1>8

\* Nothing else fits the tables.
LEMMA HoldingOnly ==
  ASSUME NEW t \in TableMap, NEW rt \in RootMap, NEW cl, NEW rp, ReaperTyped(rp),
         NEW h \in Slots, Tree(h, t, rt, Gone(rp)), InHands(h, cl, rp)
  PROVE  Holding(t, rt, cl, rp) = h
  <1> DEFINE g == Holding(t, rt, cl, rp)
  <1>1. g \in Slots /\ Tree(g, t, rt, Gone(rp)) /\ InHands(g, cl, rp)
    BY HoldingTree
  <1> HIDE DEF g
  <1>2. \A s \in Space : g[RootSlot(s)] = h[RootSlot(s)]
    BY <1>1 DEF Tree
  <1>3. \A a \in Child : g[Up(a)] = h[Up(a)] => g[a] = h[a]
    BY <1>1 DEF Tree
  <1>4. \A o \in Own : g[DirSlot(o)] = h[DirSlot(o)]
    BY <1>2, <1>3, ChildType, UpAt, OwnType
  <1>5. \A o \in Own, k \in TableNo : g[TableSlot(o, k)] = h[TableSlot(o, k)]
    BY <1>3, <1>4, ChildType, UpAt
  <1>6. \A o \in Own, k \in TableNo, x \in EntryNo : g[PageSlot(o, k, x)] = h[PageSlot(o, k, x)]
    BY <1>3, <1>5, ChildType, UpAt
  <1>7. /\ \A f \in Frame : g[LoaderSlot(f)] = h[LoaderSlot(f)]
        /\ g[ReaperSlot] = h[ReaperSlot]
    BY <1>1 DEF InHands
  <1>8. \A a \in Slot : g[a] = h[a]
    BY <1>2, <1>4, <1>5, <1>6, <1>7, SlotCases
  <1>9. g = h
    BY <1>1, <1>8 DEF Slots
  <1> QED
    BY <1>9 DEF g

-----------------------------------------------------------------------------
(* One place changes.                                                      *)

Put(h, a, v) == [h EXCEPT ![a] = v]

LEMMA PutAt ==
  ASSUME NEW h \in Slots, NEW a \in Slot, NEW v \in Frame \cup {None}
  PROVE  /\ Put(h, a, v) \in Slots
         /\ Put(h, a, v)[a] = v
         /\ \A b \in Slot : b # a => Put(h, a, v)[b] = h[b]
  BY DEF Put, Slots

LEMMA PutSame ==
  ASSUME NEW h \in Slots, NEW a \in Slot
  PROVE  Put(h, a, h[a]) = h
  BY DEF Put, Slots

\* A frame without a use gets one.
LEMMA SolePut ==
  ASSUME NEW h, NEW u, Sole(h, u), NEW a \in Slot, h[a] = None, NEW f \in Frame, f \notin u
  PROVE  Sole(Put(h, a, f), u \cup {f})
  <1> DEFINE g == Put(h, a, f)
  <1>1. g \in Slots /\ g[a] = f /\ \A b \in Slot : b # a => g[b] = h[b]
    BY PutAt DEF Sole
  <1>2. f # None
    BY IndexOf
  <1> HIDE DEF g
  <1>3. \A b \in Slot : g[b] \in (u \cup {f}) \cup {None}
    BY <1>1 DEF Sole
  <1>4. \A b \in Slot : g[b] = f => b = a
    BY <1>1, <1>2 DEF Sole
  <1>5. ASSUME NEW b \in Slot, NEW d \in Slot, g[b] = g[d], g[b] # None PROVE b = d
    BY <1>1, <1>4, <1>5 DEF Sole
  <1>6. ASSUME NEW e \in u \cup {f} PROVE \E b \in Slot : g[b] = e
    <2>1. CASE e = f
      BY <1>1, <2>1
    <2>2. CASE e \in u
      <3>1. PICK b \in Slot : h[b] = e
        BY <2>2 DEF Sole
      <3>2. b # a
        BY <3>1, <2>2, IndexOf DEF Sole
      <3> QED
        BY <1>1, <3>1, <3>2
    <2> QED
      BY <2>1, <2>2
  <1>7. Sole(g, u \cup {f})
    BY <1>1, <1>3, <1>5, <1>6 DEF Sole
  <1> QED
    BY <1>7 DEF g

\* A frame loses its use and is given back.
LEMMA SoleDrop ==
  ASSUME NEW h, NEW u, Sole(h, u), NEW a \in Slot, h[a] # None
  PROVE  Sole(Put(h, a, None), u \ {h[a]})
  <1> DEFINE g == Put(h, a, None)
  <1>1. g \in Slots /\ g[a] = None /\ \A b \in Slot : b # a => g[b] = h[b]
    BY PutAt DEF Sole
  <1> HIDE DEF g
  <1>2. \A b \in Slot : h[b] = h[a] => b = a
    BY DEF Sole
  <1>3. \A b \in Slot : g[b] \in (u \ {h[a]}) \cup {None}
    BY <1>1, <1>2 DEF Sole
  <1>5. ASSUME NEW b \in Slot, NEW d \in Slot, g[b] = g[d], g[b] # None PROVE b = d
    BY <1>1, <1>5 DEF Sole
  <1>6. ASSUME NEW e \in u \ {h[a]} PROVE \E b \in Slot : g[b] = e
    <2>1. PICK b \in Slot : h[b] = e
      BY DEF Sole
    <2> QED
      BY <1>1, <2>1
  <1>7. Sole(g, u \ {h[a]})
    BY <1>1, <1>3, <1>5, <1>6 DEF Sole
  <1> QED
    BY <1>7 DEF g

\* A frame goes from one place to another.
LEMMA SoleMove ==
  ASSUME NEW h, NEW u, Sole(h, u), NEW a \in Slot, NEW b \in Slot, h[a] # None, h[b] = None
  PROVE  Sole(Put(Put(h, a, None), b, h[a]), u)
  <1>1. h[a] \in u /\ u \subseteq Frame /\ h \in Slots /\ a # b
    BY DEF Sole
  <1>2. Sole(Put(h, a, None), u \ {h[a]})
    BY SoleDrop
  <1>3. Put(h, a, None)[b] = None
    BY <1>1, PutAt
  <1> DEFINE g == Put(h, a, None)
             v == u \ {h[a]}
  <1>4. Sole(g, v) /\ g[b] = None /\ h[a] \in Frame /\ h[a] \notin v
    BY <1>1, <1>2, <1>3
  <1>5. v \cup {h[a]} = u
    BY <1>1
  <1> HIDE DEF g, v
  <1>6. Sole(Put(g, b, h[a]), v \cup {h[a]})
    BY <1>4, SolePut
  <1>7. Sole(Put(g, b, h[a]), u)
    BY <1>5, <1>6
  <1> QED
    BY <1>7 DEF g

\* A frame goes from b to a, and the one that was there to c.
LEMMA SoleReplace ==
  ASSUME NEW h, NEW u, Sole(h, u), NEW a \in Slot, NEW b \in Slot, a # b, h[b] # None,
         NEW c, h[a] # None => c \in Slot /\ h[c] = None,
         NEW g \in Slots, g[a] = h[b], g[b] = None, h[a] # None => g[c] = h[a],
         \A d \in Slot : d # a /\ d # b /\ (h[a] # None => d # c) => g[d] = h[d]
  PROVE  Sole(g, u)
  <1>1. CASE h[a] = None
    <2>1. \A d \in Slot : d # a /\ d # b => g[d] = h[d]
      BY <1>1
    <2>2. \A d \in Slot : g[d] \in u \cup {None}
      BY <1>1, <2>1 DEF Sole
    <2>3. ASSUME NEW d \in Slot, NEW e \in Slot, g[d] = g[e], g[d] # None PROVE d = e
      BY <2>1, <2>3 DEF Sole
    <2>4. ASSUME NEW f \in u PROVE \E d \in Slot : g[d] = f
      <3>1. PICK d \in Slot : h[d] = f
        BY DEF Sole
      <3>2. d # a
        BY <1>1, <3>1, IndexOf DEF Sole
      <3> QED
        BY <2>1, <3>1, <3>2
    <2> QED
      BY <2>2, <2>3, <2>4 DEF Sole
  <1>2. CASE h[a] # None
    <2>1. /\ c \in Slot /\ h[c] = None /\ g[c] = h[a] /\ c # a /\ c # b
          /\ \A d \in Slot : d # a /\ d # b /\ d # c => g[d] = h[d]
      BY <1>2
    <2>2. \A d \in Slot : g[d] \in u \cup {None}
      BY <2>1 DEF Sole
    <2>3. ASSUME NEW d \in Slot, NEW e \in Slot, g[d] = g[e], g[d] # None PROVE d = e
      BY <2>1, <2>3 DEF Sole
    <2>4. ASSUME NEW f \in u PROVE \E d \in Slot : g[d] = f
      <3>1. PICK d \in Slot : h[d] = f
        BY DEF Sole
      <3>2. d # c
        BY <2>1, <3>1, IndexOf DEF Sole
      <3> QED
        BY <2>1, <3>1, <3>2
    <2> QED
      BY <2>2, <2>3, <2>4 DEF Sole
  <1> QED
    BY <1>1, <1>2

LEMMA SoleType ==
  ASSUME NEW h, NEW u, Sole(h, u)
  PROVE  /\ h \in Slots
         /\ \A a \in Slot : h[a] # None => h[a] \in u /\ h[a] \in Frame
         /\ \A a \in Slot : h[a] \in Frame \cup {None}
  BY DEF Sole

-----------------------------------------------------------------------------
(* One entry of the tables changes.                                        *)

LEMMA TreeStep ==
  ASSUME NEW h \in Slots, NEW t, NEW t2, NEW rt, NEW c, NEW c2,
         NEW a \in Child, NEW v \in Frame \cup {None}, Tree(h, t, rt, c),
         v = IF a \in c2 \/ h[Up(a)] = None THEN None ELSE t2[h[Up(a)]][At(a)],
         \A b \in Child : b \in c /\ b # a => b \in c2,
         \A b \in Child : b \in c2 /\ b \notin c /\ b # a => h[b] = None,
         \A b \in Child : Up(b) = a => h[b] = None /\ (b \in c2 \/ v = None \/ t2[v][At(b)] = None),
         \A b \in Child : b # a /\ Up(b) # a /\ b \notin c2 /\ h[Up(b)] # None =>
           t2[h[Up(b)]][At(b)] = t[h[Up(b)]][At(b)]
  PROVE  Tree(Put(h, a, v), t2, rt, c2)
  <1> DEFINE g == Put(h, a, v)
  <1>1. g \in Slots /\ g[a] = v /\ \A b \in Slot : b # a => g[b] = h[b]
    BY PutAt, SlotType
  <1> HIDE DEF g
  <1>2. \A b \in Child : b \in Slot /\ Up(b) \in Slot /\ Up(b) # b
    BY SlotType, UpType
  <1>3. \A s \in Space : g[RootSlot(s)] = rt[s]
    <2>1. \A s \in Space : RootSlot(s) \in Slot /\ RootSlot(s) # a
      BY SlotType, ChildType, Disjoint
    <2> QED
      BY <1>1, <2>1 DEF Tree
  <1>4. ASSUME NEW b \in Child
        PROVE  g[b] = IF b \in c2 \/ g[Up(b)] = None THEN None ELSE t2[g[Up(b)]][At(b)]
    <2>1. h[b] = IF b \in c \/ h[Up(b)] = None THEN None ELSE t[h[Up(b)]][At(b)]
      BY DEF Tree
    <2>2. CASE b = a
      <3>1. g[Up(b)] = h[Up(b)]
        BY <1>1, <1>2, <2>2
      <3> QED
        BY <1>1, <2>2, <3>1
    <2>3. CASE Up(b) = a
      <3>1. g[Up(b)] = v /\ g[b] = h[b]
        BY <1>1, <1>2, <2>3
      <3> QED
        BY <2>3, <3>1
    <2>4. CASE b # a /\ Up(b) # a
      <3>1. g[Up(b)] = h[Up(b)] /\ g[b] = h[b]
        BY <1>1, <1>2, <2>4
      <3> QED
        BY <2>1, <2>4, <3>1
    <2> QED
      BY <2>2, <2>3, <2>4
  <1>5. Tree(g, t2, rt, c2)
    BY <1>3, <1>4 DEF Tree
  <1> QED
    BY <1>5 DEF g

\* What is below a place that holds none.
LEMMA NoneBelow ==
  ASSUME NEW h, NEW t, NEW rt, NEW c, Tree(h, t, rt, c), NEW a, h[a] = None,
         NEW b \in Child, Up(b) = a
  PROVE  h[b] = None
  BY DEF Tree

\* The table t with v as entry x of g; and with a fresh table f there.
Entered(t, g, x, v) == [t EXCEPT ![g][x] = v]
Grown(t, f, g, x) == [t EXCEPT ![f] = Empty, ![g][x] = f]

LEMMA EnteredAt ==
  ASSUME NEW t \in TableMap, NEW g \in Frame, NEW x \in Index, NEW v \in Frame \cup {None}
  PROVE  /\ Entered(t, g, x, v) \in TableMap
         /\ Entered(t, g, x, v)[g][x] = v
         /\ \A f \in Frame, y \in Index : f # g \/ y # x => Entered(t, g, x, v)[f][y] = t[f][y]
  BY DEF Entered, TableMap

LEMMA GrownAt ==
  ASSUME NEW t \in TableMap, NEW f \in Frame, NEW g \in Frame, f # g, NEW x \in Index
  PROVE  /\ Grown(t, f, g, x) \in TableMap
         /\ Grown(t, f, g, x)[g][x] = f
         /\ \A y \in Index : Grown(t, f, g, x)[f][y] = None
         /\ \A e \in Frame, y \in Index :
              e # f /\ (e # g \/ y # x) => Grown(t, f, g, x)[e][y] = t[e][y]
  <1>1. Empty \in [Index -> Frame \cup {None}] /\ \A y \in Index : Empty[y] = None
    BY DEF Empty
  <1> DEFINE s == [t EXCEPT ![f] = Empty]
  <1>2. s \in TableMap /\ s[f] = Empty /\ \A e \in Frame : e # f => s[e] = t[e]
    BY <1>1 DEF TableMap
  <1>3. Grown(t, f, g, x) = Entered(s, g, x, f)
    BY DEF Grown, Entered
  <1> HIDE DEF s
  <1>4. /\ Entered(s, g, x, f) \in TableMap
        /\ Entered(s, g, x, f)[g][x] = f
        /\ \A e \in Frame, y \in Index : e # g \/ y # x => Entered(s, g, x, f)[e][y] = s[e][y]
    BY <1>2, EnteredAt
  <1> QED
    BY <1>1, <1>2, <1>3, <1>4

\* Another place is not where a's entry is.
LEMMA OtherEntry ==
  ASSUME NEW h, NEW u, Sole(h, u), NEW a \in Child, NEW b \in Child, b # a, h[Up(a)] # None
  PROVE  h[Up(b)] # h[Up(a)] \/ At(b) # At(a)
  <1>1. h[Up(b)] = h[Up(a)] => Up(b) = Up(a)
    BY SlotType DEF Sole
  <1> QED
    BY <1>1, UpOnce

LEMMA GrowTree ==
  ASSUME NEW h, NEW u, Sole(h, u), NEW t \in TableMap, NEW rt, NEW c, Tree(h, t, rt, c),
         NEW a \in Child, a \notin c, h[a] = None, h[Up(a)] # None, NEW f \in Frame, f \notin u
  PROVE  Tree(Put(h, a, f), Grown(t, f, h[Up(a)], At(a)), rt, c)
  <1> DEFINE g == h[Up(a)]
             t2 == Grown(t, f, g, At(a))
  <1>1. g \in Frame /\ g # f /\ At(a) \in Index /\ h \in Slots
    BY SoleType, SlotType, UpType
  <1>2. /\ t2[g][At(a)] = f /\ \A y \in Index : t2[f][y] = None
        /\ \A e \in Frame, y \in Index : e # f /\ (e # g \/ y # At(a)) => t2[e][y] = t[e][y]
    BY <1>1, GrownAt
  <1>3. \A b \in Child : Up(b) = a => h[b] = None /\ t2[f][At(b)] = None
    BY <1>2, NoneBelow, UpType
  <1>4. ASSUME NEW b \in Child, b # a, h[Up(b)] # None
        PROVE  t2[h[Up(b)]][At(b)] = t[h[Up(b)]][At(b)]
    <2>1. h[Up(b)] \in Frame /\ h[Up(b)] # f /\ At(b) \in Index
      BY <1>4, SoleType, SlotType, UpType
    <2>2. h[Up(b)] # g \/ At(b) # At(a)
      BY <1>4, OtherEntry
    <2> QED
      BY <1>2, <2>1, <2>2
  <1>5. f = IF a \in c \/ h[Up(a)] = None THEN None ELSE t2[h[Up(a)]][At(a)]
    BY <1>2
  <1> HIDE DEF t2
  <1>6. Tree(Put(h, a, f), t2, rt, c)
    BY <1>1, <1>3, <1>4, <1>5, TreeStep
  <1> QED
    BY <1>6 DEF t2

\* An entry of a page table; the places but that one stay hidden.
LEMMA WriteTree ==
  ASSUME NEW h, NEW u, Sole(h, u), NEW t \in TableMap, NEW rt, NEW c, NEW c2, Tree(h, t, rt, c),
         NEW a \in Child, \A b \in Child : Up(b) # a,
         a \notin c2, \A b \in Child : b # a => (b \in c2 <=> b \in c),
         h[Up(a)] # None, NEW v \in Frame \cup {None}
  PROVE  Tree(Put(h, a, v), Entered(t, h[Up(a)], At(a), v), rt, c2)
  <1> DEFINE g == h[Up(a)]
             t2 == Entered(t, g, At(a), v)
  <1>1. g \in Frame /\ At(a) \in Index /\ h \in Slots
    BY SoleType, SlotType, UpType
  <1>2. /\ t2[g][At(a)] = v
        /\ \A e \in Frame, y \in Index : e # g \/ y # At(a) => t2[e][y] = t[e][y]
    BY <1>1, EnteredAt, SMTT(60)
  <1>4. ASSUME NEW b \in Child, b # a, h[Up(b)] # None
        PROVE  t2[h[Up(b)]][At(b)] = t[h[Up(b)]][At(b)]
    <2>1. h[Up(b)] \in Frame /\ At(b) \in Index
      BY <1>4, SoleType, SlotType, UpType
    <2>2. h[Up(b)] # g \/ At(b) # At(a)
      BY <1>4, OtherEntry
    <2> QED
      BY <1>2, <2>1, <2>2
  <1>5. v = IF a \in c2 \/ h[Up(a)] = None THEN None ELSE t2[h[Up(a)]][At(a)]
    BY <1>2
  <1> HIDE DEF t2
  <1>6. Tree(Put(h, a, v), t2, rt, c2)
    BY <1>1, <1>4, <1>5, TreeStep
  <1> QED
    BY <1>6 DEF t2

\* A place is hidden, and with it others that hold none already.
LEMMA HideTree ==
  ASSUME NEW h, NEW u, Sole(h, u), NEW t, NEW t2, NEW rt, NEW c, NEW c2, Tree(h, t, rt, c),
         NEW a \in Child, a \in c2, c \subseteq c2,
         \A b \in Child : b \in c2 /\ b \notin c /\ b # a => h[b] = None,
         \A b \in Child : Up(b) = a => h[b] = None,
         \A f \in Frame : f # h[a] => t2[f] = t[f]
  PROVE  Tree(Put(h, a, None), t2, rt, c2)
  <1>1. h \in Slots
    BY SoleType
  <1>2. ASSUME NEW b \in Child, Up(b) # a, h[Up(b)] # None
        PROVE  t2[h[Up(b)]][At(b)] = t[h[Up(b)]][At(b)]
    <2>1. h[Up(b)] \in Frame /\ h[Up(b)] # h[a]
      <3>1. h[Up(b)] \in Frame /\ Up(b) \in Slot /\ a \in Slot
        BY <1>2, SoleType, SlotType
      <3> QED
        BY <1>2, <3>1 DEF Sole
    <2> QED
      BY <2>1
  <1> QED
    BY <1>1, <1>2, TreeStep

\* The tables do not depend on what is in hand.
LEMMA TreeHand ==
  ASSUME NEW h \in Slots, NEW t, NEW rt, NEW c, Tree(h, t, rt, c), NEW a \in Hand,
         NEW v \in Frame \cup {None}
  PROVE  Tree(Put(h, a, v), t, rt, c)
  <1> DEFINE g == Put(h, a, v)
  <1>1. a \in Slot
    BY DEF Slot
  <1>2. \A b \in Slot : b # a => g[b] = h[b]
    BY <1>1, PutAt
  <1>3. \A b \in Child : b # a /\ Up(b) # a /\ b \in Slot /\ Up(b) \in Slot
    BY Disjoint, UpType, SlotType
  <1>4. \A s \in Space : RootSlot(s) # a /\ RootSlot(s) \in Slot
    BY Disjoint, ChildType, SlotType
  <1> HIDE DEF g
  <1>5. Tree(g, t, rt, c)
    BY <1>2, <1>3, <1>4 DEF Tree
  <1> QED
    BY <1>5 DEF g

LEMMA SameTree ==
  ASSUME NEW h, NEW t, NEW rt, NEW c, Tree(h, t, rt, c), NEW h2,
         \A a \in Top \cup Child : h2[a] = h[a]
  PROVE  Tree(h2, t, rt, c)
  <1>1. \A a \in Child : Up(a) \in Top \cup Child
    BY UpType
  <1>2. \A s \in Space : RootSlot(s) \in Top
    BY ChildType
  <1> QED
    BY <1>1, <1>2 DEF Tree

LEMMA UserEntry ==
  ASSUME NEW p \in Proc, NEW b \in Child, Up(b) = RootSlot(p)
  PROVE  b = DirSlot(<<p, USER>>) /\ At(b) = USER
  <1>1. PICK o \in Own : b = DirSlot(o)
    BY ChildCases, UpAt, Apart
  <1>2. o[1] = p
    BY <1>1, UpAt, Apart
  <1>3. o \in Proc \X {USER}
    BY <1>2, SizeAssumption DEF Own
  <1> QED
    BY <1>1, <1>2, <1>3, UpAt

\* createAddressSpace(): a root whose user half is empty.
LEMMA NewRootTree ==
  ASSUME NEW h, NEW u, Sole(h, u), NEW t \in TableMap, NEW rt \in RootMap, NEW c, Tree(h, t, rt, c),
         NEW p \in Proc, h[RootSlot(p)] = None, NEW f \in Frame, f \notin u, NEW e, e[USER] = None
  PROVE  Tree(Put(h, RootSlot(p), f), [t EXCEPT ![f] = e], [rt EXCEPT ![p] = f], c)
  <1> DEFINE a == RootSlot(p)
             g == Put(h, a, f)
             t2 == [t EXCEPT ![f] = e]
             rt2 == [rt EXCEPT ![p] = f]
  <1>1. p \in Space /\ a \in Slot /\ a \notin Child
    BY ChildType, SlotType, Disjoint DEF Space
  <1>2. g[a] = f /\ \A b \in Slot : b # a => g[b] = h[b]
    BY <1>1, PutAt, SoleType
  <1>3. t2[f] = e /\ \A d \in Frame : d # f => t2[d] = t[d]
    BY DEF TableMap
  <1>4. rt2[p] = f /\ \A s \in Space : s # p => rt2[s] = rt[s]
    BY <1>1 DEF RootMap
  <1> HIDE DEF g, t2, rt2
  <1>5. \A s \in Space : g[RootSlot(s)] = rt2[s]
    <2>1. \A s \in Space : s # p => RootSlot(s) # a /\ RootSlot(s) \in Slot
      BY Apart, SlotType
    <2> QED
      BY <1>2, <1>4, <2>1 DEF Tree
  <1>6. ASSUME NEW b \in Child
        PROVE  g[b] = IF b \in c \/ g[Up(b)] = None THEN None ELSE t2[g[Up(b)]][At(b)]
    <2>1. h[b] = IF b \in c \/ h[Up(b)] = None THEN None ELSE t[h[Up(b)]][At(b)]
      BY DEF Tree
    <2>2. b \in Slot /\ Up(b) \in Slot /\ b # a
      BY <1>1, SlotType
    <2>3. CASE Up(b) = a
      BY <1>2, <1>3, <2>1, <2>2, <2>3, UserEntry
    <2>4. CASE Up(b) # a
      <3>1. h[Up(b)] # None => h[Up(b)] \in Frame /\ h[Up(b)] # f
        BY <2>2, SoleType
      <3> QED
        BY <1>2, <1>3, <2>1, <2>2, <2>4, <3>1
    <2> QED
      BY <2>3, <2>4
  <1>7. Tree(g, t2, rt2, c)
    BY <1>5, <1>6 DEF Tree
  <1> QED
    BY <1>7 DEF g, t2, rt2

\* destroyAddressSpace(), its last step: everything below the root is hidden.
LEMMA CutRootTree ==
  ASSUME NEW h, NEW u, Sole(h, u), NEW t \in TableMap, NEW rt \in RootMap, NEW c, Tree(h, t, rt, c),
         NEW p \in Proc, c = {b \in Child : b[2][1] = p}, h[RootSlot(p)] # None, NEW e
  PROVE  Tree(Put(h, RootSlot(p), None), [t EXCEPT ![h[RootSlot(p)]] = e], [rt EXCEPT ![p] = None], {})
  <1> DEFINE a == RootSlot(p)
             g == Put(h, a, None)
             t2 == [t EXCEPT ![h[a]] = e]
             rt2 == [rt EXCEPT ![p] = None]
  <1>1. p \in Space /\ a \in Slot /\ a \notin Child
    BY ChildType, SlotType, Disjoint DEF Space
  <1>2. g[a] = None /\ \A b \in Slot : b # a => g[b] = h[b]
    BY <1>1, PutAt, SoleType
  <1>3. \A d \in Frame : d # h[a] => t2[d] = t[d]
    BY DEF TableMap
  <1>4. rt2[p] = None /\ \A s \in Space : s # p => rt2[s] = rt[s]
    BY <1>1 DEF RootMap
  <1> HIDE DEF g, t2, rt2
  <1>5. \A s \in Space : g[RootSlot(s)] = rt2[s]
    <2>1. \A s \in Space : s # p => RootSlot(s) # a /\ RootSlot(s) \in Slot
      BY Apart, SlotType
    <2> QED
      BY <1>2, <1>4, <2>1 DEF Tree
  <1>6. ASSUME NEW b \in Child
        PROVE  g[b] = IF b \in {} \/ g[Up(b)] = None THEN None ELSE t2[g[Up(b)]][At(b)]
    <2>1. h[b] = IF b \in c \/ h[Up(b)] = None THEN None ELSE t[h[Up(b)]][At(b)]
      BY DEF Tree
    <2>2. b \in Slot /\ Up(b) \in Slot /\ b # a
      BY <1>1, SlotType
    <2>3. CASE Up(b) = a
      <3>1. b = DirSlot(<<p, USER>>)
        BY <2>3, UserEntry
      <3>2. b \in c
        BY <3>1 DEF DirSlot
      <3> QED
        BY <1>2, <2>1, <2>2, <2>3, <3>2
    <2>4. CASE Up(b) # a /\ b \in c
      <3>1. Up(b) \in Child /\ Up(b)[2] = b[2]
        <4>1. CASE \E o \in Own : b = DirSlot(o)
          <5>1. PICK o \in Own : b = DirSlot(o)
            BY <4>1
          <5>2. b[2] = o /\ o[1] = p
            BY <2>4, <5>1 DEF DirSlot
          <5> QED
            BY <2>4, <5>1, <5>2, UpAt
        <4>2. CASE \E o \in Own, k \in TableNo : b = TableSlot(o, k)
          BY <4>2, UpAt, ChildType DEF TableSlot, DirSlot
        <4>3. CASE \E o \in Own, k \in TableNo, x \in EntryNo : b = PageSlot(o, k, x)
          <5>1. PICK o \in Own, k \in TableNo, x \in EntryNo : b = PageSlot(o, k, x)
            BY <4>3
          <5>2. Up(b) = TableSlot(o, k)
            BY <5>1, UpAt
          <5>3. b[2] = o /\ TableSlot(o, k)[2] = o
            BY <5>1 DEF TableSlot, PageSlot
          <5> QED
            BY <5>2, <5>3, ChildType
        <4> QED
          BY <4>1, <4>2, <4>3, ChildCases
      <3>2. h[Up(b)] = None
        BY <2>4, <3>1 DEF Tree
      <3> QED
        BY <1>2, <2>1, <2>2, <2>4, <3>2
    <2>5. CASE Up(b) # a /\ b \notin c
      <3>1. h[Up(b)] # None => h[Up(b)] \in Frame /\ h[Up(b)] # h[a]
        BY <1>1, <2>2, <2>5 DEF Sole
      <3> QED
        BY <1>2, <1>3, <2>1, <2>2, <2>5, <3>1
    <2> QED
      BY <2>3, <2>4, <2>5
  <1>7. Tree(g, t2, rt2, {})
    BY <1>5, <1>6 DEF Tree
  <1> QED
    BY <1>7 DEF g, t2, rt2

-----------------------------------------------------------------------------
(* Numbers of pages, and the lowest of a set.                              *)

LEMMA DivMod ==
  ASSUME NEW n \in Int, NEW d \in Nat \ {0}
  PROVE  /\ n = d * (n \div d) + (n % d)
         /\ n % d \in 0..d-1 /\ n \div d \in Int
  OBVIOUS

LEMMA Times ==
  ASSUME NEW a \in Int, NEW b \in Int, NEW d \in Nat, a <= b
  PROVE  d * a <= d * b
  OBVIOUS

\* Page n is entry n % Entries of table n \div Entries.
LEMMA PageNoType ==
  ASSUME NEW n \in PageNo
  PROVE  n \in Nat /\ n < Dirs * Entries /\ n \div Entries \in TableNo /\ n % Entries \in EntryNo
  <1>1. Dirs \in Nat /\ Entries \in Nat \ {0} /\ Dirs * Entries \in Nat
    BY SizeAssumption
  <1>2. n \in Nat /\ n < Dirs * Entries
    BY <1>1 DEF PageNo
  <1>3. /\ n = Entries * (n \div Entries) + (n % Entries)
        /\ n % Entries \in 0..Entries-1 /\ n \div Entries \in Int
    BY <1>1, <1>2, DivMod
  <1> DEFINE q == n \div Entries
             r == n % Entries
  <1>4. q \in Int /\ r \in Nat /\ r < Entries /\ n = Entries * q + r
    BY <1>1, <1>3
  <1> HIDE DEF q, r
  <1>5. q < Dirs
    <2>1. SUFFICES ASSUME Dirs <= q PROVE FALSE
      BY <1>1, <1>4
    <2>2. Entries * Dirs <= Entries * q
      BY <1>1, <1>4, <2>1, Times
    <2>3. Entries * Dirs = Dirs * Entries /\ Entries * q \in Int
      BY <1>1, <1>4
    <2> QED
      BY <1>1, <1>2, <1>4, <2>2, <2>3
  <1>6. q >= 0
    <2>1. SUFFICES ASSUME q <= -1 PROVE FALSE
      BY <1>4
    <2>2. Entries * q <= Entries * (-1)
      BY <1>1, <1>4, <2>1, Times
    <2>3. Entries * (-1) = - Entries /\ Entries * q \in Int
      BY <1>1, <1>4
    <2> QED
      BY <1>1, <1>2, <1>4, <2>2, <2>3
  <1>7. q \in TableNo /\ r \in EntryNo
    BY <1>1, <1>4, <1>5, <1>6 DEF TableNo, EntryNo
  <1> QED
    BY <1>2, <1>7 DEF q, r

LEMMA PageNoOnce ==
  ASSUME NEW n \in PageNo, NEW m \in PageNo,
         n \div Entries = m \div Entries, n % Entries = m % Entries
  PROVE  n = m
  <1>1. n \in Int /\ m \in Int /\ Entries \in Nat \ {0}
    BY PageNoType, SizeAssumption
  <1>2. n = Entries * (n \div Entries) + (n % Entries)
    BY <1>1, DivMod
  <1>3. m = Entries * (m \div Entries) + (m % Entries)
    BY <1>1, DivMod
  <1> QED
    BY <1>2, <1>3

LEMMA DivOrder ==
  ASSUME NEW n \in PageNo, NEW m \in PageNo, n <= m
  PROVE  n \div Entries <= m \div Entries
  <1>1. Entries \in Nat \ {0} /\ n \in Nat /\ m \in Nat
    BY PageNoType, SizeAssumption
  <1>2. /\ n = Entries * (n \div Entries) + (n % Entries)
        /\ n % Entries \in 0..Entries-1 /\ n \div Entries \in Int
        /\ m = Entries * (m \div Entries) + (m % Entries)
        /\ m % Entries \in 0..Entries-1 /\ m \div Entries \in Int
    BY <1>1, DivMod
  <1> DEFINE q == n \div Entries
             s == m \div Entries
             e == n % Entries
             f == m % Entries
  <1>3. /\ q \in Int /\ s \in Int /\ e \in Nat /\ f \in Nat /\ f < Entries
        /\ n = Entries * q + e /\ m = Entries * s + f
    BY <1>1, <1>2
  <1> HIDE DEF q, s, e, f
  <1>4. q <= s
    <2>1. SUFFICES ASSUME s + 1 <= q PROVE FALSE
      BY <1>3
    <2>2. Entries * (s + 1) <= Entries * q
      BY <1>1, <1>3, <2>1, Times
    <2>3. Entries * (s + 1) = Entries * s + Entries /\ Entries * s \in Int /\ Entries * q \in Int
      BY <1>1, <1>3
    <2> QED
      BY <1>1, <1>3, <2>2, <2>3
  <1> QED
    BY <1>4 DEF q, s

\* A set of numbers has a least element.
LEMMA LowestIs ==
  ASSUME NEW S, S \subseteq Nat, S # {}
  PROVE  Lowest(S) \in S /\ \A y \in S : Lowest(S) <= y
  <1> DEFINE Below(c) == {d \in S : d < c}
             T == {Below(c) : c \in S}
  <1>1. T \subseteq FiniteSubsetsOf(Nat) /\ T # {}
    <2>1. ASSUME NEW c \in S PROVE Below(c) \in SUBSET Nat /\ IsFiniteSet(Below(c))
      <3>1. c \in Nat
        OBVIOUS
      <3>2. \A d \in Below(c) : d \in Nat /\ d \in 0..c
        BY <3>1
      <3>3. IsFiniteSet(0..c)
        BY <3>1, FS_Interval
      <3> QED
        BY <3>2, <3>3, FS_Subset
    <2> QED
      BY <2>1 DEF FiniteSubsetsOf
  <1>2. PICK t \in T : \A u \in T : <<u, t>> \notin StrictSubsetOrdering(Nat)
    <2>1. IsWellFoundedOn(StrictSubsetOrdering(Nat), FiniteSubsetsOf(Nat))
      BY FS_StrictSubsetOrderingWellFounded
    <2> HIDE DEF T
    <2> QED
      BY <1>1, <2>1, WFMin
  <1>3. PICK c \in S : t = Below(c)
    BY <1>2
  <1>4. ASSUME NEW e \in S, e < c PROVE FALSE
    <2>0. c \in Nat /\ e \in Nat /\ \A d \in S : d \in Nat
      OBVIOUS
    <2>1. Below(e) \subseteq t /\ e \in t /\ e \notin Below(e)
      <3>1. \A d \in S : d < e => d < c
        BY <1>4, <2>0
      <3>2. ~(e < e)
        BY <2>0
      <3> QED
        BY <1>3, <1>4, <3>1, <3>2
    <2>2. <<Below(e), t>> \in StrictSubsetOrdering(Nat)
      <3>1. Below(e) \in SUBSET Nat /\ t \in SUBSET Nat /\ Below(e) # t /\ Below(e) \subseteq t
        BY <1>3, <2>1
      <3> HIDE DEF Below
      <3> QED
        BY <3>1 DEF StrictSubsetOrdering
    <2> QED
      BY <1>2, <2>2
  <1>5. \A y \in S : c <= y
    BY <1>4
  <1> QED
    BY <1>5 DEF Lowest

-----------------------------------------------------------------------------
(* The inductive invariant, over what the places hold.                     *)

KS == <<K, STACKS>>
KH == <<K, HEAP>>

\* Where page m of a region of p is: the kernel stacks are in the shared half.
Where(p, r) == IF r = STACKS THEN KS ELSE <<p, USER>>
PageAt(h, o, m) == h[PageSlot(o, m \div Entries, m % Entries)]

\* The destroyer rp has process p in its hands, and is at its page tables.
Reaping(rp, p) == rp.do \in {"release", "free", "destroy", "destroyRoot"} /\ rp.p = p
Razing(rp, p) == rp.do \in {"destroy", "destroyRoot"} /\ rp.p = p

\* The kernel's half of every root.
KernelInv(t, rt, h) ==
  /\ rt[K] # None
  /\ h[DirSlot(KS)] # None /\ h[DirSlot(KH)] # None /\ h[TableSlot(KH, 0)] # None
  /\ \A p \in Proc : rt[p] # None => t[rt[p]][STACKS] = t[rt[K]][STACKS]

\* A process has a root from its creation to the end of its destruction, and
\* a directory once it is running.
LifeInv(rt, st, rp, h) ==
  \A p \in Proc :
    /\ rt[p] # None <=> st[p] \in {"created", "loaded", "kstack", "running"} \/ Reaping(rp, p)
    /\ Reaping(rp, p) => st[p] = "dead"
    /\ st[p] = "running" \/ (Reaping(rp, p) /\ rp.do # "destroyRoot") => h[DirSlot(<<p, USER>>)] # None

\* The loader maps one page after the other, those of a stack where none is
\* mapped; a frame of the program header being loaded was not yet replaced.
LoaderInv(ld, lo, st, h) ==
  ld # Idle =>
    /\ ld.left >= 1 /\ ld.n + ld.left <= Dirs * Entries
    /\ ld.do = "mapSegment" =>
         /\ st[ld.p] = "created" /\ ld.frame + ld.left <= NFrames
         /\ Segments(ld) \cap lo = {}
    /\ ld.do = "map" =>
         /\ st[ld.p] = IF ld.region = STACKS THEN "loaded" ELSE "kstack"
         /\ \A m \in PageNo : m >= ld.n /\ m < ld.n + ld.left => PageAt(h, Where(ld.p, ld.region), m) = None
         /\ ld.base <= ld.n
         /\ ld.base + PagesOf(ld.region) = ld.n + ld.left
         /\ ld.region = USER =>
              \A m \in PageNo : m >= ld.base /\ m < ld.n => PageAt(h, <<ld.p, USER>>, m) # None

\* The stacks p has: their pages are mapped, and no two kernel stacks are one.
HasKernel(st, rp, p) ==
  st[p] \in {"kstack", "running"} \/ (rp.do = "release" /\ rp.p = p /\ rp.region = STACKS)
HasUser(st, rp, p) ==
  st[p] = "running" \/ (rp.do \in {"release", "free"} /\ rp.p = p /\ rp.region = STACKS)
StackInv(st, sk, rp, h) ==
  /\ \A p \in Proc : HasKernel(st, rp, p) =>
       /\ sk[p].kernel \in PageNo
       /\ PageAt(h, KS, sk[p].kernel) # None
       /\ \A q \in Proc : HasKernel(st, rp, q) /\ q # p => sk[q].kernel # sk[p].kernel
  /\ \A p \in Proc : HasUser(st, rp, p) =>
       /\ sk[p].user \in PageNo /\ sk[p].user + StackPages <= Dirs * Entries
       /\ \A m \in PageNo : m >= sk[p].user /\ m < sk[p].user + StackPages =>
            PageAt(h, <<p, USER>>, m) # None

\* The destroyer unmaps pages that are mapped, one after the other.
ReaperInv(rp, sk, h) ==
  rp.do \in {"release", "free"} =>
    /\ rp.left >= 1 /\ rp.n + rp.left <= Dirs * Entries
    /\ rp.region = STACKS => rp.left = 1
    /\ rp.do = "release" /\ rp.region = STACKS => rp.n = sk[rp.p].kernel
    /\ rp.region = USER =>
         \A m \in PageNo : m > rp.n /\ m < rp.n + rp.left => PageAt(h, <<rp.p, USER>>, m) # None
    /\ rp.do = "release" /\ rp.region = USER => PageAt(h, <<rp.p, USER>>, rp.n) # None

\* Heap::physicalPages is what the heap's page table says.
HeapInv(t, hp, rp, h) ==
  /\ \A i \in HeapNo : t[h[TableSlot(KH, 0)]][i] = hp[i]
  /\ rp.do = "unmapHeap" => hp[rp.i] # None

IInv ==
  /\ TypeOK /\ Sole(H, used)
  /\ KernelInv(tab, root, H) /\ LifeInv(root, status, reaper, H)
  /\ LoaderInv(loader, lost, status, H)
  /\ StackInv(status, stacks, reaper, H) /\ ReaperInv(reaper, stacks, H)
  /\ HeapInv(tab, heap, reaper, H)

-----------------------------------------------------------------------------
(* What a state says of its tables.                                        *)

LEMMA StateType ==
  ASSUME TypeOK
  PROVE  /\ used \subseteq Frame /\ tab \in TableMap /\ root \in RootMap
         /\ status \in [Proc -> Status]
         /\ LoaderTyped(loader) /\ ReaperTyped(reaper)
  BY DEF TypeOK, TableMap, RootMap, LoaderTyped, ReaperTyped

LEMMA StateTree ==
  ASSUME TypeOK
  PROVE  /\ H \in Slots /\ Tree(H, tab, root, Gone(reaper)) /\ InHands(H, Claimed, reaper)
  BY StateType, HoldingTree DEF H

LEMMA StateNext ==
  ASSUME TypeOK', NEW h \in Slots, Tree(h, tab', root', Gone(reaper')), InHands(h, Claimed', reaper')
  PROVE  H' = h
  <1>1. tab' \in TableMap /\ root' \in RootMap /\ ReaperTyped(reaper')
    BY DEF TypeOK, TableMap, RootMap, ReaperTyped
  <1>2. Holding(tab', root', Claimed', reaper') = h
    BY <1>1, HoldingOnly
  <1> QED
    BY <1>2 DEF H

LEMMA OwnPlaces ==
  /\ KS \in Own /\ KH \in Own /\ KS # KH
  /\ \A p \in Proc : <<p, USER>> \in Own /\ <<p, USER>> # KS /\ <<p, USER>> # KH
  /\ \A p \in Proc, r \in {USER, STACKS} : Where(p, r) \in Own /\ Where(p, r) # KH
  /\ \A p, q \in Proc : <<p, USER>> = <<q, USER>> => p = q
  /\ 0 \in TableNo /\ 0 \in EntryNo
  <1>1. KS \in Own /\ KH \in Own /\ KS # KH
    BY DEF KS, KH, Own, STACKS, HEAP
  <1>2. \A p \in Proc : <<p, USER>> \in Own /\ <<p, USER>> # KS /\ <<p, USER>> # KH
    BY SizeAssumption DEF KS, KH, Own
  <1>3. 0 \in TableNo /\ 0 \in EntryNo
    BY SizeAssumption DEF TableNo, EntryNo
  <1> QED
    BY <1>1, <1>2, <1>3 DEF Where

\* What is not being destroyed is not hidden.
LEMMA Visible ==
  ASSUME NEW rp, ReaperTyped(rp), NEW o \in Own, ~Razing(rp, o[1])
  PROVE  /\ ~Hidden(rp, DirSlot(o))
         /\ \A k : ~Hidden(rp, TableSlot(o, k))
         /\ \A k, x : o # KH \/ rp.do # "unmapHeap" => ~Hidden(rp, PageSlot(o, k, x))
  <1>1. \A k, x : DirSlot(o) # PageSlot(<<K, HEAP>>, k, x)
    BY Apart
  <1>2. \A j, k, x : TableSlot(o, j) # PageSlot(<<K, HEAP>>, k, x)
    BY Apart
  <1>3. \A j, y, k, x : PageSlot(o, j, y) = PageSlot(<<K, HEAP>>, k, x) => o = KH
    BY Apart DEF KH
  <1>4. DirSlot(o)[2] = o /\ (\A k : TableSlot(o, k)[2] = o) /\ (\A k, x : PageSlot(o, k, x)[2] = o)
    BY DEF DirSlot, TableSlot, PageSlot
  <1> QED
    BY <1>1, <1>2, <1>3, <1>4 DEF Hidden, Razing

LEMMA KernelVisible ==
  ASSUME NEW rp, ReaperTyped(rp), NEW o \in {KS, KH}
  PROVE  ~Razing(rp, o[1])
  <1>1. o[1] = K
    BY DEF KS, KH
  <1>2. rp.do \in {"destroy", "destroyRoot"} => rp.p \in Proc
    BY ReaperCases
  <1> QED
    BY <1>1, <1>2, SizeAssumption DEF Razing

\* H of the places of o, as long as they are not hidden.
LEMMA HAt ==
  ASSUME TypeOK, NEW o \in Own, NEW k \in TableNo, NEW x \in EntryNo
  PROVE  /\ H[RootSlot(o[1])] = root[o[1]]
         /\ H[DirSlot(o)] = IF Hidden(reaper, DirSlot(o)) THEN None ELSE DirOf(tab, root, o)
         /\ H[TableSlot(o, k)] = IF Hidden(reaper, TableSlot(o, k)) THEN None ELSE TableOf(tab, root, o, k)
         /\ H[PageSlot(o, k, x)] = IF Hidden(reaper, PageSlot(o, k, x)) THEN None
                                   ELSE PageOf(tab, root, o, k, x)
  <1>1. HoldsAt(tab, root, Claimed, reaper)
    BY HoldAt
  <1>2. \A a \in Slot : H[a] = Hold(tab, root, Claimed, reaper, a)
    BY DEF H, Holding
  <1>3. RootSlot(o[1]) \in Slot /\ DirSlot(o) \in Slot /\ TableSlot(o, k) \in Slot /\ PageSlot(o, k, x) \in Slot
    BY SlotType, OwnType
  <1> QED
    BY <1>1, <1>2, <1>3 DEF HoldsAt

\* A process that is not being destroyed sees the kernel's half through its
\* own root.
LEMMA Way ==
  ASSUME TypeOK, KernelInv(tab, root, H), NEW p \in Proc, root[p] # None, NEW r \in {USER, STACKS},
         ~Razing(reaper, p), NEW k \in TableNo, NEW x \in EntryNo
  PROVE  /\ Where(p, r) \in Own /\ ~Razing(reaper, Where(p, r)[1])
         /\ DirOf(tab, root, <<p, r>>) = H[DirSlot(Where(p, r))]
         /\ TableOf(tab, root, <<p, r>>, k) = H[TableSlot(Where(p, r), k)]
         /\ PageOf(tab, root, <<p, r>>, k, x) = H[PageSlot(Where(p, r), k, x)]
  <1> DEFINE o == Where(p, r)
  <1>1. o \in Own /\ o # KH /\ ReaperTyped(reaper)
    BY OwnPlaces, StateType
  <1>2. ~Razing(reaper, o[1])
    BY <1>1, KernelVisible DEF Where
  <1>3. /\ ~Hidden(reaper, DirSlot(o)) /\ ~Hidden(reaper, TableSlot(o, k))
        /\ ~Hidden(reaper, PageSlot(o, k, x))
    BY <1>1, <1>2, Visible
  <1>4. /\ H[DirSlot(o)] = DirOf(tab, root, o)
        /\ H[TableSlot(o, k)] = TableOf(tab, root, o, k)
        /\ H[PageSlot(o, k, x)] = PageOf(tab, root, o, k, x)
    BY <1>1, <1>3, HAt
  <1>5. DirOf(tab, root, <<p, r>>) = DirOf(tab, root, o)
    BY DEF DirOf, Where, KS, KernelInv
  <1>6. TableOf(tab, root, <<p, r>>, k) = TableOf(tab, root, o, k)
    BY <1>5 DEF TableOf
  <1>7. PageOf(tab, root, <<p, r>>, k, x) = PageOf(tab, root, o, k, x)
    BY <1>6 DEF PageOf
  <1> QED
    BY <1>1, <1>2, <1>4, <1>5, <1>6, <1>7

LEMMA HeapWay ==
  ASSUME TypeOK
  PROVE  /\ HeapTable = H[TableSlot(KH, 0)]
         /\ \A i \in HeapNo : 0 \in TableNo /\ i \in EntryNo
  <1>1. 0 \div Entries = 0
    BY SizeAssumption
  <1>2. HeapTable = TableOf(tab, root, KH, 0)
    BY <1>1 DEF HeapTable, Table, KH
  <1>3. ~Hidden(reaper, TableSlot(KH, 0))
    BY StateType, OwnPlaces, KernelVisible, Visible
  <1> QED
    BY <1>2, <1>3, OwnPlaces, HAt, IndexOf

\* The frame the allocator gives.
LEMMA NextFrameIs ==
  ASSUME TypeOK, FreeRuns(1) # {}
  PROVE  NextFrame \in Frame /\ NextFrame \notin used
  <1>1. FreeRuns(1) \subseteq Nat
    BY DEF FreeRuns, Frame
  <1>2. NextFrame \in FreeRuns(1)
    BY <1>1, LowestIs DEF NextFrame
  <1>3. NextFrame \in Nat
    BY <1>1, <1>2
  <1>4. NextFrame \in NextFrame .. NextFrame+1-1
    BY <1>3
  <1> QED
    BY <1>2, <1>4 DEF FreeRuns

LEMMA FreeRunIs ==
  ASSUME TypeOK, NEW count \in Nat \ {0}, FreeRuns(count) # {}
  PROVE  /\ Lowest(FreeRuns(count)) \in Frame
         /\ Lowest(FreeRuns(count)) + count <= NFrames
         /\ \A f \in Lowest(FreeRuns(count)) .. Lowest(FreeRuns(count))+count-1 : f \in Frame /\ f \notin used
  <1> DEFINE n == Lowest(FreeRuns(count))
  <1>1. FreeRuns(count) \subseteq Nat
    BY DEF FreeRuns, Frame
  <1>2. n \in FreeRuns(count)
    BY <1>1, LowestIs
  <1>3. n \in Frame /\ n \in Nat /\ \A f \in n .. n+count-1 : f \in Frame \ used
    BY <1>1, <1>2 DEF FreeRuns
  <1> HIDE DEF n
  <1>4. n+count-1 \in n .. n+count-1
    BY <1>3
  <1>5. n+count-1 \in Frame
    BY <1>3, <1>4
  <1>6. n + count <= NFrames
    BY <1>3, <1>5, SizeAssumption DEF Frame
  <1> QED
    BY <1>3, <1>6 DEF n

-----------------------------------------------------------------------------
(* What a step that leaves most alone preserves.                           *)

LEMMA PagePlace ==
  ASSUME NEW o \in Own, NEW m \in PageNo
  PROVE  PageSlot(o, m \div Entries, m % Entries) \in Child /\ PageSlot(o, m \div Entries, m % Entries) \in Slot
  BY PageNoType, ChildType, SlotType

\* A page changes, or a place that is no page.
LEMMA PageChanged ==
  ASSUME NEW h \in Slots, NEW o \in Own, NEW n \in PageNo, NEW v \in Frame \cup {None}
  PROVE  /\ PageAt(Put(h, PageSlot(o, n \div Entries, n % Entries), v), o, n) = v
         /\ \A q \in Own, m \in PageNo : q # o \/ m # n =>
              PageAt(Put(h, PageSlot(o, n \div Entries, n % Entries), v), q, m) = PageAt(h, q, m)
  <1>1. \A q \in Own, m \in PageNo : q # o \/ m # n =>
          PageSlot(q, m \div Entries, m % Entries) # PageSlot(o, n \div Entries, n % Entries)
    BY Apart, PageNoOnce
  <1> QED
    BY <1>1, PagePlace, PutAt DEF PageAt

LEMMA PagesKept ==
  ASSUME NEW h \in Slots, NEW a \in Slot, NEW v \in Frame \cup {None},
         \A o, k, x : a # PageSlot(o, k, x)
  PROVE  \A q \in Own, m \in PageNo : PageAt(Put(h, a, v), q, m) = PageAt(h, q, m)
  BY PagePlace, PutAt DEF PageAt

LEMMA KernelKept ==
  ASSUME NEW t, NEW rt, NEW h, KernelInv(t, rt, h), NEW t2, NEW rt2, NEW h2, rt2[K] = rt[K],
         \A s \in Space : rt2[s] # None => rt2[s] = rt[s] /\ t2[rt[s]][STACKS] = t[rt[s]][STACKS],
         h2[DirSlot(KS)] = h[DirSlot(KS)], h2[DirSlot(KH)] = h[DirSlot(KH)],
         h2[TableSlot(KH, 0)] = h[TableSlot(KH, 0)]
  PROVE  KernelInv(t2, rt2, h2)
  <1>1. K \in Space /\ \A p \in Proc : p \in Space
    BY DEF Space
  <1> QED
    BY <1>1 DEF KernelInv

LEMMA HeapKept ==
  ASSUME NEW t, NEW hp, NEW rp, NEW h, HeapInv(t, hp, rp, h), NEW t2, NEW rp2, NEW h2,
         h2[TableSlot(KH, 0)] = h[TableSlot(KH, 0)],
         \A i \in HeapNo : t2[h[TableSlot(KH, 0)]][i] = t[h[TableSlot(KH, 0)]][i],
         rp2.do = "unmapHeap" => rp2 = rp
  PROVE  HeapInv(t2, hp, rp2, h2)
  BY DEF HeapInv

LEMMA LifeKept ==
  ASSUME NEW rt, NEW st, NEW rp, NEW h, LifeInv(rt, st, rp, h), NEW h2,
         \A p \in Proc : h[DirSlot(<<p, USER>>)] # None => h2[DirSlot(<<p, USER>>)] # None
  PROVE  LifeInv(rt, st, rp, h2)
  BY DEF LifeInv

LEMMA LoaderKept ==
  ASSUME NEW ld, NEW lo, LoaderTyped(ld), NEW st, NEW h, LoaderInv(ld, lo, st, h), NEW st2, NEW h2,
         ld # Idle => /\ st2[ld.p] = st[ld.p]
                      /\ \A m \in PageNo : PageAt(h, Where(ld.p, ld.region), m) = None
                                             => PageAt(h2, Where(ld.p, ld.region), m) = None
                      /\ \A m \in PageNo : PageAt(h, <<ld.p, USER>>, m) # None
                                             => PageAt(h2, <<ld.p, USER>>, m) # None
  PROVE  LoaderInv(ld, lo, st2, h2)
  BY DEF LoaderInv

LEMMA StackKept ==
  ASSUME NEW st, NEW sk, NEW rp, NEW h, StackInv(st, sk, rp, h), NEW st2, NEW sk2, NEW rp2, NEW h2,
         \A p \in Proc : HasKernel(st2, rp2, p) =>
           /\ HasKernel(st, rp, p) /\ sk2[p].kernel = sk[p].kernel
           /\ PageAt(h2, KS, sk[p].kernel) # None,
         \A p \in Proc : HasUser(st2, rp2, p) =>
           /\ HasUser(st, rp, p) /\ sk2[p].user = sk[p].user
           /\ \A m \in PageNo : PageAt(h, <<p, USER>>, m) # None => PageAt(h2, <<p, USER>>, m) # None
  PROVE  StackInv(st2, sk2, rp2, h2)
  BY DEF StackInv

LEMMA ReaperKept ==
  ASSUME NEW rp, ReaperTyped(rp), NEW sk, NEW h, ReaperInv(rp, sk, h), NEW sk2, NEW h2,
         rp.do \in {"release", "free"} =>
           /\ sk2[rp.p].kernel = sk[rp.p].kernel
           /\ \A m \in PageNo : PageAt(h, <<rp.p, USER>>, m) # None => PageAt(h2, <<rp.p, USER>>, m) # None
  PROVE  ReaperInv(rp, sk2, h2)
  <1>1. rp.do \in {"release", "free"} => rp.n \in PageNo
    BY ReaperCases
  <1> QED
    BY <1>1 DEF ReaperInv

\* No page changes, nor what the loader and the reaper are doing.
LEMMA AllKept ==
  ASSUME NEW st, NEW sk, NEW ld, NEW lo, NEW rp, NEW h, NEW h2, LoaderTyped(ld), ReaperTyped(rp),
         LoaderInv(ld, lo, st, h), StackInv(st, sk, rp, h), ReaperInv(rp, sk, h),
         \A q \in Own, m \in PageNo : PageAt(h2, q, m) = PageAt(h, q, m)
  PROVE  LoaderInv(ld, lo, st, h2) /\ StackInv(st, sk, rp, h2) /\ ReaperInv(rp, sk, h2)
  <1>1. LoaderInv(ld, lo, st, h2)
    <2>1. ld # Idle => ld.p \in Proc /\ ld.region \in {USER, STACKS}
      BY LoaderCases
    <2>2. ld # Idle => Where(ld.p, ld.region) \in Own /\ <<ld.p, USER>> \in Own
      BY <2>1, OwnPlaces
    <2> QED
      BY <2>2, LoaderKept
  <1>3. StackInv(st, sk, rp, h2)
    <2>1. \A p \in Proc : HasKernel(st, rp, p) => PageAt(h2, KS, sk[p].kernel) # None
      BY OwnPlaces DEF StackInv
    <2> QED
      BY <2>1, OwnPlaces, StackKept
  <1>4. ReaperInv(rp, sk, h2)
    <2>1. rp.do \in {"release", "free"} => <<rp.p, USER>> \in Own
      BY ReaperCases, OwnPlaces
    <2> QED
      BY <2>1, ReaperKept
  <1> QED
    BY <1>1, <1>3, <1>4

\* An entry of the table at a place changes: the entries elsewhere do not.
LEMMA EnteredKept ==
  ASSUME NEW h, NEW u, Sole(h, u), NEW t \in TableMap, NEW a \in Child, h[Up(a)] # None,
         NEW v \in Frame \cup {None}, NEW b \in Slot, h[b] # None, NEW x \in Index,
         b # Up(a) \/ x # At(a)
  PROVE  Entered(t, h[Up(a)], At(a), v)[h[b]][x] = t[h[b]][x]
  <1>1. h[Up(a)] \in Frame /\ h[b] \in Frame /\ At(a) \in Index /\ Up(a) \in Slot
    BY SoleType, SlotType, UpType
  <1>2. h[b] # h[Up(a)] \/ x # At(a)
    BY <1>1 DEF Sole
  <1> DEFINE g == h[Up(a)]
             k == At(a)
  <1>3. g \in Frame /\ k \in Index
    BY <1>1
  <1> HIDE DEF g, k
  <1>4. \A f \in Frame, y \in Index : f # g \/ y # k => Entered(t, g, k, v)[f][y] = t[f][y]
    BY <1>3, EnteredAt
  <1> QED
    BY <1>1, <1>2, <1>4 DEF g, k

LEMMA GrownKept ==
  ASSUME NEW h, NEW u, Sole(h, u), NEW t \in TableMap, NEW a \in Child, h[Up(a)] # None,
         NEW f \in Frame, f \notin u, NEW b \in Slot, h[b] # None, NEW x \in Index,
         b # Up(a) \/ x # At(a)
  PROVE  Grown(t, f, h[Up(a)], At(a))[h[b]][x] = t[h[b]][x]
  <1>1. /\ h[Up(a)] \in Frame /\ h[b] \in Frame /\ At(a) \in Index /\ Up(a) \in Slot
        /\ h[b] # f /\ h[Up(a)] # f
    BY SoleType, SlotType, UpType
  <1>2. h[b] # h[Up(a)] \/ x # At(a)
    BY <1>1 DEF Sole
  <1> DEFINE g == h[Up(a)]
             k == At(a)
  <1>3. g \in Frame /\ g # f /\ k \in Index
    BY <1>1
  <1> HIDE DEF g, k
  <1>4. \A e \in Frame, y \in Index : e # f /\ (e # g \/ y # k) => Grown(t, f, g, k)[e][y] = t[e][y]
    BY <1>3, GrownAt
  <1> QED
    BY <1>1, <1>2, <1>4 DEF g, k

-----------------------------------------------------------------------------
(* The steps of the loader.                                                *)

\* Where the loader is.
LEMMA LoaderAt ==
  ASSUME IInv, loader # Idle
  PROVE  /\ loader.p \in Proc /\ loader.region \in {USER, STACKS}
         /\ loader.n \in PageNo /\ loader.left \in Nat
         /\ loader.do \in {"map", "mapSegment"}
         /\ status[loader.p] \in {"created", "loaded", "kstack"} /\ ~Reaping(reaper, loader.p)
         /\ root[loader.p] # None
         /\ Where(loader.p, loader.region) \in Own /\ Where(loader.p, loader.region) # KH
         /\ ~Razing(reaper, Where(loader.p, loader.region)[1])
         /\ Dir(Here) = H[DirSlot(Where(loader.p, loader.region))]
         /\ \A k \in TableNo : TableOf(tab, root, Here, k) = H[TableSlot(Where(loader.p, loader.region), k)]
         /\ Table(Here, loader.n) = H[TableSlot(Where(loader.p, loader.region), loader.n \div Entries)]
  <1>1. /\ loader.p \in Proc /\ loader.region \in {USER, STACKS}
        /\ loader.n \in PageNo /\ loader.left \in Nat /\ loader.do \in {"map", "mapSegment"}
    BY StateType, LoaderCases DEF IInv
  <1>2. status[loader.p] \in {"created", "loaded", "kstack"}
    BY <1>1 DEF IInv, LoaderInv
  <1>3. root[loader.p] # None /\ ~Reaping(reaper, loader.p)
    BY <1>1, <1>2 DEF IInv, LifeInv
  <1>4. ~Razing(reaper, loader.p)
    BY <1>3 DEF Reaping, Razing
  <1>5. Where(loader.p, loader.region) \in Own /\ Where(loader.p, loader.region) # KH
    BY <1>1, OwnPlaces
  <1>6. 0 \in TableNo /\ 0 \in EntryNo
    BY OwnPlaces
  <1>7. TypeOK /\ KernelInv(tab, root, H)
    BY DEF IInv
  <1> DEFINE o == Where(loader.p, loader.region)
  <1>8. /\ ~Razing(reaper, o[1])
        /\ DirOf(tab, root, <<loader.p, loader.region>>) = H[DirSlot(o)]
    BY <1>1, <1>3, <1>4, <1>6, <1>7, Way
  <1>9. \A k \in TableNo : TableOf(tab, root, <<loader.p, loader.region>>, k) = H[TableSlot(o, k)]
    BY <1>1, <1>3, <1>4, <1>6, <1>7, Way
  <1>10. loader.n \div Entries \in TableNo
    BY <1>1, PageNoType
  <1> QED
    BY <1>1, <1>2, <1>3, <1>5, <1>8, <1>9, <1>10 DEF Here, Dir, Table

\* A table more: neither the loader nor the reaper see a page change.
LEMMA GrowStep ==
  ASSUME IInv, FreeRuns(1) # {}, NEW a \in Child, a \notin Gone(reaper), H[a] = None, H[Up(a)] # None,
         \A o, k, x : a # PageSlot(o, k, x), \A s \in Space : Up(a) # RootSlot(s) \/ At(a) # STACKS,
         Up(a) # TableSlot(KH, 0),
         Grow(H[Up(a)], At(a)), UNCHANGED <<root, status, stacks, heap, loader, reaper, lost>>
  PROVE  IInv'
  <1> DEFINE f == NextFrame
             g == H[Up(a)]
             x == At(a)
             h2 == Put(H, a, f)
  <1>0. /\ TypeOK /\ Sole(H, used) /\ tab \in TableMap /\ H \in Slots /\ a \in Slot /\ Up(a) \in Slot
        /\ x \in Index /\ LoaderTyped(loader) /\ ReaperTyped(reaper) /\ root \in RootMap
    BY StateType, StateTree, SlotType, UpType DEF IInv
  <1>1. f \in Frame /\ f \notin used /\ g \in Frame /\ g # f
    BY <1>0, NextFrameIs, SoleType
  <1>2. used' = used \cup {f} /\ tab' = Grown(tab, f, g, x)
    BY DEF Grow, Grown
  <1> HIDE DEF f, g
  <1>3. TypeOK'
    <2>1. tab' \in TableMap
      BY <1>0, <1>1, <1>2, GrownAt
    <2>2. used' \subseteq Frame
      BY <1>0, <1>1, <1>2 DEF TypeOK
    <2> QED
      BY <1>0, <2>1, <2>2 DEF TypeOK, TableMap
  <1>4. Sole(h2, used')
    BY <1>0, <1>1, <1>2, SolePut
  <1>5. Tree(h2, tab', root', Gone(reaper'))
    <2>1. Tree(H, tab, root, Gone(reaper))
      BY <1>0, StateTree
    <2>2. Tree(h2, Grown(tab, f, H[Up(a)], At(a)), root, Gone(reaper))
      BY <1>0, <1>1, <2>1, GrowTree
    <2> QED
      BY <1>2, <2>2 DEF g
  <1>6. h2 \in Slots /\ h2[a] = f /\ \A b \in Slot : b # a => h2[b] = H[b]
    BY <1>0, <1>1, PutAt
  <1>7. InHands(h2, Claimed', reaper')
    <2>1. InHands(H, Claimed, reaper)
      BY <1>0, StateTree
    <2>2. \A b \in Hand : b \in Slot /\ b # a
      BY Disjoint DEF Slot
    <2> QED
      BY <1>6, <2>1, <2>2, Disjoint DEF InHands, Claimed
  <1>8. H' = h2
    BY <1>3, <1>5, <1>6, <1>7, StateNext
  <1>9. \A q \in Own, m \in PageNo : PageAt(h2, q, m) = PageAt(H, q, m)
    BY <1>0, <1>1, PagesKept
  <1>10. \A b \in Slot : H[b] # None => h2[b] = H[b]
    BY <1>6
  <1> HIDE DEF h2
  <1>11. \A b \in Slot, y \in Index : H[b] # None /\ (b # Up(a) \/ y # x) => tab'[H[b]][y] = tab[H[b]][y]
    BY <1>0, <1>1, <1>2, GrownKept DEF g
  <1>12. KernelInv(tab', root', h2)
    <2>1. KernelInv(tab, root, H)
      BY DEF IInv
    <2>2. \A s \in Space : root[s] # None => tab'[root[s]][STACKS] = tab[root[s]][STACKS]
      <3>1. STACKS \in Index /\ \A s \in Space : RootSlot(s) \in Slot
        BY SlotType DEF Index
      <3>2. \A s \in Space : H[RootSlot(s)] = root[s]
        BY <1>0, StateTree DEF Tree
      <3> QED
        BY <1>11, <3>1, <3>2
    <2>3. DirSlot(KS) \in Slot /\ DirSlot(KH) \in Slot /\ TableSlot(KH, 0) \in Slot
      BY OwnPlaces, SlotType
    <2>4. /\ h2[DirSlot(KS)] = H[DirSlot(KS)] /\ h2[DirSlot(KH)] = H[DirSlot(KH)]
          /\ h2[TableSlot(KH, 0)] = H[TableSlot(KH, 0)]
      BY <1>10, <2>1, <2>3 DEF KernelInv
    <2> QED
      BY <2>1, <2>2, <2>4, KernelKept
  <1>13. HeapInv(tab', heap', reaper', h2)
    <2>1. HeapInv(tab, heap, reaper, H) /\ H[TableSlot(KH, 0)] # None
      BY DEF IInv, KernelInv
    <2>2. TableSlot(KH, 0) \in Slot /\ \A i \in HeapNo : i \in Index
      BY OwnPlaces, SlotType, IndexOf
    <2>3. \A i \in HeapNo : tab'[H[TableSlot(KH, 0)]][i] = tab[H[TableSlot(KH, 0)]][i]
      BY <1>11, <2>1, <2>2
    <2> QED
      BY <1>10, <2>1, <2>2, <2>3, HeapKept
  <1>14. LifeInv(root', status', reaper', h2)
    <2>1. \A p \in Proc : DirSlot(<<p, USER>>) \in Slot
      BY OwnPlaces, SlotType
    <2> QED
      BY <1>10, <2>1, LifeKept DEF IInv
  <1>15. /\ LoaderInv(loader', lost', status', h2)
         /\ StackInv(status', stacks', reaper', h2) /\ ReaperInv(reaper', stacks', h2)
    BY <1>0, <1>9, AllKept DEF IInv
  <1> QED
    BY <1>3, <1>4, <1>8, <1>12, <1>13, <1>14, <1>15 DEF IInv

LEMMA AddDirectoryStep ==
  ASSUME IInv, AddDirectory
  PROVE  IInv'
  <1> DEFINE p == loader.p
             o == Where(p, loader.region)
             a == DirSlot(<<p, USER>>)
  <1>1. /\ p \in Proc /\ loader.region \in {USER, STACKS} /\ root[p] # None
        /\ Dir(Here) = H[DirSlot(o)] /\ o \in Own /\ ~Razing(reaper, o[1])
    BY LoaderAt DEF AddDirectory
  <1>2. H[DirSlot(o)] = None
    BY <1>1 DEF AddDirectory
  <1>3. loader.region = USER /\ o = <<p, USER>>
    <2>1. loader.region # STACKS
      BY <1>1, <1>2 DEF Where, IInv, KernelInv
    <2> QED
      BY <1>1, <2>1 DEF Where
  <1>4. a \in Child /\ Up(a) = RootSlot(p) /\ At(a) = USER /\ H[Up(a)] = root[p] /\ H[a] = None
    <2>1. p \in Space
      BY <1>1 DEF Space
    <2>2. H[RootSlot(p)] = root[p]
      BY <2>1, StateTree DEF IInv, Tree
    <2> QED
      BY <1>1, <1>2, <1>3, <2>2, ChildType, UpAt
  <1>5. a \notin Gone(reaper)
    <2>1. ReaperTyped(reaper)
      BY StateType DEF IInv
    <2>2. ~Hidden(reaper, DirSlot(o))
      BY <1>1, <2>1, Visible
    <2> QED
      BY <1>3, <2>2 DEF Gone
  <1>6. /\ \A q, k, x : a # PageSlot(q, k, x)
        /\ Up(a) # TableSlot(KH, 0)
        /\ \A s \in Space : Up(a) # RootSlot(s) \/ At(a) # STACKS
    BY <1>4, Apart DEF USER, STACKS
  <1>7. Grow(H[Up(a)], At(a)) /\ FreeRuns(1) # {}
    BY <1>3, <1>4 DEF AddDirectory, Grow
  <1>8. UNCHANGED <<root, status, stacks, heap, loader, reaper, lost>>
    BY DEF AddDirectory
  <1> HIDE DEF a, o
  <1> QED
    BY <1>1, <1>4, <1>5, <1>6, <1>7, <1>8, GrowStep

\* The tables the loader needs are in its region.
LEMMA NeededType ==
  ASSUME IInv, loader # Idle
  PROVE  Needed \subseteq TableNo /\ loader.n \div Entries \in Needed
  <1>1. loader.n \in PageNo /\ loader.left \in Nat /\ loader.do \in {"map", "mapSegment"}
    BY LoaderAt
  <1>2. CASE loader.do = "mapSegment"
    BY <1>1, <1>2, PageNoType DEF Needed
  <1>3. CASE loader.do = "map"
    <2> DEFINE e == loader.base + PagesOf(loader.region) - 1
    <2>1. /\ loader.base + PagesOf(loader.region) = loader.n + loader.left
          /\ loader.left >= 1 /\ loader.n + loader.left <= Dirs * Entries
      BY <1>3, LoaderAt DEF IInv, LoaderInv
    <2>2. loader.base \in Nat /\ PagesOf(loader.region) \in Nat /\ loader.n \in Nat /\ Dirs * Entries \in Nat
      <3>1. loader.base \in PageNo
        BY <1>3, StateType, LoaderCases DEF IInv
      <3> QED
        BY <1>1, <3>1, PageNoType, SizeAssumption DEF PagesOf
    <2>3. e \in PageNo /\ loader.n <= e
      BY <1>1, <2>1, <2>2 DEF PageNo
    <2>4. e \div Entries \in TableNo /\ loader.n \div Entries <= e \div Entries
          /\ loader.n \div Entries \in TableNo
      BY <1>1, <2>3, PageNoType, DivOrder
    <2>5. Needed = 0 .. e \div Entries
      BY <1>3 DEF Needed
    <2> HIDE DEF e
    <2>6. Dirs \in Nat
      BY SizeAssumption
    <2> QED
      BY <2>4, <2>5, <2>6 DEF TableNo
  <1> QED
    BY <1>1, <1>2, <1>3

LEMMA AddTableStep ==
  ASSUME IInv, AddTable
  PROVE  IInv'
  <1> DEFINE o == Where(loader.p, loader.region)
             k == Lowest(Missing)
             a == TableSlot(o, k)
  <1>1. /\ o \in Own /\ o # KH /\ ~Razing(reaper, o[1])
        /\ Dir(Here) = H[DirSlot(o)]
        /\ \A j \in TableNo : TableOf(tab, root, Here, j) = H[TableSlot(o, j)]
    BY LoaderAt DEF AddTable
  <1>2. k \in TableNo /\ H[a] = None
    <2>1. Missing \subseteq TableNo /\ TableNo \subseteq Nat
      BY NeededType DEF Missing, AddTable, TableNo
    <2>2. k \in Missing
      BY <2>1, LowestIs DEF AddTable
    <2>3. TableOf(tab, root, Here, k) = None /\ k \in TableNo
      BY <2>1, <2>2 DEF Missing
    <2> QED
      BY <1>1, <2>3
  <1> HIDE DEF k, o
  <1>4. a \in Child /\ Up(a) = DirSlot(o) /\ At(a) = k /\ H[Up(a)] # None
    BY <1>1, <1>2, ChildType, UpAt DEF AddTable
  <1>5. a \notin Gone(reaper)
    <2>1. ReaperTyped(reaper)
      BY StateType DEF IInv
    <2>2. ~Hidden(reaper, a)
      BY <1>1, <2>1, Visible
    <2> QED
      BY <2>2 DEF Gone
  <1>6. /\ \A q, j, x : a # PageSlot(q, j, x)
        /\ Up(a) # TableSlot(KH, 0)
        /\ \A s \in Space : Up(a) # RootSlot(s) \/ At(a) # STACKS
    BY <1>4, Apart
  <1>7. Grow(H[Up(a)], At(a)) /\ FreeRuns(1) # {}
    BY <1>1, <1>4 DEF AddTable, Grow, k
  <1>8. UNCHANGED <<root, status, stacks, heap, loader, reaper, lost>>
    BY DEF AddTable
  <1> HIDE DEF a
  <1> QED
    BY <1>2, <1>4, <1>5, <1>6, <1>7, <1>8, GrowStep

\* To know what the places hold after a step, it is enough that it fits the
\* tables.
LEMMA NextInv ==
  ASSUME TypeOK', NEW h \in Slots, Tree(h, tab', root', Gone(reaper')), InHands(h, Claimed', reaper'),
         Sole(h, used'), KernelInv(tab', root', h), LifeInv(root', status', reaper', h),
         LoaderInv(loader', lost', status', h),
         StackInv(status', stacks', reaper', h), ReaperInv(reaper', stacks', h),
         HeapInv(tab', heap', reaper', h)
  PROVE  IInv'
  <1>1. H' = h
    BY StateNext
  <1> QED
    BY <1>1 DEF IInv

\* What is in hand is as before.
LEMMA HandsKept ==
  ASSUME NEW h \in Slots, NEW cl, NEW rp, InHands(h, cl, rp), NEW a \in Top \cup Child,
         NEW v \in Frame \cup {None}, NEW rp2,
         rp.do # "free", rp2.do # "free"
  PROVE  InHands(Put(h, a, v), cl, rp2)
  <1>1. a \in Slot /\ \A b \in Hand : b \in Slot /\ b # a
    BY Disjoint DEF Slot
  <1>2. \A b \in Hand : Put(h, a, v)[b] = h[b]
    BY <1>1, PutAt
  <1> QED
    BY <1>2, Disjoint DEF InHands

LEMMA HandsSame ==
  ASSUME NEW h \in Slots, NEW cl, NEW rp, InHands(h, cl, rp), NEW a \in Top \cup Child,
         NEW v \in Frame \cup {None}
  PROVE  InHands(Put(h, a, v), cl, rp)
  <1>1. a \in Slot /\ \A b \in Hand : b \in Slot /\ b # a
    BY Disjoint DEF Slot
  <1>2. \A b \in Hand : Put(h, a, v)[b] = h[b]
    BY <1>1, PutAt
  <1> QED
    BY <1>2, Disjoint DEF InHands

LEMMA CreateProcessStep ==
  ASSUME IInv, NEW p \in Proc, CreateProcess(p)
  PROVE  IInv'
  <1> DEFINE f == NextFrame
             a == RootSlot(p)
             e == [tab[root[K]] EXCEPT ![USER] = None]
             h2 == Put(H, a, f)
  <1>0. /\ TypeOK /\ Sole(H, used) /\ tab \in TableMap /\ H \in Slots /\ p \in Space
        /\ LoaderTyped(loader) /\ ReaperTyped(reaper) /\ root \in RootMap
        /\ status \in [Proc -> Status]
        /\ Tree(H, tab, root, Gone(reaper)) /\ InHands(H, Claimed, reaper)
    BY StateType, StateTree DEF IInv, Space
  <1>1. f \in Frame /\ f \notin used
    BY <1>0, NextFrameIs DEF CreateProcess
  <1>2. /\ used' = used \cup {f} /\ root' = [root EXCEPT ![p] = f] /\ tab' = [tab EXCEPT ![f] = e]
        /\ status' = [status EXCEPT ![p] = "created"] /\ status[p] = "unborn" /\ loader = Idle
        /\ UNCHANGED <<stacks, heap, loader, reaper, lost>>
    BY DEF CreateProcess
  <1>3. /\ root[K] \in Frame /\ e \in [Index -> Frame \cup {None}] /\ e[USER] = None
        /\ e[STACKS] = tab[root[K]][STACKS]
    <2>1. root[K] \in Frame /\ K \in Space
      BY <1>0 DEF IInv, KernelInv, RootMap, Space
    <2>2. tab[root[K]] \in [Index -> Frame \cup {None}]
      BY <1>0, <2>1 DEF TableMap
    <2>3. USER \in Index /\ STACKS \in Index /\ USER # STACKS
      BY DEF Index, USER, STACKS
    <2> QED
      BY <2>1, <2>2, <2>3
  <1> HIDE DEF f, e
  <1>4. tab'[f] = e /\ \A d \in Frame : d # f => tab'[d] = tab[d]
    BY <1>0, <1>1, <1>2 DEF TableMap
  <1>5. root'[p] = f /\ \A s \in Space : s # p => root'[s] = root[s]
    BY <1>0, <1>2 DEF RootMap
  <1>6. status'[p] = "created" /\ \A q \in Proc : q # p => status'[q] = status[q]
    BY <1>0, <1>2
  <1>7. TypeOK'
    <2>1. tab' \in TableMap
      BY <1>0, <1>1, <1>2, <1>3 DEF TableMap
    <2>2. root' \in RootMap
      BY <1>0, <1>1, <1>2 DEF RootMap
    <2>3. status' \in [Proc -> Status]
      BY <1>0, <1>2 DEF Status
    <2>4. used' \subseteq Frame
      BY <1>0, <1>1, <1>2 DEF TypeOK
    <2> QED
      BY <1>0, <1>2, <2>1, <2>2, <2>3, <2>4 DEF TypeOK, TableMap, RootMap
  <1>8. ~Reaping(reaper, p) /\ root[p] = None /\ H[a] = None
    <2>1. root[p] = None /\ ~Reaping(reaper, p)
      BY <1>2 DEF IInv, LifeInv
    <2> QED
      BY <1>0, <2>1 DEF Tree
  <1>9. a \in Slot /\ a \in Top /\ \A b \in Child : b # a /\ b \in Slot
    BY <1>0, SlotType, ChildType, Disjoint
  <1>10. Sole(h2, used')
    BY <1>0, <1>1, <1>2, <1>8, <1>9, SolePut
  <1>11. Tree(h2, tab', root', Gone(reaper'))
    BY <1>0, <1>1, <1>2, <1>3, <1>8, NewRootTree
  <1>12. InHands(h2, Claimed', reaper')
    <2>1. Claimed' = Claimed
      BY <1>2 DEF Claimed, Segments
    <2> QED
      BY <1>0, <1>1, <1>2, <1>9, <2>1, HandsSame
  <1>13. h2 \in Slots /\ \A b \in Child : h2[b] = H[b]
    BY <1>0, <1>1, <1>9, PutAt
  <1>14. \A q \in Own, m \in PageNo : PageAt(h2, q, m) = PageAt(H, q, m)
    BY <1>13, PagePlace DEF PageAt
  <1> HIDE DEF h2
  <1>15. KernelInv(tab', root', h2)
    <2>1. KernelInv(tab, root, H) /\ DirSlot(KS) \in Child /\ DirSlot(KH) \in Child
          /\ TableSlot(KH, 0) \in Child
      BY OwnPlaces, ChildType DEF IInv
    <2>2. \A s \in Space : root[s] # None => root[s] \in Frame /\ root[s] # f
      <3>1. \A s \in Space : H[RootSlot(s)] = root[s] /\ RootSlot(s) \in Slot
        BY <1>0, SlotType DEF Tree
      <3> QED
        BY <1>0, <1>1, <3>1, SoleType
    <2>3. K # p /\ K \in Space /\ root'[K] = root[K] /\ tab'[root[K]] = tab[root[K]]
      BY <1>3, <1>4, <1>5, <2>1, <2>2, SizeAssumption DEF KernelInv, Space
    <2>4. ASSUME NEW q \in Proc, root'[q] # None PROVE tab'[root'[q]][STACKS] = tab'[root'[K]][STACKS]
      <3>1. q \in Space
        BY DEF Space
      <3> QED
        BY <1>3, <1>4, <1>5, <2>1, <2>2, <2>3, <2>4, <3>1 DEF KernelInv
    <2> QED
      BY <1>13, <2>1, <2>3, <2>4 DEF KernelInv
  <1>16. HeapInv(tab', heap', reaper', h2)
    <2>1. HeapInv(tab, heap, reaper, H) /\ H[TableSlot(KH, 0)] # None /\ TableSlot(KH, 0) \in Child
      BY OwnPlaces, ChildType DEF IInv, KernelInv
    <2>2. H[TableSlot(KH, 0)] \in Frame /\ H[TableSlot(KH, 0)] # f
      BY <1>0, <1>1, <1>9, <2>1, SoleType
    <2>3. tab'[H[TableSlot(KH, 0)]] = tab[H[TableSlot(KH, 0)]]
      BY <1>4, <2>2
    <2> QED
      BY <1>2, <1>13, <2>1, <2>3, HeapKept
  <1>17. LifeInv(root', status', reaper', h2)
    <2>1. \A q \in Proc : q \in Space /\ h2[DirSlot(<<q, USER>>)] = H[DirSlot(<<q, USER>>)]
      BY <1>13, OwnPlaces, ChildType DEF Space
    <2>2. f # None
      BY <1>1, IndexOf
    <2> QED
      BY <1>2, <1>5, <1>6, <1>8, <2>1, <2>2 DEF LifeInv, IInv
  <1>18. LoaderInv(loader', lost', status', h2)
    BY <1>2 DEF LoaderInv
  <1>20. StackInv(status', stacks', reaper', h2)
    <2>1. StackInv(status, stacks, reaper, H)
      BY DEF IInv
    <2>2. \A q \in Proc : HasKernel(status', reaper', q) => HasKernel(status, reaper, q)
      BY <1>2, <1>6, <1>8 DEF HasKernel, Reaping
    <2>3. \A q \in Proc : HasUser(status', reaper', q) => HasUser(status, reaper, q)
      BY <1>2, <1>6, <1>8 DEF HasUser, Reaping
    <2>4. \A q \in Proc : HasKernel(status, reaper, q) => PageAt(h2, KS, stacks[q].kernel) # None
      BY <1>14, <2>1, OwnPlaces DEF StackInv
    <2>5. \A q \in Proc, m \in PageNo : PageAt(h2, <<q, USER>>, m) = PageAt(H, <<q, USER>>, m)
      BY <1>14, OwnPlaces
    <2>6. \A q \in Proc : HasKernel(status, reaper, q) => stacks[q].kernel \in PageNo
      BY <2>1 DEF StackInv
    <2>7. \A q \in Proc : HasKernel(status, reaper, q) => PageAt(h2, KS, stacks[q].kernel) # None
      BY <1>14, <2>4, <2>6, OwnPlaces
    <2>8. \A q \in Proc : HasKernel(status', reaper', q) =>
            /\ HasKernel(status, reaper, q) /\ stacks'[q].kernel = stacks[q].kernel
            /\ PageAt(h2, KS, stacks[q].kernel) # None
      BY <1>2, <2>2, <2>7
    <2>9. \A q \in Proc : HasUser(status', reaper', q) =>
            /\ HasUser(status, reaper, q) /\ stacks'[q].user = stacks[q].user
            /\ \A m \in PageNo : PageAt(H, <<q, USER>>, m) # None => PageAt(h2, <<q, USER>>, m) # None
      BY <1>2, <2>3, <2>5
    <2> QED
      BY <2>1, <2>8, <2>9, StackKept
  <1>21. ReaperInv(reaper', stacks', h2)
    <2>1. reaper.do \in {"release", "free"} => <<reaper.p, USER>> \in Own
      BY <1>0, ReaperCases, OwnPlaces
    <2> QED
      BY <1>0, <1>2, <1>14, <2>1, ReaperKept DEF IInv
  <1> QED
    BY <1>7, <1>10, <1>11, <1>12, <1>13, <1>15, <1>16, <1>17, <1>18, <1>20, <1>21, NextInv

\* Pages are only added, and nobody gets a stack.
LEMMA StackMore ==
  ASSUME NEW st, NEW sk, NEW rp, NEW h, StackInv(st, sk, rp, h), NEW st2, NEW rp2, NEW h2,
         \A p \in Proc : HasKernel(st2, rp2, p) => HasKernel(st, rp, p),
         \A p \in Proc : HasUser(st2, rp2, p) => HasUser(st, rp, p),
         \A q \in Own, m \in PageNo : PageAt(h, q, m) # None => PageAt(h2, q, m) # None
  PROVE  StackInv(st2, sk, rp2, h2)
  <1>1. \A p \in Proc : HasKernel(st, rp, p) => PageAt(h2, KS, sk[p].kernel) # None
    BY OwnPlaces DEF StackInv
  <1>2. \A p \in Proc : HasKernel(st2, rp2, p) =>
          /\ HasKernel(st, rp, p) /\ sk[p].kernel = sk[p].kernel
          /\ PageAt(h2, KS, sk[p].kernel) # None
    BY <1>1
  <1>3. \A p \in Proc : HasUser(st2, rp2, p) =>
          /\ HasUser(st, rp, p) /\ sk[p].user = sk[p].user
          /\ \A m \in PageNo : PageAt(h, <<p, USER>>, m) # None => PageAt(h2, <<p, USER>>, m) # None
    BY OwnPlaces
  <1> QED
    BY <1>2, <1>3, StackKept

LEMMA ReaperMore ==
  ASSUME NEW rp, ReaperTyped(rp), NEW sk, NEW h, ReaperInv(rp, sk, h), NEW sk2, NEW h2,
         rp.do \in {"release", "free"} => sk2[rp.p].kernel = sk[rp.p].kernel,
         \A q \in Own, m \in PageNo : PageAt(h, q, m) # None => PageAt(h2, q, m) # None
  PROVE  ReaperInv(rp, sk2, h2)
  <1>1. rp.do \in {"release", "free"} => <<rp.p, USER>> \in Own
    BY ReaperCases, OwnPlaces
  <1> QED
    BY <1>1, ReaperKept

\* The loader takes frames.
Hands(h, F) == [a \in Slot |-> IF a \in {LoaderSlot(f) : f \in F} THEN a[2] ELSE h[a]]

LEMMA SoleHands ==
  ASSUME NEW h, NEW u, Sole(h, u), NEW F, F \subseteq Frame, \A f \in F : f \notin u,
         \A f \in F : h[LoaderSlot(f)] = None
  PROVE  /\ Hands(h, F) \in Slots
         /\ \A f \in F : Hands(h, F)[LoaderSlot(f)] = f
         /\ \A a \in Slot : (\A f \in F : a # LoaderSlot(f)) => Hands(h, F)[a] = h[a]
         /\ Sole(Hands(h, F), u \cup F)
  <1> DEFINE g == Hands(h, F)
  <1>1. \A f \in F : f \in Frame /\ LoaderSlot(f) \in Slot /\ LoaderSlot(f)[2] = f /\ f # None
    BY SlotType, IndexOf DEF LoaderSlot
  <1>2. \A f \in F : g[LoaderSlot(f)] = f
    BY <1>1 DEF Hands
  <1>3. \A a \in Slot : (\A f \in F : a # LoaderSlot(f)) => g[a] = h[a]
    BY DEF Hands
  <1>4. g = [a \in Slot |-> g[a]]
    BY DEF Hands
  <1> HIDE DEF g
  <1>5. \A a \in Slot : \/ g[a] = h[a] /\ g[a] \in u \cup {None}
                        \/ \E f \in F : a = LoaderSlot(f) /\ g[a] = f
    BY <1>2, <1>3 DEF Sole
  <1>6. g \in Slots
    <2>1. \A a \in Slot : g[a] \in Frame \cup {None}
      BY <1>1, <1>5 DEF Sole
    <2> QED
      BY <1>4, <2>1 DEF Slots
  <1>7. \A a \in Slot : g[a] \in (u \cup F) \cup {None}
    BY <1>5
  <1>8. ASSUME NEW a \in Slot, NEW b \in Slot, g[a] = g[b], g[a] # None PROVE a = b
    <2>1. CASE \E f \in F : a = LoaderSlot(f) /\ g[a] = f
      <3>1. PICK f \in F : a = LoaderSlot(f) /\ g[a] = f
        BY <2>1
      <3>2. ~(g[b] \in u \cup {None})
        BY <1>1, <1>8, <3>1
      <3> QED
        BY <1>5, <1>8, <3>1, <3>2
    <2>2. CASE g[a] = h[a] /\ g[a] \in u \cup {None}
      <3>1. g[b] = h[b]
        BY <1>5, <1>8, <2>2
      <3> QED
        BY <1>8, <2>2, <3>1 DEF Sole
    <2> QED
      BY <1>5, <2>1, <2>2
  <1>9. ASSUME NEW e \in u \cup F PROVE \E a \in Slot : g[a] = e
    <2>1. CASE e \in F
      BY <1>1, <1>2, <2>1
    <2>2. CASE e \in u
      <3>1. PICK a \in Slot : h[a] = e
        BY <2>2 DEF Sole
      <3>2. e # None
        BY <2>2, IndexOf DEF Sole
      <3>3. \A f \in F : a # LoaderSlot(f)
        BY <3>1, <3>2
      <3> QED
        BY <1>3, <3>1, <3>3
    <2> QED
      BY <2>1, <2>2
  <1>10. Sole(g, u \cup F)
    BY <1>6, <1>7, <1>8, <1>9 DEF Sole
  <1> QED
    BY <1>2, <1>3, <1>6, <1>10 DEF g

LEMMA AllocSegmentStep ==
  ASSUME IInv, NEW p \in Proc, NEW h \in Headers, AllocSegment(p, h)
  PROVE  IInv'
  <1> DEFINE v == h[1]
             pages == h[2]
             f == Lowest(FreeRuns(pages))
             F == f .. f+pages-1
             h2 == Hands(H, F)
  <1>0. /\ TypeOK /\ Sole(H, used) /\ H \in Slots
        /\ LoaderTyped(loader) /\ ReaperTyped(reaper)
        /\ Tree(H, tab, root, Gone(reaper)) /\ InHands(H, Claimed, reaper)
    BY StateType, StateTree DEF IInv
  <1>1. /\ loader = Idle /\ status[p] = "created" /\ used' = used \cup F
        /\ loader' = Segment(p, h, f)
        /\ UNCHANGED <<tab, root, status, stacks, heap, reaper, lost>>
    BY DEF AllocSegment
  <1>2. v \in Nat /\ pages \in Nat /\ pages \in Nat \ {0} /\ pages >= 1 /\ v + pages <= Dirs * Entries
    BY SizeAssumption
  <1>3. f \in Frame /\ f + pages <= NFrames /\ \A e \in F : e \in Frame /\ e \notin used
    BY <1>0, <1>2, FreeRunIs DEF AllocSegment
  <1>4. v \in PageNo
    <2>1. Dirs * Entries \in Nat
      BY SizeAssumption
    <2> QED
      BY <1>2, <2>1 DEF PageNo
  <1> HIDE DEF f, v, pages
  <1>5. loader' = [do |-> "mapSegment", p |-> p, region |-> USER, n |-> v, left |-> pages, frame |-> f]
    BY <1>1 DEF Segment, v, pages
  <1>6. /\ loader' # Idle /\ loader'.do = "mapSegment" /\ loader'.p = p /\ loader'.region = USER
        /\ loader'.n = v /\ loader'.left = pages /\ loader'.frame = f
    <2>1. /\ loader'.do = "mapSegment" /\ loader'.p = p /\ loader'.region = USER
          /\ loader'.n = v /\ loader'.left = pages /\ loader'.frame = f
      BY <1>5
    <2>2. Idle.do = "idle"
      BY DEF Idle
    <2> QED
      BY <2>1, <2>2
  <1>7. TypeOK'
    <2>1. loader' \in LoaderOp
      BY <1>2, <1>3, <1>4, <1>5 DEF LoaderOp
    <2>2. used' \subseteq Frame
      BY <1>0, <1>1, <1>3 DEF TypeOK
    <2> QED
      BY <1>0, <1>1, <2>1, <2>2 DEF TypeOK
  <1>8. Segments(loader) = {} /\ Segments(loader') = F
    BY <1>1, <1>6 DEF Segments, Idle
  <1>9. /\ F \subseteq Frame /\ \A e \in F : LoaderSlot(e) \in Slot
        /\ \A e \in F : H[LoaderSlot(e)] \in used \cup {None} /\ e \notin used
    BY <1>0, <1>3, SlotType DEF Sole
  <1>10. \A e \in F : e \notin lost /\ H[LoaderSlot(e)] = None
    <2>1. \A e \in F : H[LoaderSlot(e)] = IF e \in Claimed THEN e ELSE None
      BY <1>0, <1>9 DEF InHands
    <2>2. \A e \in F : e \in Frame /\ e # None
      BY <1>9, IndexOf
    <2>3. \A e \in F : e \notin Claimed
      BY <1>9, <2>1, <2>2
    <2> QED
      BY <2>1, <2>3 DEF Claimed
  <1>11. Claimed' = Claimed \cup F
    BY <1>1, <1>8 DEF Claimed
  <1> HIDE DEF F
  <1>12. /\ h2 \in Slots /\ Sole(h2, used')
         /\ \A e \in F : h2[LoaderSlot(e)] = e
         /\ \A a \in Slot : (\A e \in F : a # LoaderSlot(e)) => h2[a] = H[a]
    <2>1. Sole(H, used) /\ F \subseteq Frame /\ (\A e \in F : e \notin used)
          /\ (\A e \in F : H[LoaderSlot(e)] = None)
      BY <1>0, <1>9, <1>10
    <2>2. Hands(H, F) \in Slots
      BY <2>1, SoleHands
    <2>3. \A e \in F : Hands(H, F)[LoaderSlot(e)] = e
      BY <2>1, SoleHands
    <2>4. \A a \in Slot : (\A e \in F : a # LoaderSlot(e)) => Hands(H, F)[a] = H[a]
      BY DEF Hands
    <2>5. Sole(Hands(H, F), used \cup F)
      BY <2>1, SoleHands
    <2> QED
      BY <1>1, <2>2, <2>3, <2>4, <2>5
  <1> HIDE DEF h2
  <1>13. \A a \in Top \cup Child : a \in Slot /\ h2[a] = H[a]
    <2>1. \A a \in Top \cup Child : a \in Slot /\ a \notin Hand
      BY Disjoint DEF Slot
    <2>2. \A e \in F : LoaderSlot(e) \in Hand
      BY <1>9, Disjoint
    <2> QED
      BY <1>12, <2>1, <2>2
  <1>14. Tree(h2, tab', root', Gone(reaper'))
    BY <1>0, <1>1, <1>13, SameTree
  <1>15. InHands(h2, Claimed', reaper')
    <2>1. ASSUME NEW e \in Frame PROVE h2[LoaderSlot(e)] = IF e \in Claimed' THEN e ELSE None
      <3>1. LoaderSlot(e) \in Slot /\ H[LoaderSlot(e)] = IF e \in Claimed THEN e ELSE None
        BY <1>0, SlotType DEF InHands
      <3>2. e \notin F => \A d \in F : LoaderSlot(e) # LoaderSlot(d)
        BY Apart
      <3> QED
        BY <1>11, <1>12, <3>1, <3>2
    <2>2. h2[ReaperSlot] = H[ReaperSlot]
      <3>1. \A e \in F : LoaderSlot(e) # ReaperSlot
        BY <1>9, Disjoint
      <3> QED
        BY <1>12, <3>1, SlotType
    <2> QED
      BY <1>0, <1>1, <2>1, <2>2 DEF InHands
  <1>16. \A q \in Own, m \in PageNo : PageAt(h2, q, m) = PageAt(H, q, m)
    BY <1>13, PagePlace DEF PageAt
  <1>17. KernelInv(tab', root', h2) /\ HeapInv(tab', heap', reaper', h2)
    <2>1. DirSlot(KS) \in Child /\ DirSlot(KH) \in Child /\ TableSlot(KH, 0) \in Child
      BY OwnPlaces, ChildType
    <2> QED
      BY <1>1, <1>13, <2>1 DEF KernelInv, HeapInv, IInv
  <1>18. LifeInv(root', status', reaper', h2)
    <2>1. \A q \in Proc : DirSlot(<<q, USER>>) \in Child
      BY OwnPlaces, ChildType
    <2> QED
      BY <1>1, <1>13, <2>1, LifeKept DEF IInv
  <1>19. LoaderInv(loader', lost', status', h2)
    <2>1. Segments(loader') \cap lost' = {}
      BY <1>1, <1>8, <1>10
    <2> QED
      BY <1>1, <1>2, <1>3, <1>6, <2>1 DEF LoaderInv
  <1>20. StackInv(status', stacks', reaper', h2)
    BY <1>1, <1>16, StackMore DEF IInv
  <1>21. ReaperInv(reaper', stacks', h2)
    BY <1>0, <1>1, <1>16, ReaperMore DEF IInv
  <1> QED
    BY <1>7, <1>12, <1>14, <1>15, <1>17, <1>18, <1>19, <1>20, <1>21, NextInv

\* Memory::getFreePages() sees in the tables of p what the places hold.
LEMMA HolesAre ==
  ASSUME IInv, NEW p \in Proc, status[p] \in {"loaded", "kstack"}, NEW r \in {USER, STACKS},
         NEW size \in Nat \ {0}, Holes(<<p, r>>, size) # {}, NEW n, n = Lowest(Holes(<<p, r>>, size))
  PROVE  /\ n \in PageNo /\ n + size <= Dirs * Entries
         /\ \A m \in PageNo : m >= n /\ m < n + size => PageAt(H, Where(p, r), m) = None
  <1>1. Holes(<<p, r>>, size) \subseteq Nat
    BY DEF Holes, PageNo
  <1>2. n \in Holes(<<p, r>>, size)
    BY <1>1, LowestIs
  <1>3. /\ n \in PageNo /\ n + size <= Dirs * Entries
        /\ \A m \in n .. n+size-1 : Entry(<<p, r>>, m) = None
    BY <1>2 DEF Holes
  <1>4. root[p] # None /\ ~Reaping(reaper, p)
    BY DEF IInv, LifeInv
  <1>5. ~Razing(reaper, p)
    BY <1>4 DEF Reaping, Razing
  <1>6. ASSUME NEW m \in PageNo PROVE Entry(<<p, r>>, m) = PageAt(H, Where(p, r), m)
    <2>1. m \div Entries \in TableNo /\ m % Entries \in EntryNo
      BY PageNoType
    <2>2. PageOf(tab, root, <<p, r>>, m \div Entries, m % Entries)
            = H[PageSlot(Where(p, r), m \div Entries, m % Entries)]
      BY <1>4, <1>5, <2>1, Way DEF IInv
    <2> QED
      BY <2>2 DEF Entry, PageAt
  <1>7. \A m \in PageNo : m >= n /\ m < n + size => m \in n .. n+size-1
    BY <1>3, SizeAssumption DEF PageNo
  <1> QED
    BY <1>3, <1>6, <1>7

LEMMA FindPagesStep ==
  ASSUME IInv, NEW p \in Proc, NEW r \in {USER, STACKS}, FindPages(p, r),
         status[p] = IF r = STACKS THEN "loaded" ELSE "kstack"
  PROVE  IInv'
  <1> DEFINE n == Lowest(Holes(<<p, r>>, PagesOf(r)))
  <1>0. /\ TypeOK /\ Sole(H, used) /\ H \in Slots
        /\ LoaderTyped(loader) /\ ReaperTyped(reaper)
        /\ Tree(H, tab, root, Gone(reaper)) /\ InHands(H, Claimed, reaper)
    BY StateType, StateTree DEF IInv
  <1>1. /\ loader = Idle /\ Holes(<<p, r>>, PagesOf(r)) # {}
        /\ loader' = [do |-> "map", p |-> p, region |-> r, n |-> n, left |-> PagesOf(r), base |-> n]
        /\ UNCHANGED <<used, tab, root, status, stacks, heap, reaper, lost>>
    BY DEF FindPages
  <1>2. PagesOf(r) \in Nat \ {0}
    BY SizeAssumption DEF PagesOf
  <1>3. status[p] \in {"loaded", "kstack"}
    OBVIOUS
  <1> HIDE DEF n
  <1>4. /\ n \in PageNo /\ n + PagesOf(r) <= Dirs * Entries
        /\ \A m \in PageNo : m >= n /\ m < n + PagesOf(r) => PageAt(H, Where(p, r), m) = None
    BY <1>1, <1>2, <1>3, HolesAre DEF n
  <1>5. /\ loader' # Idle /\ loader'.do = "map" /\ loader'.p = p /\ loader'.region = r
        /\ loader'.n = n /\ loader'.left = PagesOf(r) /\ loader'.base = n
    <2>1. /\ loader'.do = "map" /\ loader'.p = p /\ loader'.region = r
          /\ loader'.n = n /\ loader'.left = PagesOf(r) /\ loader'.base = n
      BY <1>1
    <2>2. Idle.do = "idle"
      BY DEF Idle
    <2> QED
      BY <2>1, <2>2
  <1>6. TypeOK'
    <2>1. loader' \in LoaderOp
      BY <1>1, <1>2, <1>4 DEF LoaderOp
    <2> QED
      BY <1>0, <1>1, <2>1 DEF TypeOK
  <1>7. InHands(H, Claimed', reaper')
    <2>1. Segments(loader) = {} /\ Segments(loader') = {}
      BY <1>1, <1>5 DEF Segments, Idle
    <2> QED
      BY <1>0, <1>1, <2>1 DEF InHands, Claimed
  <1>8. LoaderInv(loader', lost', status', H)
    <2>1. n \in Nat /\ PagesOf(r) >= 1
      BY <1>2, <1>4, PageNoType
    <2>2. ~ \E m \in PageNo : m >= n /\ m < n
      BY <2>1 DEF PageNo
    <2> QED
      BY <1>1, <1>4, <1>5, <2>1, <2>2 DEF LoaderInv
  <1> QED
    BY <1>0, <1>1, <1>6, <1>7, <1>8, NextInv DEF IInv

\* An entry of a page table is written: the kernel's half of the roots stays,
\* and so does the heap's table unless the entry is in it.
LEMMA KernelWritten ==
  ASSUME NEW h, NEW u, Sole(h, u), NEW t \in TableMap, NEW rt, NEW o \in Own, NEW k \in TableNo,
         NEW x \in EntryNo, h[TableSlot(o, k)] # None, NEW v \in Frame \cup {None},
         KernelInv(t, rt, h), \A s \in Space : h[RootSlot(s)] = rt[s], NEW h2,
         h2[DirSlot(KS)] = h[DirSlot(KS)], h2[DirSlot(KH)] = h[DirSlot(KH)],
         h2[TableSlot(KH, 0)] = h[TableSlot(KH, 0)]
  PROVE  KernelInv(Entered(t, h[TableSlot(o, k)], x, v), rt, h2)
  <1> DEFINE a == PageSlot(o, k, x)
  <1>1. a \in Child /\ Up(a) = TableSlot(o, k) /\ At(a) = x
    BY ChildType, UpAt
  <1>2. \A s \in Space : RootSlot(s) \in Slot /\ RootSlot(s) # Up(a)
    BY <1>1, SlotType, Apart
  <1>3. STACKS \in Index
    BY DEF Index
  <1> HIDE DEF a
  <1>4. \A s \in Space : rt[s] # None =>
          Entered(t, h[Up(a)], At(a), v)[h[RootSlot(s)]][STACKS] = t[h[RootSlot(s)]][STACKS]
    BY <1>1, <1>2, <1>3, EnteredKept
  <1>5. \A s \in Space : rt[s] # None =>
          rt[s] = rt[s] /\ Entered(t, h[TableSlot(o, k)], x, v)[rt[s]][STACKS] = t[rt[s]][STACKS]
    BY <1>1, <1>4
  <1> QED
    BY <1>5, KernelKept

LEMMA HeapWritten ==
  ASSUME NEW h, NEW u, Sole(h, u), NEW t \in TableMap, NEW rt, NEW o \in Own, o # KH, NEW k \in TableNo,
         NEW x \in EntryNo, h[TableSlot(o, k)] # None, NEW v \in Frame \cup {None},
         KernelInv(t, rt, h), NEW hp, NEW rp, HeapInv(t, hp, rp, h), NEW h2, NEW rp2,
         h2[TableSlot(KH, 0)] = h[TableSlot(KH, 0)], rp2.do = "unmapHeap" => rp2 = rp
  PROVE  HeapInv(Entered(t, h[TableSlot(o, k)], x, v), hp, rp2, h2)
  <1> DEFINE a == PageSlot(o, k, x)
  <1>1. a \in Child /\ Up(a) = TableSlot(o, k) /\ At(a) = x
    BY ChildType, UpAt
  <1>2. TableSlot(KH, 0) \in Slot /\ TableSlot(KH, 0) # Up(a) /\ h[TableSlot(KH, 0)] # None
    BY <1>1, OwnPlaces, SlotType, Apart DEF KernelInv
  <1>3. \A i \in HeapNo : i \in Index
    BY IndexOf
  <1> HIDE DEF a
  <1>4. \A i \in HeapNo :
          Entered(t, h[Up(a)], At(a), v)[h[TableSlot(KH, 0)]][i] = t[h[TableSlot(KH, 0)]][i]
    BY <1>1, <1>2, <1>3, EnteredKept
  <1>5. \A i \in HeapNo :
          Entered(t, h[TableSlot(o, k)], x, v)[h[TableSlot(KH, 0)]][i] = t[h[TableSlot(KH, 0)]][i]
    BY <1>1, <1>4
  <1> QED
    BY <1>5, HeapKept

\* The page the loader is about to map.
LEMMA MapAt ==
  ASSUME IInv, loader # Idle, Missing = {}, NEW o, o = Where(loader.p, loader.region),
         NEW k, k = loader.n \div Entries, NEW x, x = loader.n % Entries
  PROVE  /\ o \in Own /\ o # KH /\ k \in TableNo /\ x \in EntryNo
         /\ Table(Here, loader.n) = H[TableSlot(o, k)] /\ H[TableSlot(o, k)] # None
         /\ Entry(Here, loader.n) = H[PageSlot(o, k, x)]
         /\ loader.do = "map" => H[PageSlot(o, k, x)] = None
         /\ PageSlot(o, k, x) \in Child /\ PageSlot(o, k, x) \notin Gone(reaper)
         /\ H[DirSlot(o)] # None
  <1>1. /\ loader.n \in PageNo /\ loader.left \in Nat /\ o \in Own /\ o # KH /\ ~Razing(reaper, o[1])
        /\ Table(Here, loader.n) = H[TableSlot(o, k)]
        /\ \A j \in TableNo : TableOf(tab, root, Here, j) = H[TableSlot(o, j)]
    BY LoaderAt
  <1>2. k \in TableNo /\ x \in EntryNo
    BY <1>1, PageNoType
  <1>3. H[TableSlot(o, k)] # None
    BY <1>1, <1>2, NeededType DEF Missing
  <1>4. ASSUME loader.do = "map" PROVE H[PageSlot(o, k, x)] = None
    <2>1. loader.left >= 1 /\ loader.n \in Nat
      BY <1>1, PageNoType DEF IInv, LoaderInv
    <2>2. PageAt(H, o, loader.n) = None
      BY <1>1, <1>4, <2>1 DEF IInv, LoaderInv
    <2> QED
      BY <2>2 DEF PageAt
  <1>5. PageSlot(o, k, x) \in Child /\ PageSlot(o, k, x) \notin Gone(reaper)
    BY <1>1, <1>2, StateType, Visible, ChildType DEF IInv, Gone
  <1>6. H[DirSlot(o)] # None
    <2>1. Tree(H, tab, root, Gone(reaper))
      BY StateTree DEF IInv
    <2>2. TableSlot(o, k) \in Child /\ Up(TableSlot(o, k)) = DirSlot(o)
      BY <1>1, <1>2, ChildType, UpAt
    <2> QED
      BY <1>3, <2>1, <2>2, NoneBelow
  <1>7. Entry(Here, loader.n) = H[PageSlot(o, k, x)]
    <2>1. /\ loader.p \in Proc /\ loader.region \in {USER, STACKS} /\ root[loader.p] # None
          /\ ~Reaping(reaper, loader.p)
      BY LoaderAt
    <2>2. ~Razing(reaper, loader.p)
      BY <2>1 DEF Reaping, Razing
    <2>3. TypeOK /\ KernelInv(tab, root, H)
      BY DEF IInv
    <2>4. PageOf(tab, root, <<loader.p, loader.region>>, k, x) = H[PageSlot(o, k, x)]
      BY <1>2, <2>1, <2>2, <2>3, Way
    <2> QED
      BY <2>4 DEF Entry, Here
  <1> QED
    BY <1>1, <1>2, <1>3, <1>4, <1>5, <1>6, <1>7

LEMMA SegmentsLess ==
  ASSUME NEW f \in Nat, NEW left \in Nat, left >= 1, NEW e \in Nat
  PROVE  e \in f+1 .. f+1+(left-1)-1 <=> e \in f .. f+left-1 /\ e # f
  OBVIOUS

LEMMA MapSegmentStep ==
  ASSUME IInv, MapSegment
  PROVE  IInv'
  <1> DEFINE p == loader.p
             f == loader.frame
             n == loader.n
             o == Where(p, loader.region)
             k == n \div Entries
             x == n % Entries
             a == PageSlot(o, k, x)
             b == LoaderSlot(f)
             e == H[a]
             c == LoaderSlot(e)
             h2 == [s \in Slot |-> IF s = a THEN f ELSE IF s = b THEN None
                                  ELSE IF e # None /\ s = c THEN e ELSE H[s]]
  <1>0. /\ TypeOK /\ Sole(H, used) /\ H \in Slots /\ tab \in TableMap
        /\ LoaderTyped(loader) /\ ReaperTyped(reaper) /\ status \in [Proc -> Status]
        /\ Tree(H, tab, root, Gone(reaper)) /\ InHands(H, Claimed, reaper)
    BY StateType, StateTree DEF IInv
  <1>1. /\ loader.do = "mapSegment" /\ loader # Idle /\ p \in Proc /\ loader.region = USER
        /\ n \in PageNo /\ loader.left \in Nat /\ f \in Frame
    BY <1>0, LoaderCases DEF MapSegment
  <1>2. /\ loader.left >= 1 /\ n + loader.left <= Dirs * Entries /\ status[p] = "created"
        /\ f + loader.left <= NFrames /\ Segments(loader) \cap lost = {}
    BY <1>1 DEF IInv, LoaderInv
  <1>3. o = <<p, USER>>
    BY <1>1 DEF Where, USER, STACKS
  <1>4. Missing = {} /\ tab' = [tab EXCEPT ![Table(Here, n)][x] = f]
        /\ UNCHANGED <<used, root, stacks, heap, reaper>>
        /\ lost' = lost \cup ({Entry(Here, n)} \ {None})
    BY DEF MapSegment, Map
  <1>5. \/ /\ loader.left > 1 /\ status' = status
           /\ loader' = [loader EXCEPT !.n = n + 1, !.left = loader.left - 1, !.frame = f + 1]
        \/ /\ loader.left = 1 /\ loader' = Idle
           /\ status' = status \/ status' = [status EXCEPT ![p] = "loaded"]
    BY DEF MapSegment, NextPage
  <1>6. f \in Nat /\ n \in Nat /\ NFrames \in Nat /\ Dirs * Entries \in Nat
    BY <1>1, PageNoType, SizeAssumption DEF Frame
  <1>7. /\ o \in Own /\ o # KH /\ k \in TableNo /\ x \in EntryNo
        /\ Table(Here, n) = H[TableSlot(o, k)] /\ H[TableSlot(o, k)] # None
        /\ Entry(Here, n) = e /\ a \in Child /\ a \notin Gone(reaper)
    BY <1>1, <1>4, MapAt
  <1>8. ASSUME loader.left > 1
        PROVE  /\ status' = status /\ loader' \in LoaderOp
               /\ loader' = [do |-> "mapSegment", p |-> p, region |-> USER, n |-> n + 1,
                             left |-> loader.left - 1, frame |-> f + 1]
    <2>1. /\ status' = status
          /\ loader' = [loader EXCEPT !.n = n + 1, !.left = loader.left - 1, !.frame = f + 1]
      BY <1>5, <1>8
    <2>2. loader' = [do |-> "mapSegment", p |-> p, region |-> USER, n |-> n + 1, left |-> loader.left - 1,
                     frame |-> f + 1]
      <3>1. loader \in [do : {"mapSegment"}, p : Proc, region : {USER}, n : PageNo, left : Nat,
                        frame : Frame]
        BY <1>0, <1>1 DEF LoaderTyped, LoaderOp, Idle
      <3> QED
        BY <2>1, <3>1
    <2>3. n + 1 \in PageNo /\ f + 1 \in Frame /\ loader.left - 1 \in Nat
      BY <1>1, <1>2, <1>6, <1>8 DEF PageNo, Frame
    <2>4. loader' \in LoaderOp
      BY <1>1, <2>2, <2>3 DEF LoaderOp
    <2> QED
      BY <2>1, <2>2, <2>4
  <1>9. ASSUME loader.left = 1
        PROVE  loader' = Idle /\ (status' = status \/ status' = [status EXCEPT ![p] = "loaded"])
    BY <1>5, <1>9
  <1>10. loader.left > 1 \/ loader.left = 1
    BY <1>1, <1>2
  <1> HIDE DEF p, f, n, o, k, x
  <1>11. f # None /\ b \in Slot /\ a \in Slot /\ a # b /\ b \in Hand /\ a \notin Hand
    BY <1>1, <1>7, SlotType, IndexOf, Disjoint
  <1>12. H[b] = f
    <2>1. f \in Segments(loader)
      <3>1. Segments(loader) = f .. f+loader.left-1
        BY <1>1 DEF Segments, f
      <3> QED
        BY <1>1, <1>2, <1>6, <3>1
    <2> QED
      BY <1>0, <1>1, <2>1 DEF InHands, Claimed
  <1>13. Up(a) = TableSlot(o, k) /\ At(a) = x /\ Up(a) \in Slot
    BY <1>7, UpAt, UpType, SlotType
  <1>14. tab' = Entered(tab, H[TableSlot(o, k)], x, f)
    BY <1>4, <1>7 DEF Entered
  <1>15. H[TableSlot(o, k)] \in Frame /\ x \in Index
    BY <1>0, <1>7, <1>13, SoleType, IndexOf
  <1> HIDE DEF a, b, e
  <1>16. lost' = lost \cup ({e} \ {None}) /\ e = H[a] /\ e \in Frame \cup {None}
    BY <1>0, <1>4, <1>7, <1>11, SoleType DEF e
  <1>17. TypeOK'
    <2>1. tab' \in TableMap
      BY <1>0, <1>1, <1>14, <1>15, EnteredAt
    <2>2. status' \in [Proc -> Status]
      BY <1>0, <1>8, <1>9, <1>10 DEF Status
    <2>3. loader' = Idle \/ loader' \in LoaderOp
      BY <1>8, <1>9, <1>10
    <2>4. lost' \subseteq Frame
      BY <1>0, <1>16 DEF TypeOK
    <2> QED
      BY <1>0, <1>4, <2>1, <2>2, <2>3, <2>4 DEF TypeOK, TableMap
  <1>18. ASSUME e # None
         PROVE  /\ c \in Slot /\ c \in Hand /\ c # a /\ c # b /\ c # ReaperSlot
                /\ H[c] = None /\ e \notin Claimed
    <2>1. e \in Frame /\ c \in Slot /\ c \in Hand /\ c # ReaperSlot
      BY <1>16, <1>18, SlotType, Disjoint
    <2>2. c # a /\ e # f
      BY <1>0, <1>11, <1>12, <1>16, <1>18, <2>1 DEF Sole
    <2>3. c # b
      BY <2>2, Apart DEF b
    <2>4. H[c] = IF e \in Claimed THEN e ELSE None
      BY <1>0, <2>1 DEF InHands
    <2>5. H[c] # e
      BY <1>0, <1>11, <1>16, <1>18, <2>1, <2>2 DEF Sole
    <2> QED
      BY <2>1, <2>2, <2>3, <2>4, <2>5
  <1> HIDE DEF c
  <1>19. /\ h2 \in Slots /\ h2[a] = f /\ h2[b] = None /\ (e # None => h2[c] = e)
         /\ \A s \in Slot : s # a /\ s # b /\ (e # None => s # c) => h2[s] = H[s]
    <2>1. \A s \in Slot : H[s] \in Frame \cup {None}
      BY <1>0 DEF Slots
    <2>2. \A s \in Slot : h2[s] \in Frame \cup {None}
      BY <1>1, <1>16, <2>1
    <2>3. h2 \in Slots
      BY <2>2 DEF Slots
    <2> QED
      BY <1>11, <1>18, <2>3
  <1> HIDE DEF h2
  <1>20. Sole(h2, used')
    <2>1. e # None => c \in Slot /\ H[c] = None
      BY <1>18
    <2> QED
      BY <1>0, <1>4, <1>11, <1>12, <1>16, <1>19, <2>1, SoleReplace
  <1>21. \A s \in Top \cup Child : s # a => h2[s] = H[s]
    <2>1. \A s \in Top \cup Child : s \in Slot /\ s \notin Hand
      BY Disjoint DEF Slot
    <2> QED
      BY <1>11, <1>18, <1>19, <2>1
  <1>22. Tree(h2, tab', root', Gone(reaper'))
    <2>1. \A d \in Child : Up(d) # a
      BY PageLast DEF a
    <2>2. H[Up(a)] # None /\ f \in Frame \cup {None}
      BY <1>1, <1>7, <1>13
    <2>3. Tree(Put(H, a, f), Entered(tab, H[Up(a)], At(a), f), root, Gone(reaper))
      BY <1>0, <1>7, <2>1, <2>2, WriteTree
    <2>4. \A s \in Top \cup Child : h2[s] = Put(H, a, f)[s]
      <3>1. \A s \in Top \cup Child : s \in Slot
        BY DEF Slot
      <3>2. Put(H, a, f)[a] = f /\ \A s \in Slot : s # a => Put(H, a, f)[s] = H[s]
        BY <1>0, <1>11, <2>2, PutAt
      <3> QED
        BY <1>19, <1>21, <3>1, <3>2
    <2>5. Tree(h2, Entered(tab, H[Up(a)], At(a), f), root, Gone(reaper))
      BY <2>3, <2>4, SameTree
    <2> QED
      BY <1>4, <1>13, <1>14, <2>5
  <1>23. \A d \in Frame : d \in Segments(loader') <=> d \in Segments(loader) /\ d # f
    <2>1. ASSUME NEW d \in Frame PROVE d \in Segments(loader') <=> d \in Segments(loader) /\ d # f
      <3>1. Segments(loader) = f .. f+loader.left-1 /\ d \in Nat
        BY <1>1 DEF Segments, f, Frame
      <3>2. CASE loader.left > 1
        <4>1. Segments(loader') = f+1 .. f+1+(loader.left-1)-1
          BY <1>8, <3>2 DEF Segments
        <4> QED
          BY <1>1, <1>2, <1>6, <3>1, <4>1, SegmentsLess
      <3>3. CASE loader.left = 1
        <4>1. Segments(loader') = {}
          BY <1>9, <3>3 DEF Segments, Idle
        <4>2. f .. f+1-1 = {f}
          BY <1>6
        <4> QED
          BY <3>1, <3>3, <4>1, <4>2
      <3> QED
        BY <1>10, <3>2, <3>3
    <2> QED
      BY <2>1
  <1>24. InHands(h2, Claimed', reaper')
    <2>1. ASSUME NEW d \in Frame PROVE h2[LoaderSlot(d)] = IF d \in Claimed' THEN d ELSE None
      <3>1. LoaderSlot(d) \in Slot /\ LoaderSlot(d) # a /\ (LoaderSlot(d) = b <=> d = f)
        BY <1>7, <1>11, SlotType, Disjoint, Apart DEF b
      <3>2. LoaderSlot(d) = c <=> d = e
        BY Apart DEF c
      <3>3. H[LoaderSlot(d)] = IF d \in Claimed THEN d ELSE None
        BY <1>0 DEF InHands
      <3>4. d # None /\ f \in Segments(loader) /\ f # e
        <4>1. f \in Segments(loader)
          BY <1>1, <1>2, <1>6 DEF Segments, f
        <4>2. f \in Claimed
          BY <4>1 DEF Claimed
        <4> QED
          BY <1>11, <1>18, <4>1, <4>2, IndexOf
      <3>5. d \in Claimed' <=> (d \in Claimed /\ d # f) \/ d = e
        BY <1>2, <1>16, <1>23, <3>4 DEF Claimed
      <3>6. CASE d = f
        BY <1>19, <3>1, <3>4, <3>5, <3>6
      <3>7. CASE d = e
        BY <1>19, <3>1, <3>2, <3>4, <3>5, <3>7
      <3>8. CASE d # f /\ d # e
        BY <1>19, <3>1, <3>2, <3>3, <3>5, <3>8
      <3> QED
        BY <3>6, <3>7, <3>8
    <2>2. h2[ReaperSlot] = H[ReaperSlot]
      <3>1. ReaperSlot \in Slot /\ ReaperSlot # a /\ ReaperSlot # b
        BY <1>1, <1>11, SlotType, Disjoint DEF b
      <3> QED
        BY <1>18, <1>19, <3>1
    <2> QED
      BY <1>0, <1>4, <2>1, <2>2 DEF InHands
  <1>26. PageAt(h2, o, n) = f /\ \A q \in Own, m \in PageNo : q # o \/ m # n => PageAt(h2, q, m) = PageAt(H, q, m)
    <2>1. \A q \in Own, m \in PageNo : q # o \/ m # n =>
            PageSlot(q, m \div Entries, m % Entries) # a
      BY <1>1, <1>7, Apart, PageNoOnce DEF a, k, x
    <2>2. PageAt(h2, o, n) = f
      BY <1>19 DEF PageAt, a, k, x
    <2> QED
      BY <1>21, <2>1, <2>2, PagePlace DEF PageAt
  <1>27. DirSlot(KS) \in Child /\ DirSlot(KH) \in Child /\ TableSlot(KH, 0) \in Child
         /\ DirSlot(KS) # a /\ DirSlot(KH) # a /\ TableSlot(KH, 0) # a
    BY OwnPlaces, ChildType, Apart DEF a
  <1>28. KernelInv(tab', root', h2)
    <2>1. \A s \in Space : H[RootSlot(s)] = root[s]
      BY <1>0 DEF Tree
    <2>2. KernelInv(tab, root, H)
      BY DEF IInv
    <2>3. h2[DirSlot(KS)] = H[DirSlot(KS)] /\ h2[DirSlot(KH)] = H[DirSlot(KH)]
          /\ h2[TableSlot(KH, 0)] = H[TableSlot(KH, 0)]
      BY <1>21, <1>27
    <2>4. KernelInv(Entered(tab, H[TableSlot(o, k)], x, f), root, h2)
      BY <1>0, <1>1, <1>7, <2>1, <2>2, <2>3, KernelWritten
    <2> QED
      BY <1>4, <1>14, <2>4
  <1>29. HeapInv(tab', heap', reaper', h2)
    <2>1. KernelInv(tab, root, H) /\ HeapInv(tab, heap, reaper, H)
      BY DEF IInv
    <2>2. h2[TableSlot(KH, 0)] = H[TableSlot(KH, 0)]
      BY <1>21, <1>27
    <2>3. HeapInv(Entered(tab, H[TableSlot(o, k)], x, f), heap, reaper, h2)
      BY <1>0, <1>1, <1>7, <2>1, <2>2, HeapWritten
    <2> QED
      BY <1>4, <1>14, <2>3
  <1>31. \A q \in Proc : q # p => status'[q] = status[q]
    BY <1>0, <1>8, <1>9, <1>10
  <1>32. status'[p] \in {"created", "loaded"}
    BY <1>0, <1>1, <1>2, <1>8, <1>9, <1>10
  <1>33. LifeInv(root', status', reaper', h2)
    <2>1. LifeInv(root, status, reaper, H)
      BY DEF IInv
    <2>2. \A q \in Proc : h2[DirSlot(<<q, USER>>)] = H[DirSlot(<<q, USER>>)]
      BY <1>21, OwnPlaces, ChildType, Apart DEF a
    <2> QED
      BY <1>1, <1>2, <1>4, <1>31, <1>32, <2>1, <2>2 DEF LifeInv
  <1>34. LoaderInv(loader', lost', status', h2)
    <2>1. CASE loader.left > 1
      <3>1. /\ loader'.do = "mapSegment" /\ loader'.p = p /\ loader'.region = USER
            /\ loader'.n = n + 1 /\ loader'.left = loader.left - 1 /\ loader'.frame = f + 1
            /\ status' = status
        BY <1>8, <2>1
      <3>2. Segments(loader') \cap lost' = {}
        <4>1. Segments(loader') \subseteq Frame
          BY <1>1, <1>2, <1>6, <3>1 DEF Segments, Frame
        <4>2. e # None => e \notin Segments(loader)
          BY <1>18 DEF Claimed
        <4>3. None \notin Frame
          BY IndexOf
        <4> QED
          BY <1>2, <1>16, <1>23, <4>1, <4>2, <4>3
      <3>4. loader.left - 1 >= 1 /\ n + 1 + (loader.left - 1) <= Dirs * Entries
            /\ f + 1 + (loader.left - 1) <= NFrames
        BY <1>1, <1>2, <1>6, <2>1
      <3> QED
        BY <1>2, <3>1, <3>2, <3>4 DEF LoaderInv
    <2>2. CASE loader.left = 1
      BY <1>9, <2>2 DEF LoaderInv
    <2> QED
      BY <1>10, <2>1, <2>2
  <1>36. \A q \in Own, m \in PageNo : PageAt(H, q, m) # None => PageAt(h2, q, m) # None
    BY <1>11, <1>26
  <1>37. StackInv(status', stacks', reaper', h2)
    <2>1. \A q \in Proc : HasKernel(status', reaper', q) => HasKernel(status, reaper, q)
      BY <1>4, <1>31, <1>32 DEF HasKernel
    <2>2. \A q \in Proc : HasUser(status', reaper', q) => HasUser(status, reaper, q)
      BY <1>4, <1>31, <1>32 DEF HasUser
    <2>3. StackInv(status, stacks, reaper, H)
      BY DEF IInv
    <2>4. StackInv(status', stacks, reaper', h2)
      BY <1>36, <2>1, <2>2, <2>3, StackMore
    <2> QED
      BY <1>4, <2>4
  <1>38. ReaperInv(reaper', stacks', h2)
    <2>1. ReaperInv(reaper, stacks, H)
      BY DEF IInv
    <2> QED
      BY <1>0, <1>4, <1>36, <2>1, ReaperMore
  <1> QED
    BY <1>17, <1>19, <1>20, <1>22, <1>24, <1>28, <1>29, <1>33, <1>34, <1>37, <1>38, NextInv

LEMMA MapNextStep ==
  ASSUME IInv, MapNext
  PROVE  IInv'
  <1> DEFINE p == loader.p
             r == loader.region
             f == NextFrame
             n == loader.n
             o == Where(p, r)
             k == n \div Entries
             x == n % Entries
             a == PageSlot(o, k, x)
             h2 == Put(H, a, f)
  <1>0. /\ TypeOK /\ Sole(H, used) /\ H \in Slots /\ tab \in TableMap
        /\ LoaderTyped(loader) /\ ReaperTyped(reaper) /\ status \in [Proc -> Status]
        /\ stacks \in [Proc -> [kernel : PageNo \cup {None}, user : PageNo \cup {None}]]
        /\ Tree(H, tab, root, Gone(reaper)) /\ InHands(H, Claimed, reaper)
    BY StateType, StateTree DEF IInv, TypeOK
  <1>1. /\ loader.do = "map" /\ loader # Idle /\ p \in Proc /\ r \in {USER, STACKS}
        /\ n \in PageNo /\ loader.left \in Nat /\ loader.base \in PageNo
    BY <1>0, LoaderCases DEF MapNext
  <1>2. /\ loader.left >= 1 /\ n + loader.left <= Dirs * Entries
        /\ status[p] = IF r = STACKS THEN "loaded" ELSE "kstack"
        /\ loader.base <= n /\ loader.base + PagesOf(r) = n + loader.left
        /\ \A m \in PageNo : m >= n /\ m < n + loader.left => PageAt(H, o, m) = None
        /\ r = USER => \A m \in PageNo : m >= loader.base /\ m < n => PageAt(H, <<p, USER>>, m) # None
    BY <1>1 DEF IInv, LoaderInv
  <1>3. /\ r = STACKS => o = KS
        /\ r = USER => o = <<p, USER>>
    BY DEF Where, USER, STACKS
  <1>4. /\ Missing = {} /\ tab' = [tab EXCEPT ![Table(Here, n)][x] = f]
        /\ used' = used \cup {f} /\ FreeRuns(1) # {}
        /\ UNCHANGED <<root, heap, reaper, lost>>
    BY DEF MapNext, Map
  <1>5. \/ /\ loader.left > 1 /\ UNCHANGED <<status, stacks>>
           /\ loader' = [loader EXCEPT !.n = n + 1, !.left = loader.left - 1]
        \/ /\ loader.left = 1 /\ loader' = Idle /\ r = STACKS
           /\ status' = [status EXCEPT ![p] = "kstack"]
           /\ stacks' = [stacks EXCEPT ![p].kernel = loader.base]
        \/ /\ loader.left = 1 /\ loader' = Idle /\ r = USER
           /\ status' = [status EXCEPT ![p] = "running"]
           /\ stacks' = [stacks EXCEPT ![p].user = loader.base]
    BY DEF MapNext, NextPage, StackBase
  <1>6. /\ n \in Nat /\ loader.base \in Nat /\ Dirs * Entries \in Nat /\ STACKS # USER
        /\ (r = STACKS => PagesOf(r) = 1) /\ (r = USER => PagesOf(r) = StackPages) /\ StackPages \in Nat
    BY <1>1, PageNoType, SizeAssumption DEF PagesOf, STACKS, USER
  <1>7. /\ o \in Own /\ o # KH /\ k \in TableNo /\ x \in EntryNo
        /\ Table(Here, n) = H[TableSlot(o, k)] /\ H[TableSlot(o, k)] # None
        /\ H[a] = None /\ PageAt(H, o, n) = None /\ a \in Child /\ a \notin Gone(reaper)
        /\ H[DirSlot(o)] # None
    BY <1>1, <1>4, MapAt DEF PageAt
  <1>8. ASSUME loader.left > 1
        PROVE  /\ status' = status /\ stacks' = stacks /\ loader' \in LoaderOp
               /\ loader' = [do |-> "map", p |-> p, region |-> r, n |-> n + 1,
                             left |-> loader.left - 1, base |-> loader.base]
    <2>1. /\ status' = status /\ stacks' = stacks
          /\ loader' = [loader EXCEPT !.n = n + 1, !.left = loader.left - 1]
      BY <1>5, <1>8
    <2>2. loader' = [do |-> "map", p |-> p, region |-> r, n |-> n + 1, left |-> loader.left - 1,
                     base |-> loader.base]
      <3>1. loader \in [do : {"map"}, p : Proc, region : {USER, STACKS}, n : PageNo, left : Nat, base : PageNo]
        BY <1>0, <1>1 DEF LoaderTyped, LoaderOp, Idle
      <3> QED
        BY <2>1, <3>1
    <2>3. n + 1 \in PageNo /\ loader.left - 1 \in Nat
      BY <1>1, <1>2, <1>6, <1>8 DEF PageNo
    <2>4. loader' \in LoaderOp
      BY <1>1, <2>2, <2>3 DEF LoaderOp
    <2> QED
      BY <2>1, <2>2, <2>4
  <1>9. ASSUME loader.left = 1, r = STACKS
        PROVE  /\ loader' = Idle /\ status' = [status EXCEPT ![p] = "kstack"]
               /\ stacks' = [stacks EXCEPT ![p].kernel = n]
    BY <1>2, <1>5, <1>6, <1>9
  <1>10. ASSUME loader.left = 1, r = USER
         PROVE  /\ loader' = Idle /\ status' = [status EXCEPT ![p] = "running"]
                /\ stacks' = [stacks EXCEPT ![p].user = loader.base]
    BY <1>5, <1>6, <1>10
  <1>11. loader.left > 1 \/ (loader.left = 1 /\ r = STACKS) \/ (loader.left = 1 /\ r = USER)
    BY <1>1, <1>2
  <1>12. f \in Frame /\ f \notin used /\ f # None
    BY <1>0, <1>4, NextFrameIs, IndexOf
  <1> HIDE DEF p, r, f, n, o, k, x
  <1>13. /\ a \in Slot /\ H[a] = None /\ a \in Top \cup Child
         /\ Up(a) = TableSlot(o, k) /\ At(a) = x /\ Up(a) \in Slot
    BY <1>7, SlotType, UpAt
  <1>14. tab' = Entered(tab, H[TableSlot(o, k)], x, f)
    BY <1>4, <1>7 DEF Entered
  <1>15. H[TableSlot(o, k)] \in Frame /\ x \in Index
    BY <1>0, <1>7, <1>13, SoleType, IndexOf
  <1>16. TypeOK'
    <2>1. tab' \in TableMap
      BY <1>0, <1>12, <1>14, <1>15, EnteredAt
    <2>2. status' \in [Proc -> Status]
      BY <1>0, <1>8, <1>9, <1>10, <1>11 DEF Status
    <2>3. loader' = Idle \/ loader' \in LoaderOp
      BY <1>8, <1>9, <1>10, <1>11
    <2>4. stacks' \in [Proc -> [kernel : PageNo \cup {None}, user : PageNo \cup {None}]]
      BY <1>0, <1>1, <1>8, <1>9, <1>10, <1>11
    <2>5. used' \subseteq Frame
      BY <1>0, <1>4, <1>12 DEF TypeOK
    <2> QED
      BY <1>0, <1>4, <2>1, <2>2, <2>3, <2>4, <2>5 DEF TypeOK, TableMap
  <1>17. PageAt(h2, o, n) = f /\ \A q \in Own, m \in PageNo : q # o \/ m # n => PageAt(h2, q, m) = PageAt(H, q, m)
    BY <1>0, <1>1, <1>7, <1>12, PageChanged DEF k, x
  <1>18. DirSlot(KS) \in Slot /\ DirSlot(KH) \in Slot /\ TableSlot(KH, 0) \in Slot
         /\ DirSlot(KS) # a /\ DirSlot(KH) # a /\ TableSlot(KH, 0) # a
         /\ \A q \in Proc : DirSlot(<<q, USER>>) \in Slot /\ DirSlot(<<q, USER>>) # a
    BY OwnPlaces, SlotType, Apart
  <1>19. \A c \in Child : Up(c) # a
    BY PageLast
  <1> HIDE DEF a
  <1>20. Sole(h2, used')
    BY <1>0, <1>4, <1>12, <1>13, SolePut
  <1>21. Tree(h2, tab', root', Gone(reaper'))
    <2>1. Tree(Put(H, a, f), Entered(tab, H[Up(a)], At(a), f), root, Gone(reaper))
      BY <1>0, <1>7, <1>12, <1>13, <1>19, WriteTree
    <2> QED
      BY <1>4, <1>13, <1>14, <2>1
  <1>22. h2 \in Slots /\ h2[a] = f /\ \A s \in Slot : s # a => h2[s] = H[s]
    BY <1>0, <1>12, <1>13, PutAt
  <1>23. InHands(h2, Claimed', reaper')
    <2>1. InHands(h2, Claimed, reaper)
      BY <1>0, <1>12, <1>13, HandsSame
    <2>2. Segments(loader) = {} /\ Segments(loader') = {}
      BY <1>1, <1>8, <1>9, <1>10, <1>11 DEF Segments, Idle
    <2> QED
      BY <1>4, <2>1, <2>2 DEF InHands, Claimed
  <1> HIDE DEF h2
  <1>24. h2[DirSlot(KS)] = H[DirSlot(KS)] /\ h2[DirSlot(KH)] = H[DirSlot(KH)]
         /\ h2[TableSlot(KH, 0)] = H[TableSlot(KH, 0)]
         /\ \A q \in Proc : h2[DirSlot(<<q, USER>>)] = H[DirSlot(<<q, USER>>)]
    BY <1>18, <1>22
  <1>25. KernelInv(tab', root', h2)
    <2>1. \A s \in Space : H[RootSlot(s)] = root[s]
      BY <1>0 DEF Tree
    <2>2. KernelInv(tab, root, H)
      BY DEF IInv
    <2>3. KernelInv(Entered(tab, H[TableSlot(o, k)], x, f), root, h2)
      BY <1>0, <1>7, <1>12, <1>24, <2>1, <2>2, KernelWritten
    <2> QED
      BY <1>4, <1>14, <2>3
  <1>26. HeapInv(tab', heap', reaper', h2)
    <2>1. KernelInv(tab, root, H) /\ HeapInv(tab, heap, reaper, H)
      BY DEF IInv
    <2>2. HeapInv(Entered(tab, H[TableSlot(o, k)], x, f), heap, reaper, h2)
      BY <1>0, <1>7, <1>12, <1>24, <2>1, HeapWritten
    <2> QED
      BY <1>4, <1>14, <2>2
  <1>27. \A q \in Proc : q # p => status'[q] = status[q] /\ stacks'[q] = stacks[q]
    BY <1>0, <1>8, <1>9, <1>10, <1>11
  <1>28. /\ loader.left > 1 => status'[p] = status[p] /\ stacks'[p] = stacks[p]
         /\ loader.left = 1 /\ r = STACKS => /\ status'[p] = "kstack" /\ stacks'[p].kernel = n
                                             /\ stacks'[p].user = stacks[p].user
         /\ loader.left = 1 /\ r = USER => /\ status'[p] = "running" /\ stacks'[p].user = loader.base
                                           /\ stacks'[p].kernel = stacks[p].kernel
    BY <1>0, <1>1, <1>8, <1>9, <1>10
  <1>29. ~Reaping(reaper, p)
    BY <1>1, LoaderAt DEF p
  <1>30. LifeInv(root', status', reaper', h2)
    <2>1. LifeInv(root, status, reaper, H)
      BY DEF IInv
    <2>2. status[p] \in {"loaded", "kstack"} /\ status'[p] \in {"loaded", "kstack", "running"}
          /\ (status'[p] = "running" => r = USER)
      BY <1>1, <1>2, <1>6, <1>11, <1>28
    <2>3. r = USER => h2[DirSlot(<<p, USER>>)] # None
      BY <1>1, <1>3, <1>7, <1>24
    <2>4. ASSUME NEW q \in Proc
          PROVE  /\ root'[q] # None <=> status'[q] \in {"created", "loaded", "kstack", "running"} \/ Reaping(reaper', q)
                 /\ Reaping(reaper', q) => status'[q] = "dead"
                 /\ status'[q] = "running" \/ (Reaping(reaper', q) /\ reaper'.do # "destroyRoot")
                      => h2[DirSlot(<<q, USER>>)] # None
      <3>1. CASE q = p
        BY <1>1, <1>4, <1>29, <2>1, <2>2, <2>3, <3>1 DEF LifeInv
      <3>2. CASE q # p
        BY <1>4, <1>24, <1>27, <2>1, <3>2 DEF LifeInv
      <3> QED
        BY <3>1, <3>2
    <2> QED
      BY <2>4 DEF LifeInv
  <1>31. LoaderInv(loader', lost', status', h2)
    <2>1. CASE loader.left > 1
      <3>1. /\ loader'.do = "map" /\ loader'.p = p /\ loader'.region = r
            /\ loader'.n = n + 1 /\ loader'.left = loader.left - 1 /\ loader'.base = loader.base
            /\ status' = status
        BY <1>8, <2>1
      <3>2. \A m \in PageNo : m >= n + 1 /\ m < n + 1 + (loader.left - 1) => PageAt(h2, o, m) = None
        <4>1. ASSUME NEW m \in PageNo, m >= n + 1, m < n + 1 + (loader.left - 1)
              PROVE  m # n /\ m >= n /\ m < n + loader.left
          BY <1>1, <1>6, <4>1, PageNoType
        <4> QED
          BY <1>2, <1>7, <1>17, <4>1
      <3>3. Where(p, r) = o
        BY DEF o
      <3>4. loader.left - 1 >= 1 /\ n + 1 + (loader.left - 1) <= Dirs * Entries
            /\ loader.base <= n + 1 /\ loader.base + PagesOf(r) = n + 1 + (loader.left - 1)
        BY <1>1, <1>2, <1>6, <2>1
      <3>5. r = USER => \A m \in PageNo : m >= loader.base /\ m < n + 1 => PageAt(h2, <<p, USER>>, m) # None
        <4>1. ASSUME NEW m \in PageNo, m < n + 1, m # n PROVE m < n
          BY <1>6, <4>1, PageNoType
        <4> QED
          BY <1>2, <1>3, <1>7, <1>12, <1>17, <4>1
      <3> QED
        BY <1>2, <3>1, <3>2, <3>3, <3>4, <3>5 DEF LoaderInv
    <2>2. CASE loader.left = 1
      BY <1>9, <1>10, <1>11, <2>2 DEF LoaderInv
    <2> QED
      BY <1>11, <2>1, <2>2
  <1>33. \A q \in Own, m \in PageNo : PageAt(H, q, m) # None => PageAt(h2, q, m) # None
    BY <1>12, <1>17
  <1>34. StackInv(status', stacks', reaper', h2)
    <2>0. StackInv(status, stacks, reaper, H)
      BY DEF IInv
    <2>1. ASSUME NEW q \in Proc, HasKernel(status', reaper', q)
          PROVE  \/ q = p /\ loader.left = 1 /\ r = STACKS
                 \/ HasKernel(status, reaper, q) /\ stacks'[q].kernel = stacks[q].kernel
      <3>1. CASE q # p
        BY <1>4, <1>27, <2>1, <3>1 DEF HasKernel
      <3>2. CASE q = p /\ loader.left > 1
        BY <1>4, <1>28, <2>1, <3>2 DEF HasKernel
      <3>3. CASE q = p /\ loader.left = 1 /\ r = USER
        BY <1>2, <1>6, <1>28, <3>3 DEF HasKernel
      <3> QED
        BY <1>11, <3>1, <3>2, <3>3
    <2>2. ASSUME NEW q \in Proc, HasUser(status', reaper', q)
          PROVE  \/ q = p /\ loader.left = 1 /\ r = USER
                 \/ HasUser(status, reaper, q) /\ stacks'[q].user = stacks[q].user
      <3>1. CASE q # p
        BY <1>4, <1>27, <2>2, <3>1 DEF HasUser
      <3>2. CASE q = p /\ loader.left > 1
        BY <1>4, <1>28, <2>2, <3>2 DEF HasUser
      <3>3. CASE q = p /\ loader.left = 1 /\ r = STACKS
        BY <1>4, <1>28, <1>29, <2>2, <3>3 DEF HasUser, Reaping
      <3> QED
        BY <1>11, <3>1, <3>2, <3>3
    <2>3. \A q \in Proc : HasKernel(status, reaper, q) =>
            /\ stacks[q].kernel \in PageNo /\ PageAt(H, KS, stacks[q].kernel) # None
            /\ PageAt(h2, KS, stacks[q].kernel) # None
      BY <1>33, <2>0, OwnPlaces DEF StackInv
    <2>4. r = STACKS => PageAt(H, KS, n) = None /\ PageAt(h2, KS, n) # None
      BY <1>3, <1>7, <1>12, <1>17
    <2>5. ASSUME NEW q \in Proc, HasKernel(status', reaper', q)
          PROVE  /\ stacks'[q].kernel \in PageNo
                 /\ PageAt(h2, KS, stacks'[q].kernel) # None
                 /\ \A s \in Proc : HasKernel(status', reaper', s) /\ s # q
                      => stacks'[s].kernel # stacks'[q].kernel
      <3>1. CASE q = p /\ loader.left = 1 /\ r = STACKS
        <4>1. stacks'[q].kernel = n
          BY <1>28, <3>1
        <4>2. \A s \in Proc : HasKernel(status', reaper', s) /\ s # q => stacks'[s].kernel # n
          BY <2>1, <2>3, <2>4, <3>1
        <4> QED
          BY <1>1, <2>4, <3>1, <4>1, <4>2
      <3>2. CASE HasKernel(status, reaper, q) /\ stacks'[q].kernel = stacks[q].kernel
        <4>1. ASSUME NEW s \in Proc, HasKernel(status', reaper', s), s # q
              PROVE  stacks'[s].kernel # stacks'[q].kernel
          <5>1. CASE s = p /\ loader.left = 1 /\ r = STACKS
            BY <1>28, <2>3, <2>4, <3>2, <5>1
          <5>2. CASE HasKernel(status, reaper, s) /\ stacks'[s].kernel = stacks[s].kernel
            BY <2>0, <3>2, <4>1, <5>2 DEF StackInv
          <5> QED
            BY <2>1, <4>1, <5>1, <5>2
        <4> QED
          BY <2>3, <3>2, <4>1
      <3> QED
        BY <2>1, <2>5, <3>1, <3>2
    <2>6. ASSUME NEW q \in Proc, HasUser(status', reaper', q)
          PROVE  /\ stacks'[q].user \in PageNo /\ stacks'[q].user + StackPages <= Dirs * Entries
                 /\ \A m \in PageNo : m >= stacks'[q].user /\ m < stacks'[q].user + StackPages =>
                      PageAt(h2, <<q, USER>>, m) # None
      <3>1. CASE q = p /\ loader.left = 1 /\ r = USER
        <4>1. stacks'[q].user = loader.base /\ loader.base + StackPages = n + 1
          BY <1>2, <1>6, <1>28, <3>1
        <4>2. ASSUME NEW m \in PageNo, m >= loader.base, m < n + 1 PROVE PageAt(h2, <<p, USER>>, m) # None
          <5>1. m = n \/ m < n
            BY <1>6, <4>2, PageNoType
          <5> QED
            BY <1>2, <1>3, <1>7, <1>12, <1>17, <3>1, <4>2, <5>1
        <4>3. n + 1 <= Dirs * Entries
          BY <1>2, <1>6, <3>1
        <4> QED
          BY <1>1, <3>1, <4>1, <4>2, <4>3
      <3>2. CASE HasUser(status, reaper, q) /\ stacks'[q].user = stacks[q].user
        BY <1>33, <2>0, <3>2, OwnPlaces DEF StackInv
      <3> QED
        BY <2>2, <2>6, <3>1, <3>2
    <2> QED
      BY <2>5, <2>6 DEF StackInv
  <1>35. ReaperInv(reaper', stacks', h2)
    <2>1. ReaperInv(reaper, stacks, H)
      BY DEF IInv
    <2>2. reaper.do \in {"release", "free"} => stacks'[reaper.p].kernel = stacks[reaper.p].kernel
      BY <1>0, <1>27, <1>29, ReaperCases DEF Reaping
    <2> QED
      BY <1>0, <1>4, <1>33, <2>1, <2>2, ReaperMore
  <1> QED
    BY <1>16, <1>20, <1>21, <1>22, <1>23, <1>25, <1>26, <1>30, <1>31, <1>34, <1>35, NextInv

-----------------------------------------------------------------------------
(* The steps of the destroyer.                                             *)

\* Nothing is hidden before destroyAddressSpace() has freed something.
LEMMA GoneNone ==
  ASSUME NEW rp, \/ rp.do \in {"idle", "release", "free"}
                 \/ rp.do = "destroy" /\ rp.dir = 0 /\ rp.entry = 0
  PROVE  Gone(rp) = {}
  <1>1. ASSUME NEW a \in Child, Hidden(rp, a) PROVE FALSE
    <2>1. rp.do = "destroy" /\ a[1] # "dir" /\ (a[3] < 0 \/ (a[1] = "page" /\ a[4] < 0))
      BY <1>1 DEF Hidden
    <2>2. CASE \E o \in Own : a = DirSlot(o)
      BY <2>1, <2>2 DEF DirSlot
    <2>3. CASE \E o \in Own, k \in TableNo : a = TableSlot(o, k)
      <3>1. PICK o \in Own, k \in TableNo : a = TableSlot(o, k)
        BY <2>3
      <3>2. a[1] = "table" /\ a[3] = k /\ k \in Nat
        BY <3>1, SizeAssumption DEF TableSlot, TableNo
      <3> QED
        BY <2>1, <3>2
    <2>4. CASE \E o \in Own, k \in TableNo, x \in EntryNo : a = PageSlot(o, k, x)
      <3>1. PICK o \in Own, k \in TableNo, x \in EntryNo : a = PageSlot(o, k, x)
        BY <2>4
      <3>2. a[3] = k /\ a[4] = x /\ k \in Nat /\ x \in Nat
        BY <3>1, SizeAssumption DEF PageSlot, TableNo, EntryNo
      <3> QED
        BY <2>1, <3>2
    <2> QED
      BY <2>2, <2>3, <2>4, ChildCases
  <1> QED
    BY <1>1 DEF Gone

LEMMA StartReleaseStep ==
  ASSUME IInv, NEW p \in Proc, StartRelease(p)
  PROVE  IInv'
  <1> DEFINE n == stacks[p].kernel
  <1>0. /\ TypeOK /\ Sole(H, used) /\ H \in Slots
        /\ LoaderTyped(loader) /\ ReaperTyped(reaper) /\ status \in [Proc -> Status]
        /\ Tree(H, tab, root, Gone(reaper)) /\ InHands(H, Claimed, reaper)
    BY StateType, StateTree DEF IInv
  <1>1. /\ reaper = Idle /\ status[p] = "running"
        /\ reaper' = [do |-> "release", p |-> p, region |-> STACKS, n |-> n, left |-> 1]
        /\ status' = [status EXCEPT ![p] = "dead"]
        /\ UNCHANGED <<used, tab, root, stacks, heap, loader, lost>>
    BY DEF StartRelease, Release, PagesOf
  <1>2. /\ reaper'.do = "release" /\ reaper'.p = p /\ reaper'.region = STACKS /\ reaper'.n = n
        /\ reaper'.left = 1 /\ reaper.do = "idle"
    BY <1>1 DEF Idle
  <1>3. HasKernel(status, reaper, p) /\ HasUser(status, reaper, p) /\ n \in PageNo
    BY <1>1 DEF IInv, StackInv, HasKernel, HasUser
  <1> HIDE DEF n
  <1>4. status' \in [Proc -> Status] /\ status'[p] = "dead"
        /\ \A q \in Proc : q # p => status'[q] = status[q]
    BY <1>0, <1>1 DEF Status
  <1>5. TypeOK'
    <2>1. reaper' \in ReaperOp
      BY <1>1, <1>3 DEF ReaperOp
    <2> QED
      BY <1>0, <1>1, <1>4, <2>1 DEF TypeOK
  <1>6. Tree(H, tab', root', Gone(reaper'))
    <2>1. Gone(reaper) = {} /\ Gone(reaper') = {}
      BY <1>2, GoneNone
    <2> QED
      BY <1>0, <1>1, <2>1
  <1>7. InHands(H, Claimed', reaper')
    BY <1>0, <1>1, <1>2 DEF InHands, Claimed
  <1>8. KernelInv(tab', root', H) /\ HeapInv(tab', heap', reaper', H)
    BY <1>1, <1>2 DEF IInv, KernelInv, HeapInv
  <1>9. LifeInv(root', status', reaper', H)
    <2>1. LifeInv(root, status, reaper, H)
      BY DEF IInv
    <2>2. \A q \in Proc : ~Reaping(reaper, q) /\ (Reaping(reaper', q) <=> q = p)
      BY <1>2 DEF Reaping
    <2>3. ASSUME NEW q \in Proc
          PROVE  /\ root'[q] # None <=> status'[q] \in {"created", "loaded", "kstack", "running"} \/ Reaping(reaper', q)
                 /\ Reaping(reaper', q) => status'[q] = "dead"
                 /\ status'[q] = "running" \/ (Reaping(reaper', q) /\ reaper'.do # "destroyRoot")
                      => H[DirSlot(<<q, USER>>)] # None
      BY <1>1, <1>4, <2>1, <2>2 DEF LifeInv
    <2> QED
      BY <2>3 DEF LifeInv
  <1>10. LoaderInv(loader', lost', status', H)
    <2>1. loader # Idle => loader.p # p
      BY <1>1, LoaderAt
    <2>2. loader # Idle => status'[loader.p] = status[loader.p]
      BY <1>4, <2>1, LoaderAt
    <2> QED
      BY <1>0, <1>1, <2>2, LoaderKept DEF IInv
  <1>12. StackInv(status', stacks', reaper', H)
    <2>1. \A q \in Proc : HasKernel(status', reaper', q) => HasKernel(status, reaper, q)
      BY <1>2, <1>3, <1>4 DEF HasKernel
    <2>2. \A q \in Proc : HasUser(status', reaper', q) => HasUser(status, reaper, q)
      BY <1>2, <1>3, <1>4 DEF HasUser
    <2> QED
      BY <1>1, <2>1, <2>2, StackMore DEF IInv
  <1>13. ReaperInv(reaper', stacks', H)
    <2>1. n + 1 <= Dirs * Entries
      BY <1>3, PageNoType, SizeAssumption
    <2>2. STACKS # USER
      BY DEF STACKS, USER
    <2> QED
      BY <1>1, <1>2, <2>1, <2>2 DEF ReaperInv, n
  <1> QED
    BY <1>0, <1>1, <1>5, <1>6, <1>7, <1>8, <1>9, <1>10, <1>12, <1>13, NextInv

\* The page the destroyer is about to unmap.
LEMMA ReleaseAt ==
  ASSUME IInv, reaper.do = "release", Entry(There, reaper.n) # None,
         NEW o, o = Where(reaper.p, reaper.region),
         NEW k, k = reaper.n \div Entries, NEW x, x = reaper.n % Entries
  PROVE  /\ o \in Own /\ o # KH /\ k \in TableNo /\ x \in EntryNo
         /\ Table(There, reaper.n) = H[TableSlot(o, k)] /\ H[TableSlot(o, k)] # None
         /\ Entry(There, reaper.n) = PageAt(H, o, reaper.n)
         /\ status[reaper.p] = "dead"
  <1>0. TypeOK /\ ReaperTyped(reaper) /\ Tree(H, tab, root, Gone(reaper))
    BY StateType, StateTree DEF IInv
  <1>1. /\ reaper.p \in Proc /\ reaper.region \in {USER, STACKS}
        /\ reaper.n \in PageNo /\ reaper.left \in Nat
    BY <1>0, ReaperCases
  <1>2. Reaping(reaper, reaper.p) /\ ~Razing(reaper, reaper.p)
    BY DEF Reaping, Razing
  <1>3. root[reaper.p] # None /\ status[reaper.p] = "dead"
    BY <1>1, <1>2 DEF IInv, LifeInv
  <1>4. k \in TableNo /\ x \in EntryNo
    BY <1>1, PageNoType
  <1>5. KernelInv(tab, root, H)
    BY DEF IInv
  <1>6. /\ TableOf(tab, root, <<reaper.p, reaper.region>>, k) = H[TableSlot(o, k)]
        /\ PageOf(tab, root, <<reaper.p, reaper.region>>, k, x) = H[PageSlot(o, k, x)]
    BY <1>0, <1>1, <1>2, <1>3, <1>4, <1>5, Way
  <1>7. o \in Own /\ o # KH
    BY <1>1, OwnPlaces
  <1>8. Table(There, reaper.n) = H[TableSlot(o, k)] /\ Entry(There, reaper.n) = PageAt(H, o, reaper.n)
    BY <1>6 DEF Table, Entry, There, PageAt
  <1>9. H[TableSlot(o, k)] # None
    <2>1. PageSlot(o, k, x) \in Child /\ Up(PageSlot(o, k, x)) = TableSlot(o, k)
      BY <1>4, <1>7, ChildType, UpAt
    <2>2. H[PageSlot(o, k, x)] # None
      BY <1>8 DEF PageAt
    <2> QED
      BY <1>0, <2>1, <2>2, NoneBelow
  <1> QED
    BY <1>3, <1>4, <1>7, <1>8, <1>9

LEMMA UnmapPageStep ==
  ASSUME IInv, UnmapPage
  PROVE  IInv'
  <1> DEFINE p == reaper.p
             r == reaper.region
             n == reaper.n
             f == Entry(There, n)
             o == Where(p, r)
             k == n \div Entries
             x == n % Entries
             a == PageSlot(o, k, x)
             g == Put(H, a, None)
             h2 == Put(g, ReaperSlot, f)
  <1>0. /\ TypeOK /\ Sole(H, used) /\ H \in Slots /\ tab \in TableMap
        /\ LoaderTyped(loader) /\ ReaperTyped(reaper)
        /\ Tree(H, tab, root, Gone(reaper)) /\ InHands(H, Claimed, reaper)
    BY StateType, StateTree DEF IInv
  <1>1. /\ reaper.do = "release" /\ p \in Proc /\ r \in {USER, STACKS}
        /\ n \in PageNo /\ reaper.left \in Nat
    BY <1>0, ReaperCases DEF UnmapPage
  <1>2. /\ f # None
        /\ tab' = [tab EXCEPT ![Table(There, n)][x] = None]
        /\ reaper' = [do |-> "free", p |-> p, region |-> r, n |-> n, left |-> reaper.left, frame |-> f]
        /\ UNCHANGED <<used, root, status, stacks, heap, loader, lost>>
    BY DEF UnmapPage
  <1>3. /\ reaper'.do = "free" /\ reaper'.p = p /\ reaper'.region = r /\ reaper'.n = n
        /\ reaper'.left = reaper.left /\ reaper'.frame = f
    BY <1>2
  <1>4. /\ r = STACKS => o = KS
        /\ r = USER => o = <<p, USER>>
    BY DEF Where, USER, STACKS
  <1>5. /\ o \in Own /\ o # KH /\ k \in TableNo /\ x \in EntryNo
        /\ Table(There, n) = H[TableSlot(o, k)] /\ H[TableSlot(o, k)] # None
        /\ f = PageAt(H, o, n) /\ status[p] = "dead"
    BY <1>1, <1>2, ReleaseAt
  <1>6. ReaperInv(reaper, stacks, H) /\ StackInv(status, stacks, reaper, H)
    BY DEF IInv
  <1> HIDE DEF p, r, n, f, o, k, x
  <1>7. /\ a \in Child /\ a \in Slot /\ a \in Top \cup Child /\ H[a] = f
        /\ Up(a) = TableSlot(o, k) /\ At(a) = x /\ Up(a) \in Slot
    BY <1>5, ChildType, SlotType, UpAt DEF PageAt, k, x
  <1>8. ReaperSlot \in Slot /\ ReaperSlot \in Hand /\ a # ReaperSlot /\ H[ReaperSlot] = None
    BY <1>0, <1>1, <1>7, SlotType, Disjoint DEF InHands, Claimed
  <1>9. f \in Frame /\ H[TableSlot(o, k)] \in Frame /\ x \in Index
    BY <1>0, <1>2, <1>5, <1>7, SoleType, IndexOf
  <1>10. tab' = Entered(tab, H[TableSlot(o, k)], x, None)
    BY <1>2, <1>5 DEF Entered
  <1>11. TypeOK'
    <2>1. tab' \in TableMap
      BY <1>0, <1>9, <1>10, EnteredAt
    <2>2. reaper' \in ReaperOp
      BY <1>1, <1>2, <1>9 DEF ReaperOp
    <2> QED
      BY <1>0, <1>2, <2>1, <2>2 DEF TypeOK, TableMap
  <1>12. Gone(reaper) = {} /\ Gone(reaper') = {}
    BY <1>1, <1>3, GoneNone
  <1>13. /\ \A q \in Own, m \in PageNo : q # o \/ m # n => PageSlot(q, m \div Entries, m % Entries) # a
         /\ \A c \in Child : Up(c) # a
    <2>1. \A q \in Own, m \in PageNo : q # o \/ m # n => PageSlot(q, m \div Entries, m % Entries) # a
      BY <1>1, <1>5, Apart, PageNoOnce DEF k, x
    <2> QED
      BY <2>1, PageLast
  <1>14. DirSlot(KS) \in Slot /\ DirSlot(KH) \in Slot /\ TableSlot(KH, 0) \in Slot
         /\ DirSlot(KS) # a /\ DirSlot(KH) # a /\ TableSlot(KH, 0) # a
         /\ DirSlot(KS) # ReaperSlot /\ DirSlot(KH) # ReaperSlot /\ TableSlot(KH, 0) # ReaperSlot
         /\ \A q \in Proc : /\ DirSlot(<<q, USER>>) \in Slot /\ DirSlot(<<q, USER>>) # a
                            /\ DirSlot(<<q, USER>>) # ReaperSlot
    <2>1. DirSlot(KS) \in Child /\ DirSlot(KH) \in Child /\ TableSlot(KH, 0) \in Child
          /\ \A q \in Proc : DirSlot(<<q, USER>>) \in Child
      BY OwnPlaces, ChildType
    <2>2. DirSlot(KS) # a /\ DirSlot(KH) # a /\ TableSlot(KH, 0) # a
          /\ \A q \in Proc : DirSlot(<<q, USER>>) # a
      BY Apart
    <2> QED
      BY <2>1, <2>2, SlotType, Disjoint
  <1> HIDE DEF a
  <1>15. g \in Slots /\ g[a] = None /\ \A s \in Slot : s # a => g[s] = H[s]
    BY <1>0, <1>7, PutAt
  <1>16. Sole(h2, used')
    <2>1. Sole(Put(Put(H, a, None), ReaperSlot, H[a]), used)
      BY <1>0, <1>2, <1>7, <1>8, SoleMove
    <2> QED
      BY <1>2, <1>7, <2>1
  <1>17. Tree(g, tab', root', Gone(reaper'))
    <2>1. Tree(Put(H, a, None), Entered(tab, H[Up(a)], At(a), None), root, Gone(reaper))
      BY <1>0, <1>5, <1>7, <1>12, <1>13, WriteTree
    <2> QED
      BY <1>2, <1>7, <1>10, <1>12, <2>1
  <1> HIDE DEF g
  <1>18. Tree(h2, tab', root', Gone(reaper'))
    BY <1>8, <1>9, <1>15, <1>17, TreeHand
  <1>19. h2 \in Slots /\ h2[ReaperSlot] = f /\ \A s \in Slot : s # ReaperSlot => h2[s] = g[s]
    BY <1>8, <1>9, <1>15, PutAt
  <1> HIDE DEF h2
  <1>20. h2[a] = None /\ \A s \in Slot : s # a /\ s # ReaperSlot => h2[s] = H[s]
    BY <1>7, <1>8, <1>15, <1>19
  <1>21. InHands(h2, Claimed', reaper')
    <2>1. \A e \in Frame : LoaderSlot(e) \in Slot /\ LoaderSlot(e) # a /\ LoaderSlot(e) # ReaperSlot
      BY <1>7, SlotType, Disjoint
    <2>2. \A e \in Frame : h2[LoaderSlot(e)] = H[LoaderSlot(e)]
      BY <1>20, <2>1
    <2> QED
      BY <1>0, <1>2, <1>3, <1>19, <2>2 DEF InHands, Claimed
  <1>22. h2[DirSlot(KS)] = H[DirSlot(KS)] /\ h2[DirSlot(KH)] = H[DirSlot(KH)]
         /\ h2[TableSlot(KH, 0)] = H[TableSlot(KH, 0)]
         /\ \A q \in Proc : h2[DirSlot(<<q, USER>>)] = H[DirSlot(<<q, USER>>)]
    BY <1>14, <1>20
  <1>23. PageAt(h2, o, n) = None
         /\ \A q \in Own, m \in PageNo : q # o \/ m # n => PageAt(h2, q, m) = PageAt(H, q, m)
    <2>1. \A q \in Own, m \in PageNo :
            PageSlot(q, m \div Entries, m % Entries) \in Slot /\ PageSlot(q, m \div Entries, m % Entries) # ReaperSlot
      BY PagePlace, Disjoint
    <2>2. PageAt(h2, o, n) = None
      BY <1>20 DEF PageAt, a, k, x
    <2> QED
      BY <1>13, <1>20, <2>1, <2>2 DEF PageAt
  <1>24. KernelInv(tab', root', h2)
    <2>1. \A s \in Space : H[RootSlot(s)] = root[s]
      BY <1>0 DEF Tree
    <2>2. KernelInv(tab, root, H)
      BY DEF IInv
    <2>3. KernelInv(Entered(tab, H[TableSlot(o, k)], x, None), root, h2)
      BY <1>0, <1>5, <1>22, <2>1, <2>2, KernelWritten
    <2> QED
      BY <1>2, <1>10, <2>3
  <1>25. HeapInv(tab', heap', reaper', h2)
    <2>1. KernelInv(tab, root, H) /\ HeapInv(tab, heap, reaper, H)
      BY DEF IInv
    <2>2. HeapInv(Entered(tab, H[TableSlot(o, k)], x, None), heap, reaper', h2)
      BY <1>0, <1>3, <1>5, <1>22, <2>1, HeapWritten
    <2> QED
      BY <1>2, <1>10, <2>2
  <1>26. LifeInv(root', status', reaper', h2)
    <2>1. LifeInv(root, status, reaper, H)
      BY DEF IInv
    <2>2. \A q \in Proc : Reaping(reaper', q) <=> Reaping(reaper, q)
      BY <1>1, <1>3 DEF Reaping, p
    <2>3. reaper'.do # "destroyRoot" /\ reaper.do # "destroyRoot"
      BY <1>1, <1>3
    <2> QED
      BY <1>2, <1>22, <2>1, <2>2, <2>3 DEF LifeInv
  <1>27. \A q \in Own, m \in PageNo : PageAt(H, q, m) = None => PageAt(h2, q, m) = None
    BY <1>23
  <1>28. \A q \in Proc, m \in PageNo : q # p => PageAt(h2, <<q, USER>>, m) = PageAt(H, <<q, USER>>, m)
    <2>1. \A q \in Proc : q # p => <<q, USER>> # o
      BY <1>1, <1>4, OwnPlaces
    <2> QED
      BY <1>23, <2>1, OwnPlaces
  <1>29. LoaderInv(loader', lost', status', h2)
    <2>1. loader # Idle => loader.p \in Proc /\ loader.p # p /\ Where(loader.p, loader.region) \in Own
      BY <1>5, LoaderAt
    <2> QED
      BY <1>0, <1>2, <1>27, <1>28, <2>1, LoaderKept DEF IInv
  <1>31. StackInv(status', stacks', reaper', h2)
    <2>1. r = STACKS => HasKernel(status, reaper, p) /\ n = stacks[p].kernel
      BY <1>1, <1>6 DEF HasKernel, ReaperInv, p, r, n
    <2>2. ASSUME NEW q \in Proc, HasKernel(status', reaper', q)
          PROVE  /\ HasKernel(status, reaper, q) /\ stacks'[q].kernel = stacks[q].kernel
                 /\ PageAt(h2, KS, stacks[q].kernel) # None
      <3>1. HasKernel(status, reaper, q) /\ q # p
        BY <1>2, <1>3, <1>5, <2>2 DEF HasKernel
      <3>2. stacks[q].kernel \in PageNo /\ PageAt(H, KS, stacks[q].kernel) # None
        BY <1>6, <3>1 DEF StackInv
      <3>3. o = KS => stacks[q].kernel # n
        <4>1. o = KS => r = STACKS
          BY <1>1, <1>4, OwnPlaces
        <4> QED
          BY <1>1, <1>6, <2>1, <3>1, <4>1 DEF StackInv
      <3> QED
        BY <1>2, <1>23, <3>1, <3>2, <3>3, OwnPlaces
    <2>3. ASSUME NEW q \in Proc, HasUser(status', reaper', q)
          PROVE  /\ HasUser(status, reaper, q) /\ stacks'[q].user = stacks[q].user
                 /\ \A m \in PageNo : PageAt(H, <<q, USER>>, m) # None => PageAt(h2, <<q, USER>>, m) # None
      <3>1. HasUser(status, reaper, q)
        BY <1>1, <1>2, <1>3, <2>3 DEF HasUser, p, r
      <3>2. <<q, USER>> # o
        <4>1. CASE q = p
          <5>1. r = STACKS
            BY <1>2, <1>3, <1>5, <2>3, <4>1 DEF HasUser
          <5> QED
            BY <1>4, <5>1, OwnPlaces
        <4>2. CASE q # p
          BY <1>1, <1>4, <4>2, OwnPlaces
        <4> QED
          BY <4>1, <4>2
      <3> QED
        BY <1>2, <1>23, <3>1, <3>2, OwnPlaces
    <2> QED
      BY <1>6, <2>2, <2>3, StackKept
  <1>32. ReaperInv(reaper', stacks', h2)
    <2>1. /\ reaper.left >= 1 /\ n + reaper.left <= Dirs * Entries
          /\ r = STACKS => reaper.left = 1
      BY <1>1, <1>6 DEF ReaperInv, n, r
    <2>2. r = USER => \A m \in PageNo : m > n /\ m < n + reaper.left => PageAt(H, <<p, USER>>, m) # None
      BY <1>1, <1>6 DEF ReaperInv, n, r, p
    <2>3. \A m \in PageNo : m > n => m # n
      BY <1>1, PageNoType
    <2>4. r = USER => \A m \in PageNo : m > n /\ m < n + reaper.left => PageAt(h2, <<p, USER>>, m) # None
      BY <1>1, <1>4, <1>23, <2>2, <2>3, OwnPlaces
    <2> QED
      BY <1>3, <2>1, <2>4 DEF ReaperInv
  <1> QED
    BY <1>11, <1>16, <1>18, <1>19, <1>21, <1>24, <1>25, <1>26, <1>29, <1>31, <1>32, NextInv

\* The page in hand is given back: the next one, the user stack, or the end of
\* the address space.
LEMMA FreePageStep ==
  ASSUME IInv, FreePage
  PROVE  IInv'
  <1> DEFINE p == reaper.p
             r == reaper.region
             n == reaper.n
             f == reaper.frame
             h2 == Put(H, ReaperSlot, None)
  <1>0. /\ TypeOK /\ Sole(H, used) /\ H \in Slots
        /\ LoaderTyped(loader) /\ ReaperTyped(reaper)
        /\ Tree(H, tab, root, Gone(reaper)) /\ InHands(H, Claimed, reaper)
    BY StateType, StateTree DEF IInv
  <1>1. /\ reaper.do = "free" /\ p \in Proc /\ r \in {USER, STACKS}
        /\ n \in PageNo /\ reaper.left \in Nat /\ f \in Frame
    BY <1>0, ReaperCases DEF FreePage
  <1>2. used' = used \ {f} /\ UNCHANGED <<tab, root, status, stacks, heap, loader, lost>>
    BY DEF FreePage
  <1>3. \/ /\ reaper.left > 1
           /\ reaper' = [do |-> "release", p |-> p, region |-> r, n |-> n + 1, left |-> reaper.left - 1]
        \/ /\ reaper.left = 1 /\ r = STACKS
           /\ reaper' = [do |-> "release", p |-> p, region |-> USER, n |-> stacks[p].user, left |-> StackPages]
        \/ /\ reaper.left = 1 /\ r = USER
           /\ reaper' = [do |-> "destroy", p |-> p, dir |-> 0, entry |-> 0]
    <2>1. USER # STACKS
      BY DEF USER, STACKS
    <2> QED
      BY <2>1 DEF FreePage, Release, Destroy, NextPage, PagesOf
  <1>4. /\ reaper.left >= 1 /\ n + reaper.left <= Dirs * Entries
        /\ r = STACKS => reaper.left = 1
        /\ r = USER => \A m \in PageNo : m > n /\ m < n + reaper.left => PageAt(H, <<p, USER>>, m) # None
    BY <1>1 DEF IInv, ReaperInv
  <1>5. r = STACKS => /\ stacks[p].user \in PageNo /\ stacks[p].user + StackPages <= Dirs * Entries
                      /\ \A m \in PageNo : m >= stacks[p].user /\ m < stacks[p].user + StackPages =>
                           PageAt(H, <<p, USER>>, m) # None
    <2>1. r = STACKS => HasUser(status, reaper, p)
      BY <1>1 DEF HasUser
    <2> QED
      BY <1>1, <2>1 DEF IInv, StackInv
  <1>6. StackPages \in Nat /\ StackPages >= 1 /\ Dirs * Entries \in Nat /\ Dirs \in Nat /\ Entries \in Nat
        /\ USER # STACKS /\ n \in Nat
    BY <1>1, PageNoType, SizeAssumption DEF USER, STACKS
  <1> HIDE DEF p, r, n, f
  <1>7. ASSUME reaper.left > 1
        PROVE  /\ reaper' = [do |-> "release", p |-> p, region |-> USER, n |-> n + 1, left |-> reaper.left - 1]
               /\ r = USER /\ n + 1 \in PageNo
    BY <1>1, <1>3, <1>4, <1>6, <1>7 DEF PageNo
  <1>8. ReaperTyped(reaper')
    <2>1. CASE reaper.left > 1
      <3>1. reaper.left - 1 \in Nat
        BY <1>1, <2>1
      <3> QED
        BY <1>1, <1>7, <2>1, <3>1 DEF ReaperTyped, ReaperOp
    <2>2. CASE reaper.left = 1 /\ r = STACKS
      BY <1>1, <1>3, <1>5, <1>6, <2>2 DEF ReaperTyped, ReaperOp
    <2>3. CASE reaper.left = 1 /\ r = USER
      <3>1. reaper' = [do |-> "destroy", p |-> p, dir |-> 0, entry |-> 0]
        BY <1>3, <1>6, <2>3
      <3>2. 0 \in 0..Dirs /\ 0 \in 0..Entries
        BY <1>6
      <3> QED
        BY <1>1, <3>1, <3>2 DEF ReaperTyped, ReaperOp
    <2> QED
      BY <1>3, <2>1, <2>2, <2>3
  <1>9. TypeOK'
    <2>1. used' \subseteq Frame
      BY <1>0, <1>2 DEF TypeOK
    <2> QED
      BY <1>0, <1>2, <1>8, <2>1 DEF TypeOK, ReaperTyped
  <1>10. \/ reaper'.do = "release" /\ reaper'.p = p /\ reaper'.region = USER
         \/ reaper'.do = "destroy" /\ reaper'.p = p /\ reaper'.dir = 0 /\ reaper'.entry = 0
    BY <1>3, <1>7
  <1>11. Gone(reaper) = {} /\ Gone(reaper') = {}
    BY <1>1, <1>10, GoneNone
  <1>12. ReaperSlot \in Slot /\ ReaperSlot \in Hand /\ H[ReaperSlot] = f /\ f # None
    BY <1>0, <1>1, SlotType, Disjoint, IndexOf DEF InHands, Claimed, f
  <1>13. Sole(h2, used')
    BY <1>0, <1>2, <1>12, SoleDrop
  <1>14. Tree(h2, tab', root', Gone(reaper'))
    BY <1>0, <1>2, <1>11, <1>12, TreeHand
  <1>15. h2 \in Slots /\ h2[ReaperSlot] = None /\ \A s \in Slot : s # ReaperSlot => h2[s] = H[s]
    BY <1>0, <1>12, PutAt
  <1> HIDE DEF h2
  <1>16. \A s \in Top \cup Child : h2[s] = H[s]
    <2>1. \A s \in Top \cup Child : s \in Slot /\ s # ReaperSlot
      BY Disjoint DEF Slot
    <2> QED
      BY <1>15, <2>1
  <1>17. InHands(h2, Claimed', reaper')
    <2>1. \A e \in Frame : LoaderSlot(e) \in Slot /\ LoaderSlot(e) # ReaperSlot
      BY SlotType, Disjoint
    <2> QED
      BY <1>0, <1>2, <1>10, <1>15, <2>1 DEF InHands, Claimed
  <1>18. \A q \in Own, m \in PageNo : PageAt(h2, q, m) = PageAt(H, q, m)
    BY <1>16, PagePlace DEF PageAt
  <1>19. KernelInv(tab', root', h2) /\ HeapInv(tab', heap', reaper', h2)
    <2>1. DirSlot(KS) \in Child /\ DirSlot(KH) \in Child /\ TableSlot(KH, 0) \in Child
      BY OwnPlaces, ChildType
    <2> QED
      BY <1>2, <1>10, <1>16, <2>1 DEF KernelInv, HeapInv, IInv
  <1>20. LifeInv(root', status', reaper', h2)
    <2>1. LifeInv(root, status, reaper, H)
      BY DEF IInv
    <2>2. \A q \in Proc : Reaping(reaper', q) <=> Reaping(reaper, q)
      BY <1>1, <1>10 DEF Reaping, p
    <2>3. reaper'.do # "destroyRoot" /\ reaper.do # "destroyRoot"
      BY <1>1, <1>10
    <2>4. \A q \in Proc : h2[DirSlot(<<q, USER>>)] = H[DirSlot(<<q, USER>>)]
      BY <1>16, OwnPlaces, ChildType
    <2> QED
      BY <1>2, <2>1, <2>2, <2>3, <2>4 DEF LifeInv
  <1>21. LoaderInv(loader', lost', status', h2)
    <2>1. loader # Idle => loader.p \in Proc /\ Where(loader.p, loader.region) \in Own
      BY LoaderAt
    <2> QED
      BY <1>0, <1>2, <1>18, <2>1, OwnPlaces, LoaderKept DEF IInv
  <1>23. StackInv(status', stacks', reaper', h2)
    <2>1. \A q \in Proc : HasKernel(status', reaper', q) => HasKernel(status, reaper, q)
      BY <1>2, <1>6, <1>10 DEF HasKernel
    <2>2. \A q \in Proc : HasUser(status', reaper', q) => HasUser(status, reaper, q)
      BY <1>2, <1>6, <1>10 DEF HasUser
    <2> QED
      BY <1>2, <1>18, <2>1, <2>2, StackMore DEF IInv
  <1>24. ReaperInv(reaper', stacks', h2)
    <2>0. \A m \in PageNo : PageAt(h2, <<p, USER>>, m) = PageAt(H, <<p, USER>>, m)
      BY <1>1, <1>18, OwnPlaces
    <2>1. CASE reaper.left > 1
      <3>1. /\ reaper'.do = "release" /\ reaper'.p = p /\ reaper'.region = USER
            /\ reaper'.n = n + 1 /\ reaper'.left = reaper.left - 1 /\ r = USER /\ n + 1 \in PageNo
        BY <1>7, <2>1
      <3>2. \A m \in PageNo : m > n + 1 /\ m < (n + 1) + (reaper.left - 1) => m > n /\ m < n + reaper.left
        <4>1. \A m \in PageNo : m \in Nat
          BY PageNoType
        <4> QED
          BY <1>1, <1>6, <4>1
      <3>3. n + 1 > n /\ n + 1 < n + reaper.left
        BY <1>1, <1>6, <2>1
      <3>4. /\ \A m \in PageNo : m > n + 1 /\ m < (n + 1) + (reaper.left - 1) => PageAt(h2, <<p, USER>>, m) # None
            /\ PageAt(h2, <<p, USER>>, n + 1) # None
        BY <1>4, <2>0, <3>1, <3>2, <3>3
      <3>5. reaper.left - 1 >= 1 /\ (n + 1) + (reaper.left - 1) <= Dirs * Entries
        BY <1>1, <1>4, <1>6, <2>1
      <3> QED
        BY <1>6, <3>1, <3>4, <3>5 DEF ReaperInv
    <2>2. CASE reaper.left = 1 /\ r = STACKS
      <3>1. /\ reaper'.do = "release" /\ reaper'.p = p /\ reaper'.region = USER
            /\ reaper'.n = stacks[p].user /\ reaper'.left = StackPages
        BY <1>1, <1>3, <1>6, <2>2
      <3>2. \A m \in PageNo : m > stacks[p].user => m >= stacks[p].user
        <4>1. \A m \in PageNo : m \in Nat
          BY PageNoType
        <4> QED
          BY <1>5, <2>2, <4>1
      <3>3. stacks[p].user >= stacks[p].user /\ stacks[p].user < stacks[p].user + StackPages
        BY <1>5, <1>6, <2>2, PageNoType
      <3> QED
        BY <1>5, <1>6, <2>0, <2>2, <3>1, <3>2, <3>3 DEF ReaperInv
    <2>3. CASE reaper.left = 1 /\ r = USER
      <3>1. reaper'.do = "destroy"
        BY <1>1, <1>3, <1>6, <2>3
      <3> QED
        BY <3>1 DEF ReaperInv
    <2> QED
      BY <1>3, <2>1, <2>2, <2>3
  <1> QED
    BY <1>9, <1>13, <1>14, <1>15, <1>17, <1>19, <1>20, <1>21, <1>23, <1>24, NextInv

\* What is in the user half of p is there alone.
LEMMA UserPlace ==
  ASSUME NEW p \in Proc, NEW b \in Child, b[2][1] = p
  PROVE  b[2] = <<p, USER>>
  <1>1. \A o \in Own : DirSlot(o)[2] = o /\ \A k, x : TableSlot(o, k)[2] = o /\ PageSlot(o, k, x)[2] = o
    BY DEF DirSlot, TableSlot, PageSlot
  <1>2. b[2] \in Own
    BY <1>1, ChildCases
  <1>3. b[2] \in Proc \X {USER}
    BY <1>2, SizeAssumption DEF Own
  <1> QED
    BY <1>3

\* A place of the user half of the process that is being destroyed is given
\* back and hidden, and with it others that hold none.
LEMMA RazeStep ==
  ASSUME IInv, reaper.do = "destroy", NEW a \in Child, a[2] = <<reaper.p, USER>>,
         reaper' \in ReaperOp, reaper'.p = reaper.p, reaper'.do \in {"destroy", "destroyRoot"},
         a = DirSlot(<<reaper.p, USER>>) => reaper'.do = "destroyRoot",
         a \in Gone(reaper'), Gone(reaper) \subseteq Gone(reaper'),
         \A b \in Child : b \in Gone(reaper') /\ b \notin Gone(reaper) /\ b # a => H[b] = None,
         \A b \in Child : Up(b) = a => H[b] = None,
         tab' \in TableMap, \A f \in Frame : f # H[a] => tab'[f] = tab[f],
         used' = used \ {H[a]}, UNCHANGED <<root, status, stacks, heap, loader, lost>>
  PROVE  IInv'
  <1> DEFINE p == reaper.p
             h2 == Put(H, a, None)
  <1>0. /\ TypeOK /\ Sole(H, used) /\ H \in Slots
        /\ LoaderTyped(loader) /\ ReaperTyped(reaper)
        /\ Tree(H, tab, root, Gone(reaper)) /\ InHands(H, Claimed, reaper)
    BY StateType, StateTree DEF IInv
  <1>1. p \in Proc /\ <<p, USER>> \in Own /\ <<p, USER>> # KS /\ <<p, USER>> # KH
    BY <1>0, ReaperCases, OwnPlaces
  <1>2. status[p] = "dead"
    BY <1>1 DEF IInv, LifeInv, Reaping
  <1> HIDE DEF p
  <1>3. TypeOK'
    <2>1. used' \subseteq Frame
      BY <1>0 DEF TypeOK
    <2> QED
      BY <1>0, <2>1 DEF TypeOK, TableMap
  <1>4. a \in Slot /\ a \in Top \cup Child /\ None \notin Frame
    BY SlotType, IndexOf
  <1>5. h2 \in Slots /\ h2[a] = None /\ \A s \in Slot : s # a => h2[s] = H[s]
    BY <1>0, <1>4, PutAt
  <1>6. Sole(h2, used')
    <2>1. CASE H[a] = None
      <3>1. h2 = H
        BY <1>0, <1>4, <2>1, PutSame
      <3>2. used' = used
        BY <1>0, <1>4, <2>1 DEF TypeOK
      <3> QED
        BY <1>0, <3>1, <3>2
    <2>2. CASE H[a] # None
      BY <1>0, <1>4, <2>2, SoleDrop
    <2> QED
      BY <2>1, <2>2
  <1>7. Tree(h2, tab', root', Gone(reaper'))
    <2>1. Tree(Put(H, a, None), tab', root, Gone(reaper'))
      BY <1>0, HideTree
    <2> QED
      BY <2>1
  <1>8. InHands(h2, Claimed', reaper')
    <2>1. Claimed' = Claimed
      BY DEF Claimed, Segments
    <2> QED
      BY <1>0, <1>4, <2>1, HandsKept
  <1> HIDE DEF h2
  <1>9. /\ \A o : DirSlot(o)[2] = o
        /\ \A o, k : TableSlot(o, k)[2] = o
        /\ \A o, k, x : PageSlot(o, k, x)[2] = o
    BY DEF DirSlot, TableSlot, PageSlot
  <1>10. \A o \in Own, m \in PageNo : PageAt(H, o, m) = None \/ o # <<p, USER>> => PageAt(h2, o, m) = PageAt(H, o, m)
    <2>1. ASSUME NEW o \in Own, NEW m \in PageNo, PageAt(H, o, m) = None \/ o # <<p, USER>>
          PROVE  PageAt(h2, o, m) = PageAt(H, o, m)
      <3>1. PageSlot(o, m \div Entries, m % Entries) \in Slot
        BY PagePlace
      <3>2. CASE PageSlot(o, m \div Entries, m % Entries) = a
        <4>1. o = <<p, USER>>
          BY <1>9, <3>2 DEF p
        <4> QED
          BY <1>5, <2>1, <3>2, <4>1 DEF PageAt
      <3>3. CASE PageSlot(o, m \div Entries, m % Entries) # a
        BY <1>5, <3>1, <3>3 DEF PageAt
      <3> QED
        BY <3>2, <3>3
    <2> QED
      BY <2>1
  <1>11. /\ DirSlot(KS) \in Slot /\ DirSlot(KH) \in Slot /\ TableSlot(KH, 0) \in Slot
         /\ DirSlot(KS) # a /\ DirSlot(KH) # a /\ TableSlot(KH, 0) # a
    BY <1>1, <1>9, OwnPlaces, SlotType DEF p
  <1>12. /\ h2[DirSlot(KS)] = H[DirSlot(KS)] /\ h2[DirSlot(KH)] = H[DirSlot(KH)]
         /\ h2[TableSlot(KH, 0)] = H[TableSlot(KH, 0)]
    BY <1>5, <1>11
  <1>13. KernelInv(tab', root', h2)
    <2>1. KernelInv(tab, root, H)
      BY DEF IInv
    <2>2. ASSUME NEW s \in Space, root[s] # None PROVE tab'[root[s]][STACKS] = tab[root[s]][STACKS]
      <3>1. RootSlot(s) \in Slot /\ RootSlot(s) # a /\ H[RootSlot(s)] = root[s]
        BY <1>0, ChildType, SlotType, Disjoint DEF Tree
      <3>2. H[RootSlot(s)] \in Frame /\ H[RootSlot(s)] # H[a]
        BY <1>0, <1>4, <2>2, <3>1, SoleType DEF Sole
      <3> QED
        BY <3>1, <3>2
    <2> QED
      BY <1>12, <2>1, <2>2, KernelKept
  <1>14. HeapInv(tab', heap', reaper', h2)
    <2>1. HeapInv(tab, heap, reaper, H)
      BY DEF IInv
    <2>2. H[TableSlot(KH, 0)] \in Frame /\ H[TableSlot(KH, 0)] # H[a]
      <3>1. H[TableSlot(KH, 0)] # None
        BY DEF IInv, KernelInv
      <3> QED
        BY <1>0, <1>4, <1>11, <3>1, SoleType DEF Sole
    <2>3. tab'[H[TableSlot(KH, 0)]] = tab[H[TableSlot(KH, 0)]]
      BY <2>2
    <2>4. HeapInv(tab', heap, reaper', h2)
      BY <1>12, <2>1, <2>3, HeapKept
    <2> QED
      BY <2>4
  <1>15. LifeInv(root', status', reaper', h2)
    <2>1. LifeInv(root, status, reaper, H)
      BY DEF IInv
    <2>2. \A q \in Proc : Reaping(reaper', q) <=> Reaping(reaper, q)
      BY DEF Reaping
    <2>3. \A q \in Proc : q # p => h2[DirSlot(<<q, USER>>)] = H[DirSlot(<<q, USER>>)]
      <3>1. \A q \in Proc : DirSlot(<<q, USER>>) \in Slot
        BY OwnPlaces, SlotType
      <3>2. \A q \in Proc : q # p => <<q, USER>> # <<p, USER>>
        BY <1>1, OwnPlaces
      <3>3. \A q \in Proc : q # p => DirSlot(<<q, USER>>) # a
        BY <1>9, <3>2 DEF p
      <3> QED
        BY <1>5, <3>1, <3>3
    <2>4. reaper'.do # "destroyRoot" => h2[DirSlot(<<p, USER>>)] = H[DirSlot(<<p, USER>>)]
      <3>1. DirSlot(<<p, USER>>) \in Slot
        BY <1>1, SlotType
      <3> QED
        BY <1>5, <3>1 DEF p
    <2>5. ASSUME NEW q \in Proc
          PROVE  /\ root'[q] # None <=> status'[q] \in {"created", "loaded", "kstack", "running"} \/ Reaping(reaper', q)
                 /\ Reaping(reaper', q) => status'[q] = "dead"
                 /\ status'[q] = "running" \/ (Reaping(reaper', q) /\ reaper'.do # "destroyRoot")
                      => h2[DirSlot(<<q, USER>>)] # None
      <3>1. CASE q = p
        BY <1>2, <2>1, <2>2, <2>4, <3>1 DEF LifeInv
      <3>2. CASE q # p
        <4>1. ~Reaping(reaper', q)
          BY <3>2 DEF Reaping, p
        <4> QED
          BY <2>1, <2>2, <2>3, <3>2, <4>1 DEF LifeInv
      <3> QED
        BY <3>1, <3>2
    <2> QED
      BY <2>5 DEF LifeInv
  <1>16. \A q \in Proc, m \in PageNo : q # p => PageAt(h2, <<q, USER>>, m) = PageAt(H, <<q, USER>>, m)
    <2>1. \A q \in Proc : q # p => <<q, USER>> \in Own /\ <<q, USER>> # <<p, USER>>
      BY <1>1, OwnPlaces
    <2> QED
      BY <1>10, <2>1
  <1>17. LoaderInv(loader', lost', status', h2)
    <2>1. loader # Idle => loader.p \in Proc /\ loader.p # p /\ Where(loader.p, loader.region) \in Own
      BY <1>2, LoaderAt
    <2>2. ASSUME NEW q \in Own, NEW m \in PageNo, PageAt(H, q, m) = None
          PROVE  PageAt(h2, q, m) = None
      <3>1. PageAt(h2, q, m) = PageAt(H, q, m)
        BY <1>10, <2>2
      <3> QED
        BY <2>2, <3>1
    <2>3. loader # Idle => \A m \in PageNo : PageAt(H, Where(loader.p, loader.region), m) = None
                                             => PageAt(h2, Where(loader.p, loader.region), m) = None
      BY <2>1, <2>2
    <2>4. loader # Idle => \A m \in PageNo : PageAt(H, <<loader.p, USER>>, m) # None
                                             => PageAt(h2, <<loader.p, USER>>, m) # None
      BY <1>16, <2>1
    <2>5. LoaderInv(loader, lost, status, H) /\ status' = status /\ loader' = loader
      BY DEF IInv
    <2>6. LoaderInv(loader, lost, status, h2)
      BY <1>0, <2>3, <2>4, <2>5, LoaderKept
    <2> QED
      BY <2>5, <2>6
  <1>19. StackInv(status', stacks', reaper', h2)
    <2>0. StackInv(status, stacks, reaper, H)
      BY DEF IInv
    <2>1. ASSUME NEW q \in Proc, HasKernel(status', reaper', q)
          PROVE  /\ HasKernel(status, reaper, q) /\ stacks'[q].kernel = stacks[q].kernel
                 /\ PageAt(h2, KS, stacks[q].kernel) # None
      <3>1. HasKernel(status, reaper, q)
        BY <2>1 DEF HasKernel
      <3>2. stacks[q].kernel \in PageNo /\ PageAt(H, KS, stacks[q].kernel) # None
        BY <2>0, <3>1 DEF StackInv
      <3> QED
        BY <1>1, <1>10, <3>1, <3>2, OwnPlaces
    <2>2. ASSUME NEW q \in Proc, HasUser(status', reaper', q)
          PROVE  /\ HasUser(status, reaper, q) /\ stacks'[q].user = stacks[q].user
                 /\ \A m \in PageNo : PageAt(H, <<q, USER>>, m) # None => PageAt(h2, <<q, USER>>, m) # None
      <3>1. HasUser(status, reaper, q) /\ q # p
        BY <1>2, <2>2 DEF HasUser
      <3> QED
        BY <1>16, <3>1
    <2> QED
      BY <2>0, <2>1, <2>2, StackKept
  <1>20. ReaperInv(reaper', stacks', h2)
    BY DEF ReaperInv
  <1> QED
    BY <1>3, <1>5, <1>6, <1>7, <1>8, <1>13, <1>14, <1>15, <1>17, <1>19, <1>20, NextInv

\* Where destroyAddressSpace() is.
LEMMA RazeAt ==
  ASSUME IInv, reaper.do = "destroy", NEW o, o = <<reaper.p, USER>>
  PROVE  /\ reaper.p \in Proc /\ o \in Own /\ o[1] = reaper.p
         /\ reaper.dir \in 0..Dirs /\ reaper.entry \in 0..Entries
         /\ H[DirSlot(o)] = Dir(o) /\ Dir(o) # None
         /\ reaper.dir < Dirs => /\ reaper.dir \in TableNo
                                 /\ H[TableSlot(o, reaper.dir)] = Doomed
                                 /\ \A x \in EntryNo : H[PageSlot(o, reaper.dir, x)] =
                                      IF x < reaper.entry \/ Doomed = None THEN None ELSE tab[Doomed][x]
  <1>0. TypeOK /\ ReaperTyped(reaper)
    BY StateType DEF IInv
  <1>1. /\ reaper.p \in Proc /\ o \in Own /\ o[1] = reaper.p /\ o # KH
        /\ reaper.dir \in 0..Dirs /\ reaper.entry \in 0..Entries
    BY <1>0, ReaperCases, OwnPlaces
  <1>2. Dirs \in Nat /\ Entries \in Nat /\ 0 \in TableNo /\ 0 \in EntryNo
    BY SizeAssumption, OwnPlaces
  <1>3. H[DirSlot(o)] = Dir(o)
    <2>1. ~Hidden(reaper, DirSlot(o))
      BY DEF Hidden, DirSlot
    <2> QED
      BY <1>0, <1>1, <1>2, <2>1, HAt DEF Dir
  <1>4. Dir(o) # None
    BY <1>1, <1>3 DEF IInv, LifeInv, Reaping
  <1>5. ASSUME reaper.dir < Dirs
        PROVE  /\ reaper.dir \in TableNo
               /\ H[TableSlot(o, reaper.dir)] = Doomed
               /\ \A x \in EntryNo : H[PageSlot(o, reaper.dir, x)] =
                    IF x < reaper.entry \/ Doomed = None THEN None ELSE tab[Doomed][x]
    <2>1. reaper.dir \in TableNo /\ ~(reaper.dir < reaper.dir)
      BY <1>1, <1>2, <1>5 DEF TableNo
    <2>2. ~Hidden(reaper, TableSlot(o, reaper.dir))
      <3>1. /\ TableSlot(o, reaper.dir)[1] = "table" /\ TableSlot(o, reaper.dir)[3] = reaper.dir
        BY DEF TableSlot
      <3> QED
        BY <2>1, <3>1 DEF Hidden
    <2>3. H[TableSlot(o, reaper.dir)] = Doomed
      BY <1>0, <1>1, <1>2, <2>1, <2>2, HAt DEF Doomed
    <2>4. ASSUME NEW x \in EntryNo
          PROVE  H[PageSlot(o, reaper.dir, x)] =
                   IF x < reaper.entry \/ Doomed = None THEN None ELSE tab[Doomed][x]
      <3>1. /\ PageSlot(o, reaper.dir, x)[1] = "page" /\ PageSlot(o, reaper.dir, x)[2] = o
            /\ PageSlot(o, reaper.dir, x)[3] = reaper.dir /\ PageSlot(o, reaper.dir, x)[4] = x
        BY DEF PageSlot
      <3>2. Hidden(reaper, PageSlot(o, reaper.dir, x)) <=> x < reaper.entry
        BY <1>1, <2>1, <3>1 DEF Hidden
      <3>3. H[PageSlot(o, reaper.dir, x)] = IF Hidden(reaper, PageSlot(o, reaper.dir, x)) THEN None
                                            ELSE PageOf(tab, root, o, reaper.dir, x)
        BY <1>0, <1>1, <2>1, HAt
      <3> QED
        BY <3>2, <3>3 DEF PageOf, Doomed
    <2> QED
      BY <2>1, <2>3, <2>4
  <1> QED
    BY <1>1, <1>3, <1>4, <1>5

\* The levels of the places of the user half.
LEMMA RazedCases ==
  ASSUME NEW p \in Proc, NEW b \in Child, b[2][1] = p, NEW o, o = <<p, USER>>
  PROVE  \/ b = DirSlot(o) /\ b[1] = "dir"
         \/ b[1] = "table" /\ b[3] \in TableNo /\ b = TableSlot(o, b[3])
         \/ b[1] = "page" /\ b[3] \in TableNo /\ b[4] \in EntryNo /\ b = PageSlot(o, b[3], b[4])
  <1>1. b[2] = o
    BY UserPlace
  <1>2. CASE \E q \in Own : b = DirSlot(q)
    BY <1>1, <1>2 DEF DirSlot
  <1>3. CASE \E q \in Own, k \in TableNo : b = TableSlot(q, k)
    BY <1>1, <1>3 DEF TableSlot
  <1>4. CASE \E q \in Own, k \in TableNo, x \in EntryNo : b = PageSlot(q, k, x)
    BY <1>1, <1>4 DEF PageSlot
  <1> QED
    BY <1>2, <1>3, <1>4, ChildCases

\* What is hidden below the root of p, by level.
LEMMA HiddenAt ==
  ASSUME NEW rp, rp.do = "destroy", NEW o, o = <<rp.p, USER>>, NEW k, NEW x
  PROVE  /\ ~Hidden(rp, DirSlot(o))
         /\ Hidden(rp, TableSlot(o, k)) <=> k < rp.dir
         /\ Hidden(rp, PageSlot(o, k, x)) <=> k < rp.dir \/ (k = rp.dir /\ x < rp.entry)
  <1>1. /\ DirSlot(o)[1] = "dir"
        /\ TableSlot(o, k)[1] = "table" /\ TableSlot(o, k)[2] = o /\ TableSlot(o, k)[3] = k
        /\ PageSlot(o, k, x)[1] = "page" /\ PageSlot(o, k, x)[2] = o
        /\ PageSlot(o, k, x)[3] = k /\ PageSlot(o, k, x)[4] = x
    BY DEF DirSlot, TableSlot, PageSlot
  <1>2. o[1] = rp.p
    OBVIOUS
  <1> QED
    BY <1>1, <1>2 DEF Hidden

\* What a step from one point of destroyAddressSpace() to a later one hides.
LEMMA HiddenMore ==
  ASSUME NEW rp, rp.do = "destroy", rp.p \in Proc, rp.dir \in Nat, rp.entry \in Nat,
         NEW rq, rq.p = rp.p,
         \/ rq.do = "destroyRoot"
         \/ /\ rq.do = "destroy" /\ rq.dir \in Nat /\ rq.entry \in Nat
            /\ rp.dir < rq.dir \/ (rp.dir = rq.dir /\ rp.entry <= rq.entry)
  PROVE  Gone(rp) \subseteq Gone(rq)
  <1> DEFINE o == <<rp.p, USER>>
  <1>1. ASSUME NEW b \in Child, Hidden(rp, b) PROVE Hidden(rq, b)
    <2>1. b[2][1] = rp.p
      BY <1>1 DEF Hidden
    <2>2. CASE rq.do = "destroyRoot"
      BY <2>1, <2>2 DEF Hidden
    <2>3. CASE rq.do = "destroy"
      <3>1. CASE b = DirSlot(o)
        BY <1>1, <3>1, HiddenAt
      <3>2. CASE b[1] = "table" /\ b[3] \in TableNo /\ b = TableSlot(o, b[3])
        <4>1. b[3] < rp.dir
          BY <1>1, <3>2, HiddenAt
        <4>2. b[3] \in Nat
          BY <3>2, SizeAssumption DEF TableNo
        <4>3. b[3] < rq.dir
          BY <2>3, <4>1, <4>2
        <4> QED
          BY <2>3, <3>2, <4>3, HiddenAt
      <3>3. CASE b[1] = "page" /\ b[3] \in TableNo /\ b[4] \in EntryNo /\ b = PageSlot(o, b[3], b[4])
        <4>1. b[3] < rp.dir \/ (b[3] = rp.dir /\ b[4] < rp.entry)
          BY <1>1, <3>3, HiddenAt
        <4>2. b[3] \in Nat /\ b[4] \in Nat
          BY <3>3, SizeAssumption DEF TableNo, EntryNo
        <4>3. b[3] < rq.dir \/ (b[3] = rq.dir /\ b[4] < rq.entry)
          BY <2>3, <4>1, <4>2
        <4> QED
          BY <2>3, <3>3, <4>3, HiddenAt
      <3> QED
        BY <2>1, <3>1, <3>2, <3>3, RazedCases
    <2> QED
      BY <2>2, <2>3
  <1> QED
    BY <1>1 DEF Gone

LEMMA DestroyPageStep ==
  ASSUME IInv, DestroyPage
  PROVE  IInv'
  <1> DEFINE p == reaper.p
             o == <<reaper.p, USER>>
             d == reaper.dir
             e == reaper.entry
             x == Lowest(PagesLeft)
             a == PageSlot(o, d, x)
  <1>0. TypeOK /\ tab \in TableMap /\ ReaperTyped(reaper)
    BY StateType DEF IInv
  <1>1. /\ reaper.do = "destroy" /\ d < Dirs /\ Doomed # None /\ PagesLeft # {}
        /\ used' = used \ {tab[Doomed][x]}
        /\ reaper' = [do |-> "destroy", p |-> p, dir |-> d, entry |-> x + 1]
        /\ UNCHANGED <<tab, root, status, stacks, heap, loader, lost>>
    BY DEF DestroyPage, Destroy
  <1>2. /\ p \in Proc /\ o \in Own /\ d \in TableNo /\ d \in 0..Dirs /\ e \in 0..Entries
        /\ \A y \in EntryNo : H[PageSlot(o, d, y)] = IF y < e THEN None ELSE tab[Doomed][y]
    BY <1>1, RazeAt
  <1>3. Dirs \in Nat /\ Entries \in Nat /\ d \in Nat /\ e \in Nat
    BY <1>2, SizeAssumption
  <1>4. PagesLeft \subseteq Nat
    BY <1>3 DEF PagesLeft
  <1>5. x \in PagesLeft /\ \A y \in PagesLeft : x <= y
    BY <1>1, <1>4, LowestIs
  <1>6. x \in EntryNo /\ x \in Nat /\ x >= e /\ x < Entries /\ tab[Doomed][x] # None
    BY <1>3, <1>5 DEF PagesLeft, EntryNo
  <1>7. \A y \in EntryNo : y \in Nat /\ (y < x => H[PageSlot(o, d, y)] = None)
    <2>1. ASSUME NEW y \in EntryNo, y < x PROVE H[PageSlot(o, d, y)] = None
      <3>1. y \in Nat /\ y <= Entries - 1
        BY <1>3 DEF EntryNo
      <3>2. y \notin PagesLeft
        BY <1>5, <1>6, <2>1, <3>1
      <3>3. y < e \/ tab[Doomed][y] = None
        BY <1>3, <3>1, <3>2 DEF PagesLeft
      <3> QED
        BY <1>2, <3>3
    <2> QED
      BY <1>3, <2>1 DEF EntryNo
  <1>8. H[a] = tab[Doomed][x]
    BY <1>2, <1>3, <1>6
  <1> HIDE DEF x, d, e
  <1>9. /\ reaper'.do = "destroy" /\ reaper'.p = p /\ reaper'.dir = d /\ reaper'.entry = x + 1
        /\ reaper' \in ReaperOp
    <2>1. x + 1 \in 0..Entries
      BY <1>3, <1>6
    <2> QED
      BY <1>1, <1>2, <2>1 DEF ReaperOp
  <1>10. a \in Child /\ a[2] = o /\ a # DirSlot(o) /\ \A b \in Child : Up(b) # a
    BY <1>2, <1>6, ChildType, Apart, PageLast DEF PageSlot
  <1>11. a \in Gone(reaper')
    <2>1. x < x + 1
      BY <1>6
    <2>2. Hidden(reaper', a)
      BY <1>9, <2>1, HiddenAt
    <2> QED
      BY <1>10, <2>2 DEF Gone
  <1>12. Gone(reaper) \subseteq Gone(reaper')
    <2>1. e <= x + 1 /\ x + 1 \in Nat
      BY <1>3, <1>6
    <2> QED
      BY <1>1, <1>2, <1>3, <1>9, <2>1, HiddenMore DEF d, e
  <1>13. ASSUME NEW b \in Child, b \in Gone(reaper'), b \notin Gone(reaper), b # a
         PROVE  H[b] = None
    <2>1. Hidden(reaper', b) /\ ~Hidden(reaper, b)
      BY <1>13 DEF Gone
    <2>2. b[2][1] = p
      BY <1>9, <2>1 DEF Hidden
    <2>3. CASE b = DirSlot(o)
      BY <1>9, <2>1, <2>3, HiddenAt
    <2>4. CASE b[1] = "table" /\ b[3] \in TableNo /\ b = TableSlot(o, b[3])
      BY <1>1, <1>9, <2>1, <2>4, HiddenAt DEF d
    <2>5. CASE b[1] = "page" /\ b[3] \in TableNo /\ b[4] \in EntryNo /\ b = PageSlot(o, b[3], b[4])
      <3>1. ~(b[3] < d) /\ (b[3] < d \/ (b[3] = d /\ b[4] < x + 1))
        BY <1>1, <1>9, <2>1, <2>5, HiddenAt DEF d
      <3>2. b[4] \in Nat /\ b[4] # x
        BY <1>3, <1>13, <2>5, <3>1 DEF EntryNo
      <3>3. b[4] < x
        BY <1>6, <3>1, <3>2
      <3> QED
        BY <1>7, <2>5, <3>1, <3>3
    <2> QED
      BY <1>2, <2>2, <2>3, <2>4, <2>5, RazedCases
  <1>14. tab' \in TableMap /\ used' = used \ {H[a]}
    BY <1>0, <1>1, <1>8
  <1> QED
    BY <1>1, <1>9, <1>10, <1>11, <1>12, <1>13, <1>14, RazeStep

LEMMA DestroyTableStep ==
  ASSUME IInv, DestroyTable
  PROVE  IInv'
  <1> DEFINE p == reaper.p
             o == <<reaper.p, USER>>
             d == reaper.dir
             e == reaper.entry
             a == TableSlot(o, d)
  <1>0. TypeOK /\ tab \in TableMap /\ ReaperTyped(reaper) /\ used \subseteq Frame
    BY StateType DEF IInv
  <1>1. /\ reaper.do = "destroy" /\ d < Dirs
        /\ \/ Doomed = None /\ used' = used /\ tab' = tab
           \/ /\ Doomed # None /\ PagesLeft = {} /\ used' = used \ {Doomed}
              /\ tab' = [tab EXCEPT ![Doomed] = Garbage]
        /\ reaper' = [do |-> "destroy", p |-> p, dir |-> d + 1, entry |-> 0]
        /\ UNCHANGED <<root, status, stacks, heap, loader, lost>>
    BY DEF DestroyTable, Destroy
  <1>2. /\ p \in Proc /\ o \in Own /\ d \in TableNo /\ d \in 0..Dirs /\ e \in 0..Entries
        /\ H[a] = Doomed
        /\ \A y \in EntryNo : H[PageSlot(o, d, y)] = IF y < e \/ Doomed = None THEN None ELSE tab[Doomed][y]
    BY <1>1, RazeAt
  <1>3. Dirs \in Nat /\ Entries \in Nat /\ d \in Nat /\ e \in Nat
    BY <1>2, SizeAssumption
  <1>4. \A y \in EntryNo : H[PageSlot(o, d, y)] = None
    <2>1. ASSUME NEW y \in EntryNo, ~(y < e), Doomed # None PROVE tab[Doomed][y] = None
      <3>1. y \in e .. Entries-1
        BY <1>3, <2>1 DEF EntryNo
      <3> QED
        BY <1>1, <2>1, <3>1 DEF PagesLeft
    <2> QED
      BY <1>2, <2>1
  <1> HIDE DEF d, e
  <1>5. /\ reaper'.do = "destroy" /\ reaper'.p = p /\ reaper'.dir = d + 1 /\ reaper'.entry = 0
        /\ reaper' \in ReaperOp
    <2>1. d + 1 \in 0..Dirs /\ 0 \in 0..Entries
      BY <1>1, <1>3 DEF d
    <2> QED
      BY <1>1, <1>2, <2>1 DEF ReaperOp
  <1>6. a \in Child /\ a[2] = o /\ a # DirSlot(o)
    BY <1>2, ChildType, Apart DEF TableSlot
  <1>7. a \in Gone(reaper')
    <2>1. d < d + 1
      BY <1>3
    <2>2. Hidden(reaper', a)
      BY <1>5, <2>1, HiddenAt
    <2> QED
      BY <1>6, <2>2 DEF Gone
  <1>8. Gone(reaper) \subseteq Gone(reaper')
    <2>1. d < d + 1 /\ d + 1 \in Nat
      BY <1>3
    <2> QED
      BY <1>1, <1>2, <1>3, <1>5, <2>1, HiddenMore DEF d, e
  <1>9. ASSUME NEW b \in Child, b \in Gone(reaper'), b \notin Gone(reaper), b # a
        PROVE  H[b] = None
    <2>1. Hidden(reaper', b) /\ ~Hidden(reaper, b)
      BY <1>9 DEF Gone
    <2>2. b[2][1] = p
      BY <1>5, <2>1 DEF Hidden
    <2>3. CASE b = DirSlot(o)
      BY <1>5, <2>1, <2>3, HiddenAt
    <2>4. CASE b[1] = "table" /\ b[3] \in TableNo /\ b = TableSlot(o, b[3])
      <3>0. Hidden(reaper, TableSlot(o, b[3])) <=> b[3] < d
        BY <1>1, HiddenAt DEF d
      <3>1. Hidden(reaper', TableSlot(o, b[3])) <=> b[3] < d + 1
        BY <1>5, HiddenAt
      <3>3. ~(b[3] < d) /\ b[3] < d + 1
        BY <2>1, <2>4, <3>0, <3>1
      <3>2. b[3] = d
        BY <1>3, <2>4, <3>3 DEF TableNo
      <3> QED
        BY <1>9, <2>4, <3>2
    <2>5. CASE b[1] = "page" /\ b[3] \in TableNo /\ b[4] \in EntryNo /\ b = PageSlot(o, b[3], b[4])
      <3>1. ~(b[3] < d) /\ (b[3] < d + 1 \/ (b[3] = d + 1 /\ b[4] < 0))
        BY <1>1, <1>5, <2>1, <2>5, HiddenAt DEF d
      <3>2. b[3] = d
        BY <1>3, <2>5, <3>1 DEF TableNo, EntryNo
      <3> QED
        BY <1>4, <2>5, <3>2
    <2> QED
      BY <1>2, <2>2, <2>3, <2>4, <2>5, RazedCases
  <1>10. ASSUME NEW b \in Child, Up(b) = a PROVE H[b] = None
    <2>1. PICK q \in Own, k \in TableNo, y \in EntryNo : b = PageSlot(q, k, y)
      BY <1>10, ChildCases, UpAt, Apart
    <2>2. q = o /\ k = d
      BY <1>10, <2>1, UpAt, Apart
    <2> QED
      BY <1>4, <2>1, <2>2
  <1>11. used' = used \ {H[a]}
    <2>1. None \notin used
      BY <1>0, IndexOf
    <2> QED
      BY <1>1, <1>2, <2>1
  <1>12. tab' \in TableMap /\ \A f \in Frame : f # H[a] => tab'[f] = tab[f]
    <2>1. 0 \in Frame
      BY SizeAssumption DEF Frame
    <2>2. Garbage \in [Index -> Frame \cup {None}]
      BY <2>1 DEF Garbage
    <2> QED
      BY <1>0, <1>1, <1>2, <2>2 DEF TableMap
  <1>13. UNCHANGED <<root, status, stacks, heap, loader, lost>>
    BY <1>1
  <1> QED
    BY <1>1, <1>5, <1>6, <1>7, <1>8, <1>9, <1>10, <1>11, <1>12, <1>13, RazeStep

LEMMA DestroyDirectoryStep ==
  ASSUME IInv, DestroyDirectory
  PROVE  IInv'
  <1> DEFINE p == reaper.p
             o == <<reaper.p, USER>>
             d == Dir(o)
             a == DirSlot(o)
  <1>0. TypeOK /\ tab \in TableMap /\ ReaperTyped(reaper) /\ Tree(H, tab, root, Gone(reaper))
    BY StateType, StateTree DEF IInv
  <1>1. /\ reaper.do = "destroy" /\ reaper.dir = Dirs
        /\ used' = used \ {d} /\ tab' = [tab EXCEPT ![d] = Garbage]
        /\ reaper' = [do |-> "destroyRoot", p |-> p]
        /\ UNCHANGED <<root, status, stacks, heap, loader, lost>>
    BY DEF DestroyDirectory
  <1>2. p \in Proc /\ o \in Own /\ H[a] = d /\ reaper.entry \in 0..Entries
    BY <1>1, RazeAt
  <1>3. Dirs \in Nat /\ Entries \in Nat /\ reaper.entry \in Nat /\ reaper.dir \in Nat
    BY <1>1, <1>2, SizeAssumption
  <1> HIDE DEF d
  <1>4. /\ reaper'.do = "destroyRoot" /\ reaper'.p = p /\ reaper' \in ReaperOp
    BY <1>1, <1>2 DEF ReaperOp
  <1>5. a \in Child /\ a[2] = o
    BY <1>2, ChildType DEF DirSlot
  <1>6. a \in Gone(reaper')
    BY <1>4, <1>5 DEF Gone, Hidden
  <1>7. Gone(reaper) \subseteq Gone(reaper')
    BY <1>1, <1>2, <1>3, <1>4, HiddenMore
  <1>8. ASSUME NEW b \in Child, b[2][1] = p, b # a PROVE b \in Gone(reaper)
    <2>1. CASE b[1] = "table" /\ b[3] \in TableNo /\ b = TableSlot(o, b[3])
      <3>1. b[3] < reaper.dir
        BY <1>1, <1>3, <2>1 DEF TableNo
      <3>2. Hidden(reaper, b)
        BY <1>1, <2>1, <3>1, HiddenAt
      <3> QED
        BY <3>2 DEF Gone
    <2>2. CASE b[1] = "page" /\ b[3] \in TableNo /\ b[4] \in EntryNo /\ b = PageSlot(o, b[3], b[4])
      <3>1. b[3] < reaper.dir
        BY <1>1, <1>3, <2>2 DEF TableNo
      <3>2. Hidden(reaper, b)
        BY <1>1, <2>2, <3>1, HiddenAt
      <3> QED
        BY <3>2 DEF Gone
    <2> QED
      BY <1>2, <1>8, <2>1, <2>2, RazedCases
  <1>9. \A b \in Child : b \in Gone(reaper') /\ b \notin Gone(reaper) /\ b # a => H[b] = None
    <2>1. \A b \in Child : b \in Gone(reaper') => b[2][1] = p
      BY <1>4 DEF Gone, Hidden
    <2> QED
      BY <1>8, <2>1
  <1>10. ASSUME NEW b \in Child, Up(b) = a PROVE H[b] = None
    <2>1. PICK q \in Own, k \in TableNo : b = TableSlot(q, k)
      BY <1>10, ChildCases, UpAt, Apart
    <2>2. q = o
      BY <1>10, <2>1, UpAt, Apart
    <2>3. b[2][1] = p /\ b # a
      BY <2>1, <2>2, Apart DEF TableSlot
    <2>4. b \in Gone(reaper)
      BY <1>8, <2>3
    <2> QED
      BY <1>0, <2>4 DEF Tree
  <1>11. tab' \in TableMap /\ \A f \in Frame : f # H[a] => tab'[f] = tab[f]
    <2>1. 0 \in Frame
      BY SizeAssumption DEF Frame
    <2>2. Garbage \in [Index -> Frame \cup {None}]
      BY <2>1 DEF Garbage
    <2> QED
      BY <1>0, <1>1, <1>2, <2>2 DEF TableMap
  <1>12. used' = used \ {H[a]} /\ UNCHANGED <<root, status, stacks, heap, loader, lost>>
    BY <1>1, <1>2
  <1> QED
    BY <1>1, <1>4, <1>5, <1>6, <1>7, <1>9, <1>10, <1>11, <1>12, RazeStep

LEMMA DestroyRootStep ==
  ASSUME IInv, DestroyRoot
  PROVE  IInv'
  <1> DEFINE p == reaper.p
             a == RootSlot(p)
             f == root[p]
             h2 == Put(H, a, None)
  <1>0. /\ TypeOK /\ Sole(H, used) /\ H \in Slots /\ tab \in TableMap /\ root \in RootMap
        /\ LoaderTyped(loader) /\ ReaperTyped(reaper)
        /\ stacks \in [Proc -> [kernel : PageNo \cup {None}, user : PageNo \cup {None}]]
        /\ Tree(H, tab, root, Gone(reaper)) /\ InHands(H, Claimed, reaper)
    BY StateType, StateTree DEF IInv, TypeOK
  <1>1. /\ reaper.do = "destroyRoot" /\ p \in Proc
        /\ used' = used \ {f} /\ tab' = [tab EXCEPT ![f] = Garbage] /\ root' = [root EXCEPT ![p] = None]
        /\ stacks' = [stacks EXCEPT ![p] = [kernel |-> None, user |-> None]]
        /\ reaper' = Idle /\ reaper'.do = "idle" /\ UNCHANGED <<status, heap, loader, lost>>
    BY <1>0, ReaperCases DEF DestroyRoot, Idle
  <1>2. Reaping(reaper, p) /\ status[p] = "dead" /\ f # None
    BY <1>1 DEF IInv, LifeInv, Reaping
  <1> HIDE DEF p
  <1>3. p \in Space /\ a \in Slot /\ a \in Top \cup Child /\ H[a] = f /\ \A c \in Child : c # a
    <2>1. p \in Space
      BY <1>1 DEF Space
    <2>2. a \in Top
      BY <2>1, ChildType
    <2> QED
      BY <1>0, <2>1, <2>2, SlotType, Disjoint DEF Tree
  <1>4. f \in Frame
    BY <1>0, <1>2, <1>3, SoleType
  <1> HIDE DEF f
  <1>5. /\ root'[p] = None /\ \A s \in Space : s # p => root'[s] = root[s]
        /\ \A q \in Proc : q # p => stacks'[q] = stacks[q]
        /\ \A e \in Frame : e # f => tab'[e] = tab[e]
    BY <1>0, <1>1, <1>3 DEF TableMap, RootMap
  <1>6. TypeOK'
    <2>1. 0 \in Frame
      BY SizeAssumption DEF Frame
    <2>2. Garbage \in [Index -> Frame \cup {None}]
      BY <2>1 DEF Garbage
    <2>3. tab' \in [Frame -> [Index -> Frame \cup {None}]]
      BY <1>0, <1>1, <2>2 DEF TableMap
    <2>4. root' \in [Space -> Frame \cup {None}]
      BY <1>0, <1>1 DEF RootMap
    <2>5. stacks' \in [Proc -> [kernel : PageNo \cup {None}, user : PageNo \cup {None}]]
      BY <1>0, <1>1
    <2>6. used' \subseteq Frame
      BY <1>0, <1>1 DEF TypeOK
    <2> QED
      BY <1>0, <1>1, <2>3, <2>4, <2>5, <2>6 DEF TypeOK
  <1>7. Gone(reaper) = {b \in Child : b[2][1] = p} /\ Gone(reaper') = {}
    <2>1. \A b \in Child : Hidden(reaper, b) <=> b[2][1] = p
      BY <1>1 DEF Hidden, p
    <2>2. Gone(reaper') = {}
      BY <1>1, GoneNone
    <2> QED
      BY <2>1, <2>2 DEF Gone
  <1>8. Sole(h2, used')
    BY <1>0, <1>1, <1>2, <1>3, SoleDrop
  <1>9. Tree(h2, tab', root', Gone(reaper'))
    <2>1. Tree(Put(H, RootSlot(p), None), [tab EXCEPT ![H[RootSlot(p)]] = Garbage], [root EXCEPT ![p] = None], {})
      BY <1>0, <1>1, <1>2, <1>3, <1>7, CutRootTree
    <2> QED
      BY <1>1, <1>3, <1>7, <2>1
  <1>10. InHands(h2, Claimed', reaper')
    <2>1. Claimed' = Claimed
      BY <1>1 DEF Claimed, Segments
    <2> QED
      BY <1>0, <1>1, <1>3, <2>1, HandsKept
  <1>11. h2 \in Slots /\ \A c \in Child : h2[c] = H[c]
    BY <1>0, <1>3, PutAt, SlotType
  <1> HIDE DEF h2
  <1>12. \A q \in Own, m \in PageNo : PageAt(h2, q, m) = PageAt(H, q, m)
    BY <1>11, PagePlace DEF PageAt
  <1>13. /\ h2[DirSlot(KS)] = H[DirSlot(KS)] /\ h2[DirSlot(KH)] = H[DirSlot(KH)]
         /\ h2[TableSlot(KH, 0)] = H[TableSlot(KH, 0)] /\ TableSlot(KH, 0) \in Slot
         /\ \A q \in Proc : h2[DirSlot(<<q, USER>>)] = H[DirSlot(<<q, USER>>)]
    BY <1>11, OwnPlaces, ChildType, SlotType
  <1>14. KernelInv(tab', root', h2)
    <2>1. KernelInv(tab, root, H) /\ K \in Space /\ K # p
      BY <1>1, SizeAssumption DEF IInv, Space
    <2>2. ASSUME NEW s \in Space, root'[s] # None
          PROVE  root'[s] = root[s] /\ tab'[root[s]][STACKS] = tab[root[s]][STACKS]
      <3>1. s # p /\ root'[s] = root[s]
        BY <1>5, <2>2
      <3>2. RootSlot(s) \in Slot /\ RootSlot(s) # a /\ H[RootSlot(s)] = root[s]
        BY <1>0, <3>1, SlotType, Apart DEF Tree
      <3>3. root[s] \in Frame /\ root[s] # f
        BY <1>0, <1>2, <1>3, <2>2, <3>1, <3>2, SoleType DEF Sole
      <3> QED
        BY <1>5, <3>1, <3>3
    <2>3. root'[K] = root[K]
      BY <1>5, <2>1
    <2> QED
      BY <1>13, <2>1, <2>2, <2>3, KernelKept
  <1>15. HeapInv(tab', heap', reaper', h2)
    <2>1. HeapInv(tab, heap, reaper, H)
      BY DEF IInv
    <2>2. H[TableSlot(KH, 0)] \in Frame /\ H[TableSlot(KH, 0)] # f
      <3>1. H[TableSlot(KH, 0)] # None /\ TableSlot(KH, 0) # a
        BY Apart DEF IInv, KernelInv
      <3> QED
        BY <1>0, <1>3, <1>13, <3>1, SoleType DEF Sole
    <2>3. tab'[H[TableSlot(KH, 0)]] = tab[H[TableSlot(KH, 0)]]
      BY <1>5, <2>2
    <2>4. HeapInv(tab', heap, reaper', h2)
      <3>1. reaper'.do # "unmapHeap"
        BY <1>1
      <3>2. \A i \in HeapNo : tab'[H[TableSlot(KH, 0)]][i] = tab[H[TableSlot(KH, 0)]][i]
        BY <2>3
      <3> QED
        BY <1>13, <2>1, <3>1, <3>2, HeapKept
    <2> QED
      BY <1>1, <2>4
  <1>16. LifeInv(root', status', reaper', h2)
    <2>1. LifeInv(root, status, reaper, H)
      BY DEF IInv
    <2>2. \A q \in Proc : ~Reaping(reaper', q) /\ (Reaping(reaper, q) <=> q = p)
      BY <1>1 DEF Reaping, p
    <2>3. ASSUME NEW q \in Proc
          PROVE  /\ root'[q] # None <=> status'[q] \in {"created", "loaded", "kstack", "running"} \/ Reaping(reaper', q)
                 /\ Reaping(reaper', q) => status'[q] = "dead"
                 /\ status'[q] = "running" \/ (Reaping(reaper', q) /\ reaper'.do # "destroyRoot")
                      => h2[DirSlot(<<q, USER>>)] # None
      <3>1. q \in Space
        BY DEF Space
      <3>2. CASE q = p
        BY <1>1, <1>2, <1>5, <2>2, <3>2
      <3>3. CASE q # p
        BY <1>1, <1>5, <1>13, <2>1, <2>2, <3>1, <3>3 DEF LifeInv
      <3> QED
        BY <3>2, <3>3
    <2> QED
      BY <2>3 DEF LifeInv
  <1>17. LoaderInv(loader', lost', status', h2)
    <2>1. loader # Idle => loader.p \in Proc /\ Where(loader.p, loader.region) \in Own
      BY LoaderAt
    <2> QED
      BY <1>0, <1>1, <1>12, <2>1, OwnPlaces, LoaderKept DEF IInv
  <1>19. StackInv(status', stacks', reaper', h2)
    <2>1. \A q \in Proc : HasKernel(status', reaper', q) => HasKernel(status, reaper, q) /\ q # p
      BY <1>1, <1>2 DEF HasKernel
    <2>2. \A q \in Proc : HasUser(status', reaper', q) => HasUser(status, reaper, q) /\ q # p
      BY <1>1, <1>2 DEF HasUser
    <2>3. \A q \in Proc : HasKernel(status, reaper, q) => PageAt(h2, KS, stacks[q].kernel) # None
      BY <1>12, OwnPlaces DEF IInv, StackInv
    <2>4. \A q \in Proc : HasKernel(status', reaper', q) =>
            /\ HasKernel(status, reaper, q) /\ stacks'[q].kernel = stacks[q].kernel
            /\ PageAt(h2, KS, stacks[q].kernel) # None
      BY <1>5, <2>1, <2>3
    <2>5. \A q \in Proc : HasUser(status', reaper', q) =>
            /\ HasUser(status, reaper, q) /\ stacks'[q].user = stacks[q].user
            /\ \A m \in PageNo : PageAt(H, <<q, USER>>, m) # None => PageAt(h2, <<q, USER>>, m) # None
      BY <1>5, <1>12, <2>2, OwnPlaces
    <2> QED
      BY <2>4, <2>5, StackKept DEF IInv
  <1>20. ReaperInv(reaper', stacks', h2)
    BY <1>1 DEF ReaperInv
  <1> QED
    BY <1>6, <1>8, <1>9, <1>10, <1>11, <1>14, <1>15, <1>16, <1>17, <1>19, <1>20, NextInv

-----------------------------------------------------------------------------
(* The steps of the heap.                                                  *)

\* Page i of the heap: what the table says is there, unless it is hidden.
LEMMA HeapAt ==
  ASSUME IInv, NEW i \in HeapNo, NEW a, a = PageSlot(KH, 0, i)
  PROVE  /\ a \in Child /\ a \in Slot /\ Up(a) = TableSlot(KH, 0) /\ At(a) = i
         /\ a[2] = KH /\ \A b \in Child : Up(b) # a
         /\ HeapTable = H[TableSlot(KH, 0)] /\ H[TableSlot(KH, 0)] # None /\ HeapTable \in Frame
         /\ i \in Index /\ i \in EntryNo
         /\ tab[HeapTable][i] = heap[i]
         /\ H[a] = IF a \in Gone(reaper) THEN None ELSE heap[i]
         /\ a \in Gone(reaper) <=> reaper.do = "unmapHeap" /\ reaper.i = i
  <1>0. /\ TypeOK /\ Sole(H, used) /\ ReaperTyped(reaper) /\ Tree(H, tab, root, Gone(reaper))
    BY StateType, StateTree DEF IInv
  <1>1. KH \in Own /\ 0 \in TableNo /\ i \in EntryNo /\ i \in Index
    BY OwnPlaces, IndexOf
  <1>2. /\ a \in Child /\ a \in Slot /\ Up(a) = TableSlot(KH, 0) /\ At(a) = i
        /\ a[2] = KH /\ \A b \in Child : Up(b) # a
    BY <1>1, ChildType, SlotType, UpAt, PageLast DEF PageSlot
  <1>3. HeapTable = H[TableSlot(KH, 0)] /\ H[TableSlot(KH, 0)] # None
    BY <1>0, HeapWay DEF IInv, KernelInv
  <1>4. HeapTable \in Frame
    BY <1>0, <1>1, <1>3, SlotType, SoleType
  <1>5. tab[HeapTable][i] = heap[i]
    BY <1>3 DEF IInv, HeapInv
  <1>6. H[a] = IF a \in Gone(reaper) THEN None ELSE heap[i]
    BY <1>0, <1>2, <1>3, <1>5 DEF Tree
  <1>7. a \in Gone(reaper) <=> reaper.do = "unmapHeap" /\ reaper.i = i
    <2>1. ~Razing(reaper, K)
      <3>1. KH[1] = K
        BY DEF KH
      <3> QED
        BY <1>0, <3>1, KernelVisible
    <2>2. reaper.do \in {"destroy", "destroyRoot"} => a[2][1] # reaper.p
      BY <1>2, <2>1 DEF Razing, KH
    <2>3. a = PageSlot(<<K, HEAP>>, 0, reaper.i) <=> reaper.i = i
      BY Apart DEF KH
    <2> QED
      BY <1>2, <2>2, <2>3 DEF Gone, Hidden
  <1> QED
    BY <1>1, <1>2, <1>3, <1>4, <1>5, <1>6, <1>7

\* The heap's pages are not those of the stacks and segments.
LEMMA HeapAside ==
  ASSUME NEW h \in Slots, NEW i \in HeapNo, NEW v \in Frame \cup {None},
         NEW h2, h2 = Put(h, PageSlot(KH, 0, i), v)
  PROVE  /\ h2 \in Slots
         /\ h2[DirSlot(KS)] = h[DirSlot(KS)] /\ h2[DirSlot(KH)] = h[DirSlot(KH)]
         /\ h2[TableSlot(KH, 0)] = h[TableSlot(KH, 0)]
         /\ \A q \in Proc : h2[DirSlot(<<q, USER>>)] = h[DirSlot(<<q, USER>>)]
         /\ \A m \in PageNo : PageAt(h2, KS, m) = PageAt(h, KS, m)
         /\ \A q \in Proc, m \in PageNo : PageAt(h2, <<q, USER>>, m) = PageAt(h, <<q, USER>>, m)
  <1> DEFINE a == PageSlot(KH, 0, i)
  <1>1. a \in Slot
    BY OwnPlaces, IndexOf, SlotType
  <1>2. h2 \in Slots /\ \A b \in Slot : b # a => h2[b] = h[b]
    BY <1>1, PutAt
  <1>3. /\ DirSlot(KS) \in Slot /\ DirSlot(KH) \in Slot /\ TableSlot(KH, 0) \in Slot
        /\ DirSlot(KS) # a /\ DirSlot(KH) # a /\ TableSlot(KH, 0) # a
        /\ \A q \in Proc : DirSlot(<<q, USER>>) \in Slot /\ DirSlot(<<q, USER>>) # a
    BY OwnPlaces, SlotType, Apart
  <1>4. ASSUME NEW o \in Own, o # KH, NEW m \in PageNo PROVE PageAt(h2, o, m) = PageAt(h, o, m)
    <2>1. PageSlot(o, m \div Entries, m % Entries) # a
      BY <1>4, Apart
    <2> QED
      BY <1>2, <2>1, PagePlace DEF PageAt
  <1>5. \A m \in PageNo : PageAt(h2, KS, m) = PageAt(h, KS, m)
    BY <1>4, OwnPlaces
  <1>6. ASSUME NEW q \in Proc, NEW m \in PageNo PROVE PageAt(h2, <<q, USER>>, m) = PageAt(h, <<q, USER>>, m)
    <2>1. <<q, USER>> \in Own /\ <<q, USER>> # KH
      BY OwnPlaces
    <2> QED
      BY <1>4, <2>1
  <1> QED
    BY <1>2, <1>3, <1>5, <1>6

\* What is said of stacks and segments holds still.
LEMMA AsideKept ==
  ASSUME IInv, NEW rp2, NEW h2,
         \A m \in PageNo : PageAt(h2, KS, m) = PageAt(H, KS, m),
         \A q \in Proc, m \in PageNo : PageAt(h2, <<q, USER>>, m) = PageAt(H, <<q, USER>>, m),
         \A q \in Proc : h2[DirSlot(<<q, USER>>)] = H[DirSlot(<<q, USER>>)],
         rp2 = reaper \/ (reaper.do \in {"idle", "unmapHeap"} /\ rp2.do \in {"idle", "unmapHeap"})
  PROVE  /\ LifeInv(root, status, rp2, h2) /\ LoaderInv(loader, lost, status, h2)
         /\ StackInv(status, stacks, rp2, h2)
         /\ ReaperInv(rp2, stacks, h2)
  <1>0. LoaderTyped(loader) /\ ReaperTyped(reaper)
    BY StateType DEF IInv
  <1>1. LifeInv(root, status, rp2, h2)
    <2>1. \A q \in Proc : Reaping(rp2, q) <=> Reaping(reaper, q)
      BY DEF Reaping
    <2>2. \A q \in Proc : Reaping(rp2, q) => rp2 = reaper
      BY DEF Reaping
    <2>3. LifeInv(root, status, reaper, H)
      BY DEF IInv
    <2>4. ASSUME NEW q \in Proc
          PROVE  /\ root[q] # None <=> status[q] \in {"created", "loaded", "kstack", "running"} \/ Reaping(rp2, q)
                 /\ Reaping(rp2, q) => status[q] = "dead"
                 /\ status[q] = "running" \/ (Reaping(rp2, q) /\ rp2.do # "destroyRoot")
                      => h2[DirSlot(<<q, USER>>)] # None
      BY <2>1, <2>2, <2>3 DEF LifeInv
    <2> QED
      BY <2>4 DEF LifeInv
  <1>2. LoaderInv(loader, lost, status, h2)
    <2>0. LoaderInv(loader, lost, status, H)
      BY DEF IInv
    <2>1. loader # Idle => /\ loader.p \in Proc
                           /\ Where(loader.p, loader.region) = KS \/ Where(loader.p, loader.region) = <<loader.p, USER>>
      BY LoaderAt DEF Where
    <2>2. loader # Idle => /\ \A m \in PageNo : PageAt(h2, Where(loader.p, loader.region), m)
                                                  = PageAt(H, Where(loader.p, loader.region), m)
                           /\ \A m \in PageNo : PageAt(h2, <<loader.p, USER>>, m) = PageAt(H, <<loader.p, USER>>, m)
      BY <2>1
    <2> QED
      BY <1>0, <2>0, <2>2, LoaderKept
  <1>4. StackInv(status, stacks, rp2, h2)
    <2>0. StackInv(status, stacks, reaper, H)
      BY DEF IInv
    <2>1. \A q \in Proc : HasKernel(status, rp2, q) => HasKernel(status, reaper, q)
      BY DEF HasKernel
    <2>2. \A q \in Proc : HasUser(status, rp2, q) => HasUser(status, reaper, q)
      BY DEF HasUser
    <2>3. \A q \in Proc : HasKernel(status, reaper, q) => PageAt(h2, KS, stacks[q].kernel) # None
      BY <2>0 DEF StackInv
    <2>4. \A q \in Proc : HasKernel(status, rp2, q) =>
            /\ HasKernel(status, reaper, q) /\ stacks[q].kernel = stacks[q].kernel
            /\ PageAt(h2, KS, stacks[q].kernel) # None
      BY <2>1, <2>3
    <2>5. \A q \in Proc : HasUser(status, rp2, q) =>
            /\ HasUser(status, reaper, q) /\ stacks[q].user = stacks[q].user
            /\ \A m \in PageNo : PageAt(H, <<q, USER>>, m) # None => PageAt(h2, <<q, USER>>, m) # None
      BY <2>2
    <2> QED
      BY <2>0, <2>4, <2>5, StackKept
  <1>5. ReaperInv(rp2, stacks, h2)
    <2>0. ReaperInv(reaper, stacks, H)
      BY DEF IInv
    <2>1. CASE rp2 = reaper
      <3>1. reaper.do \in {"release", "free"} => reaper.p \in Proc
        BY <1>0, ReaperCases
      <3>2. ReaperInv(reaper, stacks, h2)
        BY <1>0, <2>0, <3>1, ReaperKept
      <3> QED
        BY <2>1, <3>2
    <2>2. CASE rp2.do \in {"idle", "unmapHeap"}
      BY <2>2 DEF ReaperInv
    <2> QED
      BY <2>1, <2>2
  <1> QED
    BY <1>1, <1>2, <1>4, <1>5

LEMMA HeapAllocStep ==
  ASSUME IInv, NEW i \in HeapNo, HeapAlloc(i)
  PROVE  IInv'
  <1> DEFINE f == NextFrame
             a == PageSlot(KH, 0, i)
             h2 == Put(H, a, f)
  <1>0. /\ TypeOK /\ Sole(H, used) /\ H \in Slots /\ tab \in TableMap
        /\ LoaderTyped(loader) /\ ReaperTyped(reaper)
        /\ heap \in [HeapNo -> Frame \cup {None}]
        /\ Tree(H, tab, root, Gone(reaper)) /\ InHands(H, Claimed, reaper)
    BY StateType, StateTree DEF IInv, TypeOK, HeapNo
  <1>1. /\ reaper.do # "unmapHeap" /\ FreeRuns(1) # {} /\ heap[i] = None
        /\ heap' = [heap EXCEPT ![i] = f] /\ used' = used \cup {f}
        /\ tab' = [tab EXCEPT ![HeapTable][i] = f]
        /\ UNCHANGED <<root, status, stacks, loader, reaper, lost>>
    BY DEF HeapAlloc
  <1>2. f \in Frame /\ f \notin used
    BY <1>0, <1>1, NextFrameIs
  <1>3. /\ a \in Child /\ a \in Slot /\ Up(a) = TableSlot(KH, 0) /\ At(a) = i
        /\ \A b \in Child : Up(b) # a
        /\ HeapTable = H[TableSlot(KH, 0)] /\ H[TableSlot(KH, 0)] # None /\ HeapTable \in Frame
        /\ i \in Index /\ i \in EntryNo /\ H[a] = None /\ a \notin Gone(reaper)
    BY <1>1, HeapAt
  <1> HIDE DEF f
  <1>4. tab' = Entered(tab, H[TableSlot(KH, 0)], i, f)
    BY <1>1, <1>3 DEF Entered
  <1>5. TypeOK'
    <2>1. tab' \in TableMap
      BY <1>0, <1>2, <1>3, <1>4, EnteredAt
    <2>2. heap' \in [HeapNo -> Frame \cup {None}]
      BY <1>0, <1>1, <1>2
    <2>3. used' \subseteq Frame
      BY <1>0, <1>1, <1>2 DEF TypeOK
    <2> QED
      BY <1>0, <1>1, <2>1, <2>2, <2>3 DEF TypeOK, TableMap, HeapNo
  <1>6. /\ h2 \in Slots
        /\ h2[DirSlot(KS)] = H[DirSlot(KS)] /\ h2[DirSlot(KH)] = H[DirSlot(KH)]
        /\ h2[TableSlot(KH, 0)] = H[TableSlot(KH, 0)]
        /\ \A q \in Proc : h2[DirSlot(<<q, USER>>)] = H[DirSlot(<<q, USER>>)]
        /\ \A m \in PageNo : PageAt(h2, KS, m) = PageAt(H, KS, m)
        /\ \A q \in Proc, m \in PageNo : PageAt(h2, <<q, USER>>, m) = PageAt(H, <<q, USER>>, m)
    BY <1>0, <1>2, HeapAside
  <1> HIDE DEF a
  <1>7. Sole(h2, used')
    BY <1>0, <1>1, <1>2, <1>3, SolePut
  <1>8. Tree(h2, tab', root', Gone(reaper'))
    <2>1. Tree(Put(H, a, f), Entered(tab, H[Up(a)], At(a), f), root, Gone(reaper))
      BY <1>0, <1>2, <1>3, WriteTree
    <2> QED
      BY <1>1, <1>3, <1>4, <2>1
  <1>9. InHands(h2, Claimed', reaper')
    <2>1. Claimed' = Claimed
      BY <1>1 DEF Claimed, Segments
    <2> QED
      BY <1>0, <1>1, <1>2, <1>3, <2>1, HandsSame
  <1> HIDE DEF h2
  <1>10. KernelInv(tab', root', h2)
    <2>1. \A s \in Space : H[RootSlot(s)] = root[s]
      BY <1>0 DEF Tree
    <2>2. KernelInv(tab, root, H)
      BY DEF IInv
    <2>3. KernelInv(Entered(tab, H[TableSlot(KH, 0)], i, f), root, h2)
      BY <1>0, <1>2, <1>3, <1>6, <2>1, <2>2, OwnPlaces, KernelWritten
    <2> QED
      BY <1>1, <1>4, <2>3
  <1>11. HeapInv(tab', heap', reaper', h2)
    <2>1. HeapInv(tab, heap, reaper, H)
      BY DEF IInv
    <2>2. tab'[HeapTable][i] = f /\ \A y \in Index : y # i => tab'[HeapTable][y] = tab[HeapTable][y]
      BY <1>0, <1>2, <1>3, <1>4, EnteredAt
    <2>3. \A j \in HeapNo : j \in Index /\ heap'[j] = IF j = i THEN f ELSE heap[j]
      BY <1>0, <1>1, IndexOf
    <2> QED
      BY <1>1, <1>3, <1>6, <2>1, <2>2, <2>3 DEF HeapInv
  <1>12. /\ LifeInv(root, status, reaper, h2) /\ LoaderInv(loader, lost, status, h2)
         /\ StackInv(status, stacks, reaper, h2)
         /\ ReaperInv(reaper, stacks, h2)
    BY <1>6, AsideKept
  <1> QED
    BY <1>1, <1>5, <1>6, <1>7, <1>8, <1>9, <1>10, <1>11, <1>12, NextInv

LEMMA HeapFreeStep ==
  ASSUME IInv, NEW i \in HeapNo, HeapFree(i)
  PROVE  IInv'
  <1> DEFINE a == PageSlot(KH, 0, i)
             h2 == Put(H, a, None)
  <1>0. /\ TypeOK /\ Sole(H, used) /\ H \in Slots
        /\ LoaderTyped(loader) /\ ReaperTyped(reaper)
        /\ Tree(H, tab, root, Gone(reaper)) /\ InHands(H, Claimed, reaper)
    BY StateType, StateTree DEF IInv
  <1>1. /\ reaper.do = "idle" /\ heap[i] # None /\ used' = used \ {heap[i]}
        /\ reaper' = [do |-> "unmapHeap", i |-> i]
        /\ UNCHANGED <<tab, root, status, stacks, heap, loader, lost>>
    BY DEF HeapFree, Idle
  <1>2. reaper'.do = "unmapHeap" /\ reaper'.i = i /\ reaper' \in ReaperOp
    BY <1>1 DEF ReaperOp, HeapNo
  <1>3. Gone(reaper) = {} /\ a \in Child /\ a \in Slot /\ H[a] = heap[i] /\ \A b \in Child : Up(b) # a
    BY <1>1, GoneNone, HeapAt
  <1>4. Gone(reaper') = {a}
    BY <1>2, <1>3 DEF Gone, Hidden, KH
  <1>5. TypeOK'
    <2>1. used' \subseteq Frame
      BY <1>0, <1>1 DEF TypeOK
    <2> QED
      BY <1>0, <1>1, <1>2, <2>1 DEF TypeOK
  <1>6. /\ h2 \in Slots
        /\ h2[DirSlot(KS)] = H[DirSlot(KS)] /\ h2[DirSlot(KH)] = H[DirSlot(KH)]
        /\ h2[TableSlot(KH, 0)] = H[TableSlot(KH, 0)]
        /\ \A q \in Proc : h2[DirSlot(<<q, USER>>)] = H[DirSlot(<<q, USER>>)]
        /\ \A m \in PageNo : PageAt(h2, KS, m) = PageAt(H, KS, m)
        /\ \A q \in Proc, m \in PageNo : PageAt(h2, <<q, USER>>, m) = PageAt(H, <<q, USER>>, m)
    BY <1>0, HeapAside
  <1> HIDE DEF a
  <1>7. Sole(h2, used')
    BY <1>0, <1>1, <1>3, SoleDrop
  <1>8. Tree(h2, tab', root', Gone(reaper'))
    <2>1. Tree(Put(H, a, None), tab, root, {a})
      BY <1>0, <1>3, HideTree
    <2> QED
      BY <1>1, <1>4, <2>1
  <1>9. InHands(h2, Claimed', reaper')
    <2>1. Claimed' = Claimed
      BY <1>1 DEF Claimed, Segments
    <2> QED
      BY <1>0, <1>1, <1>2, <1>3, <2>1, HandsKept
  <1> HIDE DEF h2
  <1>10. KernelInv(tab', root', h2) /\ HeapInv(tab', heap', reaper', h2)
    BY <1>1, <1>2, <1>6 DEF IInv, KernelInv, HeapInv
  <1>11. /\ LifeInv(root, status, reaper', h2) /\ LoaderInv(loader, lost, status, h2)
         /\ StackInv(status, stacks, reaper', h2)
         /\ ReaperInv(reaper', stacks, h2)
    BY <1>1, <1>2, <1>6, AsideKept
  <1> QED
    BY <1>1, <1>5, <1>6, <1>7, <1>8, <1>9, <1>10, <1>11, NextInv

LEMMA HeapUnmapStep ==
  ASSUME IInv, HeapUnmap
  PROVE  IInv'
  <1> DEFINE i == reaper.i
             a == PageSlot(KH, 0, i)
  <1>0. /\ TypeOK /\ Sole(H, used) /\ H \in Slots /\ tab \in TableMap
        /\ LoaderTyped(loader) /\ ReaperTyped(reaper)
        /\ heap \in [HeapNo -> Frame \cup {None}]
        /\ Tree(H, tab, root, Gone(reaper)) /\ InHands(H, Claimed, reaper)
    BY StateType, StateTree DEF IInv, TypeOK, HeapNo
  <1>1. /\ reaper.do = "unmapHeap" /\ i \in HeapNo
        /\ tab' = [tab EXCEPT ![HeapTable][i] = None] /\ heap' = [heap EXCEPT ![i] = None]
        /\ reaper' = Idle /\ reaper'.do = "idle"
        /\ UNCHANGED <<used, root, status, stacks, loader, lost>>
    BY <1>0, ReaperCases DEF HeapUnmap, HeapNo, Idle
  <1> HIDE DEF i
  <1>2. /\ a \in Child /\ a \in Slot /\ Up(a) = TableSlot(KH, 0) /\ At(a) = i
        /\ \A b \in Child : Up(b) # a
        /\ HeapTable = H[TableSlot(KH, 0)] /\ H[TableSlot(KH, 0)] # None /\ HeapTable \in Frame
        /\ i \in Index /\ i \in EntryNo
        /\ a \in Gone(reaper) /\ H[a] = None
    BY <1>1, HeapAt DEF i
  <1>3. tab' = Entered(tab, H[TableSlot(KH, 0)], i, None)
    BY <1>1, <1>2 DEF Entered
  <1>4. Gone(reaper) = {a} /\ Gone(reaper') = {}
    <2>1. Gone(reaper') = {}
      BY <1>1, GoneNone
    <2>2. \A b \in Child : Hidden(reaper, b) <=> b = a
      BY <1>1 DEF Hidden, KH, i
    <2> QED
      BY <1>2, <2>1, <2>2 DEF Gone
  <1>5. TypeOK'
    <2>1. tab' \in TableMap
      BY <1>0, <1>2, <1>3, EnteredAt
    <2>2. heap' \in [HeapNo -> Frame \cup {None}]
      BY <1>0, <1>1
    <2> QED
      BY <1>0, <1>1, <2>1, <2>2 DEF TypeOK, TableMap, HeapNo
  <1> HIDE DEF a
  <1>6. Tree(H, tab', root', Gone(reaper'))
    <2>1. \A b \in Child : b # a => (b \in Gone(reaper') <=> b \in Gone(reaper))
      BY <1>4
    <2>2. Tree(Put(H, a, None), Entered(tab, H[Up(a)], At(a), None), root, Gone(reaper'))
      BY <1>0, <1>2, <1>4, <2>1, WriteTree
    <2>3. Put(H, a, None) = H
      BY <1>0, <1>2, PutSame
    <2> QED
      BY <1>1, <1>2, <1>3, <2>2, <2>3
  <1>7. InHands(H, Claimed', reaper')
    BY <1>0, <1>1 DEF InHands, Claimed
  <1>8. KernelInv(tab', root', H)
    <2>1. \A s \in Space : H[RootSlot(s)] = root[s]
      BY <1>0 DEF Tree
    <2>2. KernelInv(tab, root, H)
      BY DEF IInv
    <2>3. KernelInv(Entered(tab, H[TableSlot(KH, 0)], i, None), root, H)
      BY <1>0, <1>2, <2>1, <2>2, OwnPlaces, KernelWritten
    <2> QED
      BY <1>1, <1>3, <2>3
  <1>9. HeapInv(tab', heap', reaper', H)
    <2>1. HeapInv(tab, heap, reaper, H)
      BY DEF IInv
    <2>2. tab'[HeapTable][i] = None /\ \A y \in Index : y # i => tab'[HeapTable][y] = tab[HeapTable][y]
      BY <1>0, <1>2, <1>3, EnteredAt
    <2>3. \A j \in HeapNo : j \in Index /\ heap'[j] = IF j = i THEN None ELSE heap[j]
      BY <1>0, <1>1, IndexOf
    <2> QED
      BY <1>1, <1>2, <2>1, <2>2, <2>3 DEF HeapInv
  <1>10. /\ LifeInv(root, status, reaper', H) /\ LoaderInv(loader, lost, status, H)
         /\ StackInv(status, stacks, reaper', H)
         /\ ReaperInv(reaper', stacks, H)
    BY <1>1, AsideKept
  <1> QED
    BY <1>0, <1>1, <1>5, <1>6, <1>7, <1>8, <1>9, <1>10, NextInv

-----------------------------------------------------------------------------
(* The initial state, and every step.                                      *)

\* The frames of the kernel after boot.
Booted ==
  [a \in Slot |-> IF a = RootSlot(K) THEN 0
                  ELSE IF a = DirSlot(KS) THEN 1 ELSE IF a = DirSlot(KH) THEN 2
                  ELSE IF a = TableSlot(KS, 0) THEN 3 ELSE IF a = TableSlot(KH, 0) THEN 4
                  ELSE IF a = PageSlot(KS, 0, 0) THEN 5 ELSE None]

LEMMA BootedAt ==
  /\ Booted[RootSlot(K)] = 0
  /\ \A s \in Space : s # K => Booted[RootSlot(s)] = None
  /\ Booted[DirSlot(KS)] = 1 /\ Booted[DirSlot(KH)] = 2
  /\ \A o \in Own : o # KS /\ o # KH => Booted[DirSlot(o)] = None
  /\ Booted[TableSlot(KS, 0)] = 3 /\ Booted[TableSlot(KH, 0)] = 4
  /\ \A o \in Own, k \in TableNo : (o # KS /\ o # KH) \/ k # 0 => Booted[TableSlot(o, k)] = None
  /\ Booted[PageSlot(KS, 0, 0)] = 5
  /\ \A o \in Own, k \in TableNo, x \in EntryNo : o # KS \/ k # 0 \/ x # 0 => Booted[PageSlot(o, k, x)] = None
  /\ \A f \in Frame : Booted[LoaderSlot(f)] = None
  /\ Booted[ReaperSlot] = None
  /\ Sole(Booted, 0..5)
  <1>0. K \in Space /\ KS \in Own /\ KH \in Own /\ KS # KH /\ 0 \in TableNo /\ 0 \in EntryNo
    BY OwnPlaces DEF Space
  <1>1. Booted[RootSlot(K)] = 0 /\ \A s \in Space : s # K => Booted[RootSlot(s)] = None
    BY <1>0, SlotType, Apart DEF Booted
  <1>2. /\ Booted[DirSlot(KS)] = 1 /\ Booted[DirSlot(KH)] = 2
        /\ \A o \in Own : o # KS /\ o # KH => Booted[DirSlot(o)] = None
    BY <1>0, SlotType, Apart DEF Booted
  <1>3. Booted[TableSlot(KS, 0)] = 3 /\ Booted[TableSlot(KH, 0)] = 4
    BY <1>0, SlotType, Apart DEF Booted
  <1>4. ASSUME NEW o \in Own, NEW k \in TableNo, (o # KS /\ o # KH) \/ k # 0
        PROVE  Booted[TableSlot(o, k)] = None
    <2>1. TableSlot(o, k) # TableSlot(KS, 0) /\ TableSlot(o, k) # TableSlot(KH, 0)
      BY <1>4, Apart
    <2>2. /\ TableSlot(o, k) # RootSlot(K) /\ TableSlot(o, k) # DirSlot(KS)
          /\ TableSlot(o, k) # DirSlot(KH) /\ TableSlot(o, k) # PageSlot(KS, 0, 0)
      BY Apart
    <2>3. TableSlot(o, k) \in Slot
      BY SlotType
    <2> QED
      BY <2>1, <2>2, <2>3 DEF Booted
  <1>5. Booted[PageSlot(KS, 0, 0)] = 5
    BY <1>0, SlotType, Apart DEF Booted
  <1>6. ASSUME NEW o \in Own, NEW k \in TableNo, NEW x \in EntryNo, o # KS \/ k # 0 \/ x # 0
        PROVE  Booted[PageSlot(o, k, x)] = None
    BY <1>0, <1>6, SlotType, Apart DEF Booted
  <1>7. ASSUME NEW a \in Hand PROVE a \in Slot /\ Booted[a] = None
    <2>1. a \notin Top \cup Child
      BY Disjoint
    <2>2. RootSlot(K) \in Top \cup Child /\ DirSlot(KS) \in Top \cup Child /\ DirSlot(KH) \in Top \cup Child
          /\ TableSlot(KS, 0) \in Top \cup Child /\ TableSlot(KH, 0) \in Top \cup Child
          /\ PageSlot(KS, 0, 0) \in Top \cup Child
      BY <1>0, ChildType
    <2> QED
      BY <2>1, <2>2 DEF Booted, Slot
  <1>8. (\A f \in Frame : Booted[LoaderSlot(f)] = None) /\ Booted[ReaperSlot] = None
    BY <1>7, Disjoint
  <1>9. \A a \in Slot : /\ Booted[a] \in (0..5) \cup {None}
                        /\ Booted[a] = 0 => a = RootSlot(K)
                        /\ Booted[a] = 1 => a = DirSlot(KS)
                        /\ Booted[a] = 2 => a = DirSlot(KH)
                        /\ Booted[a] = 3 => a = TableSlot(KS, 0)
                        /\ Booted[a] = 4 => a = TableSlot(KH, 0)
                        /\ Booted[a] = 5 => a = PageSlot(KS, 0, 0)
    BY SizeAssumption DEF Booted
  <1>10. 0..5 \subseteq Frame
    BY SizeAssumption DEF Frame
  <1>11. Booted \in Slots
    <2>1. \A a \in Slot : Booted[a] \in Frame \cup {None}
      BY <1>9, <1>10
    <2> QED
      BY <2>1 DEF Booted, Slots
  <1>12. ASSUME NEW a \in Slot, NEW b \in Slot, Booted[a] = Booted[b], Booted[a] # None PROVE a = b
    <2>1. Booted[a] \in 0..5
      BY <1>9, <1>12
    <2>2. \A v \in 0..5 : v = 0 \/ v = 1 \/ v = 2 \/ v = 3 \/ v = 4 \/ v = 5
      OBVIOUS
    <2> QED
      BY <1>9, <1>12, <2>1, <2>2
  <1>13. ASSUME NEW f \in 0..5 PROVE \E a \in Slot : Booted[a] = f
    <2>1. f = 0 \/ f = 1 \/ f = 2 \/ f = 3 \/ f = 4 \/ f = 5
      OBVIOUS
    <2>2. RootSlot(K) \in Slot /\ DirSlot(KS) \in Slot /\ DirSlot(KH) \in Slot
          /\ TableSlot(KS, 0) \in Slot /\ TableSlot(KH, 0) \in Slot /\ PageSlot(KS, 0, 0) \in Slot
      BY <1>0, SlotType
    <2> QED
      BY <1>1, <1>2, <1>3, <1>5, <2>1, <2>2
  <1>14. Sole(Booted, 0..5)
    BY <1>9, <1>10, <1>11, <1>12, <1>13 DEF Sole
  <1> QED
    BY <1>1, <1>2, <1>3, <1>4, <1>5, <1>6, <1>8, <1>14

\* What the first tables say.
LEMMA InitTables ==
  ASSUME Init
  PROVE  /\ tab \in TableMap
         /\ tab[0][STACKS] = 1 /\ tab[0][HEAP] = 2 /\ tab[0][USER] = None
         /\ \A x \in Index : /\ tab[1][x] = IF x = 0 THEN 3 ELSE None
                             /\ tab[2][x] = IF x = 0 THEN 4 ELSE None
                             /\ tab[3][x] = IF x = 0 THEN 5 ELSE None
                             /\ tab[4][x] = None
  <1>1. /\ 0 \in Frame /\ 1 \in Frame /\ 2 \in Frame /\ 3 \in Frame /\ 4 \in Frame /\ 5 \in Frame
    BY SizeAssumption DEF Frame
  <1>2. USER = 0 /\ STACKS = 1 /\ HEAP = 2 /\ 0 \in Index /\ 1 \in Index /\ 2 \in Index
    BY DEF USER, STACKS, HEAP, Index
  <1> DEFINE E0 == [Empty EXCEPT ![STACKS] = 1, ![HEAP] = 2]
             E1 == [Empty EXCEPT ![0] = 3]
             E2 == [Empty EXCEPT ![0] = 4]
             E3 == [Empty EXCEPT ![0] = 5]
             G == [f \in Frame |-> Garbage]
  <1>3. /\ Empty \in [Index -> Frame \cup {None}] /\ Garbage \in [Index -> Frame \cup {None}]
        /\ \A x \in Index : Empty[x] = None
    BY <1>1 DEF Empty, Garbage
  <1>4. E0 \in [Index -> Frame \cup {None}] /\ E0[STACKS] = 1 /\ E0[HEAP] = 2 /\ E0[USER] = None
    BY <1>1, <1>2, <1>3
  <1>5. E1 \in [Index -> Frame \cup {None}] /\ \A x \in Index : E1[x] = IF x = 0 THEN 3 ELSE None
    BY <1>1, <1>2, <1>3
  <1>6. E2 \in [Index -> Frame \cup {None}] /\ \A x \in Index : E2[x] = IF x = 0 THEN 4 ELSE None
    BY <1>1, <1>2, <1>3
  <1>7. E3 \in [Index -> Frame \cup {None}] /\ \A x \in Index : E3[x] = IF x = 0 THEN 5 ELSE None
    BY <1>1, <1>2, <1>3
  <1>8. tab = [G EXCEPT ![0] = E0, ![1] = E1, ![2] = E2, ![3] = E3, ![4] = Empty]
    BY DEF Init
  <1> HIDE DEF E0, E1, E2, E3
  <1>9. tab \in TableMap /\ tab[0] = E0 /\ tab[1] = E1 /\ tab[2] = E2 /\ tab[3] = E3 /\ tab[4] = Empty
    BY <1>1, <1>3, <1>4, <1>5, <1>6, <1>7, <1>8 DEF TableMap
  <1> QED
    BY <1>3, <1>4, <1>5, <1>6, <1>7, <1>9

LEMMA InitInv ==
  ASSUME Init
  PROVE  IInv
  <1>0. /\ used = 0..5
        /\ root = [s \in Space |-> IF s = K THEN 0 ELSE None]
        /\ status = [p \in Proc |-> "unborn"]
        /\ stacks = [p \in Proc |-> [kernel |-> None, user |-> None]]
        /\ heap = [i \in HeapNo |-> None]
        /\ loader = Idle /\ reaper = Idle /\ reaper.do = "idle" /\ loader.do = "idle" /\ lost = {}
    BY DEF Init, HeapNo, Idle
  <1>1. /\ 0 \in Frame /\ 0..5 \subseteq Frame
    BY SizeAssumption DEF Frame
  <1>2. TypeOK /\ root \in RootMap /\ ReaperTyped(reaper)
    <2>1. tab \in TableMap
      BY InitTables
    <2>2. root \in RootMap
      BY <1>0, <1>1 DEF RootMap
    <2>3. status \in [Proc -> Status] /\ stacks \in [Proc -> [kernel : PageNo \cup {None}, user : PageNo \cup {None}]]
      BY <1>0 DEF Status
    <2>4. heap \in [HeapNo -> Frame \cup {None}]
      BY <1>0
    <2>5. ReaperTyped(reaper)
      BY <1>0 DEF ReaperTyped
    <2> QED
      BY <1>0, <1>1, <2>1, <2>2, <2>3, <2>4, <2>5 DEF TypeOK, TableMap, RootMap, HeapNo
  <1>3. Gone(reaper) = {}
    BY <1>0, GoneNone
  <1>4. Booted \in Slots /\ Sole(Booted, used)
    BY <1>0, BootedAt, SoleType
  <1>5. K \in Space /\ KS \in Own /\ KH \in Own /\ KS # KH /\ 0 \in TableNo /\ 0 \in EntryNo
        /\ KS = <<K, STACKS>> /\ KH = <<K, HEAP>> /\ None # 0 /\ None # 1 /\ None # 2 /\ None # 3 /\ None # 4
    BY OwnPlaces, SizeAssumption DEF Space, KS, KH
  <1>6. Tree(Booted, tab, root, {})
    <2>1. \A s \in Space : Booted[RootSlot(s)] = root[s]
      BY <1>0, BootedAt
    <2>2. ASSUME NEW a \in Child
          PROVE  Booted[a] = IF Booted[Up(a)] = None THEN None ELSE tab[Booted[Up(a)]][At(a)]
      <3>1. CASE \E o \in Own : a = DirSlot(o)
        <4>1. PICK o \in Own : a = DirSlot(o)
          BY <3>1
        <4>2. Up(a) = RootSlot(o[1]) /\ At(a) = o[2]
          BY <4>1, UpAt
        <4>3. CASE o = KS
          BY <1>5, <4>1, <4>2, <4>3, BootedAt, InitTables
        <4>4. CASE o = KH
          BY <1>5, <4>1, <4>2, <4>4, BootedAt, InitTables
        <4>5. CASE o # KS /\ o # KH
          <5>1. o[1] \in Proc
            BY <1>5, <4>5 DEF Own
          <5>2. o[1] \in Space /\ o[1] # K
            BY <5>1, SizeAssumption DEF Space
          <5> QED
            BY <4>1, <4>2, <4>5, <5>2, BootedAt
        <4> QED
          BY <4>3, <4>4, <4>5
      <3>2. CASE \E o \in Own, k \in TableNo : a = TableSlot(o, k)
        <4>1. PICK o \in Own, k \in TableNo : a = TableSlot(o, k)
          BY <3>2
        <4>2. Up(a) = DirSlot(o) /\ At(a) = k /\ k \in Index
          BY <4>1, UpAt, IndexOf
        <4>3. CASE o = KS
          BY <1>5, <4>1, <4>2, <4>3, BootedAt, InitTables
        <4>4. CASE o = KH
          BY <1>5, <4>1, <4>2, <4>4, BootedAt, InitTables
        <4>5. CASE o # KS /\ o # KH
          BY <4>1, <4>2, <4>5, BootedAt
        <4> QED
          BY <4>3, <4>4, <4>5
      <3>3. CASE \E o \in Own, k \in TableNo, x \in EntryNo : a = PageSlot(o, k, x)
        <4>1. PICK o \in Own, k \in TableNo, x \in EntryNo : a = PageSlot(o, k, x)
          BY <3>3
        <4>2. Up(a) = TableSlot(o, k) /\ At(a) = x /\ x \in Index
          BY <4>1, UpAt, IndexOf
        <4>3. CASE o = KS /\ k = 0
          BY <1>5, <4>1, <4>2, <4>3, BootedAt, InitTables
        <4>4. CASE o = KH /\ k = 0
          BY <1>5, <4>1, <4>2, <4>4, BootedAt, InitTables
        <4>5. CASE (o # KS /\ o # KH) \/ k # 0
          BY <4>1, <4>2, <4>5, BootedAt
        <4> QED
          BY <4>3, <4>4, <4>5
      <3> QED
        BY <3>1, <3>2, <3>3, ChildCases
    <2> QED
      BY <2>1, <2>2 DEF Tree
  <1>7. InHands(Booted, Claimed, reaper)
    <2>1. Claimed = {}
      BY <1>0 DEF Claimed, Segments
    <2> QED
      BY <1>0, <2>1, BootedAt DEF InHands
  <1>8. H = Booted
    <2>1. tab \in TableMap
      BY InitTables
    <2>2. Holding(tab, root, Claimed, reaper) = Booted
      BY <1>2, <1>3, <1>4, <1>6, <1>7, <2>1, HoldingOnly
    <2> QED
      BY <2>2 DEF H
  <1>9. KernelInv(tab, root, H)
    <2>1. \A p \in Proc : p \in Space /\ p # K
      BY SizeAssumption DEF Space
    <2> QED
      BY <1>0, <1>5, <1>8, <2>1, BootedAt DEF KernelInv
  <1>10. LifeInv(root, status, reaper, H)
    <2>1. \A p \in Proc : p \in Space /\ p # K
      BY SizeAssumption DEF Space
    <2> QED
      BY <1>0, <2>1 DEF LifeInv, Reaping
  <1>11. LoaderInv(loader, lost, status, H)
    BY <1>0 DEF LoaderInv
  <1>12. StackInv(status, stacks, reaper, H) /\ ReaperInv(reaper, stacks, H)
    BY <1>0 DEF StackInv, ReaperInv, HasKernel, HasUser
  <1>13. HeapInv(tab, heap, reaper, H)
    BY <1>0, <1>8, BootedAt, InitTables, IndexOf DEF HeapInv
  <1> QED
    BY <1>2, <1>4, <1>8, <1>9, <1>10, <1>11, <1>12, <1>13 DEF IInv

LEMMA StepInv ==
  ASSUME IInv, [Next]_vars
  PROVE  IInv'
  <1>1. ASSUME NEW p \in Proc, CreateProcess(p) PROVE IInv'
    BY <1>1, CreateProcessStep
  <1>2. ASSUME NEW p \in Proc, NEW h \in Headers, AllocSegment(p, h) PROVE IInv'
    BY <1>2, AllocSegmentStep
  <1>3. ASSUME NEW p \in Proc, FindKernelStack(p) PROVE IInv'
    <2>1. FindPages(p, STACKS) /\ status[p] = IF STACKS = STACKS THEN "loaded" ELSE "kstack"
      BY <1>3 DEF FindKernelStack
    <2> QED
      BY <2>1, FindPagesStep
  <1>4. ASSUME NEW p \in Proc, FindUserStack(p) PROVE IInv'
    <2>1. FindPages(p, USER) /\ status[p] = IF USER = STACKS THEN "loaded" ELSE "kstack"
      BY <1>4 DEF FindUserStack, USER, STACKS
    <2> QED
      BY <2>1, FindPagesStep
  <1>5. ASSUME NEW p \in Proc, StartRelease(p) PROVE IInv'
    BY <1>5, StartReleaseStep
  <1>6. CASE AddDirectory
    BY <1>6, AddDirectoryStep
  <1>7. CASE AddTable
    BY <1>7, AddTableStep
  <1>8. CASE MapSegment
    BY <1>8, MapSegmentStep
  <1>9. CASE MapNext
    BY <1>9, MapNextStep
  <1>10. CASE UnmapPage
    BY <1>10, UnmapPageStep
  <1>11. CASE FreePage
    BY <1>11, FreePageStep
  <1>12. CASE DestroyPage
    BY <1>12, DestroyPageStep
  <1>13. CASE DestroyTable
    BY <1>13, DestroyTableStep
  <1>14. CASE DestroyDirectory
    BY <1>14, DestroyDirectoryStep
  <1>15. CASE DestroyRoot
    BY <1>15, DestroyRootStep
  <1>16. ASSUME NEW i \in HeapNo, HeapAlloc(i) PROVE IInv'
    BY <1>16, HeapAllocStep
  <1>17. ASSUME NEW i \in HeapNo, HeapFree(i) PROVE IInv'
    BY <1>17, HeapFreeStep
  <1>18. CASE HeapUnmap
    BY <1>18, HeapUnmapStep
  <1>19. CASE UNCHANGED vars
    <2>1. H' = H
      BY <1>19 DEF vars, H, Claimed, Holding, Hold, Segments, Hidden, DirOf, TableOf, PageOf
    <2>2. TypeOK'
      BY <1>19 DEF vars, TypeOK, IInv
    <2> QED
      BY <1>19, <2>1, <2>2 DEF vars, IInv
  <1> QED
    BY <1>1, <1>2, <1>3, <1>4, <1>5, <1>6, <1>7, <1>8, <1>9, <1>10, <1>11, <1>12, <1>13, <1>14, <1>15,
       <1>16, <1>17, <1>18, <1>19 DEF Next, HeapNo

-----------------------------------------------------------------------------
(* The uses of frames, and the properties.                                 *)

\* The place of a frame whose entry was replaced is no use of it.
Replaced(a) == \E f \in lost : a = LoaderSlot(f)

\* A use of a frame is a place that holds one.
LEMMA UsesAre ==
  ASSUME IInv
  PROVE  Uses = {<<a, H[a]>> : a \in {b \in Slot : H[b] # None /\ ~Replaced(b)}}
  <1> DEFINE V == {<<a, H[a]>> : a \in {b \in Slot : H[b] # None /\ ~Replaced(b)}}
  <1>0. /\ HoldsAt(tab, root, Claimed, reaper) /\ H \in Slots /\ LoaderTyped(loader) /\ ReaperTyped(reaper)
    BY HoldAt, StateTree, StateType DEF IInv
  <1>1. \A a \in Slot : H[a] = Hold(tab, root, Claimed, reaper, a)
    BY DEF H, Holding
  <1>2. \A s \in Space : H[RootSlot(s)] = root[s]
    BY <1>0, <1>1, SlotType DEF HoldsAt
  <1>3. \A o \in Own : /\ GoneDir(o) <=> Hidden(reaper, DirSlot(o))
                       /\ H[DirSlot(o)] = IF GoneDir(o) THEN None ELSE Dir(o)
    <2>1. \A o \in Own : GoneDir(o) <=> Hidden(reaper, DirSlot(o))
      <3>1. \A o : DirSlot(o)[1] = "dir" /\ DirSlot(o)[2] = o /\ \A k, x : DirSlot(o) # PageSlot(<<K, HEAP>>, k, x)
        BY Apart DEF DirSlot
      <3> QED
        BY <3>1 DEF GoneDir, Hidden
    <2> QED
      BY <1>0, <1>1, <2>1, SlotType DEF HoldsAt, Dir
  <1>4. \A o \in Own, k \in TableNo :
          /\ GoneTable(o, k) <=> Hidden(reaper, TableSlot(o, k))
          /\ H[TableSlot(o, k)] = IF GoneTable(o, k) THEN None ELSE TableOf(tab, root, o, k)
    <2>1. \A o \in Own, k \in TableNo : GoneTable(o, k) <=> Hidden(reaper, TableSlot(o, k))
      <3>1. \A o, k : /\ TableSlot(o, k)[1] = "table" /\ TableSlot(o, k)[2] = o /\ TableSlot(o, k)[3] = k
                      /\ \A l, x : TableSlot(o, k) # PageSlot(<<K, HEAP>>, l, x)
        BY Apart DEF TableSlot
      <3> QED
        BY <3>1 DEF GoneDir, GoneTable, Hidden
    <2> QED
      BY <1>0, <1>1, <2>1, SlotType DEF HoldsAt
  <1>5. ASSUME NEW o \in Own, NEW k \in TableNo, NEW x \in EntryNo
        PROVE  /\ GonePage(o, k, x) <=> Hidden(reaper, PageSlot(o, k, x))
               /\ H[PageSlot(o, k, x)] = IF GonePage(o, k, x) THEN None ELSE PageOf(tab, root, o, k, x)
    <2>1. GonePage(o, k, x) <=> Hidden(reaper, PageSlot(o, k, x))
      <3>1. /\ PageSlot(o, k, x)[1] = "page" /\ PageSlot(o, k, x)[2] = o
            /\ PageSlot(o, k, x)[3] = k /\ PageSlot(o, k, x)[4] = x
        BY DEF PageSlot
      <3>2. PageSlot(o, k, x) = PageSlot(<<K, HEAP>>, 0, reaper.i)
              <=> o = <<K, HEAP>> /\ k = 0 /\ x = reaper.i
        BY Apart
      <3> QED
        BY <3>1, <3>2 DEF GoneDir, GoneTable, GonePage, Hidden
    <2> QED
      BY <1>0, <1>1, <2>1, SlotType DEF HoldsAt
  <1>6. InHand = Segments(loader)
    BY DEF InHand, Segments
  <1>7. /\ \A f \in Frame : H[LoaderSlot(f)] = IF f \in InHand \/ f \in lost THEN f ELSE None
        /\ H[ReaperSlot] = IF reaper.do = "free" THEN reaper.frame ELSE None
    BY <1>0, <1>1, <1>6, SlotType DEF HoldsAt, Claimed
  <1>8. \A f \in InHand : f \in Frame
    <2>1. CASE loader.do = "mapSegment"
      <3>1. loader # Idle /\ loader.frame \in Frame /\ loader.left \in Nat
        BY <1>0, <2>1, LoaderCases
      <3>2. loader.frame + loader.left <= NFrames
        BY <2>1, <3>1 DEF IInv, LoaderInv
      <3> QED
        BY <2>1, <3>1, <3>2, SizeAssumption DEF InHand, Frame
    <2>2. CASE loader.do # "mapSegment"
      BY <2>2 DEF InHand
    <2> QED
      BY <2>1, <2>2
  <1>20. \A f \in InHand : ~Replaced(LoaderSlot(f))
    <2>1. InHand \cap lost = {}
      <3>1. CASE loader.do = "mapSegment"
        <4>1. loader # Idle
          BY <1>0, <3>1, LoaderCases
        <4> QED
          BY <1>6, <3>1, <4>1 DEF IInv, LoaderInv
      <3>2. CASE loader.do # "mapSegment"
        BY <3>2 DEF InHand
      <3> QED
        BY <3>1, <3>2
    <2>2. \A f, g : LoaderSlot(f) = LoaderSlot(g) => f = g
      BY DEF LoaderSlot
    <2> QED
      BY <2>1, <2>2 DEF Replaced
  <1>21. /\ \A s : ~Replaced(RootSlot(s))
         /\ \A o : ~Replaced(DirSlot(o))
         /\ \A o, k : ~Replaced(TableSlot(o, k))
         /\ \A o, k, x : ~Replaced(PageSlot(o, k, x))
         /\ ~Replaced(ReaperSlot)
    <2>1. \A f : LoaderSlot(f)[1] = "loader"
      BY DEF LoaderSlot
    <2>2. /\ \A s : RootSlot(s)[1] = "root"
          /\ \A o : DirSlot(o)[1] = "dir"
          /\ \A o, k : TableSlot(o, k)[1] = "table"
          /\ \A o, k, x : PageSlot(o, k, x)[1] = "page"
          /\ ReaperSlot[1] = "reaper"
      BY DEF RootSlot, DirSlot, TableSlot, PageSlot, ReaperSlot
    <2> QED
      BY <2>1, <2>2 DEF Replaced
  <1> DEFINE roots == {<<<<"root", s>>, root[s]>> : s \in Space}
             dirs == {<<<<"dir", o>>, Dir(o)>> : o \in {d \in Own : ~GoneDir(d)}}
             tables == {<<<<"table", a[1], a[2]>>, TableOf(tab, root, a[1], a[2])>> :
                          a \in {b \in Own \X (0..Dirs-1) : ~GoneTable(b[1], b[2])}}
             pages == {<<<<"page", a[1], a[2], a[3]>>, PageOf(tab, root, a[1], a[2], a[3])>> :
                         a \in {b \in Own \X (0..Dirs-1) \X (0..Entries-1) : ~GonePage(b[1], b[2], b[3])}}
             hands == {<<<<"loader", f>>, f>> : f \in InHand}
             taken == {<<<<"reaper">>, reaper.frame>> : r \in {q \in {reaper} : q.do = "free"}}
  <1>9. Uses = {u \in roots \cup dirs \cup tables \cup pages \cup hands \cup taken : u[2] # None}
    BY DEF Uses
  <1>10. \A a \in Slot : H[a] # None /\ ~Replaced(a) => <<a, H[a]>> \in V
    OBVIOUS
  <1>11. ASSUME NEW u \in roots, u[2] # None PROVE u \in V
    <2>1. PICK s \in Space : u = <<RootSlot(s), root[s]>>
      BY <1>11 DEF RootSlot
    <2> QED
      BY <1>2, <1>10, <1>11, <1>21, <2>1, SlotType
  <1>12. ASSUME NEW u \in dirs, u[2] # None PROVE u \in V
    <2>1. PICK o \in Own : ~GoneDir(o) /\ u = <<DirSlot(o), Dir(o)>>
      BY <1>12 DEF DirSlot
    <2> QED
      BY <1>3, <1>10, <1>12, <1>21, <2>1, SlotType
  <1>13. ASSUME NEW u \in tables, u[2] # None PROVE u \in V
    <2>1. PICK o \in Own, k \in TableNo : ~GoneTable(o, k) /\ u = <<TableSlot(o, k), TableOf(tab, root, o, k)>>
      <3>1. PICK a \in Own \X (0..Dirs-1) :
              ~GoneTable(a[1], a[2]) /\ u = <<<<"table", a[1], a[2]>>, TableOf(tab, root, a[1], a[2])>>
        BY <1>13
      <3>2. a[1] \in Own /\ a[2] \in TableNo
        BY <3>1 DEF TableNo
      <3> QED
        BY <3>1, <3>2 DEF TableSlot
    <2>2. H[TableSlot(o, k)] = TableOf(tab, root, o, k) /\ TableSlot(o, k) \in Slot
      BY <1>4, <2>1, SlotType
    <2> QED
      BY <1>10, <1>13, <1>21, <2>1, <2>2
  <1>14. ASSUME NEW u \in pages, u[2] # None PROVE u \in V
    <2>1. PICK o \in Own, k \in TableNo, x \in EntryNo :
            ~GonePage(o, k, x) /\ u = <<PageSlot(o, k, x), PageOf(tab, root, o, k, x)>>
      <3>1. PICK a \in Own \X (0..Dirs-1) \X (0..Entries-1) :
              ~GonePage(a[1], a[2], a[3])
              /\ u = <<<<"page", a[1], a[2], a[3]>>, PageOf(tab, root, a[1], a[2], a[3])>>
        BY <1>14
      <3>2. a[1] \in Own /\ a[2] \in TableNo /\ a[3] \in EntryNo
        BY <3>1 DEF TableNo, EntryNo
      <3> QED
        BY <3>1, <3>2 DEF PageSlot
    <2>2. H[PageSlot(o, k, x)] = PageOf(tab, root, o, k, x) /\ PageSlot(o, k, x) \in Slot
      BY <1>5, <2>1, SlotType
    <2> QED
      BY <1>10, <1>14, <1>21, <2>1, <2>2
  <1>15. ASSUME NEW u \in hands, u[2] # None PROVE u \in V
    <2>1. PICK f \in InHand : u = <<LoaderSlot(f), f>>
      BY <1>15 DEF LoaderSlot
    <2>2. LoaderSlot(f) \in Slot /\ H[LoaderSlot(f)] = f
      BY <1>7, <1>8, <2>1, SlotType
    <2> QED
      BY <1>10, <1>15, <1>20, <2>1, <2>2
  <1>16. ASSUME NEW u \in taken, u[2] # None PROVE u \in V
    <2>1. reaper.do = "free" /\ u = <<ReaperSlot, reaper.frame>>
      BY <1>16 DEF ReaperSlot
    <2> QED
      BY <1>7, <1>10, <1>16, <1>21, <2>1, SlotType
  <1>17. ASSUME NEW a \in Slot, H[a] # None, ~Replaced(a)
         PROVE  <<a, H[a]>> \in roots \cup dirs \cup tables \cup pages \cup hands \cup taken
    <2>1. CASE \E s \in Space : a = RootSlot(s)
      <3>1. <<a, H[a]>> \in roots
        BY <1>2, <2>1 DEF RootSlot
      <3> QED
        BY <3>1
    <2>2. CASE \E o \in Own : a = DirSlot(o)
      <3>1. PICK o \in Own : a = DirSlot(o)
        BY <2>2
      <3>2. ~GoneDir(o) /\ H[a] = Dir(o)
        BY <1>3, <1>17, <3>1
      <3>3. <<a, H[a]>> \in dirs
        BY <3>1, <3>2 DEF DirSlot
      <3> QED
        BY <3>3
    <2>3. CASE \E o \in Own, k \in TableNo : a = TableSlot(o, k)
      <3>1. PICK o \in Own, k \in TableNo : a = TableSlot(o, k)
        BY <2>3
      <3>2. ~GoneTable(o, k) /\ H[a] = TableOf(tab, root, o, k)
        BY <1>4, <1>17, <3>1
      <3>3. <<o, k>> \in Own \X (0..Dirs-1) /\ <<o, k>>[1] = o /\ <<o, k>>[2] = k
        BY DEF TableNo
      <3>4. <<a, H[a]>> \in tables
        BY <3>1, <3>2, <3>3 DEF TableSlot
      <3> QED
        BY <3>4
    <2>4. CASE \E o \in Own, k \in TableNo, x \in EntryNo : a = PageSlot(o, k, x)
      <3>1. PICK o \in Own, k \in TableNo, x \in EntryNo : a = PageSlot(o, k, x)
        BY <2>4
      <3>2. ~GonePage(o, k, x) /\ H[a] = PageOf(tab, root, o, k, x)
        BY <1>5, <1>17, <3>1
      <3>3. <<o, k, x>> \in Own \X (0..Dirs-1) \X (0..Entries-1)
            /\ <<o, k, x>>[1] = o /\ <<o, k, x>>[2] = k /\ <<o, k, x>>[3] = x
        BY DEF TableNo, EntryNo
      <3>4. <<a, H[a]>> \in pages
        BY <3>1, <3>2, <3>3 DEF PageSlot
      <3> QED
        BY <3>4
    <2>5. CASE \E f \in Frame : a = LoaderSlot(f)
      <3>1. PICK f \in Frame : a = LoaderSlot(f)
        BY <2>5
      <3>2. f \in InHand /\ H[a] = f
        BY <1>7, <1>17, <3>1 DEF Replaced
      <3>3. <<a, H[a]>> \in hands
        BY <3>1, <3>2 DEF LoaderSlot
      <3> QED
        BY <3>3
    <2>6. CASE a = ReaperSlot
      <3>1. reaper.do = "free" /\ H[a] = reaper.frame
        BY <1>7, <1>17, <2>6
      <3>2. <<a, H[a]>> \in taken
        BY <2>6, <3>1 DEF ReaperSlot
      <3> QED
        BY <3>2
    <2> QED
      BY <2>1, <2>2, <2>3, <2>4, <2>5, <2>6, SlotCases
  <1> HIDE DEF roots, dirs, tables, pages, hands, taken
  <1>18. Uses \subseteq V
    BY <1>9, <1>11, <1>12, <1>13, <1>14, <1>15, <1>16
  <1>19. V \subseteq Uses
    <2>1. ASSUME NEW u \in V PROVE u \in Uses
      <3>1. PICK a \in Slot : H[a] # None /\ ~Replaced(a) /\ u = <<a, H[a]>>
        OBVIOUS
      <3>2. u[2] # None
        BY <3>1
      <3> QED
        BY <1>9, <1>17, <3>1, <3>2
    <2> QED
      BY <2>1
  <1> QED
    BY <1>18, <1>19

\* Each place is one use, and each frame marked used has one unless its entry
\* was replaced.
LEMMA UsesOnce ==
  ASSUME IInv
  PROVE  /\ FramesOf(Uses) = used \ lost
         /\ lost \subseteq used
         /\ Cardinality(Uses) = Cardinality(FramesOf(Uses))
  <1> DEFINE U == Uses
             F == FramesOf(U)
             L == used \ lost
  <1>0. TypeOK /\ Sole(H, used) /\ used \subseteq Frame /\ None \notin used
    BY StateType, IndexOf DEF IInv
  <1>1. U = {<<a, H[a]>> : a \in {b \in Slot : H[b] # None /\ ~Replaced(b)}}
    BY UsesAre
  <1> HIDE DEF U
  <1>2. \A f \in lost : LoaderSlot(f) \in Slot /\ H[LoaderSlot(f)] = f /\ f # None
    <2>1. lost \subseteq Frame /\ None \notin Frame
      BY <1>0, IndexOf DEF TypeOK
    <2>2. InHands(H, Claimed, reaper)
      BY <1>0, StateTree
    <2> QED
      BY <2>1, <2>2, SlotType DEF InHands, Claimed
  <1>3. lost \subseteq used
    BY <1>0, <1>2 DEF Sole
  <1>4. \A u \in U : u[1] \in Slot /\ u = <<u[1], H[u[1]]>> /\ u[2] = H[u[1]] /\ u[2] # None
    BY <1>1
  <1>5. \A u \in U : u[2] \in L
    <2>1. ASSUME NEW u \in U PROVE u[2] \in used
      BY <1>0, <1>4 DEF Sole
    <2>2. ASSUME NEW u \in U, u[2] \in lost PROVE FALSE
      <3>1. PICK a \in Slot : u = <<a, H[a]>> /\ H[a] # None /\ ~Replaced(a)
        BY <1>1
      <3>2. H[a] = H[LoaderSlot(u[2])]
        BY <1>2, <2>2, <3>1
      <3>3. a = LoaderSlot(u[2])
        BY <1>0, <1>2, <2>2, <3>1, <3>2 DEF Sole
      <3> QED
        BY <2>2, <3>1, <3>3 DEF Replaced
    <2> QED
      BY <2>1, <2>2
  <1>6. ASSUME NEW f \in L PROVE \E u \in U : u[2] = f
    <2>1. PICK a \in Slot : H[a] = f
      BY <1>0 DEF Sole
    <2>2. ~Replaced(a)
      BY <1>2, <2>1 DEF Replaced
    <2>3. <<a, f>> \in U /\ <<a, f>>[2] = f
      BY <1>0, <1>1, <2>1, <2>2
    <2> QED
      BY <2>3
  <1>7. F = L
    BY <1>5, <1>6 DEF FramesOf
  <1>8. IsFiniteSet(L)
    <2>1. 0 \in Int /\ NFrames - 1 \in Int
      BY SizeAssumption
    <2>2. IsFiniteSet(0..NFrames-1)
      BY <2>1, FS_Interval
    <2> QED
      BY <1>0, <2>2, FS_Subset DEF Frame
  <1> DEFINE g == [f \in L |-> CHOOSE u \in U : u[2] = f]
  <1>9. \A f \in L : g[f] \in U /\ g[f][2] = f
    BY <1>6
  <1>10. g \in [L -> U]
    BY <1>9
  <1> HIDE DEF g
  <1>11. \A u, w \in U : u[2] = w[2] => u = w
    <2>1. ASSUME NEW u \in U, NEW w \in U, u[2] = w[2] PROVE u[1] = w[1]
      BY <1>0, <1>4, <2>1 DEF Sole
    <2> QED
      BY <1>4, <2>1
  <1>12. ExistsBijection(L, U)
    <2> HIDE DEF L
    <2>1. \A f, e \in L : g[f] = g[e] => f = e
      BY <1>9
    <2>2. ASSUME NEW u \in U PROVE \E f \in L : g[f] = u
      BY <1>5, <1>9, <1>11
    <2>3. g \in Bijection(L, U)
      BY <1>10, <2>1, <2>2 DEF Bijection, Injection, Surjection, IsInjective
    <2> QED
      BY <2>3 DEF ExistsBijection
  <1>13. Cardinality(U) = Cardinality(L)
    BY <1>8, <1>12, FS_Bijection
  <1> QED
    BY <1>3, <1>7, <1>13 DEF U

\* The invariant holds throughout: the page tables of all spaces form one tree
\* without sharing below the kernel's directories, and what the two CPUs have
\* in hand agrees with it.
THEOREM Invariance == Spec => []IInv
  <1>1. Init => IInv
    BY InitInv
  <1>2. IInv /\ [Next]_vars => IInv'
    BY StepInv
  <1> QED
    BY <1>1, <1>2, PTL DEF Spec

\* getFreePages(), mapPage(), unmapPage(), freePages() and
\* destroyAddressSpace(): whatever is loaded and torn down at the same time, for
\* any number of processes, frames and pages, every frame that has a use has
\* one, and is marked used; a frame whose entry was replaced stays out of use.
THEOREM FramesUsedOnce == Spec => []FrameOnce
  <1>1. IInv => FrameOnce
    <2>1. ASSUME IInv PROVE FrameOnce
      <3>1. /\ FramesOf(Uses) = used \ lost /\ lost \subseteq used
            /\ Cardinality(Uses) = Cardinality(FramesOf(Uses))
        BY <2>1, UsesOnce
      <3> QED
        BY <2>1, <3>1 DEF FrameOnce, IInv
    <2> QED
      BY <2>1
  <1> QED
    BY <1>1, Invariance, PTL

\* allocSpace(), destroyThread() and destroyAddressSpace(): whatever program
\* headers the executables have, every frame that is marked used still has a
\* use, but for those whose entry mapPage() replaced because a later header of
\* the same executable asked for the page once more.
THEOREM FramesNotLost == Spec => []NothingLost
  <1>1. IInv => NothingLost
    <2>1. ASSUME IInv PROVE NothingLost
      <3>1. FramesOf(Uses) = used \ lost
        BY <2>1, UsesOnce
      <3> QED
        BY <3>1 DEF NothingLost
    <2> QED
      BY <2>1
  <1> QED
    BY <1>1, Invariance, PTL

\* unmapPage(): the panics for a page, table or directory that is not there
\* are never reached, neither by destroyThread() nor by the heap.
THEOREM UnmapsMapped == Spec => []NoUnmapPanic
  <1>1. ASSUME IInv, reaper.do = "release" PROVE Entry(There, reaper.n) # None
    <2> DEFINE o == Where(reaper.p, reaper.region)
               k == reaper.n \div Entries
               x == reaper.n % Entries
    <2>0. TypeOK /\ ReaperTyped(reaper)
      BY <1>1, StateType DEF IInv
    <2>1. /\ reaper.p \in Proc /\ reaper.region \in {USER, STACKS} /\ reaper.n \in PageNo
      BY <1>1, <2>0, ReaperCases
    <2>2. PageAt(H, o, reaper.n) # None
      <3>1. CASE reaper.region = STACKS
        <4>1. HasKernel(status, reaper, reaper.p) /\ reaper.n = stacks[reaper.p].kernel /\ o = KS
          BY <1>1, <3>1 DEF IInv, ReaperInv, HasKernel, Where
        <4> QED
          BY <1>1, <2>1, <4>1 DEF IInv, StackInv
      <3>2. CASE reaper.region = USER
        <4>1. o = <<reaper.p, USER>>
          BY <3>2 DEF Where, USER, STACKS
        <4> QED
          BY <1>1, <3>2, <4>1 DEF IInv, ReaperInv
      <3> QED
        BY <2>1, <3>1, <3>2
    <2>3. ~Razing(reaper, reaper.p) /\ root[reaper.p] # None
      BY <1>1, <2>1 DEF Razing, Reaping, IInv, LifeInv
    <2>4. k \in TableNo /\ x \in EntryNo /\ KernelInv(tab, root, H)
      BY <1>1, <2>1, PageNoType DEF IInv
    <2>5. PageOf(tab, root, <<reaper.p, reaper.region>>, k, x) = H[PageSlot(o, k, x)]
      BY <2>0, <2>1, <2>3, <2>4, Way
    <2> QED
      BY <2>2, <2>5 DEF Entry, There, PageAt
  <1>2. ASSUME IInv, NEW i \in HeapNo, heap[i] # None PROVE tab[HeapTable][i] = heap[i]
    BY <1>2, HeapAt
  <1>3. IInv => NoUnmapPanic
    BY <1>1, <1>2 DEF NoUnmapPanic, HeapNo
  <1> QED
    BY <1>3, Invariance, PTL

\* Another entry than that of a program header's page is overwritten, in a
\* table in use.
Rewritten(t, u, t2, u2) ==
  \E f \in u \cap u2, x \in Index :
    t[f][x] # None /\ ~HeaderPage(f, x) /\ t2[f][x] \notin {t[f][x], None}

LEMMA EnteredOnce ==
  ASSUME NEW t \in TableMap, NEW u, NEW u2, u \subseteq Frame, NEW g \in Frame, NEW x \in Index,
         NEW v \in Frame \cup {None}, t[g][x] = None \/ v = None \/ HeaderPage(g, x)
  PROVE  ~Rewritten(t, u, Entered(t, g, x, v), u2)
  <1> DEFINE t2 == Entered(t, g, x, v)
  <1>1. t2[g][x] = v /\ \A f \in Frame, y \in Index : f # g \/ y # x => t2[f][y] = t[f][y]
    BY EnteredAt
  <1> HIDE DEF t2
  <1>2. \A f \in Frame, y \in Index :
          t[f][y] # None /\ ~HeaderPage(f, y) => t2[f][y] \in {t[f][y], None}
    BY <1>1
  <1>3. ~Rewritten(t, u, t2, u2)
    BY <1>2 DEF Rewritten
  <1> QED
    BY <1>3 DEF t2

LEMMA GrownOnce ==
  ASSUME NEW t \in TableMap, NEW u, NEW u2, u \subseteq Frame, NEW f \in Frame, f \notin u,
         NEW g \in Frame, f # g, NEW x \in Index, t[g][x] = None
  PROVE  ~Rewritten(t, u, Grown(t, f, g, x), u2)
  <1> DEFINE t2 == Grown(t, f, g, x)
  <1>1. \A e \in Frame, y \in Index : e # f /\ (e # g \/ y # x) => t2[e][y] = t[e][y]
    BY GrownAt
  <1> HIDE DEF t2
  <1>2. \A e \in u, y \in Index : t[e][y] # None => t2[e][y] \in {t[e][y], None}
    BY <1>1
  <1>3. ~Rewritten(t, u, t2, u2)
    BY <1>2 DEF Rewritten
  <1> QED
    BY <1>3 DEF t2

\* One frame changes, and it is not in use before and after.
LEMMA OtherOnce ==
  ASSUME NEW t \in TableMap, NEW u, NEW u2, u \subseteq Frame, NEW f, f \notin u \cap u2, NEW e
  PROVE  ~Rewritten(t, u, [t EXCEPT ![f] = e], u2)
  BY DEF Rewritten, TableMap

\* What the loader maps at is not mapped, or is a page of a program header.
LEMMA MapOnce ==
  ASSUME IInv, loader # Idle, NEW f \in Frame, Map(f), NEW u2
  PROVE  ~Rewritten(tab, used, tab', u2)
  <1> DEFINE o == Where(loader.p, loader.region)
             k == loader.n \div Entries
             x == loader.n % Entries
             a == PageSlot(o, k, x)
  <1>0. /\ TypeOK /\ Sole(H, used) /\ Tree(H, tab, root, Gone(reaper)) /\ tab \in TableMap /\ used \subseteq Frame
    BY StateType, StateTree DEF IInv
  <1>1. Missing = {} /\ tab' = [tab EXCEPT ![Table(Here, loader.n)][x] = f]
    BY DEF Map
  <1>2. /\ o \in Own /\ k \in TableNo /\ x \in EntryNo
        /\ Table(Here, loader.n) = H[TableSlot(o, k)] /\ H[TableSlot(o, k)] # None
        /\ (loader.do = "map" => H[a] = None) /\ a \in Child /\ a \notin Gone(reaper)
    BY <1>1, MapAt
  <1>3. tab' = Entered(tab, H[TableSlot(o, k)], x, f)
    BY <1>1, <1>2 DEF Entered
  <1>4. H[TableSlot(o, k)] \in Frame /\ x \in Index
    BY <1>0, <1>2, SlotType, SoleType, IndexOf
  <1>5. tab[H[TableSlot(o, k)]][x] = None \/ HeaderPage(H[TableSlot(o, k)], x)
    <2>1. CASE loader.do = "map"
      <3>1. Up(a) = TableSlot(o, k) /\ At(a) = x
        BY UpAt
      <3> QED
        BY <1>0, <1>2, <2>1, <3>1 DEF Tree
    <2>2. CASE loader.do = "mapSegment"
      BY <1>2, <2>2 DEF HeaderPage
    <2>3. loader.do \in {"map", "mapSegment"}
      BY <1>0, StateType, LoaderCases
    <2> QED
      BY <2>1, <2>2, <2>3
  <1> QED
    BY <1>0, <1>3, <1>4, <1>5, EnteredOnce

\* A level that the loader adds was not there.
LEMMA GrowOnce ==
  ASSUME IInv, loader # Idle, AddDirectory \/ AddTable
  PROVE  ~Rewritten(tab, used, tab', used')
  <1> DEFINE f == NextFrame
             p == loader.p
             r == loader.region
  <1>0. TypeOK /\ tab \in TableMap /\ root \in RootMap /\ used \subseteq Frame /\ Sole(H, used)
        /\ Tree(H, tab, root, Gone(reaper))
    BY StateType, StateTree DEF IInv
  <1>1. p \in Proc /\ r \in {USER, STACKS} /\ root[p] # None /\ r \in Index
        /\ Where(p, r) \in Own /\ Dir(Here) = H[DirSlot(Where(p, r))]
    BY LoaderAt DEF Index
  <1>2. CASE AddDirectory
    <2>1. Dir(Here) = None /\ Grow(root[p], r)
      BY <1>2 DEF AddDirectory
    <2>2. f \in Frame /\ f \notin used
      BY <1>0, <2>1, NextFrameIs DEF Grow
    <2>3. root[p] \in used /\ root[p] \in Frame
      <3>1. p \in Space
        BY <1>1 DEF Space
      <3>2. RootSlot(p) \in Slot /\ H[RootSlot(p)] = root[p]
        BY <1>0, <3>1, SlotType DEF Tree
      <3> QED
        BY <1>0, <1>1, <3>2, SoleType
    <2>4. tab[root[p]][r] = None
      BY <1>1, <2>1 DEF Dir, DirOf, Here
    <2>5. tab' = Grown(tab, f, root[p], r)
      BY <2>1 DEF Grow, Grown
    <2> QED
      BY <1>0, <1>1, <2>2, <2>3, <2>4, <2>5, GrownOnce
  <1>3. CASE AddTable
    <2> DEFINE k == Lowest(Missing)
    <2>1. Dir(Here) # None /\ Missing # {} /\ Grow(Dir(Here), k)
      BY <1>3 DEF AddTable
    <2>2. f \in Frame /\ f \notin used
      BY <1>0, <2>1, NextFrameIs DEF Grow
    <2>3. Dir(Here) \in used /\ Dir(Here) \in Frame
      <3>1. DirSlot(Where(p, r)) \in Slot
        BY <1>1, SlotType
      <3> QED
        BY <1>0, <1>1, <2>1, <3>1, SoleType
    <2>4. k \in Missing
      <3>1. Missing \subseteq Nat
        BY NeededType, SizeAssumption DEF Missing, TableNo
      <3> QED
        BY <2>1, <3>1, LowestIs
    <2>5. k \in Index /\ tab[Dir(Here)][k] = None
      BY <2>1, <2>4, NeededType, IndexOf DEF Missing, TableOf, Dir
    <2>6. tab' = Grown(tab, f, Dir(Here), k)
      BY <2>1 DEF Grow, Grown
    <2> HIDE DEF k
    <2> QED
      BY <1>0, <2>2, <2>3, <2>5, <2>6, GrownOnce
  <1> QED
    BY <1>2, <1>3

LEMMA StepOnce ==
  ASSUME IInv, [Next]_vars
  PROVE  ~Rewritten(tab, used, tab', used')
  <1>0. TypeOK /\ tab \in TableMap /\ used \subseteq Frame /\ Sole(H, used) /\ LoaderTyped(loader)
        /\ ReaperTyped(reaper) /\ Tree(H, tab, root, Gone(reaper))
    BY StateType, StateTree DEF IInv
  <1>1. CASE tab' = tab
    BY <1>1 DEF Rewritten
  <1>2. ASSUME NEW p \in Proc, CreateProcess(p) PROVE ~Rewritten(tab, used, tab', used')
    <2>1. /\ NextFrame \notin used
          /\ tab' = [tab EXCEPT ![NextFrame] = [tab[root[K]] EXCEPT ![USER] = None]]
      BY <1>0, <1>2, NextFrameIs DEF CreateProcess
    <2> QED
      BY <1>0, <2>1, OtherOnce
  <1>3. CASE AddDirectory \/ AddTable
    BY <1>3, GrowOnce DEF AddDirectory, AddTable
  <1>4. CASE MapSegment
    <2>1. loader # Idle /\ loader.frame \in Frame /\ Map(loader.frame)
      BY <1>0, <1>4, LoaderCases DEF MapSegment
    <2> QED
      BY <2>1, MapOnce
  <1>5. CASE MapNext
    <2>1. loader # Idle /\ NextFrame \in Frame /\ Map(NextFrame)
      BY <1>0, <1>5, LoaderCases, NextFrameIs DEF MapNext
    <2> QED
      BY <2>1, MapOnce
  <1>6. CASE UnmapPage
    <2> DEFINE o == Where(reaper.p, reaper.region)
               k == reaper.n \div Entries
               x == reaper.n % Entries
    <2>1. reaper.do = "release" /\ Entry(There, reaper.n) # None
          /\ tab' = [tab EXCEPT ![Table(There, reaper.n)][x] = None]
      BY <1>6 DEF UnmapPage
    <2>2. /\ o \in Own /\ k \in TableNo /\ x \in EntryNo
          /\ Table(There, reaper.n) = H[TableSlot(o, k)] /\ H[TableSlot(o, k)] # None
      BY <2>1, ReleaseAt
    <2>3. H[TableSlot(o, k)] \in Frame /\ x \in Index
      BY <1>0, <2>2, SlotType, SoleType, IndexOf
    <2>4. tab' = Entered(tab, H[TableSlot(o, k)], x, None)
      BY <2>1, <2>2 DEF Entered
    <2> QED
      BY <1>0, <2>3, <2>4, EnteredOnce
  <1>7. CASE DestroyTable
    <2>1. tab' = tab \/ (used' = used \ {Doomed} /\ tab' = [tab EXCEPT ![Doomed] = Garbage])
      BY <1>7 DEF DestroyTable
    <2>2. CASE tab' = tab
      BY <1>1, <2>2
    <2>3. CASE used' = used \ {Doomed} /\ tab' = [tab EXCEPT ![Doomed] = Garbage]
      <3> DEFINE d == Doomed
      <3>1. used' = used \ {d} /\ tab' = [tab EXCEPT ![d] = Garbage]
        BY <2>3
      <3> HIDE DEF d
      <3> QED
        BY <1>0, <3>1, OtherOnce
    <2> QED
      BY <2>1, <2>2, <2>3
  <1>8. CASE DestroyDirectory
    <2> DEFINE d == Dir(<<reaper.p, USER>>)
    <2>1. used' = used \ {d} /\ tab' = [tab EXCEPT ![d] = Garbage]
      BY <1>8 DEF DestroyDirectory
    <2> HIDE DEF d
    <2> QED
      BY <1>0, <2>1, OtherOnce
  <1>9. CASE DestroyRoot
    <2> DEFINE d == root[reaper.p]
    <2>1. used' = used \ {d} /\ tab' = [tab EXCEPT ![d] = Garbage]
      BY <1>9 DEF DestroyRoot
    <2> HIDE DEF d
    <2> QED
      BY <1>0, <2>1, OtherOnce
  <1>10. ASSUME NEW i \in HeapNo, HeapAlloc(i) PROVE ~Rewritten(tab, used, tab', used')
    <2>1. heap[i] = None /\ FreeRuns(1) # {} /\ tab' = Entered(tab, HeapTable, i, NextFrame)
      BY <1>10 DEF HeapAlloc, Entered
    <2>2. HeapTable \in Frame /\ i \in Index /\ tab[HeapTable][i] = None
      BY <2>1, HeapAt
    <2> QED
      BY <1>0, <2>1, <2>2, NextFrameIs, EnteredOnce
  <1>11. CASE HeapUnmap
    <2> DEFINE i == reaper.i
    <2>1. i \in HeapNo /\ tab' = Entered(tab, HeapTable, i, None)
      BY <1>0, <1>11, ReaperCases DEF HeapUnmap, Entered, HeapNo
    <2>2. HeapTable \in Frame /\ i \in Index
      BY <2>1, HeapAt
    <2> QED
      BY <1>0, <2>1, <2>2, EnteredOnce
  <1>12. ASSUME NEW p \in Proc,
                \/ \E h \in Headers : AllocSegment(p, h)
                \/ FindKernelStack(p) \/ FindUserStack(p) \/ StartRelease(p)
         PROVE  tab' = tab
    BY <1>12 DEF AllocSegment, FindKernelStack, FindUserStack, FindPages, StartRelease
  <1>13. CASE FreePage \/ DestroyPage \/ UNCHANGED vars
    <2>1. tab' = tab
      BY <1>13 DEF FreePage, DestroyPage, vars
    <2> QED
      BY <1>1, <2>1
  <1>14. ASSUME NEW i \in HeapNo, HeapFree(i) PROVE tab' = tab
    BY <1>14 DEF HeapFree
  <1> QED
    BY <1>1, <1>2, <1>3, <1>4, <1>5, <1>6, <1>7, <1>8, <1>9, <1>10, <1>11, <1>12, <1>13, <1>14
    DEF Next, HeapNo

\* mapPage(): it meets a page that is already mapped (its message of
\* virtual.cpp:63) only where a second program header asks for the page; no
\* other entry of a table in use changes but from absent to present and, in
\* unmapPage(), back.
THEOREM EntriesKept == Spec => NoRemap
  <1>1. IInv /\ [Next]_vars =>
          [\A f \in used \cap used', x \in Index :
             tab[f][x] # None /\ ~HeaderPage(f, x) => tab'[f][x] \in {tab[f][x], None}]_vars
    BY StepOnce DEF Rewritten
  <1> QED
    BY <1>1, Invariance, PTL DEF Spec, NoRemap
=============================================================================
