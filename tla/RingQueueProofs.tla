--------------------------- MODULE RingQueueProofs ---------------------------
(***************************************************************************)
(* Proofs about Queue<T>: the indices stay consistent, no unwritten slot   *)
(* is ever queued, and the ring implements the first-in first-out list, for *)
(* every element type, every initial block size and any number of          *)
(* doublings.                                                              *)
(***************************************************************************)
EXTENDS RingQueue, TLAPS

(***************************************************************************)
(* The remainder push() and pop() take is of a number that exceeds the     *)
(* block size by nothing or not at all: the only cases are "unchanged" and *)
(* "back to 0".                                                            *)
(***************************************************************************)
LEMMA ModStep ==
  ASSUME NEW n \in Nat \ {0}, NEW x \in 0..n
  PROVE  x % n = IF x = n THEN 0 ELSE x
  BY SMT

(***************************************************************************)
(* Arithmetic of the ring: with s entries from slot r on and the write     *)
(* slot w after them, w is the slot of entry s + 1 and of no earlier one;  *)
(* a block of m >= n slots keeps every slot when it is n or the ring       *)
(* starts at 0; and advancing the start by one shifts the entries by one.  *)
(***************************************************************************)
LEMMA RingWrite ==
  ASSUME NEW n \in Nat, NEW r \in Nat, NEW s \in Nat, NEW w \in Nat,
         r < n, s < n, w < n, r + s = w \/ r + s = w + n
  PROVE  /\ RingSlot(r, s + 1, n) = w
         /\ \A k \in 1..s : RingSlot(r, k, n) # w
  BY DEF RingSlot

LEMMA RingGrow ==
  ASSUME NEW n \in Nat, NEW m \in Nat, NEW r \in Nat, NEW s \in Nat,
         r < n, s <= n, n <= m, m = n \/ r = 0
  PROVE  \A k \in 1..s : /\ RingSlot(r, k, m) = RingSlot(r, k, n)
                         /\ RingSlot(r, k, n) \in 0..n-1
  BY DEF RingSlot

LEMMA RingAdvance ==
  ASSUME NEW n \in Nat, NEW r \in Nat, NEW s \in Nat, NEW q \in Nat,
         r < n, s <= n, q = IF r + 1 = n THEN 0 ELSE r + 1
  PROVE  /\ \A k \in 1..s-1 : RingSlot(q, k, n) = RingSlot(r, k + 1, n)
         /\ RingSlot(r, 1, n) = r
  BY DEF RingSlot

(* IndexInv alone is inductive over types; the queued slots need it.       *)
IInv == TypeOK /\ IndexInv /\ NoJunkQueued

LEMMA InitIInv == Init => IInv
  BY SizeAssumption DEF Init, IInv, TypeOK, IndexInv, NoJunkQueued, Block

(***************************************************************************)
(* What a disciplined push() does to the counters: a block that grows is   *)
(* full and starts at slot 0, so lastWritten is the old block's size.      *)
(***************************************************************************)
LEMMA PushIndices ==
  ASSUME IInv, Room, NEW v \in Elem, Push(v)
  PROVE  /\ dataSize' \in Nat \ {0} /\ dataSize' >= dataSize
         /\ lastWritten' = (lastWritten % dataSize') + 1
         /\ lastWritten' \in 1..dataSize'
         /\ lastRead' = lastRead /\ size' = size + 1
         /\ size' <= dataSize'
         /\ \/ lastRead + size + 1 = lastWritten'
            \/ lastRead + size + 1 = lastWritten' + dataSize'
         /\ dataSize' = dataSize \/ lastRead = 0
  <1>1. dataSize' = Grown /\ Grown \in Nat \ {0} /\ Grown >= dataSize
    BY DEF Push, Grown, IInv, TypeOK
  <1>2. lastWritten \in 0..dataSize'
    BY <1>1 DEF IInv, TypeOK, IndexInv
  <1>3. lastWritten % dataSize' = IF lastWritten = dataSize' THEN 0 ELSE lastWritten
    BY <1>1, <1>2, ModStep
  <1>4. size' = size + 1 /\ lastRead' = lastRead /\ lastWritten' = (lastWritten % dataSize') + 1
    BY <1>1 DEF Push
  <1> QED
    BY <1>1, <1>2, <1>3, <1>4 DEF IInv, TypeOK, IndexInv, Room, Grown

(***************************************************************************)
(* Where push() leaves the queued entries: the first size of them keep     *)
(* their slot and value, and the new one takes the slot after them.        *)
(***************************************************************************)
LEMMA PushSlots ==
  ASSUME IInv, Room, NEW v \in Elem, Push(v)
  PROVE  /\ data' \in Block(dataSize')
         /\ \A k \in 1..size : data'[Slot(k)'] = data[Slot(k)]
         /\ data'[Slot(size)'] = v    \* size is primed too: the new last entry
  <1>0. dataSize' \in Nat /\ dataSize' # 0 /\ dataSize' >= dataSize
    BY PushIndices
  <1>1. lastWritten' - 1 = lastWritten % dataSize'
    BY PushIndices, <1>0, SMT DEF IInv, TypeOK
  <1>6. /\ lastWritten' - 1 \in Nat /\ lastWritten' - 1 < dataSize'
        /\ \/ lastRead + size = lastWritten' - 1
           \/ lastRead + size = (lastWritten' - 1) + dataSize'
    BY PushIndices, <1>0 DEF IInv, TypeOK
  <1>2. /\ lastRead' = lastRead /\ size' = size + 1
        /\ dataSize' = dataSize \/ lastRead = 0
        /\ size + 1 <= dataSize'
    BY PushIndices DEF IInv, TypeOK
  <1>7. data' = [i \in 0..dataSize'-1 |->
                   IF i = lastWritten' - 1 THEN v ELSE IF i < dataSize THEN data[i] ELSE Junk]
    BY <1>0, <1>1 DEF Push, Realloc
  <1>3. data' \in Block(dataSize')
    <2>1. \A i \in 0..dataSize-1 : data[i] \in Elem \cup {Junk}
      BY DEF IInv, TypeOK, Block
    <2>2. \A i \in 0..dataSize'-1 : i < dataSize => i \in 0..dataSize-1
      BY <1>0 DEF IInv, TypeOK
    <2> QED
      BY <1>7, <2>1, <2>2 DEF Block
  <1>4. ASSUME NEW k \in 1..size
        PROVE  data'[Slot(k)'] = data[Slot(k)]
    <2>1. Slot(k)' = Slot(k) /\ Slot(k) \in 0..dataSize-1
      BY <1>0, <1>2, RingGrow DEF Slot, IInv, TypeOK, IndexInv
    <2>2. Slot(k)' # lastWritten' - 1
      BY <1>0, <1>6, <1>2, RingWrite DEF Slot, IInv, TypeOK, IndexInv
    <2> QED
      BY <2>1, <2>2, <1>0, <1>7 DEF IInv, TypeOK
  <1>5. Slot(size)' = lastWritten' - 1
    BY <1>0, <1>6, <1>2, RingWrite DEF Slot, IInv, TypeOK, IndexInv
  <1>8. data'[lastWritten' - 1] = v
    BY <1>0, <1>6, <1>7
  <1> QED
    BY <1>3, <1>4, <1>5, <1>8

LEMMA PopSlots ==
  ASSUME IInv, Pop
  PROVE  /\ lastRead' \in 0..dataSize-1
         /\ lastRead' = IF lastRead + 1 = dataSize THEN 0 ELSE lastRead + 1
         /\ \A k \in 1..size-1 : Slot(k)' = Slot(k + 1)
         /\ Slot(1) = lastRead
  <1>1. lastRead + 1 \in 0..dataSize
    BY DEF IInv, TypeOK, IndexInv
  <1>2. lastRead' = IF lastRead + 1 = dataSize THEN 0 ELSE lastRead + 1
    BY <1>1, ModStep DEF Pop, IInv, TypeOK
  <1>3. lastRead' \in Nat /\ lastRead' < dataSize
    BY <1>1, <1>2 DEF IInv, TypeOK
  <1> QED
    BY <1>2, <1>3, RingAdvance DEF Pop, Slot, IInv, TypeOK, IndexInv

LEMMA SlotInBlock ==
  ASSUME IInv, NEW k \in 1..size
  PROVE  Slot(k) \in 0..dataSize-1
  BY DEF Slot, RingSlot, IInv, TypeOK, IndexInv

(***************************************************************************)
(* replaceAll() visits every queued slot when the client keeps Room.       *)
(***************************************************************************)
LEMMA VisitedQueued ==
  ASSUME IInv, Room, NEW k \in 1..size
  PROVE  Slot(k) \in Visited
  BY DEF Slot, RingSlot, Visited, Room, IInv, TypeOK, IndexInv

LEMMA NextIInv == IInv /\ [Next]_vars => IInv'
  <1> SUFFICES ASSUME IInv, [Next]_vars PROVE IInv'
    OBVIOUS
  <1>1. ASSUME Room, NEW v \in Elem, Push(v) PROVE IInv'
    <2>1. TypeOK'
      <3>1. out' = out
        BY <1>1 DEF Push
      <3> QED
        BY <1>1, <3>1, PushIndices, PushSlots DEF IInv, TypeOK
    <2>2. IndexInv'
      BY <1>1, PushIndices DEF IInv, TypeOK, IndexInv
    <2>3. NoJunkQueued'
      <3> SUFFICES ASSUME NEW k \in 1..size' PROVE data'[Slot(k)'] \in Elem
        BY DEF NoJunkQueued
      <3>1. size' = size + 1
        BY <1>1, PushIndices
      <3>2. CASE k \in 1..size
        BY <3>2, <1>1, PushSlots DEF IInv, NoJunkQueued
      <3>3. CASE k = size + 1
        BY <3>1, <3>3, <1>1, PushSlots
      <3> QED
        BY <3>1, <3>2, <3>3 DEF IInv, TypeOK
    <2> QED
      BY <2>1, <2>2, <2>3 DEF IInv
  <1>2. ASSUME Pop PROVE IInv'
    <2>1. TypeOK'
      BY <1>2, PopSlots DEF IInv, TypeOK, IndexInv, Pop, Block
    <2>2. IndexInv'
      BY <1>2, PopSlots DEF IInv, TypeOK, IndexInv, Pop
    <2>3. NoJunkQueued'
      BY <1>2, PopSlots DEF IInv, TypeOK, NoJunkQueued, Pop
    <2> QED
      BY <2>1, <2>2, <2>3 DEF IInv
  <1>3. ASSUME Room, NEW old \in Elem, NEW new \in Elem, ReplaceAll(old, new)
        PROVE  IInv'
    <2>1. TypeOK'
      BY <1>3 DEF ReplaceAll, IInv, TypeOK, Block
    <2>2. IndexInv'
      BY <1>3 DEF ReplaceAll, IInv, TypeOK, IndexInv
    <2>3. NoJunkQueued'
      <3> SUFFICES ASSUME NEW k \in 1..size PROVE data'[Slot(k)] \in Elem
        BY <1>3 DEF NoJunkQueued, ReplaceAll, Slot
      <3> QED
        BY <1>3, SlotInBlock DEF ReplaceAll, IInv, TypeOK, NoJunkQueued
    <2> QED
      BY <2>1, <2>2, <2>3 DEF IInv
  <1>4. CASE UNCHANGED vars
    BY <1>4 DEF vars, IInv, TypeOK, IndexInv, NoJunkQueued, Slot, Block
  <1> QED
    BY <1>1, <1>2, <1>3, <1>4 DEF Next

(***************************************************************************)
(* For every client that keeps Room: the indices of the ring are           *)
(* consistent and every queued slot holds a value some push() wrote.       *)
(***************************************************************************)
THEOREM QueueInv == Spec => [](TypeOK /\ IndexInv /\ NoJunkQueued)
  <1>1. Spec => []IInv
    BY InitIInv, NextIInv, PTL DEF Spec
  <1> QED
    BY <1>1, PTL DEF IInv

(***************************************************************************)
(* The three ways lastRead, lastWritten, _size and dataSize can stand to   *)
(* one another, through every wrap and every doubling of the block.        *)
(***************************************************************************)
THEOREM RingIndices == Spec => []IndexInv
  <1>1. Spec => []IInv
    BY InitIInv, NextIInv, PTL DEF Spec
  <1> QED
    BY <1>1, PTL DEF IInv

-----------------------------------------------------------------------------
(* The ring implements the first-in first-out list.                        *)

LEMMA ContentType ==
  ASSUME IInv
  PROVE  /\ Content \in Seq(Elem)
         /\ Len(Content) = size
         /\ \A k \in 1..size : Content[k] = data[Slot(k)]
  BY DEF Content, IInv, TypeOK, NoJunkQueued

LEMMA PushRefines ==
  ASSUME IInv, IInv', Room, NEW v \in Elem, Push(v)
  PROVE  F!Push(v)
  <1>1. size' = size + 1 /\ out' = out
    BY DEF Push
  <1>2. /\ Content' \in Seq(Elem) /\ Len(Content') = size + 1
        /\ \A k \in 1..size+1 : Content'[k] = data'[Slot(k)']
    BY <1>1 DEF Content, IInv, TypeOK, NoJunkQueued
  <1>3. \A k \in 1..size : Content'[k] = Content[k]
    BY <1>2, ContentType, PushSlots DEF IInv, TypeOK
  <1>4. Content'[size + 1] = v
    BY <1>1, <1>2, PushSlots DEF IInv, TypeOK
  <1>5. Content' = Append(Content, v)
    BY <1>2, <1>3, <1>4, ContentType DEF IInv, TypeOK
  <1> QED
    BY <1>1, <1>5 DEF F!Push

LEMMA PopRefines ==
  ASSUME IInv, IInv', Pop
  PROVE  F!Pop
  <1>1. size' = size - 1 /\ size > 0 /\ data' = data
    BY DEF Pop
  <1>2. /\ Content' \in Seq(Elem) /\ Len(Content') = size - 1
        /\ \A k \in 1..size-1 : Content'[k] = data'[Slot(k)']
    BY <1>1 DEF Content, IInv, TypeOK, NoJunkQueued
  <1>3. \A k \in 1..size-1 : Content'[k] = Content[k + 1]
    BY <1>1, <1>2, ContentType, PopSlots DEF IInv, TypeOK
  <1>4. Content # << >>
    BY <1>1, ContentType DEF IInv, TypeOK
  <1>5. Content' = Tail(Content)
    BY <1>1, <1>2, <1>3, <1>4, ContentType DEF IInv, TypeOK
  <1>6. out' = Head(Content)
    BY <1>1, <1>4, ContentType, PopSlots DEF IInv, TypeOK, Pop
  <1> QED
    BY <1>4, <1>5, <1>6 DEF F!Pop

LEMMA ReplaceAllRefines ==
  ASSUME IInv, IInv', Room, NEW old \in Elem, NEW new \in Elem,
         ReplaceAll(old, new)
  PROVE  F!ReplaceAll(old, new)
  <1>1. size' = size /\ out' = out /\ \A k \in 1..size : Slot(k)' = Slot(k)
    BY DEF ReplaceAll, Slot
  <1>2. \A k \in 1..size : data'[Slot(k)] =
                             IF data[Slot(k)] = old THEN new ELSE data[Slot(k)]
    BY SlotInBlock, VisitedQueued DEF ReplaceAll
  <1>3. Content' = [k \in 1..size |-> data'[Slot(k)']]
    BY <1>1 DEF Content
  <1>4. Content' = [k \in 1..size |-> data'[Slot(k)]]
    BY <1>1, <1>3
  <1>5. F!Substitute(Content, old, new) =
          [k \in 1..size |-> IF Content[k] = old THEN new ELSE Content[k]]
    BY ContentType DEF F!Substitute
  <1>6. Content' = F!Substitute(Content, old, new)
    BY <1>2, <1>4, <1>5, ContentType
  <1> QED
    BY <1>1, <1>6 DEF F!ReplaceAll

(***************************************************************************)
(* Queue<T> used by a client that keeps Room is a first-in first-out list: *)
(* every push(), pop() and replaceAll() is the list operation of the same  *)
(* name on the entries between lastRead and lastWritten.                   *)
(***************************************************************************)
THEOREM QueueIsFifo == Spec => RefinesFifo
  <1>1. Init => F!Init
    BY DEF Init, F!Init, Content
  <1>2. IInv /\ IInv' /\ [Next]_vars => [F!Next]_(F!vars)
    <2> SUFFICES ASSUME IInv, IInv', [Next]_vars PROVE [F!Next]_(F!vars)
      OBVIOUS
    <2>1. ASSUME Room, NEW v \in Elem, Push(v) PROVE F!Next
      BY <2>1, PushRefines DEF F!Next
    <2>2. ASSUME Pop PROVE F!Next
      BY <2>2, PopRefines DEF F!Next
    <2>3. ASSUME Room, NEW old \in Elem, NEW new \in Elem, ReplaceAll(old, new)
          PROVE  F!Next
      BY <2>3, ReplaceAllRefines DEF F!Next
    <2>4. CASE UNCHANGED vars
      BY <2>4 DEF vars, F!vars, Content, Slot
    <2> QED
      BY <2>1, <2>2, <2>3, <2>4 DEF Next
  <1>3. Spec => []IInv
    BY InitIInv, NextIInv, PTL DEF Spec
  <1> QED
    BY <1>1, <1>2, <1>3, PTL DEF Spec, RefinesFifo, F!Spec
=============================================================================
