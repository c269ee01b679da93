------------------------------ MODULE RingQueue ------------------------------
(***************************************************************************)
(* Queue<T> of include/lib/queue.h: a ring buffer in a heap block that     *)
(* push() doubles when it is full.  The block grows with krealloc() alone: *)
(* nothing is moved, so the ring survives growth only when it does not     *)
(* wrap around the end of the old block.                                   *)
(*                                                                         *)
(* Names follow the source; "size" is the member _size, "data" the block   *)
(* _data, a function on the indices of the block.                          *)
(***************************************************************************)
EXTENDS Integers, Sequences

CONSTANTS Elem,        \* the values of type T
          Junk,        \* what a slot of the block holds before it is written
          InitialSize  \* dataSize after the constructor and init()'s realloc()

ASSUME JunkAssumption == Junk \notin Elem
ASSUME SizeAssumption == InitialSize \in Nat \ {0}

VARIABLES data, size, dataSize, lastRead, lastWritten,
          out          \* the value the last pop() returned, Junk at first

vars == <<data, size, dataSize, lastRead, lastWritten, out>>

Block(n) == [0..n-1 -> Elem \cup {Junk}]

TypeOK == /\ dataSize \in Nat \ {0}
          /\ data \in Block(dataSize)
          /\ size \in Nat
          /\ lastRead \in Nat
          /\ lastWritten \in Nat
          /\ out \in Elem \cup {Junk}

-----------------------------------------------------------------------------
(* The operations of the class.                                            *)

\* Queue() or Queue(n), followed by the realloc() of Scheduler::init().
Init == /\ dataSize = InitialSize
        /\ data = [i \in 0..InitialSize-1 |-> Junk]
        /\ size = 0
        /\ lastRead = 0
        /\ lastWritten = 0
        /\ out = Junk

\* Mutant: a fresh block is allocated and the old bytes are not copied.
ReallocFresh(n) == IF n = dataSize THEN data ELSE [i \in 0..n-1 |-> Junk]

\* krealloc() keeps the old bytes in place; the new ones are whatever the
\* heap block holds.
Realloc(n) == [i \in 0..n-1 |-> IF i < dataSize THEN data[i] ELSE Junk]

\* dataSize after the growth check at the head of push().
Grown == IF size >= dataSize
         THEN IF dataSize # 0 THEN dataSize * 2 ELSE 1
         ELSE dataSize

Push(v) ==
  LET n == Grown
      w == lastWritten % n
  IN /\ dataSize' = n
     /\ data' = [Realloc(n) EXCEPT ![w] = v]
     /\ lastWritten' = w + 1
     /\ size' = size + 1
     /\ UNCHANGED <<lastRead, out>>

\* Mutant: pop() without the modulo.
PopNoWrap ==
  /\ size > 0
  /\ out' = data[lastRead]
  /\ lastRead' = lastRead + 1
  /\ size' = size - 1
  /\ UNCHANGED <<data, dataSize, lastWritten>>

\* front() asserts _size > 0: callers test empty() first.
Pop ==
  /\ size > 0
  /\ out' = data[lastRead]
  /\ lastRead' = (lastRead + 1) % dataSize
  /\ size' = size - 1
  /\ UNCHANGED <<data, dataSize, lastWritten>>

\* Mutant: replaceAll() stops at the end of the block.
VisitedNoWrap ==
  {i \in 0..dataSize-1 : /\ lastRead <= i
                         /\ lastRead <= lastWritten => i < lastWritten}

\* The slots replaceAll() visits: from lastRead up to lastWritten, going
\* round at the end of the block.  It visits none when the two coincide.
Visited ==
  {i \in 0..dataSize-1 : IF lastRead <= lastWritten
                         THEN lastRead <= i /\ i < lastWritten
                         ELSE lastRead <= i \/ i < lastWritten}

ReplaceAll(old, new) ==
  /\ data' = [i \in 0..dataSize-1 |->
                IF i \in Visited /\ data[i] = old THEN new ELSE data[i]]
  /\ UNCHANGED <<size, dataSize, lastRead, lastWritten, out>>

-----------------------------------------------------------------------------
(* The client leaves a full ring alone while it wraps (lastRead # 0), where *)
(* realloc() would open the ring in the middle: a run queue of 1024 slots   *)
(* meets that as long as fewer threads exist.                               *)

Room == size < dataSize \/ lastRead = 0

Next == \/ Room /\ \E v \in Elem : Push(v)
        \/ Pop
        \/ Room /\ \E old, new \in Elem : ReplaceAll(old, new)

Spec == Init /\ [][Next]_vars

-----------------------------------------------------------------------------
(* Properties.                                                             *)

\* The k-th slot counted from slot r round a block of n slots, the slot of
\* the k-th oldest entry, and the entries in queue order.
RingSlot(r, k, n) == IF r + k - 1 < n THEN r + k - 1 ELSE r + k - 1 - n

Slot(k) == RingSlot(lastRead, k, dataSize)

Content == [k \in 1..size |-> data[Slot(k)]]

\* The three counters push() and pop() update independently always describe
\* one run of size slots starting at lastRead and ending before lastWritten,
\* counted round the block, and lastWritten is left one past the end of the
\* block (push() wraps it only on the next call).
IndexInv == /\ lastRead < dataSize
            /\ size <= dataSize
            /\ lastWritten <= dataSize
            /\ size > 0 => lastWritten > 0
            /\ \/ lastRead + size = lastWritten
               \/ lastRead + size = lastWritten + dataSize
               \/ lastRead + size = lastWritten - dataSize

\* Every slot between the two indices was written by some push(): the
\* assert(thread) after pop() (scheduler.cpp:233,253) rests on it.
NoJunkQueued == \A k \in 1..size : data[Slot(k)] \in Elem

\* The ring buffer behaves as a first-in first-out list for a client that
\* keeps Room: push() appends, pop() returns the oldest entry, replaceAll()
\* substitutes in every entry, and growing loses or reorders nothing.
F == INSTANCE Fifo WITH content <- Content, NoElem <- Junk

RefinesFifo == F!Spec
=============================================================================
