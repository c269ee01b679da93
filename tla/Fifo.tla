-------------------------------- MODULE Fifo --------------------------------
(***************************************************************************)
(* What the kernel's Queue<T> (include/lib/queue.h) promises its clients:  *)
(* a first-in first-out list whose entries replaceAll() rewrites in place. *)
(* The run queues CPU::threads and CPU::threadsToDestroy rely on it.       *)
(***************************************************************************)
EXTENDS Sequences, Naturals

CONSTANTS Elem,     \* the values of type T (Thread pointers in the kernel)
          NoElem    \* what "out" holds before the first pop()

VARIABLES content,  \* the queued values, oldest first
          out       \* the value the last pop() returned

vars == <<content, out>>

Init == /\ content = << >>
        /\ out = NoElem

Push(v) == /\ content' = Append(content, v)
           /\ UNCHANGED out

Pop == /\ content # << >>
       /\ content' = Tail(content)
       /\ out' = Head(content)

\* The entries of s with every old replaced by new.
Substitute(s, old, new) ==
  [k \in 1..Len(s) |-> IF s[k] = old THEN new ELSE s[k]]

ReplaceAll(old, new) == /\ content' = Substitute(content, old, new)
                        /\ UNCHANGED out

Next == \/ \E v \in Elem : Push(v)
        \/ Pop
        \/ \E old, new \in Elem : ReplaceAll(old, new)

Spec == Init /\ [][Next]_vars
=============================================================================
