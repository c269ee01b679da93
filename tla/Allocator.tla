------------------------------ MODULE Allocator ------------------------------
(***************************************************************************)
(* What the kernel heap promises the callers of kmalloc(), krealloc() and  *)
(* kfree(): aligned blocks of at least the requested size that share no    *)
(* byte.  A request may fail; a block changes only on its owner's call.    *)
(***************************************************************************)
EXTENDS Naturals

CONSTANTS Region,     \* addresses of the heap
          Alignment,  \* ALIGNMENT of liballoc
          Requests    \* sizes asked for

VARIABLE live         \* blocks handed out: [ptr, len]

Bytes(b) == b.ptr .. b.ptr + b.len - 1

Init == live = {}

\* One new block, clear of the others.
Allocate ==
    \E b \in live' \ live :
        /\ b.len \in Requests
        /\ b.ptr % Alignment = 0
        /\ Bytes(b) \subseteq Region
        /\ live' = live \cup {b}
        /\ \A c \in live : b.ptr # c.ptr /\ Bytes(b) \cap Bytes(c) = {}

\* krealloc() to a smaller size keeps the block where it is.
Shrink ==
    \E b \in live \ live', c \in live' \ live :
        /\ b.ptr = c.ptr /\ c.len < b.len
        /\ live' = (live \ {b}) \cup {c}

Release == \E b \in live \ live' : live' = live \ {b}

Next == Allocate \/ Shrink \/ Release

Spec == Init /\ [][Next]_live
=============================================================================
