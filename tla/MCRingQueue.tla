----------------------------- MODULE MCRingQueue -----------------------------
(* RingQueue for TLC: a block of at most MaxDataSize slots.                *)
EXTENDS RingQueue

CONSTANT MaxDataSize

ASSUME MaxDataSize \in Nat /\ MaxDataSize >= 2 * InitialSize

MCNext == Next /\ dataSize' <= MaxDataSize
MCSpec == Init /\ [][MCNext]_vars
=============================================================================
