--------------------------- MODULE MCAddressSpace ---------------------------
(* AddressSpace for TLC: processes as interchangeable model values, and at *)
(* most HeapAllocs pages taken by the heap and MaxHeaders program headers  *)
(* loaded in a behaviour.                                                  *)
EXTENDS AddressSpace, TLC

CONSTANTS HeapAllocs, MaxHeaders
VARIABLES taken, mapped

Processes == Permutations(Proc)

\* A page, and two pages of which it is the second.
MCHeaders == {<<1, 1>>, <<0, 2>>}

MCInit == Init /\ taken = 0 /\ mapped = 0
MCNext == /\ Next
          /\ taken' = taken + Cardinality({i \in DOMAIN heap :
                                             heap[i] = None /\ heap'[i] # None})
          /\ taken' <= HeapAllocs
          /\ mapped' = mapped + (IF loader = Idle /\ loader' # Idle /\ loader'.do = "mapSegment"
                                 THEN 1 ELSE 0)
          /\ mapped' <= MaxHeaders
MCSpec == MCInit /\ [][MCNext]_<<vars, taken, mapped>>
=============================================================================
