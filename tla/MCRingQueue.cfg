\* Two values, a block of two slots that may double twice.
CONSTANTS
  Elem = {a, b}
  Junk = Junk
  InitialSize = 2
  MaxDataSize = 8
SPECIFICATION MCSpec
INVARIANTS IndexInv NoJunkQueued
PROPERTY RefinesFifo
