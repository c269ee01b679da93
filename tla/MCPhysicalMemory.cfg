\* Bytes of 2 bits: three free pages over two of them, runs of one or two pages.
CONSTANTS
    CPUs = {c1, c2}
    Pages = 4
    ByteBits = 2
    BootFree = {1, 2, 3}
    Counts = {1, 2}
    Alignments = {1, 2}
    MaxBlocks = 2
SYMMETRY CPUSymmetry
SPECIFICATION Spec
INVARIANTS BitmapExact Exclusive FirstFit
CHECK_DEADLOCK FALSE
