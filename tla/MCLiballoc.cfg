\* A major is one page of 16 bytes, with room for a small block, or two pages, for
\* blocks of 7 or 14 bytes; four pages are exhausted by three majors.
CONSTANTS
    Threads = {t1, t2}
    HeapPages = 4
    PageSize = 16
    PageCount = 1
    MajorSize = 3
    MinorSize = 3
    Alignment = 2
    AlignInfo = 2
    Requests = {0, 7}
    MaxHeld = 4
    MaxCalls = 1
    MaxShared = 1
SYMMETRY ThreadSymmetry
SPECIFICATION Spec
INVARIANTS ListsSound Accounting HeldIsLive ReallocSound
PROPERTIES GrowsOnlyWhenFull ImplementsAllocator
CHECK_DEADLOCK FALSE
