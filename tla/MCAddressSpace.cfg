\* Two processes, two program headers of one or two pages, two stack pages,
\* page tables of two entries: the kernel and the user stack end up in tables
\* of their own.
CONSTANTS
  Proc = {p1, p2}
  NFrames = 15
  Dirs = 2
  Entries = 2
  Headers <- MCHeaders
  StackPages = 2
  HeapPages = 1
  HeapAllocs = 1
  MaxHeaders = 2
  None = None
SPECIFICATION MCSpec
INVARIANTS FrameOnce NothingLost NoUnmapPanic
PROPERTY NoRemap
CHECK_DEADLOCK FALSE
SYMMETRY Processes
