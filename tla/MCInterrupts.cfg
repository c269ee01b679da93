\* Two CPUs over one user and two kernel threads, sections nested two deep.
\* A panic stops a CPU for good.
SPECIFICATION Spec
CONSTANTS
    CPUs = {c1, c2}
    UserThreads = {u1}
    KernelThreads = {k1, k2}
    NoThread = NoThread
    MaxDepth = 2
SYMMETRY Symmetric
CHECK_DEADLOCK FALSE
INVARIANTS GsMatches FlagMatches LevelCovers RegistersKept
