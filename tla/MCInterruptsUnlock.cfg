\* One CPU with one thread of each kind.
SPECIFICATION Spec
CONSTANTS
    CPUs = {c1}
    UserThreads = {u1}
    KernelThreads = {k1}
    NoThread = NoThread
    MaxDepth = 1
CHECK_DEADLOCK FALSE
PROPERTY UnlockEnables
