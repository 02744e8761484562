CONSTANTS
    CPU_NUMBER = 2
    th0 = th0
    idle0 = idle0
    idle1 = idle1
    t1 = t1
    t2 = t2
    NOCPU = NOCPU
    GLOBALQ = GLOBALQ
    PinBeforeSmp = FALSE
    Threads <- MCThreads
    thread0 <- th0
    IdleThread <- MCIdleThread
    Pid <- MCPid
    Affinity <- MCAffinity

SPECIFICATION Spec

INVARIANT TypeOK
INVARIANT MarkingNonNegative
INVARIANT NetsTrackKernel
INVARIANT SmpBootstrap
