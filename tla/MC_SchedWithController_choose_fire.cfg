CONSTANTS
    CPU_NUMBER = 4
    th0 = th0
    idle0 = idle0
    idle1 = idle1
    idle2 = idle2
    idle3 = idle3
    t2 = t2
    NOCPU = NOCPU
    GLOBALQ = GLOBALQ
    PinBeforeSmp = FALSE
    UnlockedFireLoop = FALSE
    Threads <- MCThreads
    thread0 <- th0
    IdleThread <- MCIdleThread
    Pid <- MCPid
    Affinity <- MCAffinity
    Procs <- MCProcs

SPECIFICATION SysSpec

INVARIANT NetsTrackKernelAtRest
