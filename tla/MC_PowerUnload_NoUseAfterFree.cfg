CONSTANTS
    CPU_NUMBER = 4
    Procs <- MCProcs

SPECIFICATION USpec

INVARIANT NoUseAfterFree

\* after MOD_UNLOAD has drained every callout nothing runs any more
CHECK_DEADLOCK FALSE
