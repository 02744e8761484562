CONSTANTS
    CPU_NUMBER = 4
    TickTotals <- MCTickTotals
    MaxNeed = 2
    NULL = NULL

SPECIFICATION Spec

INVARIANT TypeOK
INVARIANT IdlestIsFirstMostIdle
