\* Two asking pids and one request slot: pid 2 is the more important, and
\* either may come first in allproc.
CONSTANTS
    CPU_NUMBER = 2
    Pids <- MCPrioPids
    ImageOf <- MCImageOf
    ReadErrsOf <- MCReadErrsOf
    CUR_PRIO = 40
    PrioOf <- MCPrioOf
SPECIFICATION Spec
PROPERTY RequestsRankedByPriority
