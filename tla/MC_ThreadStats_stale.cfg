\* An asking pid (1) and a pid without readable metadata (4): enough for a
\* requester to exit while another process keeps the count unchanged.
CONSTANTS
    CPU_NUMBER = 3
    Pids <- MCStalePids
    ImageOf <- MCImageOf
    ReadErrsOf <- MCReadErrsOf
    CUR_PRIO = 40
    PrioOf <- MCPrioOf
SPECIFICATION Spec
PROPERTY StaleRequestsWithdrawn
