\* Three CPUs give two request slots for three possible requesters (two
\* asking, one with monopolize unset), so the scan meets both a free slot
\* and a full table.  Every request gets CUR_PRIO,
\* whatever its value.
CONSTANTS
    CPU_NUMBER = 3
    Pids <- MCPids
    ImageOf <- MCImageOf
    ReadErrsOf <- MCReadErrsOf
    CUR_PRIO = 40
    PrioOf <- MCPrioOf
SPECIFICATION Spec
INVARIANT TypeOK
INVARIANT FeedFitsController
INVARIANT ReaderCleansUp
PROPERTY AdmitsAllWhenRoom
