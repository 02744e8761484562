\* The instance of MC_ThreadStats.cfg, checking only that a rebuilt table
\* holds requests of asking processes alone: pid 3's image has no sched
\* payload, so get_proc_metadata_sched_info reads monopolize uninitialized.
CONSTANTS
    CPU_NUMBER = 3
    Pids <- MCPids
    ImageOf <- MCImageOf
    ReadErrsOf <- MCReadErrsOf
    CUR_PRIO = 40
    PrioOf <- MCPrioOf
SPECIFICATION Spec
PROPERTY OnlyAskersRequested
