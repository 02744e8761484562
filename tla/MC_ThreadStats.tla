---------------------------- MODULE MC_ThreadStats ----------------------------
EXTENDS ThreadStats, TLC

\* pid 1 runs an image with a binary and a sched payload (monopolize,
\* CRITICAL); pid 2 one with only a sched payload (monopolize, LOWPERF);
\* pid 3 one with only a binary payload, so its monopolize is never set;
\* pid 4 one without a .metadata section, or its exec fails to read the
\* name table; either way it counts as STANDARD.
MCPids == {1, 2, 3, 4}
\* the stale-request run needs only an asking pid and one that takes its
\* place in the process count
MCStalePids == {1, 4}
\* the priority run needs two asking pids, the less important one able to
\* come first in allproc
MCPrioPids == {1, 2}
\* td_priority of each process's thread: pid 2 is more important than pid 1
MCPrioOf == (1 :> 120) @@ (2 :> 100) @@ (3 :> 140) @@ (4 :> 120)
MCBin == [fn |-> 1, mono |-> FALSE, class |-> -1]
MCImageOf ==
    (1 :> [sections |-> << ".text", SECCION_BUSCADA >>,
           payloads |-> << MCBin, [fn |-> 2, mono |-> TRUE, class |-> 3] >>])
 @@ (2 :> [sections |-> << SECCION_BUSCADA >>,
           payloads |-> << [fn |-> 2, mono |-> TRUE, class |-> 0] >>])
 @@ (3 :> [sections |-> << SECCION_BUSCADA, ".text" >>, payloads |-> << MCBin >>])
 @@ (4 :> [sections |-> << ".text" >>,
           payloads |-> << [fn |-> 2, mono |-> TRUE, class |-> 2] >>])
\* the reads that may fail at exec: pid 2's section headers, pid 4's name
\* table (when none fails, pid 4's search finds no .metadata)
MCReadErrsOf == (1 :> {"none"}) @@ (2 :> {"none", "shdrs"}) @@ (3 :> {"none"})
             @@ (4 :> {"none", "strtab"})
=============================================================================
