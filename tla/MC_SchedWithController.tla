------------------------ MODULE MC_SchedWithController ------------------------
(* Four CPUs (the smallest count with a power-off budget, N/2-1 = 1); the   *)
(* bootstrap thread, the four idle threads and one user thread of process  *)
(* 2 restricted to CPU 1.  No process requests a CPU.                      *)
EXTENDS SchedWithController

CONSTANTS th0, idle0, idle1, idle2, idle3, t2

MCThreads == {th0, idle0, idle1, idle2, idle3, t2}
MCIdleThread == [c \in 0..3 |-> CASE c = 0 -> idle0 [] c = 1 -> idle1 [] c = 2 -> idle2 [] OTHER -> idle3]
MCPid == [td \in MCThreads |-> CASE td = th0 -> 0 [] td = t2 -> 2 [] OTHER -> 11]
MCAffinity == [td \in MCThreads |-> IF td = t2 THEN {1} ELSE 0..3]
MCProcs == {}
=============================================================================
