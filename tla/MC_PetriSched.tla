---------------------------- MODULE MC_PetriSched ----------------------------
(* Two CPUs; thread0 (the bootstrap thread, pid 0), the idle threads of    *)
(* both CPUs (pid 11, as idle in FreeBSD), and two user threads of         *)
(* processes 1 and 2, the second one restricted to CPU 1.                  *)
EXTENDS PetriSched

CONSTANTS th0, idle0, idle1, t1, t2

MCThreads == {th0, idle0, idle1, t1, t2}
MCIdleThread == [c \in {0, 1} |-> IF c = 0 THEN idle0 ELSE idle1]
MCPid == [td \in MCThreads |->
            CASE td = th0 -> 0 [] td = t1 -> 1 [] td = t2 -> 2 [] OTHER -> 11]
MCAffinity == [td \in MCThreads |-> IF td = t2 THEN {1} ELSE {0, 1}]
=============================================================================
