----------------------------- MODULE ResourceNet -----------------------------
(***************************************************************************)
(* The global CPU resource Petri net of src/kern/petri_global_net.c.       *)
(* Places and transitions are the integer indices of the C code: a block   *)
(* of 5 places and 10 transitions per CPU (PLACE(cpu,p), TRANSITION(cpu,t))*)
(* followed by 3 global places and 3 global transitions.  The incidence    *)
(* and inhibition matrices are the ones init_cpu_matrix and                *)
(* init_global_resources build; the marking is a function of the places.   *)
(***************************************************************************)
EXTENDS Integers, LocalNet

CONSTANT CPU_NUMBER          \* mp_ncpus
ASSUME CPU_NUMBER \in Nat \ {0}

CPUS == 0..(CPU_NUMBER - 1)

CPU_BASE_PLACES      == 5
CPU_BASE_TRANSITIONS == 10
PLACE(cpu, p)      == cpu * CPU_BASE_PLACES + p
TRANSITION(cpu, t) == cpu * CPU_BASE_TRANSITIONS + t

\* per-CPU places
PLACE_CPU == 0
PLACE_EXECUTING == 1
PLACE_QUEUE == 2
PLACE_SUSPENDED == 3
PLACE_TOEXEC == 4

\* per-CPU transitions
TRAN_ADDTOQUEUE == 0
TRAN_EXEC == 1
TRAN_EXEC_IDLE == 2
TRAN_FROM_GLOBAL_CPU == 3
TRAN_REMOVE_QUEUE == 4
TRAN_RETURN_INVOL == 5
TRAN_RETURN_VOL == 6
TRAN_SUSPEND_PROC == 7
TRAN_UNQUEUE == 8
TRAN_WAKEUP_PROC == 9

\* init_global_variables
CPU_NUMBER_PLACES        == CPU_BASE_PLACES * CPU_NUMBER + 3
CPU_NUMBER_TRANSITIONS   == CPU_BASE_TRANSITIONS * CPU_NUMBER + 3
PER_CPU_LAST_TRANSITION  == CPU_NUMBER_TRANSITIONS - 3
PLACE_GLOBAL_QUEUE       == CPU_NUMBER_PLACES - 3
PLACE_SMP_NOT_READY      == CPU_NUMBER_PLACES - 2
PLACE_SMP_READY          == CPU_NUMBER_PLACES - 1
TRAN_REMOVE_GLOBAL_QUEUE == CPU_NUMBER_TRANSITIONS - 3
TRAN_START_SMP           == CPU_NUMBER_TRANSITIONS - 2
TRAN_QUEUE_GLOBAL        == CPU_NUMBER_TRANSITIONS - 1

Places      == 0..(CPU_NUMBER_PLACES - 1)
Transitions == 0..(CPU_NUMBER_TRANSITIONS - 1)

\* base_resource_matrix[place][transition]
base_resource_matrix ==
  \*  AD EX EXID FRGL REMQ RETIN RETV SUS UNQ WUP
    << <<  0,  0, -1, -1,  0,  1,  1,  0, -1,  0 >>,   \* CPU
       <<  0,  1,  0,  0,  0, -1, -1,  0,  0,  0 >>,   \* EXEC
       <<  1,  0,  0,  0, -1,  0,  0,  0, -1,  0 >>,   \* Q
       <<  0,  0,  0,  0,  0,  0,  0,  1,  0, -1 >>,   \* SUSD
       <<  0, -1,  1,  1,  0,  0,  0,  0,  1,  0 >> >> \* TOEX

\* base_resource_inhibition_matrix[place][transition]
base_resource_inhibition_matrix ==
    << << 0, 0, 0, 0, 0, 0, 0, 0, 0, 0 >>,
       << 0, 0, 0, 0, 0, 0, 0, 0, 0, 0 >>,
       << 0, 0, 1, 0, 0, 0, 0, 0, 0, 0 >>,
       << 1, 0, 0, 1, 0, 0, 0, 0, 0, 0 >>,
       << 0, 0, 0, 0, 0, 0, 0, 0, 0, 0 >> >>

\* p and t belong to the block of the same CPU
SameCpuBlock(p, t) ==
    p < CPU_BASE_PLACES * CPU_NUMBER /\ t < PER_CPU_LAST_TRANSITION
    /\ p \div CPU_BASE_PLACES = t \div CPU_BASE_TRANSITIONS

\* resource_net->incidence_matrix after init_per_cpu_resources and
\* init_global_resources (zero-filled by M_ZERO elsewhere)
IncidenceOf(p, t) ==
    CASE SameCpuBlock(p, t) ->
            base_resource_matrix[(p % CPU_BASE_PLACES) + 1][(t % CPU_BASE_TRANSITIONS) + 1]
      [] p = PLACE_GLOBAL_QUEUE ->
            IF \/ t = TRAN_REMOVE_GLOBAL_QUEUE
               \/ \E c \in CPUS : t = TRANSITION(c, TRAN_FROM_GLOBAL_CPU)
            THEN -1
            ELSE IF t = TRAN_QUEUE_GLOBAL THEN 1 ELSE 0
      [] p = PLACE_SMP_NOT_READY -> IF t = TRAN_START_SMP THEN -1 ELSE 0
      [] p = PLACE_SMP_READY     -> IF t = TRAN_START_SMP THEN 1 ELSE 0
      [] OTHER -> 0

\* mutant: the SMP_NOT_READY arc on ADDTOQUEUE (line 168) left out
InhibitionOf_no_addq_arc(p, t) ==
    CASE SameCpuBlock(p, t) ->
            base_resource_inhibition_matrix[(p % CPU_BASE_PLACES) + 1][(t % CPU_BASE_TRANSITIONS) + 1]
      [] p = PLACE_SMP_NOT_READY ->
            IF \E c \in CPUS \ {0} :
                    t \in {TRANSITION(c, TRAN_FROM_GLOBAL_CPU), TRANSITION(c, TRAN_EXEC)}
            THEN 1 ELSE 0
      [] OTHER -> 0

\* resource_net->inhibition_matrix: the per-CPU template plus the arcs from
\* SMP_NOT_READY (ADDTOQUEUE of every CPU, EXEC and FROM_GLOBAL_CPU of CPUs > 0)
InhibitionOf(p, t) ==
    CASE SameCpuBlock(p, t) ->
            base_resource_inhibition_matrix[(p % CPU_BASE_PLACES) + 1][(t % CPU_BASE_TRANSITIONS) + 1]
      [] p = PLACE_SMP_NOT_READY ->
            IF \/ \E c \in CPUS \ {0} :
                    t \in {TRANSITION(c, TRAN_FROM_GLOBAL_CPU), TRANSITION(c, TRAN_EXEC)}
               \/ \E c \in CPUS : t = TRANSITION(c, TRAN_ADDTOQUEUE)
            THEN 1 ELSE 0
      [] OTHER -> 0

resource_incidence_matrix  == [p \in Places, t \in Transitions |-> IncidenceOf(p, t)]
resource_inhibition_matrix == [p \in Places, t \in Transitions |-> InhibitionOf(p, t)]

\* init_cpu_mark and init_global_resources: CPU 0 executing, the other
\* CPUs available, one token in SMP_NOT_READY
InitialResourceMark ==
    [p \in Places |->
        IF \/ p = PLACE(0, PLACE_EXECUTING)
           \/ \E c \in CPUS \ {0} : p = PLACE(c, PLACE_CPU)
           \/ p = PLACE_SMP_NOT_READY
        THEN 1 ELSE 0]

\* is_inhibited
is_inhibited(mark, p, t) == resource_inhibition_matrix[p, t] = 1 /\ mark[p] > 0

\* transition_is_sensitized
transition_is_sensitized(mark, t) ==
    \A p \in Places :
        /\ resource_incidence_matrix[p, t] < 0 => resource_incidence_matrix[p, t] + mark[p] >= 0
        /\ ~is_inhibited(mark, p, t)

\* the marking update of resource_fire_single_transition
FireMark(mark, t) == [p \in Places |-> mark[p] + resource_incidence_matrix[p, t]]

\* hierarchical_transitions after init_global_resources, and
\* hierarchical_corresponse (local-net transition indices)
hierarchical_transitions ==
    << TRAN_ADDTOQUEUE, TRAN_EXEC, TRAN_EXEC_IDLE, TRAN_RETURN_INVOL,
       TRAN_RETURN_VOL, TRAN_REMOVE_QUEUE, TRAN_QUEUE_GLOBAL,
       TRAN_REMOVE_GLOBAL_QUEUE >>
hierarchical_corresponse ==
    << TRAN_ON_QUEUE, TRAN_SET_RUNNING, TRAN_ON_QUEUE, TRAN_SWITCH_OUT,
       TRAN_TO_WAIT_CHANNEL, TRAN_REMOVE, TRAN_ON_QUEUE, TRAN_REMOVE >>

\* mutant: the modulo match applied to the global transitions too
HierMatch_any_modulo(t, i) ==
    \/ t = hierarchical_transitions[i]
    \/ t % CPU_BASE_TRANSITIONS = hierarchical_transitions[i]

\* is_hierarchical: the first entry matching t exactly, or (for a per-CPU
\* transition) matching t modulo CPU_BASE_TRANSITIONS; 0 when none does
HierMatch(t, i) ==
    \/ t = hierarchical_transitions[i]
    \/ /\ t < TRAN_REMOVE_GLOBAL_QUEUE
       /\ t % CPU_BASE_TRANSITIONS = hierarchical_transitions[i]

is_hierarchical(t) ==
    LET hits == {i \in 1..8 : HierMatch(t, i)}
    IN  IF hits = {} THEN 0
        ELSE hierarchical_corresponse[CHOOSE i \in hits : \A j \in hits : i <= j]
=============================================================================
