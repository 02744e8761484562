------------------------------ MODULE LocalNet ------------------------------
(***************************************************************************)
(* The per-thread local Petri net of src/kern/sched_petri.c: five places   *)
(* and seven transitions with a fixed incidence matrix and no inhibitor    *)
(* arcs.  Places and transitions are the integer indices the C code uses.  *)
(* Indices of the transitions follow thread_transitions_names; the         *)
(* TRAN_* macros themselves live in sys/proc.h, outside this repository.  *)
(***************************************************************************)
EXTENDS Integers

\* places: INACTIVE, CAN_RUN, RUNQ, RUNNING, INHIBITED
INACTIVE  == 0
CAN_RUN   == 1
RUNQ      == 2
RUNNING   == 3
INHIBITED == 4
ThreadPlaces == 0..4

\* transitions, in the order of thread_transitions_names
TRAN_INIT            == 0
TRAN_ON_QUEUE        == 1
TRAN_SET_RUNNING     == 2
TRAN_SWITCH_OUT      == 3
TRAN_TO_WAIT_CHANNEL == 4
TRAN_WAKEUP          == 5
TRAN_REMOVE          == 6
ThreadTransitions == 0..6

\* incidence_matrix[place][transition]
incidence_matrix ==
    << << -1,  0,  0,  0,  0,  0,  0 >>,
       <<  1, -1,  0,  1,  0,  1,  1 >>,
       <<  0,  1, -1,  0,  0,  0, -1 >>,
       <<  0,  0,  1, -1, -1,  0,  0 >>,
       <<  0,  0,  0,  0,  1, -1,  0 >> >>

ThreadIncidence(p, t) == incidence_matrix[p + 1][t + 1]

\* init_petri_thread: a new thread holds its token in CAN_RUN
initial_mark  == [p \in ThreadPlaces |-> IF p = CAN_RUN THEN 1 ELSE 0]
\* init_petri_thread0: thread0 is already RUNNING
initial_mark0 == [p \in ThreadPlaces |-> IF p = RUNNING THEN 1 ELSE 0]

\* thread_transition_is_sensitized: no place may go negative
thread_transition_is_sensitized(m, t) ==
    \A p \in ThreadPlaces :
        ThreadIncidence(p, t) < 0 => ThreadIncidence(p, t) + m[p] >= 0

\* thread_petri_fire: fire if sensitized, otherwise log and leave m alone
thread_petri_fire(m, t) ==
    IF thread_transition_is_sensitized(m, t)
    THEN [p \in ThreadPlaces |-> m[p] + ThreadIncidence(p, t)]
    ELSE m

\* the place holding a thread's token (the nets here hold exactly one)
PlaceOf(m) == CHOOSE p \in ThreadPlaces : m[p] > 0
=============================================================================
