--------------------------- MODULE PowerController ---------------------------
(***************************************************************************)
(* The load-adaptive power controller of src/sys/stats/toggle_active_cpu.c *)
(* and the CPU on/off and pin operations of petri_global_net.c that it     *)
(* calls.  Each timer callback runs as one atomic step: all four callouts  *)
(* are initialised on the same CPU by init_timer and are run one at a time *)
(* by that CPU's softclock thread.  The telemetry the callbacks read (load *)
(* buckets, the ranked monopolization requests, the idlest CPU) comes from *)
(* the cpu_stats and thread_stats modules and is chosen freely within the  *)
(* values those modules can publish.                                       *)
(*                                                                         *)
(* The module is loaded after boot (kldload), so SMP is ready in the       *)
(* resource net: SUSPEND and WAKEUP are the only transitions fired here.   *)
(***************************************************************************)
EXTENDS Integers, FiniteSets, ResourceNet

CONSTANT Procs              \* pids of processes that may request a CPU
ASSUME Procs \subseteq Nat \ {0}

\* LOAD_IDLE .. LOAD_SEVERE (stats/modlib.h, outside this repository)
LOAD_IDLE == 0
LOAD_LOW == 1
LOAD_NORMAL == 2
LOAD_HIGH == 3
LOAD_INTENSE == 4
LOAD_SEVERE == 5
LoadLevels == LOAD_IDLE..LOAD_SEVERE

\* MOD_LOAD: MAX_TURNED_OFF = (CPU_NUMBER / 2) - 1
MAX_TURNED_OFF == (CPU_NUMBER \div 2) - 1

VARIABLES
    mark,                       \* resource_net->mark
    monopolized_cpus_per_proc,  \* the pin table
    turned_off_cpus,            \* the controller's own record of off CPUs
    cpus_requested,             \* requests counted by the last arbitration
    check,                      \* consecutive low-load samples
    stats_score,                \* blended load score of the last sample
    monopolized                 \* static counter of timer_callback_monopolization

vars == << mark, monopolized_cpus_per_proc, turned_off_cpus, cpus_requested,
           check, stats_score, monopolized >>

is_cpu_suspended(c) == mark[PLACE(c, PLACE_SUSPENDED)] > 0

-----------------------------------------------------------------------------
(* CPU on/off (toggle_active_cpu) and pinning (toggle_pin_cpu_to_proc).    *)

\* toggle_active_cpu(cpu, turn_off): the marking after the call; CPU 0, an
\* out-of-range CPU, SMP not ready or a non-sensitized transition leave it
toggle_active_cpu(m, cpu, turn_off) ==
    LET t == TRANSITION(cpu, IF turn_off THEN TRAN_SUSPEND_PROC ELSE TRAN_WAKEUP_PROC)
    IN  IF /\ cpu \in 1..(CPU_NUMBER - 1)
           /\ m[PLACE_SMP_READY] # 0
           /\ transition_is_sensitized(m, t)
        THEN FireMark(m, t)
        ELSE m

\* monopolize_cpu(pid, cpu) succeeds on this pin table
monopolize_ok(pins, pid, cpu) ==
    /\ cpu \in 1..(CPU_NUMBER - 1)
    /\ pins[cpu] \in {pid, -1}
    /\ ~is_cpu_suspended(cpu)
    /\ pid >= 1

-----------------------------------------------------------------------------
(* Telemetry.                                                              *)

\* get_monopolization_info: the requesting pids sorted by priority, then the
\* unrequested entries (pid -1, prio -1 after thread_stats' first reset);
\* at most CPU_NUMBER - 1 entries are ever requested (slot 0 never is)
Rankings ==
    UNION { { [i \in 1..CPU_NUMBER |-> IF i <= k THEN r[i] ELSE -1] :
                r \in { f \in [1..k -> Procs] :
                          \A i, j \in 1..k : i # j => f[i] # f[j] } } :
            k \in 0..(CPU_NUMBER - 1) }

NRequested(pids) == Cardinality({i \in 1..CPU_NUMBER : pids[i] # -1})

\* timer_callback_stats: the blend of the user load and process-needs scores
StatsScore(user_load, procs_needs) == (user_load * 80 + procs_needs * 20) \div 100

\* get_idlest_cpu: a CPU in 1..CPU_NUMBER-1, or -1 when the statistics are
\* missing or show no idle time; it does not skip CPUs already off
IdlestChoices == (1..(CPU_NUMBER - 1)) \cup {-1}

\* get_n_turned_off / get_off_cpu
get_n_turned_off == Cardinality({c \in CPUS : turned_off_cpus[c]})
get_off_cpu ==
    LET off == {c \in CPUS : turned_off_cpus[c]}
    IN  IF off = {} THEN -1 ELSE CHOOSE c \in off : \A d \in off : c <= d

-----------------------------------------------------------------------------
Init ==
    /\ mark = FireMark(InitialResourceMark, TRAN_START_SMP)
    /\ monopolized_cpus_per_proc = [c \in CPUS |-> -1]
    /\ turned_off_cpus = [c \in CPUS |-> FALSE]
    /\ cpus_requested = 0
    /\ check = 0
    /\ stats_score = 0
    /\ monopolized = 0

\* the grant loop of timer_callback_monopolization over CPUs n .. N-1: the
\* i-th CPU goes to the i-th ranked pid, if it was free in the snapshot
RECURSIVE GrantFrom(_, _, _, _)
GrantFrom(n, pids, cpus, s) ==
    IF n >= CPU_NUMBER THEN s
    ELSE GrantFrom(n + 1, pids, cpus,
            IF /\ cpus[n] = -1
               /\ ~is_cpu_suspended(n)
               /\ s.mono < MAX_TURNED_OFF
               /\ monopolize_ok(s.pins, pids[n], n)
            THEN [pins |-> [s.pins EXCEPT ![n] = pids[n]], mono |-> s.mono + 1]
            ELSE s)

\* mutant: a release does not decrement the static counter
MonopolizationTick_no_decrement(pids) ==
    LET cpus == monopolized_cpus_per_proc
        released == {n \in 1..(CPU_NUMBER - 1) :
                        /\ cpus[n] # -1
                        /\ ~is_cpu_suspended(n)
                        /\ \A j \in 1..CPU_NUMBER : cpus[n] # pids[j]}
        after == [pins |-> [c \in CPUS |-> IF c \in released THEN -1 ELSE cpus[c]],
                  mono |-> monopolized]
        req == NRequested(pids)
        s == IF req > 0 THEN GrantFrom(1, pids, cpus, after) ELSE after
    IN  /\ cpus_requested' = req
        /\ monopolized_cpus_per_proc' = s.pins
        /\ monopolized' = s.mono
        /\ UNCHANGED << mark, turned_off_cpus, check, stats_score >>

\* timer_callback_monopolization: release the pins of CPUs whose owner is
\* no longer ranked (skipping suspended CPUs), then grant free CPUs
MonopolizationTick(pids) ==
    LET cpus == monopolized_cpus_per_proc
        released == {n \in 1..(CPU_NUMBER - 1) :
                        /\ cpus[n] # -1
                        /\ ~is_cpu_suspended(n)
                        /\ \A j \in 1..CPU_NUMBER : cpus[n] # pids[j]}
        after == [pins |-> [c \in CPUS |-> IF c \in released THEN -1 ELSE cpus[c]],
                  mono |-> monopolized - Cardinality(released)]
        req == NRequested(pids)
        s == IF req > 0 THEN GrantFrom(1, pids, cpus, after) ELSE after
    IN  /\ cpus_requested' = req
        /\ monopolized_cpus_per_proc' = s.pins
        /\ monopolized' = s.mono
        /\ UNCHANGED << mark, turned_off_cpus, check, stats_score >>

\* timer_callback_stats
StatsTick(user_load, procs_needs) ==
    /\ stats_score' = StatsScore(user_load, procs_needs)
    /\ UNCHANGED << mark, monopolized_cpus_per_proc, turned_off_cpus,
                    cpus_requested, check, monopolized >>

\* mutant: outstanding requests do not hold back a power-down
TurnOffTick_ignores_requests(idlest) ==
    /\ stats_score < LOAD_NORMAL
    /\ IF check >= 3
       THEN /\ check' = 0
            /\ IF get_n_turned_off < MAX_TURNED_OFF /\ idlest > 0
               THEN /\ mark' = toggle_active_cpu(mark, idlest, TRUE)
                    /\ turned_off_cpus' = [turned_off_cpus EXCEPT ![idlest] = TRUE]
               ELSE UNCHANGED << mark, turned_off_cpus >>
       ELSE /\ check' = check + 1
            /\ UNCHANGED << mark, turned_off_cpus >>
    /\ UNCHANGED << monopolized_cpus_per_proc, cpus_requested, stats_score, monopolized >>

\* mutant: the stability count is not reset on a power-down decision
TurnOffTick_no_reset(idlest) ==
    /\ stats_score < LOAD_NORMAL
    /\ cpus_requested < 1
    /\ check' = check + 1
    /\ IF check >= 3 /\ get_n_turned_off < MAX_TURNED_OFF /\ idlest > 0
       THEN /\ mark' = toggle_active_cpu(mark, idlest, TRUE)
            /\ turned_off_cpus' = [turned_off_cpus EXCEPT ![idlest] = TRUE]
       ELSE UNCHANGED << mark, turned_off_cpus >>
    /\ UNCHANGED << monopolized_cpus_per_proc, cpus_requested, stats_score, monopolized >>

\* timer_callback_turn_off: after enough low-load samples and no request,
\* turn the idlest CPU off if fewer than MAX_TURNED_OFF are off; the CPU is
\* recorded as off whether or not the net accepted the SUSPEND
TurnOffTick(idlest) ==
    /\ stats_score < LOAD_NORMAL
    /\ cpus_requested < 1
    /\ IF check >= 3
       THEN /\ check' = 0
            /\ IF get_n_turned_off < MAX_TURNED_OFF /\ idlest > 0
               THEN /\ mark' = toggle_active_cpu(mark, idlest, TRUE)
                    /\ turned_off_cpus' = [turned_off_cpus EXCEPT ![idlest] = TRUE]
               ELSE UNCHANGED << mark, turned_off_cpus >>
       ELSE /\ check' = check + 1
            /\ UNCHANGED << mark, turned_off_cpus >>
    /\ UNCHANGED << monopolized_cpus_per_proc, cpus_requested, stats_score, monopolized >>

\* timer_callback_turn_on: under load or requests, reset the low-load count
\* and turn the lowest-numbered recorded-off CPU back on
TurnOnTick ==
    /\ stats_score >= LOAD_NORMAL \/ cpus_requested > 0
    /\ check' = 0
    /\ LET off == get_off_cpu
       IN  IF off > 0
           THEN /\ mark' = toggle_active_cpu(mark, off, FALSE)
                /\ turned_off_cpus' = [turned_off_cpus EXCEPT ![off] = FALSE]
           ELSE UNCHANGED << mark, turned_off_cpus >>
    /\ UNCHANGED << monopolized_cpus_per_proc, cpus_requested, stats_score, monopolized >>

Next ==
    \/ \E pids \in Rankings : MonopolizationTick(pids)
    \/ \E u, p \in LoadLevels : StatsTick(u, p)
    \/ \E c \in IdlestChoices : TurnOffTick(c)
    \/ TurnOnTick

\* every callout reschedules itself unconditionally (callout_schedule), so
\* the turn-on timer keeps running
Spec == Init /\ [][Next]_vars /\ WF_vars(TurnOnTick)

-----------------------------------------------------------------------------
(* Properties                                                              *)

TypeOK ==
    /\ mark \in [Places -> Int]
    /\ monopolized_cpus_per_proc \in [CPUS -> Procs \cup {-1}]
    /\ turned_off_cpus \in [CPUS -> BOOLEAN]
    /\ cpus_requested \in 0..(CPU_NUMBER - 1)
    /\ check \in 0..3
    /\ stats_score \in LoadLevels
    /\ monopolized \in Int

SuspendedCpus == {c \in CPUS : is_cpu_suspended(c)}
PinnedCpus == {c \in CPUS : monopolized_cpus_per_proc[c] # -1}

\* At most MAX_TURNED_OFF = CPU_NUMBER/2 - 1 CPUs are ever powered off
\* (the budget timer_callback_turn_off checks with get_n_turned_off).
OffBudget == Cardinality(SuspendedCpus) <= MAX_TURNED_OFF

\* The arbitration's static counter is the number of pinned CPUs, so the
\* grant budget it enforces (monopolized < MAX_TURNED_OFF) really bounds the
\* pin table.
PinBudget ==
    /\ monopolized = Cardinality(PinnedCpus)
    /\ Cardinality(PinnedCpus) <= MAX_TURNED_OFF

\* No CPU is pinned while powered off.  resource_choose_cpu returns a pinned
\* CPU's ADDTOQUEUE without checking it, and SUSPENDED inhibits ADDTOQUEUE,
\* so a pinned suspended CPU makes every enqueue of its owner a dropped
\* protocol violation.  Pinning refuses suspended CPUs but turning off does
\* not look at pins: only the interplay of the three timers keeps them apart.
PinnedNeverSuspended == PinnedCpus \cap SuspendedCpus = {}

\* A process owns at most one CPU: the arbitration grants each ranked
\* requester a CPU of its own.
OnePinPerProcess ==
    \A c, d \in PinnedCpus :
        c # d => monopolized_cpus_per_proc[c] # monopolized_cpus_per_proc[d]

=============================================================================
