------------------------------ MODULE LoadScore ------------------------------
(***************************************************************************)
(* The load scoring of toggle_active_cpu.c: the functions that turn the    *)
(* telemetry snapshots (obtain_stats of kern.sched.stats.cpu_stats and     *)
(* .threads_stats) into the two load levels of timer_callback_stats and    *)
(* into the idlest CPU of timer_callback_turn_off.  PowerController takes  *)
(* their results as inputs over LoadLevels and IdlestChoices; this module  *)
(* computes them.                                                          *)
(*                                                                         *)
(* A snapshot of cpu_stats holds, per CPU, the CP_USER and CP_IDLE tick    *)
(* deltas and delta_total.  The initial state fixes the telemetry of one  *)
(* period; the callouts then read it.  obtain_stats tests the result of    *)
(* kernel_sysctlbyname against -1, but that function returns an errno, so  *)
(* it never returns NULL: a failed sysctl (the stats module not loaded)    *)
(* hands back its zero-filled buffer.  The NULL branches of the callers    *)
(* are kept as the code has them, and are dead; the zero snapshots are in  *)
(* CpuSnaps (when 0 is a tick total) and NeedSnaps.                        *)
(***************************************************************************)
EXTENDS Integers, FiniteSets, FiniteSetsExt, Functions

CONSTANTS
    CPU_NUMBER,   \* at least 2: get_idlest_cpu reads cpus_idle_pct[1]
    TickTotals,   \* values of delta_total a snapshot may hold
    MaxNeed,      \* largest count of processes in one need class
    NULL          \* the NULL the callers test for (a model value)

CPUS == 0..(CPU_NUMBER - 1)

\* LOAD_IDLE .. LOAD_SEVERE (stats/modlib.h, outside this repository)
LOAD_IDLE == 0
LOAD_NORMAL == 2
LOAD_SEVERE == 5
LoadLevels == LOAD_IDLE..LOAD_SEVERE

\* PROC_LOWPERF, PROC_STANDARD, PROC_HIGHPERF, PROC_CRITICAL
Needs == 0..3
MAX_SCORE_BY_TYPE == [n \in Needs |-> << 30, 50, 94, 100 >>[n + 1]]
MAX_TURNED_OFF == (CPU_NUMBER \div 2) - 1

\* the other tick categories (nice, sys, intr) are left at 0
TickSample == UNION {{[user |-> u, idle |-> t - u, total |-> t] : u \in 0..t} : t \in TickTotals}
CpuSnaps == [CPUS -> TickSample]
NeedSnaps == [Needs -> 0..MaxNeed]
\* turned_off_cpus as the controller can leave it: CPU 0 never, at most
\* MAX_TURNED_OFF flags
OffFlags == {f \in [CPUS -> BOOLEAN] :
                ~f[0] /\ Cardinality({c \in CPUS : f[c]}) <= MAX_TURNED_OFF}

imin(a, b) == IF a < b THEN a ELSE b

\* calc_load_score
calc_load_score(score) ==
    CASE score < 30 -> LOAD_IDLE
      [] score < 45 -> 1
      [] score < 75 -> LOAD_NORMAL
      [] score < 85 -> 3
      [] score < 98 -> 4
      [] OTHER      -> LOAD_SEVERE

\* the per-CPU percentage, delta[cat] * 100 / delta_total
pct(delta, total) == (delta * 100) \div total

\* get_user_load: the levels of all CPUs, summed, divided by the CPUs not
\* flagged off, capped at LOAD_SEVERE; LOAD_NORMAL when the sysctl fails
get_user_load(snap, off) ==
    IF snap = NULL THEN LOAD_NORMAL
    ELSE LET load(i) == calc_load_score(IF snap[i].total <= 0 THEN 0 ELSE pct(snap[i].user, snap[i].total))
             on_cpus == CPU_NUMBER - Cardinality({i \in CPUS : off[i]})
         IN  imin(SumFunction([i \in CPUS |-> load(i)]) \div on_cpus, LOAD_SEVERE)

processes_need_score_raw(v) ==
    LET total == SumFunction(v) + 1
    IN  SumFunction([n \in Needs |-> ((v[n] * 100) \div total) * MAX_SCORE_BY_TYPE[n]]) \div 100

\* processes_need_score: each class's share of the processes (plus the idle
\* process), truncated to a percentage, weighted by MAX_SCORE_BY_TYPE;
\* total_procs is at least 1, so its -1 branch is dead
processes_need_score(v) ==
    LET total == SumFunction(v) + 1
    IN  calc_load_score(SumFunction([n \in Needs |->
                          ((v[n] * 100) \div total) * MAX_SCORE_BY_TYPE[n]]) \div 100)

\* get_procs_needs
get_procs_needs(snap) ==
    IF snap = NULL THEN LOAD_NORMAL ELSE processes_need_score(snap)

\* cpus_idle_pct[i] of get_idlest_cpu
idle_pct(snap, i) == pct(snap[i].idle, snap[i].total)

\* the loop of get_idlest_cpu from CPU i on, best the index found so far
RECURSIVE IdlestFrom_ge(_, _, _)
IdlestFrom_ge(snap, i, best) ==
    IF i >= CPU_NUMBER THEN best
    ELSE IdlestFrom_ge(snap, i + 1, IF idle_pct(snap, i) >= idle_pct(snap, best) THEN i ELSE best)

RECURSIVE IdlestFrom(_, _, _)
IdlestFrom(snap, i, best) ==
    IF i >= CPU_NUMBER THEN best
    ELSE IdlestFrom(snap, i + 1, IF idle_pct(snap, i) > idle_pct(snap, best) THEN i ELSE best)

\* get_idlest_cpu: -1 when the sysctl fails or a CPU has no ticks; else the
\* first CPU of 1..N-1 with the largest idle percentage, or -1 when that is 0
get_idlest_cpu(snap) ==
    IF snap = NULL \/ \E i \in CPUS : snap[i].total <= 0 THEN -1
    ELSE LET best == IdlestFrom(snap, 2, 1)
         IN  IF idle_pct(snap, best) = 0 THEN -1 ELSE best

VARIABLES
    last,          \* the callout that ran last: "none", "stats", "idlest"
    cpu_snap,      \* what obtain_stats("cpu_stats") returns
    thr_snap,      \* what obtain_stats("threads_stats") returns
    off,           \* turned_off_cpus
    stats_score,   \* toggle_active_cpu.c: stats_score
    idlest         \* the result of get_idlest_cpu

vars == << last, cpu_snap, thr_snap, off, stats_score, idlest >>

Init ==
    /\ last = "none"
    /\ cpu_snap \in CpuSnaps
    /\ thr_snap \in NeedSnaps
    /\ off \in OffFlags
    /\ stats_score = 0
    /\ idlest = -1

\* timer_callback_stats
StatsCallout ==
    /\ last' = "stats"
    /\ stats_score' = (get_user_load(cpu_snap, off) * 80 + get_procs_needs(thr_snap) * 20) \div 100
    /\ UNCHANGED << cpu_snap, thr_snap, off, idlest >>

\* get_idlest_cpu, as timer_callback_turn_off calls it
IdlestQuery ==
    /\ last' = "idlest"
    /\ idlest' = get_idlest_cpu(cpu_snap)
    /\ UNCHANGED << cpu_snap, thr_snap, off, stats_score >>

Next == StatsCallout \/ IdlestQuery

Spec == Init /\ [][Next]_vars

-----------------------------------------------------------------------------
(* Properties                                                              *)

\* Every variable keeps its type: the score timer_callback_stats stores is a
\* load level and get_idlest_cpu returns a CPU or -1.
TypeOK ==
    /\ last \in {"none", "stats", "idlest"}
    /\ cpu_snap \in CpuSnaps
    /\ thr_snap \in NeedSnaps
    /\ off \in OffFlags
    /\ stats_score \in LoadLevels
    /\ idlest \in CPUS \cup {-1}

\* get_idlest_cpu's loop returns the lowest-numbered CPU among 1..N-1 with
\* the largest idle percentage, and -1 when that percentage is 0.
IdlestIsFirstMostIdle ==
    last = "idlest" /\ (\A i \in CPUS : cpu_snap[i].total > 0) =>
        LET cand == 1..(CPU_NUMBER - 1)
            top  == Max({idle_pct(cpu_snap, c) : c \in cand})
        IN  idlest = IF top = 0 THEN -1
                     ELSE Min({c \in cand : idle_pct(cpu_snap, c) = top})
=============================================================================
