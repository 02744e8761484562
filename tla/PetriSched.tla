------------------------------ MODULE PetriSched ------------------------------
(***************************************************************************)
(* The Petri-net scheduling core: the resource net (petri_global_net.c),  *)
(* one local net per thread (sched_petri.c), the hierarchical firing that *)
(* couples them, the CPU selection policy and the CPU pin table, driven by *)
(* the kernel's scheduler hooks.                                           *)
(*                                                                         *)
(* The hooks that call into the engine (sched_add, sched_switch,           *)
(* sched_rem in the kernel's scheduler) are not part of this repository:   *)
(* they are modelled from the interface of the spec (on_enqueue,           *)
(* on_dispatch, on_preempt, on_remove) as the kernel-side view of each     *)
(* thread, kst/kwhere.  Every hook runs under the scheduler lock, so each  *)
(* is one atomic step.                                                     *)
(***************************************************************************)
EXTENDS Integers, FiniteSets, ResourceNet

CONSTANTS
    Threads,      \* threads known to the scheduler
    thread0,      \* the bootstrap thread, running on CPU 0 at start
    IdleThread,   \* IdleThread[c]: the idle thread of CPU c
    Pid,          \* Pid[td]: td->td_proc->p_pid
    Affinity,     \* Affinity[td]: the CPUs of td->td_cpuset->cs_mask
    NOCPU,        \* td_lastcpu of a thread that never ran
    GLOBALQ,      \* kernel location of a thread on the global run queue
    PinBeforeSmp  \* the pinning caller may run before SMP bring-up

ASSUME /\ thread0 \in Threads
       /\ IdleThread \in [CPUS -> Threads]
       /\ Pid \in [Threads -> Int]
       /\ Affinity \in [Threads -> SUBSET CPUS]
       /\ PinBeforeSmp \in BOOLEAN

IdleThreads == {IdleThread[c] : c \in CPUS}
Pids == {Pid[td] : td \in Threads}

VARIABLES
    mark,        \* resource_net->mark
    tmark,       \* tmark[td]: td->mark, the thread's local net marking
    frominh,     \* td_frominh
    lastcpu,     \* td_lastcpu
    smp_started, \* the kernel's smp_started
    smp_set,     \* smp_set: START_SMP already fired
    monopolized_cpus_per_proc,
    kst,         \* kernel view of a thread: "canrun", "queued", "chosen", "running"
    kwhere       \* queue (CPU or GLOBALQ) or CPU of a queued/chosen/running thread

vars == << mark, tmark, frominh, lastcpu, smp_started, smp_set,
           monopolized_cpus_per_proc, kst, kwhere >>

-----------------------------------------------------------------------------
(* Engine operations on a state record [m |-> resource mark, tm |-> local  *)
(* marks], so that a hook can fire several transitions in sequence.        *)

\* resource_fire_single_transition: update the resource marking, then fire
\* the corresponding local transition of pt if t is hierarchical
FireSingle(s, pt, t) ==
    LET lt == is_hierarchical(t)
    IN  [m  |-> FireMark(s.m, t),
         tm |-> IF lt # 0
                THEN [s.tm EXCEPT ![pt] = thread_petri_fire(s.tm[pt], lt)]
                ELSE s.tm]

\* mutant: START_SMP fired on every hook after smp_started (smp_set unchecked)
FireNet_refire_smp(s, pt, t) ==
    LET s0 == IF smp_started THEN FireSingle(s, pt, TRAN_START_SMP) ELSE s
    IN  IF transition_is_sensitized(s0.m, t) THEN FireSingle(s0, pt, t) ELSE s0

\* the first step of resource_fire_net: START_SMP, fired once after
\* smp_started
SmpFired(s, pt) ==
    IF ~smp_set /\ smp_started THEN FireSingle(s, pt, TRAN_START_SMP) ELSE s

\* resource_fire_net: fire START_SMP once after smp_started, then fire t if
\* it is sensitized; otherwise log and leave the nets alone
FireNet(s, pt, t) ==
    LET s0 == SmpFired(s, pt)
    IN  IF transition_is_sensitized(s0.m, t) THEN FireSingle(s0, pt, t) ELSE s0

Nets == [m |-> mark, tm |-> tmark]

\* commit the result of a hook's firings
CommitNets(s) ==
    /\ mark' = s.m
    /\ tmark' = s.tm
    /\ smp_set' = (smp_set \/ smp_started)

-----------------------------------------------------------------------------
(* The CPU pin table and the selection policy.                             *)

cpu_available_for_proc(pid, cpu) ==
    monopolized_cpus_per_proc[cpu] \in {pid, -1}

get_monopolized_cpu_by_proc_id(pid) ==
    LET owned == {c \in CPUS : monopolized_cpus_per_proc[c] = pid}
    IN  IF owned = {} THEN -1 ELSE CHOOSE c \in owned : \A d \in owned : c <= d

is_cpu_suspended(c) == mark[PLACE(c, PLACE_SUSPENDED)] > 0

\* the CPUs of the ascending scan whose ADDTOQUEUE may take td
Eligible(td, c) ==
    /\ c \in Affinity[td]
    /\ transition_is_sensitized(mark, TRANSITION(c, TRAN_ADDTOQUEUE))
    /\ cpu_available_for_proc(Pid[td], c)

\* resource_choose_cpu: own pin, then last CPU, then first fit, then global
resource_choose_cpu(td) ==
    LET mc == get_monopolized_cpu_by_proc_id(Pid[td])
        lc == lastcpu[td]
        fit == {c \in CPUS : Eligible(td, c)}
    IN  CASE mc # -1 -> TRANSITION(mc, TRAN_ADDTOQUEUE)
          [] lc # NOCPU /\ Eligible(td, lc) -> TRANSITION(lc, TRAN_ADDTOQUEUE)
          [] fit # {} -> TRANSITION(CHOOSE c \in fit : \A d \in fit : c <= d,
                                    TRAN_ADDTOQUEUE)
          [] OTHER -> TRAN_QUEUE_GLOBAL

\* toggle_pin_cpu_to_proc
TogglePin(pid, cpu, release) ==
    /\ cpu \in 1..(CPU_NUMBER - 1)
    /\ IF release
       THEN monopolized_cpus_per_proc' = [monopolized_cpus_per_proc EXCEPT ![cpu] = -1]
       ELSE /\ cpu_available_for_proc(pid, cpu)
            /\ ~is_cpu_suspended(cpu)
            /\ pid >= 1
            /\ monopolized_cpus_per_proc' = [monopolized_cpus_per_proc EXCEPT ![cpu] = pid]
    /\ UNCHANGED << mark, tmark, frominh, lastcpu, smp_started, smp_set, kst, kwhere >>

\* monopolize_cpu / release_cpu, called by the arbitration timer of the
\* toggle_active_cpu module (PowerController.tla); its first run precedes
\* the first scheduler hook after smp_started only if the module is loaded
\* at boot (SI_SUB_DRIVERS runs before SI_SUB_SMP)
PinCaller(pid, cpu, release) ==
    /\ PinBeforeSmp \/ smp_set
    /\ TogglePin(pid, cpu, release)

-----------------------------------------------------------------------------
Init ==
    /\ mark = InitialResourceMark
    /\ tmark = [td \in Threads |-> IF td = thread0 THEN initial_mark0 ELSE initial_mark]
    /\ frominh = [td \in Threads |-> 0]
    /\ lastcpu = [td \in Threads |-> IF td = thread0 THEN 0 ELSE NOCPU]
    /\ smp_started = FALSE
    /\ smp_set = FALSE
    /\ monopolized_cpus_per_proc = [c \in CPUS |-> -1]
    /\ kst = [td \in Threads |-> IF td = thread0 THEN "running" ELSE "canrun"]
    /\ kwhere = [td \in Threads |-> IF td = thread0 THEN 0 ELSE GLOBALQ]

\* the host finishes SMP bring-up
SmpStart ==
    /\ ~smp_started
    /\ smp_started' = TRUE
    /\ UNCHANGED << mark, tmark, frominh, lastcpu, smp_set,
                    monopolized_cpus_per_proc, kst, kwhere >>

\* a thread sched_add may be called for
CanEnqueue(td) == kst[td] = "canrun" /\ td \notin IdleThreads

\* mutant: the kernel queue is derived from the transition index alone,
\* forgetting that QUEUE_GLOBAL is not a per-CPU transition
EnqueueAt_no_global_case(td, t) ==
    LET woke == IF frominh[td] = 1
                THEN [tmark EXCEPT ![td] = thread_petri_fire(tmark[td], TRAN_WAKEUP)]
                ELSE tmark
    IN  /\ CommitNets(FireNet([m |-> mark, tm |-> woke], td, t))
        /\ frominh' = [frominh EXCEPT ![td] = 0]
        /\ kst' = [kst EXCEPT ![td] = "queued"]
        /\ kwhere' = [kwhere EXCEPT ![td] = t \div CPU_BASE_TRANSITIONS]
        /\ UNCHANGED << lastcpu, smp_started, monopolized_cpus_per_proc >>

\* the rest of on_enqueue once transition t is chosen: wakeup_if_needed,
\* then resource_fire_net(t); the kernel queues td where t says
EnqueueAt(td, t) ==
    LET woke == IF frominh[td] = 1
                THEN [tmark EXCEPT ![td] = thread_petri_fire(tmark[td], TRAN_WAKEUP)]
                ELSE tmark
    IN  /\ CommitNets(FireNet([m |-> mark, tm |-> woke], td, t))
        /\ frominh' = [frominh EXCEPT ![td] = 0]
        /\ kst' = [kst EXCEPT ![td] = "queued"]
        /\ kwhere' = [kwhere EXCEPT ![td] =
                         IF t = TRAN_QUEUE_GLOBAL THEN GLOBALQ
                         ELSE t \div CPU_BASE_TRANSITIONS]
        /\ UNCHANGED << lastcpu, smp_started, monopolized_cpus_per_proc >>

\* on_enqueue (sched_add): resource_choose_cpu, then the firing, all under
\* the scheduler lock
Enqueue(td) ==
    /\ CanEnqueue(td)
    /\ EnqueueAt(td, resource_choose_cpu(td))

CpuBusy(c) == \E td \in Threads : kst[td] \in {"chosen", "running"} /\ kwhere[td] = c

\* a thread the kernel run queues hold for CPU c
QueuedFor(td, c) ==
    /\ kst[td] = "queued"
    /\ \/ kwhere[td] = c
       \/ kwhere[td] = GLOBALQ /\ c \in Affinity[td]

\* on_dispatch, first half (sched_choose): an idle CPU takes a thread from
\* its own queue (UNQUEUE), from the global queue (FROM_GLOBAL_CPU), or its
\* idle thread when nothing is queued for it (EXEC_IDLE); as the engine's
\* contract requires, the hook only takes what the net lets it fire
Pick(c, td) ==
    /\ ~CpuBusy(c)
    /\ c = 0 \/ smp_started
    /\ LET t == CASE kst[td] = "queued" /\ kwhere[td] = c ->
                         TRANSITION(c, TRAN_UNQUEUE)
                  [] QueuedFor(td, c) -> TRANSITION(c, TRAN_FROM_GLOBAL_CPU)
                  [] OTHER -> TRANSITION(c, TRAN_EXEC_IDLE)
       IN  /\ \/ QueuedFor(td, c)
              \/ td = IdleThread[c] /\ \A u \in Threads : ~QueuedFor(u, c)
           /\ transition_is_sensitized(SmpFired(Nets, td).m, t)
           /\ CommitNets(FireNet(Nets, td, t))
    /\ kst' = [kst EXCEPT ![td] = "chosen"]
    /\ kwhere' = [kwhere EXCEPT ![td] = c]
    /\ UNCHANGED << frominh, lastcpu, smp_started, monopolized_cpus_per_proc >>

\* on_dispatch, second half (cpu_switch to the chosen thread): EXEC
Exec(c, td) ==
    /\ kst[td] = "chosen" /\ kwhere[td] = c
    /\ CommitNets(FireNet(Nets, td, TRANSITION(c, TRAN_EXEC)))
    /\ kst' = [kst EXCEPT ![td] = "running"]
    /\ lastcpu' = [lastcpu EXCEPT ![td] = c]
    /\ UNCHANGED << frominh, smp_started, monopolized_cpus_per_proc, kwhere >>

\* on_preempt / on_block (sched_switch): resource_expulse_thread; a
\* voluntary switch (SW_VOL) sets td_frominh; idle threads never block
Expulse(td, vol) ==
    /\ kst[td] = "running"
    /\ vol => td \notin IdleThreads
    /\ LET t == TRANSITION(lastcpu[td], IF vol THEN TRAN_RETURN_VOL ELSE TRAN_RETURN_INVOL)
       IN  CommitNets(FireNet(Nets, td, t))
    /\ frominh' = [frominh EXCEPT ![td] = IF vol THEN 1 ELSE 0]
    /\ kst' = [kst EXCEPT ![td] = "canrun"]
    /\ UNCHANGED << lastcpu, smp_started, monopolized_cpus_per_proc, kwhere >>

\* on_remove (sched_rem): take a queued thread off its run queue
Remove(td) ==
    /\ kst[td] = "queued"
    /\ LET t == IF kwhere[td] = GLOBALQ THEN TRAN_REMOVE_GLOBAL_QUEUE
                ELSE TRANSITION(kwhere[td], TRAN_REMOVE_QUEUE)
       IN  CommitNets(FireNet(Nets, td, t))
    /\ kst' = [kst EXCEPT ![td] = "canrun"]
    /\ UNCHANGED << frominh, lastcpu, smp_started, monopolized_cpus_per_proc, kwhere >>

Next ==
    \/ SmpStart
    \/ \E td \in Threads : Enqueue(td) \/ Remove(td)
    \/ \E td \in Threads, vol \in BOOLEAN : Expulse(td, vol)
    \/ \E c \in CPUS, td \in Threads : Pick(c, td) \/ Exec(c, td)
    \/ \E pid \in Pids, c \in CPUS, rel \in BOOLEAN : PinCaller(pid, c, rel)

Spec == Init /\ [][Next]_vars

-----------------------------------------------------------------------------
(* Properties                                                              *)

TypeOK ==
    /\ mark \in [Places -> Int]
    /\ tmark \in [Threads -> [ThreadPlaces -> Int]]
    /\ frominh \in [Threads -> {0, 1}]
    /\ lastcpu \in [Threads -> CPUS \cup {NOCPU}]
    /\ smp_started \in BOOLEAN /\ smp_set \in BOOLEAN
    /\ monopolized_cpus_per_proc \in [CPUS -> Pids \cup {-1}]
    /\ kst \in [Threads -> {"canrun", "queued", "chosen", "running"}]
    /\ kwhere \in [Threads -> CPUS \cup {GLOBALQ}]

\* No place of the resource net or of any local net ever holds a negative
\* number of tokens: every firing in resource_fire_net is preceded by a
\* sensitization check, except the one-shot START_SMP, guarded by smp_set.
MarkingNonNegative ==
    /\ \A p \in Places : mark[p] >= 0
    /\ \A td \in Threads : \A p \in ThreadPlaces : tmark[td][p] >= 0

\* The local place a thread's token must be in, given where the kernel has
\* it: a thread switched out voluntarily stays INHIBITED until the
\* wakeup_if_needed of its next enqueue.
ExpectedPlace(td) ==
    CASE kst[td] \in {"queued", "chosen"} -> RUNQ
      [] kst[td] = "running" -> RUNNING
      [] OTHER -> IF frominh[td] = 1 THEN INHIBITED ELSE CAN_RUN

Count(P(_)) == Cardinality({td \in Threads : P(td)})

\* Hierarchical consistency: the two levels of nets agree with each other
\* and with the kernel after every hook.  Each local net holds its token in
\* the place of the thread's kernel state; each CPU's QUEUE, TOEXEC and
\* EXECUTING places count the threads the kernel has queued, chosen or
\* running there; the global queue counts the globally queued threads; a
\* CPU holds its CPU token exactly when it is idle.  This fails if any hook
\* fires a resource transition without its local counterpart, if the
\* is_hierarchical table maps a transition wrongly, or if a hook's event is
\* dropped as not sensitized.
NetsTrackKernel ==
    /\ \A td \in Threads :
          tmark[td] = [p \in ThreadPlaces |-> IF p = ExpectedPlace(td) THEN 1 ELSE 0]
    /\ \A c \in CPUS :
          /\ mark[PLACE(c, PLACE_QUEUE)]
                = Count(LAMBDA td : kst[td] = "queued" /\ kwhere[td] = c)
          /\ mark[PLACE(c, PLACE_TOEXEC)]
                = Count(LAMBDA td : kst[td] = "chosen" /\ kwhere[td] = c)
          /\ mark[PLACE(c, PLACE_EXECUTING)]
                = Count(LAMBDA td : kst[td] = "running" /\ kwhere[td] = c)
          /\ mark[PLACE(c, PLACE_CPU)] = IF CpuBusy(c) THEN 0 ELSE 1
    /\ mark[PLACE_GLOBAL_QUEUE]
          = Count(LAMBDA td : kst[td] = "queued" /\ kwhere[td] = GLOBALQ)

\* SMP bootstrap through inhibitor arcs: while SMP_NOT_READY holds its token,
\* every enqueue goes to the global queue (ADDTOQUEUE of every CPU is
\* inhibited) and no CPU other than 0 has taken work from it.
SmpBootstrap ==
    mark[PLACE_SMP_NOT_READY] > 0 =>
        /\ \A c \in CPUS : mark[PLACE(c, PLACE_QUEUE)] = 0
        /\ \A c \in CPUS \ {0} :
              mark[PLACE(c, PLACE_TOEXEC)] + mark[PLACE(c, PLACE_EXECUTING)] = 0

\* Token conservation of the resource net: each CPU's token is in exactly
\* one of CPU (idle), TOEXEC (a thread chosen) and EXECUTING, and the SMP
\* token in exactly one of SMP_NOT_READY and SMP_READY.  Every column of
\* base_resource_matrix preserves these sums, so only a firing that is not
\* a whole column (an update lost between two concurrent writers of
\* resource_net->mark) can break them.
CpuTokensConserved ==
    /\ \A c \in CPUS :
          mark[PLACE(c, PLACE_CPU)] + mark[PLACE(c, PLACE_TOEXEC)]
            + mark[PLACE(c, PLACE_EXECUTING)] = 1
    /\ mark[PLACE_SMP_NOT_READY] + mark[PLACE_SMP_READY] = 1

=============================================================================
