------------------------ MODULE SchedWithController ------------------------
(***************************************************************************)
(* The scheduling core (PetriSched) and the power controller               *)
(* (PowerController) sharing the resource net and the pin table.           *)
(*                                                                         *)
(* The scheduler hooks run under the scheduler lock.  The controller's     *)
(* callouts run on the softclock thread and take no lock when they fire    *)
(* SUSPEND/WAKEUP through toggle_active_cpu or change the pin table.  So   *)
(* a callout can run inside a hook, and two windows are modelled:          *)
(*  - sched_add chooses its transition (resource_choose_cpu, which checks  *)
(*    it is sensitized) and fires it (resource_fire_net) in two steps; a   *)
(*    callout may run between them;                                        *)
(*  - with UnlockedFireLoop, the callout's firing loop                     *)
(*    (resource_fire_single_transition: mark[p] += incidence for every     *)
(*    place p) may be interrupted after reading some place p and write its *)
(*    stale value back after hooks have run (`stale').                     *)
(***************************************************************************)
EXTENDS PetriSched

CONSTANTS
    Procs,             \* pids that may request a CPU (PowerController)
    UnlockedFireLoop   \* the callout's fire loop may interleave with hooks

VARIABLES
    turned_off_cpus, cpus_requested, check, stats_score, monopolized,
    sched_add,  \* <<td, t>>: a sched_add that chose t and has not fired it
    stale       \* <<p, v>>: the callout's fire loop will write v into mark[p]

Ctl == INSTANCE PowerController

ctl_vars   == << turned_off_cpus, cpus_requested, check, stats_score, monopolized >>
sched_vars == << tmark, frominh, lastcpu, smp_started, smp_set, kst, kwhere >>
all_vars   == << vars, ctl_vars, sched_add, stale >>

SysInit ==
    /\ Init
    /\ turned_off_cpus = [c \in CPUS |-> FALSE]
    /\ cpus_requested = 0
    /\ check = 0
    /\ stats_score = 0
    /\ monopolized = 0
    /\ sched_add = << >>
    /\ stale = << >>

\* a scheduler hook: it holds the scheduler lock, so no sched_add is open
Hook(A) ==
    /\ sched_add = << >>
    /\ A
    /\ UNCHANGED << ctl_vars, sched_add, stale >>

\* sched_add, first half: resource_choose_cpu under the scheduler lock
AddChoose(td) ==
    /\ sched_add = << >>
    /\ CanEnqueue(td)
    /\ sched_add' = << td, resource_choose_cpu(td) >>
    /\ UNCHANGED << vars, ctl_vars, stale >>

\* sched_add, second half: wakeup_if_needed and resource_fire_net on the
\* transition chosen before, whatever the net looks like now
AddFire ==
    /\ sched_add # << >>
    /\ EnqueueAt(sched_add[1], sched_add[2])
    /\ sched_add' = << >>
    /\ UNCHANGED << ctl_vars, stale >>

\* a callout of toggle_active_cpu.c; the module is loaded after boot unless
\* PinBeforeSmp, and the softclock thread runs one callout at a time
Callout(A) ==
    /\ PinBeforeSmp \/ smp_set
    /\ stale = << >>
    /\ A
    /\ UNCHANGED << sched_vars, sched_add >>

\* a callout that may fire SUSPEND/WAKEUP: with UnlockedFireLoop, its loop
\* over the places may have read any place p before a hook changes it
OnOff(A) ==
    /\ Callout(A)
    /\ IF UnlockedFireLoop /\ mark' # mark
       THEN stale' \in {<< p, mark'[p] >> : p \in Places} \cup {<< >>}
       ELSE stale' = << >>

\* the rest of the interrupted loop: the stale value lands in mark[p]
WriteBack ==
    /\ stale # << >>
    /\ mark' = [mark EXCEPT ![stale[1]] = stale[2]]
    /\ stale' = << >>
    /\ UNCHANGED << sched_vars, monopolized_cpus_per_proc, ctl_vars, sched_add >>

SysNext ==
    \/ Hook(SmpStart)
    \/ \E td \in Threads : AddChoose(td) \/ Hook(Remove(td))
    \/ AddFire
    \/ \E td \in Threads, vol \in BOOLEAN : Hook(Expulse(td, vol))
    \/ \E c \in CPUS, td \in Threads : Hook(Pick(c, td)) \/ Hook(Exec(c, td))
    \/ \E pids \in Ctl!Rankings : Callout(Ctl!MonopolizationTick(pids)) /\ UNCHANGED stale
    \/ \E u, p \in Ctl!LoadLevels : Callout(Ctl!StatsTick(u, p)) /\ UNCHANGED stale
    \/ \E c \in Ctl!IdlestChoices : OnOff(Ctl!TurnOffTick(c))
    \/ OnOff(Ctl!TurnOnTick)
    \/ WriteBack

SysSpec == SysInit /\ [][SysNext]_all_vars

-----------------------------------------------------------------------------
(* Properties                                                              *)

\* Once sched_add has chosen a per-CPU queue, the thread ends up on the
\* nets of that queue: the composed system keeps NetsTrackKernel (stated in
\* PetriSched) when no sched_add is half done.
NetsTrackKernelAtRest == sched_add = << >> /\ stale = << >> => NetsTrackKernel
=============================================================================
