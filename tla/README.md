# TLA+ models of the Petri-net scheduler (sched)

This directory models the FreeBSD Petri-net scheduler in `src/` and checks it
with TLC. The scheduler keeps two levels of Petri nets. The kernel's scheduler
hooks drive them, and a loadable module (`toggle_active_cpu`) switches CPUs
off and on and pins CPUs to processes.

## The system

| Part | Source | State | Operations |
|---|---|---|---|
| Local net | `src/kern/sched_petri.c` | `td->mark` (5 places: INACTIVE, CAN_RUN, RUNQ, RUNNING, INHIBITED) | `init_petri_thread(0)`, `thread_transition_is_sensitized`, `thread_petri_fire`, `wakeup_if_needed` |
| Resource net | `src/kern/petri_global_net.c`, `src/sys/sched_petri.h` | `resource_net->mark`: 5 places per CPU (CPU, EXECUTING, QUEUE, SUSPENDED, TOEXEC), plus GLOBAL_QUEUE, SMP_NOT_READY and SMP_READY; an incidence and an inhibition matrix | `init_resource_net`, `transition_is_sensitized`, `is_inhibited` |
| Hierarchical firing | `petri_global_net.c` | `smp_set` | `resource_fire_net`, `resource_fire_single_transition`, `is_hierarchical` |
| Selection and expulsion | `petri_global_net.c` | `td_lastcpu`, `td_frominh` | `resource_choose_cpu`, `resource_expulse_thread` |
| Pin table | `petri_global_net.c` | `monopolized_cpus_per_proc[cpu]` | `toggle_pin_cpu_to_proc`, `monopolize_cpu`, `release_cpu`, `cpu_available_for_proc` |
| Power controller | `src/sys/stats/toggle_active_cpu.c` | `turned_off_cpus`, `cpus_requested`, `check`, `stats_score`, static `monopolized` | the four callouts (monopolization 1 s, stats 1 s, turn-off 30 s, turn-on 2 s), `toggle_active_cpu`, `MOD_LOAD`/`MOD_UNLOAD` |
| CPU telemetry | `src/sys/stats/cpu_stats.c` | per-CPU tick counts and deltas | `read_cpu_stats` callout |
| Thread telemetry | `src/sys/stats/thread_stats.c` | `cpu_monopolization_info` (the request table), `proc_needs`, `num_procs`, `threads_stats` | `read_thread_stats` callout, `get_proc_metadata_sched_info`, `MOD_LOAD`/`MOD_UNLOAD` |
| ELF metadata reader | `src/sys/kern/metadata_elf_reader.c` | per process: `p_metadata_addr`, `p_metadata_section_flag`, `p_metadata_size` | `getMetadataSectionPayload` at exec, `decodeMetadataSectionProc` from thread_stats |

How the parts interact:

- The kernel hooks (`sched_add`, `sched_choose` and `cpu_switch`, `sched_switch`, `sched_rem`) call `resource_choose_cpu` and `resource_fire_net`. These hooks are outside this repository.
- Each firing of a hierarchical resource transition also fires the thread's local transition.
- Inhibitor arcs from SMP_NOT_READY send every enqueue to the global queue until the first hook after `smp_started` fires START_SMP.
- The controller's callouts read telemetry and do three things:
  - they pin and unpin CPUs in the table that `resource_choose_cpu` consults;
  - they fire SUSPEND and WAKEUP in the resource net;
  - they record which CPUs are off in `turned_off_cpus`.

Some behaviours are hard to test:

- interleavings of hooks on different CPUs;
- callouts that write the net without the scheduler lock;
- a firing where the resource net changes but the local net refuses;
- a pin or a suspend that lands between a choice and the enqueue it makes;
- drift between the flag array and the net;
- the counter-and-budget arithmetic of the controller.

## Modules

- **LocalNet** covers the local net of `sched_petri.c`. The incidence matrix is given verbatim. `thread_petri_fire` leaves the marking unchanged when the transition is not sensitized, as the code does when it only logs.
  - Indices of the transitions follow `thread_transitions_names`. The `TRAN_*` macros are in `sys/proc.h`, outside this repository.
- **ResourceNet** covers the resource net for `CPU_NUMBER` CPUs.
  - It uses the index arithmetic `PLACE`/`TRANSITION` and the globals of `init_global_variables`.
  - The incidence and inhibition matrices are written as functions of (place, transition). They are built from `base_resource_matrix` and the arcs that `init_cpu_matrix` and `init_global_resources` add.
  - It also defines `transition_is_sensitized` and `is_hierarchical`, which takes the first matching entry of the table, exactly or modulo 10 for per-CPU transitions.
- **PetriSched** is the core composition.
  - Variables: the resource marking `mark`, a local marking `tmark[td]` per thread, `frominh`, `lastcpu`, `smp_started`, `smp_set`, the pin table, and the kernel's view of each thread (`kst`, `kwhere`).
  - `FireNet` is `resource_fire_net` over a pair of markings. It fires START_SMP once and then the requested transition if it is sensitized. `FireSingle` updates the resource net and then fires the local counterpart.
  - There is one action per hook:
    - `Enqueue`: `wakeup_if_needed`, then choose, then fire.
    - `Pick`: UNQUEUE, FROM_GLOBAL_CPU or EXEC_IDLE.
    - `Exec`.
    - `Expulse` (`resource_expulse_thread`): voluntary or involuntary.
    - `Remove`.
    - `SmpStart`.
    - `PinCaller`: a call of `monopolize_cpu` or `release_cpu`.
  - The hooks are atomic because each one runs under the scheduler lock. They are modelled from the spec's interface, and map marks them spec_modelled.
- **PowerController** covers `toggle_active_cpu.c`. It has one action per callout: `MonopolizationTick`, `StatsTick`, `TurnOffTick` and `TurnOnTick`.
  - Every callout runs on the softclock thread, so each callout is atomic with respect to the others.
  - Telemetry is an input chosen by `\E`:
    - the ranking of requesters, which is the requesting pids in any order followed by `-1` entries;
    - the two load levels;
    - the idlest CPU, which is any CPU in 1..N-1 or -1, because `get_idlest_cpu` does not exclude CPUs that are off.
  - `toggle_active_cpu` keeps the code's range, SMP_READY and sensitization checks. SUSPEND has no guard in the net.
  - The initial state is the one `MOD_LOAD` creates after SMP start.
- **PowerUnload** extends PowerController with `MOD_UNLOAD`. The kldunload thread runs it without a lock while the callouts keep firing on the softclock thread, so each call of the handler is a step of its own:
  - `UnloadStart`;
  - `UnloadWake`: one iteration of the wake loop (`get_off_cpu`, `turn_on_cpu`, clear the flag);
  - `UnloadRelease`: one `release_cpu(0, i)`, and after the last one `free(turned_off_cpus)`;
  - `UnloadDrain`: one `callout_drain`, in the order of the code (monopolization, stats, turn-off, turn-on).
  - A callout keeps firing until its own drain. `uaf` records a callout that touched `turned_off_cpus` after the free: every stats tick (`get_user_load` reads the array at line 368), a turn-off tick only when its low-load count reaches 3 (`get_n_turned_off`), a turn-on tick only under load or requests (`get_off_cpu`).
- **SchedWithController** composes PetriSched and PowerController on the shared resource net and pin table.
  - The hooks keep the scheduler lock. The callouts take none.
  - `sched_add` is split into `AddChoose` (`resource_choose_cpu`) and `AddFire` (`wakeup_if_needed` and `resource_fire_net`), and a callout may run between them.
  - With `UnlockedFireLoop`, a callout's loop over the places (`mark[p] += incidence`) may have read a place before a hook changed it. `WriteBack` writes the stale value later.
- **LoadScore** computes what PowerController takes as inputs: `calc_load_score`, `get_user_load`, `processes_need_score`, `get_procs_needs`, `get_idlest_cpu` (its loop as the RECURSIVE `IdlestFrom`) and the 80/20 blend of `timer_callback_stats`.
  - The initial state fixes one period's telemetry: per CPU the CP_USER and CP_IDLE tick deltas and `delta_total`, the need counts per class and the off flags. A failed sysctl is the all-zero snapshot: `obtain_stats` tests `kernel_sysctlbyname` against -1, but that function returns an errno, so `obtain_stats` never returns NULL and hands back its zero-filled buffer. The callers' NULL branches are kept and are dead.
  - `StatsCallout` and `IdlestQuery` compute from it. Percentages are computed by the code's integer division.
- **ThreadStats** covers `thread_stats.c` and the reader of its table, `get_monopolization_info`.
  - Variables: `allproc` as a sequence, newest first (fork inserts at the head), the callout's `pc`, `procs_in_system`, the static `num_procs`, `cpu_monopolization_info`, `proc_needs`, the published `threads_stats`, and `loaded`.
  - `read_thread_stats` walks allproc twice without `allproc_lock`: `ReadCount` is the counting walk and `ReadPublish` the rest, where the table is rebuilt only if the count differs from `num_procs`. `Fork` and `Exit` may fall between the two steps.
  - The rebuild is `FoldLeft` of `get_proc_metadata_sched_info` over allproc, starting from the released table. That operator has the code's scan for `less_index`/`less_prio`, the replacement test against `curthread->td_priority`, and the need counts (no metadata counts as STANDARD).
  - Each process's metadata is what ElfMetadata computes from its image: `ImageOf[p]` (section names and payloads) and `exec_err[p]`, the read that failed at exec, which `Fork` picks from `ReadErrsOf[p]`. `MetaOf` is what `copyMetadataToProc` leaves in the process; flag 1 means the section is decoded into `str = ""` and `monopolize`.
  - `monopolize` is declared without an initializer, and only a sched payload writes it. For an image without one, `ReadPublish` picks its value nondeterministically (`junk`), which is what the build can produce from stack garbage.
- **ElfMetadata** covers `metadata_elf_reader.c`. It has no variables: its operators are used by ThreadStats.
  - An image is abstracted to the sequence of its section names and the payloads of its `.metadata` section. Offsets, sizes and bytes are left out.
  - `getMetadataSectionPayload(img, err, prev_locked)` follows the function's control: the allocations and reads in order (`Steps`), the label each failing read jumps to (`GotoOf`), and the fall-through ladder `fail3`, `fail2`, `fail1`, `fail` (`ErrorChain`, `FreedAt`). It returns what was allocated, what was freed, whether the vnode was unlocked, the return flag and the returned buffer. `malloc(M_WAITOK)` never returns NULL, so the NULL branches are dead and not modelled.
  - `decodeMetadataSectionProc` folds the payloads through `payload_functions`: `payload_Binary_func` decodes into its own locals and changes nothing; `payload_Sched_func` sets monopolize and the class string; any other function number is skipped.
  - `get_monopolization_info` is the set of outputs of the unstable `qsort` by `compareProcesses`.
  - The CPU-usage sums of `get_threads_in_proc_stats` are read by no one and are left out.
- **MC_PetriSched**, **MC_PowerController**, **MC_PowerUnload**, **MC_SchedWithController**, **MC_LoadScore** and **MC_ThreadStats** give the constants for TLC.

## Runs

| Run | cfg | Expect | What it shows |
|---|---|---|---|
| sched_core | MC_PetriSched.cfg | pass | 2 CPUs, 5 threads (thread0, two idle threads, t1, and t2, which is restricted to CPU 1). Pins are made after SMP start. Checks `TypeOK`, `MarkingNonNegative`, `NetsTrackKernel` and `SmpBootstrap`. About 224k states, under a minute. |
| power_core | MC_PowerController.cfg | pass | 4 CPUs (budget 1), 3 processes. The static counter `monopolized` equals the number of pinned CPUs and stays within the budget across release and grant ticks (`PinBudget`), and no CPU is ever both pinned and suspended (`PinnedNeverSuspended`): turn-off ignores pins, and only `cpus_requested` keeps the three timers apart. |
| power_budget_6cpu | …_6cpu_OffBudget.cfg | violation | With budget 2, an already-off idlest CPU is suspended again. The flags undercount the suspended CPUs, 3 CPUs end up suspended, and the CPU suspended twice is never woken again (one WAKEUP, flag cleared). |
| power_one_pin_6cpu | …_6cpu_OnePinPerProcess.cfg | violation | The positional grant gives one process CPUs 1 and 2. |
| sched_ctl_choose_fire | MC_SchedWithController_choose_fire.cfg | violation | A turn-off callout suspends the CPU that `sched_add` chose between the choice and the firing. ADDTOQUEUE is then not sensitized and the enqueue is dropped, while the kernel queues the thread. |
| sched_ctl_lost_update | MC_SchedWithController_lost_update.cfg | violation | The callout's unlocked firing loop writes back a stale place value after a hook's `Pick`. A CPU ends up with two tokens (`CpuTokensConserved`). |
| power_unload_uaf | MC_PowerUnload_NoUseAfterFree.cfg | violation | `free(turned_off_cpus)` (line 68) comes before the `callout_drain` calls (70-73), so a callout uses the freed array. The same order lets the monopolization callout re-pin a CPU after the release loop, so a pin can outlive the module; that consequence is a hazard without a run of its own. |
| load_score | MC_LoadScore.cfg | pass | 4 CPUs (0 or 2 ticks each, at most one CPU off) and 0..2 processes per need class: about 84k telemetry snapshots. The stored score is a load level (`TypeOK`), and the loop of `get_idlest_cpu` returns the lowest-numbered most idle CPU of 1..N-1, or -1 when none is idle (`IdlestIsFirstMostIdle`, against a declarative argmax). |
| thread_stats | MC_ThreadStats.cfg | pass | 3 CPUs (two request slots), four pids, with fork and exit racing the callout. Two pids ask for a CPU, one has no sched payload (monopolize unset), and pid 4's image has no `.metadata` section or its exec fails to read the name table. Every sorted table `get_monopolization_info` can return has the shape PowerController assumes: `n_requested` distinct pids, then `-1` (`FeedFitsController`). A rebuild with room for every possible requester admits every asking process and no process without metadata (`AdmitsAllWhenRoom`). Every exit path of `getMetadataSectionPayload`, under each failing read and either lock state, frees all it allocated except the returned section and leaves the vnode lock as it found it (`ReaderCleansUp`). About 234k states, under a minute. |
| thread_stats_uninit | MC_ThreadStats_uninit.cfg | violation | `OnlyAskersRequested` fails. Pid 3's metadata has only a binary payload; `monopolize` is read uninitialized, and when it is true pid 3 takes a request slot. |
| thread_stats_priority | MC_ThreadStats_priority.cfg | violation | `RequestsRankedByPriority` fails with one slot and two asking pids: pid 1 (td_priority 120) comes first in allproc and keeps the slot, and pid 2 (100, more important) is refused. |
| thread_stats_stale | MC_ThreadStats_stale.cfg | violation | `StaleRequestsWithdrawn` fails, with only pids 1 (asking) and 4 (no readable metadata). Requester 1 exits and pid 4 is forked between two samples, the count stays 1, and pid 1's request stays in the table for good. |

Every property of a passing run has a mutant in PROJECT.json: an operator for a plausible bug, placed just before the definition it replaces. Each mutant breaks its property.

Two divergences from the spec were found while modelling PowerController and LoadScore. No run checks them: the first is one comparison a unit test reaches, and the second follows from one line of `obtain_stats`:

- `check++ >= 3` in `timer_callback_turn_off` powers a CPU off on the fourth consecutive low-load sample, not the third as the spec's scenario and the comment say.
- Spec section 7 says an unavailable telemetry source skips the decision cycle. In the code a failed sysctl reads as an all-zero snapshot. That is an idle system: `get_user_load` returns LOAD_IDLE, and so does `get_procs_needs` when `threads_stats` fails. `stats_score` then drops below LOAD_NORMAL, and load no longer wakes a suspended CPU. `get_idlest_cpu` returns -1 on zero ticks, so the outage alone never powers a CPU off.

Every request in the table records `curthread->td_priority`, which is the stats callout's own priority. All requests therefore tie, and the replacement test `td_priority < less_prio` never succeeds. The first N-1 requesters in allproc order (newest first) keep the slots whatever their own priorities. The comments of `get_proc_metadata_sched_info` and `timer_callback_monopolization`, and the spec's request feed "ranked by requester priority", say the table holds the most important requesters; `thread_stats_priority` shows the code does not. ThreadStats takes each process's priority as the constant `PrioOf`, which only that property reads.

`processes_need_score` truncates each class's percentage before weighting it, so promoting a process to a more demanding class can lower the score. The smallest case has 12 processes: 2 LOWPERF and 9 HIGHPERF give 75 (HIGH), and one HIGHPERF promoted to CRITICAL gives 74 (NORMAL). LoadScore enumerates up to two processes per class, where the score is monotone, so this is a hazard without a run.

### Bounds

- Two CPUs are enough for the scheduler core, because CPU 0 and the other CPUs are treated differently (inhibitor arcs, pins, suspension). The threads cover:
  - the bootstrap thread;
  - an idle thread per CPU;
  - two processes, one with a restricted affinity mask.
- The controller needs N = 4 before its budget `N/2 - 1` is non-zero. The passing run keeps N = 4 and checks only properties whose failure needs no second powered-off CPU (the pin counter, pinned against suspended). Whether the off flags match the net and the off budget holds is checked at N = 6 (budget 2), where the code breaks them.
- `check` is bounded by the code itself (0..3). The load levels are the six levels of `calc_load_score`.
- PowerUnload uses N = 4 and three processes. The wake loop, the N-1 releases and the four drains are all steps, so every window between them is explored.
- SchedWithController uses 4 CPUs, thread0, the four idle threads and t2 (restricted to CPU 1). Four CPUs give a turn-off budget of 1.
- LoadScore uses 0 or 2 ticks per CPU, which gives the percentages 0, 50 and 100 (levels IDLE, NORMAL and SEVERE), one CPU possibly off, and up to two processes per need class.

- ThreadStats uses 3 CPUs, so three possible requesters contend for two slots. It uses four pids: two ask (one with a binary payload before the sched one), one has only a binary payload, and pid 4's image has no `.metadata` section, or its exec fails reading the name table (pid 2's may fail reading the section headers). A third CPU gives a second run, `thread_stats_priority`, one slot with two asking pids. Pids may be reused after exit. `ReaderCleansUp` is checked for every live process under both lock states, so the instance reaches the failing reads of the section headers and the name table, a section not found (flag 2) and a successful read.

### Fairness

The unload runs use `CHECK_DEADLOCK FALSE`, because once every callout is drained nothing runs any more.

PowerController's `Spec` has weak fairness on `TurnOnTick`, because `timer_callback_turn_on` reschedules itself unconditionally with `callout_schedule`; no run checks a liveness property of it. The natural one, that under sustained load or requests every CPU is eventually on, holds at 4 CPUs only because at most one CPU can be off there; at 6 CPUs the CPU suspended twice in `power_budget_6cpu` stays off for good. ThreadStats assumes weak fairness on the thread_stats callout, for the same reason: `timer_callback` ends with an unconditional `callout_reset`. Fork and exit get no fairness, so the processes may stop changing at any time. The scheduler core is checked for safety only.

## Not modelled, and why

- The kernel's scheduler hooks are modelled from the spec, because the code is not here.
- In PowerController, telemetry is an arbitrary input over the ranges that LoadScore shows the code can produce.
- `print_resource_net` and the logging are left out.
- `get_sys_load` is never called.
- `get_idlest_cpu` returns from inside its loop before `free(cpu_stats)` when a CPU has no ticks. This leaks a buffer. It is listed as a hazard, and no run checks it.
- The hook-side lost update (a hook's firing loop undoing a callout's SUSPEND) is not modelled; only the callout side is.
- `cpu_stats.c` is not modelled. Its callout stores each CPU's tick counters and their deltas since the last sample. Its only reader here, toggle_active_cpu.c, runs on the same softclock thread (`callout_init` places every callout on the default CPU), so it always sees a whole sample. LoadScore already ranges over every snapshot a sample can hold, including the all-zero one. What remains is a sequential subtraction with nothing to interleave. The unlocked sysctl can hand a torn sample to user-space readers, which are outside this repository; that is listed as a hazard.
- ThreadStats makes each traversal of allproc one step. A fork or exit in the middle of the unlocked list walk is not modelled.
- The pin-before-SMP case of PetriSched (`PinBeforeSmp = TRUE`) is kept in the module but has no run: it drops an enqueue by the same unchecked choice as `sched_ctl_choose_fire`.
- ElfMetadata assumes well-formed images. `e_shstrndx`, `sh_name`, `sh_size`, `m_number_payloads`, `ph_size` and `p_size` come from the executable and are used unchecked, so a crafted image can make the kernel read out of bounds. Byte layouts are below the model's abstraction.
- `decodeMetadataSectionThread` is never called and only fills locals. The caller of `getMetadataSectionPayload` and `copyMetadataToProc` (the ELF image activator) is outside this repository, so exec is abstracted to `Fork` choosing which read of `ImageOf[p]` fails. Freeing `p_metadata_addr` at exit is outside it too.
- The three stats modules arm their callouts in `MOD_LOAD` before they allocate the arrays the callouts use. Every model starts after `MOD_LOAD` has returned. A callout can reach the NULL array only if `malloc(M_WAITOK)` sleeps longer than the first callout period, and that timing is not modelled. The three spots are listed as hazards.
- With `CPU_NUMBER = 1` (it is `mp_ncpus`, so a one-vCPU machine), `get_proc_metadata_sched_info` writes slot -1, outside the array. All modules assume at least 2 CPUs; it is listed as a hazard.
- No abstract thread lifecycle is checked against PetriSched: its CPU exclusivity came from the spec-modelled dispatch guard, and the rest followed from `NetsTrackKernel`, so the refinement said nothing about the code.
- `MOD_UNLOAD` leaving a CPU pinned (the monopolization callout re-pinning after the release loop) has the same cause as `power_unload_uaf` and has no run of its own; the run budget goes to distinct questions.

## Plan for later work

1. The hook-side write-back of the unlocked firing loop in SchedWithController.
2. A larger SchedWithController instance with a passing run over the properties that survive the races.
3. ThreadStats composed with the monopolization callout of PowerController, so that a stale request shows up as a CPU pinned to an exited process.
