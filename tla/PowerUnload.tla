----------------------------- MODULE PowerUnload -----------------------------
(***************************************************************************)
(* MOD_UNLOAD of toggle_active_cpu.c, run by the kldunload thread while    *)
(* the module's four callouts keep running on the softclock thread until   *)
(* each is drained.  The unload handler runs without any lock, so every    *)
(* call it makes is a step of its own: each turn-on of the wake loop, each *)
(* release_cpu, the free of turned_off_cpus and each callout_drain.       *)
(***************************************************************************)
EXTENDS Sequences, PowerController

\* the callouts, in the order MOD_UNLOAD drains them
DrainOrder == << "monopolization", "stats", "turn_off", "turn_on" >>

VARIABLES
    unload_pc,   \* "loaded", "wake", "release", "freed" (after free), "done"
    rel_cpu,     \* next CPU of the release_cpu loop
    drained,     \* how many callouts callout_drain has stopped
    uaf          \* a callout used turned_off_cpus after it was freed

unload_vars == << unload_pc, rel_cpu, drained, uaf >>
all_vars == << vars, unload_vars >>

UInit ==
    /\ Init
    /\ unload_pc = "loaded"
    /\ rel_cpu = 1
    /\ drained = 0
    /\ uaf = FALSE

\* callout tm still fires: it is not drained yet
Running(tm) == \A i \in 1..drained : DrainOrder[i] # tm

\* a callout tm taking step A, which reads or writes turned_off_cpus when
\* touches holds
FlagCallout(tm, touches, A) ==
    /\ Running(tm)
    /\ A
    /\ uaf' = (uaf \/ (touches /\ unload_pc \in {"freed", "done"}))
    /\ UNCHANGED << unload_pc, rel_cpu, drained >>

\* MOD_UNLOAD begins
UnloadStart ==
    /\ unload_pc = "loaded"
    /\ unload_pc' = "wake"
    /\ UNCHANGED << vars, rel_cpu, drained, uaf >>

\* one iteration of the wake loop: turn_on_cpu(get_off_cpu()) and clear its
\* flag, whether or not the net accepted the WAKEUP; the loop ends when no
\* flag is set
UnloadWake ==
    /\ unload_pc = "wake"
    /\ LET off == get_off_cpu
       IN  IF off > 0
           THEN /\ mark' = toggle_active_cpu(mark, off, FALSE)
                /\ turned_off_cpus' = [turned_off_cpus EXCEPT ![off] = FALSE]
                /\ UNCHANGED unload_pc
           ELSE /\ unload_pc' = "release"
                /\ UNCHANGED << mark, turned_off_cpus >>
    /\ UNCHANGED << monopolized_cpus_per_proc, cpus_requested, check, stats_score,
                    monopolized, rel_cpu, drained, uaf >>

\* one iteration of the release loop: release_cpu(0, rel_cpu); after the
\* last one, free(turned_off_cpus)
UnloadRelease ==
    /\ unload_pc = "release"
    /\ IF rel_cpu < CPU_NUMBER
       THEN /\ monopolized_cpus_per_proc' = [monopolized_cpus_per_proc EXCEPT ![rel_cpu] = -1]
            /\ rel_cpu' = rel_cpu + 1
            /\ UNCHANGED unload_pc
       ELSE /\ unload_pc' = "freed"
            /\ UNCHANGED << monopolized_cpus_per_proc, rel_cpu >>
    /\ UNCHANGED << mark, turned_off_cpus, cpus_requested, check, stats_score,
                    monopolized, drained, uaf >>

\* callout_drain of the next callout in DrainOrder
UnloadDrain ==
    /\ unload_pc = "freed"
    /\ drained' = drained + 1
    /\ unload_pc' = IF drained' = Len(DrainOrder) THEN "done" ELSE "freed"
    /\ UNCHANGED << vars, rel_cpu, uaf >>

UNext ==
    \/ \E pids \in Rankings :
          Running("monopolization") /\ MonopolizationTick(pids) /\ UNCHANGED unload_vars
    \/ \E u, p \in LoadLevels : FlagCallout("stats", TRUE, StatsTick(u, p))
    \/ \E c \in IdlestChoices :
          FlagCallout("turn_off", stats_score < LOAD_NORMAL /\ cpus_requested < 1 /\ check >= 3,
                      TurnOffTick(c))
    \/ FlagCallout("turn_on", stats_score >= LOAD_NORMAL \/ cpus_requested > 0, TurnOnTick)
    \/ UnloadStart \/ UnloadWake \/ UnloadRelease \/ UnloadDrain

USpec == UInit /\ [][UNext]_all_vars

-----------------------------------------------------------------------------
(* Properties                                                              *)

\* No callout touches turned_off_cpus after MOD_UNLOAD has freed it: the
\* stats, turn-off and turn-on callouts all read or write the array, and the
\* handler frees it before draining them.
NoUseAfterFree == ~uaf

=============================================================================
