----------------------------- MODULE ThreadStats -----------------------------
(***************************************************************************)
(* thread_stats.c: the callout that counts the processes of allproc,       *)
(* and, only when their number changed, rebuilds the table of CPU          *)
(* monopolization requests (cpu_monopolization_info) and the counts of     *)
(* the need classes (proc_needs) from each process's ELF metadata.         *)
(* toggle_active_cpu.c reads the table through get_monopolization_info,    *)
(* which sorts it into the ranking PowerController takes as its input.     *)
(*                                                                         *)
(* The callout runs on the softclock thread, without allproc_lock; fork    *)
(* and exit run on other CPUs at any time.  Each traversal of allproc is   *)
(* one step; fork and exit can fall between the counting traversal and     *)
(* the rebuilding one.  The per-thread CPU usage the callout also sums is  *)
(* never read by anyone and is left out.  The idle process is counted by   *)
(* both traversals and skipped by get_proc_metadata_sched_info; it never   *)
(* forks or exits, so it is left out too.                                  *)
(***************************************************************************)
EXTENDS Integers, SequencesExt, ElfMetadata

CONSTANTS
    CPU_NUMBER,   \* at least 2: the request scan covers slots 1..N-1
    Pids,         \* the pids processes may have (never -1)
    ImageOf,      \* ImageOf[p]: the image process p executed
    ReadErrsOf,   \* ReadErrsOf[p]: the reads (or "none") that may fail when
                  \* the exec of p reads its image
    CUR_PRIO,     \* td_priority of the softclock thread, curthread in the
                  \* callout
    PrioOf        \* PrioOf[p]: td_priority of p's thread (lower is more
                  \* important); the scan never reads it

ASSUME CPU_NUMBER >= 2

CPUS == 0..(CPU_NUMBER - 1)
Slots == 1..(CPU_NUMBER - 1)
Needs == 0..3   \* PROC_LOWPERF .. PROC_CRITICAL

VARIABLES
    allproc,                  \* the process list, newest first
    loaded,                   \* FALSE once MOD_UNLOAD freed the table
    pc,                       \* the callout: "idle" or "counted"
    procs_in_system,          \* stats_aux.procs_in_system
    num_procs,                \* the static count of the previous call
    cpu_monopolization_info,
    proc_needs,               \* stats_aux.proc_needs
    threads_stats,            \* the published copy of stats_aux
    exec_err                  \* exec_err[p]: the read that failed when p's
                              \* exec read its image

vars == << allproc, loaded, pc, procs_in_system, num_procs,
          cpu_monopolization_info, proc_needs, threads_stats, exec_err >>
callout_vars == << loaded, pc, procs_in_system, num_procs,
                   cpu_monopolization_info, proc_needs, threads_stats >>

\* what exec left in the process (copyMetadataToProc): its
\* p_metadata_section_flag and, when that is 1, the section's payloads
\* (the image activator holds the vnode lock)
MetaOf(p) == getMetadataSectionPayload(ImageOf[p], exec_err[p], TRUE)
HasMetadata(p) == MetaOf(p).flag = 1

\* decodeMetadataSectionProc of p's section, monopolize starting as m
Decoded(p, m) == decodeMetadataSectionProc(ImageOf[p].payloads, [mono |-> m, class |-> -1])

\* processes whose metadata asks for a CPU, and those whose metadata has no
\* sched payload, so that the uninitialized monopolize is read
Asks(p) == HasMetadata(p) /\ Decoded(p, FALSE).mono
Unset == {p \in Pids : HasMetadata(p) /\ \A i \in DOMAIN ImageOf[p].payloads : ImageOf[p].payloads[i].fn # 2}

Entry(req, pid, prio) == [requested |-> req, pid |-> pid, prio |-> prio]

\* MOD_LOAD: every slot free, pid -1, prio 10000
LoadedTable == [i \in CPUS |-> Entry(FALSE, -1, 10000)]

ReleasedTable_memset_only == [i \in CPUS |-> Entry(TRUE, -1, -1)]

\* the rebuild's memset to -1 followed by requested = false on every slot
ReleasedTable == [i \in CPUS |-> Entry(FALSE, -1, -1)]

NoNeeds == [n \in Needs |-> 0]

\* less_prio of the scan: the largest prio of slots 1..N-1 (it starts at
\* -1000, below every prio stored)
LessPrio(tbl) == Max({tbl[i].prio : i \in Slots})

LessIndex_short_scan(tbl) ==
    LET free == {i \in 1..(CPU_NUMBER - 2) : ~tbl[i].requested}
    IN  IF free # {} THEN Min(free)
        ELSE Min({i \in Slots : tbl[i].prio = LessPrio(tbl)})

\* less_index of the scan: the first slot not requested, else the first
\* slot holding the largest prio
LessIndex(tbl) ==
    LET free == {i \in Slots : ~tbl[i].requested}
    IN  IF free # {} THEN Min(free)
        ELSE Min({i \in Slots : tbl[i].prio = LessPrio(tbl)})

\* get_proc_metadata_sched_info(p), on the table and need counts built so
\* far.  A process with metadata is decoded into str = "" and monopolize,
\* which is uninitialized: junk is its garbage value.  A requester takes
\* less_index if it is free or if curthread's priority beats less_prio,
\* and the slot records curthread's priority.  Without metadata the
\* process counts as STANDARD.
get_proc_metadata_sched_info(acc, p, junk) ==
    LET d    == IF HasMetadata(p) THEN Decoded(p, junk) ELSE [mono |-> FALSE, class |-> 1]
        li   == LessIndex(acc.tbl)
        take == d.mono /\ (~acc.tbl[li].requested \/ CUR_PRIO < LessPrio(acc.tbl))
    IN  [tbl   |-> IF take THEN [acc.tbl EXCEPT ![li] = Entry(TRUE, p, CUR_PRIO)]
                   ELSE acc.tbl,
         needs |-> IF d.class \in Needs
                   THEN [acc.needs EXCEPT ![d.class] = @ + 1]
                   ELSE acc.needs]

\* compareProcesses sorts by descending prio; qsort is not stable, so
\* slots of equal prio come out in any order
SortedOrders(tbl) ==
    {f \in Bijection(1..CPU_NUMBER, CPUS) :
        \A i \in 1..(CPU_NUMBER - 1) : tbl[f[i]].prio >= tbl[f[i + 1]].prio}

\* get_monopolization_info: the requested slots of 1..N-1, counted, and the
\* pids of the sorted table
get_monopolization_info(tbl) ==
    {[n    |-> Cardinality({i \in Slots : tbl[i].requested}),
      pids |-> [i \in 1..CPU_NUMBER |-> tbl[f[i]].pid]] : f \in SortedOrders(tbl)}

ProcsInSystem_no_reset(procs) == procs_in_system + Len(procs)

\* get_sys_stats_from_procs, once per process of allproc, after line 87
\* reset the count: procs_in_system
ProcsInSystem(procs) == Len(procs)

\* MOD_LOAD, with whatever processes exist
Init ==
    /\ allproc \in SetToAllKPermutations(Pids)
    /\ loaded = TRUE
    /\ pc = "idle"
    /\ procs_in_system = 0
    /\ num_procs = -1
    /\ cpu_monopolization_info = LoadedTable
    /\ proc_needs = NoNeeds
    /\ threads_stats = [procs_in_system |-> 0, proc_needs |-> NoNeeds]
    /\ exec_err \in {e \in [Pids -> ReadErrors] :
                      \A p \in Pids : e[p] \in IF p \in ToSet(allproc) THEN ReadErrsOf[p] ELSE {"none"}}

\* fork1 inserts the new process at the head of allproc; its exec reads
\* the metadata of its image, one read possibly failing
Fork(p) ==
    /\ p \notin ToSet(allproc)
    /\ allproc' = Cons(p, allproc)
    /\ \E e \in ReadErrsOf[p] : exec_err' = [exec_err EXCEPT ![p] = e]
    /\ UNCHANGED callout_vars

\* the exited process is reaped and leaves allproc
Exit(p) ==
    /\ p \in ToSet(allproc)
    /\ allproc' = Remove(allproc, p)
    /\ exec_err' = [exec_err EXCEPT ![p] = "none"]
    /\ UNCHANGED callout_vars

\* read_thread_stats up to the end of its first traversal: the counters are
\* reset and every process counted
ReadCount ==
    /\ loaded
    /\ pc = "idle"
    /\ pc' = "counted"
    /\ procs_in_system' = ProcsInSystem(allproc)
    /\ UNCHANGED << allproc, exec_err, loaded, num_procs, cpu_monopolization_info,
                    proc_needs, threads_stats >>

\* the rest of read_thread_stats: the rebuild when the count differs from
\* num_procs, then num_procs and the published copy
ReadPublish ==
    /\ pc = "counted"
    /\ \E junk \in SUBSET Unset :
       LET r == IF num_procs # procs_in_system
                THEN FoldLeft(LAMBDA acc, p : get_proc_metadata_sched_info(acc, p, p \in junk),
                              [tbl |-> ReleasedTable, needs |-> NoNeeds], allproc)
                ELSE [tbl |-> cpu_monopolization_info, needs |-> proc_needs]
       IN  /\ cpu_monopolization_info' = r.tbl
           /\ proc_needs' = r.needs
           /\ threads_stats' = [procs_in_system |-> procs_in_system, proc_needs |-> r.needs]
    /\ num_procs' = procs_in_system
    /\ pc' = "idle"
    /\ UNCHANGED << allproc, exec_err, loaded, procs_in_system >>

\* MOD_UNLOAD: callout_drain waits out a running callout, then the table is
\* freed
Unload ==
    /\ loaded
    /\ pc = "idle"
    /\ loaded' = FALSE
    /\ UNCHANGED << allproc, exec_err, pc, procs_in_system, num_procs,
                    cpu_monopolization_info, proc_needs, threads_stats >>

Next ==
    \/ \E p \in Pids : Fork(p) \/ Exit(p)
    \/ ReadCount \/ ReadPublish \/ Unload

\* timer_callback reschedules itself unconditionally
Spec == Init /\ [][Next]_vars /\ WF_vars(ReadCount \/ ReadPublish)
-----------------------------------------------------------------------------
(* Properties                                                              *)

RequestedPids(tbl) == {tbl[i].pid : i \in {j \in Slots : tbl[j].requested}}
Asking(procs) == {p \in ToSet(procs) : Asks(p)}

TypeOK ==
    /\ allproc \in Injection(1..Len(allproc), Pids)
    /\ loaded \in BOOLEAN
    /\ pc \in {"idle", "counted"}
    /\ procs_in_system \in 0..Cardinality(Pids)
    /\ num_procs \in -1..Cardinality(Pids)
    /\ cpu_monopolization_info \in
          [CPUS -> [requested : BOOLEAN, pid : Pids \cup {-1}, prio : {-1, 10000, CUR_PRIO}]]
    /\ proc_needs \in [Needs -> 0..Cardinality(Pids)]
    /\ threads_stats \in [procs_in_system : 0..Cardinality(Pids),
                          proc_needs : [Needs -> 0..Cardinality(Pids)]]
    /\ exec_err \in [Pids -> ReadErrors]

\* For every process in the system, whichever read failed when its exec
\* read the image and whether or not the vnode was already locked, every
\* path out of getMetadataSectionPayload's goto ladder frees each buffer
\* the call allocated except the section data it returns, leaves the
\* vnode locked exactly as it found it, and sets return_flag to 1 exactly
\* when section data comes back.
ReaderCleansUp ==
    \A p \in ToSet(allproc), prev_locked \in BOOLEAN :
        LET r == getMetadataSectionPayload(ImageOf[p], exec_err[p], prev_locked)
        IN  /\ r.freed = r.held \ {r.data}
            /\ r.unlocked = ~prev_locked
            /\ (r.flag = 1) <=> (r.data # "NULL")

\* Whenever toggle_active_cpu reads the table, get_monopolization_info
\* returns what PowerController assumes of it: n_requested distinct pids at
\* the head of the sorted array and -1 after them.  This rests on the
\* rebuild releasing every slot before refilling it, on slot 0 never being
\* requested, and on compareProcesses putting the stored priorities of
\* requests above the -1 of released slots.
FeedFitsController ==
    loaded =>
        \A fd \in get_monopolization_info(cpu_monopolization_info) :
            /\ fd.n \in 0..(CPU_NUMBER - 1)
            /\ \A i \in 1..fd.n : fd.pids[i] \in Pids
            /\ \A i \in (fd.n + 1)..CPU_NUMBER : fd.pids[i] = -1
            /\ \A i, j \in 1..fd.n : i # j => fd.pids[i] # fd.pids[j]

\* A rebuild that finds room in slots 1..N-1 for every process that may
\* request (those asking, and those whose monopolize is read uninitialized)
\* gives every asking process a slot, and no process without metadata gets
\* one: the scan of get_proc_metadata_sched_info finds a free slot for each
\* requester in turn.
AdmitsAllWhenRoom ==
    [][ /\ pc = "counted" /\ pc' = "idle"
        /\ num_procs # procs_in_system
        /\ Cardinality(Asking(allproc) \cup (Unset \cap ToSet(allproc))) <= CPU_NUMBER - 1
        => /\ Asking(allproc) \subseteq RequestedPids(cpu_monopolization_info')
           /\ RequestedPids(cpu_monopolization_info') \subseteq Asking(allproc) \cup Unset ]_vars

\* The rebuilt table holds the most important of the asking processes: no
\* asking process that a rebuild refuses has a better td_priority than an
\* asking process that got a slot.  This is what the comments of
\* get_proc_metadata_sched_info (a requester displaces "the lesser
\* prioritized process") and of timer_callback_monopolization ("the
\* CPU_NUMBER processes of highest priority") say, and what the spec's
\* request feed, "ranked by requester priority", assumes.  The scan
\* compares and stores curthread->td_priority, the softclock thread's.
RequestsRankedByPriority ==
    [][ pc = "counted" /\ pc' = "idle" /\ num_procs # procs_in_system =>
        LET granted == RequestedPids(cpu_monopolization_info') \cap Asking(allproc)
        IN  \A q \in Asking(allproc) \ granted, r \in granted : PrioOf[r] <= PrioOf[q] ]_vars

\* A rebuilt table holds requests only of processes whose metadata carries a
\* sched payload with monopolize_cpu set.
OnlyAskersRequested ==
    [][ pc = "counted" /\ pc' = "idle" /\ num_procs # procs_in_system
        => RequestedPids(cpu_monopolization_info') \subseteq Asking(allproc) ]_vars

\* The request table is a cache of which live processes want a CPU, and it
\* is always eventually free of requests of processes that have exited
\* (a reused pid counts as live): read_thread_stats runs forever, but
\* rebuilds the table only when the process count changed.
StaleRequests == {p \in RequestedPids(cpu_monopolization_info) : p \notin ToSet(allproc)}
StaleRequestsWithdrawn == []<>(loaded => StaleRequests = {})
=============================================================================
