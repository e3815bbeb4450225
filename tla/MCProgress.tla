----------------------------- MODULE MCProgress -----------------------------
(***************************************************************************)
(* What the threads and processes around the model must eventually do, one *)
(* state space for TLC: a behaviour picks a component and runs a small     *)
(* instance of it, under the fairness of its module (FairSpec); the others *)
(* stay in their initial states, in which nothing is owed to anyone.  A    *)
(* variable that two modules name alike is renamed in the second.          *)
(***************************************************************************)
EXTENDS Integers, Sequences, FiniteSets

VARIABLES
    instance,   \* what this behaviour runs
    \* ServeManager
    proc, serve_total, serve_sealed, termed, up, child, conf, stopping, stopReq,
    shutReq, reaped, mon, wasStopping, isCurrent, restart, op, durable, seen, cache,
    pidfile, outbox, written, gaveUp, promise, calls, serve_acks, boots,
    \* GpuJobs
    call, worker, serve, bench, job, gpu_child, gpu_proc, gpu_reaped, gpu_mon,
    gpu_calls,
    \* LogStream
    next, pushing, subscribed, log_loop, stage, since, boundary, backlog, q, drop,
    lastSeq, rec, out, reconnects,
    \* MoeOffload
    cache_size, prefill_overlap, slot_for_id, id_of_slot, usage, step,
    expert_recency, staged, topk, data, hits, compute, copy, recorded, done,
    buffer_layer, released, has_release, snapshot, hit_d2d_active, host, used,
    \* CpuMoePool
    caller, cur_gen, submitted, completed, nextItem, done_count, bar_count,
    bar_sense, pc, my_gen, local_sense, phase, item, task_mtx, sync_mtx, pool_stop,
    ran,
    \* CpuMoeFlags
    gpu, x, y, ready, flag_done, err, served, coord, callback, watch, suspects,
    flag_host, enqueued, shipped, stale, errAt

serveVars   == <<proc, serve_total, serve_sealed, termed, up, child, conf, stopping,
                 stopReq, shutReq, reaped, mon, wasStopping, isCurrent, restart, op,
                 durable, seen, cache, pidfile, outbox, written, gaveUp, promise,
                 calls, serve_acks, boots>>
jobVars     == <<call, worker, serve, bench, job, gpu_child, gpu_proc, gpu_reaped,
                 gpu_mon, gpu_calls>>
logVars     == <<next, pushing, subscribed, log_loop, stage, since, boundary,
                 backlog, q, drop, lastSeq, rec, out, reconnects>>
offloadVars == <<cache_size, prefill_overlap, slot_for_id, id_of_slot, usage, step,
                 expert_recency, staged, topk, data, hits, compute, copy, recorded,
                 done, buffer_layer, released, has_release, snapshot,
                 hit_d2d_active, host, used>>
poolVars    == <<caller, cur_gen, submitted, completed, nextItem, done_count,
                 bar_count, bar_sense, pc, my_gen, local_sense, phase, item,
                 task_mtx, sync_mtx, pool_stop, ran>>
flagVars    == <<gpu, x, y, ready, flag_done, err, served, coord, callback, watch,
                 suspects, flag_host, enqueued, shipped, stale, errAt>>
vars == <<instance, serveVars, jobVars, logVars, offloadVars, poolVars, flagVars>>

-----------------------------------------------------------------------------
\* Two generations, two calls of clients, automatic restarts.
Serve == INSTANCE ServeManager
            WITH Confs <- {"a"}, MaxGen <- 2, MaxTokens <- 0, MaxCalls <- 2, MaxAcks <- 0,
                 MaxBoots <- 0, SpawnFails <- FALSE, SaveFails <- FALSE, AutoRestart <- TRUE,
                 Legacy <- FALSE, DiskFails <- FALSE,
                 total <- serve_total, sealed <- serve_sealed, acks <- serve_acks

\* Two clients of the GPU slot, two jobs.
Jobs == INSTANCE GpuJobs
            WITH Clients <- {"c1", "c2"}, Ids <- {"i", "j"}, MaxProcs <- 2, MaxCalls <- 3,
                 WithServe <- FALSE,
                 child <- gpu_child, proc <- gpu_proc, reaped <- gpu_reaped, mon <- gpu_mon,
                 calls <- gpu_calls

\* A reader that falls behind and comes back.
Log == INSTANCE LogStream
          WITH Appenders <- {"tailer"}, Capacity <- 2, QueueMax <- 2, MaxSeq <- 4,
               MaxReconnects <- 1, loop <- log_loop

\* Prefill over two buffers, hits copied on the device.
Offload == INSTANCE MoeOffload
            WITH NumLayers <- 3, NumExperts <- 2, CacheSizes <- {5}, FirstSize <- 5,
                 Overlap <- TRUE, HitD2d <- TRUE, Hybrid <- FALSE, MaxFetch <- 0,
                 FetchQ16 <- 0, MaxRouted <- 1, MaxPasses <- 2, MaxResets <- 0,
                 MaxRebuilds <- 0

\* Two workers, and a phase with fewer items than there are workers.
TwoWorkers == {"w1", "w2"}
TwoPhases  == <<3, 1>>
Pool == INSTANCE CpuMoePool
            WITH Workers <- TwoWorkers, Items <- TwoPhases, MaxTasks <- 3, stop <- pool_stop

\* A coordinator that may die while it polls.
Flags == INSTANCE CpuMoeFlags
            WITH NumLayers <- 1, FlagCapacity <- 1, MaxSteps <- 3, Ahead <- 1, TickLimit <- 2,
                 MayDie <- {"scan"}, done <- flag_done, host <- flag_host

ASSUME InstancesSound ==
    /\ Serve!ServeAssumption /\ Jobs!GpuAssumption /\ Log!LogAssumption
    /\ Offload!SizesAssumption /\ Pool!PoolAssumption /\ Flags!FlagsAssumption

-----------------------------------------------------------------------------
Init ==
    /\ instance \in {"serve", "jobs", "log", "offload", "pool", "flags"}
    /\ Serve!Init /\ Jobs!Init /\ Log!Init /\ Offload!Init /\ Pool!Init /\ Flags!Init

(* Only the chosen component takes a step. *)
InServe(A) ==
    /\ instance = "serve" /\ A
    /\ UNCHANGED <<instance, jobVars, logVars, offloadVars, poolVars, flagVars>>
InJobs(A) ==
    /\ instance = "jobs" /\ A
    /\ UNCHANGED <<instance, serveVars, logVars, offloadVars, poolVars, flagVars>>
InLog(A) ==
    /\ instance = "log" /\ A
    /\ UNCHANGED <<instance, serveVars, jobVars, offloadVars, poolVars, flagVars>>
InOffload(A) ==
    /\ instance = "offload" /\ A
    /\ UNCHANGED <<instance, serveVars, jobVars, logVars, poolVars, flagVars>>
InPool(A) ==
    /\ instance = "pool" /\ A
    /\ UNCHANGED <<instance, serveVars, jobVars, logVars, offloadVars, flagVars>>
InFlags(A) ==
    /\ instance = "flags" /\ A
    /\ UNCHANGED <<instance, serveVars, jobVars, logVars, offloadVars, poolVars>>

Next == \/ InServe(Serve!Next)
        \/ InJobs(Jobs!Next)
        \/ InLog(Log!Next)
        \/ InOffload(Offload!Next)
        \/ InPool(Pool!Next)
        \/ InFlags(Flags!Next)

(* The daemon's threads run; no engine has to exit and no client to call. *)
DaemonFair ==
    /\ WF_vars(InServe(Serve!Transaction))
    /\ \A g \in 1..2 : WF_vars(InServe(Serve!Monitor(g))) /\ WF_vars(InServe(Serve!AutoCall(g)))
    /\ \A c \in {"c1", "c2"} : WF_vars(InJobs(Jobs!PoolStep(c)))
    /\ \A p \in 1..2 : WF_vars(InJobs(Jobs!MonReap(p) \/ Jobs!MonUpdate(p)))
    /\ WF_vars(InLog(Log!Push("tailer"))) /\ WF_vars(InLog(Log!Put))
    /\ WF_vars(InLog(Log!Reader))

(* The streams of the device and the threads of the host run; a dead       *)
(* coordinator does not.                                                   *)
EngineFair ==
    /\ WF_vars(InOffload(Offload!Compute)) /\ WF_vars(InOffload(Offload!Copy))
    /\ WF_vars(InOffload(Offload!Prefill))
    /\ WF_vars(InPool(Pool!InCall)) /\ \A w \in TwoWorkers : WF_vars(InPool(Pool!Worker(w)))
    /\ WF_vars(InFlags(Flags!Stream)) /\ WF_vars(InFlags(Flags!Coord))
    /\ WF_vars(InFlags(Flags!Watchdog)) /\ WF_vars(InFlags(Flags!Engine))

FairSpec == Init /\ [][Next]_vars /\ DaemonFair /\ EngineFair

-----------------------------------------------------------------------------
(* The daemon keeps what it owes: lifecycle calls return, a crash is       *)
(* answered by a restart, a cancelled conversion ends though it ignores    *)
(* SIGTERM, its slot is given back, and a reader of the log is told of     *)
(* every record (serve_manager.py, jobs.py, events.py).                    *)
DaemonActs ==
    /\ Serve!CallsReturn /\ Serve!CrashRestarted
    /\ Jobs!CancelEnds /\ Jobs!SlotReturns
    /\ Log!AllTold

(* No circle of waits: the two streams of the expert cache run dry, a      *)
(* submitted task of the CPU pool is synced and its workers can be joined, *)
(* and no step waits for a doorbell for ever; a dead coordinator ends in a *)
(* loud error (offload_cache.py, cpu_moe.cpp, flag_moe.py).                *)
StreamsMove ==
    /\ Offload!StreamsDrain
    /\ Pool!SyncReturns /\ Pool!WorkersJoin
    /\ Flags!StreamNeverStalls /\ Flags!DeathIsLoud
=============================================================================
