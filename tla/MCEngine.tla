------------------------------ MODULE MCEngine ------------------------------
(***************************************************************************)
(* The parts of the engine that share no state, one state space for TLC: a *)
(* behaviour picks an instance of one and runs it alone.  The variables of *)
(* the others stay Unused; those of the same name are shared.              *)
(***************************************************************************)
EXTENDS Integers, Sequences, FiniteSets, TLC, Geometries

CONSTANTS w1, w2, w3, w4    \* workers of CpuMoePool

VARIABLES
    instance,                \* what this behaviour runs
    done, host, stale,       \* of two of the modules each
    cache_size, prefill_overlap, slot_for_id, id_of_slot, usage, step, expert_recency,
    staged, topk, data, hits, compute, copy, recorded, buffer_layer, released,
    has_release, snapshot, hit_d2d_active, used,   \* MoeOffload
    caller, cur_gen, submitted, completed, nextItem, done_count, bar_count, bar_sense,
    pc, my_gen, local_sense, phase, item, task_mtx, sync_mtx, stop, ran,   \* CpuMoePool
    gpu, x, y, ready, err, served, coord, callback, watch, suspects, enqueued, shipped,
    errAt,   \* CpuMoeFlags
    built, count, pin, width, graphs, scratch, free, tree, cap, chunk, at, goal, prior,
    back, torn, reply, faults, requests, was   \* CacheRebuild

offloadVars == <<cache_size, prefill_overlap, slot_for_id, id_of_slot, usage, step,
                 expert_recency, staged, topk, data, hits, compute, copy, recorded,
                 buffer_layer, released, has_release, snapshot, hit_d2d_active, used>>
poolVars == <<caller, cur_gen, submitted, completed, nextItem, done_count, bar_count,
              bar_sense, pc, my_gen, local_sense, phase, item, task_mtx, sync_mtx, stop,
              ran>>
flagVars == <<gpu, x, y, ready, err, served, coord, callback, watch, suspects, enqueued,
              shipped, errAt>>
cacheVars == <<built, count, pin, width, graphs, scratch, free, tree, cap, chunk, at,
               goal, prior, back, torn, reply, faults, requests, was>>
vars == <<instance, done, host, stale, offloadVars, poolVars, flagVars, cacheVars>>

Unused == "unused"
NoOffload == /\ cache_size = Unused /\ prefill_overlap = Unused /\ slot_for_id = Unused
             /\ id_of_slot = Unused /\ usage = Unused /\ step = Unused
             /\ expert_recency = Unused /\ staged = Unused /\ topk = Unused
             /\ data = Unused /\ hits = Unused /\ compute = Unused /\ copy = Unused
             /\ recorded = Unused /\ buffer_layer = Unused /\ released = Unused
             /\ has_release = Unused /\ snapshot = Unused /\ hit_d2d_active = Unused
             /\ used = Unused
NoPool == /\ caller = Unused /\ cur_gen = Unused /\ submitted = Unused
          /\ completed = Unused /\ nextItem = Unused /\ done_count = Unused
          /\ bar_count = Unused /\ bar_sense = Unused /\ pc = Unused /\ my_gen = Unused
          /\ local_sense = Unused /\ phase = Unused /\ item = Unused
          /\ task_mtx = Unused /\ sync_mtx = Unused /\ stop = Unused /\ ran = Unused
NoFlags == /\ gpu = Unused /\ x = Unused /\ y = Unused /\ ready = Unused /\ err = Unused
           /\ served = Unused /\ coord = Unused /\ callback = Unused /\ watch = Unused
           /\ suspects = Unused /\ enqueued = Unused /\ shipped = Unused
           /\ errAt = Unused
NoCaches == /\ built = Unused /\ count = Unused /\ pin = Unused /\ width = Unused
            /\ graphs = Unused /\ scratch = Unused /\ free = Unused /\ tree = Unused
            /\ cap = Unused /\ chunk = Unused /\ at = Unused /\ goal = Unused
            /\ prior = Unused /\ back = Unused /\ torn = Unused /\ reply = Unused
            /\ faults = Unused /\ requests = Unused /\ was = Unused

-----------------------------------------------------------------------------
(* The expert cache: prefill streamed through two buffers, with hits copied *)
(* on the device; a pool without room for that; rebuilds; the hybrid split. *)
Split == INSTANCE MoeOffload
            WITH NumLayers <- 3, NumExperts <- 2, CacheSizes <- {6}, FirstSize <- 6,
                 Overlap <- TRUE, HitD2d <- TRUE, Hybrid <- FALSE, MaxFetch <- 0, FetchQ16 <- 0,
                 MaxRouted <- 2, MaxPasses <- 3, MaxResets <- 0, MaxRebuilds <- 0
Streamed == INSTANCE MoeOffload
            WITH NumLayers <- 3, NumExperts <- 2, CacheSizes <- {5}, FirstSize <- 5,
                 Overlap <- TRUE, HitD2d <- FALSE, Hybrid <- FALSE, MaxFetch <- 0,
                 FetchQ16 <- 0, MaxRouted <- 1, MaxPasses <- 3, MaxResets <- 1,
                 MaxRebuilds <- 0
Resized == INSTANCE MoeOffload
            WITH NumLayers <- 2, NumExperts <- 2, CacheSizes <- {1, 3, 4, 5}, FirstSize <- 5,
                 Overlap <- TRUE, HitD2d <- TRUE, Hybrid <- FALSE, MaxFetch <- 0, FetchQ16 <- 0,
                 MaxRouted <- 2, MaxPasses <- 3, MaxResets <- 0, MaxRebuilds <- 2
Capped == INSTANCE MoeOffload
            WITH NumLayers <- 2, NumExperts <- 3, CacheSizes <- {3}, FirstSize <- 3,
                 Overlap <- FALSE, HitD2d <- FALSE, Hybrid <- TRUE, MaxFetch <- 2,
                 FetchQ16 <- 0, MaxRouted <- 3, MaxPasses <- 3, MaxResets <- 0,
                 MaxRebuilds <- 0
Balanced == INSTANCE MoeOffload
            WITH NumLayers <- 2, NumExperts <- 3, CacheSizes <- {4}, FirstSize <- 4,
                 Overlap <- FALSE, HitD2d <- FALSE, Hybrid <- TRUE, MaxFetch <- 0,
                 FetchQ16 <- 39322, MaxRouted <- 3, MaxPasses <- 3, MaxResets <- 0,
                 MaxRebuilds <- 0

(* The thread pool: pass 1, the preparation of the intermediate rows, pass 2 *)
AllWorkers  == {w1, w2, w3, w4}
ThreePhases == <<2, 1, 2>>
Threads == INSTANCE CpuMoePool WITH Workers <- AllWorkers, Items <- ThreePhases, MaxTasks <- 3
WorkerSymmetry == Permutations(AllWorkers)

(* The doorbells: one layer behind a flag and one behind callbacks; two flags *)
Mixed == INSTANCE CpuMoeFlags
            WITH NumLayers <- 2, FlagCapacity <- 1, MaxSteps <- 3, Ahead <- 2, TickLimit <- 2,
                 MayDie <- {"scan", "run"}
Flagged == INSTANCE CpuMoeFlags
            WITH NumLayers <- 2, FlagCapacity <- 2, MaxSteps <- 2, Ahead <- 2, TickLimit <- 2,
                 MayDie <- {"scan"}

(* The rebuild of the caches, for three kinds of model *)
Latent == INSTANCE CacheRebuild
            WITH Pools <- LatentPools, Start <- LatentStart, Least <- LatentLeast,
                 Cost <- LatentCost, Sizes <- 0..4, Budget <- 5, Longest <- 3, Forgetful <- {},
                 MaxFaults <- 3, MaxRequests <- 3
Windowed == INSTANCE CacheRebuild
            WITH Pools <- WindowPools, Start <- WindowStart, Least <- WindowLeast,
                 Cost <- WindowCost, Sizes <- {1, 2, 4, 6}, Budget <- 12, Longest <- 5,
                 Forgetful <- {}, MaxFaults <- 2, MaxRequests <- 2
Gated == INSTANCE CacheRebuild
            WITH Pools <- HybridPools, Start <- HybridStart, Least <- HybridLeast,
                 Cost <- HybridCost, Sizes <- 1..3, Budget <- 7, Longest <- 2,
                 Forgetful <- {"pages", "mamba"}, MaxFaults <- 2, MaxRequests <- 2

ASSUME InstancesSound ==
    /\ Split!SizesAssumption /\ Streamed!SizesAssumption /\ Resized!SizesAssumption
    /\ Capped!SizesAssumption /\ Balanced!SizesAssumption
    /\ Threads!PoolAssumption /\ Mixed!FlagsAssumption /\ Flagged!FlagsAssumption
    /\ Latent!RebuildAssumption /\ Windowed!RebuildAssumption /\ Gated!RebuildAssumption

Init ==
    \/ /\ \/ instance = "split"    /\ Split!Init
          \/ instance = "streamed" /\ Streamed!Init
          \/ instance = "resized"  /\ Resized!Init
          \/ instance = "capped"   /\ Capped!Init
          \/ instance = "balanced" /\ Balanced!Init
       /\ NoPool /\ NoFlags /\ NoCaches /\ stale = Unused
    \/ /\ instance = "threads" /\ Threads!Init
       /\ NoOffload /\ NoFlags /\ NoCaches /\ done = Unused /\ host = Unused /\ stale = Unused
    \/ /\ \/ instance = "mixed"   /\ Mixed!Init
          \/ instance = "flagged" /\ Flagged!Init
       /\ NoOffload /\ NoPool /\ NoCaches
    \/ /\ \/ instance = "latent"   /\ Latent!Init
          \/ instance = "windowed" /\ Windowed!Init
          \/ instance = "gated"    /\ Gated!Init
       /\ NoOffload /\ NoPool /\ NoFlags /\ done = Unused /\ host = Unused

NextOffload ==
    /\ \/ instance = "split"    /\ Split!Next
       \/ instance = "streamed" /\ Streamed!Next
       \/ instance = "resized"  /\ Resized!Next
       \/ instance = "capped"   /\ Capped!Next
       \/ instance = "balanced" /\ Balanced!Next
    /\ UNCHANGED <<instance, stale, poolVars, flagVars, cacheVars>>

NextPool ==
    /\ instance = "threads" /\ Threads!Next
    /\ UNCHANGED <<instance, done, host, stale, offloadVars, flagVars, cacheVars>>

NextFlags ==
    /\ \/ instance = "mixed"   /\ Mixed!Next
       \/ instance = "flagged" /\ Flagged!Next
    /\ UNCHANGED <<instance, offloadVars, poolVars, cacheVars>>

NextCaches ==
    /\ \/ instance = "latent"   /\ Latent!Next
       \/ instance = "windowed" /\ Windowed!Next
       \/ instance = "gated"    /\ Gated!Next
    /\ UNCHANGED <<instance, done, host, offloadVars, poolVars, flagVars>>

Next == NextOffload \/ NextPool \/ NextFlags \/ NextCaches

Spec == Init /\ [][Next]_vars

-----------------------------------------------------------------------------
(* For as long as an expert GEMM runs, the slots it reads hold every bank  *)
(* of the experts routed to, in decode and in prefill: no fetch, eviction, *)
(* copy, reset or rebuild of another pass reaches a slot still being read  *)
(* (MoeOffload.ForwardReadsItsExperts).                                    *)
ForwardReadsItsExperts ==
    /\ instance = "split"    => Split!ForwardReadsItsExperts
    /\ instance = "streamed" => Streamed!ForwardReadsItsExperts
    /\ instance = "resized"  => Resized!ForwardReadsItsExperts

(* The kernel and the CPU reference place the same experts in the same     *)
(* slots, and no other split of a step's misses between bus and CPU would  *)
(* end earlier (KernelIsReference, CapIsBest, MapIsInverse).               *)
HybridIsReference ==
    /\ instance = "capped"   => Capped!KernelIsReference /\ Capped!MapIsInverse
    /\ instance = "balanced" => Balanced!KernelIsReference /\ Balanced!CapIsBest

(* When sync returns every item of the task has run exactly once, no phase *)
(* before the one it needs was over, and no worker is left in a task that  *)
(* is gone (CpuMoePool.TasksRunOnce).                                      *)
TasksRunOnce == instance = "threads" => Threads!TasksRunOnce

(* A stream that goes on with a result that is not its own layer's does so *)
(* only under a raised err, whoever is slow, dies or is poisoned; no step  *)
(* enqueued after that reaches a client (CpuMoeFlags.StaleIsSeen).         *)
StaleIsSeen ==
    /\ instance = "mixed"   => Mixed!StaleIsSeen
    /\ instance = "flagged" => Flagged!StaleIsSeen

(* An engine back in service after a rebuild is whole, whatever was asked, *)
(* refused or failed on the way; a rejection leaves the sizes that served; *)
(* an ok gives what was asked; and one step that raises does not take the  *)
(* server down (ServingIsWhole, RejectedRestores, OkIsRequested,           *)
(* OneFaultIsSurvived; not the last for a model with a state pool).        *)
RebuildsHold ==
    /\ instance = "latent" => Latent!ServingIsWhole /\ Latent!RejectedRestores
                                /\ Latent!OkIsRequested /\ Latent!OneFaultIsSurvived
    /\ instance = "windowed" => Windowed!ServingIsWhole /\ Windowed!RejectedRestores
                                  /\ Windowed!OkIsRequested /\ Windowed!OneFaultIsSurvived
    /\ instance = "gated" => Gated!ServingIsWhole /\ Gated!RejectedRestores
=============================================================================
