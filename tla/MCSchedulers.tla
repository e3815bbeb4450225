---------------------------- MODULE MCSchedulers ----------------------------
(***************************************************************************)
(* Five instances of Scheduler in one state space for TLC: a behaviour     *)
(* picks one and runs it alone.  "chunks" has the constants of the         *)
(* configuration, the others differ from it as stated.                     *)
(***************************************************************************)
EXTENDS MCScheduler

VARIABLE instance

\* A pool the requests fill, and prompts that begin alike.
Tight == INSTANCE MCScheduler
            WITH PoolSizes <- {4}, ClientRequests <- SharedPrefix, PrefillBudget <- 2,
                 MayAbort <- {1, 2}

\* normal_loop: a batch is drained in the iteration that launched it.
Normal == INSTANCE MCScheduler
            WITH PoolSizes <- {4}, ClientRequests <- SharedPrefix, PrefillBudget <- 2,
                 Overlap <- FALSE

\* Pages of two tokens.
Paged == INSTANCE MCScheduler
            WITH PoolSizes <- {4}, PageSize <- 2, MaxLen <- 8, ClientRequests <- PagedRequests,
                 PrefillBudget <- 3

\* Rebuilds to a pool of another size, with two requests at most (bound).
Rebuilds == INSTANCE MCScheduler
            WITH PoolSizes <- {3, 4}, ClientRequests <- SharedPrefix,
                 PrefillBudget <- 2, MaxRebuilds <- 2

OneInit ==
    \/ instance = "chunks"   /\ Init
    \/ instance = "tight"    /\ Tight!Init
    \/ instance = "normal"   /\ Normal!Init
    \/ instance = "paged"    /\ Paged!Init
    \/ instance = "rebuilds" /\ Rebuilds!Init

TwoAsk == request'[3] = NoRequest

OneNext ==
    /\ \/ instance = "chunks"   /\ Next
       \/ instance = "tight"    /\ Tight!Next
       \/ instance = "normal"   /\ Normal!Next
       \/ instance = "paged"    /\ Paged!Next
       \/ instance = "rebuilds" /\ Rebuilds!Next /\ TwoAsk
    /\ UNCHANGED instance

OneSpec == OneInit /\ [][OneNext]_<<vars, instance>>

View ==
    <<instance,
      CASE instance = "paged"    -> Paged!Shape
        [] instance = "rebuilds" -> Rebuilds!Shape
        [] OTHER                 -> Shape>>

-----------------------------------------------------------------------------
(* SlotsConserved, RepliesWellFormed, AckedHoldsNothing and IdleHoldsNothing *)
(* read no constant that differs and are checked as Scheduler states them. *)

(* No batch needs more pages than are free or evictable: the assertions of *)
(* _allocate and evict never fire, when nothing overcommits a page         *)
(* (Scheduler.AllocationNeverFails where a page is one token, and where it *)
(* is two).  Nor does a shortage stop the loop: it has no step to take     *)
(* only where it waits for messages, or where a rebuild left it nothing to *)
(* serve with (the costlier StopsOnlyIdle where the pool is smallest).     *)
PagesSuffice ==
    CASE instance = "chunks"   -> AllocationNeverFails
      [] instance = "tight"    -> Tight!AllocationNeverFails
      [] instance = "normal"   -> Normal!AllocationNeverFails
      [] instance = "paged"    -> Paged!AllocationNeverFails
      [] instance = "rebuilds" -> Rebuilds!AllocationNeverFails /\ Rebuilds!StopsOnlyIdle

(* The scheduler implements KVCache: it drives the cache manager as that   *)
(* module assumes, in every order of messages, batches, drains and         *)
(* rebuilds (Scheduler.CacheProtocol in the instances named here).         *)
CacheInit ==
    CASE instance = "chunks"   -> KV!Init
      [] instance = "paged"    -> Paged!KV!Init
      [] instance = "rebuilds" -> Rebuilds!KV!Init
      [] OTHER                 -> TRUE

CacheStep ==
    CASE instance = "chunks"   -> [KV!Next]_(KV!vars)
      [] instance = "paged"    -> [Paged!KV!Next]_(Paged!KV!vars)
      [] instance = "rebuilds" -> [Rebuilds!KV!Next]_(Rebuilds!KV!vars)
      [] OTHER                 -> TRUE

CacheDriven == CacheInit /\ [][CacheStep]_vars
=============================================================================
