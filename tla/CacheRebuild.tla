---------------------------- MODULE CacheRebuild ----------------------------
(***************************************************************************)
(* The resize of the caches of an engine that serves: the scheduler's      *)
(* transaction (_execute_pending_rebuild, rebuild_cache) over the engine's *)
(* (rebuild_runtime_cache), the pools it reallocates in place, the graphs  *)
(* it captures again, and the way back when any step of it fails.          *)
(*                                                                         *)
(* The scheduler is idle while it runs (Scheduler.tla has the wait for     *)
(* that): no request holds a page, a slot or a snapshot.                   *)
(***************************************************************************)
EXTENDS Integers, FiniteSets, FiniteSetsExt

CONSTANTS Pools,       \* the pools of the model: "pages" and some of "moe", "mamba", "window"
          Sizes,       \* the sizes that a client may ask for
          Start,       \* the sizes at startup
          Least,       \* the least size of a pool that can run
          Cost,        \* bytes of one unit of a pool
          Budget,      \* net_cache_budget_bytes
          Longest,     \* config.max_seq_len, in pages
          Forgetful,   \* the pools that read their geometry off the tensors they replace
          MaxFaults,   \* bound: steps that raise
          MaxRequests  \* bound: requests for a rebuild

RebuildAssumption ==
    /\ "pages" \in Pools /\ Pools \subseteq {"pages", "moe", "mamba", "window"}
    /\ Forgetful \subseteq Pools
    /\ Sizes \subseteq Nat /\ Budget \in Nat /\ Longest \in Nat
    /\ MaxFaults \in Nat /\ MaxRequests \in Nat
    /\ \A p \in Pools : Start[p] \in Nat \ {0} /\ Least[p] \in Nat \ {0} /\ Cost[p] \in Nat

VARIABLES
    built,    \* the size of the tensors of each pool; 0 if they are gone
    count,    \* the size each pool (the engine, for its pages) says it has
    pin,      \* config.swa_num_pages_override; 0 for None
    width,    \* the columns of engine.page_table, in pages
    graphs,   \* what the captured graphs are bound to, of what is live
    scratch,  \* the attention backend holds capture buffers
    stale,    \* the managers that still point at a page table that was replaced
    free,     \* what the managers may hand out: pages of the KV pool, slots of the state pool
    tree,     \* the prefix cache: "empty", "valid", or "stale" when its tensors are gone
    cap,      \* CacheManager.prefill_chunk_budget, as the window it was computed from
    chunk,    \* Scheduler.prefill_budget, likewise
    at,       \* the step of the transaction; "idle" when there is none, "failed" after the last
    goal,     \* the arguments of rebuild_cache: a size for some pools
    prior,    \* the sizes to go back to
    back,     \* going back
    torn,     \* engine.rebuild_teardown_started
    reply,    \* the last CacheRebuildResultMsg
    faults,   \* steps that raised; bounded
    requests, \* requests; bounded
    was       \* history: the pools and the prefix cache when the request arrived

poolVars == <<built, count, pin>>
bindVars == <<width, graphs, scratch, stale, free, tree, cap, chunk>>
workVars == <<at, goal, prior, back, torn>>
vars == <<poolVars, bindVars, workVars, reply, faults, requests, was>>

Larger(a, b)  == IF a >= b THEN a ELSE b
Smaller(a, b) == IF a <= b THEN a ELSE b

(* What a captured graph holds the addresses of *)
Things == Pools \union {"table"}

Data == Pools \ {"moe"}   \* the pools that the prefix cache points into

(* The window pool: a target, else the pinned size, else half of the full  *)
(* pages (swa_full_tokens_ratio), and never below its floor                *)
WindowFor(pages, target) ==
    LET wanted == IF target # 0 THEN target ELSE IF pin # 0 THEN pin ELSE pages \div 2
    IN  Larger(Least["window"], wanted)

GoalOr0(p) == IF p \in DOMAIN goal THEN goal[p] ELSE 0

(* The geometry that the arguments ask for *)
Target ==
    [p \in Pools |->
        CASE p \in DOMAIN goal /\ p # "window" -> goal[p]
          [] p = "window" /\ DOMAIN goal \intersect {"pages", "window"} # {} ->
                WindowFor(IF "pages" \in DOMAIN goal THEN goal["pages"] ELSE count["pages"],
                          GoalOr0("window"))
          [] OTHER -> count[p]]

Bytes(geometry) == MapThenSumSet(LAMBDA p : Cost[p] * geometry[p], Pools)

-----------------------------------------------------------------------------
(* _reply_rebuild, and what rebuild_cache's caller does next *)
Answer(status) ==
    /\ reply' = [status |-> status, sizes |-> count']
    /\ at' = IF status = "failed" THEN "failed" ELSE "idle"
    /\ back' = FALSE
    /\ UNCHANGED <<goal, prior, requests, was>>

\* _current_cache_geometry, of the pools that the request touches.
PriorOf(r) == [p \in DOMAIN r |-> count[p]]

(* _execute_pending_rebuild begins *)
Request(r) ==
    /\ at = "idle" /\ requests < MaxRequests
    /\ requests' = requests + 1
    /\ goal' = r
    /\ prior' = PriorOf(r)
    /\ torn' = FALSE /\ back' = FALSE
    /\ at' = "validate"
    /\ was' = [pools |-> DOMAIN r, sizes |-> built, tree |-> tree, faults |-> faults]
    /\ UNCHANGED <<poolVars, bindVars, reply, faults>>

(* The checks of rebuild_runtime_cache and validate_rebuild *)
Admissible ==
    /\ \A p \in DOMAIN goal \ {"window"} : goal[p] >= Least[p]
    /\ \A p \in DOMAIN goal : goal[p] > 0
    /\ Bytes(Target) <= Budget

(* A step raised, with teardown_started as given: nothing was touched, or   *)
(* go back, or give up                                                     *)
Raised(started) ==
    /\ torn' = started
    /\ \/ /\ ~started /\ ~back
          /\ Answer("rejected")
       \/ /\ started /\ ~back
          /\ goal' = prior /\ back' = TRUE /\ at' = "validate"
          /\ UNCHANGED <<prior, reply, requests, was>>
       \/ /\ back
          /\ Answer("failed")

Raise == Raised(torn)

(* An unforeseen error in a step, or no memory for it *)
Fault(step) == at = step /\ faults < MaxFaults /\ faults' = faults + 1

Onwards(step) ==
    /\ at' = step
    /\ UNCHANGED <<goal, prior, back, torn, reply, requests, was>>

Validate ==
    /\ at = "validate"
    /\ UNCHANGED <<poolVars, bindVars, faults>>
    /\ IF Admissible THEN Onwards("teardown") ELSE Raise

ValidateFails ==
    /\ Fault("validate")
    /\ UNCHANGED <<poolVars, bindVars>>
    /\ Raise

(* reset_capture leaves no capture buffers, whatever was captured *)
Rearmed == FALSE

(* The point of no return: the graphs go *)
Teardown ==
    /\ at = "teardown"
    /\ torn' = TRUE
    /\ graphs' = {}
    /\ scratch' = Rearmed
    /\ at' = "moe"
    /\ UNCHANGED <<poolVars, width, stale, free, tree, cap, chunk, goal, prior, back, reply, faults,
                   requests, was>>

TeardownFails ==
    /\ Fault("teardown")
    /\ UNCHANGED <<poolVars, bindVars>>
    /\ Raised(TRUE)

-----------------------------------------------------------------------------
(* Resizing in place: the old tensors go before the new ones come *)

Invalidated(ps) == IF ps \intersect Data # {} /\ tree = "valid" THEN "stale" ELSE tree

(* The resize reads the old tensors for its geometry, and they are gone *)
Lost(ps) == \E p \in ps \intersect Forgetful : built[p] = 0

Sized(f, ps) == [p \in Pools |-> IF p \in ps THEN Target[p] ELSE f[p]]
Gone(ps)     == [p \in Pools |-> IF p \in ps THEN 0 ELSE built[p]]

(* cache_size, the window's size and the slots are set by the pools,       *)
(* engine.num_pages when the KV pool is there                              *)
CountsFirst(ps) == ps \intersect {"moe", "window"}

(* The resize of the pools ps, and what the step leaves besides *)
Resize(ps, step) ==
    /\ ~Lost(ps)
    /\ built' = Sized(built, ps) /\ count' = Sized(count, ps)
    /\ tree' = Invalidated(ps)
    /\ Onwards(step)
    /\ UNCHANGED <<width, graphs, scratch, stale, cap, chunk, faults>>

(* Out of memory: the old tensors are gone and the new are not there *)
ResizeFails(ps) ==
    /\ ~Lost(ps)
    /\ Fault(at)
    /\ built' = Gone(ps) /\ count' = Sized(count, CountsFirst(ps))
    /\ tree' = Invalidated(ps)
    /\ UNCHANGED <<width, graphs, scratch, stale, cap, chunk, free>>
    /\ Raise

ResizeLost(ps) ==
    /\ Lost(ps)
    /\ UNCHANGED <<poolVars, bindVars, faults>>
    /\ Raise

(* The window is pinned first, so that the pools are sized to it *)
Pinned == IF "window" \in DOMAIN goal THEN goal["window"] ELSE pin

Moe ==
    /\ at = "moe"
    /\ pin' = Pinned
    /\ \/ /\ "moe" \in DOMAIN goal
          /\ \/ Resize({"moe"}, "pages") /\ UNCHANGED free
             \/ ResizeFails({"moe"})
       \/ /\ "moe" \notin DOMAIN goal
          /\ Onwards("pages")
          /\ UNCHANGED <<built, count, bindVars, faults>>

(* The pages and the window are one pool *)
KVPool == Pools \intersect {"pages", "window"}

Pages ==
    /\ at = "pages"
    /\ \/ /\ DOMAIN goal \intersect KVPool # {}
          /\ \/ Resize(KVPool, "mamba") /\ UNCHANGED <<pin, free>>
             \/ UNCHANGED pin /\ ResizeFails(KVPool)
             \/ ResizeLost(KVPool)
       \/ /\ DOMAIN goal \intersect KVPool = {}
          /\ Onwards("mamba")
          /\ UNCHANGED <<poolVars, bindVars, faults>>

Mamba ==
    /\ at = "mamba"
    /\ \/ /\ "mamba" \in DOMAIN goal
          /\ \/ /\ Resize({"mamba"}, "seq")
                /\ free' = [free EXCEPT !.slots = goal["mamba"]]
                /\ UNCHANGED pin
             \/ UNCHANGED pin /\ ResizeFails({"mamba"})
             \/ ResizeLost({"mamba"})
       \/ /\ "mamba" \notin DOMAIN goal
          /\ Onwards("seq")
          /\ UNCHANGED <<poolVars, bindVars, faults>>

(* _refresh_seq_state: the table follows the pages, up to config.max_seq_len *)
Columns == Smaller(Longest, count["pages"])

Seq ==
    /\ at = "seq"
    /\ width' = Columns
    /\ stale' = IF Columns # width THEN {"cache", "table"} ELSE stale
    /\ Onwards("capture")
    /\ UNCHANGED <<poolVars, graphs, scratch, free, tree, cap, chunk, faults>>

SeqFails ==
    /\ Columns # width
    /\ Fault("seq")
    /\ UNCHANGED <<poolVars, bindVars>>
    /\ Raise

(* GraphRunner: "Capture already initialized", or the graphs are there *)
Capture ==
    /\ at = "capture"
    /\ UNCHANGED <<poolVars, width, stale, free, tree, cap, chunk, faults>>
    /\ IF scratch
       THEN Raise /\ UNCHANGED <<scratch, graphs>>
       ELSE Onwards("managers") /\ scratch' = TRUE /\ graphs' = Things

CaptureFails ==
    /\ ~scratch
    /\ Fault("capture")
    /\ scratch' \in BOOLEAN
    /\ UNCHANGED <<poolVars, width, graphs, stale, free, tree, cap, chunk>>
    /\ Raise

SlotsOf(f)  == IF "mamba" \in Pools THEN f["mamba"] ELSE 0
WindowOf(f) == IF "window" \in Pools THEN f["window"] ELSE 0

\* Fault: the window's resize does not start a new prefix cache.
StartsAnew_notWindow == DOMAIN goal \intersect {"pages", "mamba"} # {}

(* A resize of anything the prefix cache points into starts a new one *)
StartsAnew == DOMAIN goal \intersect {"pages", "mamba", "window"} # {}

(* The rest of rebuild_cache: the managers follow, and the caller replies *)
Managers ==
    /\ at = "managers"
    /\ IF StartsAnew
       THEN /\ free' = [pages |-> count["pages"], slots |-> SlotsOf(count)]
            /\ tree' = "empty"
            /\ stale' = stale \ ({"cache"} \union (IF "pages" \in DOMAIN goal THEN {"table"}
                                                                              ELSE {}))
       ELSE UNCHANGED <<free, tree, stale>>
    /\ chunk' = cap
    /\ UNCHANGED <<poolVars, width, graphs, scratch, cap, torn, faults>>
    /\ Answer(IF back THEN "rejected" ELSE "ok")

ManagersFail ==
    /\ Fault("managers")
    /\ UNCHANGED <<poolVars, bindVars>>
    /\ Raise

(* Requests are served and leave a page, and a snapshot, in the prefix cache *)
Serve ==
    /\ at = "idle" /\ tree = "empty"
    /\ tree' = "valid"
    /\ free' = [pages |-> free.pages - 1, slots |-> Larger(free.slots - 1, 0)]
    /\ UNCHANGED <<poolVars, width, graphs, scratch, stale, cap, chunk, workVars, reply, faults,
                   requests, was>>

-----------------------------------------------------------------------------
Init ==
    /\ built = Start /\ count = Start /\ pin = 0
    /\ width = Smaller(Longest, Start["pages"])
    /\ graphs = Things /\ scratch = TRUE /\ stale = {}
    /\ free = [pages |-> Start["pages"], slots |-> SlotsOf(Start)]
    /\ tree = "empty" /\ cap = WindowOf(Start) /\ chunk = WindowOf(Start)
    /\ at = "idle" /\ goal = Start /\ prior = Start /\ back = FALSE /\ torn = FALSE
    /\ reply = [status |-> "none", sizes |-> Start]
    /\ faults = 0 /\ requests = 0
    /\ was = [pools |-> {}, sizes |-> Start, tree |-> "empty", faults |-> 0]

Transaction ==
    \/ Validate \/ ValidateFails \/ Teardown \/ TeardownFails
    \/ Moe \/ Pages \/ Mamba \/ Seq \/ SeqFails \/ Capture \/ CaptureFails
    \/ Managers \/ ManagersFail

Next ==
    \/ \E ps \in SUBSET Pools \ {{}} : \E r \in [ps -> Sizes] : Request(r)
    \/ Transaction
    \/ Serve

(* The transaction is one call on the scheduler's thread *)
Spec == Init /\ [][Next]_vars /\ WF_vars(Transaction)

-----------------------------------------------------------------------------
Steps == {"validate", "teardown", "moe", "pages", "mamba", "seq", "capture", "managers"}

TypeOK ==
    /\ \A p \in Pools : built[p] \in Nat /\ count[p] \in Nat \ {0}
    /\ at \in Steps \union {"idle", "failed"}
    /\ graphs \in {{}, Things} /\ stale \subseteq {"cache", "table"}
    /\ tree \in {"empty", "valid", "stale"}
    /\ at \in Steps \ {"validate", "teardown"} => torn /\ goal # <<>>

(* Whatever was asked, refused or failed on the way, an engine that is     *)
(* back in service is whole: every pool has tensors of the size it says,   *)
(* the graphs, the page table and the managers' free lists are of these,   *)
(* and the prefix cache points at nothing that is gone.                    *)
ServingIsWhole ==
    at = "idle" =>
        /\ \A p \in Pools : built[p] = count[p]
        /\ graphs = Things /\ stale = {}
        /\ width = Columns
        /\ tree # "stale"
        /\ free.pages + (IF tree = "valid" THEN 1 ELSE 0) = built["pages"]
        /\ "mamba" \in Pools =>
               free.slots + (IF tree = "valid" THEN 1 ELSE 0) = built["mamba"]

(* A rejection leaves the sizes that served before, also after a way back  *)
(* ("rebuild failed and was rolled back"), and the reply says so.          *)
RejectedRestores ==
    at = "idle" /\ reply.status = "rejected" => built = was.sizes /\ reply.sizes = built

(* An ok reply gives what was asked (a window not below its floor), within *)
(* the budget, and leaves the pools that were not named as they were       *)
(* (except that an unpinned window follows the pages).                     *)
OkIsRequested ==
    at = "idle" /\ reply.status = "ok" =>
        /\ reply.sizes = built /\ Bytes(built) <= Budget
        /\ \A p \in Pools :
              CASE p \in DOMAIN goal /\ p # "window" -> built[p] = goal[p]
                [] p = "window" /\ p \in DOMAIN goal ->
                      built[p] = Larger(Least[p], goal[p])
                [] p = "window" /\ "pages" \in DOMAIN goal /\ pin = 0 -> TRUE
                [] OTHER -> built[p] = was.sizes[p]

(* A request that never began, or that only touched the experts, keeps the *)
(* prefix cache ("would ... wipe the prefix cache that a successful resize *)
(* of just the requested pool preserves").                                 *)
PrefixCacheKept ==
    [][at # "idle" /\ at' = "idle" /\ (~torn \/ was.pools = {"moe"})
          => tree' = was.tree]_vars

(* "Only if the rollback ALSO fails is the engine genuinely wedged": one   *)
(* step that raises does not take the server down.                         *)
OneFaultIsSurvived == at = "failed" => faults - was.faults >= 2

(* "The prefill chunk cap tracks the CURRENT window-pool size (DSV4)" *)
ChunkTracksWindow == at = "idle" => chunk = WindowOf(built)

(* Every rebuild that began is answered. *)
RebuildAnswered == at = "validate" ~> at \in {"idle", "failed"}
=============================================================================
