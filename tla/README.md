# FreeToken: a TLA+ model of the serving engine

FreeToken is an LLM serving engine.  One process per GPU rank runs a *scheduler*
that batches requests, hands them KV-cache pages and table slots, launches
forward passes and drains their results one batch later.  An *engine* below it
keeps the pools, the graphs and, for mixture-of-experts models, a cache of expert
weights that live in host memory.  Tokenizer workers and an HTTP *front end* feed
it and turn what it samples back into text, reasoning and tool calls for three
client protocols.  A *daemon* starts, stops and restarts the whole server.  This
directory models all five layers, checks them with TLC on small instances, and
proves with TLAPS what matters most for instances of any size.

Paths below are relative to `src/python/freetoken/`.

## 1. Inventory of the system

| Part | State | Operations | Talks to |
|---|---|---|---|
| Radix prefix cache, `kvcache/radix_cache.py` | tree of token segments with the pages of their KV, `ref_count`, timestamps; `evictable_size`, `protected_size` | `match_prefix` (splits a node it ends inside), `insert_prefix`, `lock_handle`, `evict`, `reset` | called by the CacheManager |
| CacheManager, `scheduler/cache.py` | `free_slots`, the page table, the prefix cache | `match_req`, `lock`/`unlock`, `allocate_paged`, `cache_req(finished)`, `rebuild`, `lazy_free_region`, `check_integrity` | prefill manager, scheduler |
| Prefill, decode and table managers, `scheduler/prefill.py`, `decode.py`, `table.py` | `pending_list`, `chunked_req`, budget and reservation of a pass; `running_reqs`; free table slots | `add_one_req`, `schedule_next_batch`, `filter_reqs`, `abort_req`, `allocate`, `free` | CacheManager |
| Scheduler loop, `scheduler/scheduler.py` | `_last_data` (the batch in flight), `finished_reqs`, abort tombstones, pending acknowledgements, pending rebuild | `overlap_loop`, `normal_loop`, `_process_one_msg`, `_execute_pending_rebuild`, `_process_last_data`, `_free_req_resources`, `_flush_abort_acks` | tokenizer worker (queues), engine |
| Hybrid cache, `kvcache/hybrid_radix_cache.py`, `linear_state_pool.py` | the tree with recurrent-state snapshots on nodes, tombstones; a pool of state slots | `match_prefix`, `insert`, `inc_lock`/`dec_lock`, `evict_full`, `evict_mamba` | CacheManager |
| Sliding-window cache, `kvcache/swa_radix_cache.py`, `hybrid_swa_pool.py` | the tree with a second page pool for the window, tombstones, window locks | `insert`, `inc_lock`/`dec_lock`, `evict_swa`, `trim_head_swa` | CacheManager |
| Engine and its pools, `engine/engine.py` | pools of pages, states, window slots and expert slots; captured graphs; page table | `forward_batch`, `rebuild_runtime_cache` | scheduler |
| Expert offload, `moe/offload_cache.py`, `offload_kernels.py`, `layers/moe.py` | slot map, usage and recency of experts, two borrowed prefill buffers, events of two streams | `ensure_experts`, `materialize_layer`, `prefetch_prefill_layer`, `invalidate`, resize | engine, CPU pool |
| CPU experts, `kernel/csrc/cpu_moe/cpu_moe_ext.cpp`, `moe/cpu_executor.py` | task counters, barrier and generation of the worker pool; ready/done/err flags | `submit`, `sync`, worker loop; coordinator, watchdog, `raise_if_unhealthy` | GPU stream |
| Front end, `server/api_server.py`, `accounting.py`, `stats.py`, `supervisor.py` | `maintenance_state`, reply queues per uid, rebuild futures, in-flight statistics, the sealed accounting | `new_user`, `listen`, `abort_user`, `dispatch_rebuild`, `_resolve_rebuild`, `prepare_stop_accounting`; supervisor callbacks | tokenizer workers, daemon |
| Tokenizer workers, `tokenizer/server.py`, `detokenize.py` | decode state per uid | one drain: admissions, sampled tokens, terminal replies | front end, scheduler |
| Parsers and adapters, `server/reasoning_parser.py`, `function_call_parser.py`, `generation.py`, `openai_api.py`, `anthropic_api.py`, `responses_api.py` | buffers of what may still become a marker; open call; open block | feed a chunk, flush, parse at once | front end |
| Daemon, `daemon/serve_manager.py`, `accounting.py`, `pidfile.py`, `checkpoint.py`, `app.py`, `logring.py` | the child, stop latches, receipts on disk, state file; GPU jobs; the log ring and its readers | `start`, `stop`, `switch`, `shutdown`, `readopt`, monitor, automatic restart; convert, cancel; append, stream | front end over HTTP, operating system |
| Models, kernels, attention, weights, CLI, web UI | tensors, files, layout | forward, load, convert | engine |

What is hard in it, and where it bites, is the hazard list of `PROJECT.json`.
The themes are:

* **One batch ahead.**  With `overlap_loop` the next batch is scheduled and
  launched before the results of the last one are looked at: who runs, what is
  in flight and how long a request is are one batch ahead of the tokens the host
  has seen.
* **Pages with three owners.**  A page is free, in the tree, or a request's own;
  requests publish, dedupe, borrow and give back pages, and the tree is split,
  extended and evicted between a lock and its unlock.  Hybrid and sliding-window
  models add a second currency with its own locks and evictions.
* **Aborts at any moment**: before the request, while it waits, half-way through
  a chunked prompt, while its forward is in flight, in the step after its end.
* **Threads and streams**: two GPU streams that meet only through events, a
  pool of C++ workers with lock-free counters, doorbells in pinned memory, a
  supervisor thread next to an event loop, a monitor thread per child.
* **Maintenance**: a rebuild replaces everything and needs a true idle point and
  a way back; a stop needs an accounting barrier; a crash needs a receipt.
* **Text in pieces**: markers, characters, stop strings and JSON arrive cut
  anywhere, and what was shown cannot be taken back.

What makes each part correct:

* prefix caches: they return the KV (the state, the window) of exactly the tokens
  asked for; reference counts equal the handles held; the size counters equal
  the tree; every page and slot is owned once;
* managers and loop: no slot or page is lost or freed twice; nothing is freed
  under a forward in flight; what is admitted gets its pages; every request,
  abort and rebuild is answered, once and in order;
* engine: a forward reads the experts it was routed to; a task runs once; a stale
  result is flagged; a failed resize leaves a whole engine;
* front end: closed means closed, no waiter is left, the sealed totals are final;
* daemon: one child at a time, one receipt per child, never lost; a log reader
  misses nothing silently;
* text: the client rebuilds what the model said, whatever the chunks.

## 2. The modules

```
RadixTree --+-- KVCache ------- Scheduler      (KV == INSTANCE KVCache, refinement)
            +-- HybridCache
            +-- SlidingCache
Frontend    ServeManager   GpuJobs   LogStream
MoeOffload  CpuMoePool     CpuMoeFlags   CacheRebuild (+ Geometries)
Text --+-- ThinkStream, HarmonyStream, AtemStream
       +-- ToolStream, CallAssembly -- InvokeStream
       +-- CallAssembly -- GenEvents            Detokenizer
MC*: instances for TLC        *_proofs: theorems (section 5)
```

**RadixTree** is `RadixPrefixCache` as operators on a tree value: `page` (stored
prefix to page), `ref` (node to `ref_count`) and the two counters.  A node is
named by the path from the root to its end: `split_at` makes a *new* node for
the shorter path and keeps the longer one's identity, so this name is what a
`RadixCacheHandle` refers to over time.  Timestamps are left out: where the code
evicts the least recently used unlocked leaf, the model may evict any
(`EvictionChoices`), which contains every order of use.

**KVCache** is `CacheManager` over that tree: `AdmitReq`, `AllocatePaged`,
`CacheReqUnfinished`, `CacheReqFinished` and `Reset` are its methods; `Next`
drives them in every order that a scheduler following its protocol may (chunked
prefill, a decode step launched before the prompt's commit, finish or abort at
any point, a refused admission whose match still split the tree, a rebuild at
idle).  `kv` is a history variable: what was written into each page, so that
reading another request's or a freed page's contents is visible.

**Scheduler** is the real loop over the same methods.  `loop` is where the
thread is: `recv`, `admit` (one `try_add_one` per step), `launch`, `drain` (one
request of `_process_last_data` per step).  `last` is `_last_data`, `draining`
the batch whose results are being taken, `plan` the `PrefillAdder`.
`KV == INSTANCE KVCache WITH stage <- Stage` reads the stage of a request off
the batches in flight, and `CacheProtocol` (`KV!Spec`) is the refinement: the
loop uses the cache manager only as KVCache allows, so what is checked and
proved of KVCache for all orders holds of this one.  `_process_one_msg` is
`RecvUser`, `RecvAbort`, `RecvRebuild`; `schedule_next_batch` is
`ContinueChunk`, `AdmitNew`, `RefuseNew`, `StopAdmitting`; `_prepare_batch`,
`_forward` and `filter_reqs` are `Launch`; `_process_last_data` is `DrainChunk`,
`DrainAborted`, `DrainEnded`, `DrainToken`; `_flush_abort_acks` is in
`EndIteration`.  `Launch` has no step when the pages cannot be had: there the
assertions of `_allocate` and `evict` fire.

**HybridCache** adds snapshots of the recurrent state to the tree, the state
slots and the second currency of admission (`_cache_req_hybrid`, anchors, the
snapshot copied by a request's first pass).  **SlidingCache** adds the window
pool: tombstones, the window lock that ends at the node a uuid names, revival,
out-of-window frees, chunk cap.  Both drive one request per step, in any order.

**Frontend** interleaves the coroutines of the event loop at their awaits with
the supervisor thread and a backend behind two FIFO queues; `Preempts` lets the
thread switch inside a callback.  **ServeManager** has a transaction that holds
`_lifecycle`, a monitor per generation and pollers of the statistics; a step is a
section under `_cond` or one act outside it.  **GpuJobs** is the conversion slot
and the bench, **LogStream** the ring, the appenders and one reader with its
bounded queue.  A signal for the whole process group ends the workers at any time
around the server's own (`GroupSignal`); `ShutdownKill` is the end that shutdown()
gives to those still there.

**MoeOffload** is host, compute stream and copy stream; a stream runs its queue
in order and the two meet only through event counters.  A GEMM reads for as long
as it is at the head of its queue.  **CpuMoePool** has one program counter per
C++ thread, down to the window between a failed predicate and the sleep of a
condition variable and the two steps of the barrier's last arrival.
**CpuMoeFlags** is stream, coordinator, watchdog, host callback and the engine
loop around one set of flags; the watchdog reads a slot's `ready`, its `done` and the
served count in three steps, between which the others run.  **CacheRebuild** is the resize transaction with a
fault at every step that can fail and the way back; **Geometries** has the pools
of three kinds of model.

**Text** is Python's `str` on sequences of symbols.  **Detokenizer** is the
worker's incremental decode with its hold-back and the scheduler's stop test,
**ThinkStream**, **HarmonyStream** and **AtemStream** the reasoning parsers,
**ToolStream** the tool-call parser with its one-shot twin, **CallAssembly** what
`generate_events` makes of it, **InvokeStream** the two together, **GenEvents**
the events on their way through the three adapters.

Operators whose name ends in a fault (`InheritedRef_zero`, ...) stand before the
definition they vary.  No specification uses them; each is a plausible bug that a
property of the runs detects when it takes the place of the definition
(`mutants` in `PROJECT.json`).

## 3. What the runs check

Components that share no state, and several instances of one component, are
checked in one state space: a variable `instance` is picked at the start and only
that instance moves.  The state space is the *sum* of theirs, not the product.  A
property is then the conjunction of what each instance promises; its comment
names the parts.

| Run | Instances | Shows |
|---|---|---|
| `kvcache` | 3 requests, one with an image, pages of 2 tokens, pools of 4 or 5 pages, prompts that part inside a page | pages owned once, rows and tree hold the right KV, exact reference counts, shared prefixes stay put |
| `scheduler` | `chunks` (budget 1, 3 requests, 5 pages), `tight` (4 pages, two aborts), `normal` (no overlap), `paged` (pages of 2), `rebuilds` (2 rebuilds between pools of 3 and 4) | slots kept, replies well formed, an acknowledged abort is a barrier, allocation never fails, idle is clean, the loop refines KVCache |
| `hybrid` | pages of one token and of two, two requests, chunks of 1 and 2 tokens | both pools conserved, every snapshot and live state is the state after exactly its tokens, the snapshot a request resumes from stays |
| `sliding` | two requests that share, one under pressure of a minimal window pool, pages of two tokens with an image | both pools conserved, window locks exact across splits and tombstones, decode finds its slot, each pass reads its own KV |
| `frontend` | `drain` (two clients against prepare-stop), `retry` (stops, a death, a queue that raises), `rebuilding`, `threads` (switches inside callbacks) | sealed totals final, streams whole, a closed gate stays closed |
| `daemon` | `crashes`, `disk` (receipts fail), `old engine`, `reboot`; `jobs`; `tail`, `both` (two appenders), `turns` (two, no push overtakes another) | receipts before signals, one serve, cancels hold, the log is honest |
| `engine` | five caches of experts (split buffers, streamed, resized, two hybrid splits), three workers on three phases, two flag layouts, three geometries | forwards read their experts, the kernel is its reference, tasks run once, stale results are flagged, rebuilds hold |
| `text` | bytes and stop strings; three marker parsers; harmony; Muse; three tool grammars; three adapters | what streams is what a one-shot parse gives and what the model said |
| `answers` | scheduler and front end under fairness | requests, aborts and rebuilds are answered; callers return |
| `progress` | daemon, expert streams, CPU pool, doorbells under fairness | calls return, cancelled jobs end, streams drain, a dead coordinator is loud |
| `scheduler_length` | 1 request, overlap | **violation**: finding 1 |
| `scheduler_overcommit` | 2 requests, pages of 4 tokens | **violation**: finding 2 |

**Bounds.**  Two requests are needed for any sharing, duplicate or eviction
conflict, a third to overlap an admission with a decode and a drain.  Five pages
of one token hold two whole requests and part of a third; four make admissions
fail and force evictions.  A table of two slots with three requests makes slots
run out; budgets of 1 and 2 cut every prompt in chunks.  `MaxLen` bounds a
request as `max_seq_len` does.  `MaxRebuilds`, `MaxStops`, `MaxCalls`, `MaxGen`,
`MaxBoots`, `MaxAcks`, `MayAbort`, `MaxFaults`, `MaxRequests` bound the
environment, `Generated` the tokens a model may sample; `MaxTombstones` stands for 65,536 and, as in the code, is never too
few.  Three workers and three phases of the pool exercise both directions of the
barrier's sense, with a phase that has fewer items than workers.  Three layers
over two buffers make a buffer be reused; `MaxPasses` is the number of forwards.
A queue of 1 or 2 and a ring of 2 or 3 overflow within four records.  Texts are
up to six symbols, long enough for two markers of two symbols and something
between them; `HoldMax`, `Span`, `Window` scale the code's limits down to where
they are hit.  `CrashBound` (`MCAnswers`) lets a worker die only where there is
at most one of a rebuild and a prepare-stop; it cuts no fair step.

**Reductions.**  `VIEW`s identify states that differ in the names of pages: the
code compares no page numbers, and the free list's order only decides which of
them is handed out, so `PageRole`/`Shape` keep what each page is used for and how
often.  The allocations of HybridCache and SlidingCache take the least free
pages for the same reason.  `SYMMETRY` permutes clients and workers, whose names
the code does not look at, and is used in no run that checks liveness.
`TwoActive` in `kvcache` keeps at most two of the three requests active at once, and
`TwoAsk` lets two of the three clients of `rebuilds` ask.

**Deadlock** is checked in `kvcache`, `hybrid` and `sliding`.  The others model
systems that stop: a server without messages waits, environments run out of
calls, a text ends.  There `PagesSuffice` and the liveness runs say where stopping
is allowed.

**Fairness.**  `answers`: weak fairness of `run_forever`, the scheduler's one
thread, which is never blocked but in its receive; of the event loop's ready
callbacks, the timeouts, the workers and the supervisor thread.  `progress`: weak
fairness of the threads of the daemon, of the device streams, the C++ workers and
the host's call.  Nothing is assumed of clients, of crashes, of signals, of which
token is sampled, of a coordinator that died, or of an engine that ignores
SIGTERM.  Since a drained token may always go on, the length is what ends a
request.

## 4. Findings

Two runs show disagreements between the code and what it says of itself.

1. **`max_tokens` is one short under overlap** (`scheduler_length`).
   `hit_length = not req.can_decode` (`scheduler/scheduler.py:339`) is evaluated
   when a batch is drained, after the next batch, with the same request in it,
   was launched and `complete_one` moved `device_len` on.  A request with
   `max_tokens` of at least 2 that is not stopped by an end token ends with
   reason "length" after `max_tokens - 1` tokens, and the token of the launched
   step is thrown away.  The comment at line 337 and
   `benchmarks/bench_decode_moe.py:15` say otherwise; under `normal_loop` the
   property holds.
2. **The admission estimate ignores page rounding** (`scheduler_overcommit`).
   `_try_allocate_one` (`scheduler/prefill.py:63`) adds up tokens.  With pages of
   four tokens two prompts of five tokens and one output each are admitted to
   three pages in one pass.  When they run short, the assertion of the radix
   cache's `evict` fires (`kvcache/radix_cache.py:179`), before the one of
   `_allocate` (`scheduler/cache.py:625`).

The same method met these while the modules were written.  The runs above are set
up so that they stay clear of them or state what holds nevertheless; each can be
reproduced by checking the stronger property.

| Where | What the code does | Stated instead at |
|---|---|---|
| `kvcache/swa_radix_cache.py:177` | an insert that meets a locked tombstone returns the request's own pages while the re-match of the commit stops before it: the row names freed pages | line 106 (re-match) |
| `daemon/serve_manager.py:800` | `_reap` removes `serve.json` outside the lock and may delete the record of a newer serve | `pidfile.py:7` |
| `daemon/serve_manager.py:321` | `_persist` may raise after the child was installed: it gets no monitor | `serve_manager.py:13` |
| `daemon/serve_manager.py:429` | statistics fetched earlier are booked for the child that replaced theirs | `serve_manager.py:423` |
| `daemon/serve_manager.py:729` | a serve that dies while the daemon is down gets no receipt | `accounting.py:4` |
| `daemon/serve_manager.py:527` | which generations have a receipt is kept in memory only: a second receipt after a reboot | `accounting.py:65` |
| `daemon/serve_manager.py:278` | a start clears the latch that a failed crash receipt set | `serve_manager.py:780` |
| `daemon/checkpoint.py:120` | an old monitor marks the new job of the same id done | `checkpoint.py:30` |
| `daemon/checkpoint.py` (cancel) | with more than one pool thread, a cancel during a spawn would see no process; the pool has one | route layer |
| `daemon/app.py:172` | a serve can be started while a conversion or bench runs | `checkpoint.py:1` |
| `daemon/logring.py:39` | records are numbered under the lock and pushed outside it: a reader may drop one | `app.py:382` |
| `server/api_server.py:989` | `_on_ready` tests and stores the gate without a lock, and may reopen a sealed one | `api_server.py:987` |
| `server/api_server.py:287` | a rebuild reply may undo the latch of a death | `api_server.py:271` |
| `server/api_server.py:537` | the rollback of a rebuild that could not be sent stores serving unconditionally | `api_server.py:160` |
| `daemon/osproc.py:116`, `server/supervisor.py:157` | the signal of a stop reaches every worker of the group (so does ^C); one that dies before the lifespan hook sets its flag is latched as a crash | `api_server.py:71` |
| `server/api_server.py:99` | the exit after a death waits for connections of clients that wait for the dead backend | `api_server.py:1001` |
| `scheduler/scheduler.py:426` | a stop string of multi-byte characters may be longer than the window searched | line 420 |
| `tokenizer/detokenize.py:125` | a last token that ends inside a character loses complete letters before it, and sends the part held back of a stop string that such a token completes | line 130; line 56 ("a partial stop is never streamed") |
| `moe/cpu_executor.py:613` | a coordinator that dies inside a task is never noticed | line 47 |
| `engine/engine.py:876` | a stale step has passed its check before the watchdog condemns it | `cpu_executor.py:263` |
| `server/reasoning_parser.py:169`, `:492`, `:507` | prose glued to an opener is shown as reasoning; text before an unclosed opener is lost at once; an opener after a stripped closer | lines 453-454, 501 |
| `server/reasoning_parser.py:312`, `:319`, `:377` | harmony: half a marker leaks, letters after it are lost, a reply without channels streams nothing | line 71, `generation.py:677` |
| `server/reasoning_parser.py:612` | recipients that contain `to=` | line 565 |
| `server/function_call_parser.py:363`, `:3598`, `:3658` | null in the one-shot parse only; tail text dropped; a cut name | line 3586, 3650 |
| `server/generation.py:595` | a call cut inside a string closes with arguments its fragments do not begin | line 90 |
| `server/anthropic_api.py:538`, `responses_api.py:672` | reasoning while a call is open makes its close a second call | `generation.py:100` |
| `scheduler/cache.py:57` | the chunk limit is copied once and not after a rebuild | `scheduler.py:183` |
| `kvcache/mha_pool.py:65` | the geometry is read off tensors a failed resize has dropped | `scheduler.py:671` |
| `engine/engine.py:792` | the way back is refused where the startup geometry is over budget | `scheduler.py:672` |

## 5. What is proved

TLC checks small instances; these theorems hold for all values of the constants.

| Module | Theorem | Property |
|---|---|---|
| `KVCache_proofs` | `RefsAlwaysCountHandles` | `RefsCountHandles` (run `kvcache`) |
| | `PagesAlwaysConserved` | `PagesConserved` (run `kvcache`) |
| | `SharedPrefixAlwaysStays` | `SharedPrefixStays`, an action property (run `kvcache`) |
| | `TypeAlwaysOK` | `TypeOK` (run `kvcache`) |
| | `SizesAlwaysExact` | `SizesExact` |
| | `EvictableAlwaysReachable` | `EvictableIsReachable` |
| | `AvailableAlwaysUnused` | `AvailableIsUnused` |
| | `TreeAlwaysServesItsTokens` | `TreeServesItsTokens` (run `kvcache`) |
| | `RowsAlwaysHoldOwnKV` | `RowsHoldOwnKV` (run `kvcache`) |
| `Scheduler_proofs` | `SlotsAlwaysConserved` | `SlotsConserved` (run `scheduler`) |
| | `LoopDrivesTheCache` | `CacheProtocol`: `Spec` implements `KVCache!Spec` |
| | `FlightAlwaysHoldsRow` | `InFlightHoldsRow` |
| | `HeldAlwaysReachable` | `HeldIsReachable` |
| | `RepliesAlwaysRead` | `RepliesWellFormed` (run `scheduler`) |
| | `AbortIsBarrier` | `AckedHoldsNothing` (run `scheduler`) |
| | `OneAlwaysChunked` | `OneChunkedPrompt` |
| | `DeviceAlwaysAhead` | `DeviceAheadOfHost` |
| | `AllocationAlwaysSucceeds` | `AllocationNeverFails`, where a page is one token |
| | `IdleAlwaysClean` | `IdleHoldsNothing` (run `scheduler`) |
| | `LoopConservesPages` | KVCache's `PagesConserved`, of `Scheduler!Spec` |
| | `LoopReadsOwnKV` | its `RowsHoldOwnKV` and `TreeServesItsTokens` |
| | `LoopCountsPages` | its `RefsCountHandles`, `SizesExact`, `EvictableIsReachable` |
| `CpuMoePool_proofs` | `EveryItemRunsOnce` | `SyncMeansDone` |
| | `PhasesStayInOrder` | `PhasesInOrder` |
| | `NobodyIsLeftBehind` | `NobodyLeftBehind` |
| | `TasksAlwaysRunOnce` | `TasksRunOnce`, the three together (run `engine`) |
| `CpuMoeFlags_proofs` | `StaleAlwaysFlagged` | `StaleIsFlagged` |
| | `OneCallerAlways` | `PoolHasOneCaller` |
| | `NothingShipsAfterError` | `NothingAfterError` |
| | `CondemnedForOneDoorbell` | `OneDoorbell` |
| | `StaleAlwaysSeen` | `StaleIsSeen`, the four together (run `engine`) |
| `MoeOffload_proofs` | `MapAlwaysInverse` | `MapIsInverse` |
| | `BuffersNeverStolen` | `NeverReusedUnreleased` |
| | `DecodeAlwaysReadsIts` | `DecodeReadsItsExperts` |
| | `PrefillAlwaysReadsIts` | `PrefillReadsItsLayer` |
| | `HitsAlwaysHoldTheirBytes` | `HitsHoldTheirBytes` |
| | `LiveIsAlwaysSnapshot` | `LiveIsSnapshot` |
| | `HitsAlwaysStay` | `HitsStay`, an action property |
| | `ForwardAlwaysReadsItsExperts` | `ForwardReadsItsExperts`, five of these together (run `engine`) |
| `Frontend_proofs` | `BusyAlwaysInflight` | `BusyIsInflight` |
| | `TokensAlwaysCounted` | `Accounts` |
| | `SealedAlwaysFinal` | `SealsWhole`, an action property; and `SealedIsFinal` while `SealedMeansShut` |
| | `GateNeverReopens` | `GateStaysShut`, an action property |
| | `DeathIsLatched` | `DeathOutranks`, an action property |
| | `StopNeverACrash` | `StopIsNotACrash` |
| | `StreamsAlwaysWhole` | `StreamComplete` |
| | `AckMapAlwaysBounded` | `AckMapBounded` |
| `LogStream_proofs` | `RecordsNeverRepeat` | `NoDuplicate` |
| | `NothingIsLostSilently` | `NoSilentLoss` and `GapsHonest`, where no push overtakes another |
| | `LogAlwaysHonest` | `LogIsHonest`, where no push overtakes another (run `daemon`) |

The run named in the table checks the property itself, those of several
instances the conjunction over them.  `CacheProtocol` is checked by `scheduler` for three of its instances at once (`CacheDriven`), and the
properties of the pool and of the doorbells by `engine` (`TasksRunOnce`,
`StaleIsSeen`), those of the front end by `frontend` (`StopIsFinal`, `StreamsWhole`,
`GateHolds`) and those of the log by `daemon` (`LogIsHonest`).  `SizesExact`,
`EvictableIsReachable`, `AvailableIsUnused`, `InFlightHoldsRow`, `HeldIsReachable`,
`OneChunkedPrompt`, `DeviceAheadOfHost`, `Accounts` and `HitsStay` are stated by their theorems only;
`AllocationNeverFails` is a part of `PagesSuffice`, which `scheduler` checks.
`RadixTree_proofs` holds the lemmas about the tree.

**Assumptions.**  `PageSizeAssumption`: a page has at least one token.
`KVCacheAssumption`: finitely many requests and pages, and prompts that fit
`MaxLen` with one token to spare.  `SchedulerAssumption`: a prompt has a token,
`max_tokens` is at least one, and each constant is of its kind, a pool being no larger than
there are pages; too long prompts are allowed, as the loop refuses them.  `PoolAssumption`: at least one worker,
and two or three phases, as `run_current` has, of any number of items, none
included.  `FlagsAssumption`: at least one layer, no more flag slots than layers, one
or two steps in flight, and a coordinator that stops for good only where its thread
can be killed or wedged.  `LogAssumption`: the ring keeps a record and the queue holds
one.  `FrontendAssumption`: finitely many requests, of one token at least.  Some theorems say more in their own statement.  The two about replies
need `Cardinality(MayAbort) <= MaxTombstones`, since the code forgets the oldest of
65,536 marks and a request that arrives after its forgotten abort runs.
`AllocationAlwaysSucceeds` needs `PageSize = 1`, the default of `EngineConfig`; with
larger pages it is false (finding 2).  The condition of `NothingIsLostSilently` and
`LogAlwaysHonest` is on behaviours, for any number of appending threads: records are
numbered under the lock and pushed outside it (`logring.py:39`), and as long as they
are pushed in the order of their numbers (`InTurn`) the log is complete.  A push that
overtakes another costs the reader the one that was overtaken; it never makes a record
appear twice, as `RecordsNeverRepeat` holds of all behaviours.  `SizesAssumption`: a
layer and an expert at least, sizes that are numbers, a first one that holds a layer,
with overlap two.

The theorems of Frontend have no condition on the threads, the queues or the deaths.
`maintenance_state` is read and stored by the event loop and by the supervisor thread
without a lock, so not everything one would like holds: the theorems say exactly which
steps undo what.  A shut gate is opened again only by a step of `Reopens`: the store
of `_on_ready`, where the test saw `loading` and a stop came in between
(`api_server.py:989`); the rollback of a rebuild that could not be sent, where a worker
died meanwhile (`api_server.py:537`); and the store of a callback that a death came into
(`api_server.py:287`, `:291`).  Where threads do not switch inside a callback
(`Preempts = FALSE`) and no put raises (`SendFails = FALSE`), each of them is
excluded by its own guard, so there the gate stays shut.  A seal counts all tokens
there are when it is taken, always; and it stays true for as long as the gate does not
reopen, which is why `SealedIsFinal` is stated under `SealedMeansShut`.
`StopIsNotACrash` is about the workers that shutdown() ends; one that the group's
signal ends may be latched as a crash (section 4).

### The prefix cache and its pages

`RefsCountHandles` is what makes eviction safe (a node in use is never unlocked)
and complete (an unused node never stays locked).  It is not inductive.  A walk
that ends inside a segment splits it and gives the new upper node the
`ref_count` of the old one.  That is right only if no handle ends strictly inside
the segment, which holds because every handle names a *node*, which in turn needs
the tree to be well formed.  Hence `IInv`:

* `TreeInv`: the tree is `WellFormed` (whole pages, closed under prefixes, every
  stored page covered by exactly one lowest segment), counts are exact
  (`RefsMatch`), and every handle is the root or a node (`HandlesIn`);
* `ReqsInv`: handles are prefixes of their request's tokens, `cached_len` does
  not exceed them, idle and multimodal requests hold the root.

`RadixTree_proofs` has one lemma per tree operation, each for an arbitrary
well-formed tree and arbitrary handles: `SplitWellFormed`, `SplitRefs`,
`WalkKeeps`, `InsertKeeps` (the new leaf has no holders, because no prefix of it
was stored), `LockKeeps`, `UnlockKeeps`, `RemoveKeeps` (evicting unlocked leaves
keeps every handle's node).  They rest on the prefix order (`PrefixOrder`) and on
`MatchedSpec`, that the walk ends where the stored pages end.  Every later
invariant has, like this one, one lemma per action and one for the step.

`PagesConserved` needs `PagesInv`.  A commit frees the pages between the handle
and the match "because the tree has them already": right only if the row reads
its first `hit` pages *in the tree* (`RowsInv`, which also gives a row the pages
its computed tokens need).  An eviction gives back as many pages as nodes it
removed: right only if no owner holds a page twice (`OnceInv`).  The rest is
`PoolInv` (what is a page of the pool), `Apart` (no two owners share one) and
`Covered` (every page has one), with `IInv` underneath.  `Handover` is the step
all actions share: a request gives `D` to the free list and `N` to the tree and
keeps `K`.

`SharedPrefixStays` is a property of steps: from `PagesInv`, each action of
another request leaves the first `hit` entries of a row alone, and its own
re-points only what it was not sharing.

`SInv` adds the two size counters to `IInv`; a lock moves the pages of exactly
the nodes whose count leaves zero.  `EvictableIsReachable` follows because the
nodes below an unlocked node are unlocked, so leaves can always be taken.
`AvailableIsUnused` says what these sizes are worth: `available_size` is the size
of the pool less the pages active requests use (`UsedPages`).  It follows from
`PagesInv` and `SInv`, because a page of the tree is locked exactly when a row
reads it.
`TInv` puts `PagesInv`, `SInv` and the shape of the count map together for
`TypeOK`.

`KVInv` is about content: `PagesInv`, `TreeServesItsTokens` and `OwnKV`.
`RowsHoldOwnKV` alone is not inductive, because a write to one page must not
change another row: that is ownership, and the shared part of a row is right
because the tree's pages are.

### The scheduling loop

`LoopInv` says where a request can be.  The managers and batches of the loop
overlap (a request runs, is in the batch in flight and in the batch being drained
at once), and what keeps them from conflicting is never written down in one place:

* `Unasked`, `Waiting`: before its message a uid is nowhere; while it waits it is
  in no other manager and in no batch except as a chunk;
* `Computing`, `Decoding`: what holds a slot is inside its prompt, past what it
  found in the cache, or exactly one token ahead of what is computed;
* `Planned`: the batch being filled is a prefix of the pending list;
* `Launched`, `Drains`: who in a batch may already have ended, and that a final
  prefill is never in two batches;
* `AbortedInFlight`, `Reached`: an aborted request that still holds its slot is in
  the batch that will be drained next; everything that holds a slot runs again or
  ends in a drain.

`AbortedInFlight` is the reason an abort loses no slot, and `Launched` and
`Drains` the reason a finish, an abort and an abort in flight of one request do
not give a slot back twice; `SlotInv` (different holders have different slots,
none of them free) is inductive relative to them.

`LoopDrivesTheCache` is a step simulation under the mapping that reads `stage` off
the batches in flight (`Stage`).  `AdmitIsAdmit`, `LaunchIsExtend` and
`FreeIsFinish` show which step of KVCache an admission, a launch and a release
are; `DrainSteps` that a drained prefill is a `Commit`; `IterateSteps` that a
rebuild happens when nothing is held; `ReceiveSteps`, `TurnSteps` and
`DrainUndrained` that the others stutter, though they change who is in which
batch.  The hard part is `LaunchIsExtend`: one launch extends a whole batch, of
chunks, last chunks and decodes, each within the bounds KVCache's `Extend` allows.

`ReplyInv` adds `Barrier` (an aborted request waits and runs nowhere, is freed by
the drain that comes, and has its tombstone if it has not arrived yet) and
`Answers` (nothing is sent before the admission; what holds a slot was admitted
and has not ended; what was acknowledged is gone).  `OneCut`: a cut uses up the
budget of its batch, and the cut prompt waits in front of the queue, so the next
batch continues it before anything else can be cut.  `Ahead` is
`DeviceAheadOfHost` for each request, with "no token was sent for what still
waits": each of launch, drain and commit moves one side of the equation and a
batch.

KVCache's theorems hold of the loop as well (end of `Scheduler_proofs`): they are
taken from an instance of `KVCache_proofs` whose `stage` is `Stage`, under
`CacheProtocol`.  Its assumption that prompts fit `MaxLen` is the length check of
`_process_one_msg`: Scheduler's KV is given the prompts that pass it, and
`LoopDrivesTheCache` shows that no other is admitted.  The prover keeps the
operators of two instances apart even where they are given the same values, which
is why that part begins by showing them equal (`Same...`).  `IdleHoldsNothing`
then needs both sides: `LoopInv` and `SlotInv` (nobody holds a slot when the loop
is idle) and the cache's `PagesInv` and sizes (pages nobody uses are free or in the
tree, unlocked).

`AllocationNeverFails` is the promise of `PrefillAdder`: what it admits can be
allocated later, step by step, while other requests grow and the cache is evicted.
No number the code keeps says so between two passes: `reserved_size` starts anew
each time.  The invariant is `Room`.  `PagesLeft` counts positions: the pages active
requests use and the positions still to be computed for those that will run again
(`Needed`) fit in the pool.  `Promise` holds while a pass fills its batch:
`reserved_size` covers the positions of the running requests and of the batch so far
(`Promised`; `Inflight` is for this stated as the size of a set of positions).

An admission (`AdmitRoom`) compares its estimate with `available_size`, which is the
pool less the used pages (`AvailableIsUnused`).  That is enough only if whatever is
still needed is also promised, and a prompt cut in chunks that waits is neither
running nor new: it is promised because it is in front of the queue and so in the
batch before anyone else is admitted (`OneCut`, `ChunksArePlanned`).  A launch
(`LaunchRoom`) turns needed positions into used pages one for one (`ExtendUses`), a
commit exchanges each duplicate for one page of the tree (`CommitUses`), and a
release or an abort gives up both.

### The worker pool of the CPU experts

`TasksInv` distinguishes two situations.  Between tasks everyone is out of the
last one (`Quiet`), which is what lets `submit` reset the counters without a
lock.  Inside one there is a phase `K`, the last that a barrier has let anyone
into, with `Round(K)`: `Placed` (a worker is in `K`, or still to notice that the
barrier before it has opened), `Barrier` (the sense counts the barriers opened,
the count the arrivals at the next; one arrival opens it, after everyone), `Counted`
(earlier phases are complete, later ones untouched, in `K` what was drawn has run
but for what is in hand) and `Reported` (the last to finish, and only that one,
stores the generation).  The existential over `K` is needed because no variable
of the code holds it: workers disagree about the phase for as long as some of them spin.

### The doorbells of the CPU experts

`FlagsInv` has two modes, because the handshake is right only while no error is up:
once the watchdog has forced a `done`, a late coordinator may serve any step's
doorbell with any step's inputs.  Before that, `Handshake` says at each operation of
the stream what the flags, the pinned buffers and the coordinator may hold: one
doorbell at most is up, that of the layer the stream waits for; `done` is down until
the result of that very layer is in the buffer; the inputs are the stream's own until
it goes on.  It holds because `done` is cleared before `ready` is raised and set after
the result is written.  `Reports` has the order of the watchdog's two stores: a forced
`done` comes after its `err`.  So nothing stale comes before an error.

`LoopInv` is about the loop: after a report it gets no further than the next check, so
the number of steps enqueued stays what it was (`NothingAfterError`).

`DoorInv` holds with errors too.  A flag that is pending is that of the doorbell the
stream stands at (`Rung`).  A suspect carries, as history, the doorbell that was due
when its count was read; what is to be shown is that the watchdog condemns the slot for
that one.  A suspect's doorbell is still the same one, or its count has moved on since,
or the coordinator still owes the increment (`Suspected`); and the last is the one case
in which `OneDoorbell` lets another doorbell be condemned.  `Read` is what makes the
separate reads harmless otherwise: a slot read as pending in this round is unanswered
when its count is read, or that count has passed the suspect's, or is owed.

### The expert cache and its two streams

The host enqueues a whole chunk ahead of what runs, so what the slot map says, what a
slot holds and what a GEMM was told are of three different times.  `OffloadInv` has two
halves.  `StreamInv` is about order only.  `Records` and `Fences` turn the counters of
the events into positions in the queues: a record that has not run is in its queue once
and is the last of its kind, and what a stream waits for is enqueued already.
`CopyQueue` and `Adjacent` have the shape of the two queues (a layer's copy is followed
by its record, its GEMM preceded by its wait and followed by its release), `Order` that
the streamed chunk runs before whatever was enqueued after it, `Cursor` which of the two
buffers is of which layer.  Together: a buffer is taken only after its release was
enqueued, and overwritten only after it ran, which is `NeverReusedUnreleased`.

`MapInv` is about contents.  `MapIsInverse` alone does not say that a slot holds the
expert it names, as the prefill copies into borrowed slots before it disowns them:
`Filling` names the layers whose buffers are being filled and excludes their slots,
`Bytes` says that every other mapped slot that is not staged holds its expert in every
bank, `Snapshots` that what the copy stream believed to be a hit still is one.  `Steps`
follows a decode step or a materialized layer from its look-up to its GEMM (what
`copy_missing` has still to bring, what the hybrid split leaves to the CPU), `Rows` a
streamed layer from its first copy to its GEMM, whether a row comes from the host or is
gathered from a hit.

### The front end

The front end keeps no state of the backend; it must deduce from the replies it reads,
in whatever order several tokenizer workers bring them, what the backend still does.
`BackInv` is that deduction.  `IdleIsOver`: what the statistics call idle is `Over`:
the backend does not have it, and if its request is still in the queue the tombstone
of its abort waits for it.  Alone that is not inductive, as the last reply of a request
makes it idle: `RepliesInOrder` says that then it is over already, and that no token of
it is behind that reply.  `SentOnce` and `Fresh` are about the uid: one request of each,
and before it nothing.

`StreamInv` follows the tokens of one request through the queue, `ack_map`, the batch
the handler has swapped out and the client: together they are what the backend sampled
(`Whole`), and behind a last reply there is nothing more, in the entry (`LastQueued`)
or in the batch (`LastHeld`).  This is what makes it right to end the stream at the
first final reply of a batch and to drop the entry with whatever came since.

`Accounts` is the same sum for the counters.  With `BackInv` it gives `SealsWhole`: the
seal is taken when nothing is in flight, so the backend is idle and no token is in the
queue; and `Final`, that this stays so while the gate is shut.  Who could open the gate
is `GateKept`: a rebuild, at its reply or its rollback, of which one is under way at
most, in one place, while the gate says `rebuilding` until a worker dies (`OneRebuild`);
the ready handshake, during which nothing but a stop has touched the gate (`Loading`);
and a store that was interrupted, which would open a shut gate only where a death
interrupted it or it is a rollback after one (`Interrupted`).  `Deaths` has the stages
of a worker's end, by itself, by the group's signal or by shutdown(), and of what the
supervisor makes of it.

### The log stream

`LogInv` orders what a client is sent: the numbers of records sent grow (`Sent`), they
are behind the reader (`Behind`), and the backlog is replayed in order up to the
boundary (`Replayed`).  `rec <= lastSeq` in the live phase is what drops a record that
was replayed already.

That nothing is lost silently needs to know where each record is.  Whoever appends, the
numbers assigned and not yet pushed are those of an interval that ends at `next - 1`,
each held by one thread; a push in turn takes the lowest.  So what was pushed is an
initial part, and the records on their way to the reader are consecutive: those
scheduled on the event loop, then those in the queue (`Pipe`, `Queue`); what drop-oldest
removed is the interval right before the queue, which the pending gap names.  `Known`
says that everything before the reader's place was sent or lies in a gap (`Told`), and
before a reconnection everything up to `since`.

### How the invariants were found, and what stays model-checked

`IInv`, `PagesInv`, `KVInv`, `TInv` were checked by TLC on the instances of
`kvcache`, `LoopInv` and `SlotInv` on all five of `scheduler`, `Room` on two with
pages of one token, `TasksInv` with three workers and two tasks, `FlagsInv`,
`LoopInv` and `DoorInv` of CpuMoeFlags on both its instances of `engine`, those of
MoeOffload on its five, `LogInv` and `StreamInv` of LogStream with one appender and with
two in turn, before they were proved.  `BackInv`, `StreamInv`, `Accounts`, `Deaths`,
`GateKept` and `Final` of Frontend were checked on the four instances of `frontend`, 4.5
million states.

Some definitions had to change to be reasoned about.  A `CASE` whose guards overlap
is whichever arm one likes, although TLC takes the first: Frontend's `Yield` could
not be proved to keep what it kept in every run, and it and three more definitions
(in Detokenizer, ToolStream and HybridCache) now say which arm comes first.
`Produced` is the size of a set, as sums by recursion are out of the prover's reach.

Only model-checked are:

* liveness, and `StopsOnlyIdle` (`ENABLED`): beyond the prover;
* of Scheduler, `AllocationNeverFails` with pages of several tokens: whether it
  holds depends on the constants (finding 2);
* the modules of the text layer: what their recursive definitions compute is proved
  by induction over data, which is out of reach, and a module with a theorem may
  not use `RECURSIVE`;
* of MoeOffload, that the kernel is its reference and its split of the misses the
  best (`KernelIsReference`, `CapIsBest`);
* HybridCache, SlidingCache, ServeManager, GpuJobs and CacheRebuild: no proof yet.

## 6. Not modelled, and why

* Tensors, kernels, models, sampling, quantisation, weight loading: numerics and
  I/O.  A forward pass is "the KV of these positions is computed into these
  pages", "these experts are read from these slots".
* Stream ordering of forwards: the engine stream runs them in launch order, which
  the code arranges with `wait_stream`.  Only the expert cache, where two streams
  share slots, is modelled at the level of events.  Its slot map may name an
  overwritten buffer slot in the middle of a chunk; no reader looks at it there.
* Tensor parallelism: all ranks run the same deterministic loop on the same
  broadcast messages.  A rebuild is refused for more than one rank.
* Multimodal requests inside Scheduler: a chunked one raises
  `NotImplementedError`; their cache rules are in KVCache, HybridCache and
  SlidingCache.
* Keep-alives and disconnects in the adapters, buffered detectors, detectors
  other than Qwen3-Coder's, and Muse's `finalize_stream`.  GenEvents abstracts
  the parsers to what they may return; reasoning while a call is open reaches OpenAI's
  wire only, as the other two go wrong there (section 4).
* CacheRebuild: small sizes, three requests and faults at most, a window ratio of
  a half; the empty request and DSV4's window cap on chunks are left out, and a
  window request that was rolled back leaves the window pinned as in the code.
* Formatting, logging, metrics, CLI, web UI, benchmarks.

## 7. Plan

1. *Done*: the parts above as modules, their runs, and the proofs of §5.
2. Next: the invariants of `GpuJobs`; the tree with snapshots (`HybridCache`)
   and with windows (`SlidingCache`), along the lines of the KVCache proofs.
