----------------------------- MODULE MoeOffload -----------------------------
(***************************************************************************)
(* The slot cache of a mixture-of-experts model whose expert weights live  *)
(* in host memory (moe/offload_cache.py, moe/offload_kernels.py) and the   *)
(* layers that drive it (layers/moe.py).                                   *)
(*                                                                         *)
(* The host only enqueues work.  Two GPU streams run it: `compute`, on     *)
(* which the slot map is updated, missing experts are fetched and the      *)
(* expert GEMMs read the slots, and `copy`, on which a prefill streams     *)
(* whole layers into two buffers borrowed from the slots 0 .. 2E-1.  A     *)
(* stream runs its queue in order; the two meet only through events.  An   *)
(* event is two counters: how often the host has enqueued a record of it   *)
(* and how many of these records have run; a wait is for the last record   *)
(* enqueued before it.  An operation runs while it is at the head of its   *)
(* queue, so what a GEMM reads must stay right for as long as it is there. *)
(*                                                                         *)
(* The bytes of a slot are the id of the expert they belong to, one value  *)
(* per kind of bank: "wide" banks are moved row by row, "narrow" ones      *)
(* (rows under _SMALL_BANK_FEAT_BYTES) always a whole layer at a time.     *)
(***************************************************************************)
EXTENDS Integers, Sequences, FiniteSets

CONSTANTS
  NumLayers,    \* MoE layers of the model
  NumExperts,   \* experts per layer
  CacheSizes,   \* slot counts a rebuild may ask for, the first one included
  FirstSize,    \* cache_size at start
  Overlap,      \* the prefill_overlap option
  HitD2d,       \* the prefill_hit_d2d option (and everything it needs)
  Hybrid,       \* decode_target = "hybrid"
  MaxFetch,     \* hybrid_max_fetch
  FetchQ16,     \* hybrid_fetch_fraction in 1/65536
  MaxRouted,    \* distinct experts a decode step routes to, at most
  MaxPasses,    \* bound: forward passes
  MaxResets,    \* bound: resets
  MaxRebuilds   \* bound: rebuilds

SizesAssumption ==
  /\ NumLayers \in Nat \ {0} /\ NumExperts \in Nat \ {0}
  /\ FirstSize \in CacheSizes /\ CacheSizes \subseteq Nat
  /\ FirstSize >= NumExperts
  /\ Overlap => FirstSize >= 2 * NumExperts
  /\ MaxRouted \in 1 .. NumExperts
  /\ FetchQ16 \in 0 .. 65536
  /\ {Overlap, HitD2d, Hybrid} \subseteq BOOLEAN

VARIABLES
  cache_size, prefill_overlap,     \* geometry
  slot_for_id, id_of_slot,         \* the slot map, both ways (-1: none)
  usage, step,                     \* the LRU clock
  expert_recency,                  \* hybrid: the step an expert was last active
  staged,                          \* evict_slots / src_indices: {<<slot, id>>}
  topk,                            \* the rewritten topk_ids: {<<expert, slot or -1>>}
  data,                            \* ghost: whose bytes a slot holds, per bank
  hits,                            \* _prefill_hit_dst / _src: {<<row, slot>>}
  compute, copy,                   \* the stream queues
  recorded, done,                  \* records enqueued and run, per event
  buffer_layer, released, has_release, \* the host's view of the two buffers
  snapshot, hit_d2d_active,        \* begin-of-chunk copy of the slot map
  host,                            \* where the host is in a prefill
  used                             \* passes, resets and rebuilds so far

mapVars == <<slot_for_id, id_of_slot, usage, step, expert_recency>>
deviceVars == <<mapVars, staged, topk, data, hits, done>>
bufferVars == <<buffer_layer, released, has_release>>
sizeVars == <<cache_size, prefill_overlap>>
vars == <<sizeVars, deviceVars, compute, copy, recorded, bufferVars,
          snapshot, hit_d2d_active, host, used>>

Layers == 0 .. NumLayers - 1
Experts == 0 .. NumExperts - 1
Ids == 0 .. NumLayers * NumExperts - 1
Slots == 0 .. cache_size - 1
Banks == {"wide", "narrow"}

\* The events: a chunk begins; buffer b is filled; buffer b was read.
Begin == <<"begin">>
Ready(b) == <<"ready", b>>
Release(b) == <<"release", b>>
Events == {Begin} \cup {Ready(b) : b \in {0, 1}} \cup {Release(b) : b \in {0, 1}}
None == -1
Torn == -2

\* The flat id of an expert of a layer.
Id(l, e) == l * NumExperts + e

\* The slots a prefill buffer borrows, and the buffer of a layer.
BufferSlots(b) == b * NumExperts .. (b + 1) * NumExperts - 1
BufferOf(l) == l % 2

Idle == [at |-> "idle", layer |-> 0, target |-> 0]

Init ==
  /\ cache_size = FirstSize /\ prefill_overlap = Overlap
  /\ slot_for_id = [i \in Ids |-> None]
  /\ id_of_slot = [s \in 0 .. FirstSize - 1 |-> None]
  /\ usage = [s \in 0 .. FirstSize - 1 |-> 0] /\ step = 0
  /\ expert_recency = [i \in Ids |-> None]
  /\ staged = {} /\ topk = {} /\ hits = {}
  /\ data = [k \in Banks |-> [s \in 0 .. FirstSize - 1 |-> None]]
  /\ compute = <<>> /\ copy = <<>>
  /\ recorded = [ev \in Events |-> 0] /\ done = [ev \in Events |-> 0]
  /\ buffer_layer = [b \in {0, 1} |-> None] /\ released = [b \in {0, 1} |-> TRUE]
  /\ has_release = [b \in {0, 1} |-> FALSE]
  /\ snapshot = [i \in Ids |-> None] /\ hit_d2d_active = FALSE
  /\ host = Idle /\ used = [passes |-> 0, resets |-> 0, rebuilds |-> 0]

-----------------------------------------------------------------------------
(* Choosing what to fetch, and over which slots. *)

\* Number of members of S that come before x.
Rank(S, Before(_, _), x) == Cardinality({y \in S : Before(y, x)})

\* The experts of the step that have no slot.
Missing(l, active) == {e \in active : slot_for_id[Id(l, e)] = None}

\* The order in which misses are fetched: most recently active first (the
\* hybrid kernel's score), otherwise by id.
FetchBefore(l, e, f) ==
  LET re == expert_recency[Id(l, e)]  rf == expert_recency[Id(l, f)]
  IN  IF Hybrid /\ re # rf THEN re > rf ELSE e < f

\* What a fetch of f of m misses costs: the slower of the bus and the CPU.
SplitCost(m, f) ==
  LET bus == f * (65536 - FetchQ16)  cpu == (m - f) * FetchQ16
  IN  IF bus >= cpu THEN bus ELSE cpu

\* How many of m misses may be fetched.
FetchCap(m) ==
  LET lo == (m * FetchQ16) \div 65536
  IN  CASE ~Hybrid -> m
        [] Hybrid /\ FetchQ16 = 0 -> MaxFetch
        [] OTHER -> IF SplitCost(m, lo) <= SplitCost(m, lo + 1) THEN lo ELSE lo + 1

\* The misses that get a slot this step.
Fetched(l, active) ==
  LET miss == Missing(l, active)
      before(e, f) == FetchBefore(l, e, f)
  IN  {e \in miss : Rank(miss, before, e) < FetchCap(Cardinality(miss))}

\* Slots whose expert is not active in this step.
Evictable(l, active) ==
  {s \in Slots : \A e \in active : id_of_slot[s] # Id(l, e)}

\* Fault: the most recently used slot is taken first.
EvictBefore_mru(s, t) == usage[s] > usage[t] \/ (usage[s] = usage[t] /\ s < t)

\* Eviction order: least recently used first, then the lower slot.
EvictBefore(s, t) == usage[s] < usage[t] \/ (usage[s] = usage[t] /\ s < t)

\* The slot each fetched expert gets: the i-th expert in fetch order the i-th
\* slot in eviction order.
Victim(l, active, e) ==
  LET before(f, g) == FetchBefore(l, f, g)
      rank == Rank(Fetched(l, active), before, e)
  IN  CHOOSE s \in Evictable(l, active) :
        Rank(Evictable(l, active), EvictBefore, s) = rank

\* The slot map after the step's fetches.
Ensured(l, active) ==
  LET new == Fetched(l, active)
      slotOf == [e \in new |-> Victim(l, active, e)]
      victims == {slotOf[e] : e \in new}
  IN  [slot_for_id |-> [i \in Ids |->
         IF \E e \in new : Id(l, e) = i THEN slotOf[i % NumExperts]
         ELSE IF \E v \in victims : id_of_slot[v] = i THEN None
         ELSE slot_for_id[i]],
       slotOf |-> slotOf]

-----------------------------------------------------------------------------
(* Operations the streams run. *)

Op(name, l) == [op |-> name, layer |-> l]
WaitOp(ev, n) == [op |-> "wait", ev |-> ev, n |-> n]
RecordOp(ev, n) == [op |-> "record", ev |-> ev, n |-> n]

\* A copy of host rows of layer l into buffer b: the rows moved, per bank.
H2dOp(l, b, rows) == [op |-> "h2d", layer |-> l, buffer |-> b, rows |-> rows]

Running(queue, name) == queue # <<>> /\ Head(queue).op = name

\* lru_ensure / _ensure_experts_hybrid_kernel: any set of experts may be
\* routed to; the step's experts get slots, the misses beyond the cap get none.
EnsureExperts ==
  /\ Running(compute, "ensure")
  /\ \E active \in SUBSET Experts :
       LET l == Head(compute).layer
           new == Ensured(l, active)
           assigned == {<<new.slotOf[e], Id(l, e)>> : e \in DOMAIN new.slotOf}
           held == {new.slot_for_id[Id(l, e)] : e \in active}
       IN  /\ Cardinality(active) \in 1 .. MaxRouted
           /\ step' = step + 1
           /\ slot_for_id' = new.slot_for_id
           /\ id_of_slot' = [s \in Slots |->
                IF \E a \in assigned : a[1] = s
                  THEN (CHOOSE a \in assigned : a[1] = s)[2] ELSE id_of_slot[s]]
           /\ usage' = [s \in Slots |-> IF s \in held THEN step + 1 ELSE usage[s]]
           /\ expert_recency' = [i \in Ids |->
                IF Hybrid /\ \E e \in active : Id(l, e) = i
                  THEN step + 1 ELSE expert_recency[i]]
           /\ staged' = assigned
           /\ topk' = {<<e, new.slot_for_id[Id(l, e)]>> : e \in active}
  /\ compute' = Tail(compute)
  /\ UNCHANGED <<sizeVars, data, hits, done, copy, recorded, bufferVars,
                 snapshot, hit_d2d_active, host, used>>

\* _materialize_layer_kernel: expert e of the layer goes to slot e.
Materialized(l) ==
  [i \in Ids |->
     IF i \div NumExperts = l THEN i % NumExperts
     ELSE IF \E s \in Experts : id_of_slot[s] = i THEN None
     ELSE slot_for_id[i]]

MaterializeLayer ==
  /\ Running(compute, "materialize")
  /\ LET l == Head(compute).layer
         ofLayer(s) == id_of_slot[s] \in {Id(l, e) : e \in Experts}
     IN  /\ slot_for_id' = Materialized(l)
         /\ id_of_slot' = [s \in Slots |-> IF s \in Experts THEN Id(l, s)
                                           ELSE IF ofLayer(s) THEN None
                                           ELSE id_of_slot[s]]
         /\ usage' = [s \in Slots |-> IF s \in Experts THEN step + 1
                                      ELSE IF ofLayer(s) THEN 0 ELSE usage[s]]
         /\ staged' = {<<e, Id(l, e)>> : e \in Experts}
  /\ step' = step + 1
  /\ compute' = Tail(compute)
  /\ UNCHANGED <<sizeVars, expert_recency, topk, data, hits, done, copy, recorded,
                 bufferVars, snapshot, hit_d2d_active, host, used>>

\* copy_missing: the staged rows cross the bus into their slots.
CopyMissing ==
  /\ Running(compute, "copy_missing")
  /\ data' = [k \in Banks |-> [s \in Slots |->
        IF \E a \in staged : a[1] = s THEN (CHOOSE a \in staged : a[1] = s)[2]
        ELSE data[k][s]]]
  /\ staged' = {}
  /\ compute' = Tail(compute)
  /\ UNCHANGED <<sizeVars, mapVars, topk, hits, done, copy, recorded, bufferVars,
                 snapshot, hit_d2d_active, host, used>>

\* The expert GEMM ends; "gemm" read the slots of topk, "gemm_layer" the
\* rows of a buffer.
Gemm ==
  /\ Running(compute, "gemm") \/ Running(compute, "gemm_layer")
  /\ topk' = {}
  /\ compute' = Tail(compute)
  /\ UNCHANGED <<sizeVars, mapVars, staged, data, hits, done, copy, recorded, bufferVars,
                 snapshot, hit_d2d_active, host, used>>

\* The usages of a cold cache.
ColdUsage == [s \in Slots |-> 0]

\* _reset_cache_kernel and the wipe of the recencies.
ResetCache ==
  /\ Running(compute, "reset")
  /\ slot_for_id' = [i \in Ids |-> None] /\ id_of_slot' = [s \in Slots |-> None]
  /\ usage' = ColdUsage /\ step' = 0
  /\ expert_recency' = [i \in Ids |-> None]
  /\ staged' = {}
  /\ compute' = Tail(compute)
  /\ UNCHANGED <<sizeVars, topk, data, hits, done, copy, recorded, bufferVars,
                 snapshot, hit_d2d_active, host, used>>

\* Slots below 2E belong to the buffers and never count as a hit.
IsHit(slot) == slot >= 2 * NumExperts

\* _prefill_hit_compact_kernel: from the live map.
HitCompact ==
  /\ Running(compute, "compact")
  /\ LET l == Head(compute).layer
     IN  hits' = {<<BufferOf(l) * NumExperts + e, slot_for_id[Id(l, e)]>> :
                    e \in {x \in Experts : IsHit(slot_for_id[Id(l, x)])}}
  /\ compute' = Tail(compute)
  /\ UNCHANGED <<sizeVars, mapVars, staged, topk, data, done, copy, recorded, bufferVars,
                 snapshot, hit_d2d_active, host, used>>

\* fast_index_copy_multi_jit over the wide banks: slot to buffer row.
HitGather ==
  /\ Running(compute, "gather")
  /\ data' = [data EXCEPT !["wide"] = [s \in Slots |->
        IF \E h \in hits : h[1] = s
          THEN data["wide"][(CHOOSE h \in hits : h[1] = s)[2]] ELSE data["wide"][s]]]
  /\ compute' = Tail(compute)
  /\ UNCHANGED <<sizeVars, mapVars, staged, topk, hits, done, copy, recorded, bufferVars,
                 snapshot, hit_d2d_active, host, used>>

\* An event wait is over once its record has run; a record marks its event.
EventOps(queue) ==
  \/ Running(queue, "wait") /\ done[Head(queue).ev] >= Head(queue).n
       /\ UNCHANGED done
  \/ Running(queue, "record") /\ done' = [done EXCEPT ![Head(queue).ev] = Head(queue).n]

ComputeEvent ==
  /\ EventOps(compute) /\ compute' = Tail(compute)
  /\ UNCHANGED <<sizeVars, mapVars, staged, topk, data, hits, copy, recorded, bufferVars,
                 snapshot, hit_d2d_active, host, used>>

CopyEvent ==
  /\ EventOps(copy) /\ copy' = Tail(copy)
  /\ UNCHANGED <<sizeVars, mapVars, staged, topk, data, hits, compute, recorded, bufferVars,
                 snapshot, hit_d2d_active, host, used>>

\* The slot map is copied to pinned memory for the chunk.
Snapshot ==
  /\ Running(copy, "snapshot")
  /\ snapshot' = slot_for_id
  /\ copy' = Tail(copy)
  /\ UNCHANGED <<sizeVars, deviceVars, compute, recorded, bufferVars, hit_d2d_active,
                 host, used>>

\* The map without the experts of a buffer's slots.
Disowned(b) ==
  [i \in Ids |-> IF \E s \in BufferSlots(b) : id_of_slot[s] = i THEN None
                 ELSE slot_for_id[i]]

\* _invalidate_prefill_buffer: the slots are disowned and become the oldest.
InvalidatePrefillBuffer ==
  /\ Running(copy, "invalidate")
  /\ LET b == BufferOf(Head(copy).layer)
     IN  /\ slot_for_id' = Disowned(b)
         /\ id_of_slot' = [s \in Slots |-> IF s \in BufferSlots(b) THEN None ELSE id_of_slot[s]]
         /\ usage' = [s \in Slots |-> IF s \in BufferSlots(b) THEN 0 ELSE usage[s]]
  /\ copy' = Tail(copy)
  /\ UNCHANGED <<sizeVars, step, expert_recency, staged, topk, data, hits, done, compute,
                 recorded, bufferVars, snapshot, hit_d2d_active, host, used>>

\* Rows of a whole-layer copy: torn while it runs, the expert's at its end.
Filled(op, k, s) ==
  IF s \in BufferSlots(op.buffer) /\ (s % NumExperts) \in op.rows[k]
  THEN IF op.op = "h2d" THEN Torn ELSE Id(op.layer, s % NumExperts)
  ELSE data[k][s]

LayerCopy ==
  /\ Running(copy, "h2d") \/ Running(copy, "h2d_end")
  /\ data' = [k \in Banks |-> [s \in Slots |-> Filled(Head(copy), k, s)]]
  /\ copy' = IF Head(copy).op = "h2d"
             THEN <<[Head(copy) EXCEPT !.op = "h2d_end"]>> \o Tail(copy) ELSE Tail(copy)
  /\ UNCHANGED <<sizeVars, mapVars, staged, topk, hits, done, compute, recorded, bufferVars,
                 snapshot, hit_d2d_active, host, used>>

-----------------------------------------------------------------------------
(* The host. *)

\* One pass over the layers, as the sequence of what `per` enqueues for each.
PassOver(per, n) == [i \in 1 .. n * NumLayers |->
                       Op(per[((i - 1) % n) + 1], (i - 1) \div n)]

\* A forward pass starts: the host is between passes.
NewPass ==
  /\ host.at = "idle"
  /\ used.passes < MaxPasses
  /\ used' = [used EXCEPT !.passes = @ + 1]

\* Decode, and a small prefill chunk: _decode_routed / _decode_hybrid for every
\* layer, nothing of which waits for the device.
DecodePass ==
  /\ NewPass
  /\ compute' = compute \o PassOver(<<"ensure", "copy_missing", "gemm">>, 3)
  /\ UNCHANGED <<sizeVars, deviceVars, copy, recorded, bufferVars, snapshot,
                 hit_d2d_active, host>>

\* Prefill without overlap: each layer is materialized in the slots 0 .. E-1.
MaterializePass ==
  /\ NewPass
  /\ ~prefill_overlap
  /\ compute' = compute \o PassOver(<<"materialize", "copy_missing", "gemm_layer">>, 3)
  /\ UNCHANGED <<sizeVars, deviceVars, copy, recorded, bufferVars, snapshot,
                 hit_d2d_active, host>>

\* Fault: the copy stream is not fenced behind the compute stream.
BeginFence_none(n) == <<>>

\* What begin_prefill makes the copy stream wait for.
BeginFence(n) == <<WaitOp(Begin, n)>>

\* begin_prefill, called for layer 0.
BeginPrefill ==
  /\ NewPass
  /\ prefill_overlap
  /\ LET n == recorded[Begin] + 1
         split == HitD2d /\ cache_size > 2 * NumExperts
     IN  /\ recorded' = [recorded EXCEPT ![Begin] = n]
         /\ compute' = Append(compute, RecordOp(Begin, n))
         /\ copy' = copy \o BeginFence(n)
                      \o (IF split THEN <<Op("snapshot", 0)>> ELSE <<>>)
         /\ hit_d2d_active' = split
         /\ host' = [Idle EXCEPT !.at = IF split THEN "snapshot" ELSE "prefetch"]
  /\ buffer_layer' = [b \in {0, 1} |-> None]
  /\ released' = [b \in {0, 1} |-> TRUE]
  /\ UNCHANGED <<sizeVars, deviceVars, has_release, snapshot>>

\* The host waits for the snapshot.
SnapshotSynced ==
  /\ host.at = "snapshot" /\ copy = <<>>
  /\ host' = [host EXCEPT !.at = "prefetch"]
  /\ UNCHANGED <<sizeVars, deviceVars, compute, copy, recorded, bufferVars, snapshot,
                 hit_d2d_active, used>>

\* A layer prefetches itself, then the next one, then runs.
AfterPrefetch(h) ==
  IF h.target = h.layer THEN [h EXCEPT !.at = "prefetch", !.target = h.layer + 1]
  ELSE [h EXCEPT !.at = "forward"]

\* The copy stream waits for the buffer's last reader.
ReleaseWait(b) ==
  IF has_release[b] THEN <<WaitOp(Release(b), recorded[Release(b)])>>
  ELSE <<>>

\* prefetch_prefill_layer up to the invalidation, whose boolean indexing makes
\* the host wait for the copy stream.
PrefetchPrefillLayer ==
  /\ host.at = "prefetch"
  /\ LET t == host.target
         b == BufferOf(t)
     IN  \/ /\ t >= NumLayers \/ buffer_layer[b] = t
            /\ host' = AfterPrefetch(host)
            /\ UNCHANGED <<compute, copy>>
         \/ /\ t < NumLayers /\ buffer_layer[b] # t
            /\ compute' = compute \o (IF hit_d2d_active
                                      THEN <<Op("compact", t), Op("gather", t)>> ELSE <<>>)
            /\ copy' = copy \o ReleaseWait(b) \o <<Op("invalidate", t)>>
            /\ host' = [host EXCEPT !.at = "invalidate"]
  /\ UNCHANGED <<sizeVars, deviceVars, recorded, bufferVars, snapshot, hit_d2d_active, used>>

\* The rows that cross the bus: everything, or with the split the misses of
\* the snapshot and the narrow banks.
RowsToCopy(t) ==
  [k \in Banks |-> {e \in Experts :
     hit_d2d_active /\ k = "wide" => ~IsHit(snapshot[Id(t, e)])}]

\* The rest of prefetch_prefill_layer and of _prefetch_split.
PrefetchCopies ==
  /\ host.at = "invalidate" /\ copy = <<>>
  /\ LET t == host.target
         b == BufferOf(t)
         n == recorded[Ready(b)] + 1
     IN  /\ copy' = <<H2dOp(t, b, RowsToCopy(t)), RecordOp(Ready(b), n)>>
         /\ recorded' = [recorded EXCEPT ![Ready(b)] = n]
         /\ buffer_layer' = [buffer_layer EXCEPT ![b] = t]
         /\ released' = [released EXCEPT ![b] = FALSE]
  /\ host' = AfterPrefetch(host)
  /\ UNCHANGED <<sizeVars, deviceVars, compute, has_release, snapshot, hit_d2d_active, used>>

\* Fault: the GEMM waits for a record that nobody has enqueued.
ReadyWait_next(b) == <<WaitOp(Ready(b), recorded[Ready(b)] + 1)>>

\* The compute stream waits for the buffer's copy.
ReadyWait(b) == <<WaitOp(Ready(b), recorded[Ready(b)])>>

\* wait_prefill_layer, the GEMM, release_prefill_layer.
ForwardLayer ==
  /\ host.at = "forward"
  /\ LET l == host.layer
         b == BufferOf(l)
         n == recorded[Release(b)] + 1
     IN  /\ compute' = compute \o ReadyWait(b)
              \o <<Op("gemm_layer", l), RecordOp(Release(b), n)>>
         /\ recorded' = [recorded EXCEPT ![Release(b)] = n]
         /\ has_release' = [has_release EXCEPT ![b] = TRUE]
         /\ released' = [released EXCEPT ![b] = TRUE]
         /\ host' = IF l = NumLayers - 1 THEN Idle
                    ELSE [at |-> "prefetch", layer |-> l + 1, target |-> l + 1]
  /\ UNCHANGED <<sizeVars, deviceVars, copy, buffer_layer, snapshot, hit_d2d_active, used>>

\* reset, after a warm-up or a graph capture.
Reset ==
  /\ host.at = "idle"
  /\ used.resets < MaxResets
  /\ used' = [used EXCEPT !.resets = @ + 1]
  /\ compute' = Append(compute, Op("reset", 0))
  /\ UNCHANGED <<sizeVars, deviceVars, copy, recorded, bufferVars, snapshot,
                 hit_d2d_active, host>>

\* rebuild: the engine has synchronized the device; a size below the experts
\* of a layer is refused, one below two layers ends the overlap for good.
Rebuild ==
  /\ host.at = "idle" /\ compute = <<>> /\ copy = <<>>
  /\ used.rebuilds < MaxRebuilds
  /\ used' = [used EXCEPT !.rebuilds = @ + 1]
  /\ \E size \in CacheSizes :
       /\ size >= NumExperts
       /\ cache_size' = size
       /\ prefill_overlap' = (prefill_overlap /\ size >= 2 * NumExperts)
       /\ id_of_slot' = [s \in 0 .. size - 1 |-> None]
       /\ usage' = [s \in 0 .. size - 1 |-> 0]
       /\ data' = [k \in Banks |-> [s \in 0 .. size - 1 |-> None]]
  /\ slot_for_id' = [i \in Ids |-> None] /\ step' = 0
  /\ expert_recency' = [i \in Ids |-> None] /\ staged' = {}
  /\ buffer_layer' = [b \in {0, 1} |-> None] /\ released' = [b \in {0, 1} |-> TRUE]
  /\ has_release' = [b \in {0, 1} |-> FALSE]
  /\ recorded' = [ev \in Events |-> 0] /\ done' = [ev \in Events |-> 0]
  /\ UNCHANGED <<topk, hits, compute, copy, snapshot, hit_d2d_active, host>>

Compute ==
  \/ EnsureExperts \/ MaterializeLayer \/ CopyMissing \/ Gemm \/ ResetCache
  \/ HitCompact \/ HitGather \/ ComputeEvent
Copy == CopyEvent \/ Snapshot \/ InvalidatePrefillBuffer \/ LayerCopy
Prefill == SnapshotSynced \/ PrefetchPrefillLayer \/ PrefetchCopies \/ ForwardLayer
Host == DecodePass \/ MaterializePass \/ BeginPrefill \/ Reset \/ Rebuild \/ Prefill

Next == Compute \/ Copy \/ Host

Spec == Init /\ [][Next]_vars

\* The streams and a host inside a pass keep running; nothing makes the host
\* start another pass.
FairSpec == Spec /\ WF_vars(Compute) /\ WF_vars(Copy) /\ WF_vars(Prefill)

-----------------------------------------------------------------------------
(* Properties *)

OpNames == {"ensure", "materialize", "copy_missing", "gemm", "gemm_layer", "reset",
            "compact", "gather", "wait", "record", "snapshot", "invalidate", "h2d", "h2d_end"}

\* Types of the slot map, the bytes and the queues.
TypeOK ==
  /\ cache_size \in CacheSizes /\ prefill_overlap \in BOOLEAN
  /\ slot_for_id \in [Ids -> Slots \cup {None}]
  /\ id_of_slot \in [Slots -> Ids \cup {None}]
  /\ usage \in [Slots -> 0 .. step] /\ step \in Nat
  /\ expert_recency \in [Ids -> None .. step]
  /\ staged \subseteq Slots \X Ids
  /\ topk \subseteq Experts \X (Slots \cup {None})
  /\ data \in [Banks -> [Slots -> Ids \cup {None, Torn}]]
  /\ hits \subseteq Nat \X Nat
  /\ \A q \in {compute, copy} : \A i \in 1 .. Len(q) : q[i].op \in OpNames
  /\ recorded \in [Events -> Nat] /\ done \in [Events -> Nat]
  /\ buffer_layer \in [{0, 1} -> Layers \cup {None}]
  /\ released \in [{0, 1} -> BOOLEAN] /\ has_release \in [{0, 1} -> BOOLEAN]
  /\ snapshot \in [Ids -> Nat \cup {None}] /\ hit_d2d_active \in BOOLEAN
  /\ host.at \in {"idle", "snapshot", "prefetch", "invalidate", "forward"}

\* For as long as an expert GEMM of a decode step runs, each slot it reads
\* holds every bank of the expert that was routed to, and the reverse map from
\* which its scales are looked up says so: no fetch, eviction or layer copy of
\* another pass reaches a slot that is still being read.
DecodeReadsItsExperts ==
  Running(compute, "gemm") =>
    \A r \in topk :
      r[2] # None => /\ id_of_slot[r[2]] = Id(Head(compute).layer, r[1])
                     /\ \A k \in Banks : data[k][r[2]] = Id(Head(compute).layer, r[1])

\* For as long as the GEMM of a prefill layer runs, row e of its buffer holds
\* expert e of that layer in every bank: the copy has ended before, and the
\* copy of the layer after next has not begun.
PrefillReadsItsLayer ==
  Running(compute, "gemm_layer") =>
    LET l == Head(compute).layer
        first == IF prefill_overlap THEN BufferOf(l) * NumExperts ELSE 0
    IN  \A e \in Experts, k \in Banks : data[k][first + e] = Id(l, e)

\* The two directions of the slot map are inverse to each other in every
\* state, whichever stream wrote last.
MapIsInverse ==
  /\ \A i \in Ids : slot_for_id[i] # None => id_of_slot[slot_for_id[i]] = i
  /\ \A s \in Slots : id_of_slot[s] # None => slot_for_id[id_of_slot[s]] = s

\* Whenever the map may be believed - a decode step looks its experts up in
\* it, or a slot beyond the buffers is taken as a prefill hit - the slot it names
\* holds that expert in every bank, unless its copy is staged.  (Inside a chunk a
\* buffer slot may already be overwritten while the map still names it: the
\* gather runs before the invalidation.)
HitsHoldTheirBytes ==
  \A i \in Ids :
    (/\ slot_for_id[i] # None
     /\ Running(compute, "ensure") \/ IsHit(slot_for_id[i])
     /\ <<slot_for_id[i], i>> \notin staged)
    => \A k \in Banks : data[k][slot_for_id[i]] = i

\* "Live-vs-snapshot cannot disagree": the hits the device compacts from the
\* live map and the hits the host took from the snapshot when it chose the rows
\* to copy are the same rows from the same slots.
LiveIsSnapshot ==
  Running(compute, "compact") =>
    \A e \in Experts :
      LET i == Id(Head(compute).layer, e)
      IN  /\ IsHit(slot_for_id[i]) <=> IsHit(snapshot[i])
          /\ IsHit(slot_for_id[i]) => slot_for_id[i] = snapshot[i]

\* The assertions of prefetch_prefill_layer and wait_prefill_layer never fail
\* (the actions do not check them): a buffer is not taken for another layer
\* before it was released, and the buffer a layer waits for is its own.
NeverReusedUnreleased ==
  /\ (host.at = "prefetch" /\ host.target < NumLayers) =>
       LET b == BufferOf(host.target)
       IN  buffer_layer[b] \in {None, host.target} \/ released[b]
  /\ host.at = "forward" => buffer_layer[BufferOf(host.layer)] = host.layer

\* For as long as an expert GEMM runs, the slots it reads hold every bank of the experts
\* routed to, in decode and in prefill: no fetch, eviction, copy, reset or rebuild of another
\* pass reaches a slot still being read; and what a step finds in the slot map is there.
ForwardReadsItsExperts ==
  /\ DecodeReadsItsExperts /\ PrefillReadsItsLayer
  /\ HitsHoldTheirBytes /\ LiveIsSnapshot /\ NeverReusedUnreleased

\* A decode step never takes a slot from one of its own experts: what it finds
\* resident it reads where it is, two of its experts never share a slot, and only
\* misses are left to the CPU, none of them without the hybrid split.
HitsStay ==
  [][Running(compute, "ensure") =>
       \A r \in topk' :
         LET old == slot_for_id[Id(Head(compute).layer, r[1])]
         IN  /\ old # None => r[2] = old
             /\ r[2] = None => Hybrid
             /\ \A q \in topk' : q # r => r[2] = None \/ q[2] # r[2]]_vars

\* The n slots the CPU reference evicts one after the other: each time the
\* least recently used of all slots, with the step's hits and the slots already
\* taken marked as just used.
ReferenceVictims(l, active, n) ==
  LET hit == {slot_for_id[Id(l, e)] : e \in active}
      u0 == [s \in Slots |-> IF s \in hit THEN step + 1 ELSE usage[s]]
      oldest(u) == CHOOSE s \in Slots : \A t \in Slots : u[s] < u[t] \/ (u[s] = u[t] /\ s <= t)
      run[i \in 0 .. n] ==
        IF i = 0 THEN [u |-> u0, taken |-> <<>>]
        ELSE LET s == oldest(run[i - 1].u)
             IN  [u |-> [run[i - 1].u EXCEPT ![s] = step + 1],
                  taken |-> Append(run[i - 1].taken, s)]
  IN  run[n].taken

\* The kernel and the CPU reference decide alike, as the tests claim of them:
\* the same experts in the same slots although the reference never looks at
\* which slots belong to the step's own experts.
KernelIsReference ==
  Running(compute, "ensure") =>
    LET l == Head(compute).layer
    IN  \A active \in SUBSET Experts :
          LET new == Ensured(l, active).slotOf
              ref == ReferenceVictims(l, active, Cardinality(DOMAIN new))
          IN  \A e \in DOMAIN new :
                new[e] = ref[1 + Cardinality({f \in DOMAIN new : FetchBefore(l, f, e)})]

\* The fetch cap splits the misses of a step as well as any split can: no other
\* number of fetches makes the slower of the bus and the CPU finish earlier.
CapIsBest ==
  (Running(compute, "ensure") /\ Hybrid /\ FetchQ16 > 0) =>
    \A active \in SUBSET Experts :
      LET m == Cardinality(Missing(Head(compute).layer, active))
          n == Cardinality(Fetched(Head(compute).layer, active))
      IN  \A f \in 0 .. m : SplitCost(m, n) <= SplitCost(m, f)

\* No circle of event waits: whatever has been enqueued, both streams run dry
\* and the host comes back from the pass.
StreamsDrain == []<>(compute = <<>> /\ copy = <<>> /\ host.at = "idle")
=============================================================================
