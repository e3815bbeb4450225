---------------------------- MODULE SlidingCache ----------------------------
(***************************************************************************)
(* The prefix cache of sliding-window models (kvcache/swa_radix_cache.py)  *)
(* with the paged window pool (kvcache/hybrid_swa_pool.py), as             *)
(* CacheManager and PrefillAdder drive them.                               *)
(*                                                                         *)
(* Every KV page of the full-attention layers has, while it may still be   *)
(* inside a window, window KV too.  A node whose window KV was given back  *)
(* and whose pages were kept is a tombstone; a prefix can be resumed where *)
(* a whole window before it is live.  A handle locks the pages of its path *)
(* and the window at its end; the uuid stamped on the node where that      *)
(* window begins tells the unlock where to stop.                           *)
(*                                                                         *)
(* Window slots are counted in pages: they are taken for whole pages and   *)
(* given back for whole pages.  swaLive is the set of pages whose entry in *)
(* full_to_swa_index_mapping is not the sentinel.  kv is a history: the    *)
(* tokens a page was computed from (the window KV is written with it).     *)
(* Batches are of one request; a pass is a chunk of a prompt or one token. *)
(***************************************************************************)
EXTENDS RadixTree, SequencesExt

CONSTANTS
    Reqs, MMReqs,     \* request uids, and those whose prompt carries images
    NumPages,         \* KV pages
    NumSwa,           \* window slots, in pages
    TableSlots,       \* max_running_req
    Window,           \* sliding_window_size, in tokens
    RetainGap,        \* _SWA_RETAIN_GAP
    Interval,         \* _SWA_EVICTION_INTERVAL
    AnchorReqs,       \* the uids that may open a tool call
    Sampled,          \* the tokens a pass may sample
    Budgets,          \* what other requests of a batch may leave of the token budget
    Prompts, MaxLen

AlignDown(n) == FullPages(n) * PageSize

\* _swa_per_req_swa_floor, in tokens (special_token_ckpt iff a tool call may open).
ReqFloor == PagesFor(Window + RetainGap) * PageSize + Window + Interval + 2 * PageSize
            + IF AnchorReqs = {} THEN 0 ELSE Window + RetainGap + Interval

ASSUME SlidingAssumption ==
    /\ IsFiniteSet(Reqs) /\ MMReqs \cup AnchorReqs \subseteq Reqs
    /\ {NumPages, TableSlots, MaxLen, RetainGap, NumSwa} \subseteq Nat
    /\ {Window, Interval} \cup Budgets \subseteq Nat \ {0}
    /\ NumSwa * PageSize >= TableSlots * ReqFloor
    /\ Prompts \subseteq {s \in Seq(Nat) : Len(s) \in 1..(MaxLen - 1)}

Pages == 1..NumPages

VARIABLES
    cache,             \* the SWARadixCache
    free,              \* free_slots, as a bag of pages
    swaFree, swaLive,  \* the window pool: free slots, and the pages mapped to one
    iter,              \* _forward_iter, modulo Interval
    stage, ids, row, cached, hit,   \* as in HybridCache
    plen,              \* max_device_len - output_len: the prompt up to its last chunk
    uuid,              \* cache_handle.swa_uuid; 0 = None
    evicted,           \* swa_evicted_seqlen
    stepped,           \* decode_batch_idx >= 1
    anchor,            \* toolcall_anchor_len; 0 = None
    kv

poolVars == <<cache, free, swaFree, swaLive, kv>>
reqVars  == <<stage, ids, row, cached, hit, plen, uuid, evicted, stepped, anchor>>
vars     == <<poolVars, iter, reqVars>>

Active == {r \in Reqs : stage[r] # "idle"}
Shared(r) == r \notin MMReqs
HandleKey(r) == Key(ids[r], hit[r])

InBag(bag) == {x \in DOMAIN bag : bag[x] > 0}
PutAll(bag, S) == [x \in DOMAIN bag |-> IF x \in S THEN bag[x] + 1 ELSE bag[x]]
Taken(bag, S) == [x \in DOMAIN bag |-> IF x \in S THEN bag[x] - 1 ELSE bag[x]]
Least(bag, n) ==
    [i \in 1..Min({n, Cardinality(InBag(bag))}) |->
        CHOOSE x \in InBag(bag) : Cardinality({y \in InBag(bag) : y < x}) = i - 1]
RowPages(rw, from, to) == {rw[i] : i \in (from + 1)..to}

-----------------------------------------------------------------------------
(* SWARadixCache. *)

EmptyCache == [tree |-> EmptyTree, dead |-> {}, sref |-> <<>>, uuid |-> <<>>,
               sevict |-> 0, sprot |-> 0]

Size(c, E) == Cardinality(PrefixesOf(c.tree, E))
PagesOf(c, E) == {c.tree.page[k] : k \in PrefixesOf(c.tree, E)}
Below(t, k) == {e \in Nodes(t) : StartsWith(e, k)}
IsLeaf(t, k) == Below(t, k) = {k}

\* Fault: the boundary uuid stays with the lower half.
SplitUuid_below(c, k) == (k :> 0) @@ c.uuid

\* split_at: the boundary uuid moves to the upper half.
SplitUuid(c, k) == LET n == NodeOf(c.tree, k)
                   IN (k :> c.uuid[n]) @@ [c.uuid EXCEPT ![n] = 0]

SplitAt(c, k) ==
    IF k = Root \/ k \in Nodes(c.tree) THEN c
    ELSE LET n == NodeOf(c.tree, k)
         IN [c EXCEPT !.tree = Split(@, k),
                      !.dead = IF n \in @ THEN @ \cup {k} ELSE @,
                      !.sref = (k :> c.sref[n]) @@ @,
                      !.uuid = SplitUuid(c, k)]

Walked(c, s) == SplitAt(c, Key(s, Matched(c.tree, s)))

\* The live tokens that end at node e, back to the last tombstone; a path without
\* one counts as a whole window.
LiveRun(c, e) == Len(e) - Max({-Window} \cup {Len(f) : f \in {g \in c.dead : StartsWith(e, g)}})

\* Fault: any matched node may be resumed.
Resumable_any(c, e) == TRUE

Resumable(c, e) == LiveRun(c, e) >= Window

\* match_prefix, after the walk: the pages up to the deepest resumable node.
MatchLen(c, s) ==
    Max({0} \cup {FullPages(Len(e)) : e \in {f \in OnPath(c.tree, s) : Resumable(c, f)}})

-----------------------------------------------------------------------------
(* insert. *)

\* A tombstone is revived unless a reader is locked on its pages.
Revives(c, e) == e \in c.dead /\ c.tree.ref[e] = 0

\* The walk, and the split of the tombstone the frontier ev (in pages) falls in.
Reached(c, s, ev, after) ==
    LET w == Walked(c, s)
        k == Key(s, ev)
    IN IF ev > after /\ k \in Stored(w.tree) /\ Revives(w, NodeOf(w.tree, k))
       THEN SplitAt(w, k) ELSE w

\* The pages of s, past the request's own prefix, that adopt the request's.
Adopted(c, s, m, ev, after) ==
    {i \in (after + 1)..m : i > ev /\ Revives(c, NodeOf(c.tree, Key(s, i)))}

\* Fault: the part of the suffix that is out of the window is stored as live.
DeadSuffix_none(n, m, ev) == 0

\* How much of the suffix is stored as a tombstone: never all of it.
DeadSuffix(n, m, ev) == Min({Max({0, Min({ev, n}) - m}), Max({0, n - m - 1})})

\* The walked cache w, of which m pages of s are stored, once its pages A have
\* adopted the request's and the rest of s is stored as a leaf.
Stocked(w, s, rw, m, A, b) ==
    LET n == FullPages(Len(s))
        woken == {NodeOf(w.tree, Key(s, i)) : i \in A}
        t == [w.tree EXCEPT !.page = [k \in DOMAIN @ |->
                 IF \E i \in A : k = Key(s, i) THEN rw[FullPages(Len(k))] ELSE @[k]]]
        d == [w EXCEPT !.tree = Insert(t, s, rw), !.dead = @ \ woken,
                       !.sevict = @ + Cardinality(A) + (n - m - b)]
    IN IF m = n THEN d ELSE [d EXCEPT !.sref = (Key(s, n) :> 0) @@ @,
                                      !.uuid = (Key(s, n) :> 0) @@ @]

\* The tombstone of the part of the suffix that is out of the window.
Buried(c, k) == [SplitAt(c, k) EXCEPT !.dead = @ \cup {k}]

\* The cache after insert(s, rw, ev, after), ev and after in pages.
InsertedInto(w, s, rw, m, ev, after) ==
    LET b == DeadSuffix(FullPages(Len(s)), m, ev)
        leaf == Stocked(w, s, rw, m, Adopted(w, s, m, ev, after), b)
    IN IF b = 0 THEN leaf ELSE Buried(leaf, Key(s, m + b))

Inserted(c, s, rw, ev, after) ==
    InsertedInto(Reached(c, s, ev, after), s, rw, Matched(c.tree, s), ev, after)

\* What the insert gives back: the tree's pages where it adopted the request's,
\* the request's elsewhere.
FreedFrom(w, s, rw, m, A, after) ==
    {IF i \in A THEN w.tree.page[Key(s, i)] ELSE rw[i] : i \in (after + 1)..m}

Freed(c, s, rw, ev, after) ==
    LET m == Matched(c.tree, s)
        w == Reached(c, s, ev, after)
    IN FreedFrom(w, s, rw, m, Adopted(w, s, m, ev, after), after)

-----------------------------------------------------------------------------
(* Locks. *)

LivePath(c, k) == OnPath(c.tree, k) \ c.dead
DeeperThan(S, e) == {f \in S : f # e /\ StartsWith(f, e)}

\* inc_lock: live nodes from k upwards until they make a window.
WindowNodes(c, k) ==
    {e \in LivePath(c, k) : Size(c, DeeperThan(LivePath(c, k), e)) * PageSize < Window}

\* The node where the window is first covered, if there is one.
BoundaryNodes(c, k) ==
    {e \in WindowNodes(c, k) :
        Size(c, DeeperThan(LivePath(c, k), e) \cup {e}) * PageSize >= Window}

\* _uuid + 1, but numbers no node and no handle has are used again.
FreshUuid(c, others) ==
    CHOOSE u \in 1..(Cardinality(Nodes(c.tree)) + Cardinality(others) + 1) :
        /\ u \notin others \cup {c.uuid[e] : e \in Nodes(c.tree)}
        /\ \A v \in 1..(u - 1) : v \in others \cup {c.uuid[e] : e \in Nodes(c.tree)}

IncLock(c, k, others) ==
    LET S == WindowNodes(c, k)
        B == BoundaryNodes(c, k)
        n == Size(c, {e \in S : c.sref[e] = 0})
        u == FreshUuid(c, others)
    IN [c EXCEPT !.tree = Lock(@, k),
                 !.sref = [e \in DOMAIN @ |-> IF e \in S THEN @[e] + 1 ELSE @[e]],
                 !.uuid = [e \in DOMAIN @ |-> IF e \in B /\ @[e] = 0 THEN u ELSE @[e]],
                 !.sevict = @ - n, !.sprot = @ + n]

\* The uuid inc_lock returns, read off the cache after it.
LockUuid(c, k) == IF BoundaryNodes(c, k) = {} THEN 0
                  ELSE c.uuid[CHOOSE e \in BoundaryNodes(c, k) : TRUE]

\* dec_lock: live locked nodes from k upwards, up to the one with the uuid u.
Released(c, k, u) ==
    LET S == {e \in LivePath(c, k) : c.sref[e] > 0}
    IN {e \in S : u = 0 \/ \A f \in DeeperThan(S, e) : c.uuid[f] # u}

DecLock(c, k, u) ==
    LET S == Released(c, k, u)
        n == Size(c, {e \in S : c.sref[e] = 1})
    IN [c EXCEPT !.tree = Unlock(@, k),
                 !.sref = [e \in DOMAIN @ |-> IF e \in S THEN @[e] - 1 ELSE @[e]],
                 !.sevict = @ + n, !.sprot = @ - n]

-----------------------------------------------------------------------------
(* Eviction. *)

\* The cache with the window KV of E given back and the nodes R gone.
Without(c, R, E) ==
    LET live == Nodes(c.tree) \ R
    IN [c EXCEPT !.tree = IF R = {} THEN @ ELSE RemoveNodes(@, R),
                 !.dead = (@ \cup E) \ R,
                 !.sref = [e \in live |-> @[e]],
                 !.uuid = [e \in live |-> @[e]],
                 !.sevict = @ - Size(c, E \cup (R \ c.dead))]

Idle(c) == {e \in Nodes(c.tree) \ c.dead : c.sref[e] = 0}

\* The nodes evict_swa deletes when it takes the window KV of E, with the
\* tombstones they expose.
Uncovered(c, E) ==
    {k \in Nodes(c.tree) :
        /\ c.tree.ref[k] = 0
        /\ \A e \in Below(c.tree, k) : e \in E \/ (e \in c.dead /\ ~IsLeaf(c.tree, e))}

\* evict_swa(n) pops idle nodes until n pages are out: any order.
SwaVictims(c, n) ==
    IF n <= 0 THEN {{}}
    ELSE IF Size(c, Idle(c)) < n THEN {Idle(c)}
    ELSE {E \in SUBSET Idle(c) : /\ Size(c, E) >= n
                                 /\ \E last \in E : Size(c, E \ {last}) < n}

\* evict_full(n): unlocked leaves, each with the tombstones it exposes.
Exposed(c, R, k) ==
    {e \in R : StartsWith(k, e) /\ \A f \in R : StartsWith(k, f) /\ StartsWith(f, e)
                                                  => f = k \/ f \in c.dead}

FullVictims(c, n) ==
    IF n <= 0 THEN {{}}
    ELSE {R \in SUBSET Unlocked(c.tree) :
            /\ LeafFirst(c.tree, R)
            /\ Size(c, R) >= n
            /\ \A e \in Unlocked(c.tree) \cap c.dead :
                  (Below(c.tree, e) \ {e}) \subseteq R /\ ~IsLeaf(c.tree, e) => e \in R
            /\ \E k \in R : LET before == R \ Exposed(c, R, k)
                            IN LeafFirst(c.tree, before) /\ Size(c, before) < n}

-----------------------------------------------------------------------------
(* A pass: out-of-window frees, allocate_paged, the forward, complete_one. *)

\* Frees start where the last ones ended and never in the reused prefix.
FreeFloor(h, ev) == Max({ev, h * PageSize})

\* free_swa_out_of_window_extend: n tokens have been forwarded.
ExtendFrontier(n) == IF n < Window + PageSize THEN 0 ELSE AlignDown(n - Window - PageSize)

\* maybe_free_swa_out_of_window: the tool-call anchor caps the frontier until the
\* decode is too far past it.
AnchorCap(r) == anchor[r] - Window - RetainGap
Threshold(r) == cached[r] - Window - PageSize

\* Fault: the anchor is kept however far the decode has run past it.
DropsAnchor_never(r) == FALSE

DropsAnchor(r) == anchor[r] > 0 /\ Threshold(r) - AnchorCap(r) > Window + RetainGap

DecodeFrontier(r) ==
    LET t == IF anchor[r] > 0 /\ ~DropsAnchor(r) THEN Min({Threshold(r), AnchorCap(r)}) ELSE Threshold(r)
    IN IF t < 0 THEN 0 ELSE AlignDown(t)

\* Every Interval passes, and not before the first decode step.
MayFree(r) == iter = 0 /\ stepped[r]

\* The pass over tokens n0 + 1..dev of s from the cache c, the row rw and the
\* free frontiers: it frees row pages up to frontier, then allocates.
Pass(r, c, s, n0, rw, from, frontier, dev) ==
    LET new == PagesFor(dev) - PagesFor(n0)
        out == RowPages(rw, FullPages(from), FullPages(frontier)) \cap swaLive
    IN \E R \in FullVictims(c, new - Cardinality(InBag(free))) :
         LET f    == PutAll(free, PagesOf(c, R))
             x    == ToSet(Least(f, new))
             c1   == Without(c, R, {})
             outR == PagesOf(c, R \ c.dead) \cap (swaLive \ out)
             sf   == swaFree + Cardinality(out \cup outR)
         IN /\ Cardinality(x) = new
            /\ \E E \in SwaVictims(c1, new - sf) :
                 LET outE == PagesOf(c1, E) \cap (swaLive \ (out \cup outR))
                     gone == Uncovered(c1, E)
                 IN /\ new <= sf + Cardinality(outE)
                    /\ cache' = Without(c1, gone, E)
                    /\ free' = PutAll(Taken(f, x), PagesOf(c1, gone))
                    /\ swaFree' = sf + Cardinality(outE) - new
                    /\ swaLive' = (swaLive \ (out \cup outR \cup outE)) \cup x
            /\ LET rw2 == rw \o Least(f, new)
                   written == (FullPages(n0) + 1)..PagesFor(dev)
               IN /\ row' = [row EXCEPT ![r] = rw2]
                  /\ kv' = [p \in Pages |->
                       IF \E i \in written : rw2[i] = p
                       THEN SubSeq(s, 1, Min({dev, PageSize * (CHOOSE i \in written : rw2[i] = p)}))
                       ELSE IF free'[p] > 0 THEN <<>> ELSE kv[p]]
            /\ evicted' = [evicted EXCEPT ![r] = IF frontier > from THEN frontier ELSE @]
            /\ cached' = [cached EXCEPT ![r] = dev]
            /\ iter' = (iter + 1) % Interval
            /\ \E tok \in Sampled : ids' = [ids EXCEPT ![r] = IF dev = Len(s) THEN Append(s, tok) ELSE s]

\* _add_one_req: where a chunk from n0 may end, given the pages the window pool can
\* back; an end inside the prompt is page-aligned.  A prompt with images is one chunk.
ChunkEnds(r, c, s, n0, reclaim) ==
    LET most == (PagesFor(n0) + swaFree + c.sevict + reclaim) * PageSize
        End(b) == LET e == Min({n0 + b, Len(s), most})
                  IN IF e < Len(s) THEN AlignDown(e) ELSE e
    IN {e \in {End(b) : b \in Budgets} : e > n0 /\ (Shared(r) \/ e = Len(s))}

MatchIds(r, s) == IF Shared(r) THEN SubSeq(s, 1, Len(s) - 1) ELSE Root
OtherUuids(r) == {uuid[q] : q \in Active \ {r}}

\* Admission and the first chunk.
Admit(r) ==
    /\ stage[r] = "idle"
    /\ Cardinality(Active) < TableSlots
    /\ \E s \in Prompts :
        LET w == Walked(cache, MatchIds(r, s))
            m == MatchLen(w, MatchIds(r, s))
            c == IncLock(w, Key(s, m), OtherUuids(r))
            n == m * PageSize
            need == PagesFor(Min({Len(s) - n, Window}) + 1)
        IN /\ swaFree + c.sevict >= need
           /\ \E dev \in ChunkEnds(r, c, s, n, 0) :
                /\ Pass(r, c, s, n, [i \in 1..m |-> c.tree.page[Key(s, i)]], n, 0, dev)
                /\ stage' = [stage EXCEPT ![r] = IF dev = Len(s) THEN "sampled" ELSE "prefill"]
                /\ plen' = [plen EXCEPT ![r] = dev]
           /\ hit' = [hit EXCEPT ![r] = m]
           /\ uuid' = [uuid EXCEPT ![r] = LockUuid(c, Key(s, m))]
    /\ UNCHANGED <<stepped, anchor>>

\* A match whose admission is refused: it has split the tree.
Refuse(r) ==
    /\ stage[r] = "idle"
    /\ \E s \in Prompts : cache' = Walked(cache, MatchIds(r, s))
    /\ UNCHANGED <<free, swaFree, swaLive, kv, iter, reqVars>>

Extend(r) ==
    /\ stage[r] = "prefill"
    /\ LET from == FreeFloor(hit[r], evicted[r])
           to   == ExtendFrontier(cached[r])
           gain == Max({0, FullPages(to) - FullPages(from)})
       IN \E dev \in ChunkEnds(r, cache, ids[r], cached[r], gain) :
            /\ Pass(r, cache, ids[r], cached[r], row[r], from, to, dev)
            /\ stage' = [stage EXCEPT ![r] = IF dev = Len(ids[r]) THEN "sampled" ELSE "prefill"]
            /\ plen' = [plen EXCEPT ![r] = dev]
    /\ UNCHANGED <<hit, uuid, stepped, anchor>>

Decode(r) ==
    /\ stage[r] \in {"sampled", "decode"} /\ Len(ids[r]) < MaxLen
    /\ LET from == FreeFloor(hit[r], evicted[r])
       IN Pass(r, cache, ids[r], cached[r], row[r], from,
               IF MayFree(r) THEN DecodeFrontier(r) ELSE 0, Len(ids[r]))
    /\ stage' = [stage EXCEPT ![r] = IF @ = "sampled" THEN "ahead" ELSE "decode"]
    /\ stepped' = [stepped EXCEPT ![r] = TRUE]
    /\ anchor' = [anchor EXCEPT ![r] = IF MayFree(r) /\ DropsAnchor(r) THEN 0 ELSE @]
    /\ UNCHANGED <<hit, uuid, plen>>

\* A drained step whose token opens a tool call.
SeeAnchor(r) ==
    /\ r \in AnchorReqs /\ stage[r] = "decode" /\ anchor[r] = 0
    /\ \E a \in {Len(ids[r]) - 1, Len(ids[r])} :
         a > plen[r] /\ anchor' = [anchor EXCEPT ![r] = a]
    /\ UNCHANGED <<poolVars, iter, stage, ids, row, cached, hit, plen, uuid, evicted, stepped>>

-----------------------------------------------------------------------------
(* _cache_req_swa. *)

KeepFrom(n) == IF n < Window + RetainGap THEN 0 ELSE AlignDown(n - Window - RetainGap)

GiveBack(f, S) ==
    /\ swaFree' = swaFree + Cardinality(S \cap swaLive)
    /\ swaLive' = swaLive \ S
    /\ kv' = [p \in Pages |-> IF f[p] > 0 THEN <<>> ELSE kv[p]]

\* The committed part of the row names the tree's pages.
Repointed(c, s, m, rw) ==
    [i \in DOMAIN rw |-> IF i <= m THEN c.tree.page[Key(s, i)] ELSE rw[i]]

\* The whole computed pages; the cache once they are inserted and the old lock is
\* released; and the pages the insert gives back.
Computed(r)  == Key(ids[r], FullPages(cached[r]))
Published(r) == DecLock(Inserted(cache, Computed(r), row[r], FullPages(evicted[r]), hit[r]),
                        HandleKey(r), uuid[r])
GivenBack(r) == Freed(cache, Computed(r), row[r], FullPages(evicted[r]), hit[r])

\* The second match of s, walked in c: lock it and re-point the row.
Relock(r, s, c, back) ==
    LET m  == MatchLen(c, s)
        c3 == IncLock(c, Key(s, m), OtherUuids(r))
    IN /\ cache' = c3
       /\ free' = PutAll(free, back)
       /\ GiveBack(free', back)
       /\ row' = [row EXCEPT ![r] = Repointed(c, s, m, @)]
       /\ hit' = [hit EXCEPT ![r] = m]
       /\ uuid' = [uuid EXCEPT ![r] = LockUuid(c3, Key(s, m))]

\* The prompt is committed: insert, unlock, free, a node boundary a window back,
\* match and lock again.
CommitShared(r) ==
    /\ Shared(r)
    /\ LET s == Computed(r) IN
       Relock(r, s, Walked(Walked(Published(r), SubSeq(s, 1, KeepFrom(Len(s)))), s),
              GivenBack(r))

Commit(r) ==
    /\ stage[r] \in {"sampled", "ahead"}
    /\ \/ CommitShared(r)
       \/ ~Shared(r) /\ UNCHANGED <<poolVars, row, hit, uuid>>
    /\ stage' = [stage EXCEPT ![r] = "decode"]
    /\ UNCHANGED <<iter, ids, cached, plen, evicted, stepped, anchor>>

\* _padded_tail: from page n to the last, partly filled one.
PaddedTail(r, n) == RowPages(row[r], n, PagesFor(cached[r]))

\* trim_head_swa: the unlocked inner nodes that end at or before the n-th token.
Trimmed(c, s, n) ==
    {e \in OnPath(c.tree, SubSeq(s, 1, n)) \ c.dead : c.sref[e] = 0 /\ ~IsLeaf(c.tree, e)}

\* The request's prompt p, in the cache c: k tokens of it are out of the window.
HeadSplit(c, p, k) == IF k = 0 THEN c ELSE Walked(c, SubSeq(p, 1, k))
HeadOf(c, p, k) == IF k = 0 THEN {} ELSE Trimmed(c, p, k)

\* trim_head_swa of a prompt p: give back the window KV of its head E.
TrimHead(c, p, E) == IF p = <<>> THEN c ELSE Walked(Without(c, {}, E), p)

Close(c, p, E, back) ==
    /\ cache' = TrimHead(c, p, E)
    /\ free' = PutAll(free, back)
    /\ GiveBack(free', back \cup PagesOf(c, E))

\* cache_req(finished=True): the head of the prompt loses its window KV.  The prompt of a
\* ChunkedReq that is aborted ends with its chunk.
FinishShared(r) ==
    LET p == SubSeq(ids[r], 1, AlignDown(plen[r]))
        Trim(c, k) == Close(c, p, HeadOf(c, p, k),
                            GivenBack(r) \cup PaddedTail(r, FullPages(cached[r])))
    IN Trim(HeadSplit(Published(r), p, KeepFrom(Len(p))), KeepFrom(Len(p)))

FinishPrivate(r) ==
    /\ UNCHANGED cache
    /\ free' = PutAll(free, PaddedTail(r, 0))
    /\ GiveBack(free', PaddedTail(r, 0))

Finish(r) ==
    /\ r \in Active
    /\ IF Shared(r) THEN FinishShared(r) ELSE FinishPrivate(r)
    /\ stage' = [stage EXCEPT ![r] = "idle"]
    /\ ids' = [ids EXCEPT ![r] = <<>>] /\ row' = [row EXCEPT ![r] = <<>>]
    /\ cached' = [cached EXCEPT ![r] = 0] /\ hit' = [hit EXCEPT ![r] = 0]
    /\ plen' = [plen EXCEPT ![r] = 0] /\ uuid' = [uuid EXCEPT ![r] = 0]
    /\ evicted' = [evicted EXCEPT ![r] = 0] /\ stepped' = [stepped EXCEPT ![r] = FALSE]
    /\ anchor' = [anchor EXCEPT ![r] = 0]
    /\ UNCHANGED iter

\* rebuild, idle only.
Rebuild ==
    /\ Active = {}
    /\ cache' = EmptyCache
    /\ free' = [p \in Pages |-> 1]
    /\ swaFree' = NumSwa /\ swaLive' = {}
    /\ kv' = [p \in Pages |-> <<>>]
    /\ UNCHANGED <<iter, reqVars>>

-----------------------------------------------------------------------------
Init ==
    /\ cache = EmptyCache
    /\ free = [p \in Pages |-> 1]
    /\ swaFree = NumSwa /\ swaLive = {} /\ iter = 0
    /\ stage = [r \in Reqs |-> "idle"]
    /\ ids = [r \in Reqs |-> <<>>] /\ row = [r \in Reqs |-> <<>>]
    /\ cached = [r \in Reqs |-> 0] /\ hit = [r \in Reqs |-> 0] /\ plen = [r \in Reqs |-> 0]
    /\ uuid = [r \in Reqs |-> 0] /\ evicted = [r \in Reqs |-> 0]
    /\ stepped = [r \in Reqs |-> FALSE] /\ anchor = [r \in Reqs |-> 0]
    /\ kv = [p \in Pages |-> <<>>]

Next ==
    \/ \E r \in Reqs : \/ Admit(r) \/ Refuse(r) \/ Extend(r) \/ Decode(r)
                       \/ SeeAnchor(r) \/ Commit(r) \/ Finish(r)
    \/ Rebuild

Spec == Init /\ [][Next]_vars

-----------------------------------------------------------------------------
(* Properties. *)

Count(S) == Cardinality(S)
Owned(r) == {row[r][i] : i \in (hit[r] + 1)..Len(row[r])}
LivePages == PagesOf(cache, Nodes(cache.tree) \ cache.dead)

\* Type invariant: the window state is kept for exactly the nodes, and lengths,
\* frontiers and counters are in range.
TypeOK ==
    /\ DOMAIN cache.sref = Nodes(cache.tree) /\ DOMAIN cache.uuid = Nodes(cache.tree)
    /\ cache.dead \subseteq Nodes(cache.tree) /\ cache.tree.ref \in [Nodes(cache.tree) -> Nat]
    /\ {cache.sevict, cache.sprot, cache.tree.evictable, cache.tree.protected, swaFree} \subseteq Nat
    /\ \A r \in Reqs : /\ cached[r] <= Len(ids[r]) /\ Len(ids[r]) <= MaxLen
                       /\ hit[r] * PageSize <= cached[r] /\ evicted[r] <= cached[r]
                       /\ Len(row[r]) = PagesFor(cached[r])

\* Every KV page is owned once: free, in the tree, or by one request, across
\* adoption of a request's pages by a revived node and the frees that go with it.
PagesConserved ==
    \A p \in Pages :
        free[p] + Count({k \in Stored(cache.tree) : cache.tree.page[k] = p})
                + Count({r \in Active : p \in Owned(r)}) = 1

\* check_integrity of the window pool at any moment, not only when idle: a page has
\* a window slot only while a live node or the request that owns it needs it, a
\* live node has all of its own, and free and mapped slots make the whole pool.
SwaConserved ==
    /\ swaFree + Count(swaLive) = NumSwa
    /\ LivePages \subseteq swaLive
    /\ swaLive \subseteq LivePages \cup UNION {Owned(r) : r \in Active}

\* The full-attention layers read a request's own KV in all of its row.
RowsHoldOwnKV ==
    \A r \in Active : \A i \in DOMAIN row[r] :
        kv[row[r][i]] = SubSeq(ids[r], 1, Min({i * PageSize, cached[r]}))

\* The window layers of the next pass find the window KV of the tokens before it:
\* "the re-matched slots are live" (cache.py:506), through frees, evictions,
\* tombstones and re-pointed rows.
WindowReadable ==
    \A r \in Active :
        \A i \in DOMAIN row[r] : i * PageSize > cached[r] - Window + 1 => row[r][i] \in swaLive

\* The window layers of a pass find the window KV of the tokens before its first one,
\* whatever the match, the frees and the evictions that come before it have done.
ReadsWindow ==
    \A r \in Reqs : cached'[r] > 0 /\ (cached'[r] # cached[r] \/ stage[r] = "idle") =>
        LET n0 == IF stage[r] = "idle" THEN hit'[r] * PageSize ELSE cached[r]
        IN \A i \in 1..PagesFor(n0) : i * PageSize > n0 - Window + 1 => row'[r][i] \in swaLive'

PassReadsWindow == [][ReadsWindow]_vars

\* The counters agree with the nodes, a window lock is held on live nodes only and
\* never without the lock on the pages, and when nothing runs none is left behind.
LocksExact ==
    LET live == Nodes(cache.tree) \ cache.dead
        t == cache.tree
    IN /\ cache.sevict = Size(cache, Idle(cache))
       /\ cache.sprot = Size(cache, live \ Idle(cache))
       /\ \A e \in cache.dead : cache.sref[e] = 0
       /\ \A e \in Nodes(t) : /\ cache.sref[e] <= t.ref[e]
                              /\ t.ref[e] = Count({r \in Active : StartsWith(HandleKey(r), e)})
       /\ t.evictable = Size(cache, Unlocked(t))

\* The window before a handle's end stays locked as long as the handle does,
\* however the nodes it was taken on have been split since.
WindowLocked ==
    \A r \in Active : hit[r] > 0 =>
        \A k \in Stored(cache.tree) :
            StartsWith(HandleKey(r), k) /\ Len(k) > hit[r] * PageSize - Window =>
                /\ NodeOf(cache.tree, k) \notin cache.dead
                /\ cache.sref[NodeOf(cache.tree, k)] > 0

\* A leaf nobody is locked on has its window KV: no unlocked tombstone is left where
\* no request could resume.
LeavesAreLive ==
    \A e \in Nodes(cache.tree) : IsLeaf(cache.tree, e) /\ cache.tree.ref[e] = 0 => e \notin cache.dead

\* "SWA pool exhausted" is not raised: with the pool no smaller than _swa_pool_floor
\* a decode step finds a window slot for its token.
DecodeFindsSlot ==
    \A r \in Active : stage[r] \in {"sampled", "decode"} /\ PagesFor(Len(ids[r])) > PagesFor(cached[r]) =>
        swaFree + Size(cache, Idle(cache)) >= 1
=============================================================================
