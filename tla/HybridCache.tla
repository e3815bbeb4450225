---------------------------- MODULE HybridCache ----------------------------
(***************************************************************************)
(* The prefix cache of hybrid models (kvcache/hybrid_radix_cache.py) with  *)
(* the pool of recurrent-state slots (kvcache/linear_state_pool.py), as    *)
(* CacheManager and PrefillAdder drive them.                               *)
(*                                                                         *)
(* Next to KV pages a request needs the state of its linear-attention      *)
(* layers.  The tree keeps, at some nodes, a slot with a snapshot of that  *)
(* state after exactly the node's tokens; a request that resumes a prefix  *)
(* copies the snapshot into its live slot.  Snapshots and pages are locked *)
(* and evicted separately: a node that lost its snapshot and kept its      *)
(* pages is a tombstone.                                                   *)
(*                                                                         *)
(* kv and state are histories: the tokens each page was computed from, and *)
(* the tokens each slot's state has seen.  No code compares page or slot   *)
(* numbers, so an allocation takes the least free ones.  Next drives one   *)
(* request at a time, in every order the scheduler may; one decode step    *)
(* may be launched before the commit of the prompt, as in KVCache.         *)
(***************************************************************************)
EXTENDS RadixTree, SequencesExt

CONSTANTS
    Reqs,         \* request uids
    MMReqs,       \* the uids whose prompt carries images
    NumPages,     \* KV pages
    NumSlots,     \* usable slots of the LinearStatePool
    TableSlots,   \* max_running_req
    ChunkSize,    \* CHUNK_SIZE of the linear-attention kernel
    Tokens, Prompts, MaxLen

ASSUME HybridAssumption ==
    /\ IsFiniteSet(Reqs) /\ MMReqs \subseteq Reqs
    /\ {NumPages, NumSlots, TableSlots, MaxLen} \subseteq Nat
    /\ ChunkSize \in Nat \ {0} /\ ChunkSize % PageSize = 0
    /\ Prompts \subseteq {s \in Seq(Tokens) : Len(s) \in 1..(MaxLen - 1)}

Pages == 1..NumPages
Slots == 1..NumSlots

VARIABLES
    cache,     \* the HybridRadixCache: tree, snapshots and counters
    free,      \* free_slots, as a bag of pages
    pool,      \* LinearStatePool._free_slots, as a bag of slots
    stage,     \* per request: where it is between admission and release
    ids, row, cached,   \* as in KVCache
    hit,       \* cache_handle.cached_len in pages; its node is Key(ids, hit)
    plen,      \* the length of the prompt
    live,      \* linear_slot_idx
    pingpong,  \* mamba_ping_pong: the two track slots
    track,     \* mamba_next_track_idx (1 or 2): the slot the next track writes
    frozen,    \* mamba_last_track_seqlen: tokens in the slot tracked last; 0 = None
    restore,   \* mamba_restore_src
    anchor,    \* toolcall_anchor_len; 0 = None
    kv, state  \* histories

poolVars  == <<cache, free, pool>>
slotVars  == <<live, pingpong, track, frozen, restore, anchor>>
reqVars   == <<stage, ids, row, cached, hit, plen>>
vars      == <<poolVars, reqVars, slotVars, kv, state>>

NoSlot == 0
Active == {r \in Reqs : stage[r] # "idle"}
Shared(r) == r \notin MMReqs
HandleKey(r) == Key(ids[r], hit[r])
Computed(s, n) == SubSeq(s, 1, n)

\* Free lists are bags, so that a page or slot freed twice shows.
InBag(bag) == {x \in DOMAIN bag : bag[x] > 0}
Put(bag, s) == [x \in DOMAIN bag |-> bag[x] + Cardinality({i \in DOMAIN s : s[i] = x})]
PutAll(bag, S) == [x \in DOMAIN bag |-> IF x \in S THEN bag[x] + 1 ELSE bag[x]]
Least(bag, n) ==
    [i \in 1..Min({n, Cardinality(InBag(bag))}) |->
        CHOOSE x \in InBag(bag) : Cardinality({y \in InBag(bag) : y < x}) = i - 1]
Taken(bag, s) == [x \in DOMAIN bag |-> IF x \in ToSet(s) THEN bag[x] - 1 ELSE bag[x]]

-----------------------------------------------------------------------------
(* HybridRadixCache.  Splitting a node leaves its snapshot with the lower  *)
(* half, whose name does not change.                                       *)

EmptyCache == [tree |-> EmptyTree, slot |-> <<>>, ref |-> <<>>,
               evictable |-> 0, protected |-> 0]

Snapshots(c) == DOMAIN c.slot

Walked(c, s) == [c EXCEPT !.tree = Walk(c.tree, s)]

\* match_prefix: the reusable length, in pages, is cut to the deepest snapshot.
MatchLen(c, s) ==
    Max({0} \cup {i \in 1..Matched(c.tree, s) : Key(s, i) \in Snapshots(c)})

\* insert: the boundary node of s takes the snapshot x unless it has one.
Exists(c, s) == LET k == Key(s, FullPages(Len(s))) IN k = Root \/ k \in Snapshots(c)

InsertSnapshot(c, s, r, x) ==
    LET k == Key(s, FullPages(Len(s)))
        d == [c EXCEPT !.tree = Insert(c.tree, s, r)]
    IN IF Exists(c, s) THEN d
       ELSE [d EXCEPT !.slot = @ @@ (k :> x), !.ref = @ @@ (k :> 0), !.evictable = @ + 1]

\* inc_lock: the snapshot of the node, and the pages of its path.
IncLock(c, k) ==
    LET d == [c EXCEPT !.tree = Lock(c.tree, k)]
        first == IF k \in Snapshots(c) /\ c.ref[k] = 0 THEN 1 ELSE 0
    IN IF k \notin Snapshots(c) THEN d
       ELSE [d EXCEPT !.ref[k] = @ + 1, !.evictable = @ - first, !.protected = @ + first]

\* dec_lock.
DecLock(c, k) ==
    LET d == [c EXCEPT !.tree = Unlock(c.tree, k)]
        last == IF k \in Snapshots(c) /\ c.ref[k] = 1 THEN 1 ELSE 0
    IN IF k \notin Snapshots(c) \/ c.ref[k] = 0 THEN d
       ELSE [d EXCEPT !.ref[k] = @ - 1, !.evictable = @ + last, !.protected = @ - last]

Below(t, k) == {e \in Nodes(t) : StartsWith(e, k)}
IsLeaf(t, k) == Below(t, k) = {k}

\* The cache without the nodes R and without the snapshots S.
Without(c, R, S) ==
    LET gone == S \cup (R \cap Snapshots(c))
    IN [c EXCEPT !.tree = IF R = {} THEN @ ELSE RemoveNodes(@, R),
                 !.slot = [k \in Snapshots(c) \ gone |-> c.slot[k]],
                 !.ref  = [k \in Snapshots(c) \ gone |-> c.ref[k]],
                 !.evictable = @ - Cardinality({k \in gone : c.ref[k] = 0})]

\* Fault: the tombstones above an evicted leaf stay.
Uncovered_leaves(c, E) == {k \in E : IsLeaf(c.tree, k) /\ c.tree.ref[k] = 0}

\* The nodes evict_mamba deletes when it takes the snapshots E: the leaves among
\* them, and upwards every unlocked node that is left without snapshot and
\* children (_cascade_tombstone_leaves).
Uncovered(c, E) ==
    {k \in Nodes(c.tree) :
        /\ c.tree.ref[k] = 0
        /\ \A e \in Below(c.tree, k) :
              e \in E \/ (e \notin Snapshots(c) /\ ~IsLeaf(c.tree, e))}

\* The snapshots evict_mamba may take, least recently used first: any order.
Idle(c) == {k \in Snapshots(c) : c.ref[k] = 0}

\* evict_full pops unlocked leaves, each with the tombstones it exposes, until n
\* pages are out: without the last leaf and what it exposed there were fewer.
Exposed(c, R, k) ==
    {e \in R : StartsWith(k, e) /\ \A f \in R : StartsWith(k, f) /\ StartsWith(f, e)
                                                  => f = k \/ f \notin Snapshots(c)}

FullVictims(c, n) ==
    IF n <= 0 THEN {{}}
    ELSE {R \in SUBSET Unlocked(c.tree) :
            /\ LeafFirst(c.tree, R)
            /\ Cardinality(PrefixesOf(c.tree, R)) >= n
            /\ \A e \in Unlocked(c.tree) \ Snapshots(c) :
                  (Below(c.tree, e) \ {e}) \subseteq R /\ ~IsLeaf(c.tree, e) => e \in R
            /\ \E k \in R : LET before == R \ Exposed(c, R, k)
                            IN /\ LeafFirst(c.tree, before)
                               /\ Cardinality(PrefixesOf(c.tree, before)) < n}

\* What an eviction gives back.
PagesOf(c, R) == {c.tree.page[k] : k \in PrefixesOf(c.tree, R)}
SlotsOf(c, S) == {c.slot[k] : k \in S}

-----------------------------------------------------------------------------
(* CacheManager. *)

\* ensure_mamba_slots(n): the sets of snapshots it may take when c and the free
\* slots b are what there is.
MambaVictims(c, b, n) ==
    kSubset(Max({0, Min({n - Cardinality(InBag(b)), Cardinality(Idle(c))})}), Idle(c))

MatchIds(r, s) == IF Shared(r) THEN SubSeq(s, 1, Len(s) - 1) ELSE Root

\* A slot that is free or was just handed out holds nothing to rely on.
Forgotten(S) == [x \in Slots |-> IF x \in S THEN <<>> ELSE state[x]]
Kept(f) == kv' = [p \in Pages |-> IF f[p] > 0 THEN <<>> ELSE kv[p]]

\* _try_allocate_one, granted: match, lock, three slots.  That the slots can be
\* had is AdmissionFindsSlots; the refusal for want of slots has no step.
Admit(r) ==
    /\ stage[r] = "idle"
    /\ Cardinality(Active) < TableSlots
    /\ \E s \in Prompts :
        LET m == MatchLen(cache, MatchIds(r, s))
            c == IncLock(Walked(cache, MatchIds(r, s)), Key(s, m))
        IN \E E \in MambaVictims(c, pool, 3) :
            LET b == PutAll(pool, SlotsOf(c, E))
                x == Least(b, 3)
            IN /\ Len(x) = 3
               /\ cache' = Without(c, Uncovered(c, E), E)
               /\ free' = PutAll(free, PagesOf(c, Uncovered(c, E)))
               /\ pool' = Taken(b, x)
               /\ stage' = [stage EXCEPT ![r] = "prefill"]
               /\ ids' = [ids EXCEPT ![r] = s]
               /\ plen' = [plen EXCEPT ![r] = Len(s)]
               /\ hit' = [hit EXCEPT ![r] = m]
               /\ cached' = [cached EXCEPT ![r] = m * PageSize]
               /\ row' = [row EXCEPT ![r] = [i \in 1..m |-> cache.tree.page[Key(s, i)]]]
               /\ live' = [live EXCEPT ![r] = x[1]]
               /\ pingpong' = [pingpong EXCEPT ![r] = <<x[2], x[3]>>]
               /\ track' = [track EXCEPT ![r] = 1]
               /\ frozen' = [frozen EXCEPT ![r] = 0]
               /\ restore' = [restore EXCEPT ![r] = 
                                IF Key(s, m) \in Snapshots(cache) THEN cache.slot[Key(s, m)] ELSE NoSlot]
               /\ anchor' = [anchor EXCEPT ![r] = 0]
               /\ state' = Forgotten(SlotsOf(c, E))
               /\ Kept(free')

\* A match whose admission is refused for want of pages: it has split the tree.
Refuse(r) ==
    /\ stage[r] = "idle"
    /\ \E s \in Prompts : cache' = Walked(cache, MatchIds(r, s))
    /\ UNCHANGED <<free, pool, reqVars, slotVars, kv, state>>

-----------------------------------------------------------------------------
(* A forward pass of one request, from allocate_paged to complete_one.     *)

\* The state the pass starts from: the snapshot the admission matched, copied by
\* _restore_linear_states; a cleared slot at the start of a sequence; or what the
\* pass before left.
StartState(r) ==
    CASE restore[r] # NoSlot -> state[restore[r]]
      [] restore[r] = NoSlot /\ cached[r] = 0 -> <<>>
      [] OTHER -> state[live[r]]

\* _build_track_metadata: the deepest kernel chunk strictly inside the extend.
Boundary(r, dev) ==
    LET c == (dev - cached[r] - 1) \div ChunkSize
    IN IF stage[r] = "prefill" /\ c >= 1 THEN cached[r] + c * ChunkSize ELSE 0

\* Fault: the live state is frozen also when a pass has gone past the anchor.
AtAnchor_late(r) == /\ stage[r] = "decode" /\ anchor[r] > 0 /\ frozen[r] = 0
                    /\ anchor[r] % PageSize = 0

\* snapshot_toolcall_anchor: a decode pass about to be launched right after the
\* token that opened a tool call freezes the live state first.
AtAnchor(r) == /\ stage[r] = "decode" /\ anchor[r] > 0 /\ frozen[r] = 0
               /\ anchor[r] = cached[r] /\ anchor[r] % PageSize = 0

NextTrack(r) == 3 - track[r]

AfterForward(r, done) ==
    CASE stage[r] = "prefill" -> IF done THEN "sampled" ELSE "prefill"
      [] stage[r] = "sampled" -> "ahead"
      [] OTHER                -> "decode"

\* A prompt is prefilled in chunks of any size, one with images in one piece.
Lengths(r) == IF stage[r] = "prefill" /\ Shared(r) THEN (cached[r] + 1)..Len(ids[r])
                                                  ELSE {Len(ids[r])}

Forward(r) ==
    /\ r \in Active /\ stage[r] # "ahead" /\ Len(ids[r]) < MaxLen
    /\ \E dev \in Lengths(r), tok \in Tokens :
        LET new   == PagesFor(dev) - PagesFor(cached[r])
            short == new - Cardinality(InBag(free))
            base  == StartState(r)
            b     == Boundary(r, dev)
            dst   == pingpong[r][track[r]]
        IN /\ new <= cache.tree.evictable + Cardinality(InBag(free))
           /\ \E R \in FullVictims(cache, short) :
                LET f == PutAll(free, PagesOf(cache, R))
                    x == Least(f, new)
                    gone == SlotsOf(cache, R \cap Snapshots(cache))
                IN /\ cache' = IF R = {} THEN cache ELSE Without(cache, R, {})
                   /\ free' = Taken(f, x)
                   /\ pool' = PutAll(pool, gone)
                   /\ row' = [row EXCEPT ![r] = @ \o x]
                   /\ kv' = [p \in Pages |->
                        IF \E i \in (FullPages(cached[r]) + 1)..PagesFor(dev) : row'[r][i] = p
                        THEN LET i == CHOOSE i \in (FullPages(cached[r]) + 1)..PagesFor(dev) :
                                          row'[r][i] = p
                             IN SubSeq(ids[r], 1, Min({i * PageSize, dev}))
                        ELSE IF free'[p] > 0 THEN <<>> ELSE kv[p]]
                   /\ state' = [y \in Slots |->
                        CASE y = live[r] -> base \o SubSeq(ids[r], cached[r] + 1, dev)
                          [] y = dst /\ b > 0 -> base \o SubSeq(ids[r], cached[r] + 1, b)
                          [] y = dst /\ AtAnchor(r) -> base
                          [] y \in gone -> <<>>
                          [] OTHER -> state[y]]
           /\ frozen' = [frozen EXCEPT ![r] = IF AtAnchor(r) THEN anchor[r]
                                              ELSE IF stage[r] = "prefill" THEN b ELSE @]
           /\ track' = [track EXCEPT ![r] = IF b > 0 \/ AtAnchor(r) THEN NextTrack(r) ELSE @]
           /\ restore' = [restore EXCEPT ![r] = NoSlot]
           /\ cached' = [cached EXCEPT ![r] = dev]
           /\ ids' = [ids EXCEPT ![r] = IF dev = Len(@) THEN Append(@, tok) ELSE @]
           /\ stage' = [stage EXCEPT ![r] = AfterForward(r, dev = Len(ids[r]))]
    /\ UNCHANGED <<hit, plen, live, pingpong, anchor>>

-----------------------------------------------------------------------------
(* _cache_req_hybrid. *)

FrozenSlot(r) == pingpong[r][3 - track[r]]

\* There is a frozen state and it ends where a node can end.
Donates(r) == frozen[r] > 0 /\ frozen[r] % PageSize = 0

\* match_prefix and lock of the node just donated to, before the replacement slot
\* is looked for.
Relock(c, r, k) == IncLock(c, k)

\* The tool-call opener may be the token the drain has just seen: it is the last
\* one sampled, or the one before it when a pass was launched since.
Anchors(r) == IF anchor[r] > 0 THEN {anchor[r]}
              ELSE {0} \cup {a \in {Len(ids[r]) - 1, Len(ids[r])} : a > plen[r]}

\* The commit of a prompt: donate the frozen state.
CommitDonate(r) ==
    LET L == frozen[r]
        s == SubSeq(ids[r], 1, L)
        k == Key(s, FullPages(L))
        m == Matched(cache.tree, s)
        exist == Exists(cache, s)
        c == Relock(DecLock(InsertSnapshot(cache, s, row[r], FrozenSlot(r)), HandleKey(r)), r, k)
        dup == SubSeq(row[r], hit[r] + 1, m)
    IN /\ Shared(r) /\ Donates(r)
       /\ row' = [row EXCEPT ![r] = [i \in DOMAIN @ |->
                    IF i \in (hit[r] + 1)..m THEN c.tree.page[Key(s, i)] ELSE @[i]]]
       /\ hit' = [hit EXCEPT ![r] = FullPages(L)]
       /\ \E E \in (IF exist THEN {{}} ELSE MambaVictims(c, pool, 1)) :
            LET b == PutAll(pool, SlotsOf(c, E))
                x == Least(b, IF exist THEN 0 ELSE 1)
            IN /\ exist \/ Len(x) = 1
               /\ cache' = Without(c, Uncovered(c, E), E)
               /\ free' = PutAll(Put(free, dup), PagesOf(c, Uncovered(c, E)))
               /\ pool' = Taken(b, x)
               /\ pingpong' = IF exist THEN pingpong
                              ELSE [pingpong EXCEPT ![r][3 - track[r]] = x[1]]
               /\ state' = Forgotten(SlotsOf(c, E) \cup ToSet(x))
       /\ frozen' = [frozen EXCEPT ![r] = 0]

\* No boundary was crossed, or it is inside a page, or the prompt has images:
\* the request keeps its pages.
CommitNothing(r) ==
    /\ ~Shared(r) \/ ~Donates(r)
    /\ frozen' = [frozen EXCEPT ![r] = IF Shared(r) THEN 0 ELSE @]
    /\ UNCHANGED <<cache, free, pool, row, hit, pingpong, state>>

Commit(r) ==
    /\ stage[r] \in {"sampled", "ahead"}
    /\ CommitDonate(r) \/ CommitNothing(r)
    /\ stage' = [stage EXCEPT ![r] = "decode"]
    /\ \E a \in Anchors(r) : anchor' = [anchor EXCEPT ![r] = a]
    /\ Kept(free')
    /\ UNCHANGED <<ids, cached, plen, live, track, restore>>

\* A drained decode step whose token opens a tool call.
SeeAnchor(r) ==
    /\ stage[r] = "decode" /\ anchor[r] = 0
    /\ \E a \in Anchors(r) \ {0} : anchor' = [anchor EXCEPT ![r] = a]
    /\ UNCHANGED <<poolVars, reqVars, live, pingpong, track, frozen, restore, kv, state>>

\* The live state can be donated only where a node ends.
DonatesLive(r) == Shared(r) /\ cached[r] % PageSize = 0

\* Fault: the donated frozen slot is freed with the other one.
SpentSlots_both(r, exist) == pingpong[r]

\* The ping-pong slots that go back after the frozen one was offered to the tree.
SpentSlots(r, exist) == SelectSeq(pingpong[r], LAMBDA x : exist \/ x # FrozenSlot(r))

\* free_upto: what the first insert took is the tree's.
FreeUpto(r, L) == Max({hit[r], FullPages(L)})

\* cache_req(finished=True): offer the frozen state, then the live one, free the
\* duplicates below each, then the rest of the slots.
Finish(r) ==
    /\ r \in Active
    /\ stage[r] = "prefill" => cached[r] > hit[r] * PageSize
    /\ LET done == Computed(ids[r], cached[r])
           L    == IF Shared(r) /\ Donates(r) THEN frozen[r] ELSE 0
           s    == SubSeq(ids[r], 1, L)
           c1   == IF L = 0 THEN cache ELSE InsertSnapshot(cache, s, row[r], FrozenSlot(r))
           out1 == IF L = 0 THEN pingpong[r] ELSE SpentSlots(r, Exists(cache, s))
           dup1 == IF L = 0 THEN <<>> ELSE SubSeq(row[r], hit[r] + 1, Matched(cache.tree, s))
           from == FreeUpto(r, L)
           c2   == IF DonatesLive(r) THEN InsertSnapshot(c1, done, row[r], live[r]) ELSE c1
           keep == DonatesLive(r) /\ ~Exists(c1, done)
           dup2 == SubSeq(row[r], from + 1, IF DonatesLive(r) THEN Matched(c1.tree, done)
                                                              ELSE PagesFor(cached[r]))
           out2 == IF keep THEN <<>> ELSE <<live[r]>>
       IN /\ cache' = DecLock(c2, HandleKey(r))
          /\ free' = Put(free, dup1 \o dup2)
          /\ pool' = Put(pool, out1 \o out2)
          /\ state' = Forgotten(ToSet(out1 \o out2))
    /\ Kept(free')
    /\ stage' = [stage EXCEPT ![r] = "idle"]
    /\ ids' = [ids EXCEPT ![r] = <<>>]
    /\ row' = [row EXCEPT ![r] = <<>>]
    /\ cached' = [cached EXCEPT ![r] = 0]
    /\ hit' = [hit EXCEPT ![r] = 0]
    /\ plen' = [plen EXCEPT ![r] = 0]
    /\ live' = [live EXCEPT ![r] = NoSlot]
    /\ pingpong' = [pingpong EXCEPT ![r] = <<>>]
    /\ track' = [track EXCEPT ![r] = 1]
    /\ frozen' = [frozen EXCEPT ![r] = 0]
    /\ restore' = [restore EXCEPT ![r] = NoSlot]
    /\ anchor' = [anchor EXCEPT ![r] = 0]

\* reclaim_all_slots.
RebuiltPool == [x \in Slots |-> 1]

\* rebuild, idle only: a new tree and every page and slot free.
Rebuild ==
    /\ Active = {}
    /\ cache' = EmptyCache
    /\ free' = [p \in Pages |-> 1]
    /\ pool' = RebuiltPool
    /\ kv' = [p \in Pages |-> <<>>]
    /\ state' = [x \in Slots |-> <<>>]
    /\ UNCHANGED <<reqVars, slotVars>>

-----------------------------------------------------------------------------
Init ==
    /\ cache = EmptyCache
    /\ free = [p \in Pages |-> 1]
    /\ pool = [x \in Slots |-> 1]
    /\ stage = [r \in Reqs |-> "idle"]
    /\ ids = [r \in Reqs |-> <<>>] /\ row = [r \in Reqs |-> <<>>]
    /\ cached = [r \in Reqs |-> 0] /\ hit = [r \in Reqs |-> 0] /\ plen = [r \in Reqs |-> 0]
    /\ live = [r \in Reqs |-> NoSlot] /\ pingpong = [r \in Reqs |-> <<>>]
    /\ track = [r \in Reqs |-> 1] /\ frozen = [r \in Reqs |-> 0]
    /\ restore = [r \in Reqs |-> NoSlot] /\ anchor = [r \in Reqs |-> 0]
    /\ kv = [p \in Pages |-> <<>>] /\ state = [x \in Slots |-> <<>>]

Next ==
    \/ \E r \in Reqs : Admit(r) \/ Refuse(r) \/ Forward(r) \/ Commit(r) \/ SeeAnchor(r) \/ Finish(r)
    \/ Rebuild

Spec == Init /\ [][Next]_vars

-----------------------------------------------------------------------------
(* Properties. *)

\* Type invariant: snapshots are at nodes, counters are naturals, a request that
\* runs has its live slot and both ping-pong slots, one that does not has none.
TypeOK ==
    /\ Snapshots(cache) \subseteq Nodes(cache.tree)
    /\ cache.ref \in [Snapshots(cache) -> Nat]
    /\ {cache.evictable, cache.protected, cache.tree.evictable, cache.tree.protected} \subseteq Nat
    /\ \A r \in Reqs : /\ cached[r] <= Len(ids[r]) /\ Len(ids[r]) <= MaxLen
                       /\ hit[r] * PageSize <= cached[r] /\ frozen[r] <= cached[r]
                       /\ Len(row[r]) = PagesFor(cached[r])
                       /\ IF r \in Active THEN {live[r], pingpong[r][1], pingpong[r][2]} \subseteq Slots
                                          ELSE live[r] = NoSlot /\ pingpong[r] = <<>>

Count(S) == Cardinality(S)

\* Every KV page is owned once: by the free list, by the tree, or by the request
\* that allocated it, across the two inserts of a finish, the duplicates freed
\* below each and the leaves that snapshot eviction deletes.
PagesConserved ==
    \A p \in Pages :
        free[p] + Count({k \in Stored(cache.tree) : cache.tree.page[k] = p})
                + Count({x \in Reqs \X (1..MaxLen) :
                            /\ x[2] \in DOMAIN row[x[1]] /\ x[2] > hit[x[1]]
                            /\ row[x[1]][x[2]] = p}) = 1

\* Every state slot is owned once: free, live, ping-pong or donated.  A slot that
\* is donated and freed would be two sequences' state at once; one that is neither
\* is gone until the next rebuild.
StateSlotsConserved ==
    \A x \in Slots :
        pool[x] + Count({k \in Snapshots(cache) : cache.slot[k] = x})
                + Count({r \in Reqs : live[r] = x})
                + Count({y \in Reqs \X {1, 2} : y[1] \in Active /\ pingpong[y[1]][y[2]] = x}) = 1

\* A snapshot in the tree is the state after exactly its node's tokens, so a hit
\* resumes the recurrence where the reused KV ends ("a future hit would
\* COW-restore an over-advanced state" is excluded).
SnapshotsExact == \A k \in Snapshots(cache) : state[cache.slot[k]] = k

\* The live state of a request is that of its own computed tokens, and what it is
\* still to be restored from has not been evicted or overwritten since the match.
LiveStateExact ==
    \A r \in Active :
        IF restore[r] # NoSlot THEN state[restore[r]] = HandleKey(r)
        ELSE cached[r] > 0 => state[live[r]] = Computed(ids[r], cached[r])

\* The rows that the attention layers read hold the KV of the request's own
\* tokens, also after the re-point of a commit.
RowsHoldOwnKV ==
    \A r \in Active : \A i \in DOMAIN row[r] :
        kv[row[r][i]] = SubSeq(ids[r], 1, Min({i * PageSize, cached[r]}))

\* Both pairs of counters and both reference counts agree with the tree and with
\* the handles that requests hold.
CountersExact ==
    LET t == cache.tree
        open == {k \in Stored(t) : ~Locked(t, k)}
    IN /\ t.evictable = Count(open) /\ t.protected = Count(Stored(t) \ open)
       /\ cache.evictable = Count(Idle(cache))
       /\ cache.protected = Count(Snapshots(cache) \ Idle(cache))
       /\ \A e \in Nodes(t) : t.ref[e] = Count({r \in Active : StartsWith(HandleKey(r), e)})
       /\ \A k \in Snapshots(cache) : cache.ref[k] = Count({r \in Active : HandleKey(r) = k})

\* "A leaf always carries a live snapshot" (hybrid_radix_cache.py:181): no KV is
\* kept that no request could resume from.
LeavesCarrySnapshots ==
    \A e \in Nodes(cache.tree) : IsLeaf(cache.tree, e) => e \in Snapshots(cache)

\* With four slots per running request (_linear_pool_min_slots) no admission is
\* refused and no commit fails for want of a state slot, whatever is matched,
\* shared and locked.
AdmissionFindsSlots ==
    /\ Count(Active) < TableSlots =>
         \A s \in Prompts :
            LET k == Key(s, MatchLen(cache, SubSeq(s, 1, Len(s) - 1)))
            IN Count(InBag(pool)) + Count(Idle(cache) \ {k}) >= 3
    /\ \A r \in Active : stage[r] \in {"sampled", "ahead"} /\ Donates(r) /\ Shared(r) =>
            LET k == SubSeq(ids[r], 1, frozen[r])
            IN k \notin Snapshots(cache) =>
                 Count(InBag(pool)) + Count(Idle(DecLock(cache, HandleKey(r)))) >= 1

\* A step never takes the snapshot a running request is locked on.
KeepsLocked ==
    \A r \in Active : stage'[r] # "idle" /\ hit'[r] = hit[r] /\ hit[r] > 0 =>
        /\ HandleKey(r) \in Snapshots(cache')
        /\ cache'.slot[HandleKey(r)] = cache.slot[HandleKey(r)]

LockedSnapshotStays == [][KeepsLocked]_vars
=============================================================================
