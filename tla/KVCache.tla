------------------------------ MODULE KVCache ------------------------------
(***************************************************************************)
(* The scheduler's CacheManager (scheduler/cache.py) driving the generic   *)
(* radix prefix cache: KV pages move between the free list, the requests'  *)
(* page-table rows and the shared radix tree.                              *)
(*                                                                         *)
(* The operators AdmitReq, AllocatePaged, CacheReqUnfinished and             *)
(* CacheReqFinished are the manager's methods.  Next drives them in    *)
(* every order a scheduler may: chunked prefill, one decode step launched  *)
(* ahead of the commit (overlap scheduling), an abort at any point.        *)
(* Scheduler.tla composes the same methods with the real scheduling loop.  *)
(*                                                                         *)
(* kv is a history variable: what the forward passes wrote into each page. *)
(***************************************************************************)
EXTENDS RadixTree, SequencesExt

CONSTANTS
    Reqs,        \* request uids
    MMReqs,      \* the uids whose prompt carries image embeddings (mm_embeds)
    Pages,       \* KV page numbers
    PoolSizes,   \* the pool sizes, in pages, a rebuild may choose
    Tokens,      \* the vocabulary
    Prompts,     \* the prompts clients send
    MaxLen       \* bound on prompt plus generated tokens (max_seq_len)

ASSUME KVCacheAssumption ==
    /\ Reqs \subseteq Nat /\ IsFiniteSet(Reqs)
    /\ MMReqs \subseteq Reqs
    /\ IsFiniteSet(Pages)
    /\ PoolSizes \subseteq 1..Cardinality(Pages)
    /\ MaxLen \in Nat
    /\ Prompts \subseteq {s \in Seq(Tokens) : Len(s) \in 1..(MaxLen - 1)}

VARIABLES
    pool,     \* the pages of the current geometry (num_pages of them)
    free,     \* free_slots: pages in FIFO order
    tree,     \* the prefix cache
    stage,    \* per request: where it is between admission and release
    ids,      \* the tokens of the request, the sampled ones included
    hit,      \* cache_handle.cached_len, in pages; the handle's node is Key(ids, hit)
    row,      \* the request's page-table row: one page per page of tokens
    cached,   \* cached_len: the tokens whose KV has been computed
    kv        \* history: page -> the tokens its KV was computed from

poolVars == <<pool, free, tree>>
reqVars  == <<stage, ids, hit, row, cached>>
vars     == <<poolVars, reqVars, kv>>

Stages == {"idle", "prefill", "sampled", "ahead", "decode"}

Active == {r \in Reqs : stage[r] # "idle"}

HandleKey(r) == Key(ids[r], hit[r])

\* Fault: nothing keeps a prompt with images out of the shared cache.
Shared_always(r) == TRUE

\* Image placeholders have the same token ids for different images: a multimodal
\* request neither reads the shared prefix cache nor publishes in it.
Shared(r) == r \notin MMReqs

\* The KV of a multimodal request is its own whatever its tokens are.
NoKV == [images |-> {}, tokens |-> <<>>]
Content(r, s) == [images |-> {r} \cap MMReqs, tokens |-> s]

-----------------------------------------------------------------------------
(* The methods of CacheManager. *)

Available(t, f) == t.evictable + Len(f)

\* The tokens match_req looks up: never the last one of the prompt, and none
\* of a multimodal prompt.
MatchIds(r, s) == IF Shared(r) THEN SubSeq(s, 1, Len(s) - 1) ELSE Root

\* _try_allocate_one, granted: lock the match and copy its pages to the row.
AdmitReq(r, s) ==
    LET m == Matched(tree, MatchIds(r, s))
    IN /\ tree'   = Lock(Walk(tree, MatchIds(r, s)), Key(s, m))
       /\ ids'    = [ids EXCEPT ![r] = s]
       /\ hit'    = [hit EXCEPT ![r] = m]
       /\ row'    = [row EXCEPT ![r] = [i \in 1..m |-> tree.page[Key(s, i)]]]
       /\ cached' = [cached EXCEPT ![r] = m * PageSize]
       /\ UNCHANGED <<pool, free>>

\* allocate_paged for a batch: dev gives each request of the batch its
\* device_len.  When the free list is short, _allocate evicts the difference.
NewSlots(dev) == UNION {{r} \X ((PagesFor(cached[r]) + 1)..PagesFor(dev[r])) :
                            r \in DOMAIN dev}

Shortage(dev) == Cardinality(NewSlots(dev)) - Len(free)

AllocatePaged(dev) ==
    LET new == NewSlots(dev)
        \* the pages of a batch are dealt out request by request
        first(r) == Cardinality({s \in new : s[1] < r})
        count(r) == Cardinality({s \in new : s[1] = r})
    IN \E E \in EvictionChoices(tree, Shortage(dev)) :
        LET evicted == SetToSeq({tree.page[k] : k \in PrefixesOf(tree, E)})
            list    == free \o evicted
        IN /\ tree' = IF E = {} THEN tree ELSE RemoveNodes(tree, E)
           /\ free' = SubSeq(list, Cardinality(new) + 1, Len(list))
           /\ row'  = [r \in Reqs |->
                         IF r \in DOMAIN dev
                         THEN row[r] \o SubSeq(list, first(r) + 1, first(r) + count(r))
                         ELSE row[r]]
           /\ UNCHANGED <<pool, hit>>

\* The forward pass over the batch computes the KV of positions
\* cached_len..device_len - 1 of every request into the pages of its row.
Forward(dev) ==
    LET written == UNION {{r} \X ((FullPages(cached[r]) + 1)..PagesFor(dev[r])) :
                              r \in DOMAIN dev}
    IN kv' = [p \in Pages |->
                IF \E s \in written : row'[s[1]][s[2]] = p
                THEN LET s == CHOOSE s \in written : row'[s[1]][s[2]] = p
                     IN Content(s[1], SubSeq(ids[s[1]], 1, Min({s[2] * PageSize, dev[s[1]]})))
                ELSE IF p \in ToSet(free') THEN NoKV ELSE kv[p]]

\* A batch from allocation to complete_one: cached_len reaches device_len, and a
\* request whose tokens are all computed gets the token sampled for it.
ExtendTo(dev, tok) ==
    /\ AllocatePaged(dev)
    /\ Forward(dev)
    /\ cached' = [r \in Reqs |-> IF r \in DOMAIN dev THEN dev[r] ELSE cached[r]]
    /\ ids' = [r \in Reqs |-> IF r \in DOMAIN dev /\ dev[r] = Len(ids[r])
                              THEN Append(ids[r], tok[r]) ELSE ids[r]]

\* What cache_req inserts, and the tree after insert_prefix and the unlock of
\* the old handle; the first m pages were in the tree already.
Computed(r)  == SubSeq(ids[r], 1, cached[r])
Published(r) == Unlock(Insert(tree, Computed(r), row[r]), HandleKey(r))

\* The request's own pages another request published first.
Duplicates(r, m) == SubSeq(row[r], hit[r] + 1, m)

\* Fault: the tail is cut at cached_len, losing the page that is partly filled.
PaddedTail_unpadded(r, n) == SubSeq(row[r], n + 1, FullPages(cached[r]))

\* _padded_tail: the request's own pages from page n on, the last one perhaps
\* only partly filled.
PaddedTail(r, n) == SubSeq(row[r], n + 1, PagesFor(cached[r]))

\* Fault: the row keeps the duplicates it gave back.
Repointed_not(r, m, t) == row[r]

\* The row after a commit reads the tree's pages where duplicates were freed.
Repointed(r, m, t) ==
    [i \in DOMAIN row[r] |-> IF i \in (hit[r] + 1)..m THEN t.page[Key(ids[r], i)]
                                                      ELSE row[r][i]]

\* cache_req(finished=False): publish the computed prefix in the tree, give
\* back the duplicates, re-point the row and move the lock to the new handle.
CacheReqUnfinished(r) ==
    \/ /\ Shared(r)
       /\ LET m == Matched(tree, Computed(r))
              n == FullPages(cached[r])
          IN /\ tree' = Lock(Published(r), Key(ids[r], n))
             /\ free' = free \o Duplicates(r, m)
             /\ row'  = [row EXCEPT ![r] = Repointed(r, m, Published(r))]
             /\ hit'  = [hit EXCEPT ![r] = n]
             /\ UNCHANGED pool
    \/ /\ ~Shared(r)
       /\ tree' = Unlock(tree, HandleKey(r))
       /\ UNCHANGED <<pool, free, row, hit>>

\* cache_req(finished=True) and the release of the row.
CacheReqFinished(r) ==
    /\ \/ /\ Shared(r)
          /\ tree' = Published(r)
          /\ free' = free \o Duplicates(r, Matched(tree, Computed(r)))
                          \o PaddedTail(r, FullPages(cached[r]))
       \/ /\ ~Shared(r)
          /\ tree' = Unlock(tree, HandleKey(r))
          /\ free' = free \o PaddedTail(r, hit[r])
    /\ row'    = [row EXCEPT ![r] = <<>>]
    /\ hit'    = [hit EXCEPT ![r] = 0]
    /\ cached' = [cached EXCEPT ![r] = 0]
    /\ ids'    = [ids EXCEPT ![r] = <<>>]
    /\ UNCHANGED pool

\* _make_prefix_cache.
RebuiltTree == EmptyTree

\* rebuild: every page of the new pool is free, the tree and the KV are gone.
Reset ==
    /\ pool' \in {P \in SUBSET Pages : Cardinality(P) \in PoolSizes}
    /\ free' = SetToSeq(pool')
    /\ tree' = RebuiltTree
    /\ kv' = [p \in Pages |-> NoKV]
    /\ UNCHANGED <<ids, hit, row, cached>>

ForgetFreed == kv' = [p \in Pages |-> IF p \in ToSet(free') THEN NoKV ELSE kv[p]]

-----------------------------------------------------------------------------
Init ==
    /\ pool \in {P \in SUBSET Pages : Cardinality(P) \in PoolSizes}
    /\ free = SetToSeq(pool)
    /\ tree = EmptyTree
    /\ stage = [r \in Reqs |-> "idle"]
    /\ ids = [r \in Reqs |-> <<>>]
    /\ hit = [r \in Reqs |-> 0]
    /\ row = [r \in Reqs |-> <<>>]
    /\ cached = [r \in Reqs |-> 0]
    /\ kv = [p \in Pages |-> NoKV]

Admit(r) ==
    /\ stage[r] = "idle"
    /\ \E s \in Prompts : AdmitReq(r, s)
    /\ stage' = [stage EXCEPT ![r] = "prefill"]
    /\ UNCHANGED kv

\* A match whose admission is refused: the walk has split the tree all the same.
Refuse(r) ==
    /\ stage[r] = "idle"
    /\ \E s \in Prompts : tree' = Walk(tree, MatchIds(r, s))
    /\ UNCHANGED <<pool, free, reqVars, kv>>

\* A forward step takes a request from one stage to the next: a prefill chunk
\* that reaches the end of the prompt samples a token, and with overlap
\* scheduling one decode step may be launched before the prompt is committed.
AfterForward(r, done) ==
    CASE stage[r] = "prefill" -> IF done THEN "sampled" ELSE "prefill"
      [] stage[r] = "sampled" -> "ahead"
      [] OTHER                -> "decode"

CanForward == {r \in Active : stage[r] # "ahead" /\ cached[r] < Len(ids[r])
                              /\ Len(ids[r]) < MaxLen}

ForwardLens(B) == {dev \in [B -> 1..MaxLen] :
    \A r \in B : /\ cached[r] < dev[r] /\ dev[r] <= Len(ids[r])
                 /\ stage[r] # "prefill" => dev[r] = Len(ids[r])}

\* The caller admits only what fits (PrefillAdder): for more than is free or
\* evictable there is no EvictionChoices and so no step.
Extend(B) ==
    \E dev \in ForwardLens(B), tok \in [B -> Tokens] :
        /\ ExtendTo(dev, tok)
        /\ stage' = [r \in Reqs |-> IF r \in B THEN AfterForward(r, dev[r] = Len(ids[r]))
                                               ELSE stage[r]]

Commit(r) ==
    /\ stage[r] \in {"sampled", "ahead"}
    /\ CacheReqUnfinished(r)
    /\ ForgetFreed
    /\ stage' = [stage EXCEPT ![r] = "decode"]
    /\ UNCHANGED <<ids, cached>>

\* A request ends, or is aborted, at any stage after its first forward.
Finish(r) ==
    /\ r \in Active
    /\ stage[r] = "prefill" => cached[r] > hit[r] * PageSize
    /\ CacheReqFinished(r)
    /\ ForgetFreed
    /\ stage' = [stage EXCEPT ![r] = "idle"]

\* Only when no request holds anything.
Rebuild == Active = {} /\ Reset /\ UNCHANGED stage

Next ==
    \/ \E r \in Reqs : Admit(r) \/ Refuse(r) \/ Commit(r) \/ Finish(r)
    \/ \E B \in (SUBSET CanForward) \ {{}} : Extend(B)
    \/ Rebuild

Spec == Init /\ [][Next]_vars

-----------------------------------------------------------------------------
(* Properties. *)

\* Type invariant: free_slots is a list of pages of the pool, the tree maps
\* prefixes of whole pages to pages and counts references, a row has one page
\* for every started page of computed tokens.
TypeOK ==
    /\ pool \subseteq Pages
    /\ free \in Seq(pool)
    /\ tree.page \in [Stored(tree) -> pool]
    /\ tree.ref \in [Nodes(tree) -> Nat]
    /\ tree.evictable \in Nat /\ tree.protected \in Nat
    /\ stage \in [Reqs -> Stages]
    /\ \A r \in Reqs : /\ ids[r] \in Seq(Tokens) /\ Len(ids[r]) <= MaxLen
                       /\ row[r] \in Seq(pool)
                       /\ Len(row[r]) = PagesFor(cached[r])
                       /\ cached[r] <= Len(ids[r])
                       /\ hit[r] \in 0..FullPages(cached[r])

\* The places that own page p: its positions in free_slots, its prefixes in the
\* tree, and the row slots a request allocated for itself and has not published.
Owners(p) ==
    {<<"free", i>> : i \in {i \in DOMAIN free : free[i] = p}}
    \cup {<<"tree", k>> : k \in {k \in Stored(tree) : tree.page[k] = p}}
    \cup UNION {{<<"row", r, i>> : i \in {i \in DOMAIN row[r] :
                                            i > hit[r] /\ row[r][i] = p}} : r \in Reqs}

\* Every page of the pool is owned exactly once: cache_req, allocate_paged and
\* evict neither leak a page nor free one twice, in any order of admissions,
\* commits, aborts and evictions.  It is what check_integrity counts at idle,
\* stated for every state.
PagesConserved ==
    /\ \A p \in pool : Cardinality(Owners(p)) = 1
    /\ \A p \in Pages \ pool : Owners(p) = {}

\* What the attention backends read through a request's row is the KV of that
\* request's own tokens: the re-point of cache_req, the sharing of match_req
\* and the reuse of freed pages never put another prompt's KV in the row.
RowsHoldOwnKV ==
    \A r \in Active : \A i \in DOMAIN row[r] :
        kv[row[r][i]] =
            Content(r, SubSeq(ids[r], 1, Min({i * PageSize, cached[r]})))

\* The prefix cache serves the KV of the very tokens it is asked for, and never
\* the KV of a prompt with images (match_req and cache_req keep those out).
TreeServesItsTokens ==
    \A k \in Stored(tree) : kv[tree.page[k]] = [images |-> {}, tokens |-> k]

\* ref_count of every node is the number of requests whose handle is at or
\* below it: lock_handle and unlock stay paired across the splits that happen
\* between them.
RefsCountHandles ==
    \A e \in Nodes(tree) :
        tree.ref[e] = Cardinality({r \in Active : StartsWith(HandleKey(r), e)})

\* The two counters the admission control trusts agree with the tree.
SizesExact ==
    LET open == {k \in Stored(tree) : ~Locked(tree, k)}
    IN /\ tree.evictable = Cardinality(open)
       /\ tree.protected = Cardinality(Stored(tree) \ open)

\* evict can deliver everything evictable_size promises: popping unlocked
\* leaves reaches every unlocked page ("Cannot evict enough cache" is never
\* raised).
EvictableIsReachable ==
    \A n \in 0..tree.evictable : EvictionChoices(tree, n) # {}

\* A request reads its shared prefix in place on every step: while it holds a
\* handle no eviction, commit or split moves or drops a page under it.
SharedPrefixStays ==
    [][\A r \in Active :
          stage'[r] # "idle" =>
              \A i \in 1..hit[r] : /\ row'[r][i] = row[r][i]
                                  /\ Key(ids[r], i) \in DOMAIN tree'.page
                                  /\ tree'.page[Key(ids[r], i)] = row[r][i]]_vars
=============================================================================
