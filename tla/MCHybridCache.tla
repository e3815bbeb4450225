--------------------------- MODULE MCHybridCache ---------------------------
(***************************************************************************)
(* Two instances of HybridCache in one state space for TLC: a behaviour    *)
(* picks one and runs it alone.  "tokens" has the constants of the         *)
(* configuration, pages of one token; "pages" has two tokens to a page and *)
(* to a kernel chunk, and a prompt with images.                            *)
(***************************************************************************)
EXTENDS HybridCache

VARIABLE instance

\* Two prompts that part after one token.
ShortPrompts == {<<1, 1, 2>>, <<1, 2>>}

\* A prompt that ends inside a page and one that parts from it there.
PagedPrompts == {<<1, 1, 1>>, <<1, 1, 2, 1>>}

Paged == INSTANCE HybridCache
            WITH PageSize <- 2, ChunkSize <- 2, MMReqs <- {2}, NumPages <- 4,
                 Prompts <- PagedPrompts, MaxLen <- 6

ASSUME PagedSound == Paged!HybridAssumption

OneInit ==
    \/ instance = "tokens" /\ Init
    \/ instance = "pages"  /\ Paged!Init

OneNext ==
    /\ \/ instance = "tokens" /\ Next
       \/ instance = "pages"  /\ Paged!Next
    /\ UNCHANGED instance

OneSpec == OneInit /\ [][OneNext]_<<vars, instance>>

\* Pages and slots are interchangeable: a state is known by what each is used for
\* and how many are used so.  (SYMMETRY would try every permutation of both.)
PageRole(p) ==
    <<free[p], {k \in Stored(cache.tree) : cache.tree.page[k] = p},
      UNION {{r} \X {i \in DOMAIN row[r] : row[r][i] = p} : r \in Reqs}, kv[p]>>

SlotRole(x) ==
    <<pool[x], {k \in Snapshots(cache) : cache.slot[k] = x},
      {r \in Reqs : live[r] = x}, {r \in Reqs : restore[r] = x},
      UNION {{r} \X {i \in DOMAIN pingpong[r] : pingpong[r][i] = x} : r \in Reqs}, state[x]>>

Uses(S, Role(_)) == [u \in {Role(x) : x \in S} |-> Cardinality({x \in S : Role(x) = u})]

View ==
    <<instance, Uses(DOMAIN free, PageRole), Uses(DOMAIN pool, SlotRole),
      [cache EXCEPT !.tree.page = DOMAIN @, !.slot = DOMAIN @],
      stage, ids, cached, hit, plen, track, frozen, anchor>>

-----------------------------------------------------------------------------
(* Every KV page and every state slot is owned once, by its free list, by  *)
(* the tree or by one request: no commit, finish, abort or eviction of a   *)
(* snapshot leaks one or gives one back twice; and both pairs of counters  *)
(* agree with the tree and the handles (PagesConserved,                    *)
(* StateSlotsConserved, CountersExact).                                    *)
PoolsConserved ==
    /\ instance = "tokens" => PagesConserved /\ StateSlotsConserved /\ CountersExact
    /\ instance = "pages"  =>
         Paged!PagesConserved /\ Paged!StateSlotsConserved /\ Paged!CountersExact

(* A snapshot is the state after exactly its node's tokens, and the live   *)
(* state and the rows of a request are those of its own tokens, wherever   *)
(* it resumed (SnapshotsExact, LiveStateExact and RowsHoldOwnKV).          *)
StatesExact ==
    /\ instance = "tokens" => SnapshotsExact /\ LiveStateExact /\ RowsHoldOwnKV
    /\ instance = "pages"  =>
         Paged!SnapshotsExact /\ Paged!LiveStateExact /\ Paged!RowsHoldOwnKV

(* Four slots per running request are enough: no admission is refused and  *)
(* no commit fails for want of one; no leaf is kept that no request could  *)
(* resume from; and no step takes the snapshot a running request is locked *)
(* on (AdmissionFindsSlots, LeavesCarrySnapshots, LockedSnapshotStays).    *)
SnapshotsServe ==
    /\ [](instance = "tokens" => AdmissionFindsSlots /\ LeavesCarrySnapshots)
    /\ [][IF instance = "tokens" THEN KeepsLocked ELSE Paged!KeepsLocked]_vars
=============================================================================
