--------------------------- MODULE MCSlidingCache ---------------------------
(***************************************************************************)
(* Three instances of SlidingCache in one state space for TLC: a behaviour *)
(* picks one and runs it alone.  "shared" has the constants of the         *)
(* configuration, the others differ from it as stated.                     *)
(***************************************************************************)
EXTENDS SlidingCache

VARIABLE instance

\* A prompt longer than a window and its margin, and one that parts from it after a
\* token and goes on for a window.
LongPrompts == {<<1, 1, 1, 1, 1>>, <<1, 2, 2>>}

\* With a window of one token, and a long decode after it.
OnePrompt == {<<1, 1>>}

\* With two tokens to a page: a prompt of three pages and a half, and one that parts
\* from it at the first page boundary.
PagedPrompts == {<<1, 1, 1, 1, 1, 1, 1>>, <<1, 1, 2>>}

\* One request that may open a tool call, on the smallest window pool.
Pressed == INSTANCE SlidingCache
              WITH Reqs <- {1}, NumPages <- 10, NumSwa <- 7, TableSlots <- 1, Window <- 1,
                   AnchorReqs <- {1}, Prompts <- OnePrompt, Budgets <- {3}, MaxLen <- 9

\* Pages of two tokens, and a prompt with images.
Paged == INSTANCE SlidingCache
            WITH PageSize <- 2, MMReqs <- {2}, NumPages <- 5, NumSwa <- 10, Interval <- 2,
                 Prompts <- PagedPrompts, Budgets <- {5}, MaxLen <- 8

ASSUME InstancesSound == Pressed!SlidingAssumption /\ Paged!SlidingAssumption

OneInit ==
    \/ instance = "shared"  /\ Init
    \/ instance = "pressed" /\ Pressed!Init
    \/ instance = "paged"   /\ Paged!Init

OneNext ==
    /\ \/ instance = "shared"  /\ Next
       \/ instance = "pressed" /\ Pressed!Next
       \/ instance = "paged"   /\ Paged!Next
    /\ UNCHANGED instance

OneSpec == OneInit /\ [][OneNext]_<<vars, instance>>

\* Pages are interchangeable: a state is known by what each is used for.
PageRole(p) ==
    <<free[p], {k \in Stored(cache.tree) : cache.tree.page[k] = p}, p \in swaLive,
      UNION {{r} \X {i \in DOMAIN row[r] : row[r][i] = p} : r \in DOMAIN row}, kv[p]>>

Uses(S, Role(_)) == [u \in {Role(x) : x \in S} |-> Cardinality({x \in S : Role(x) = u})]

View ==
    <<instance, Uses(DOMAIN free, PageRole), swaFree, iter, [cache EXCEPT !.tree.page = DOMAIN @],
      stage, ids, cached, hit, plen, uuid, evicted, stepped, anchor>>

-----------------------------------------------------------------------------
(* Every KV page is owned once, and a page has a window slot exactly while *)
(* a live node or the request that owns it needs one: what check_integrity *)
(* counts at idle, at any moment and for each page (PagesConserved and     *)
(* SwaConserved in every instance).                                        *)
PoolsConserved ==
    CASE instance = "shared"  -> PagesConserved /\ SwaConserved
      [] instance = "pressed" -> Pressed!PagesConserved /\ Pressed!SwaConserved
      [] instance = "paged"   -> Paged!PagesConserved /\ Paged!SwaConserved

(* The window before a handle's end stays locked as long as the handle     *)
(* does, however its nodes are split; no lock is left behind, the counters *)
(* and both reference counts agree with the handles, and no unlocked leaf  *)
(* is kept that no request could resume from (WindowLocked, LocksExact,    *)
(* LeavesAreLive).                                                         *)
WindowLocksExact ==
    CASE instance = "shared"  -> LocksExact /\ WindowLocked /\ LeavesAreLive
      [] instance = "pressed" -> Pressed!LocksExact /\ Pressed!WindowLocked
      [] instance = "paged"   -> Paged!LocksExact /\ Paged!WindowLocked

(* The rows of a request hold the KV of its own tokens, and the window     *)
(* layers of every pass find the window KV of the tokens before its first  *)
(* one, whatever the match, the frees and the evictions before it have     *)
(* done (RowsHoldOwnKV and PassReadsWindow).                               *)
PassesReadOwnKV ==
    /\ [](CASE instance = "shared"  -> RowsHoldOwnKV
            [] instance = "pressed" -> Pressed!RowsHoldOwnKV
            [] instance = "paged"   -> Paged!RowsHoldOwnKV)
    /\ [][CASE instance = "shared"  -> ReadsWindow
            [] instance = "pressed" -> Pressed!ReadsWindow
            [] instance = "paged"   -> Paged!ReadsWindow]_vars

(* "SWA pool exhausted" is not raised: on a pool no smaller than           *)
(* _swa_pool_floor a decode step finds a window slot (DecodeFindsSlot).    *)
WindowSlotsSuffice == instance = "pressed" => Pressed!DecodeFindsSlot
=============================================================================
