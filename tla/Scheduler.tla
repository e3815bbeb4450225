----------------------------- MODULE Scheduler -----------------------------
(***************************************************************************)
(* One rank's scheduling loop (scheduler/scheduler.py) with its prefill,   *)
(* decode and table managers, over the page bookkeeping of KVCache.        *)
(*                                                                         *)
(* The loop is one thread.  An iteration receives the messages that have   *)
(* arrived, runs a queued cache rebuild if nothing is in flight, fills a   *)
(* prefill batch (or takes the decode batch), launches it, and then drains *)
(* the results of a batch: in overlap_loop of the one launched before, in  *)
(* normal_loop of the same one.  What is open is what the messages are and *)
(* when they arrive, where a request stops (end token or stop string), and *)
(* which unlocked leaf is evicted.  The forward pass runs at its launch,   *)
(* as the engine stream orders it.                                         *)
(*                                                                         *)
(* A uid stands for all the Req objects made for it: chunks share the page *)
(* table row and the handle, and a batch says which of its members are     *)
(* chunks.                                                                 *)
(***************************************************************************)
EXTENDS Integers, Sequences, SequencesExt, FiniteSets, FiniteSetsExt

CONSTANTS
    Reqs, Pages, PoolSizes, PageSize, Tokens, MaxLen,  \* as in KVCache
    ClientRequests,   \* what clients send: [prompt, output], output = max_tokens
    Generated,        \* bound: the tokens the model may sample
    TableSlots,       \* max_running_reqs
    PrefillBudget,    \* prefill_budget: tokens per prefill batch
    MaxTombstones,    \* 65_536 in the code
    MaxRebuilds,      \* bound: rebuild messages the server sends
    MayAbort,         \* bound: the uids whose client may go away
    Overlap           \* overlap_loop, or normal_loop

\* max_tokens is at least 1 (server/generation.py refuses less), and a prompt has
\* a token.  The rest says what kind of thing each constant is.
ASSUME SchedulerAssumption ==
    /\ Reqs \subseteq Nat /\ IsFiniteSet(Reqs) /\ MayAbort \subseteq Reqs
    /\ IsFiniteSet(Pages) /\ PoolSizes \subseteq 1..Cardinality(Pages)
    /\ PageSize \in Nat \ {0} /\ MaxLen \in Nat
    /\ ClientRequests \subseteq [prompt : Seq(Tokens) \ {<<>>}, output : Nat \ {0}]
    /\ Generated \subseteq Tokens
    /\ TableSlots \in Nat /\ PrefillBudget \in Nat /\ MaxTombstones \in Nat
    /\ MaxRebuilds \in Nat /\ Overlap \in BOOLEAN

VARIABLES
    pool, free, tree, ids, hit, row, cached, kv,  \* as in KVCache
    freeSlots,   \* TableManager._free_slots: a stack, its top at the end
    slot,        \* per request: table_idx
    request,     \* per uid: what it asked for, max_tokens clipped; NoRequest before
    pending,     \* PrefillManager.pending_list
    chunked,     \* the pending requests with a chunked_req
    running,     \* DecodeManager.running_reqs
    aborted,     \* Req.aborted
    finished,    \* finished_reqs
    tombstones,  \* _abort_tombstones, oldest first
    acks,        \* _pending_abort_acks
    rebuild,     \* _pending_rebuild
    rebuilds,    \* bound: rebuild messages still to come
    aborting,    \* the uids an abort was sent for
    loop,        \* where the loop is
    plan,        \* the PrefillAdder and the batch it has filled so far
    last,        \* _last_data: launched, not yet taken for draining
    draining,    \* the batch being drained, its requests still to go
    newFinished, \* new_finished_reqs of that drain
    replies      \* history: per uid, what was sent for it

kvVars   == <<pool, free, tree, ids, hit, row, cached, kv>>
slotVars == <<freeSlots, slot>>
msgVars  == <<request, tombstones, acks, rebuild, rebuilds, aborting>>
batchVars == <<loop, plan, last, draining>>
vars == <<kvVars, slotVars, msgVars, batchVars, pending, chunked, running,
          aborted, finished, newFinished, replies>>

NoRequest == [prompt |-> <<>>, output |-> 0]
NoSlot    == -1
NoBatch   == [reqs |-> <<>>, phase |-> "none", chunks |-> {}]
EmptyPlan == [reqs |-> <<>>, dev |-> <<>>, chunks |-> <<>>, fresh |-> {}, budget |-> 0,
              reserved |-> 0]

-----------------------------------------------------------------------------
(* Lengths of a request. *)

PromptLen(r)    == Len(request[r].prompt)
MaxDeviceLen(r) == PromptLen(r) + request[r].output
DeviceLen(r)    == Len(ids[r])
RemainLen(r)    == MaxDeviceLen(r) - DeviceLen(r)

Sampled == {"token", "stop", "length"}
TokensSent(r) == Cardinality({i \in DOMAIN replies[r] : replies[r][i] \in Sampled})

MaxSeqLen == Min({MaxLen, Cardinality(pool) * PageSize})

Sent(uids, what) == [u \in Reqs |-> IF u \in uids THEN Append(replies[u], what)
                                                  ELSE replies[u]]

Runnable == pending # <<>> \/ running # {}

\* Fault: a waiting prompt does not keep the loop awake.
Busy_pendingSleeps == last # NoBatch \/ running # {} \/ rebuild = "queued"

\* What keeps the receive from blocking.
Busy     == last # NoBatch \/ Runnable \/ rebuild = "queued"

-----------------------------------------------------------------------------
(* The cache manager.  Where a request is between its admission and its    *)
(* release is read off the batches that are launched and not yet drained.  *)

Undrained(r) == \E b \in {last, draining} : b.phase = "prefill"
                    /\ r \in ToSet(b.reqs) \ b.chunks

Stage == [r \in Reqs |->
            IF slot[r] = NoSlot               THEN "idle"
            ELSE IF cached[r] < PromptLen(r)  THEN "prefill"
            ELSE IF ~Undrained(r)             THEN "decode"
            ELSE IF cached[r] = PromptLen(r)  THEN "sampled" ELSE "ahead"]

\* The prompts that _process_one_msg lets in are shorter than max_seq_len.
KV == INSTANCE KVCache WITH
        MMReqs  <- {},
        Prompts <- {q.prompt : q \in {c \in ClientRequests : Len(c.prompt) < MaxLen}},
        stage   <- Stage

\* Fault: the slot of an aborted request is lost.
FreeSlot_notAborted(r) == IF r \in aborted THEN freeSlots ELSE Append(freeSlots, slot[r])

\* TableManager.free.
FreeSlot(r) == Append(freeSlots, slot[r])

\* _free_req_resources on a request that is not freed yet.
Release(r) ==
    /\ KV!CacheReqFinished(r)
    /\ KV!ForgetFreed
    /\ freeSlots' = FreeSlot(r)
    /\ slot' = [slot EXCEPT ![r] = NoSlot]

\* _free_req_resources: a second call does nothing.
FreeReqResources(r) ==
    IF slot[r] = NoSlot THEN UNCHANGED <<kvVars, slotVars>> ELSE Release(r)

-----------------------------------------------------------------------------
(* Receiving messages. *)

\* The list without its first entry for u.
Without(list, u) ==
    IF u \in ToSet(list) THEN RemoveAt(list, Min({i \in DOMAIN list : list[i] = u})) ELSE list

\* Fault: an abort that arrives first leaves no mark.
Tombstone_none(u) == tombstones

\* An abort leaves a tombstone; the oldest goes when there are too many.
Tombstone(u) ==
    LET all == Append(tombstones, u)
    IN IF Len(all) > MaxTombstones THEN Tail(all) ELSE all

RecvUser(u) ==
    /\ loop = "recv"
    /\ request[u] = NoRequest
    /\ \E q \in ClientRequests :
        /\ request' = [request EXCEPT ![u] =
                         [q EXCEPT !.output = Min({@, Max({MaxSeqLen - Len(q.prompt), 0})})]]
        /\ \/ /\ u \in ToSet(tombstones)
              /\ tombstones' = Without(tombstones, u)
              /\ UNCHANGED <<pending, replies>>
           \/ /\ u \notin ToSet(tombstones)
              /\ Len(q.prompt) >= MaxSeqLen
              /\ replies' = Sent({u}, "too_long")
              /\ UNCHANGED <<pending, tombstones>>
           \/ /\ u \notin ToSet(tombstones)
              /\ Len(q.prompt) < MaxSeqLen
              /\ pending' = Append(pending, u)
              /\ UNCHANGED <<replies, tombstones>>
    /\ UNCHANGED <<kvVars, slotVars, acks, rebuild, rebuilds, aborting, batchVars,
                   chunked, running, aborted, finished, newFinished>>

\* The request of u that an abort takes out of its manager, if it holds anything.
Holding(u) == u \in chunked \/ u \in running

InFlight(u) == u \in ToSet(last.reqs)

RecvAbort(u) ==
    /\ loop = "recv"
    /\ u \in MayAbort \ aborting
    /\ aborting' = aborting \cup {u}
    /\ tombstones' = Tombstone(u)
    /\ pending' = Without(pending, u)
    /\ chunked' = chunked \ {u}
    /\ running' = running \ {u}
    /\ acks' = acks \cup {u}
    /\ \/ /\ ~Holding(u)
          /\ UNCHANGED <<kvVars, slotVars, aborted>>
       \/ /\ Holding(u) /\ InFlight(u)
          /\ aborted' = aborted \cup {u}
          /\ UNCHANGED <<kvVars, slotVars>>
       \/ /\ Holding(u) /\ ~InFlight(u)
          /\ FreeReqResources(u)
          /\ UNCHANGED aborted
    /\ UNCHANGED <<request, rebuild, rebuilds, batchVars, finished, newFinished, replies>>

\* A rebuild is refused while requests wait or run, and queued otherwise; the
\* server sends the next one only after the answer.
RecvRebuild ==
    /\ loop = "recv"
    /\ rebuilds > 0 /\ rebuild = "none"
    /\ rebuilds' = rebuilds - 1
    /\ rebuild' = IF Runnable THEN "none" ELSE "queued"
    /\ UNCHANGED <<kvVars, slotVars, request, tombstones, acks, aborting, batchVars,
                   pending, chunked, running, aborted, finished, newFinished, replies>>

\* Fault: a rebuild does not wait for the batch that is not drained yet.
Idle_undrained == ~Runnable

\* The safe point of a rebuild.
Idle == last = NoBatch /\ ~Runnable

\* DecodeManager.inflight_tokens: remain_len + page_size - 1 of every running request,
\* counted as the positions they are.
Inflight ==
    Cardinality(UNION {{r} \X (DeviceLen(r)..(MaxDeviceLen(r) + PageSize - 2)) : r \in running})

\* The receive ends, blocking until there is something to do.
EndReceive ==
    /\ loop = "recv"
    /\ Busy \/ acks # {}
    /\ plan' = [EmptyPlan EXCEPT !.budget = PrefillBudget, !.reserved = Inflight]
    /\ UNCHANGED <<request, tombstones, acks, rebuilds, aborting, last, draining, pending,
                   chunked, running, aborted, finished, newFinished, replies, slot>>

StartIteration ==
    /\ EndReceive
    /\ ~(rebuild = "queued" /\ Idle)
    /\ loop' = "admit"
    /\ UNCHANGED <<kvVars, freeSlots, rebuild>>

\* _execute_pending_rebuild: the pool is replaced (or, when that fails in the
\* middle, rolled back to its size with an empty cache); or nothing of the KV
\* cache changes (refused, or another pool was resized); or the roll back fails
\* too and the server stops serving.
ExecuteRebuild ==
    /\ EndReceive
    /\ rebuild = "queued" /\ Idle
    /\ rebuild' = "none"
    /\ \/ /\ KV!Reset
          /\ freeSlots' = [i \in 1..TableSlots |-> i - 1]
          /\ loop' = "admit"
       \/ /\ UNCHANGED <<kvVars, freeSlots>>
          /\ loop' \in {"admit", "stopped"}

-----------------------------------------------------------------------------
(* PrefillManager.schedule_next_batch: one pending request after the other *)
(* joins the batch, until one cannot.                                      *)

HasNext == Len(plan.reqs) < Len(pending) /\ plan.budget > 0
NextUp  == pending[Len(plan.reqs) + 1]

\* Fault: a request of this pass is not reserved for against the next one.
Reserve_not(u, from) == 0

\* What an added request takes from the space left for the others of the pass.
Reserve(u, from) == PromptLen(u) - from + request[u].output

\* _add_one_req: as much of the prompt after from as the token budget allows.
AddToPlan(u, from, fresh) ==
    LET size == Min({plan.budget, PromptLen(u) - from})
    IN /\ plan' = [reqs     |-> Append(plan.reqs, u),
                   dev      |-> [r \in DOMAIN plan.dev \cup {u} |->
                                   IF r = u THEN from + size ELSE plan.dev[r]],
                   chunks   |-> IF size < PromptLen(u) - from THEN Append(plan.chunks, u)
                                                              ELSE plan.chunks,
                   fresh    |-> plan.fresh \cup fresh,
                   budget   |-> plan.budget - size,
                   reserved |-> plan.reserved + Reserve(u, from)]
       /\ UNCHANGED <<msgVars, loop, last, draining, pending, chunked, running,
                      aborted, finished, newFinished, replies>>

ContinueChunk ==
    /\ loop = "admit" /\ HasNext /\ NextUp \in chunked
    /\ AddToPlan(NextUp, cached[NextUp], {})
    /\ UNCHANGED <<kvVars, slotVars>>

Match(u) == KV!Matched(tree, KV!MatchIds(u, request[u].prompt))

\* Whether u fits once its match is locked; before the lock there is only more
\* room, so the code's two tests are one.

Fits(u) ==
    LET walked == KV!Walk(tree, KV!MatchIds(u, request[u].prompt))
        locked == KV!Lock(walked, KV!Key(request[u].prompt, Match(u)))
        from   == Match(u) * PageSize
    IN PromptLen(u) - from + request[u].output + plan.reserved
            <= KV!Available(locked, free) * PageSize

AdmitNew ==
    /\ loop = "admit" /\ HasNext /\ NextUp \notin chunked /\ freeSlots # <<>>
    /\ LET u == NextUp
       IN /\ Fits(u)
          /\ KV!AdmitReq(u, request[u].prompt)
          /\ slot' = [slot EXCEPT ![u] = Last(freeSlots)]
          /\ freeSlots' = Front(freeSlots)
          /\ AddToPlan(u, Match(u) * PageSize, {u})
    /\ UNCHANGED kv

\* The batch is full, out of pending requests or out of table slots.
StopAdmitting ==
    /\ loop = "admit"
    /\ HasNext => NextUp \notin chunked /\ freeSlots = <<>>
    /\ loop' = "launch"
    /\ UNCHANGED <<kvVars, slotVars, msgVars, plan, last, draining, pending, chunked,
                   running, aborted, finished, newFinished, replies>>

\* The next one does not fit; the match has split the tree all the same.
RefuseNew ==
    /\ loop = "admit" /\ HasNext /\ NextUp \notin chunked /\ freeSlots # <<>>
    /\ ~Fits(NextUp)
    /\ tree' = KV!Walk(tree, KV!MatchIds(NextUp, request[NextUp].prompt))
    /\ loop' = "launch"
    /\ UNCHANGED <<pool, free, ids, hit, row, cached, kv, slotVars, msgVars, plan, last,
                   draining, pending, chunked, running, aborted, finished, newFinished,
                   replies>>

-----------------------------------------------------------------------------
(* Launching: the prefill batch if there is one, else the decode batch.    *)

\* sorted by uid: at position i is the one with i - 1 smaller ones.
InUidOrder(uids) == [i \in 1..Cardinality(uids) |->
                       CHOOSE u \in uids : Cardinality({v \in uids : v < u}) = i - 1]

NextBatch ==
    IF plan.reqs # <<>>
    THEN [reqs |-> plan.reqs, phase |-> "prefill", chunks |-> ToSet(plan.chunks)]
    ELSE IF running # {}
    THEN [reqs |-> InUidOrder(running), phase |-> "decode", chunks |-> {}]
    ELSE NoBatch

\* The device_len of the requests of batch b.
Dev(b) == [r \in ToSet(b.reqs) |-> IF b.phase = "prefill" THEN plan.dev[r]
                                                          ELSE DeviceLen(r)]

\* The pending list after the batch left it: chunked prompts stay in front.
Requeue == plan.chunks \o SubSeq(pending, Len(plan.reqs) + 1, Len(pending))

\* The batch to drain in this iteration, and the one the next will find.
HandOver(b) ==
    /\ draining' = IF Overlap THEN last ELSE b
    /\ last' = IF Overlap THEN b ELSE NoBatch
    /\ loop' = "drain"
    /\ plan' = EmptyPlan

\* allocate_paged needs that many pages; when they cannot be had, the assertions
\* of _allocate and evict end the scheduler, here: Launch has no step.
Launch ==
    /\ loop = "launch"
    /\ NextBatch # NoBatch
    /\ LET b == NextBatch
       IN /\ \E tok \in [ToSet(b.reqs) -> Generated] : KV!ExtendTo(Dev(b), tok)
          /\ pending' = IF b.phase = "prefill" THEN Requeue ELSE pending
          /\ chunked' = (chunked \ ToSet(b.reqs)) \cup b.chunks
          /\ running' = {r \in running \cup (ToSet(b.reqs) \ b.chunks) :
                            MaxDeviceLen(r) > Len(ids'[r])}
          /\ replies' = Sent(plan.fresh, "admitted")
          /\ HandOver(b)
    /\ UNCHANGED <<slotVars, msgVars, aborted, finished, newFinished>>

LaunchNothing ==
    /\ loop = "launch"
    /\ NextBatch = NoBatch
    /\ HandOver(NoBatch)
    /\ UNCHANGED <<kvVars, slotVars, msgVars, pending, chunked, running, aborted,
                   finished, newFinished, replies>>

-----------------------------------------------------------------------------
(* _process_last_data, one request of the batch after the other. *)

Draining == loop = "drain" /\ draining.reqs # <<>>
Drained  == Head(draining.reqs)

DrainStep ==
    /\ Draining
    /\ draining' = [draining EXCEPT !.reqs = Tail(@)]
    /\ UNCHANGED <<msgVars, loop, plan, last, pending, chunked, aborted, finished>>

\* An intermediate chunk is committed with the last one, unless it was aborted.
DrainChunk ==
    /\ DrainStep
    /\ Drained \in draining.chunks
    /\ IF Drained \in aborted THEN FreeReqResources(Drained)
                              ELSE UNCHANGED <<kvVars, slotVars>>
    /\ UNCHANGED <<running, newFinished, replies>>

DrainAborted ==
    /\ DrainStep
    /\ Drained \notin draining.chunks /\ Drained \in aborted
    /\ FreeReqResources(Drained)
    /\ running' = running \ {Drained}
    /\ newFinished' = newFinished \cup {Drained}
    /\ UNCHANGED replies

\* Fault: nothing remembers which requests ended in the batch before.
Ended_forgotten(r) == FALSE

\* The step launched for a request after the one that ended it.
Ended(r) == r \in finished

DrainEnded ==
    /\ DrainStep
    /\ Drained \notin draining.chunks \cup aborted /\ Ended(Drained)
    /\ UNCHANGED <<kvVars, slotVars, running, newFinished, replies>>

\* hit_length: no output budget is left.
HitLength(r) == RemainLen(r) = 0

\* A sampled token goes out: it ends the request by its own doing (end token,
\* stop string) or by the length.
DrainToken ==
    /\ DrainStep
    /\ Drained \notin draining.chunks \cup aborted /\ ~Ended(Drained)
    /\ \E event \in Sampled :
        /\ event = "length" => HitLength(Drained)
        /\ event = "token" => ~HitLength(Drained)
        /\ replies' = Sent({Drained}, event)
        /\ \/ /\ event # "token"
              /\ running' = running \ {Drained}
              /\ FreeReqResources(Drained)
              /\ newFinished' = newFinished \cup {Drained}
           \/ /\ event = "token"
              /\ \/ /\ draining.phase = "prefill" /\ slot[Drained] # NoSlot
                    /\ KV!CacheReqUnfinished(Drained)
                    /\ KV!ForgetFreed
                    /\ UNCHANGED <<ids, cached>>
                 \/ /\ ~(draining.phase = "prefill" /\ slot[Drained] # NoSlot)
                    /\ UNCHANGED kvVars
              /\ UNCHANGED <<slotVars, running, newFinished>>

\* _flush_abort_acks.
AcksDue == acks

\* The drain is over, and the acknowledgements go out.
EndIteration ==
    /\ loop = "drain" /\ draining.reqs = <<>>
    /\ finished' = IF draining = NoBatch THEN finished ELSE newFinished
    /\ newFinished' = {}
    /\ draining' = NoBatch
    /\ replies' = Sent(AcksDue, "aborted")
    /\ acks' = acks \ AcksDue
    /\ loop' = "recv"
    /\ UNCHANGED <<kvVars, slotVars, request, tombstones, rebuild, rebuilds, aborting,
                   plan, last, pending, chunked, running, aborted>>

-----------------------------------------------------------------------------
Init ==
    /\ freeSlots = [i \in 1..TableSlots |-> i - 1]
    /\ slot = [r \in Reqs |-> NoSlot]
    /\ request = [r \in Reqs |-> NoRequest]
    /\ pending = <<>> /\ chunked = {} /\ running = {}
    /\ aborted = {} /\ finished = {} /\ newFinished = {}
    /\ tombstones = <<>> /\ acks = {} /\ aborting = {}
    /\ rebuild = "none" /\ rebuilds = MaxRebuilds
    /\ loop = "recv" /\ plan = EmptyPlan /\ last = NoBatch /\ draining = NoBatch
    /\ replies = [r \in Reqs |-> <<>>]
    /\ KV!Init

Receive == (\E u \in Reqs : RecvUser(u) \/ RecvAbort(u)) \/ RecvRebuild

Loop == \/ StartIteration \/ ExecuteRebuild
        \/ ContinueChunk \/ AdmitNew \/ RefuseNew \/ StopAdmitting
        \/ Launch \/ LaunchNothing
        \/ DrainChunk \/ DrainAborted \/ DrainEnded \/ DrainToken \/ EndIteration

Next == Receive \/ Loop

Spec == Init /\ [][Next]_vars

\* The loop is a thread that is always scheduled; messages may stop coming.
FairSpec == Spec /\ WF_vars(Loop)

-----------------------------------------------------------------------------
(* Properties. *)

\* Type invariant: uids are in the lists and sets of one manager each, the
\* stack of table slots holds slot numbers.
TypeOK ==
    /\ freeSlots \in Seq(0..(TableSlots - 1))
    /\ slot \in [Reqs -> {NoSlot} \cup 0..(TableSlots - 1)]
    /\ pending \in Seq(Reqs) /\ IsInjective(pending)
    /\ chunked \subseteq ToSet(pending)
    /\ running \subseteq Reqs \ ToSet(pending)
    /\ aborted \subseteq aborting /\ acks \subseteq aborting
    /\ aborting \subseteq MayAbort
    /\ finished \subseteq Reqs /\ newFinished \subseteq Reqs
    /\ tombstones \in Seq(aborting) /\ Len(tombstones) <= MaxTombstones
    /\ rebuild \in {"none", "queued"} /\ rebuilds \in 0..MaxRebuilds
    /\ loop \in {"recv", "admit", "launch", "drain", "stopped"}
    /\ \A b \in {last, draining} : b.reqs \in Seq(Reqs) /\ b.chunks \subseteq Reqs

\* The scheduler drives the cache manager as KVCache assumes, in every order of
\* messages, batches, drains and rebuilds: a commit only once per prompt and
\* before more than one decode step, a free only of a request that computed
\* something, a rebuild only when no request holds a page.
CacheProtocol == KV!Spec

\* The estimates of the admission control are enough: no batch, decode steps of
\* all running requests included, ever needs more pages than are free or
\* evictable (the assertions of _allocate and evict never fire).
AllocationNeverFails ==
    loop = "launch" /\ NextBatch # NoBatch =>
        Cardinality(KV!NewSlots(Dev(NextBatch))) <= KV!Available(tree, free)

\* A table slot is free or held by one request: no path of finish, abort and
\* abort in flight gives one back twice or loses it (_free_req_resources).
SlotsConserved ==
    LET held == {r \in Reqs : slot[r] # NoSlot}
    IN /\ Len(freeSlots) + Cardinality(held) = TableSlots
       /\ ToSet(freeSlots) \cup {slot[r] : r \in held} = 0..(TableSlots - 1)

\* A request in a batch that is launched and not drained keeps its table row
\* and pages, unless an earlier token ended it: an abort never frees under a
\* forward in flight.
InFlightHoldsRow ==
    \A b \in {last, draining} :
        \A r \in ToSet(b.reqs) : slot[r] # NoSlot \/ r \in finished \cup newFinished

\* Only requests that will run again or are in flight hold anything.
HeldIsReachable ==
    \A r \in Reqs : slot[r] # NoSlot =>
        r \in ToSet(pending) \cup running \cup ToSet(last.reqs) \cup ToSet(draining.reqs)
              \cup ToSet(plan.reqs)

\* When the scheduler goes idle every page is free or in the prefix cache,
\* nothing is locked and every slot is back (check_integrity in run_when_idle).
IdleHoldsNothing ==
    loop = "recv" /\ ~Busy =>
        /\ Len(freeSlots) = TableSlots
        /\ Len(free) + Cardinality(KV!Stored(tree)) = Cardinality(pool)
        /\ tree.protected = 0

\* What is sent for a uid reads: a prompt admission once, then tokens, one of
\* them at most the last; or one refusal; and after the answer to an abort
\* nothing more, even when the request itself arrives after its abort.
RepliesWellFormed ==
    \A u \in Reqs : \A i, j \in DOMAIN replies[u] : i < j =>
        /\ replies[u][i] # "aborted"
        /\ replies[u][i] \in {"stop", "length", "too_long"} => replies[u][j] = "aborted"
        /\ replies[u][j] \in Sampled => replies[u][1] = "admitted"
        /\ replies[u][j] \notin {"admitted", "too_long"}

\* The answer to an abort is a barrier: from then on the request holds no slot,
\* waits nowhere and runs nowhere, and no later message brings it back.
AckedHoldsNothing ==
    \A u \in Reqs : "aborted" \in ToSet(replies[u]) =>
        /\ slot[u] = NoSlot
        /\ u \notin ToSet(pending) \cup running \cup ToSet(plan.reqs)

\* The device runs ahead of the host by exactly the batches not drained yet: so
\* cache_req, at the drain, finds every token whose KV it inserts on the host.
DeviceAheadOfHost ==
    \A r \in Reqs : slot[r] # NoSlot /\ cached[r] >= PromptLen(r) =>
        cached[r] + 1 = PromptLen(r) + TokensSent(r)
                + Cardinality({x \in {<<"last", last>>, <<"draining", draining>>} :
                                   r \in ToSet(x[2].reqs) \ x[2].chunks})

\* At most one prompt is cut in chunks at a time, and it is the next to go on:
\* a batch never leaves two half-computed prompts holding pages.
OneChunkedPrompt ==
    /\ Cardinality(chunked) <= 1
    /\ loop = "recv" => \A u \in chunked : u = pending[1]

\* A request that ends by its length has all the tokens it asked for, within
\* what the context leaves ("output budget exhausted").
LengthSpendsBudget ==
    \A u \in Reqs : "length" \in ToSet(replies[u]) => TokensSent(u) = request[u].output

\* The loop has no step to take only where it blocks waiting for messages, or
\* when a rebuild left nothing to serve with.
StopsOnlyIdle == ENABLED Loop \/ (loop = "recv" /\ ~Busy) \/ loop = "stopped"

Terminal == {"stop", "length", "too_long", "aborted"}
Answered(u) == ToSet(replies[u]) \cap Terminal # {} \/ loop = "stopped"

\* Every request that waits is answered: the loop never sleeps on it, its
\* admission is not refused for ever, its chunks and decode steps go on.
RequestAnswered == \A u \in Reqs : u \in ToSet(pending) ~> Answered(u)

\* Every abort is answered, whatever became of its request.
AbortAnswered ==
    \A u \in MayAbort : u \in aborting ~> "aborted" \in ToSet(replies[u]) \/ loop = "stopped"

\* A queued rebuild is carried out, however many requests arrive behind it.
RebuildAnswered == rebuild = "queued" ~> rebuild = "none"
=============================================================================
