-------------------------- MODULE Scheduler_proofs --------------------------
(***************************************************************************)
(* Theorems about the scheduling loop, for every set of requests, any      *)
(* prompts, pool, page size, budgets and number of table slots, with and   *)
(* without overlap.  All rest on one inductive invariant, LoopInv.         *)
(*                                                                         *)
(* How it holds what it holds (the slots add SlotInv):                     *)
(*   SlotsAlwaysConserved  no table slot is lost or held twice             *)
(*   LoopDrivesTheCache    the loop implements KVCache's Spec              *)
(*   FlightAlwaysHoldsRow  nothing is freed under a forward in flight      *)
(*   HeldAlwaysReachable   what is held runs again or is in flight         *)
(*                                                                         *)
(* What its batches and replies are:                                       *)
(*   OneAlwaysChunked      one prompt at a time is cut in chunks (OneCut)  *)
(*   DeviceAlwaysAhead     the device is ahead by the batches in flight    *)
(*                         (Ahead)                                         *)
(* and, when no more aborts are sent than tombstones are kept (ReplyInv):  *)
(*   RepliesAlwaysRead     no reply follows a request's last one           *)
(*   AbortIsBarrier        an acknowledged abort leaves nothing running    *)
(*                                                                         *)
(* What the cache manager guarantees it:                                   *)
(*   LoopConservesPages, LoopReadsOwnKV, LoopCountsPages                   *)
(*                         the theorems about KVCache, inherited           *)
(*   IdleAlwaysClean       what check_integrity tests when the loop idles  *)
(*   AllocationAlwaysSucceeds  the promise of the admission control, for   *)
(*                         pages of one token                              *)
(***************************************************************************)
EXTENDS Scheduler, TLAPS, FiniteSetTheorems, SequenceTheorems

RT == INSTANCE RadixTree_proofs

-----------------------------------------------------------------------------
(* The inductive invariant. *)

Held      == {r \in Reqs : slot[r] # NoSlot}
Finals(b) == ToSet(b.reqs) \ b.chunks
Batches   == [reqs : Seq(Reqs), phase : {"none", "prefill", "decode"}, chunks : SUBSET Reqs]

\* What passed the length check of _process_one_msg.
Accepted(r) ==
  /\ request[r].prompt \in {q.prompt : q \in ClientRequests}
  /\ PromptLen(r) >= 1 /\ request[r].output >= 1 /\ MaxDeviceLen(r) <= MaxLen

Types ==
  /\ pool \subseteq Pages
  /\ slot \in [Reqs -> {NoSlot} \cup 0..(TableSlots - 1)]
  /\ freeSlots \in Seq(0..(TableSlots - 1))
  /\ request \in [Reqs -> [prompt : Seq(Tokens), output : Nat]]
  /\ ids \in [Reqs -> Seq(Tokens)] /\ hit \in [Reqs -> Nat] /\ cached \in [Reqs -> Nat]
  /\ pending \in Seq(Reqs) /\ IsInjective(pending)
  /\ chunked \subseteq ToSet(pending)
  /\ running \subseteq Reqs /\ aborted \subseteq Reqs
  /\ finished \subseteq Reqs /\ newFinished \subseteq Reqs
  /\ loop \in {"recv", "admit", "launch", "drain", "stopped"}
  /\ last \in Batches /\ IsInjective(last.reqs)
  /\ draining \in Batches /\ IsInjective(draining.reqs)

\* A uid whose request has not arrived is nowhere.
Unasked ==
  \A r \in Reqs : request[r] = NoRequest =>
    r \notin ToSet(pending) \cup Held \cup ToSet(last.reqs) \cup ToSet(draining.reqs)
             \cup aborted \cup finished \cup newFinished

\* A pending request is in no other manager and holds something only as a chunk
\* or in the batch being filled; it waits for its last chunk.
Waiting ==
  \A r \in ToSet(pending) :
    /\ Accepted(r)
    /\ r \notin running \cup aborted \cup finished \cup newFinished
                \cup Finals(last) \cup Finals(draining)
    /\ r \in chunked => r \in Held /\ cached[r] < PromptLen(r)
    /\ r \notin chunked \cup plan.fresh => r \notin Held

\* What holds a slot is in its prompt, of which it has computed more than it
\* found in the cache, or one token ahead of what it has computed.
Computing ==
  \A r \in Held :
    /\ Accepted(r)
    /\ r \notin finished \cup newFinished
    /\ \/ cached[r] < PromptLen(r) /\ ids[r] = request[r].prompt
       \/ /\ cached[r] >= PromptLen(r)
          /\ DeviceLen(r) = cached[r] + 1 /\ DeviceLen(r) <= MaxDeviceLen(r)
    /\ cached[r] < PromptLen(r) =>
         hit[r] * PageSize <= cached[r] /\ (hit[r] * PageSize = cached[r] => r \in plan.fresh)

Decoding ==
  \A r \in running :
    /\ r \in Held /\ r \notin aborted
    /\ cached[r] >= PromptLen(r) /\ DeviceLen(r) < MaxDeviceLen(r)

\* The batch being filled is a prefix of the pending list, each with one chunk more.
Planned ==
  /\ loop \notin {"admit", "launch"} => plan.reqs = <<>>
  /\ plan.budget \in Nat
  /\ plan.reqs \in Seq(Reqs) /\ Len(plan.reqs) <= Len(pending)
  /\ plan.reqs = SubSeq(pending, 1, Len(plan.reqs))
  /\ plan.fresh \subseteq ToSet(plan.reqs) /\ DOMAIN plan.dev = ToSet(plan.reqs)
  /\ plan.chunks \in Seq(Reqs) /\ IsInjective(plan.chunks)
  /\ ToSet(plan.chunks) = {r \in ToSet(plan.reqs) : plan.dev[r] < PromptLen(r)}
  /\ \A r \in ToSet(plan.reqs) :
       /\ r \in Held /\ plan.dev[r] \in Nat
       /\ cached[r] < plan.dev[r] /\ plan.dev[r] <= PromptLen(r)

\* The batch launched and not yet taken for draining.
Launched ==
  /\ ~Overlap => last = NoBatch
  /\ last.phase = "none" => last = NoBatch
  /\ \A r \in ToSet(last.reqs) :
       /\ r \in Held \/ r \in (IF loop = "drain" THEN newFinished ELSE finished)
       /\ loop = "drain" => r \notin aborted
       /\ r \in Held /\ r \in last.chunks => r \in aborted \cup chunked
       /\ r \in Held /\ r \notin last.chunks /\ last.phase = "prefill" =>
            cached[r] = PromptLen(r)

\* The batch being drained.
Drains ==
  /\ loop # "drain" => draining = NoBatch
  /\ draining.phase = "none" => draining = NoBatch
  /\ draining = NoBatch => newFinished = {}
  /\ \A r \in ToSet(draining.reqs) :
       /\ r \in Held \/ r \in finished
       /\ r \in Held /\ r \in draining.chunks => r \in aborted \cup chunked \cup ToSet(last.reqs)
       /\ r \notin draining.chunks /\ draining.phase = "prefill" =>
            /\ r \in Held => cached[r] >= PromptLen(r)
            /\ last.phase = "prefill" => r \notin Finals(last)

\* What was aborted in flight is freed by the drain that comes.
AbortedInFlight ==
  \A r \in aborted \cap Held : r \in ToSet(IF loop = "drain" THEN draining.reqs ELSE last.reqs)

\* Nothing is held that will not run again or end in a drain.
Reached ==
  \A r \in Held :
    \/ r \in chunked \cup running \cup ToSet(plan.reqs)
    \/ /\ r \in ToSet(last.reqs) \cup ToSet(draining.reqs)
       /\ r \in aborted \/ DeviceLen(r) = MaxDeviceLen(r)

LoopInv == /\ Types /\ Unasked /\ Waiting /\ Computing /\ Decoding /\ Planned
           /\ Launched /\ Drains /\ AbortedInFlight /\ Reached
-----------------------------------------------------------------------------
(* Lists of uids. *)

\* The smaller and the larger of two numbers.
LEMMA OfTwo ==
  ASSUME NEW a \in Int, NEW b \in Int
  PROVE  /\ Min({a, b}) = IF a <= b THEN a ELSE b
         /\ Max({a, b}) = IF a >= b THEN a ELSE b
<1>1. \A x \in {a, b} : (\A y \in {a, b} : x =< y) => x = IF a <= b THEN a ELSE b
  OBVIOUS
<1>2. \E x \in {a, b} : \A y \in {a, b} : x =< y
  OBVIOUS
<1>3. \A x \in {a, b} : (\A y \in {a, b} : x >= y) => x = IF a >= b THEN a ELSE b
  OBVIOUS
<1>4. \E x \in {a, b} : \A y \in {a, b} : x >= y
  OBVIOUS
<1> QED BY <1>1, <1>2, <1>3, <1>4 DEF Min, Max

\* Taking one uid out of a list that names it once at most.
LEMMA WithoutFacts ==
  ASSUME NEW S, NEW s \in Seq(S), IsInjective(s), NEW u
  PROVE  /\ Without(s, u) \in Seq(S) /\ IsInjective(Without(s, u))
         /\ ToSet(Without(s, u)) = ToSet(s) \ {u}
<1>1. CASE u \notin ToSet(s)
  BY <1>1 DEF Without
<1>2. CASE u \in ToSet(s)
  <2>1. PICK k \in 1..Len(s) : s[k] = u
    BY <1>2 DEF ToSet
  <2>2. {i \in DOMAIN s : s[i] = u} = {k}
    BY <2>1 DEF IsInjective
  <2>3. Min({k}) = k
    BY DEF Min
  <2> DEFINE t == Without(s, u)
  <2>4. t = SubSeq(s, 1, k - 1) \o SubSeq(s, k + 1, Len(s))
    BY <1>2, <2>2, <2>3 DEF Without, RemoveAt
  <2>5. /\ t \in Seq(S) /\ Len(t) = Len(s) - 1
        /\ \A i \in 1..Len(t) : t[i] = IF i < k THEN s[i] ELSE s[i + 1]
    <3>1. /\ SubSeq(s, 1, k - 1) \in Seq(S) /\ Len(SubSeq(s, 1, k - 1)) = k - 1
          /\ \A i \in 1..(k - 1) : SubSeq(s, 1, k - 1)[i] = s[i]
      BY <2>1, SubSeqProperties
    <3>2. /\ SubSeq(s, k + 1, Len(s)) \in Seq(S)
          /\ Len(SubSeq(s, k + 1, Len(s))) = Len(s) - k
          /\ \A i \in 1..(Len(s) - k) : SubSeq(s, k + 1, Len(s))[i] = s[k + i]
      BY <2>1, SubSeqProperties
    <3> DEFINE l == SubSeq(s, 1, k - 1)
               m == SubSeq(s, k + 1, Len(s))
    <3>3. t = l \o m
      BY <2>4
    <3> HIDE DEF l, m, t
    <3>4. /\ l \in Seq(S) /\ Len(l) = k - 1 /\ m \in Seq(S) /\ Len(m) = Len(s) - k
          /\ \A i \in 1..(k - 1) : l[i] = s[i]
          /\ \A i \in 1..(Len(s) - k) : m[i] = s[k + i]
      BY <3>1, <3>2 DEF l, m
    <3>5. t \in Seq(S) /\ Len(t) = Len(s) - 1
      BY <2>1, <3>3, <3>4
    <3>6. ASSUME NEW i \in 1..Len(t) PROVE t[i] = IF i < k THEN s[i] ELSE s[i + 1]
      <4>1. t[i] = IF i <= Len(l) THEN l[i] ELSE m[i - Len(l)]
        BY <3>3, <3>4, <3>5, <2>1
      <4>2. CASE i < k
        BY <2>1, <3>4, <4>1, <4>2
      <4>3. CASE i >= k
        <5> DEFINE j == i - (k - 1)
        <5>1. j \in 1..(Len(s) - k) /\ k + j = i + 1 /\ i - Len(l) = j /\ ~(i <= Len(l))
          BY <2>1, <3>4, <3>5, <4>3
        <5> HIDE DEF j
        <5>2. m[j] = s[k + j] /\ t[i] = m[j]
          BY <3>4, <4>1, <5>1
        <5> QED BY <2>1, <4>3, <5>1, <5>2
      <4> QED BY <2>1, <4>2, <4>3
    <3> QED BY <3>5, <3>6
  <2> HIDE DEF t
  <2>6. IsInjective(t)
    <3> SUFFICES ASSUME NEW i \in 1..Len(t), NEW j \in 1..Len(t), t[i] = t[j] PROVE i = j
      BY <2>5 DEF IsInjective
    <3> DEFINE o(x) == IF x < k THEN x ELSE x + 1
    <3>1. o(i) \in 1..Len(s) /\ o(j) \in 1..Len(s) /\ s[o(i)] = s[o(j)]
      BY <2>1, <2>5
    <3>2. o(i) = o(j)
      BY <3>1 DEF IsInjective
    <3> QED BY <2>1, <2>5, <3>2
  <2>7. ToSet(t) = ToSet(s) \ {u}
    <3>1. \A i \in 1..Len(t) : t[i] \in ToSet(s) \ {u}
      <4> SUFFICES ASSUME NEW i \in 1..Len(t) PROVE t[i] \in ToSet(s) /\ t[i] # u
        OBVIOUS
      <4> DEFINE o == IF i < k THEN i ELSE i + 1
      <4>1. o \in 1..Len(s) /\ o # k /\ t[i] = s[o]
        BY <2>1, <2>5
      <4> HIDE DEF o
      <4>2. s[o] # s[k]
        BY <4>1 DEF IsInjective
      <4> QED BY <2>1, <4>1, <4>2 DEF ToSet
    <3>2. \A i \in 1..Len(s) : i # k => s[i] = t[IF i < k THEN i ELSE i - 1]
                                      /\ (IF i < k THEN i ELSE i - 1) \in 1..Len(t)
      BY <2>1, <2>5
    <3> QED BY <2>1, <2>5, <3>1, <3>2 DEF ToSet
  <2> QED BY <2>5, <2>6, <2>7 DEF t
<1> QED BY <1>1, <1>2

\* The decode batch names each running request once.
LEMMA InUidOrderFacts ==
  ASSUME NEW S \in SUBSET Nat, IsFiniteSet(S)
  PROVE  /\ InUidOrder(S) \in Seq(S) /\ IsInjective(InUidOrder(S))
         /\ ToSet(InUidOrder(S)) = S
<1> DEFINE n == Cardinality(S)
           Below(u) == {v \in S : v < u}
           rank == [u \in S |-> Cardinality(Below(u)) + 1]
<1>1. n \in Nat /\ IsFiniteSet(1..n) /\ Cardinality(1..n) = n
  BY FS_CardinalityType, FS_Interval
<1>2. \A u \in S : IsFiniteSet(Below(u)) /\ Cardinality(Below(u)) \in Nat
  BY FS_Subset, FS_CardinalityType
<1>3. \A u, w \in S : u < w => Cardinality(Below(u)) < Cardinality(Below(w))
  <2> SUFFICES ASSUME NEW u \in S, NEW w \in S, u < w
               PROVE  Cardinality(Below(u)) < Cardinality(Below(w))
    OBVIOUS
  <2>1. Below(u) \subseteq Below(w) /\ Below(u) # Below(w)
    <3>1. u \in Below(w) /\ u \notin Below(u)
      OBVIOUS
    <3>2. \A v \in Below(u) : v \in Below(w)
      OBVIOUS
    <3> QED BY <3>1, <3>2
  <2> HIDE DEF Below
  <2>2. Cardinality(Below(u)) <= Cardinality(Below(w)) /\ Cardinality(Below(u)) # Cardinality(Below(w))
    BY <1>2, <2>1, FS_Subset
  <2> QED BY <1>2, <2>2
<1>4. \A u \in S : Cardinality(Below(u)) < n
  <2> SUFFICES ASSUME NEW u \in S PROVE Cardinality(Below(u)) < n
    OBVIOUS
  <2>1. Below(u) \subseteq S /\ Below(u) # S
    OBVIOUS
  <2> HIDE DEF Below
  <2>2. Cardinality(Below(u)) <= n /\ Cardinality(Below(u)) # n
    BY <2>1, FS_Subset
  <2> QED BY <1>1, <1>2, <2>2
<1> HIDE DEF Below
<1>5. rank \in Injection(S, 1..n)
  <2>1. rank \in [S -> 1..n]
    BY <1>1, <1>2, <1>4
  <2>2. \A u, w \in S : rank[u] = rank[w] => u = w
    BY <1>2, <1>3
  <2> QED BY <2>1, <2>2 DEF Injection, IsInjective
<1>6. rank \in Surjection(S, 1..n)
  <2> HIDE DEF rank
  <2> QED BY <1>1, <1>5, FS_Injection
<1>7. \A i \in 1..n : \E u \in S : Cardinality(Below(u)) = i - 1
  <2> SUFFICES ASSUME NEW i \in 1..n PROVE \E u \in S : Cardinality(Below(u)) = i - 1
    OBVIOUS
  <2>1. PICK u \in S : rank[u] = i
    BY <1>6 DEF Surjection
  <2> QED BY <1>1, <1>2, <2>1
<1>8. InUidOrder(S) = [i \in 1..n |-> CHOOSE u \in S : Cardinality(Below(u)) = i - 1]
  BY DEF InUidOrder, Below
<1> DEFINE s == InUidOrder(S)
<1>9. \A i \in 1..n : s[i] \in S /\ Cardinality(Below(s[i])) = i - 1
  BY <1>7, <1>8
<1>10. DOMAIN s = 1..n /\ s \in Seq(S) /\ Len(s) = n
  BY <1>1, <1>8, <1>9
<1> HIDE DEF s
<1>11. IsInjective(s)
  BY <1>1, <1>9, <1>10 DEF IsInjective
<1>12. \A u \in S : \E i \in 1..n : s[i] = u
  <2> SUFFICES ASSUME NEW u \in S PROVE \E i \in 1..n : s[i] = u
    OBVIOUS
  <2>1. Cardinality(Below(u)) + 1 \in 1..n
    BY <1>1, <1>2, <1>4
  <2>2. Cardinality(Below(s[Cardinality(Below(u)) + 1])) = Cardinality(Below(u))
    BY <1>2, <1>9, <2>1
  <2>3. s[Cardinality(Below(u)) + 1] \in S
    BY <1>9, <2>1
  <2>4. s[Cardinality(Below(u)) + 1] = u
    <3> DEFINE x == s[Cardinality(Below(u)) + 1]
    <3>1. x \in S /\ Cardinality(Below(x)) = Cardinality(Below(u))
      BY <2>2, <2>3
    <3> HIDE DEF x
    <3>2. ~(x < u) /\ ~(u < x)
      BY <1>2, <1>3, <3>1
    <3>3. x = u
      BY <3>1, <3>2
    <3> QED BY <3>3 DEF x
  <2> QED BY <2>1, <2>4
<1> QED BY <1>9, <1>10, <1>11, <1>12 DEF ToSet, s

-----------------------------------------------------------------------------
(* What the cache manager's methods do to the requests. *)

\* The pages found in the cache never hold the whole prompt.
LEMMA MatchLeavesOne ==
  ASSUME SchedulerAssumption, NEW u \in Reqs, NEW s \in Seq(Tokens), s # <<>>
  PROVE  /\ KV!Matched(tree, KV!MatchIds(u, s)) \in Nat
         /\ KV!Matched(tree, KV!MatchIds(u, s)) * PageSize < Len(s)
<1> DEFINE q == SubSeq(s, 1, Len(s) - 1)
           m == KV!Matched(tree, q)
<1>0. PageSize \in Nat /\ PageSize # 0 /\ RT!PageSizeAssumption
  BY DEF SchedulerAssumption, RT!PageSizeAssumption
<1>1. q \in Seq(Tokens) /\ Len(q) = Len(s) - 1 /\ Len(q) \in Nat
  <2>1. Len(s) \in Nat /\ Len(s) # 0 /\ 1 \in Int /\ \A i \in 1..(Len(s) - 1) : s[i] \in Tokens
    OBVIOUS
  <2>2. q \in Seq(Tokens) /\ Len(q) = IF 1 <= Len(s) - 1 THEN Len(s) - 1 - 1 + 1 ELSE 0
    BY <2>1, SubSeqProperties
  <2> HIDE DEF q
  <2> DEFINE l == Len(s)
  <2>3. l \in Nat /\ l # 0 /\ Len(q) = IF 1 <= l - 1 THEN l - 1 - 1 + 1 ELSE 0
    BY <2>1, <2>2
  <2> HIDE DEF l
  <2>4. Len(q) = l - 1 /\ Len(q) \in Nat
    BY <2>3
  <2> QED BY <2>2, <2>4 DEF l
<1>2. KV!MatchIds(u, s) = q
  BY DEF KV!MatchIds, KV!Shared
<1> HIDE DEF q
<1>3. KV!Matched(tree, q) = RT!Matched(tree, q)
  BY DEF KV!Matched, RT!Matched, KV!FullPages, RT!FullPages, KV!Key, RT!Key, KV!Stored, RT!Stored
<1>4. RT!Matched(tree, q) \in 0..RT!FullPages(Len(q))
  BY <1>0, <1>1, RT!MatchedSpec
<1>5. RT!FullPages(Len(q)) * PageSize <= Len(q) /\ RT!FullPages(Len(q)) \in Nat
  <2>1. \A n \in Nat : RT!FullPages(n) \in Nat /\ RT!FullPages(n) * PageSize <= n
    BY <1>0, RT!PageArithmetic
  <2> QED BY <1>1, <2>1
<1>6. m \in Nat /\ m <= RT!FullPages(Len(q))
  BY <1>3, <1>4, <1>5
<1>7. m * PageSize <= RT!FullPages(Len(q)) * PageSize
  <2> HIDE DEF m
  <2> DEFINE f == RT!FullPages(Len(q))
  <2>1. f \in Nat /\ m \in Nat /\ m <= f
    BY <1>5, <1>6
  <2> HIDE DEF f
  <2>2. m * PageSize <= f * PageSize
    BY <1>0, <2>1
  <2> QED BY <2>2 DEF f
<1>8. m * PageSize < Len(s)
  <2> HIDE DEF m
  <2>1. m * PageSize \in Nat /\ Len(q) \in Nat /\ RT!FullPages(Len(q)) * PageSize \in Nat
    BY <1>0, <1>1, <1>5, <1>6
  <2> QED BY <1>1, <1>5, <1>7, <2>1
<1> QED BY <1>2, <1>6, <1>8

\* _add_one_req gives the prompt one chunk more, at most to its end.
LEMMA AddToPlanFacts ==
  ASSUME NEW u, NEW from, NEW fresh, AddToPlan(u, from, fresh),
         PromptLen(u) \in Nat, from \in Nat, from < PromptLen(u),
         plan.budget \in Nat, plan.budget > 0
  PROVE  /\ plan'.reqs = Append(plan.reqs, u) /\ plan'.fresh = plan.fresh \cup fresh
         /\ plan'.budget \in Nat
         /\ DOMAIN plan'.dev = DOMAIN plan.dev \cup {u}
         /\ \A r \in DOMAIN plan.dev : r # u => plan'.dev[r] = plan.dev[r]
         /\ plan'.dev[u] \in Nat /\ from < plan'.dev[u] /\ plan'.dev[u] <= PromptLen(u)
         /\ plan'.chunks = IF plan'.dev[u] < PromptLen(u) THEN Append(plan.chunks, u)
                                                          ELSE plan.chunks
<1> DEFINE size == Min({plan.budget, PromptLen(u) - from})
<1>1. size \in Nat /\ size > 0 /\ size <= plan.budget /\ size <= PromptLen(u) - from
  BY OfTwo
<1>2. /\ plan'.reqs = Append(plan.reqs, u) /\ plan'.fresh = plan.fresh \cup fresh
      /\ plan'.budget = plan.budget - size
      /\ plan'.dev = [r \in DOMAIN plan.dev \cup {u} |-> IF r = u THEN from + size ELSE plan.dev[r]]
      /\ plan'.chunks = IF size < PromptLen(u) - from THEN Append(plan.chunks, u)
                                                      ELSE plan.chunks
  BY DEF AddToPlan
<1> HIDE DEF size
<1>3. /\ DOMAIN plan'.dev = DOMAIN plan.dev \cup {u}
      /\ \A r \in DOMAIN plan.dev : r # u => plan'.dev[r] = plan.dev[r]
      /\ plan'.dev[u] = from + size
  BY <1>2
<1> QED BY <1>1, <1>2, <1>3

\* _free_req_resources, the first time and the second.
LEMMA FreeFacts ==
  ASSUME Types, NEW u \in Reqs, FreeReqResources(u)
  PROVE  /\ slot' = [slot EXCEPT ![u] = NoSlot] /\ Held' = Held \ {u}
         /\ \A r \in Reqs : r # u => /\ ids'[r] = ids[r] /\ hit'[r] = hit[r]
                                     /\ cached'[r] = cached[r]
         /\ pool' = pool
         /\ ids' \in [Reqs -> Seq(Tokens)] /\ hit' \in [Reqs -> Nat] /\ cached' \in [Reqs -> Nat]
         /\ freeSlots' = IF u \in Held THEN Append(freeSlots, slot[u]) ELSE freeSlots
         /\ slot' \in [Reqs -> {NoSlot} \cup 0..(TableSlots - 1)]
         /\ freeSlots' \in Seq(0..(TableSlots - 1))
<1>1. CASE slot[u] = NoSlot
  <2>1. UNCHANGED <<kvVars, slotVars>>
    BY <1>1 DEF FreeReqResources
  <2> QED BY <1>1, <2>1 DEF kvVars, slotVars, Types, Held
<1>2. CASE slot[u] # NoSlot
  <2>1. Release(u)
    BY <1>2 DEF FreeReqResources
  <2>2. /\ ids' = [ids EXCEPT ![u] = <<>>] /\ hit' = [hit EXCEPT ![u] = 0]
        /\ cached' = [cached EXCEPT ![u] = 0] /\ pool' = pool
    BY <2>1 DEF Release, KV!CacheReqFinished
  <2>3. slot' = [slot EXCEPT ![u] = NoSlot] /\ freeSlots' = Append(freeSlots, slot[u])
    BY <2>1 DEF Release, FreeSlot
  <2>4. <<>> \in Seq(Tokens) /\ 0 \in Nat
    OBVIOUS
  <2>5. freeSlots \in Seq(0..(TableSlots - 1)) /\ slot[u] \in 0..(TableSlots - 1)
    BY <1>2 DEF Types
  <2>6. freeSlots' \in Seq(0..(TableSlots - 1))
    BY <2>3, <2>5
  <2> QED BY <1>2, <2>2, <2>3, <2>4, <2>6 DEF Types, Held
<1> QED BY <1>1, <1>2

\* What is granted: the slot on top of the stack, and the pages found.
LEMMA AdmitFacts ==
  ASSUME SchedulerAssumption, Types, AdmitNew, NEW u, u = NextUp, u \in Reqs,
         request[u].prompt # <<>>
  PROVE  /\ freeSlots # <<>> /\ freeSlots' = Front(freeSlots)
         /\ slot' = [slot EXCEPT ![u] = Last(freeSlots)] /\ Held' = Held \cup {u}
         /\ ids' = [ids EXCEPT ![u] = request[u].prompt]
         /\ cached' \in [Reqs -> Nat] /\ hit' \in [Reqs -> Nat]
         /\ \A r \in Reqs : r # u => hit'[r] = hit[r] /\ cached'[r] = cached[r]
         /\ cached'[u] = Match(u) * PageSize /\ cached'[u] < PromptLen(u)
         /\ hit'[u] * PageSize = cached'[u]
         /\ pool' = pool
         /\ freeSlots' \in Seq(0..(TableSlots - 1)) /\ Last(freeSlots) \in 0..(TableSlots - 1)
<1> DEFINE m == Match(u)
<1>1. /\ slot' = [slot EXCEPT ![u] = Last(freeSlots)] /\ freeSlots' = Front(freeSlots)
      /\ KV!AdmitReq(u, request[u].prompt) /\ freeSlots # <<>>
  BY DEF AdmitNew
<1>2. PageSize \in Nat
  BY DEF SchedulerAssumption
<1>3. request[u].prompt \in Seq(Tokens)
  BY DEF Types
<1>4. m \in Nat /\ m * PageSize < PromptLen(u)
  BY <1>3, MatchLeavesOne DEF Match, PromptLen
<1> HIDE DEF m
<1>5. m * PageSize \in Nat
  BY <1>2, <1>4
<1>6. /\ ids' = [ids EXCEPT ![u] = request[u].prompt] /\ hit' = [hit EXCEPT ![u] = m]
      /\ cached' = [cached EXCEPT ![u] = m * PageSize] /\ pool' = pool
  BY <1>1 DEF KV!AdmitReq, m, Match
<1>7. /\ Last(freeSlots) \in 0..(TableSlots - 1)
      /\ Front(freeSlots) \in Seq(0..(TableSlots - 1))
  <2>1. freeSlots \in Seq(0..(TableSlots - 1)) /\ Len(freeSlots) \in Nat /\ Len(freeSlots) # 0
    BY <1>1 DEF Types
  <2>2. \A i \in 1..Len(freeSlots) : freeSlots[i] \in 0..(TableSlots - 1)
    BY <2>1
  <2>3. \A i \in 1..(Len(freeSlots) - 1) : freeSlots[i] \in 0..(TableSlots - 1)
    BY <2>1, <2>2
  <2>4. SubSeq(freeSlots, 1, Len(freeSlots) - 1) \in Seq(0..(TableSlots - 1))
    BY <2>1, <2>3, SubSeqProperties
  <2> QED BY <2>1, <2>2, <2>4 DEF Front, Last
<1>8. TableSlots \in Nat /\ Last(freeSlots) # NoSlot
  BY <1>7 DEF SchedulerAssumption, NoSlot
<1>9. Held' = Held \cup {u}
  BY <1>1, <1>8 DEF Held, Types
<1> QED BY <1>1, <1>4, <1>5, <1>6, <1>7, <1>9 DEF Types, m

-----------------------------------------------------------------------------
(* Every step keeps the invariant: receiving. *)

\* A list that gets one uid more.
LEMMA AppendFacts ==
  ASSUME NEW S, NEW s \in Seq(S), IsInjective(s), NEW u \in S, u \notin ToSet(s)
  PROVE  /\ Append(s, u) \in Seq(S) /\ IsInjective(Append(s, u))
         /\ ToSet(Append(s, u)) = ToSet(s) \cup {u}
<1> DEFINE t == Append(s, u)
<1>1. /\ t \in Seq(S) /\ Len(s) \in Nat /\ Len(t) = Len(s) + 1
      /\ \A i \in 1..Len(s) : t[i] = s[i] /\ s[i] \in ToSet(s)
      /\ t[Len(s) + 1] = u /\ DOMAIN t = 1..Len(t) /\ DOMAIN s = 1..Len(s)
  BY DEF ToSet
<1> HIDE DEF t
<1>2. IsInjective(t)
  BY <1>1 DEF IsInjective
<1>3. ToSet(t) = ToSet(s) \cup {u}
  <2>1. 1..Len(t) = (1..Len(s)) \cup {Len(s) + 1}
    BY <1>1
  <2>2. ToSet(t) = {t[i] : i \in (1..Len(s)) \cup {Len(s) + 1}}
    BY <1>1, <2>1 DEF ToSet
  <2>3. ToSet(s) = {t[i] : i \in 1..Len(s)}
    BY <1>1 DEF ToSet
  <2> QED BY <1>1, <2>2, <2>3
<1> QED BY <1>1, <1>2, <1>3 DEF t

\* All lists and sets are of uids.
LEMMA Uids ==
  ASSUME Types
  PROVE  /\ ToSet(pending) \subseteq Reqs /\ chunked \subseteq ToSet(pending)
         /\ running \subseteq Reqs /\ aborted \subseteq Reqs
         /\ finished \subseteq Reqs /\ newFinished \subseteq Reqs
         /\ ToSet(last.reqs) \subseteq Reqs /\ ToSet(draining.reqs) \subseteq Reqs
<1>1. \A s \in Seq(Reqs) : ToSet(s) \subseteq Reqs
  BY DEF ToSet
<1>2. last.reqs \in Seq(Reqs) /\ draining.reqs \in Seq(Reqs)
  BY DEF Types, Batches
<1> QED BY <1>1, <1>2 DEF Types

\* A request arrives: it waits, unless an abort came first or it is too long
\* (_process_one_msg).
LEMMA RecvUserKeeps ==
  ASSUME SchedulerAssumption, LoopInv, NEW u \in Reqs, RecvUser(u)
  PROVE  LoopInv'
<1> USE DEF Finals
<1>0. Types /\ Unasked /\ Waiting /\ Computing /\ Decoding /\ Planned /\ Launched /\ Drains
      /\ AbortedInFlight /\ Reached
  BY DEF LoopInv
<1>1. /\ loop = "recv" /\ request[u] = NoRequest
      /\ pool' = pool /\ kv' = kv /\ slot' = slot /\ freeSlots' = freeSlots /\ ids' = ids
      /\ hit' = hit /\ cached' = cached /\ loop' = loop /\ plan' = plan /\ last' = last
      /\ draining' = draining /\ chunked' = chunked /\ running' = running
      /\ aborted' = aborted /\ finished' = finished /\ newFinished' = newFinished
  BY DEF RecvUser, kvVars, slotVars, batchVars
<1> DEFINE out(q) == Min({q.output, Max({MaxSeqLen - Len(q.prompt), 0})})
<1>2. PICK q \in ClientRequests :
        /\ request' = [request EXCEPT ![u] = [q EXCEPT !.output = out(q)]]
        /\ pending' = pending \/ (Len(q.prompt) < MaxSeqLen /\ pending' = Append(pending, u))
  BY DEF RecvUser
<1>3. q \in [prompt : Seq(Tokens) \ {<<>>}, output : Nat \ {0}]
  BY DEF SchedulerAssumption
<1>4. MaxSeqLen \in Int /\ MaxSeqLen <= MaxLen /\ MaxLen \in Nat
  <2>1. Cardinality(pool) * PageSize \in Nat /\ MaxLen \in Nat
    <3>1. IsFiniteSet(Pages) /\ pool \in SUBSET Pages /\ PageSize \in Nat /\ MaxLen \in Nat
      BY <1>0 DEF Types, SchedulerAssumption
    <3>2. Cardinality(pool) \in Nat
      BY <3>1, FS_Subset, FS_CardinalityType
    <3> QED BY <3>1, <3>2
  <2> QED BY <2>1, OfTwo DEF MaxSeqLen
<1>5. /\ out(q) \in Nat
      /\ Len(q.prompt) < MaxSeqLen => out(q) >= 1 /\ Len(q.prompt) + out(q) <= MaxLen
  <2> DEFINE n == Len(q.prompt)
             k == q.output
  <2>1. n \in Nat /\ k \in Nat /\ k # 0
    BY <1>3
  <2> HIDE DEF n, k
  <2>2. Max({MaxSeqLen - n, 0}) = IF MaxSeqLen - n >= 0 THEN MaxSeqLen - n ELSE 0
    <3>1. MaxSeqLen - n \in Int /\ 0 \in Int
      BY <1>4, <2>1
    <3> QED BY <3>1, OfTwo
  <2> DEFINE x == Max({MaxSeqLen - n, 0})
  <2>3. x \in Int /\ x = IF MaxSeqLen - n >= 0 THEN MaxSeqLen - n ELSE 0
    BY <1>4, <2>1, <2>2
  <2> HIDE DEF x
  <2>4. Min({k, x}) = IF k <= x THEN k ELSE x
    BY <2>1, <2>3, OfTwo
  <2>5. Min({k, x}) \in Nat /\ (n < MaxSeqLen => Min({k, x}) >= 1 /\ n + Min({k, x}) <= MaxLen)
    BY <1>4, <2>1, <2>3, <2>4
  <2> QED BY <2>5 DEF n, k, x
<1> HIDE DEF out
<1>6. /\ request' \in [Reqs -> [prompt : Seq(Tokens), output : Nat]]
      /\ \A r \in Reqs : r # u => request'[r] = request[r]
      /\ request'[u].prompt = q.prompt /\ request'[u].output = out(q)
  BY <1>0, <1>2, <1>3, <1>5 DEF Types
<1>7. /\ u \notin ToSet(pending) \cup Held \cup ToSet(last.reqs) \cup ToSet(draining.reqs)
                  \cup aborted \cup finished \cup newFinished \cup running
      /\ Held' = Held
  BY <1>0, <1>1 DEF Unasked, Decoding, Held
<1>8. /\ pending' \in Seq(Reqs) /\ IsInjective(pending')
      /\ ToSet(pending) \subseteq ToSet(pending') /\ ToSet(pending') \subseteq ToSet(pending) \cup {u}
  <2>1. pending \in Seq(Reqs) /\ IsInjective(pending) /\ u \notin ToSet(pending)
    BY <1>0, <1>7 DEF Types
  <2>2. /\ Append(pending, u) \in Seq(Reqs) /\ IsInjective(Append(pending, u))
        /\ ToSet(Append(pending, u)) = ToSet(pending) \cup {u}
    BY <2>1, AppendFacts
  <2>3. CASE pending' = pending
    BY <2>1, <2>3
  <2>4. CASE pending' = Append(pending, u)
    BY <2>2, <2>4
  <2> QED BY <1>2, <2>3, <2>4
<1>9. u \in ToSet(pending') => Accepted(u)'
  <2> SUFFICES ASSUME u \in ToSet(pending') PROVE Accepted(u)'
    OBVIOUS
  <2>1. Len(q.prompt) < MaxSeqLen
    BY <1>2, <1>7
  <2>2. Len(q.prompt) >= 1
    BY <1>3
  <2> QED BY <1>5, <1>6, <2>1, <2>2 DEF Accepted, PromptLen, MaxDeviceLen
<1>10. \A r \in Reqs : r # u => /\ Accepted(r)' <=> Accepted(r)
                                /\ PromptLen(r)' = PromptLen(r)
                                /\ MaxDeviceLen(r)' = MaxDeviceLen(r)
  BY <1>6 DEF Accepted, PromptLen, MaxDeviceLen
<1>11. Types'
  BY <1>0, <1>1, <1>6, <1>8 DEF Types, Batches
<1>12. Unasked'
  <2>1. request'[u] # NoRequest
    BY <1>3, <1>6 DEF NoRequest
  <2> QED BY <1>0, <1>1, <1>6, <1>7, <1>8, <2>1 DEF Unasked
<1>13. Waiting'
  <2> SUFFICES ASSUME NEW r \in ToSet(pending')
               PROVE  /\ Accepted(r)'
                      /\ r \notin running \cup aborted \cup finished \cup newFinished
                                  \cup Finals(last) \cup Finals(draining)
                      /\ r \in chunked => r \in Held /\ cached[r] < PromptLen(r)'
                      /\ r \notin chunked \cup plan.fresh => r \notin Held
    BY <1>1, <1>7 DEF Waiting
  <2>1. CASE r = u
    BY <1>0, <1>7, <1>9, <2>1, Uids
  <2>2. CASE r # u
    <3>1. r \in ToSet(pending) /\ r \in Reqs
      BY <1>0, <1>8, <2>2, Uids
    <3> QED BY <1>0, <1>10, <2>2, <3>1 DEF Waiting
  <2> QED BY <2>1, <2>2
<1>14. Computing'
  BY <1>0, <1>1, <1>6, <1>7, <1>10 DEF Computing, DeviceLen, Held
<1>15. Decoding'
  BY <1>0, <1>1, <1>7, <1>10, Uids DEF Decoding, DeviceLen
<1>16. Planned'
  <2>1. plan.reqs = <<>> /\ ToSet(plan.reqs) = {}
    BY <1>0, <1>1 DEF Planned, ToSet
  <2>2. Len(plan.reqs) = 0 /\ SubSeq(pending', 1, 0) = <<>> /\ Len(pending') \in Nat
    BY <1>8, <2>1
  <2> QED BY <1>0, <1>1, <2>1, <2>2 DEF Planned
<1>17. Launched'
  BY <1>0, <1>1, <1>7, <1>10 DEF Launched, Held
<1>18. Drains'
  BY <1>0, <1>1, <1>7, <1>10 DEF Drains, Held
<1>19. AbortedInFlight'
  BY <1>0, <1>1, <1>7 DEF AbortedInFlight
<1>20. Reached'
  BY <1>0, <1>1, <1>7, <1>10 DEF Reached, DeviceLen, Held
<1> QED BY <1>11, <1>12, <1>13, <1>14, <1>15, <1>16, <1>17, <1>18, <1>19, <1>20 DEF LoopInv

\* An abort takes the request out of its manager and frees it, or marks it when
\* it is in flight (abort_req).
LEMMA RecvAbortKeeps ==
  ASSUME LoopInv, NEW u \in Reqs, RecvAbort(u)
  PROVE  LoopInv'
<1> USE DEF Finals
<1>0. Types /\ Unasked /\ Waiting /\ Computing /\ Decoding /\ Planned /\ Launched /\ Drains
      /\ AbortedInFlight /\ Reached
  BY DEF LoopInv
<1>1. /\ loop = "recv" /\ loop' = loop /\ plan' = plan /\ last' = last /\ draining' = draining
      /\ request' = request /\ finished' = finished /\ newFinished' = newFinished
      /\ chunked' = chunked \ {u} /\ running' = running \ {u}
      /\ pending' = Without(pending, u)
  BY DEF RecvAbort, batchVars
<1>2. /\ pending' \in Seq(Reqs) /\ IsInjective(pending') /\ ToSet(pending') = ToSet(pending) \ {u}
  BY <1>0, <1>1, WithoutFacts DEF Types
<1>3. plan.reqs = <<>> /\ ToSet(plan.reqs) = {} /\ plan.fresh = {} /\ draining = NoBatch
      /\ ToSet(draining.reqs) = {}
  BY <1>0, <1>1 DEF Planned, Drains, NoBatch, ToSet
\* Either nothing is held any more, or the drain of the last batch will free it.
<1>4. /\ aborted \subseteq aborted' /\ aborted' \subseteq aborted \cup {u}
      /\ u \in aborted' \ aborted => u \in ToSet(last.reqs) /\ u \in Held
      /\ Held' \subseteq Held /\ Held \subseteq Held' \cup {u}
      /\ u \in Held' => slot' = slot /\ (u \in aborted' \/ u \notin chunked \cup running)
      /\ u \in Held \ Held' => u \notin ToSet(last.reqs)
      /\ pool' = pool
      /\ slot' \in [Reqs -> {NoSlot} \cup 0..(TableSlots - 1)]
      /\ freeSlots' \in Seq(0..(TableSlots - 1))
      /\ ids' \in [Reqs -> Seq(Tokens)] /\ hit' \in [Reqs -> Nat] /\ cached' \in [Reqs -> Nat]
      /\ \A r \in Held' : ids'[r] = ids[r] /\ hit'[r] = hit[r] /\ cached'[r] = cached[r]
  <2>1. CASE ~Holding(u) /\ UNCHANGED <<kvVars, slotVars, aborted>>
    BY <1>0, <2>1 DEF kvVars, slotVars, Held, Types, Holding
  <2>2. CASE Holding(u) /\ InFlight(u) /\ aborted' = aborted \cup {u} /\ UNCHANGED <<kvVars, slotVars>>
    <3>1. u \in Held
      BY <1>0, <2>2, Uids DEF Holding, Waiting, Decoding
    <3> QED BY <1>0, <2>2, <3>1 DEF kvVars, slotVars, Held, Types, InFlight
  <2>3. CASE Holding(u) /\ ~InFlight(u) /\ FreeReqResources(u) /\ aborted' = aborted
    BY <1>0, <2>3, FreeFacts DEF InFlight, Held
  <2> QED BY <2>1, <2>2, <2>3 DEF RecvAbort
<1>5. \A r \in Reqs : /\ Accepted(r)' <=> Accepted(r)
                      /\ PromptLen(r)' = PromptLen(r) /\ MaxDeviceLen(r)' = MaxDeviceLen(r)
  BY <1>1 DEF Accepted, PromptLen, MaxDeviceLen
<1>6. \A r \in Held' : DeviceLen(r)' = DeviceLen(r)
  BY <1>4 DEF DeviceLen
<1>7. Held \subseteq Reqs /\ Held' \subseteq Reqs
  BY DEF Held
<1>8. chunked \subseteq Held /\ running \subseteq Held
  BY <1>0, Uids DEF Waiting, Decoding
<1>11. Types'
  <2>1. chunked' \subseteq ToSet(pending') /\ running' \subseteq Reqs /\ aborted' \subseteq Reqs
    BY <1>0, <1>1, <1>2, <1>4, Uids
  <2> QED BY <1>0, <1>1, <1>2, <1>4, <2>1 DEF Types, Batches
<1>12. Unasked'
  BY <1>0, <1>1, <1>2, <1>4 DEF Unasked
<1>13. Waiting'
  <2> SUFFICES ASSUME NEW r \in ToSet(pending) \ {u}
               PROVE  /\ Accepted(r)
                      /\ r \notin running' \cup aborted' \cup finished \cup newFinished
                                  \cup Finals(last) \cup Finals(draining)
                      /\ r \in chunked' => r \in Held' /\ cached'[r] < PromptLen(r)
                      /\ r \notin chunked' \cup plan.fresh => r \notin Held'
    BY <1>0, <1>1, <1>2, <1>5, Uids DEF Waiting
  <2> QED BY <1>0, <1>1, <1>4 DEF Waiting
<1>14. Computing'
  <2> SUFFICES ASSUME NEW r \in Held'
               PROVE  /\ Accepted(r)
                      /\ r \notin finished \cup newFinished
                      /\ \/ cached[r] < PromptLen(r) /\ ids[r] = request[r].prompt
                         \/ /\ cached[r] >= PromptLen(r)
                            /\ DeviceLen(r) = cached[r] + 1 /\ DeviceLen(r) <= MaxDeviceLen(r)
                      /\ cached[r] < PromptLen(r) =>
                           /\ hit[r] * PageSize <= cached[r]
                           /\ hit[r] * PageSize = cached[r] => r \in plan.fresh
    BY <1>1, <1>4, <1>5, <1>6, <1>7 DEF Computing
  <2> QED BY <1>0, <1>4 DEF Computing
<1>15. Decoding'
  <2> SUFFICES ASSUME NEW r \in running \ {u}
               PROVE  /\ r \in Held /\ r \notin aborted
                      /\ cached[r] >= PromptLen(r) /\ DeviceLen(r) < MaxDeviceLen(r)
    BY <1>1, <1>4, <1>5, <1>6, <1>7, <1>8 DEF Decoding
  <2> QED BY <1>0 DEF Decoding
<1>16. Planned'
  <2>1. Len(plan.reqs) = 0 /\ SubSeq(pending', 1, 0) = <<>> /\ Len(pending') \in Nat
    BY <1>2, <1>3
  <2> QED BY <1>0, <1>1, <1>3, <2>1 DEF Planned
<1>17. Launched'
  <2> SUFFICES ASSUME NEW r \in ToSet(last.reqs)
               PROVE  /\ r \in Held' \/ r \in finished
                      /\ r \in Held' /\ r \in last.chunks => r \in aborted' \cup chunked'
                      /\ r \in Held' /\ r \notin last.chunks /\ last.phase = "prefill" =>
                           cached'[r] = PromptLen(r)'
    BY <1>0, <1>1 DEF Launched
  <2>1. r \in Reqs /\ (r \in Held <=> r \in Held')
    BY <1>0, <1>4, Uids
  <2> QED BY <1>0, <1>1, <1>4, <1>5, <2>1 DEF Launched
<1>18. Drains'
  BY <1>0, <1>1, <1>3 DEF Drains
<1>19. AbortedInFlight'
  BY <1>0, <1>1, <1>4 DEF AbortedInFlight
<1>20. Reached'
  <2> SUFFICES ASSUME NEW r \in Held'
               PROVE  \/ r \in chunked' \cup running'
                      \/ /\ r \in ToSet(last.reqs)
                         /\ r \in aborted' \/ DeviceLen(r) = MaxDeviceLen(r)
    BY <1>1, <1>5, <1>6, <1>7 DEF Reached
  <2>1. \/ r \in chunked \cup running
        \/ r \in ToSet(last.reqs) /\ (r \in aborted \/ DeviceLen(r) = MaxDeviceLen(r))
    BY <1>0, <1>3, <1>4 DEF Reached
  <2>2. r \in aborted => r \in ToSet(last.reqs)
    BY <1>0, <1>1, <1>4 DEF AbortedInFlight
  <2> QED BY <1>1, <1>4, <2>1, <2>2
<1> QED BY <1>11, <1>12, <1>13, <1>14, <1>15, <1>16, <1>17, <1>18, <1>19, <1>20 DEF LoopInv

\* A rebuild message is queued or refused.
LEMMA RecvRebuildKeeps ==
  ASSUME LoopInv, RecvRebuild
  PROVE  LoopInv'
<1>1. /\ UNCHANGED <<kvVars, slotVars, request, tombstones, acks, aborting, batchVars,
                     pending, chunked, running, aborted, finished, newFinished, replies>>
  BY DEF RecvRebuild
<1> QED
  BY <1>1 DEF kvVars, slotVars, batchVars, LoopInv, Types, Unasked, Waiting, Computing, Decoding,
     Planned, Launched, Drains, AbortedInFlight, Reached, Held, Accepted, PromptLen, MaxDeviceLen,
     DeviceLen, Finals

-----------------------------------------------------------------------------
(* Filling the next batch. *)

\* Where nothing waits, runs or is in flight, nothing is held.
LEMMA IdleHoldsNone ==
  ASSUME LoopInv, loop = "recv", Idle
  PROVE  Held = {}
<1>1. last = NoBatch /\ pending = <<>> /\ running = {}
  BY DEF Idle, Runnable
<1>2. ToSet(last.reqs) = {} /\ ToSet(pending) = {}
  BY <1>1 DEF NoBatch, ToSet
<1>3. plan.reqs = <<>> /\ ToSet(plan.reqs) = {} /\ ToSet(draining.reqs) = {}
  BY DEF LoopInv, Planned, Drains, NoBatch, ToSet
<1>4. chunked = {}
  BY <1>2 DEF LoopInv, Types
<1> QED BY <1>1, <1>2, <1>3, <1>4 DEF LoopInv, Reached

\* An iteration starts, with a rebuild only when nothing is held.
LEMMA IterateKeeps ==
  ASSUME SchedulerAssumption, LoopInv, StartIteration \/ ExecuteRebuild
  PROVE  LoopInv'
<1>0. Types /\ Unasked /\ Waiting /\ Computing /\ Decoding /\ Planned /\ Launched /\ Drains
      /\ AbortedInFlight /\ Reached
  BY DEF LoopInv
<1>1. /\ loop = "recv" /\ loop' \in {"admit", "stopped"}
      /\ plan' = [EmptyPlan EXCEPT !.budget = PrefillBudget, !.reserved = Inflight]
      /\ UNCHANGED <<request, last, draining, pending, chunked, running, aborted, finished,
                     newFinished, slot>>
  BY DEF StartIteration, ExecuteRebuild, EndReceive
<1>2. /\ plan'.reqs = <<>> /\ plan'.chunks = <<>> /\ plan'.fresh = {} /\ plan'.dev = <<>>
      /\ plan'.budget \in Nat
  BY <1>1 DEF EmptyPlan, SchedulerAssumption
<1>3. /\ plan.reqs = <<>> /\ plan.fresh = {} /\ ToSet(plan.reqs) = {} /\ ToSet(plan'.reqs) = {}
      /\ draining = NoBatch /\ ToSet(draining.reqs) = {}
  BY <1>0, <1>1, <1>2 DEF Planned, Drains, NoBatch, ToSet
<1>4. /\ pool' \subseteq Pages
      /\ freeSlots' \in Seq(0..(TableSlots - 1))
      /\ UNCHANGED <<ids, hit, cached>>
  <2>1. CASE StartIteration
    BY <1>0, <2>1 DEF StartIteration, kvVars, Types
  <2>2. CASE ExecuteRebuild
    <3>1. CASE KV!Reset /\ freeSlots' = [i \in 1..TableSlots |-> i - 1]
      <4>1. [i \in 1..TableSlots |-> i - 1] \in Seq(0..(TableSlots - 1))
        BY DEF SchedulerAssumption
      <4> QED BY <3>1, <4>1 DEF KV!Reset
    <3>2. CASE UNCHANGED <<kvVars, freeSlots>>
      BY <1>0, <3>2 DEF kvVars, Types
    <3> QED BY <2>2, <3>1, <3>2 DEF ExecuteRebuild
  <2> QED BY <2>1, <2>2
<1>5. Held' = Held
  BY <1>1 DEF Held
<1>6. \A r \in Reqs : /\ Accepted(r)' <=> Accepted(r)
                      /\ PromptLen(r)' = PromptLen(r) /\ MaxDeviceLen(r)' = MaxDeviceLen(r)
                      /\ DeviceLen(r)' = DeviceLen(r)
  BY <1>1, <1>4 DEF Accepted, PromptLen, MaxDeviceLen, DeviceLen
<1>7. Held \subseteq Reqs /\ loop # "drain" /\ loop' # "drain"
  BY <1>1 DEF Held
<1>11. Types'
  BY <1>0, <1>1, <1>4 DEF Types, Batches
<1>12. Unasked'
  BY <1>0, <1>1, <1>5 DEF Unasked
<1>13. Waiting'
  BY <1>0, <1>1, <1>2, <1>3, <1>4, <1>5, <1>6, Uids DEF Waiting, Finals
<1>14. Computing'
  BY <1>0, <1>1, <1>2, <1>3, <1>4, <1>5, <1>6, <1>7 DEF Computing
<1>15. Decoding'
  BY <1>0, <1>1, <1>4, <1>5, <1>6, Uids DEF Decoding
<1>16. Planned'
  <2>1. Len(pending) \in Nat /\ SubSeq(pending, 1, 0) = <<>> /\ Len(<<>>) = 0
    BY <1>0 DEF Types
  <2>2. <<>> \in Seq(Reqs) /\ IsInjective(<<>>) /\ ToSet(<<>>) = {} /\ DOMAIN <<>> = {}
    BY DEF IsInjective, ToSet
  <2>3. plan'.reqs \in Seq(Reqs) /\ Len(plan'.reqs) = 0 /\ DOMAIN plan'.dev = ToSet(plan'.reqs)
    BY <1>2, <1>3, <2>1, <2>2
  <2>4. plan'.chunks \in Seq(Reqs) /\ IsInjective(plan'.chunks) /\ ToSet(plan'.chunks) = {}
    BY <1>2, <2>2
  <2>5. plan'.reqs = SubSeq(pending', 1, Len(plan'.reqs)) /\ Len(plan'.reqs) <= Len(pending')
    BY <1>1, <1>2, <2>1, <2>3
  <2> QED BY <1>1, <1>2, <1>3, <2>3, <2>4, <2>5 DEF Planned
<1>17. Launched'
  BY <1>0, <1>1, <1>4, <1>5, <1>6, <1>7, Uids DEF Launched
<1>18. Drains'
  BY <1>0, <1>1, <1>3, <1>7 DEF Drains
<1>19. AbortedInFlight'
  BY <1>0, <1>1, <1>5, <1>7 DEF AbortedInFlight
<1>20. Reached'
  BY <1>0, <1>1, <1>3, <1>5, <1>6, <1>7 DEF Reached
<1> QED BY <1>11, <1>12, <1>13, <1>14, <1>15, <1>16, <1>17, <1>18, <1>19, <1>20 DEF LoopInv

\* The batch is full, or the next request does not fit.
LEMMA ToLaunchKeeps ==
  ASSUME LoopInv, StopAdmitting \/ RefuseNew
  PROVE  LoopInv'
<1>1. /\ loop = "admit" /\ loop' = "launch"
      /\ UNCHANGED <<pool, ids, hit, cached, slotVars, request, plan, last, draining, pending,
                     chunked, running, aborted, finished, newFinished>>
  BY DEF StopAdmitting, RefuseNew, kvVars, msgVars
<1> QED
  BY <1>1 DEF slotVars, LoopInv, Types, Unasked, Waiting, Computing, Decoding,
     Planned, Launched, Drains, AbortedInFlight, Reached, Held, Accepted, PromptLen, MaxDeviceLen,
     DeviceLen, Finals

\* The next request to add is the first one of the pending list not added yet.
LEMMA NextUpFacts ==
  ASSUME Types, Planned, HasNext
  PROVE  /\ NextUp \in ToSet(pending) /\ NextUp \in Reqs /\ NextUp \notin ToSet(plan.reqs)
         /\ Len(plan.reqs) + 1 <= Len(pending)
         /\ Append(plan.reqs, NextUp) = SubSeq(pending, 1, Len(plan.reqs) + 1)
         /\ plan.budget > 0
<1> DEFINE n == Len(plan.reqs)
<1>1. /\ pending \in Seq(Reqs) /\ Len(pending) \in Nat /\ n \in Nat /\ n < Len(pending)
      /\ plan.reqs \in Seq(Reqs) /\ plan.reqs = SubSeq(pending, 1, n) /\ plan.budget > 0
      /\ IsInjective(pending)
  <2>1. pending \in Seq(Reqs) /\ IsInjective(pending)
    BY DEF Types
  <2>2. plan.reqs \in Seq(Reqs) /\ plan.reqs = SubSeq(pending, 1, n)
    BY DEF Planned
  <2>3. Len(plan.reqs) < Len(pending) /\ plan.budget > 0
    BY DEF HasNext
  <2> QED BY <2>1, <2>2, <2>3
<1>2. \A i \in 1..n : plan.reqs[i] = pending[i]
  <2> HIDE DEF n
  <2> QED BY <1>1
<1>3. NextUp = pending[n + 1] /\ n + 1 \in 1..Len(pending)
  BY <1>1 DEF NextUp
<1>4. NextUp \in ToSet(pending) /\ NextUp \in Reqs
  BY <1>1, <1>3 DEF ToSet
<1>5. NextUp \notin ToSet(plan.reqs)
  <2> SUFFICES ASSUME NEW i \in 1..n, plan.reqs[i] = NextUp PROVE FALSE
    BY <1>1 DEF ToSet
  <2>1. pending[i] = pending[n + 1] /\ i \in 1..Len(pending) /\ i # n + 1
    BY <1>1, <1>2, <1>3
  <2>2. DOMAIN pending = 1..Len(pending)
    BY <1>1
  <2> HIDE DEF n
  <2> QED BY <1>1, <1>3, <2>1, <2>2 DEF IsInjective
<1>6. Append(plan.reqs, NextUp) = SubSeq(pending, 1, n + 1)
  <2> DEFINE a == Append(plan.reqs, NextUp)
             b == SubSeq(pending, 1, n + 1)
  <2>1. a \in Seq(Reqs) /\ Len(a) = n + 1 /\ \A i \in 1..n : a[i] = plan.reqs[i]
    BY <1>1, <1>4
  <2>2. a[n + 1] = NextUp
    BY <1>1
  <2>3. /\ b \in Seq(Reqs) /\ Len(b) = n + 1
        /\ \A i \in 1..(n + 1) : b[i] = pending[i]
    <3> HIDE DEF n
    <3> QED BY <1>1
  <2> HIDE DEF a, b, n
  <2>4. \A i \in 1..(n + 1) : a[i] = b[i]
    BY <1>1, <1>2, <1>3, <2>1, <2>2, <2>3
  <2>5. a = b
    BY <1>1, <2>1, <2>3, <2>4, SeqEqual
  <2> QED BY <2>5 DEF a, b
<1> QED BY <1>1, <1>4, <1>5, <1>6

\* _add_one_req, for a chunked request as for a new one.
LEMMA PlanGrows ==
  ASSUME Types, Planned, HasNext, loop = "admit", loop' = loop,
         pending' = pending, request' = request,
         NEW u, u = NextUp, NEW from \in Nat, NEW fresh, fresh \subseteq {u},
         AddToPlan(u, from, fresh), PromptLen(u) \in Nat, from < PromptLen(u),
         cached' \in [Reqs -> Nat], cached'[u] = from, u \in Held', Held \subseteq Held',
         \A r \in Reqs : r # u => cached'[r] = cached[r]
  PROVE  /\ Planned'
         /\ ToSet(plan'.reqs) = ToSet(plan.reqs) \cup {u}
         /\ plan'.fresh = plan.fresh \cup fresh
<1>1. /\ u \in Reqs /\ u \in ToSet(pending) /\ u \notin ToSet(plan.reqs)
      /\ Len(plan.reqs) + 1 <= Len(pending)
      /\ Append(plan.reqs, u) = SubSeq(pending, 1, Len(plan.reqs) + 1)
      /\ plan.budget > 0 /\ plan.budget \in Nat
  BY NextUpFacts DEF Planned
<1>2. /\ plan'.reqs = Append(plan.reqs, u) /\ plan'.fresh = plan.fresh \cup fresh
      /\ plan'.budget \in Nat
      /\ DOMAIN plan'.dev = DOMAIN plan.dev \cup {u}
      /\ \A r \in DOMAIN plan.dev : r # u => plan'.dev[r] = plan.dev[r]
      /\ plan'.dev[u] \in Nat /\ from < plan'.dev[u] /\ plan'.dev[u] <= PromptLen(u)
      /\ plan'.chunks = IF plan'.dev[u] < PromptLen(u) THEN Append(plan.chunks, u)
                                                       ELSE plan.chunks
  BY <1>1, AddToPlanFacts
<1>3. /\ plan.reqs \in Seq(Reqs) /\ Len(plan.reqs) \in Nat
      /\ plan'.reqs \in Seq(Reqs) /\ Len(plan'.reqs) = Len(plan.reqs) + 1
      /\ ToSet(plan'.reqs) = ToSet(plan.reqs) \cup {u}
  <2> DEFINE s == plan.reqs
             t == Append(s, u)
  <2>1. s \in Seq(Reqs)
    BY DEF Planned
  <2>2. /\ t \in Seq(Reqs) /\ Len(s) \in Nat /\ Len(t) = Len(s) + 1
        /\ \A i \in 1..Len(s) : t[i] = s[i] /\ s[i] \in ToSet(s)
        /\ t[Len(s) + 1] = u /\ DOMAIN t = 1..Len(t) /\ DOMAIN s = 1..Len(s)
    <3> HIDE DEF s
    <3> QED BY <1>1, <2>1 DEF ToSet
  <2>3. plan'.reqs = t
    BY <1>2
  <2> HIDE DEF s, t
  <2>4. ToSet(t) = ToSet(s) \cup {u}
    <3>1. \A i \in DOMAIN t : t[i] \in ToSet(s) \cup {u}
      <4> SUFFICES ASSUME NEW i \in 1..(Len(s) + 1) PROVE t[i] \in ToSet(s) \cup {u}
        BY <2>2
      <4> QED BY <2>2
    <3>2. \A i \in DOMAIN s : i \in DOMAIN t /\ t[i] = s[i]
      BY <2>2
    <3>3. Len(s) + 1 \in DOMAIN t
      BY <2>2
    <3> QED BY <2>2, <3>1, <3>2, <3>3 DEF ToSet
  <2> QED BY <2>1, <2>2, <2>3, <2>4 DEF s
<1>4. PromptLen(u)' = PromptLen(u) /\ \A r : PromptLen(r)' = PromptLen(r)
  BY DEF PromptLen
<1>5. /\ plan.chunks \in Seq(Reqs) /\ IsInjective(plan.chunks)
      /\ ToSet(plan.chunks) = {r \in ToSet(plan.reqs) : plan.dev[r] < PromptLen(r)}
      /\ DOMAIN plan.dev = ToSet(plan.reqs) /\ plan.fresh \subseteq ToSet(plan.reqs)
  BY DEF Planned
<1>6. u \notin ToSet(plan.chunks)
  BY <1>1, <1>5
<1>7. /\ plan'.chunks \in Seq(Reqs) /\ IsInjective(plan'.chunks)
      /\ ToSet(plan'.chunks) = IF plan'.dev[u] < PromptLen(u) THEN ToSet(plan.chunks) \cup {u}
                                                              ELSE ToSet(plan.chunks)
  <2>1. /\ Append(plan.chunks, u) \in Seq(Reqs) /\ IsInjective(Append(plan.chunks, u))
        /\ ToSet(Append(plan.chunks, u)) = ToSet(plan.chunks) \cup {u}
    BY <1>1, <1>5, <1>6, AppendFacts
  <2>2. CASE plan'.dev[u] < PromptLen(u)
    BY <1>2, <2>1, <2>2
  <2>3. CASE ~(plan'.dev[u] < PromptLen(u))
    BY <1>2, <1>5, <2>3
  <2> QED BY <2>2, <2>3
<1>8. ToSet(plan'.chunks) = {r \in ToSet(plan'.reqs) : plan'.dev[r] < PromptLen(r)}
  <2>1. \A r \in ToSet(plan.reqs) : plan'.dev[r] = plan.dev[r]
    BY <1>1, <1>2, <1>5
  <2>2. ToSet(plan'.reqs) = ToSet(plan.reqs) \cup {u}
    BY <1>3
  <2> QED BY <1>5, <1>7, <2>1, <2>2
<1>9. \A r \in ToSet(plan'.reqs) : /\ r \in Held' /\ plan'.dev[r] \in Nat
                                   /\ cached'[r] < plan'.dev[r] /\ plan'.dev[r] <= PromptLen(r)
  <2> SUFFICES ASSUME NEW r \in ToSet(plan'.reqs)
               PROVE  /\ r \in Held' /\ plan'.dev[r] \in Nat
                      /\ cached'[r] < plan'.dev[r] /\ plan'.dev[r] <= PromptLen(r)
    OBVIOUS
  <2>1. CASE r = u
    BY <1>2, <2>1
  <2>2. CASE r # u
    <3>1. r \in ToSet(plan.reqs)
      BY <1>3, <2>2
    <3>2. r \in Held /\ r \in Reqs /\ cached'[r] = cached[r] /\ plan'.dev[r] = plan.dev[r]
      BY <1>2, <1>5, <2>2, <3>1 DEF Planned, Held
    <3> QED BY <3>1, <3>2 DEF Planned
  <2> QED BY <2>1, <2>2
<1>10. Planned'
  BY <1>1, <1>2, <1>3, <1>4, <1>5, <1>7, <1>8, <1>9 DEF Planned
<1> QED BY <1>2, <1>3, <1>10

\* A chunked prompt goes on.
LEMMA ContinueChunkKeeps ==
  ASSUME SchedulerAssumption, LoopInv, ContinueChunk
  PROVE  LoopInv'
<1>0. Types /\ Unasked /\ Waiting /\ Computing /\ Decoding /\ Planned /\ Launched /\ Drains
      /\ AbortedInFlight /\ Reached
  BY DEF LoopInv
<1> DEFINE u == NextUp
<1>1. /\ loop = "admit" /\ HasNext /\ u \in chunked /\ AddToPlan(u, cached[u], {})
      /\ UNCHANGED <<pool, ids, hit, cached, slot, freeSlots, request, loop, last, draining, pending,
                     chunked, running, aborted, finished, newFinished>>
  BY DEF ContinueChunk, AddToPlan, kvVars, slotVars, msgVars
<1> HIDE DEF u
<1>2. u = NextUp /\ u \in ToSet(pending) /\ u \in Reqs
  BY <1>0, <1>1, NextUpFacts DEF u
<1>3. u \in Held /\ cached[u] \in Nat /\ PromptLen(u) \in Nat /\ cached[u] < PromptLen(u)
  <2>1. u \in Held /\ cached[u] < PromptLen(u) /\ cached[u] \in Nat
    BY <1>0, <1>1, <1>2 DEF Waiting, Types
  <2>2. request[u].prompt \in Seq(Tokens)
    BY <1>0, <1>2 DEF Types
  <2> QED BY <2>1, <2>2 DEF PromptLen
<1>4. Held' = Held
  BY <1>1 DEF Held
<1>5. /\ Planned' /\ ToSet(plan'.reqs) = ToSet(plan.reqs) \cup {u} /\ plan'.fresh = plan.fresh
  <2>1. cached' \in [Reqs -> Nat]
    BY <1>0, <1>1 DEF Types
  <2>2. \A r \in Reqs : r # u => cached'[r] = cached[r]
    BY <1>1
  <2>3. /\ Planned' /\ ToSet(plan'.reqs) = ToSet(plan.reqs) \cup {u}
        /\ plan'.fresh = plan.fresh \cup {}
    <3>1. /\ cached'[u] = cached[u] /\ u \in Held' /\ Held \subseteq Held' /\ {} \subseteq {u}
          /\ loop' = loop /\ pending' = pending /\ request' = request
      BY <1>1, <1>3, <1>4
    <3> DEFINE none == {}
    <3>2. none \subseteq {u} /\ AddToPlan(u, cached[u], none)
      BY <1>1
    <3> HIDE DEF none
    <3>3. plan'.fresh = plan.fresh \cup none /\ Planned' /\ ToSet(plan'.reqs) = ToSet(plan.reqs) \cup {u}
      BY <1>0, <1>1, <1>2, <1>3, <2>1, <2>2, <3>1, <3>2, PlanGrows
    <3> QED BY <3>3 DEF none
  <2> QED BY <2>3
<1> QED
  BY <1>0, <1>1, <1>4, <1>5 DEF LoopInv, Types, Unasked, Waiting, Computing, Decoding,
     Launched, Drains, AbortedInFlight, Reached, Accepted, PromptLen, MaxDeviceLen,
     DeviceLen, Finals

\* A new request gets a slot and the prefix the cache holds (_try_allocate_one).
LEMMA AdmitNewKeeps ==
  ASSUME SchedulerAssumption, LoopInv, AdmitNew
  PROVE  LoopInv'
<1>0. Types /\ Unasked /\ Waiting /\ Computing /\ Decoding /\ Planned /\ Launched /\ Drains
      /\ AbortedInFlight /\ Reached
  BY DEF LoopInv
<1> DEFINE u == NextUp
<1>1. /\ loop = "admit" /\ HasNext /\ u \notin chunked /\ AddToPlan(u, Match(u) * PageSize, {u})
      /\ UNCHANGED <<request, loop, last, draining, pending,
                     chunked, running, aborted, finished, newFinished>>
  BY DEF AdmitNew, AddToPlan, msgVars
<1> HIDE DEF u
<1>2. u = NextUp /\ u \in ToSet(pending) /\ u \in Reqs /\ u \notin ToSet(plan.reqs)
  BY <1>0, <1>1, NextUpFacts DEF u
<1>3. /\ u \notin running \cup aborted \cup finished \cup newFinished
                  \cup Finals(last) \cup Finals(draining)
      /\ Accepted(u) /\ u \notin plan.fresh /\ u \notin Held
  BY <1>0, <1>1, <1>2 DEF Waiting, Planned
<1>4. request[u].prompt # <<>> /\ PromptLen(u) \in Nat
  BY <1>0, <1>2, <1>3 DEF Accepted, PromptLen, Types
<1>5. /\ slot' \in [Reqs -> {NoSlot} \cup 0..(TableSlots - 1)] /\ Held' = Held \cup {u}
      /\ ids' = [ids EXCEPT ![u] = request[u].prompt]
      /\ cached' \in [Reqs -> Nat] /\ hit' \in [Reqs -> Nat]
      /\ \A r \in Reqs : r # u => hit'[r] = hit[r] /\ cached'[r] = cached[r]
      /\ cached'[u] = Match(u) * PageSize /\ cached'[u] < PromptLen(u)
      /\ pool' = pool
      /\ freeSlots' \in Seq(0..(TableSlots - 1))
  <2>1. /\ slot' = [slot EXCEPT ![u] = Last(freeSlots)] /\ Last(freeSlots) \in 0..(TableSlots - 1)
    BY <1>0, <1>2, <1>4, AdmitFacts
  <2>2. slot' \in [Reqs -> {NoSlot} \cup 0..(TableSlots - 1)]
    BY <1>0, <2>1 DEF Types
  <2> QED BY <1>0, <1>2, <1>4, <2>2, AdmitFacts
<1>5a. hit'[u] * PageSize = cached'[u]
  BY <1>0, <1>2, <1>4, AdmitFacts
<1>6. Match(u) * PageSize \in Nat
  BY <1>2, <1>5
<1>7. /\ Planned' /\ ToSet(plan'.reqs) = ToSet(plan.reqs) \cup {u}
      /\ plan'.fresh = plan.fresh \cup {u}
  BY <1>0, <1>1, <1>2, <1>4, <1>5, <1>6, PlanGrows
<1>8. /\ ids' \in [Reqs -> Seq(Tokens)] /\ ids'[u] = request[u].prompt
      /\ \A r \in Reqs : r # u => ids'[r] = ids[r]
  BY <1>0, <1>2, <1>5 DEF Types
<1>9. \A r \in Reqs : /\ Accepted(r)' <=> Accepted(r)
                      /\ PromptLen(r)' = PromptLen(r) /\ MaxDeviceLen(r)' = MaxDeviceLen(r)
                      /\ r # u => DeviceLen(r)' = DeviceLen(r)
  BY <1>1, <1>8 DEF Accepted, PromptLen, MaxDeviceLen, DeviceLen
<1>10. Held \subseteq Reqs
  BY DEF Held
<1>11. Types'
  BY <1>0, <1>1, <1>5, <1>8 DEF Types, Batches
<1>12. Unasked'
  <2>1. request[u] # NoRequest
    BY <1>4 DEF NoRequest
  <2> QED BY <1>0, <1>1, <1>5, <2>1 DEF Unasked
<1>13. Waiting'
  <2> SUFFICES ASSUME NEW r \in ToSet(pending)
               PROVE  /\ Accepted(r)
                      /\ r \notin running \cup aborted \cup finished \cup newFinished
                                  \cup Finals(last) \cup Finals(draining)
                      /\ r \in chunked => r \in Held' /\ cached'[r] < PromptLen(r)
                      /\ r \notin chunked \cup plan'.fresh => r \notin Held'
    BY <1>0, <1>1, <1>9, Uids DEF Waiting, Finals
  <2>1. r \in Reqs
    BY <1>0, Uids
  <2> QED BY <1>0, <1>1, <1>5, <1>7, <2>1 DEF Waiting
<1>14. Computing'
  <2> SUFFICES ASSUME NEW r \in Held'
               PROVE  /\ Accepted(r)
                      /\ r \notin finished \cup newFinished
                      /\ \/ cached'[r] < PromptLen(r) /\ ids'[r] = request[r].prompt
                         \/ /\ cached'[r] >= PromptLen(r)
                            /\ DeviceLen(r)' = cached'[r] + 1 /\ DeviceLen(r)' <= MaxDeviceLen(r)
                      /\ cached'[r] < PromptLen(r) =>
                           /\ hit'[r] * PageSize <= cached'[r]
                           /\ hit'[r] * PageSize = cached'[r] => r \in plan'.fresh
    <3>1. Held' \subseteq Reqs
      BY <1>2, <1>5, <1>10
    <3>2. ASSUME NEW r \in Held'
          PROVE  /\ r \in Reqs /\ (Accepted(r)' <=> Accepted(r)) /\ PromptLen(r)' = PromptLen(r)
                 /\ MaxDeviceLen(r)' = MaxDeviceLen(r) /\ request'[r].prompt = request[r].prompt
      BY <1>1, <1>9, <3>1
    <3>3. finished' = finished /\ newFinished' = newFinished
      BY <1>1
    <3> QED BY <3>2, <3>3, ZenonT(30) DEF Computing
  <2>1. CASE r = u
    <3>1. hit'[u] * PageSize = cached'[u] /\ cached'[u] \in Nat /\ u \in plan'.fresh
      BY <1>2, <1>5, <1>5a, <1>7
    <3> QED BY <1>3, <1>5, <1>8, <2>1, <3>1
  <2>2. CASE r # u
    <3>1. r \in Held /\ r \in Reqs /\ r \notin plan'.fresh => r \notin plan.fresh
      BY <1>5, <1>7, <1>10, <2>2
    <3>2. cached'[r] = cached[r] /\ hit'[r] = hit[r] /\ ids'[r] = ids[r] /\ DeviceLen(r)' = DeviceLen(r)
      BY <1>5, <1>8, <1>9, <1>10, <2>2
    <3> QED BY <1>0, <1>5, <1>7, <2>2, <3>1, <3>2 DEF Computing
  <2> QED BY <2>1, <2>2
<1>15. Decoding'
  BY <1>0, <1>1, <1>3, <1>5, <1>9, Uids DEF Decoding
<1>17. Launched'
  <2> SUFFICES ASSUME NEW r \in ToSet(last.reqs)
               PROVE  /\ r \in Held' \/ r \in finished
                      /\ r \in Held' /\ r \in last.chunks => r \in aborted \cup chunked
                      /\ r \in Held' /\ r \notin last.chunks /\ last.phase = "prefill" =>
                           cached'[r] = PromptLen(r)'
    BY <1>0, <1>1 DEF Launched
  <2>1. r \in Reqs /\ PromptLen(r)' = PromptLen(r)
    BY <1>0, <1>9, Uids
  <2>2. CASE r = u
    <3>1. r \in finished \/ r \in Held
      BY <1>0, <1>1 DEF Launched
    <3> QED BY <1>3, <2>2, <3>1
  <2>3. CASE r # u
    <3>1. (r \in Held' <=> r \in Held) /\ cached'[r] = cached[r]
      BY <1>5, <2>1, <2>3
    <3> QED BY <1>0, <1>1, <2>1, <3>1 DEF Launched
  <2> QED BY <2>2, <2>3
<1>18. Drains'
  BY <1>0, <1>1 DEF Drains, NoBatch, ToSet
<1>19. AbortedInFlight'
  BY <1>0, <1>1, <1>3, <1>5 DEF AbortedInFlight
<1>20. Reached'
  BY <1>0, <1>1, <1>5, <1>7, <1>9, <1>10 DEF Reached
<1> QED BY <1>7, <1>11, <1>12, <1>13, <1>14, <1>15, <1>17, <1>18, <1>19, <1>20 DEF LoopInv

-----------------------------------------------------------------------------
(* Launching a batch. *)

\* Two lists with nothing in common, one after the other.
LEMMA ConcatFacts ==
  ASSUME NEW S, NEW s \in Seq(S), NEW t \in Seq(S), IsInjective(s), IsInjective(t),
         ToSet(s) \cap ToSet(t) = {}
  PROVE  s \o t \in Seq(S) /\ IsInjective(s \o t) /\ ToSet(s \o t) = ToSet(s) \cup ToSet(t)
<1> DEFINE c == s \o t
<1>1. /\ c \in Seq(S) /\ Len(s) \in Nat /\ Len(t) \in Nat /\ Len(c) = Len(s) + Len(t)
      /\ DOMAIN c = 1..Len(c) /\ DOMAIN s = 1..Len(s) /\ DOMAIN t = 1..Len(t)
      /\ \A i \in 1..Len(s) : c[i] = s[i] /\ s[i] \in ToSet(s)
      /\ \A i \in 1..Len(t) : t[i] \in ToSet(t)
  BY DEF ToSet
<1>2. \A i \in 1..Len(c) : i > Len(s) => c[i] = t[i - Len(s)] /\ i - Len(s) \in 1..Len(t)
  <2> SUFFICES ASSUME NEW i \in 1..Len(c), i > Len(s)
               PROVE  c[i] = t[i - Len(s)] /\ i - Len(s) \in 1..Len(t)
    OBVIOUS
  <2>1. i - Len(s) \in 1..Len(t)
    BY <1>1
  <2>2. i \in 1..(Len(s) + Len(t)) /\ ~(i <= Len(s))
    BY <1>1
  <2>3. c[i] = t[i - Len(s)]
    BY <2>2
  <2> QED BY <2>1, <2>3
<1> HIDE DEF c
<1>3. \A i \in 1..Len(t) : c[Len(s) + i] = t[i] /\ Len(s) + i \in 1..Len(c)
  <2> SUFFICES ASSUME NEW i \in 1..Len(t)
               PROVE  c[Len(s) + i] = t[i] /\ Len(s) + i \in 1..Len(c)
    OBVIOUS
  <2>1. Len(s) + i \in 1..Len(c) /\ Len(s) + i > Len(s) /\ (Len(s) + i) - Len(s) = i
    BY <1>1
  <2> QED BY <1>2, <2>1
<1>4. IsInjective(c)
  <2> SUFFICES ASSUME NEW i \in 1..Len(c), NEW j \in 1..Len(c), c[i] = c[j] PROVE i = j
    BY <1>1 DEF IsInjective
  <2>1. CASE i <= Len(s) /\ j <= Len(s)
    BY <1>1, <2>1 DEF IsInjective
  <2>2. CASE i > Len(s) /\ j > Len(s)
    <3>1. i - Len(s) = j - Len(s)
      <4>1. \A k, l \in 1..Len(t) : t[k] = t[l] => k = l
        BY <1>1 DEF IsInjective
      <4>2. t[i - Len(s)] = t[j - Len(s)]
        BY <1>2, <2>2
      <4> QED BY <1>2, <2>2, <4>1, <4>2
    <3> QED BY <1>1, <3>1
  <2>3. CASE i <= Len(s) /\ j > Len(s)
    BY <1>1, <1>2, <2>3
  <2>4. CASE i > Len(s) /\ j <= Len(s)
    BY <1>1, <1>2, <2>4
  <2> QED BY <1>1, <2>1, <2>2, <2>3, <2>4
<1>5. ToSet(c) = ToSet(s) \cup ToSet(t)
  <2>1. \A i \in DOMAIN c : c[i] \in ToSet(s) \cup ToSet(t)
    BY <1>1, <1>2
  <2>2. \A i \in DOMAIN s : i \in DOMAIN c /\ c[i] = s[i]
    BY <1>1
  <2>3. \A i \in DOMAIN t : Len(s) + i \in DOMAIN c /\ c[Len(s) + i] = t[i]
    BY <1>1, <1>3
  <2> QED BY <2>1, <2>2, <2>3 DEF ToSet
<1> QED BY <1>1, <1>4, <1>5 DEF c

\* A list without its first n entries.
LEMMA RestFacts ==
  ASSUME NEW S, NEW s \in Seq(S), IsInjective(s), NEW n \in 0..Len(s)
  PROVE  LET t == SubSeq(s, n + 1, Len(s))
         IN t \in Seq(S) /\ IsInjective(t) /\ ToSet(t) = ToSet(s) \ ToSet(SubSeq(s, 1, n))
<1> DEFINE t == SubSeq(s, n + 1, Len(s))
           h == SubSeq(s, 1, n)
           l == Len(s)
<1>1. l \in Nat /\ n \in Nat /\ n <= l /\ DOMAIN s = 1..l
  OBVIOUS
<1>2. /\ t \in Seq(S) /\ Len(t) = l - n /\ DOMAIN t = 1..(l - n)
      /\ \A i \in 1..(l - n) : t[i] = s[n + i] /\ n + i \in 1..l
  OBVIOUS
<1>3. h \in Seq(S) /\ Len(h) = n /\ DOMAIN h = 1..n /\ \A i \in 1..n : h[i] = s[i] /\ i \in 1..l
  OBVIOUS
<1> HIDE DEF t, h, l
<1>4. \A i, j \in 1..l : s[i] = s[j] => i = j
  BY <1>1 DEF IsInjective
<1>5. IsInjective(t)
  <2> SUFFICES ASSUME NEW i \in 1..(l - n), NEW j \in 1..(l - n), t[i] = t[j] PROVE i = j
    BY <1>2 DEF IsInjective
  <2>1. n + i = n + j
    BY <1>2, <1>4
  <2> QED BY <1>1, <2>1
<1>6. ToSet(t) = ToSet(s) \ ToSet(h)
  <2>1. ASSUME NEW i \in 1..(l - n) PROVE t[i] \in ToSet(s) /\ t[i] \notin ToSet(h)
    <3>1. t[i] = s[n + i] /\ n + i \in 1..l
      BY <1>2
    <3>2. ASSUME NEW j \in 1..n, h[j] = t[i] PROVE FALSE
      <4>1. s[j] = s[n + i] /\ j \in 1..l
        BY <1>3, <3>1, <3>2
      <4>2. j = n + i
        BY <1>4, <3>1, <4>1
      <4> QED BY <1>1, <4>2
    <3> QED BY <1>1, <1>3, <3>1, <3>2 DEF ToSet
  <2>2. ASSUME NEW k \in 1..l, s[k] \notin ToSet(h) PROVE s[k] \in ToSet(t)
    <3>1. ~(k <= n)
      BY <1>1, <1>3, <2>2 DEF ToSet
    <3>2. k - n \in 1..(l - n) /\ n + (k - n) = k
      BY <1>1, <3>1
    <3>3. t[k - n] = s[k]
      BY <1>2, <3>2
    <3> QED BY <1>2, <3>2, <3>3 DEF ToSet
  <2> QED BY <1>1, <1>2, <2>1, <2>2 DEF ToSet
<1> QED BY <1>2, <1>5, <1>6 DEF t, h, l

\* The uids that wait after a prefill batch left: its chunks, and those behind it.
LEMMA RequeueFacts ==
  ASSUME Types, Planned
  PROVE  /\ Requeue \in Seq(Reqs) /\ IsInjective(Requeue)
         /\ ToSet(Requeue) = (ToSet(pending) \ ToSet(plan.reqs)) \cup ToSet(plan.chunks)
<1> DEFINE n == Len(plan.reqs)
           t == SubSeq(pending, n + 1, Len(pending))
<1>1. pending \in Seq(Reqs) /\ IsInjective(pending)
  BY DEF Types
<1>2. n \in 0..Len(pending) /\ plan.reqs = SubSeq(pending, 1, n)
  <2>1. plan.reqs \in Seq(Reqs) /\ n <= Len(pending) /\ plan.reqs = SubSeq(pending, 1, n)
    BY DEF Planned
  <2> QED BY <1>1, <2>1
<1>3. t \in Seq(Reqs) /\ IsInjective(t) /\ ToSet(t) = ToSet(pending) \ ToSet(plan.reqs)
  <2> HIDE DEF n
  <2> QED BY <1>1, <1>2, RestFacts
<1>4. /\ plan.chunks \in Seq(Reqs) /\ IsInjective(plan.chunks)
      /\ ToSet(plan.chunks) \subseteq ToSet(plan.reqs)
  BY DEF Planned
<1>5. Requeue = plan.chunks \o t
  BY DEF Requeue
<1> HIDE DEF t
<1> QED BY <1>3, <1>4, <1>5, ConcatFacts

\* With no request in it yet, the batch being filled asks nothing.
LEMMA EmptyPlanned ==
  ASSUME pending' \in Seq(Reqs), plan' = EmptyPlan
  PROVE  Planned'
<1>1. /\ plan'.reqs = <<>> /\ plan'.chunks = <<>> /\ plan'.fresh = {} /\ plan'.dev = <<>>
      /\ plan'.budget = 0
  BY DEF EmptyPlan
<1>2. Len(pending') \in Nat /\ SubSeq(pending', 1, 0) = <<>> /\ Len(<<>>) = 0
  OBVIOUS
<1>3. <<>> \in Seq(Reqs) /\ IsInjective(<<>>) /\ ToSet(<<>>) = {} /\ DOMAIN <<>> = {}
  BY DEF IsInjective, ToSet
<1> QED BY <1>1, <1>2, <1>3 DEF Planned

\* The batch that is launched next: the prompts added, or what is running.
LEMMA BatchFacts ==
  ASSUME SchedulerAssumption, LoopInv, loop = "launch", NEW b, b = NextBatch, b # NoBatch
  PROVE  /\ b \in Batches /\ IsInjective(b.reqs) /\ b.phase # "none"
         /\ ToSet(b.reqs) \subseteq Held /\ b.chunks \subseteq ToSet(b.reqs)
         /\ b.phase = "prefill" => /\ b.reqs = plan.reqs /\ b.chunks = ToSet(plan.chunks)
                                   /\ ToSet(b.reqs) \subseteq ToSet(pending)
         /\ b.phase # "prefill" => /\ ToSet(b.reqs) = running /\ b.chunks = {}
                                   /\ plan.reqs = <<>>
         /\ DOMAIN Dev(b) = ToSet(b.reqs)
         /\ \A r \in ToSet(b.reqs) :
              /\ r \notin aborted
              /\ Dev(b)[r] \in Nat /\ cached[r] < Dev(b)[r]
              /\ r \in b.chunks => Dev(b)[r] < PromptLen(r) /\ DeviceLen(r) = PromptLen(r)
              /\ r \notin b.chunks =>
                   /\ Dev(b)[r] = DeviceLen(r)
                   /\ PromptLen(r) <= DeviceLen(r) /\ DeviceLen(r) < MaxDeviceLen(r)
                   /\ b.phase = "prefill" => DeviceLen(r) = PromptLen(r)
<1>0. Types /\ Waiting /\ Computing /\ Decoding /\ Planned
  BY DEF LoopInv
<1>1. CASE plan.reqs # <<>>
  <2>1. b = [reqs |-> plan.reqs, phase |-> "prefill", chunks |-> ToSet(plan.chunks)]
    BY <1>1 DEF NextBatch
  <2>2. b.reqs = plan.reqs /\ b.phase = "prefill" /\ b.chunks = ToSet(plan.chunks)
    BY <2>1
  <2>3. /\ plan.reqs \in Seq(Reqs) /\ plan.reqs = SubSeq(pending, 1, Len(plan.reqs))
        /\ Len(plan.reqs) <= Len(pending) /\ DOMAIN plan.dev = ToSet(plan.reqs)
        /\ ToSet(plan.chunks) = {r \in ToSet(plan.reqs) : plan.dev[r] < PromptLen(r)}
        /\ \A r \in ToSet(plan.reqs) : /\ r \in Held /\ plan.dev[r] \in Nat
                                       /\ cached[r] < plan.dev[r] /\ plan.dev[r] <= PromptLen(r)
    BY <1>0 DEF Planned
  <2>4. IsInjective(plan.reqs) /\ ToSet(plan.reqs) \subseteq ToSet(pending)
    <3> DEFINE n == Len(plan.reqs)
               h == SubSeq(pending, 1, n)
    <3>1. pending \in Seq(Reqs) /\ IsInjective(pending) /\ n \in Nat /\ n <= Len(pending)
      BY <1>0, <2>3 DEF Types
    <3> HIDE DEF n
    <3>2. /\ DOMAIN pending = 1..Len(pending) /\ DOMAIN h = 1..n
          /\ \A i \in 1..n : h[i] = pending[i] /\ i \in 1..Len(pending)
      BY <3>1
    <3> HIDE DEF h
    <3>3. IsInjective(h)
      BY <3>1, <3>2 DEF IsInjective
    <3>4. ToSet(h) \subseteq ToSet(pending)
      BY <3>2 DEF ToSet
    <3> QED BY <2>3, <3>3, <3>4 DEF h, n
  <2>5. ToSet(plan.reqs) \subseteq Reqs /\ ToSet(plan.chunks) \subseteq Reqs
    BY <1>0, <2>3, <2>4, Uids
  <2>6. b \in Batches
    BY <2>1, <2>3, <2>5 DEF Batches
  <2>7. Dev(b) = [r \in ToSet(plan.reqs) |-> plan.dev[r]]
    BY <2>2 DEF Dev
  <2>8. ASSUME NEW r \in ToSet(plan.reqs)
        PROVE  /\ r \notin aborted /\ DeviceLen(r) = PromptLen(r) /\ PromptLen(r) \in Nat
               /\ PromptLen(r) < MaxDeviceLen(r)
    <3>1. r \in Held /\ cached[r] < plan.dev[r] /\ plan.dev[r] <= PromptLen(r)
          /\ plan.dev[r] \in Nat /\ r \in Reqs /\ r \in ToSet(pending)
      BY <2>3, <2>4, <2>5
    <3>2. cached[r] \in Nat /\ request[r].prompt \in Seq(Tokens) /\ request[r].output \in Nat
      BY <1>0, <3>1 DEF Types
    <3>3. PromptLen(r) \in Nat /\ request[r].output >= 1 /\ r \notin aborted
      BY <1>0, <3>1, <3>2 DEF PromptLen, Waiting, Accepted
    <3>4. cached[r] < PromptLen(r)
      BY <3>1, <3>2, <3>3
    <3>5. ids[r] = request[r].prompt
      BY <1>0, <3>1, <3>2, <3>3, <3>4 DEF Computing
    <3> QED BY <3>2, <3>3, <3>5 DEF DeviceLen, PromptLen, MaxDeviceLen
  <2>9. ASSUME NEW r \in ToSet(plan.reqs)
        PROVE  /\ r \notin aborted
               /\ Dev(b)[r] \in Nat /\ cached[r] < Dev(b)[r]
               /\ r \in b.chunks => Dev(b)[r] < PromptLen(r) /\ DeviceLen(r) = PromptLen(r)
               /\ r \notin b.chunks =>
                    /\ Dev(b)[r] = DeviceLen(r)
                    /\ PromptLen(r) <= DeviceLen(r) /\ DeviceLen(r) < MaxDeviceLen(r)
                    /\ DeviceLen(r) = PromptLen(r)
    <3>1. Dev(b)[r] = plan.dev[r] /\ plan.dev[r] \in Nat /\ cached[r] < plan.dev[r]
          /\ plan.dev[r] <= PromptLen(r) /\ (r \in b.chunks <=> plan.dev[r] < PromptLen(r))
      BY <2>2, <2>3, <2>7
    <3> QED BY <2>8, <3>1
  <2>10. ToSet(b.reqs) \subseteq Held /\ b.chunks \subseteq ToSet(b.reqs)
    BY <2>2, <2>3
  <2> QED BY <2>2, <2>4, <2>6, <2>7, <2>9, <2>10
<1>2. CASE plan.reqs = <<>>
  <2>1. running # {} /\ b = [reqs |-> InUidOrder(running), phase |-> "decode", chunks |-> {}]
    BY <1>2 DEF NextBatch
  <2>2. b.reqs = InUidOrder(running) /\ b.phase = "decode" /\ b.chunks = {}
    BY <2>1
  <2>3. /\ InUidOrder(running) \in Seq(running) /\ IsInjective(InUidOrder(running))
        /\ ToSet(InUidOrder(running)) = running
    <3>1. running \in SUBSET Reqs /\ running \in SUBSET Nat /\ IsFiniteSet(Reqs)
      BY <1>0 DEF Types, SchedulerAssumption
    <3>2. IsFiniteSet(running)
      BY <3>1, FS_Subset
    <3> QED BY <3>1, <3>2, InUidOrderFacts
  <2>4. b \in Batches
    <3>1. InUidOrder(running) \in Seq(Reqs)
      <4> DEFINE s == InUidOrder(running)
      <4>1. s \in Seq(running) /\ running \subseteq Reqs
        BY <1>0, <2>3, Uids
      <4> HIDE DEF s
      <4>2. s \in Seq(Reqs)
        BY <4>1, SeqMonotonic
      <4> QED BY <4>2 DEF s
    <3> QED BY <2>1, <3>1 DEF Batches
  <2>5. Dev(b) = [r \in running |-> DeviceLen(r)]
    BY <2>2, <2>3 DEF Dev
  <2>6. ASSUME NEW r \in running
        PROVE  /\ r \in Held /\ r \notin aborted
               /\ DeviceLen(r) \in Nat /\ cached[r] < DeviceLen(r)
               /\ PromptLen(r) <= DeviceLen(r) /\ DeviceLen(r) < MaxDeviceLen(r)
    <3>1. /\ r \in Held /\ r \notin aborted /\ cached[r] >= PromptLen(r)
          /\ DeviceLen(r) < MaxDeviceLen(r) /\ r \in Reqs
      BY <1>0, Uids DEF Decoding
    <3>2. cached[r] \in Nat /\ request[r].prompt \in Seq(Tokens)
      BY <1>0, <3>1 DEF Types
    <3>3. PromptLen(r) \in Nat
      BY <3>2 DEF PromptLen
    <3>4. DeviceLen(r) = cached[r] + 1
      <4>1. cached[r] < PromptLen(r) \/ DeviceLen(r) = cached[r] + 1
        BY <1>0, <3>1 DEF Computing
      <4> QED BY <3>1, <3>2, <3>3, <4>1
    <3> QED BY <3>1, <3>2, <3>3, <3>4
  <2>7. running \subseteq Held
    BY <2>6
  <2> QED BY <1>2, <2>2, <2>3, <2>4, <2>5, <2>6, <2>7
<1> QED BY <1>1, <1>2

\* The requests of a batch have computed what it asked for, and those it finished
\* their prompt for, or decoded, are one token ahead.
LEMMA LaunchFacts ==
  ASSUME SchedulerAssumption, LoopInv, Launch, NEW b, b = NextBatch
  PROVE  /\ loop = "launch" /\ loop' = "drain" /\ b # NoBatch /\ plan' = EmptyPlan
         /\ pool' = pool /\ hit' = hit /\ slot' = slot /\ freeSlots' = freeSlots
         /\ request' = request /\ aborted' = aborted /\ finished' = finished
         /\ newFinished' = newFinished
         /\ draining' = IF Overlap THEN last ELSE b
         /\ last' = IF Overlap THEN b ELSE NoBatch
         /\ pending' \in Seq(Reqs) /\ IsInjective(pending')
         /\ ToSet(pending') = (ToSet(pending) \ ToSet(b.reqs)) \cup b.chunks
         /\ chunked' = (chunked \ ToSet(b.reqs)) \cup b.chunks
         /\ running' = {r \in running \cup Finals(b) : MaxDeviceLen(r) > Len(ids'[r])}
         /\ cached' \in [Reqs -> Nat] /\ ids' \in [Reqs -> Seq(Tokens)]
         /\ \A r \in Reqs :
              /\ r \notin ToSet(b.reqs) => cached'[r] = cached[r] /\ ids'[r] = ids[r]
              /\ r \in ToSet(b.reqs) => cached'[r] = Dev(b)[r] /\ cached[r] < cached'[r]
              /\ r \in b.chunks => ids'[r] = ids[r] /\ cached'[r] < PromptLen(r)
              /\ r \in Finals(b) => Len(ids'[r]) = DeviceLen(r) + 1 /\ cached'[r] = DeviceLen(r)
<1>1. /\ loop = "launch" /\ b # NoBatch
      /\ \E tok \in [ToSet(b.reqs) -> Generated] : KV!ExtendTo(Dev(b), tok)
      /\ pending' = IF b.phase = "prefill" THEN Requeue ELSE pending
      /\ chunked' = (chunked \ ToSet(b.reqs)) \cup b.chunks
      /\ running' = {r \in running \cup (ToSet(b.reqs) \ b.chunks) :
                       MaxDeviceLen(r) > Len(ids'[r])}
      /\ HandOver(b)
      /\ UNCHANGED <<slotVars, msgVars, aborted, finished, newFinished>>
  BY DEF Launch
<1>2. /\ slot' = slot /\ freeSlots' = freeSlots /\ request' = request /\ aborted' = aborted
      /\ finished' = finished /\ newFinished' = newFinished
      /\ loop' = "drain" /\ plan' = EmptyPlan
      /\ draining' = IF Overlap THEN last ELSE b
      /\ last' = IF Overlap THEN b ELSE NoBatch
  BY <1>1 DEF HandOver, slotVars, msgVars
<1>3. Types /\ Waiting /\ Planned
  BY DEF LoopInv
<1>4. /\ b \in Batches /\ ToSet(b.reqs) \subseteq Held /\ b.chunks \subseteq ToSet(b.reqs)
      /\ b.phase = "prefill" => b.reqs = plan.reqs /\ b.chunks = ToSet(plan.chunks)
      /\ b.phase # "prefill" => ToSet(b.reqs) = running /\ b.chunks = {}
      /\ DOMAIN Dev(b) = ToSet(b.reqs)
  BY <1>1, BatchFacts
<1>5. \A r \in ToSet(b.reqs) :
        /\ Dev(b)[r] \in Nat /\ cached[r] < Dev(b)[r]
        /\ r \in b.chunks => Dev(b)[r] < PromptLen(r) /\ DeviceLen(r) = PromptLen(r)
        /\ r \notin b.chunks => Dev(b)[r] = DeviceLen(r)
  BY <1>1, BatchFacts
<1>6. /\ pending' \in Seq(Reqs) /\ IsInjective(pending')
      /\ ToSet(pending') = (ToSet(pending) \ ToSet(b.reqs)) \cup b.chunks
  <2>1. CASE b.phase = "prefill"
    BY <1>1, <1>3, <1>4, <2>1, RequeueFacts
  <2>2. CASE b.phase # "prefill"
    <3>1. pending' = pending /\ pending \in Seq(Reqs) /\ IsInjective(pending)
      BY <1>1, <1>3, <2>2 DEF Types
    <3>2. ToSet(pending) \cap ToSet(b.reqs) = {} /\ b.chunks = {}
      BY <1>3, <1>4, <2>2 DEF Waiting
    <3> QED BY <3>1, <3>2
  <2> QED BY <2>1, <2>2
<1>7. PICK tok \in [ToSet(b.reqs) -> Generated] : KV!ExtendTo(Dev(b), tok)
  BY <1>1
<1>8. pool' = pool /\ hit' = hit
  BY <1>7 DEF KV!ExtendTo, KV!AllocatePaged
<1>9. /\ cached' = [r \in Reqs |-> IF r \in ToSet(b.reqs) THEN Dev(b)[r] ELSE cached[r]]
      /\ ids' = [r \in Reqs |-> IF r \in ToSet(b.reqs) /\ Dev(b)[r] = Len(ids[r])
                                THEN Append(ids[r], tok[r]) ELSE ids[r]]
  BY <1>4, <1>7 DEF KV!ExtendTo
<1>10. \A r \in Reqs : ids[r] \in Seq(Tokens) /\ cached[r] \in Nat
  BY <1>3 DEF Types
<1>11. \A r \in ToSet(b.reqs) : tok[r] \in Tokens
  BY <1>7 DEF SchedulerAssumption
<1>12. cached' \in [Reqs -> Nat]
  BY <1>5, <1>9, <1>10
<1>13. ids' \in [Reqs -> Seq(Tokens)]
  <2>1. \A r \in ToSet(b.reqs) : r \in Reqs => Append(ids[r], tok[r]) \in Seq(Tokens)
    BY <1>10, <1>11
  <2> QED BY <1>9, <1>10, <2>1
<1>14. ASSUME NEW r \in Reqs
       PROVE  /\ r \notin ToSet(b.reqs) => cached'[r] = cached[r] /\ ids'[r] = ids[r]
              /\ r \in ToSet(b.reqs) => cached'[r] = Dev(b)[r] /\ cached[r] < cached'[r]
              /\ r \in b.chunks => ids'[r] = ids[r] /\ cached'[r] < PromptLen(r)
              /\ r \in Finals(b) => Len(ids'[r]) = DeviceLen(r) + 1 /\ cached'[r] = DeviceLen(r)
  <2>1. r \notin ToSet(b.reqs) => cached'[r] = cached[r] /\ ids'[r] = ids[r]
    BY <1>9
  <2>2. r \in ToSet(b.reqs) => cached'[r] = Dev(b)[r] /\ cached[r] < cached'[r]
    BY <1>5, <1>9
  <2>3. ASSUME r \in b.chunks PROVE ids'[r] = ids[r] /\ cached'[r] < PromptLen(r)
    <3>1. r \in ToSet(b.reqs) /\ Dev(b)[r] < DeviceLen(r) /\ Dev(b)[r] < PromptLen(r)
      BY <1>4, <1>5, <2>3
    <3>2. Dev(b)[r] # Len(ids[r])
      BY <1>5, <1>10, <3>1 DEF DeviceLen
    <3> QED BY <1>9, <3>1, <3>2
  <2>4. ASSUME r \in Finals(b)
        PROVE  Len(ids'[r]) = DeviceLen(r) + 1 /\ cached'[r] = DeviceLen(r)
    <3>1. r \in ToSet(b.reqs) /\ Dev(b)[r] = Len(ids[r])
      BY <1>5, <2>4 DEF Finals, DeviceLen
    <3>2. ids'[r] = Append(ids[r], tok[r])
      BY <1>9, <3>1
    <3> QED BY <1>10, <2>2, <3>1, <3>2 DEF DeviceLen
  <2> QED BY <2>1, <2>2, <2>3, <2>4
<1>15. running' = {r \in running \cup Finals(b) : MaxDeviceLen(r) > Len(ids'[r])}
  BY <1>1 DEF Finals
<1>16. chunked' = (chunked \ ToSet(b.reqs)) \cup b.chunks
  BY <1>1
<1> QED BY <1>1, <1>2, <1>6, <1>8, <1>12, <1>13, <1>14, <1>15, <1>16

\* A launch moves requests from the plan, or the running set, into the batch.
LEMMA LaunchKeeps ==
  ASSUME SchedulerAssumption, LoopInv, Launch
  PROVE  LoopInv'
<1>0. Types /\ Unasked /\ Waiting /\ Computing /\ Decoding /\ Planned /\ Launched /\ Drains
      /\ AbortedInFlight /\ Reached
  BY DEF LoopInv
<1> DEFINE b == NextBatch
           B == ToSet(b.reqs)
<1> HIDE DEF b
<1>1. /\ loop = "launch" /\ loop' = "drain" /\ b # NoBatch /\ plan' = EmptyPlan
      /\ pool' = pool /\ hit' = hit /\ slot' = slot /\ freeSlots' = freeSlots
      /\ request' = request /\ aborted' = aborted /\ finished' = finished
      /\ newFinished' = newFinished
      /\ draining' = IF Overlap THEN last ELSE b
      /\ last' = IF Overlap THEN b ELSE NoBatch
  BY LaunchFacts DEF b
<1>2. /\ pending' \in Seq(Reqs) /\ IsInjective(pending')
      /\ ToSet(pending') = (ToSet(pending) \ B) \cup b.chunks
      /\ chunked' = (chunked \ B) \cup b.chunks
      /\ running' = {r \in running \cup Finals(b) : MaxDeviceLen(r) > Len(ids'[r])}
      /\ cached' \in [Reqs -> Nat] /\ ids' \in [Reqs -> Seq(Tokens)]
  BY LaunchFacts DEF b
<1>3. \A r \in Reqs :
        /\ r \notin B => cached'[r] = cached[r] /\ ids'[r] = ids[r]
        /\ r \in B => cached'[r] = Dev(b)[r] /\ cached[r] < cached'[r]
        /\ r \in b.chunks => ids'[r] = ids[r] /\ cached'[r] < PromptLen(r)
        /\ r \in Finals(b) => Len(ids'[r]) = DeviceLen(r) + 1 /\ cached'[r] = DeviceLen(r)
  BY LaunchFacts DEF b
<1>4. /\ b \in Batches /\ IsInjective(b.reqs) /\ b.phase # "none"
      /\ B \subseteq Held /\ b.chunks \subseteq B
      /\ b.phase = "prefill" => /\ b.reqs = plan.reqs /\ b.chunks = ToSet(plan.chunks)
                                /\ B \subseteq ToSet(pending)
      /\ b.phase # "prefill" => B = running /\ b.chunks = {} /\ plan.reqs = <<>>
  BY <1>1, BatchFacts DEF b
<1>5. \A r \in B :
        /\ r \notin aborted
        /\ r \in b.chunks => DeviceLen(r) = PromptLen(r)
        /\ r \notin b.chunks =>
             /\ PromptLen(r) <= DeviceLen(r) /\ DeviceLen(r) < MaxDeviceLen(r)
             /\ b.phase = "prefill" => DeviceLen(r) = PromptLen(r)
  BY <1>1, BatchFacts DEF b
<1>6. /\ draining = NoBatch /\ ToSet(draining.reqs) = {} /\ Finals(draining) = {}
      /\ newFinished = {} /\ plan'.fresh = {} /\ plan'.reqs = <<>> /\ ToSet(plan'.reqs) = {}
      /\ plan.fresh \subseteq B /\ ToSet(plan.reqs) \subseteq B
  <2>1. draining = NoBatch /\ newFinished = {}
    BY <1>0, <1>1 DEF Drains
  <2>2. plan'.reqs = <<>> /\ plan'.fresh = {}
    BY <1>1 DEF EmptyPlan
  <2>3. plan.fresh \subseteq ToSet(plan.reqs)
    BY <1>0 DEF Planned
  <2>4. ToSet(plan.reqs) \subseteq B
    BY <1>4 DEF ToSet
  <2>5. ToSet(draining.reqs) = {} /\ Finals(draining) = {}
    BY <2>1 DEF NoBatch, Finals, ToSet
  <2>6. ToSet(plan'.reqs) = {}
    BY <2>2 DEF ToSet
  <2>7. plan.fresh \subseteq B
    BY <2>3, <2>4
  <2> QED BY <2>1, <2>2, <2>4, <2>5, <2>6, <2>7
<1>7. /\ Held' = Held /\ Held \subseteq Reqs /\ B \subseteq Reqs /\ Finals(b) \subseteq B
      /\ b.chunks \cap Finals(b) = {} /\ B \subseteq b.chunks \cup Finals(b)
  BY <1>1, <1>4 DEF Held, Finals
<1>8. /\ ToSet(NoBatch.reqs) = {} /\ Finals(NoBatch) = {} /\ NoBatch.phase = "none"
      /\ NoBatch \in Batches /\ IsInjective(NoBatch.reqs)
  BY DEF NoBatch, Finals, ToSet, Batches, IsInjective
<1>9. /\ ToSet(last'.reqs) \subseteq B /\ Finals(last)' \subseteq Finals(b)
      /\ ToSet(draining'.reqs) \subseteq B \cup ToSet(last.reqs)
      /\ Finals(draining)' \subseteq Finals(b) \cup Finals(last)
  BY <1>1, <1>8 DEF Finals
<1>10. \A r \in Reqs : /\ Accepted(r)' <=> Accepted(r)
                       /\ PromptLen(r)' = PromptLen(r) /\ MaxDeviceLen(r)' = MaxDeviceLen(r)
                       /\ DeviceLen(r) \in Nat /\ PromptLen(r) \in Nat /\ MaxDeviceLen(r) \in Nat
                       /\ cached[r] \in Nat
  <2>1. \A r \in Reqs : /\ ids[r] \in Seq(Tokens) /\ request[r].prompt \in Seq(Tokens)
                        /\ request[r].output \in Nat /\ cached[r] \in Nat
    BY <1>0 DEF Types
  <2> QED BY <1>1, <2>1 DEF Accepted, PromptLen, MaxDeviceLen, DeviceLen
<1>11. \A r \in Reqs : DeviceLen(r)' = Len(ids'[r])
  BY DEF DeviceLen
<1>12. running' \subseteq running \cup Finals(b) /\ running' \subseteq Reqs
  BY <1>0, <1>2, <1>7, Uids
<1>13. b.chunks \subseteq ToSet(pending) /\ b.chunks \cap running = {}
  <2>1. b.chunks \subseteq ToSet(pending)
    BY <1>4
  <2> QED BY <1>0, <2>1 DEF Waiting
<1>21. Types'
  <2>1. chunked' \subseteq ToSet(pending')
    BY <1>0, <1>2, Uids
  <2>2. /\ last' \in Batches /\ IsInjective(last'.reqs)
        /\ draining' \in Batches /\ IsInjective(draining'.reqs)
    BY <1>0, <1>1, <1>4, <1>8 DEF Types
  <2> QED BY <1>0, <1>1, <1>2, <1>12, <2>1, <2>2 DEF Types, Batches
<1>22. Unasked'
  <2> SUFFICES ASSUME NEW r \in Reqs, request[r] = NoRequest
               PROVE  r \notin ToSet(pending') \cup Held' \cup ToSet(last'.reqs)
                        \cup ToSet(draining'.reqs) \cup aborted \cup finished \cup newFinished
    BY <1>1 DEF Unasked
  <2> QED BY <1>0, <1>2, <1>4, <1>7, <1>9 DEF Unasked
<1>23. Waiting'
  <2> SUFFICES ASSUME NEW r \in ToSet(pending')
               PROVE  /\ Accepted(r)
                      /\ r \notin running' \cup aborted \cup finished \cup newFinished
                                  \cup Finals(last)' \cup Finals(draining)'
                      /\ r \in chunked' => r \in Held /\ cached'[r] < PromptLen(r)
                      /\ r \notin chunked' => r \notin Held
    <3>1. ToSet(pending') \subseteq Reqs
      BY <1>0, <1>2, <1>4, <1>7, Uids
    <3> QED BY <1>1, <1>6, <1>7, <1>10, <3>1 DEF Waiting
  <2>1. r \in ToSet(pending) /\ r \in Reqs
    BY <1>0, <1>2, <1>13, Uids
  <2>2. Accepted(r) /\ r \notin running \cup aborted \cup finished \cup newFinished \cup Finals(last)
    BY <1>0, <2>1 DEF Waiting
  <2>3. CASE r \in b.chunks
    <3>1. r \notin Finals(b) /\ r \in Held /\ cached'[r] < PromptLen(r) /\ r \in chunked'
      BY <1>2, <1>3, <1>4, <1>7, <2>1, <2>3
    <3> QED BY <1>9, <1>12, <2>2, <3>1
  <2>4. CASE r \notin b.chunks
    <3>1. r \notin B /\ r \notin Finals(b) /\ cached'[r] = cached[r] /\ r \notin plan.fresh
      BY <1>2, <1>3, <1>6, <1>7, <2>1, <2>4
    <3>2. r \in chunked' => r \in Held /\ cached[r] < PromptLen(r)
      BY <1>0, <1>2, <2>1, <2>4 DEF Waiting
    <3>3. r \notin chunked' => r \notin Held
      BY <1>0, <1>2, <2>1, <3>1 DEF Waiting
    <3> QED BY <1>9, <1>12, <2>2, <3>1, <3>2, <3>3
  <2> QED BY <2>3, <2>4
<1>24. Computing'
  <2> SUFFICES ASSUME NEW r \in Held
               PROVE  /\ Accepted(r)
                      /\ r \notin finished \cup newFinished
                      /\ \/ cached'[r] < PromptLen(r) /\ ids'[r] = request[r].prompt
                         \/ /\ cached'[r] >= PromptLen(r)
                            /\ Len(ids'[r]) = cached'[r] + 1 /\ Len(ids'[r]) <= MaxDeviceLen(r)
                      /\ cached'[r] < PromptLen(r) =>
                           /\ hit[r] * PageSize <= cached'[r]
                           /\ hit[r] * PageSize # cached'[r]
    <3>1. ASSUME NEW r \in Held'
          PROVE  /\ r \in Held /\ r \in Reqs /\ (Accepted(r)' <=> Accepted(r))
                 /\ PromptLen(r)' = PromptLen(r) /\ MaxDeviceLen(r)' = MaxDeviceLen(r)
                 /\ request'[r].prompt = request[r].prompt /\ DeviceLen(r)' = Len(ids'[r])
                 /\ hit'[r] = hit[r]
      BY <1>1, <1>7, <1>10, <1>11
    <3>2. finished' = finished /\ newFinished' = newFinished
      BY <1>1
    <3> QED BY <3>1, <3>2, ZenonT(60) DEF Computing
  <2>1. /\ Accepted(r) /\ r \notin finished \cup newFinished /\ r \in Reqs
        /\ \/ cached[r] < PromptLen(r) /\ ids[r] = request[r].prompt
           \/ /\ cached[r] >= PromptLen(r)
              /\ DeviceLen(r) = cached[r] + 1 /\ DeviceLen(r) <= MaxDeviceLen(r)
    BY <1>0, <1>7 DEF Computing
  <2> DEFINE h == hit[r] * PageSize
  <2>2. h \in Nat
    <3>1. hit[r] \in Nat /\ PageSize \in Nat
      BY <1>0, <2>1 DEF Types, SchedulerAssumption
    <3> QED BY <3>1
  <2>3. cached[r] < PromptLen(r) => h <= cached[r] /\ (h = cached[r] => r \in plan.fresh)
    BY <1>0 DEF Computing
  <2> HIDE DEF h
  <2>4. /\ cached[r] \in Nat /\ PromptLen(r) \in Nat /\ DeviceLen(r) \in Nat
        /\ MaxDeviceLen(r) \in Nat /\ cached'[r] \in Nat
    BY <1>2, <1>10, <2>1
  <2>5. CASE r \notin B
    <3>1. cached'[r] = cached[r] /\ ids'[r] = ids[r] /\ r \notin plan.fresh
      BY <1>3, <1>6, <2>1, <2>5
    <3> QED BY <2>1, <2>3, <3>1 DEF h, DeviceLen
  <2>6. CASE r \in b.chunks
    <3>1. /\ cached'[r] < PromptLen(r) /\ cached[r] < cached'[r] /\ ids'[r] = ids[r]
          /\ DeviceLen(r) = PromptLen(r)
      BY <1>3, <1>4, <1>5, <2>1, <2>6
    <3>2. cached[r] < PromptLen(r) /\ h < cached'[r]
      BY <2>2, <2>3, <2>4, <3>1
    <3>3. ids[r] = request[r].prompt
      BY <2>1, <2>4, <3>2
    <3> QED BY <2>1, <2>2, <2>4, <3>1, <3>2, <3>3 DEF h
  <2>7. CASE r \in Finals(b)
    <3>1. r \in B /\ r \notin b.chunks
      BY <2>7 DEF Finals
    <3>2. /\ Len(ids'[r]) = DeviceLen(r) + 1 /\ cached'[r] = DeviceLen(r)
          /\ PromptLen(r) <= DeviceLen(r) /\ DeviceLen(r) < MaxDeviceLen(r)
      BY <1>3, <1>5, <2>1, <2>7, <3>1
    <3> QED BY <2>1, <2>4, <3>2
  <2> QED BY <1>7, <2>5, <2>6, <2>7
<1>25. Decoding'
  <2> SUFFICES ASSUME NEW r \in running'
               PROVE  /\ r \in Held /\ r \notin aborted
                      /\ cached'[r] >= PromptLen(r) /\ Len(ids'[r]) < MaxDeviceLen(r)
    BY <1>1, <1>7, <1>10, <1>11, <1>12 DEF Decoding
  <2>1. r \in Reqs /\ MaxDeviceLen(r) > Len(ids'[r]) /\ Len(ids'[r]) \in Nat
    BY <1>2, <1>12
  <2>2. CASE r \in Finals(b)
    <3>1. r \in B /\ r \notin b.chunks
      BY <2>2 DEF Finals
    <3>2. /\ r \in Held /\ r \notin aborted
          /\ cached'[r] = DeviceLen(r) /\ PromptLen(r) <= DeviceLen(r)
      BY <1>3, <1>4, <1>5, <2>1, <2>2, <3>1
    <3> QED BY <1>10, <2>1, <3>2
  <2>3. CASE r \notin Finals(b)
    <3>1. r \in running /\ r \notin B
      BY <1>7, <1>12, <1>13, <2>3
    <3>2. r \in Held /\ r \notin aborted /\ cached[r] >= PromptLen(r) /\ cached'[r] = cached[r]
      BY <1>0, <1>3, <2>1, <3>1 DEF Decoding
    <3> QED BY <1>10, <2>1, <3>2
  <2> QED BY <2>2, <2>3
<1>26. Planned'
  BY <1>1, <1>2, EmptyPlanned
<1>27. Launched'
  <2>1. CASE Overlap
    <3>1. last' = b /\ b.phase # "none"
      BY <1>1, <1>4, <2>1
    <3> SUFFICES ASSUME NEW r \in B
                 PROVE  /\ r \in Held' /\ r \notin aborted'
                        /\ r \in b.chunks => r \in chunked'
                        /\ r \notin b.chunks /\ b.phase = "prefill" => cached'[r] = PromptLen(r)'
      BY <1>1, <2>1, <3>1 DEF Launched
    <3>2. r \in Reqs /\ r \in Held /\ r \notin aborted
      BY <1>4, <1>5, <1>7
    <3>3. r \notin b.chunks => r \in Finals(b)
      BY DEF Finals
    <3> QED BY <1>1, <1>2, <1>3, <1>5, <1>7, <1>10, <3>2, <3>3
  <2>2. CASE ~Overlap
    BY <1>1, <1>8, <2>2 DEF Launched
  <2> QED BY <2>1, <2>2
<1>28. Drains'
  <2>1. draining'.phase = "none" => draining' = NoBatch
    BY <1>0, <1>1, <1>4 DEF Launched
  <2>2. loop' = "drain" /\ newFinished' = {} /\ finished' = finished
    BY <1>1, <1>6
  <2>3. ASSUME NEW r \in ToSet(draining'.reqs)
        PROVE  /\ r \in Held' \/ r \in finished
               /\ r \in Held' /\ r \in draining'.chunks =>
                    r \in aborted' \cup chunked' \cup ToSet(last'.reqs)
               /\ r \notin draining'.chunks /\ draining'.phase = "prefill" =>
                    /\ r \in Held' => cached'[r] >= PromptLen(r)'
                    /\ last'.phase = "prefill" => r \notin Finals(last)'
    <3>1. CASE Overlap
      <4>1. draining' = last /\ last' = b /\ r \in ToSet(last.reqs) /\ Finals(last)' = Finals(b)
        BY <1>1, <2>3, <3>1 DEF Finals
      <4>2. r \in Reqs /\ r \notin newFinished
        BY <1>0, <1>6, <4>1, Uids
      <4>3. /\ r \in Held \/ r \in finished
            /\ r \in Held /\ r \in last.chunks => r \in aborted \cup chunked
            /\ r \in Held /\ r \notin last.chunks /\ last.phase = "prefill" =>
                 cached[r] = PromptLen(r)
        BY <1>0, <1>1, <4>1 DEF Launched
      <4>4. r \in chunked => r \in chunked' \cup B
        BY <1>2
      <4>5. ASSUME r \notin last.chunks, last.phase = "prefill"
            PROVE  /\ r \in Held => cached'[r] >= PromptLen(r)
                   /\ b.phase = "prefill" => r \notin Finals(b)
        <5>1. cached'[r] = cached[r] \/ cached[r] < cached'[r]
          BY <1>3, <4>2
        <5>2. cached'[r] \in Nat /\ cached[r] \in Nat /\ PromptLen(r) \in Nat
          BY <1>2, <1>10, <4>2
        <5>3. r \in Finals(last)
          BY <4>1, <4>5 DEF Finals
        <5>4. r \notin ToSet(pending)
          BY <1>0, <5>3 DEF Waiting
        <5> QED BY <1>4, <1>7, <4>3, <4>5, <5>1, <5>2, <5>4
      <4> QED BY <1>1, <1>7, <1>10, <4>1, <4>2, <4>3, <4>4, <4>5
    <3>2. CASE ~Overlap
      <4>1. draining' = b /\ last' = NoBatch /\ r \in B
        BY <1>1, <2>3, <3>2
      <4>2. r \in Reqs /\ r \in Held /\ (r \in b.chunks => r \in chunked')
        BY <1>2, <1>4, <1>7, <4>1
      <4>3. r \notin b.chunks => cached'[r] >= PromptLen(r)
        BY <1>3, <1>5, <1>10, <4>1, <4>2 DEF Finals
      <4> QED BY <1>7, <1>8, <1>10, <4>1, <4>2, <4>3
    <3> QED BY <3>1, <3>2
  <2> QED BY <2>1, <2>2, <2>3 DEF Drains
<1>29. AbortedInFlight'
  <2>1. \A r \in aborted \cap Held : r \in ToSet(last.reqs)
    BY <1>0, <1>1 DEF AbortedInFlight
  <2>2. ~Overlap => ToSet(last.reqs) = {}
    BY <1>0, <1>8 DEF Launched
  <2> QED BY <1>1, <1>7, <2>1, <2>2 DEF AbortedInFlight
<1>30. Reached'
  <2> SUFFICES ASSUME NEW r \in Held
               PROVE  \/ r \in chunked' \cup running'
                      \/ /\ r \in ToSet(last'.reqs) \cup ToSet(draining'.reqs)
                         /\ r \in aborted \/ Len(ids'[r]) = MaxDeviceLen(r)
    BY <1>1, <1>6, <1>7, <1>10, <1>11 DEF Reached
  <2>1. r \in Reqs /\ Len(ids'[r]) \in Nat /\ MaxDeviceLen(r) \in Nat /\ DeviceLen(r) \in Nat
    BY <1>2, <1>7, <1>10
  <2>2. CASE r \in b.chunks
    BY <1>2, <2>2
  <2>3. CASE r \in Finals(b)
    <3>1. r \in B /\ r \notin b.chunks
      BY <2>3 DEF Finals
    <3>2. Len(ids'[r]) = DeviceLen(r) + 1 /\ DeviceLen(r) < MaxDeviceLen(r)
      BY <1>3, <1>5, <2>1, <2>3, <3>1
    <3>3. r \in running' \/ Len(ids'[r]) = MaxDeviceLen(r)
      BY <1>2, <2>1, <2>3, <3>2
    <3>4. r \in ToSet(last'.reqs) \cup ToSet(draining'.reqs)
      BY <1>1, <3>1
    <3> QED BY <3>3, <3>4
  <2>4. CASE r \notin B
    <3>1. \/ r \in chunked \cup running
          \/ r \in ToSet(last.reqs) /\ (r \in aborted \/ DeviceLen(r) = MaxDeviceLen(r))
      BY <1>0, <1>6, <2>4 DEF Reached
    <3>2. r \in ToSet(last.reqs) => r \in ToSet(draining'.reqs)
      BY <1>0, <1>1, <1>8 DEF Launched
    <3>3. r \in chunked => r \in chunked'
      BY <1>2, <2>4
    <3>4. ids'[r] = ids[r]
      BY <1>3, <2>1, <2>4
    <3>5. r \in running => r \in running'
      <4>1. r \in running => DeviceLen(r) < MaxDeviceLen(r)
        BY <1>0 DEF Decoding
      <4> QED BY <1>2, <2>1, <3>4, <4>1 DEF DeviceLen
    <3> QED BY <3>1, <3>2, <3>3, <3>4, <3>5 DEF DeviceLen
  <2> QED BY <1>7, <2>2, <2>3, <2>4
<1> QED BY <1>21, <1>22, <1>23, <1>24, <1>25, <1>26, <1>27, <1>28, <1>29, <1>30 DEF LoopInv

\* With nothing to launch the last batch is drained and none is left behind.
LEMMA LaunchNothingKeeps ==
  ASSUME LoopInv, LaunchNothing
  PROVE  LoopInv'
<1>0. Types /\ Unasked /\ Waiting /\ Computing /\ Decoding /\ Planned /\ Launched /\ Drains
      /\ AbortedInFlight /\ Reached
  BY DEF LoopInv
<1>1. /\ loop = "launch" /\ loop' = "drain" /\ plan' = EmptyPlan /\ NextBatch = NoBatch
      /\ draining' = IF Overlap THEN last ELSE NoBatch
      /\ last' = NoBatch
      /\ UNCHANGED <<pool, ids, hit, cached, slot, freeSlots, request, pending, chunked, running,
                     aborted, finished, newFinished>>
  BY DEF LaunchNothing, HandOver, kvVars, slotVars, msgVars
<1>2. draining' = last
  BY <1>0, <1>1 DEF Launched
<1>3. plan.reqs = <<>>
  BY <1>1 DEF NextBatch, NoBatch
<1>4. /\ ToSet(plan.reqs) = {} /\ plan.fresh = {} /\ plan'.fresh = {} /\ ToSet(plan'.reqs) = {}
      /\ ToSet(NoBatch.reqs) = {} /\ Finals(NoBatch) = {} /\ NoBatch.phase = "none"
      /\ NoBatch \in Batches /\ IsInjective(NoBatch.reqs) /\ NoBatch.chunks = {}
  <2>1. ToSet(plan.reqs) = {} /\ plan.fresh \subseteq ToSet(plan.reqs)
    BY <1>0, <1>3 DEF Planned, ToSet
  <2>2. plan'.fresh = {} /\ ToSet(plan'.reqs) = {}
    BY <1>1 DEF EmptyPlan, ToSet
  <2>3. /\ ToSet(NoBatch.reqs) = {} /\ Finals(NoBatch) = {} /\ NoBatch.phase = "none"
        /\ NoBatch \in Batches /\ IsInjective(NoBatch.reqs)
    BY DEF NoBatch, Finals, ToSet, Batches, IsInjective
  <2>4. NoBatch.chunks = {}
    BY DEF NoBatch
  <2> QED BY <2>1, <2>2, <2>3, <2>4
<1>5. draining = NoBatch /\ newFinished = {} /\ ToSet(draining.reqs) = {} /\ Finals(draining) = {}
  BY <1>0, <1>1, <1>4 DEF Drains
<1>6. /\ Held' = Held /\ Finals(last)' = {} /\ Finals(draining)' = Finals(last)
      /\ ToSet(last'.reqs) = {}
  BY <1>1, <1>2, <1>4 DEF Held, Finals
<1>7. \A r : /\ Accepted(r)' <=> Accepted(r)
             /\ PromptLen(r)' = PromptLen(r) /\ MaxDeviceLen(r)' = MaxDeviceLen(r)
             /\ DeviceLen(r)' = DeviceLen(r)
  BY <1>1 DEF Accepted, PromptLen, MaxDeviceLen, DeviceLen
<1>11. Types'
  BY <1>0, <1>1, <1>2, <1>4 DEF Types, Batches
<1>12. Unasked'
  BY <1>0, <1>1, <1>2, <1>6 DEF Unasked
<1>13. Waiting'
  BY <1>0, <1>1, <1>4, <1>6, <1>7 DEF Waiting
<1>14. Computing'
  BY <1>0, <1>1, <1>4, <1>6, <1>7 DEF Computing
<1>15. Decoding'
  BY <1>0, <1>1, <1>6, <1>7 DEF Decoding
<1>16. Planned'
  BY <1>0, <1>1, EmptyPlanned DEF Types
<1>17. Launched'
  BY <1>1, <1>4 DEF Launched
<1>18. Drains'
  <2>1. ASSUME NEW r \in ToSet(last.reqs)
        PROVE  /\ r \in Held \/ r \in finished
               /\ r \in Held /\ r \in last.chunks => r \in aborted \cup chunked
               /\ r \notin last.chunks /\ last.phase = "prefill" =>
                    (r \in Held => cached[r] >= PromptLen(r))
    <3>1. r \in Reqs /\ cached[r] \in Nat
      BY <1>0, <2>1, Uids DEF Types
    <3> QED BY <1>0, <1>1, <2>1, <3>1 DEF Launched
  <2>2. last.phase = "none" => last = NoBatch
    BY <1>0 DEF Launched
  <2> QED BY <1>1, <1>2, <1>4, <1>5, <1>6, <1>7, <2>1, <2>2 DEF Drains
<1>19. AbortedInFlight'
  BY <1>0, <1>1, <1>2, <1>6 DEF AbortedInFlight
<1>20. Reached'
  BY <1>0, <1>1, <1>2, <1>4, <1>5, <1>6, <1>7 DEF Reached
<1> QED BY <1>11, <1>12, <1>13, <1>14, <1>15, <1>16, <1>17, <1>18, <1>19, <1>20 DEF LoopInv

-----------------------------------------------------------------------------
(* Draining a batch. *)

\* The first request of the batch is taken off it.
LEMMA DrainFacts ==
  ASSUME LoopInv, DrainStep
  PROVE  /\ Drained \in Reqs /\ Drained \in ToSet(draining.reqs)
         /\ draining'.phase = draining.phase /\ draining'.chunks = draining.chunks
         /\ draining' \in Batches /\ IsInjective(draining'.reqs)
         /\ ToSet(draining'.reqs) = ToSet(draining.reqs) \ {Drained}
         /\ draining.phase # "none" /\ loop = "drain"
         /\ plan.reqs = <<>> /\ plan.fresh = {} /\ ToSet(plan.reqs) = {}
         /\ UNCHANGED <<request, loop, plan, last, pending, chunked, aborted, finished>>
<1>0. Types /\ Planned /\ Drains
  BY DEF LoopInv
<1>1. /\ loop = "drain" /\ draining.reqs # <<>>
      /\ draining' = [draining EXCEPT !.reqs = Tail(@)]
      /\ UNCHANGED <<request, loop, plan, last, pending, chunked, aborted, finished>>
  BY DEF DrainStep, Draining, msgVars
<1> DEFINE s == draining.reqs
           t == Tail(s)
<1>2. draining \in Batches /\ s \in Seq(Reqs) /\ IsInjective(s) /\ s # <<>>
  BY <1>0, <1>1 DEF Types, Batches
<1>3. draining' = [draining EXCEPT !.reqs = t]
  BY <1>1
<1>4. /\ Drained = s[1] /\ Len(s) \in Nat /\ 1 <= Len(s) /\ DOMAIN s = 1..Len(s)
      /\ t \in Seq(Reqs) /\ Len(t) = Len(s) - 1 /\ DOMAIN t = 1..(Len(s) - 1)
      /\ \A i \in 1..(Len(s) - 1) : t[i] = s[i + 1]
      /\ \A i \in 1..Len(s) : s[i] \in Reqs
  <2> HIDE DEF s
  <2>1. Drained = Head(s)
    BY DEF Drained, s
  <2>2. /\ Head(s) = s[1] /\ Tail(s) \in Seq(Reqs) /\ Len(Tail(s)) = Len(s) - 1
        /\ \A i \in 1..Len(Tail(s)) : Tail(s)[i] = s[i + 1]
    BY <1>2, HeadTailProperties
  <2>3. Len(s) \in Nat /\ Len(s) # 0 /\ DOMAIN s = 1..Len(s) /\ \A i \in 1..Len(s) : s[i] \in Reqs
    BY <1>2
  <2>4. DOMAIN Tail(s) = 1..Len(Tail(s))
    BY <2>2
  <2> HIDE DEF t
  <2>5. t \in Seq(Reqs) /\ Len(t) = Len(s) - 1 /\ DOMAIN t = 1..(Len(s) - 1)
        /\ \A i \in 1..(Len(s) - 1) : t[i] = s[i + 1]
    BY <2>2, <2>4 DEF t
  <2> QED BY <2>1, <2>2, <2>3, <2>5
<1>5. draining'.reqs = t /\ draining'.phase = draining.phase /\ draining'.chunks = draining.chunks
      /\ draining' \in Batches
  <2> HIDE DEF t
  <2> QED BY <1>2, <1>3, <1>4 DEF Batches
<1> HIDE DEF s, t
<1>6. \A i, j \in 1..Len(s) : s[i] = s[j] => i = j
  BY <1>2, <1>4 DEF IsInjective
<1>7. IsInjective(t)
  <2> SUFFICES ASSUME NEW i \in 1..(Len(s) - 1), NEW j \in 1..(Len(s) - 1), t[i] = t[j] PROVE i = j
    BY <1>4 DEF IsInjective
  <2>1. i + 1 \in 1..Len(s) /\ j + 1 \in 1..Len(s) /\ s[i + 1] = s[j + 1]
    BY <1>4
  <2>2. i + 1 = j + 1
    BY <1>6, <2>1
  <2> QED BY <2>2
<1>8. ToSet(t) = ToSet(s) \ {Drained}
  <2>1. ASSUME NEW i \in 1..(Len(s) - 1) PROVE t[i] \in ToSet(s) /\ t[i] # Drained
    <3>1. t[i] = s[i + 1] /\ i + 1 \in 1..Len(s) /\ 1 \in 1..Len(s) /\ i + 1 # 1
      BY <1>4
    <3>2. s[i + 1] # s[1]
      BY <1>6, <3>1
    <3> QED BY <1>4, <3>1, <3>2 DEF ToSet
  <2>2. ASSUME NEW i \in 1..Len(s), s[i] # Drained PROVE s[i] \in ToSet(t)
    <3>1. i # 1
      BY <1>4, <2>2
    <3>2. i - 1 \in 1..(Len(s) - 1) /\ (i - 1) + 1 = i
      BY <1>4, <3>1
    <3>3. t[i - 1] = s[i]
      BY <1>4, <3>2
    <3> QED BY <1>4, <3>2, <3>3 DEF ToSet
  <2> QED BY <1>4, <2>1, <2>2 DEF ToSet
<1>9. Drained \in Reqs /\ Drained \in ToSet(s)
  <2>1. 1 \in 1..Len(s)
    BY <1>4
  <2> QED BY <1>4, <2>1 DEF ToSet
<1>10. plan.reqs = <<>> /\ plan.fresh = {} /\ ToSet(plan.reqs) = {}
  BY <1>0, <1>1 DEF Planned, ToSet
<1>11. draining.phase # "none"
  BY <1>0, <1>1 DEF Drains, NoBatch
<1> QED BY <1>1, <1>5, <1>7, <1>8, <1>9, <1>10, <1>11 DEF s

\* A drain that leaves the request what it has: it goes on, or holds nothing any more.
LEMMA DrainKeeps ==
  ASSUME LoopInv, DrainStep, NEW d, d = Drained,
         UNCHANGED <<pool, ids, cached, slot, freeSlots, running, newFinished>>,
         hit' \in [Reqs -> Nat],
         \A r \in Reqs : cached[r] < PromptLen(r) => hit'[r] = hit[r],
         d \notin aborted \cap Held,
         d \in Held => d \in chunked \cup running \cup ToSet(last.reqs)
  PROVE  LoopInv'
<1>0. Types /\ Unasked /\ Waiting /\ Computing /\ Decoding /\ Planned /\ Launched /\ Drains
      /\ AbortedInFlight /\ Reached
  BY DEF LoopInv
<1>1. /\ d \in Reqs /\ d \in ToSet(draining.reqs)
      /\ draining'.phase = draining.phase /\ draining'.chunks = draining.chunks
      /\ draining' \in Batches /\ IsInjective(draining'.reqs)
      /\ ToSet(draining'.reqs) = ToSet(draining.reqs) \ {d}
      /\ draining.phase # "none" /\ loop = "drain"
      /\ plan.reqs = <<>> /\ plan.fresh = {} /\ ToSet(plan.reqs) = {}
      /\ UNCHANGED <<request, loop, plan, last, pending, chunked, aborted, finished>>
  BY DrainFacts
<1>2. /\ Held' = Held /\ Held \subseteq Reqs
      /\ Finals(last)' = Finals(last) /\ Finals(draining)' \subseteq Finals(draining)
  BY <1>1 DEF Held, Finals
<1>3. \A r : /\ Accepted(r)' <=> Accepted(r)
             /\ PromptLen(r)' = PromptLen(r) /\ MaxDeviceLen(r)' = MaxDeviceLen(r)
             /\ DeviceLen(r)' = DeviceLen(r)
  BY <1>1 DEF Accepted, PromptLen, MaxDeviceLen, DeviceLen
<1>11. Types'
  BY <1>0, <1>1 DEF Types, Batches
<1>12. Unasked'
  BY <1>0, <1>1, <1>2 DEF Unasked
<1>13. Waiting'
  BY <1>0, <1>1, <1>2, <1>3 DEF Waiting
<1>14. Computing'
  <2> SUFFICES ASSUME NEW r \in Held
               PROVE  /\ Accepted(r)
                      /\ r \notin finished \cup newFinished
                      /\ \/ cached[r] < PromptLen(r) /\ ids[r] = request[r].prompt
                         \/ /\ cached[r] >= PromptLen(r)
                            /\ DeviceLen(r) = cached[r] + 1 /\ DeviceLen(r) <= MaxDeviceLen(r)
                      /\ cached[r] < PromptLen(r) =>
                           /\ hit'[r] * PageSize <= cached[r]
                           /\ hit'[r] * PageSize # cached[r]
    BY <1>1, <1>2, <1>3 DEF Computing
  <2> QED BY <1>0, <1>1, <1>2 DEF Computing
<1>15. Decoding'
  BY <1>0, <1>1, <1>2, <1>3 DEF Decoding
<1>16. Planned'
  BY <1>0, <1>1 DEF Planned
<1>17. Launched'
  BY <1>0, <1>1, <1>2, <1>3 DEF Launched
<1>18. Drains'
  <2>1. draining' # NoBatch
    BY <1>1 DEF NoBatch
  <2>2. ASSUME NEW r \in ToSet(draining'.reqs)
        PROVE  /\ r \in Held \/ r \in finished
               /\ r \in Held /\ r \in draining.chunks =>
                    r \in aborted \cup chunked \cup ToSet(last.reqs)
               /\ r \notin draining.chunks /\ draining.phase = "prefill" =>
                    /\ r \in Held => cached[r] >= PromptLen(r)
                    /\ last.phase = "prefill" => r \notin Finals(last)
    BY <1>0, <1>1, <2>2 DEF Drains
  <2> QED BY <1>1, <1>2, <1>3, <2>1, <2>2 DEF Drains
<1>19. AbortedInFlight'
  BY <1>0, <1>1, <1>2 DEF AbortedInFlight
<1>20. Reached'
  <2> SUFFICES ASSUME NEW r \in Held
               PROVE  \/ r \in chunked \cup running
                      \/ /\ r \in ToSet(last.reqs) \cup ToSet(draining'.reqs)
                         /\ r \in aborted \/ DeviceLen(r) = MaxDeviceLen(r)
    BY <1>1, <1>2, <1>3 DEF Reached
  <2> QED BY <1>0, <1>1 DEF Reached
<1> QED BY <1>11, <1>12, <1>13, <1>14, <1>15, <1>16, <1>17, <1>18, <1>19, <1>20 DEF LoopInv

\* A drain that ends the request and gives back what it holds.
LEMMA DrainFrees ==
  ASSUME LoopInv, DrainStep, NEW d, d = Drained, FreeReqResources(d),
         running' = running \ {d}, d \notin ToSet(pending),
         \/ newFinished' = newFinished \cup {d}
         \/ newFinished' = newFinished /\ d \notin ToSet(last.reqs)
  PROVE  LoopInv'
<1>0. Types /\ Unasked /\ Waiting /\ Computing /\ Decoding /\ Planned /\ Launched /\ Drains
      /\ AbortedInFlight /\ Reached
  BY DEF LoopInv
<1>1. /\ d \in Reqs /\ d \in ToSet(draining.reqs)
      /\ draining'.phase = draining.phase /\ draining'.chunks = draining.chunks
      /\ draining' \in Batches /\ IsInjective(draining'.reqs)
      /\ ToSet(draining'.reqs) = ToSet(draining.reqs) \ {d}
      /\ draining.phase # "none" /\ loop = "drain"
      /\ plan.reqs = <<>> /\ plan.fresh = {} /\ ToSet(plan.reqs) = {}
      /\ UNCHANGED <<request, loop, plan, last, pending, chunked, aborted, finished>>
  BY DrainFacts
<1>2. /\ Held' = Held \ {d}
      /\ \A r \in Reqs : r # d => /\ ids'[r] = ids[r] /\ hit'[r] = hit[r]
                                  /\ cached'[r] = cached[r]
      /\ pool' = pool
      /\ ids' \in [Reqs -> Seq(Tokens)] /\ hit' \in [Reqs -> Nat] /\ cached' \in [Reqs -> Nat]
      /\ slot' \in [Reqs -> {NoSlot} \cup 0..(TableSlots - 1)]
      /\ freeSlots' \in Seq(0..(TableSlots - 1))
  BY <1>0, <1>1, FreeFacts
<1>3. /\ newFinished \subseteq newFinished' /\ newFinished' \subseteq newFinished \cup {d}
      /\ d \in ToSet(last.reqs) => d \in newFinished'
      /\ chunked \subseteq ToSet(pending) /\ d \notin chunked
      /\ Held \subseteq Reqs
      /\ Finals(last)' = Finals(last) /\ Finals(draining)' \subseteq Finals(draining)
  BY <1>0, <1>1, Uids DEF Held, Finals
<1>4. \A r : /\ Accepted(r)' <=> Accepted(r)
             /\ PromptLen(r)' = PromptLen(r) /\ MaxDeviceLen(r)' = MaxDeviceLen(r)
  BY <1>1 DEF Accepted, PromptLen, MaxDeviceLen
<1>5. \A r \in Reqs : r # d => DeviceLen(r)' = DeviceLen(r)
  BY <1>2 DEF DeviceLen
<1>11. Types'
  <2>1. running' \subseteq Reqs /\ newFinished' \subseteq Reqs
    BY <1>0, <1>1, <1>3, Uids
  <2> QED BY <1>0, <1>1, <1>2, <2>1 DEF Types, Batches
<1>12. Unasked'
  BY <1>0, <1>1, <1>2, <1>3 DEF Unasked
<1>13. Waiting'
  <2> SUFFICES ASSUME NEW r \in ToSet(pending)
               PROVE  /\ Accepted(r)
                      /\ r \notin running' \cup aborted \cup finished \cup newFinished'
                                  \cup Finals(last) \cup Finals(draining)
                      /\ r \in chunked => r \in Held' /\ cached'[r] < PromptLen(r)
                      /\ r \notin chunked \cup plan.fresh => r \notin Held'
    BY <1>1, <1>3, <1>4 DEF Waiting
  <2>1. r \in Reqs /\ r # d
    BY <1>0, Uids
  <2> QED BY <1>0, <1>2, <1>3, <2>1 DEF Waiting
<1>14. Computing'
  <2> SUFFICES ASSUME NEW r \in Held \ {d}
               PROVE  /\ Accepted(r)
                      /\ r \notin finished \cup newFinished'
                      /\ \/ cached[r] < PromptLen(r) /\ ids[r] = request[r].prompt
                         \/ /\ cached[r] >= PromptLen(r)
                            /\ DeviceLen(r) = cached[r] + 1 /\ DeviceLen(r) <= MaxDeviceLen(r)
                      /\ cached[r] < PromptLen(r) =>
                           /\ hit[r] * PageSize <= cached[r]
                           /\ hit[r] * PageSize # cached[r]
    <3>1. ASSUME NEW r \in Held'
          PROVE  /\ r \in Held \ {d} /\ (Accepted(r)' <=> Accepted(r))
                 /\ PromptLen(r)' = PromptLen(r) /\ MaxDeviceLen(r)' = MaxDeviceLen(r)
                 /\ request'[r].prompt = request[r].prompt /\ DeviceLen(r)' = DeviceLen(r)
                 /\ hit'[r] = hit[r] /\ cached'[r] = cached[r] /\ ids'[r] = ids[r]
      BY <1>1, <1>2, <1>3, <1>4, <1>5
    <3>2. finished' = finished
      BY <1>1
    <3> QED BY <3>1, <3>2, ZenonT(60) DEF Computing
  <2> QED BY <1>0, <1>1, <1>3 DEF Computing
<1>15. Decoding'
  <2> SUFFICES ASSUME NEW r \in running \ {d}
               PROVE  /\ r \in Held /\ r \notin aborted
                      /\ cached[r] >= PromptLen(r) /\ DeviceLen(r) < MaxDeviceLen(r)
    <3>1. running \subseteq Reqs
      BY <1>0, Uids
    <3> QED BY <1>1, <1>2, <1>4, <1>5, <3>1 DEF Decoding
  <2> QED BY <1>0 DEF Decoding
<1>16. Planned'
  BY <1>0, <1>1 DEF Planned
<1>17. Launched'
  <2> SUFFICES ASSUME NEW r \in ToSet(last.reqs)
               PROVE  /\ r \in Held' \/ r \in newFinished'
                      /\ r \notin aborted
                      /\ r \in Held' /\ r \in last.chunks => r \in aborted \cup chunked
                      /\ r \in Held' /\ r \notin last.chunks /\ last.phase = "prefill" =>
                           cached'[r] = PromptLen(r)
    BY <1>0, <1>1, <1>4 DEF Launched
  <2>1. r \in Reqs
    BY <1>0, Uids
  <2> QED BY <1>0, <1>1, <1>2, <1>3, <2>1 DEF Launched
<1>18. Drains'
  <2>1. draining' # NoBatch
    BY <1>1 DEF NoBatch
  <2>2. ASSUME NEW r \in ToSet(draining'.reqs)
        PROVE  /\ r \in Held' \/ r \in finished
               /\ r \in Held' /\ r \in draining.chunks =>
                    r \in aborted \cup chunked \cup ToSet(last.reqs)
               /\ r \notin draining.chunks /\ draining.phase = "prefill" =>
                    /\ r \in Held' => cached'[r] >= PromptLen(r)
                    /\ last.phase = "prefill" => r \notin Finals(last)
    <3>1. r \in ToSet(draining.reqs) /\ r # d /\ r \in Reqs
      BY <1>0, <1>1, <2>2, Uids
    <3> QED BY <1>0, <1>1, <1>2, <3>1 DEF Drains
  <2> QED BY <1>1, <1>3, <1>4, <2>1, <2>2 DEF Drains
<1>19. AbortedInFlight'
  BY <1>0, <1>1, <1>2 DEF AbortedInFlight
<1>20. Reached'
  <2> SUFFICES ASSUME NEW r \in Held \ {d}
               PROVE  \/ r \in chunked \cup running'
                      \/ /\ r \in ToSet(last.reqs) \cup ToSet(draining'.reqs)
                         /\ r \in aborted \/ DeviceLen(r) = MaxDeviceLen(r)
    BY <1>1, <1>2, <1>3, <1>4, <1>5 DEF Reached
  <2> QED BY <1>0, <1>1 DEF Reached
<1> QED BY <1>11, <1>12, <1>13, <1>14, <1>15, <1>16, <1>17, <1>18, <1>19, <1>20 DEF LoopInv

\* An intermediate chunk: nothing, unless its request was aborted meanwhile.
LEMMA DrainChunkKeeps ==
  ASSUME LoopInv, DrainChunk
  PROVE  LoopInv'
<1> DEFINE d == Drained
<1>0. Types /\ Waiting /\ Computing /\ Decoding /\ Launched /\ Drains /\ Reached
  BY DEF LoopInv
<1>1. DrainStep /\ d \in draining.chunks /\ running' = running /\ newFinished' = newFinished
  BY DEF DrainChunk
<1>2. d \in Reqs /\ d \in ToSet(draining.reqs) /\ loop = "drain"
  BY <1>1, DrainFacts
<1>3. CASE d \in aborted
  <2>1. FreeReqResources(d)
    BY <1>3 DEF DrainChunk
  <2>2. d \notin running /\ d \notin ToSet(pending) /\ d \notin ToSet(last.reqs)
    BY <1>0, <1>2, <1>3 DEF Decoding, Waiting, Launched
  <2>3. running' = running \ {d}
    BY <1>1, <2>2
  <2> HIDE DEF d
  <2> QED BY <1>1, <2>1, <2>2, <2>3, DrainFrees DEF d
<1>4. CASE d \notin aborted
  <2>1. UNCHANGED <<pool, ids, hit, cached, slot, freeSlots>>
    BY <1>4 DEF DrainChunk, kvVars, slotVars
  <2>2. d \in Held => d \in chunked \cup ToSet(last.reqs)
    BY <1>0, <1>1, <1>2, <1>4 DEF Drains
  <2>3. hit' \in [Reqs -> Nat]
    BY <1>0, <2>1 DEF Types
  <2> HIDE DEF d
  <2> QED BY <1>1, <1>4, <2>1, <2>2, <2>3, DrainKeeps DEF d
<1> QED BY <1>3, <1>4

\* What was aborted in flight is freed at its drain.
LEMMA DrainAbortedKeeps ==
  ASSUME LoopInv, DrainAborted
  PROVE  LoopInv'
<1> DEFINE d == Drained
<1>1. /\ DrainStep /\ d \in aborted /\ FreeReqResources(d) /\ running' = running \ {d}
      /\ newFinished' = newFinished \cup {d}
  BY DEF DrainAborted
<1>2. d \notin ToSet(pending)
  BY <1>1 DEF LoopInv, Waiting
<1> HIDE DEF d
<1> QED BY <1>1, <1>2, DrainFrees DEF d

\* The step launched after the one that ended the request changes nothing.
LEMMA DrainEndedKeeps ==
  ASSUME LoopInv, DrainEnded
  PROVE  LoopInv'
<1> DEFINE d == Drained
<1>1. /\ DrainStep /\ d \in finished
      /\ UNCHANGED <<pool, ids, hit, cached, slot, freeSlots, running, newFinished>>
  BY DEF DrainEnded, Ended, kvVars, slotVars
<1>2. d \notin Held
  BY <1>1 DEF LoopInv, Computing
<1>3. hit' \in [Reqs -> Nat]
  BY <1>1 DEF LoopInv, Types
<1> HIDE DEF d
<1> QED BY <1>1, <1>2, <1>3, DrainKeeps DEF d

\* A token goes out: the prompt is committed by its first one, and the last one
\* ends the request.
LEMMA DrainTokenKeeps ==
  ASSUME SchedulerAssumption, LoopInv, DrainToken
  PROVE  LoopInv'
<1> DEFINE d == Drained
<1>0. Types /\ Waiting /\ Computing /\ Decoding /\ Drains /\ Reached
  BY DEF LoopInv
<1>1. DrainStep /\ d \notin draining.chunks \cup aborted /\ d \notin finished
  BY DEF DrainToken, Ended
<1>2. /\ d \in Reqs /\ d \in ToSet(draining.reqs) /\ loop = "drain" /\ ToSet(plan.reqs) = {}
  BY <1>1, DrainFacts
<1>3. d \in Finals(draining)
  BY <1>1, <1>2 DEF Finals
<1>4. d \notin ToSet(pending)
  BY <1>0, <1>3 DEF Waiting
<1>5. PICK event \in Sampled :
        /\ event = "token" => ~HitLength(d)
        /\ \/ /\ event # "token"
              /\ running' = running \ {d}
              /\ FreeReqResources(d)
              /\ newFinished' = newFinished \cup {d}
           \/ /\ event = "token"
              /\ \/ /\ draining.phase = "prefill" /\ slot[d] # NoSlot
                    /\ KV!CacheReqUnfinished(d)
                    /\ UNCHANGED <<ids, cached>>
                 \/ UNCHANGED kvVars
              /\ UNCHANGED <<slotVars, running, newFinished>>
  BY DEF DrainToken
<1>6. CASE event # "token"
  <2>1. running' = running \ {d} /\ FreeReqResources(d) /\ newFinished' = newFinished \cup {d}
    BY <1>5, <1>6
  <2> HIDE DEF d
  <2> QED BY <1>1, <1>4, <2>1, DrainFrees DEF d
<1>7. CASE event = "token"
  <2>1. DeviceLen(d) # MaxDeviceLen(d)
    <3>1. ids[d] \in Seq(Tokens) /\ request[d].prompt \in Seq(Tokens) /\ request[d].output \in Nat
      BY <1>0, <1>2 DEF Types
    <3>2. MaxDeviceLen(d) \in Nat /\ DeviceLen(d) \in Nat
      BY <3>1 DEF MaxDeviceLen, PromptLen, DeviceLen
    <3>3. MaxDeviceLen(d) - DeviceLen(d) # 0
      BY <1>5, <1>7 DEF HitLength, RemainLen
    <3> QED BY <3>2, <3>3
  <2>2. d \in Held => d \in chunked \cup running
    BY <1>0, <1>1, <1>2, <2>1 DEF Reached
  <2>3. slot' = slot /\ freeSlots' = freeSlots /\ running' = running /\ newFinished' = newFinished
    BY <1>5, <1>7 DEF slotVars
  <2>4. /\ UNCHANGED <<pool, ids, cached>> /\ hit' \in [Reqs -> Nat]
        /\ \A r \in Reqs : cached[r] < PromptLen(r) => hit'[r] = hit[r]
    <3>1. CASE UNCHANGED kvVars
      BY <1>0, <3>1 DEF kvVars, Types
    <3>2. CASE /\ draining.phase = "prefill" /\ slot[d] # NoSlot
               /\ KV!CacheReqUnfinished(d)
               /\ UNCHANGED <<ids, cached>>
      <4>1. pool' = pool
        BY <3>2 DEF KV!CacheReqUnfinished
      <4>2. hit' = hit \/ hit' = [hit EXCEPT ![d] = KV!FullPages(cached[d])]
        BY <3>2 DEF KV!CacheReqUnfinished
      <4>3. KV!FullPages(cached[d]) \in Nat
        <5>1. PageSize \in Nat /\ PageSize # 0 /\ cached[d] \in Nat
          BY <1>0, <1>2 DEF SchedulerAssumption, Types
        <5>2. RT!PageSizeAssumption
          BY <5>1 DEF RT!PageSizeAssumption
        <5>3. RT!FullPages(cached[d]) \in Nat
          BY <5>1, <5>2, RT!PageArithmetic
        <5> QED BY <5>3 DEF KV!FullPages, RT!FullPages
      <4>4. ~(cached[d] < PromptLen(d))
        <5>1. d \in Held
          BY <1>2, <3>2 DEF Held
        <5>2. cached[d] >= PromptLen(d)
          BY <1>0, <1>1, <1>2, <3>2, <5>1 DEF Drains
        <5>3. cached[d] \in Nat /\ request[d].prompt \in Seq(Tokens)
          BY <1>0, <1>2 DEF Types
        <5> QED BY <5>2, <5>3 DEF PromptLen
      <4>5. hit' \in [Reqs -> Nat] /\ \A r \in Reqs : r # d => hit'[r] = hit[r]
        BY <1>0, <4>2, <4>3 DEF Types
      <4> QED BY <3>2, <4>1, <4>4, <4>5
    <3> QED BY <1>5, <1>7, <3>1, <3>2
  <2> HIDE DEF d
  <2> QED BY <1>1, <2>2, <2>3, <2>4, DrainKeeps DEF d
<1> QED BY <1>6, <1>7

\* The drain is over.
LEMMA EndIterationKeeps ==
  ASSUME LoopInv, EndIteration
  PROVE  LoopInv'
<1>0. Types /\ Unasked /\ Waiting /\ Computing /\ Decoding /\ Planned /\ Launched /\ Drains
      /\ AbortedInFlight /\ Reached
  BY DEF LoopInv
<1>1. /\ loop = "drain" /\ loop' = "recv" /\ draining.reqs = <<>>
      /\ finished' = IF draining = NoBatch THEN finished ELSE newFinished
      /\ newFinished' = {} /\ draining' = NoBatch
      /\ UNCHANGED <<pool, ids, hit, cached, slot, freeSlots, request, plan, last, pending, chunked,
                     running, aborted>>
  BY DEF EndIteration, kvVars, slotVars
<1>2. /\ ToSet(draining.reqs) = {} /\ ToSet(NoBatch.reqs) = {} /\ Finals(NoBatch) = {}
      /\ NoBatch \in Batches /\ IsInjective(NoBatch.reqs)
  BY <1>1 DEF NoBatch, Finals, ToSet, Batches, IsInjective
<1>3. /\ finished' \subseteq finished \cup newFinished /\ newFinished \subseteq finished'
      /\ Held' = Held /\ Finals(last)' = Finals(last) /\ Finals(draining)' = {}
      /\ ToSet(draining'.reqs) = {}
  BY <1>0, <1>1, <1>2 DEF Drains, Held, Finals
<1>4. \A r : /\ Accepted(r)' <=> Accepted(r)
             /\ PromptLen(r)' = PromptLen(r) /\ MaxDeviceLen(r)' = MaxDeviceLen(r)
             /\ DeviceLen(r)' = DeviceLen(r)
  BY <1>1 DEF Accepted, PromptLen, MaxDeviceLen, DeviceLen
<1>11. Types'
  BY <1>0, <1>1, <1>2, <1>3 DEF Types, Batches
<1>12. Unasked'
  BY <1>0, <1>1, <1>3 DEF Unasked
<1>13. Waiting'
  BY <1>0, <1>1, <1>3, <1>4 DEF Waiting
<1>14. Computing'
  BY <1>0, <1>1, <1>3, <1>4 DEF Computing
<1>15. Decoding'
  BY <1>0, <1>1, <1>3, <1>4 DEF Decoding
<1>16. Planned'
  <2>1. plan.reqs = <<>> /\ ToSet(plan.reqs) = {}
    BY <1>0, <1>1 DEF Planned, ToSet
  <2> QED BY <1>0, <1>1, <2>1 DEF Planned
<1>17. Launched'
  BY <1>0, <1>1, <1>3, <1>4 DEF Launched
<1>18. Drains'
  BY <1>1, <1>3 DEF Drains
<1>19. AbortedInFlight'
  BY <1>0, <1>1, <1>2, <1>3 DEF AbortedInFlight
<1>20. Reached'
  BY <1>0, <1>1, <1>2, <1>3, <1>4 DEF Reached
<1> QED BY <1>11, <1>12, <1>13, <1>14, <1>15, <1>16, <1>17, <1>18, <1>19, <1>20 DEF LoopInv

-----------------------------------------------------------------------------
(* The invariant of the loop. *)

\* The invariant holds at the start.
LEMMA LoopStarts ==
  ASSUME SchedulerAssumption, Init
  PROVE  LoopInv
<1>1. /\ freeSlots = [i \in 1..TableSlots |-> i - 1]
      /\ slot = [r \in Reqs |-> NoSlot]
      /\ request = [r \in Reqs |-> NoRequest]
      /\ pending = <<>> /\ chunked = {} /\ running = {}
      /\ aborted = {} /\ finished = {} /\ newFinished = {}
      /\ loop = "recv" /\ plan = EmptyPlan /\ last = NoBatch /\ draining = NoBatch
      /\ KV!Init
  BY DEF Init
<1>2. /\ pool \subseteq Pages /\ ids = [r \in Reqs |-> <<>>] /\ hit = [r \in Reqs |-> 0]
      /\ cached = [r \in Reqs |-> 0]
  BY <1>1 DEF KV!Init
<1>3. /\ Held = {} /\ ToSet(pending) = {} /\ ToSet(last.reqs) = {} /\ ToSet(draining.reqs) = {}
      /\ ToSet(plan.reqs) = {}
  BY <1>1 DEF Held, NoBatch, EmptyPlan, ToSet
<1>4. Types
  <2>1. freeSlots \in Seq(0..(TableSlots - 1))
    BY <1>1 DEF SchedulerAssumption
  <2>2. NoBatch \in Batches /\ IsInjective(NoBatch.reqs)
    BY DEF NoBatch, Batches, IsInjective
  <2>3. NoRequest \in [prompt : Seq(Tokens), output : Nat]
    BY DEF NoRequest
  <2>4. pending \in Seq(Reqs) /\ IsInjective(pending)
    BY <1>1 DEF IsInjective
  <2>5. ids \in [Reqs -> Seq(Tokens)] /\ hit \in [Reqs -> Nat] /\ cached \in [Reqs -> Nat]
    BY <1>2
  <2> QED BY <1>1, <1>2, <1>3, <2>1, <2>2, <2>3, <2>4, <2>5 DEF Types
<1>5. Planned
  <2>1. /\ plan.reqs = <<>> /\ plan.chunks = <<>> /\ plan.fresh = {} /\ plan.dev = <<>>
        /\ plan.budget = 0
    BY <1>1 DEF EmptyPlan
  <2>2. Len(pending) \in Nat /\ SubSeq(pending, 1, 0) = <<>> /\ Len(<<>>) = 0
    BY <1>1
  <2>3. <<>> \in Seq(Reqs) /\ IsInjective(<<>>) /\ ToSet(<<>>) = {} /\ DOMAIN <<>> = {}
    BY DEF IsInjective, ToSet
  <2> QED BY <2>1, <2>2, <2>3 DEF Planned
<1>6. Unasked /\ Waiting /\ Computing /\ Decoding /\ Launched /\ Drains /\ AbortedInFlight /\ Reached
  BY <1>1, <1>3 DEF Unasked, Waiting, Computing, Decoding, Launched, Drains, AbortedInFlight, Reached
<1> QED BY <1>4, <1>5, <1>6 DEF LoopInv

\* Every step keeps the invariant.
LEMMA LoopSteps ==
  ASSUME SchedulerAssumption, LoopInv, [Next]_vars
  PROVE  LoopInv'
<1>1. ASSUME NEW u \in Reqs, RecvUser(u) PROVE LoopInv'
  BY <1>1, RecvUserKeeps
<1>2. ASSUME NEW u \in Reqs, RecvAbort(u) PROVE LoopInv'
  BY <1>2, RecvAbortKeeps
<1>3. CASE RecvRebuild
  BY <1>3, RecvRebuildKeeps
<1>4. CASE StartIteration \/ ExecuteRebuild
  BY <1>4, IterateKeeps
<1>5. CASE ContinueChunk
  BY <1>5, ContinueChunkKeeps
<1>6. CASE AdmitNew
  BY <1>6, AdmitNewKeeps
<1>7. CASE StopAdmitting \/ RefuseNew
  BY <1>7, ToLaunchKeeps
<1>8. CASE Launch
  BY <1>8, LaunchKeeps
<1>9. CASE LaunchNothing
  BY <1>9, LaunchNothingKeeps
<1>10. CASE DrainChunk
  BY <1>10, DrainChunkKeeps
<1>11. CASE DrainAborted
  BY <1>11, DrainAbortedKeeps
<1>12. CASE DrainEnded
  BY <1>12, DrainEndedKeeps
<1>13. CASE DrainToken
  BY <1>13, DrainTokenKeeps
<1>14. CASE EndIteration
  BY <1>14, EndIterationKeeps
<1>15. CASE UNCHANGED vars
  <2> USE <1>15 DEF vars, kvVars, slotVars, msgVars, batchVars, Held, PromptLen, MaxDeviceLen,
                    DeviceLen
  <2>1. Types' /\ Unasked'
    BY DEF LoopInv, Types, Unasked
  <2>2. Waiting' /\ Computing'
    BY DEF LoopInv, Waiting, Computing, Accepted
  <2>3. Decoding' /\ Planned'
    BY DEF LoopInv, Decoding, Planned
  <2>4. Launched' /\ Drains'
    BY DEF LoopInv, Launched, Drains, Finals
  <2>5. AbortedInFlight' /\ Reached'
    BY DEF LoopInv, AbortedInFlight, Reached
  <2> QED BY <2>1, <2>2, <2>3, <2>4, <2>5 DEF LoopInv
<1> QED
  BY <1>1, <1>2, <1>3, <1>4, <1>5, <1>6, <1>7, <1>8, <1>9, <1>10, <1>11, <1>12, <1>13, <1>14, <1>15
  DEF Next, Receive, Loop

\* So it always holds.
LEMMA LoopAlways == Spec => []LoopInv
<1>1. Init => LoopInv
  BY SchedulerAssumption, LoopStarts
<1>2. LoopInv /\ [Next]_vars => LoopInv'
  BY SchedulerAssumption, LoopSteps
<1> QED BY <1>1, <1>2, PTL DEF Spec

-----------------------------------------------------------------------------
(* Table slots. *)

\* No slot is twice on the stack, held twice, or both; none is lost.
SlotInv ==
  /\ IsInjective(freeSlots)
  /\ \A r, s \in Held : slot[r] = slot[s] => r = s
  /\ \A r \in Held : slot[r] \notin ToSet(freeSlots)
  /\ ToSet(freeSlots) \cup {slot[r] : r \in Held} = 0..(TableSlots - 1)

\* The top of the stack, taken.
LEMMA FrontFacts ==
  ASSUME NEW S, NEW s \in Seq(S), IsInjective(s), s # <<>>
  PROVE  /\ IsInjective(Front(s)) /\ Last(s) \in ToSet(s)
         /\ ToSet(Front(s)) = ToSet(s) \ {Last(s)}
<1> DEFINE t == Front(s)
           n == Len(s) - 1
<1>1. Len(s) \in Nat /\ Len(s) # 0 /\ n \in Nat /\ Len(s) = n + 1 /\ DOMAIN s = 1..(n + 1)
  OBVIOUS
<1>2. t = SubSeq(s, 1, n) /\ Last(s) = s[n + 1]
  BY <1>1 DEF Front, Last
<1> HIDE DEF t
<1>3. DOMAIN t = 1..n /\ \A i \in 1..n : t[i] = s[i] /\ i \in 1..(n + 1)
  <2> HIDE DEF n
  <2> QED BY <1>1, <1>2
<1> HIDE DEF n
<1>4. \A i, j \in 1..(n + 1) : s[i] = s[j] => i = j
  BY <1>1 DEF IsInjective
<1>5. IsInjective(t)
  BY <1>3, <1>4 DEF IsInjective
<1>6. n + 1 \in 1..(n + 1) /\ \A i \in 1..n : i # n + 1
  BY <1>1
<1>7. ASSUME NEW i \in 1..n PROVE t[i] \in ToSet(s) \ {Last(s)}
  <2>1. t[i] = s[i] /\ i \in 1..(n + 1) /\ s[i] # s[n + 1]
    BY <1>3, <1>4, <1>6
  <2> QED BY <1>1, <1>2, <2>1 DEF ToSet
<1>8. ASSUME NEW i \in 1..(n + 1), s[i] # Last(s) PROVE s[i] \in ToSet(t)
  <2>1. i # n + 1
    BY <1>2, <1>8
  <2>2. i \in 1..n
    BY <1>1, <2>1
  <2> QED BY <1>3, <2>2 DEF ToSet
<1>9. ToSet(t) = ToSet(s) \ {Last(s)}
  BY <1>1, <1>3, <1>7, <1>8 DEF ToSet
<1>10. Last(s) \in ToSet(s)
  BY <1>1, <1>2, <1>6 DEF ToSet
<1> QED BY <1>5, <1>9, <1>10 DEF t

\* _free_req_resources gives a slot back once.
LEMMA FreeKeepsSlots ==
  ASSUME Types, SlotInv, NEW u \in Reqs, FreeReqResources(u)
  PROVE  SlotInv'
<1>1. /\ slot' = [slot EXCEPT ![u] = NoSlot] /\ Held' = Held \ {u}
      /\ freeSlots' = IF u \in Held THEN Append(freeSlots, slot[u]) ELSE freeSlots
  BY FreeFacts
<1>2. /\ freeSlots \in Seq(0..(TableSlots - 1)) /\ Held \subseteq Reqs
      /\ slot \in [Reqs -> {NoSlot} \cup 0..(TableSlots - 1)]
  BY DEF Types, Held
<1>3. \A r \in Held' : slot'[r] = slot[r] /\ r \in Held
  BY <1>1, <1>2
<1>4. CASE u \notin Held
  <2>1. freeSlots' = freeSlots /\ Held' = Held
    BY <1>1, <1>4
  <2>2. {slot'[r] : r \in Held'} = {slot[r] : r \in Held}
    BY <1>3, <2>1
  <2> QED BY <1>3, <2>1, <2>2 DEF SlotInv
<1>5. CASE u \in Held
  <2>1. slot[u] \in 0..(TableSlots - 1) /\ slot[u] \notin ToSet(freeSlots)
    BY <1>2, <1>5 DEF Held, SlotInv
  <2>2. IsInjective(freeSlots') /\ ToSet(freeSlots') = ToSet(freeSlots) \cup {slot[u]}
    <3>1. IsInjective(freeSlots)
      BY DEF SlotInv
    <3> DEFINE x == slot[u]
               S == 0..(TableSlots - 1)
    <3>2. freeSlots \in Seq(S) /\ x \in S /\ x \notin ToSet(freeSlots) /\ freeSlots' = Append(freeSlots, x)
      BY <1>1, <1>2, <1>5, <2>1
    <3> HIDE DEF x, S
    <3>3. IsInjective(freeSlots') /\ ToSet(freeSlots') = ToSet(freeSlots) \cup {x}
      BY <3>1, <3>2, AppendFacts
    <3> QED BY <3>3 DEF x
  <2>3. {slot[r] : r \in Held} = {slot'[r] : r \in Held'} \cup {slot[u]}
    BY <1>1, <1>3, <1>5
  <2>4. \A r \in Held' : slot'[r] # slot[u]
    BY <1>1, <1>3, <1>5 DEF SlotInv
  <2> QED BY <1>3, <2>2, <2>3, <2>4 DEF SlotInv
<1> QED BY <1>4, <1>5

\* The stack of a fresh table.
LEMMA AllSlots ==
  ASSUME NEW n \in Nat, NEW s, s = [i \in 1..n |-> i - 1]
  PROVE  IsInjective(s) /\ ToSet(s) = 0..(n - 1)
<1>1. DOMAIN s = 1..n /\ \A i \in 1..n : s[i] = i - 1
  OBVIOUS
<1>2. IsInjective(s)
  BY <1>1 DEF IsInjective
<1>3. \A i \in 1..n : s[i] \in 0..(n - 1)
  BY <1>1
<1>4. ASSUME NEW k \in 0..(n - 1) PROVE k \in ToSet(s)
  <2>1. k + 1 \in 1..n /\ (k + 1) - 1 = k
    OBVIOUS
  <2>2. s[k + 1] = k
    BY <1>1, <2>1
  <2> QED BY <1>1, <2>1, <2>2 DEF ToSet
<1>5. ToSet(s) \subseteq 0..(n - 1)
  BY <1>1, <1>3 DEF ToSet
<1> QED BY <1>2, <1>4, <1>5

\* At the start every slot is on the stack.
LEMMA SlotsStart ==
  ASSUME SchedulerAssumption, Init
  PROVE  SlotInv
<1>1. freeSlots = [i \in 1..TableSlots |-> i - 1] /\ Held = {} /\ TableSlots \in Nat
  BY DEF Init, Held, SchedulerAssumption
<1>2. IsInjective(freeSlots) /\ ToSet(freeSlots) = 0..(TableSlots - 1)
  BY <1>1, AllSlots
<1> QED BY <1>1, <1>2 DEF SlotInv

\* An admission moves the top of the stack to a request, a free moves it back,
\* a rebuild finds all of them free.
LEMMA SlotsStep ==
  ASSUME SchedulerAssumption, LoopInv, SlotInv, [Next]_vars
  PROVE  SlotInv'
<1>0. Types /\ Waiting /\ Planned
  BY DEF LoopInv
<1>1. ASSUME UNCHANGED slotVars PROVE SlotInv'
  BY <1>1 DEF slotVars, SlotInv, Held
<1>2. ASSUME NEW u \in Reqs, RecvUser(u) PROVE SlotInv'
  BY <1>1, <1>2 DEF RecvUser
<1>3. ASSUME NEW u \in Reqs, RecvAbort(u) PROVE SlotInv'
  <2>1. UNCHANGED slotVars \/ FreeReqResources(u)
    BY <1>3 DEF RecvAbort
  <2> QED BY <1>0, <1>1, <2>1, FreeKeepsSlots
<1>4. CASE RecvRebuild
  BY <1>1, <1>4 DEF RecvRebuild
<1>5. CASE StartIteration
  BY <1>1, <1>5 DEF StartIteration, EndReceive, slotVars
<1>6. CASE ExecuteRebuild
  <2>1. slot' = slot /\ loop = "recv" /\ Idle
    BY <1>6 DEF ExecuteRebuild, EndReceive
  <2>2. CASE freeSlots' = freeSlots
    BY <1>1, <2>1, <2>2 DEF slotVars
  <2>3. CASE freeSlots' = [i \in 1..TableSlots |-> i - 1]
    <3>1. Held = {} /\ TableSlots \in Nat
      BY <2>1, IdleHoldsNone DEF SchedulerAssumption
    <3>2. Held' = {}
      BY <2>1, <3>1 DEF Held
    <3>3. IsInjective(freeSlots') /\ ToSet(freeSlots') = 0..(TableSlots - 1)
      BY <2>3, <3>1, AllSlots
    <3> QED BY <3>2, <3>3 DEF SlotInv
  <2> QED BY <1>6, <2>2, <2>3 DEF ExecuteRebuild
<1>7. CASE ContinueChunk
  BY <1>1, <1>7 DEF ContinueChunk
<1>8. CASE AdmitNew
  <2> DEFINE u == NextUp
  <2>1. HasNext /\ u \notin chunked
    BY <1>8 DEF AdmitNew
  <2>2. u \in ToSet(pending) /\ u \in Reqs /\ u \notin ToSet(plan.reqs)
    BY <1>0, <2>1, NextUpFacts
  <2>3. u \notin Held /\ request[u].prompt # <<>>
    BY <1>0, <2>1, <2>2 DEF Waiting, Planned, Accepted, PromptLen
  <2> HIDE DEF u
  <2>4. /\ freeSlots # <<>> /\ freeSlots' = Front(freeSlots)
        /\ slot' = [slot EXCEPT ![u] = Last(freeSlots)] /\ Held' = Held \cup {u}
        /\ freeSlots \in Seq(0..(TableSlots - 1)) /\ Held \subseteq Reqs
        /\ slot \in [Reqs -> {NoSlot} \cup 0..(TableSlots - 1)]
    BY <1>0, <1>8, <2>2, <2>3, AdmitFacts DEF u, Types, Held
  <2>5. /\ IsInjective(freeSlots') /\ Last(freeSlots) \in ToSet(freeSlots)
        /\ ToSet(freeSlots') = ToSet(freeSlots) \ {Last(freeSlots)}
    BY <2>4, FrontFacts DEF SlotInv
  <2>6. slot'[u] = Last(freeSlots) /\ \A r \in Held : slot'[r] = slot[r]
    BY <2>2, <2>3, <2>4
  <2>7. {slot'[r] : r \in Held'} = {slot[r] : r \in Held} \cup {Last(freeSlots)}
    BY <2>4, <2>6
  <2>8. \A r \in Held : slot[r] # Last(freeSlots)
    BY <2>5 DEF SlotInv
  <2>9. \A r, q \in Held' : slot'[r] = slot'[q] => r = q
    BY <2>4, <2>6, <2>8 DEF SlotInv
  <2>10. \A r \in Held' : slot'[r] \notin ToSet(freeSlots')
    BY <2>4, <2>5, <2>6 DEF SlotInv
  <2>11. ToSet(freeSlots') \cup {slot'[r] : r \in Held'} = 0..(TableSlots - 1)
    BY <2>5, <2>7 DEF SlotInv
  <2> QED BY <2>5, <2>9, <2>10, <2>11 DEF SlotInv
<1>9. CASE StopAdmitting \/ RefuseNew \/ Launch \/ LaunchNothing \/ EndIteration
  BY <1>1, <1>9 DEF StopAdmitting, RefuseNew, Launch, LaunchNothing, EndIteration
<1>10. CASE DrainChunk \/ DrainAborted \/ DrainEnded \/ DrainToken
  <2>1. Drained \in Reqs
    BY <1>10, DrainFacts DEF DrainChunk, DrainAborted, DrainEnded, DrainToken
  <2>2. UNCHANGED slotVars \/ FreeReqResources(Drained)
    BY <1>10 DEF DrainChunk, DrainAborted, DrainEnded, DrainToken
  <2> QED BY <1>0, <1>1, <2>1, <2>2, FreeKeepsSlots
<1>11. CASE UNCHANGED vars
  BY <1>1, <1>11 DEF vars
<1> QED
  BY <1>2, <1>3, <1>4, <1>5, <1>6, <1>7, <1>8, <1>9, <1>10, <1>11 DEF Next, Receive, Loop

\* Counted, the free slots and the held ones are all the slots.
LEMMA SlotsCount ==
  ASSUME SchedulerAssumption, Types, SlotInv
  PROVE  SlotsConserved
<1> DEFINE F == ToSet(freeSlots)
           H == {slot[r] : r \in Held}
<1>1. TableSlots \in Nat /\ freeSlots \in Seq(0..(TableSlots - 1)) /\ IsFiniteSet(Reqs)
  BY DEF SchedulerAssumption, Types
<1>2. F \cup H = 0..(TableSlots - 1) /\ F \cap H = {}
  BY DEF SlotInv
<1>3. IsFiniteSet(Held) /\ Cardinality(Held) \in Nat
  BY <1>1, FS_Subset, FS_CardinalityType DEF Held
<1>4. IsFiniteSet(H) /\ Cardinality(H) = Cardinality(Held)
  <2> DEFINE f == [r \in Held |-> slot[r]]
  <2>1. f \in [Held -> H] /\ \A h \in H : \E r \in Held : f[r] = h
    OBVIOUS
  <2>2. \A r, s \in Held : f[r] = f[s] => r = s
    BY DEF SlotInv
  <2> HIDE DEF f, H
  <2>3. f \in Bijection(Held, H)
    BY <2>1, <2>2 DEF Bijection, Injection, Surjection, IsInjective
  <2>4. ExistsBijection(Held, H)
    BY <2>3 DEF ExistsBijection
  <2> QED BY <1>3, <2>4, FS_Bijection
<1>5. IsFiniteSet(F) /\ Cardinality(F) = Len(freeSlots)
  <2>1. Len(freeSlots) \in Nat /\ DOMAIN freeSlots = 1..Len(freeSlots)
    BY <1>1
  <2>2. freeSlots \in [1..Len(freeSlots) -> F]
    BY <1>1, <2>1 DEF ToSet
  <2>3. \A x \in F : \E i \in 1..Len(freeSlots) : freeSlots[i] = x
    BY <2>1 DEF ToSet
  <2>4. \A i, j \in 1..Len(freeSlots) : freeSlots[i] = freeSlots[j] => i = j
    BY <2>1 DEF SlotInv, IsInjective
  <2> HIDE DEF F
  <2>5. freeSlots \in Bijection(1..Len(freeSlots), F)
    BY <2>2, <2>3, <2>4 DEF Bijection, Injection, Surjection, IsInjective
  <2>6. ExistsBijection(1..Len(freeSlots), F)
    BY <2>5 DEF ExistsBijection
  <2>7. IsFiniteSet(1..Len(freeSlots)) /\ Cardinality(1..Len(freeSlots)) = Len(freeSlots)
    <3> DEFINE n == Len(freeSlots)
    <3>1. n \in Nat
      BY <2>1
    <3> HIDE DEF n
    <3>2. IsFiniteSet(1..n) /\ Cardinality(1..n) = IF 1 <= n THEN n - 1 + 1 ELSE 0
      BY <3>1, FS_Interval
    <3>3. IsFiniteSet(1..n) /\ Cardinality(1..n) = n
      BY <3>1, <3>2
    <3> QED BY <3>3 DEF n
  <2> QED BY <2>6, <2>7, FS_Bijection
<1>6. Cardinality(F \cup H) = Cardinality(F) + Cardinality(H)
  <2> HIDE DEF F, H
  <2>1. Cardinality(F \cup H) = Cardinality(F) + Cardinality(H) - Cardinality(F \cap H)
    BY <1>4, <1>5, FS_Union
  <2>2. Cardinality(F \cap H) = 0
    BY <1>2, FS_EmptySet
  <2>3. Cardinality(F) \in Nat /\ Cardinality(H) \in Nat
    BY <1>4, <1>5, FS_CardinalityType
  <2> QED BY <2>1, <2>2, <2>3
<1>7. Cardinality(0..(TableSlots - 1)) = TableSlots
  <2>1. 0 \in Int /\ TableSlots - 1 \in Int
    BY <1>1
  <2>2. Cardinality(0..(TableSlots - 1)) = IF 0 <= TableSlots - 1 THEN TableSlots - 1 - 0 + 1 ELSE 0
    BY <2>1, FS_Interval
  <2> QED BY <1>1, <2>2
<1>8. Len(freeSlots) + Cardinality(Held) = TableSlots
  <2> HIDE DEF F, H
  <2> QED BY <1>2, <1>4, <1>5, <1>6, <1>7
<1> QED BY <1>2, <1>8 DEF SlotsConserved, Held

(* A table slot is free or held by one request, for every pool and in every *)
(* order of messages: no path of finish, abort and abort in flight gives    *)
(* one back twice or loses it (_free_req_resources, TableManager).          *)
THEOREM SlotsAlwaysConserved == Spec => []SlotsConserved
<1>1. Init => SlotInv
  BY SchedulerAssumption, SlotsStart
<1>2. LoopInv /\ SlotInv /\ [Next]_vars => SlotInv'
  BY SchedulerAssumption, SlotsStep
<1>3. LoopInv /\ SlotInv => SlotsConserved
  BY SchedulerAssumption, SlotsCount DEF LoopInv
<1> QED BY <1>1, <1>2, <1>3, LoopAlways, PTL DEF Spec

-----------------------------------------------------------------------------
(* The loop drives the cache manager as KVCache assumes. *)

\* The stage of a request with table slot s, that has computed c of a prompt of p
\* tokens, with or without its prefill batch still to be drained.
StageOf(s, c, p, undrained) ==
  IF s = NoSlot THEN "idle"
  ELSE IF c < p THEN "prefill"
  ELSE IF ~undrained THEN "decode"
  ELSE IF c = p THEN "sampled" ELSE "ahead"

\* The stage of every request, before and after a step.
LEMMA StageIs ==
  /\ Stage = [r \in Reqs |-> StageOf(slot[r], cached[r], PromptLen(r), Undrained(r))]
  /\ Stage' = [r \in Reqs |-> StageOf(slot'[r], cached'[r], PromptLen(r)', Undrained(r)')]
<1>1. Stage = [r \in Reqs |-> StageOf(slot[r], cached[r], PromptLen(r), Undrained(r))]
  BY DEF Stage, StageOf
<1>2. Stage' = [r \in Reqs |-> StageOf(slot'[r], cached'[r], PromptLen(r)', Undrained(r)')]
  BY DEF Stage, StageOf
<1> QED BY <1>1, <1>2

\* A request is active for the cache manager while it holds a slot.
LEMMA ActiveIsHeld == KV!Active = Held
<1>1. \A r \in Reqs : Stage[r] # "idle" <=> slot[r] # NoSlot
  BY StageIs DEF StageOf
<1> QED BY <1>1 DEF KV!Active, Held

\* What the requests hold, and what is left to drain of it, is as before.
LEMMA StageSame ==
  ASSUME slot' = slot, NEW S, Held \subseteq S,
         \A r \in S : /\ cached'[r] = cached[r] /\ PromptLen(r)' = PromptLen(r)
                      /\ Undrained(r)' <=> Undrained(r)
  PROVE  Stage' = Stage
<1>1. \A r \in Reqs : StageOf(slot'[r], cached'[r], PromptLen(r)', Undrained(r)')
                        = StageOf(slot[r], cached[r], PromptLen(r), Undrained(r))
  <2> SUFFICES ASSUME NEW r \in Reqs
               PROVE  StageOf(slot'[r], cached'[r], PromptLen(r)', Undrained(r)')
                        = StageOf(slot[r], cached[r], PromptLen(r), Undrained(r))
    OBVIOUS
  <2>1. CASE slot[r] = NoSlot
    BY <2>1 DEF StageOf
  <2>2. CASE slot[r] # NoSlot
    <3>1. r \in S
      BY <2>2 DEF Held
    <3> QED BY <3>1 DEF StageOf
  <2> QED BY <2>1, <2>2
<1> QED BY <1>1, StageIs

\* Only u is somewhere else.
LEMMA StageMoves ==
  ASSUME NEW u \in Reqs, NEW x,
         StageOf(slot'[u], cached'[u], PromptLen(u)', Undrained(u)') = x,
         \A r \in Reqs : r # u => slot'[r] = slot[r],
         \A r \in Held : r # u => /\ cached'[r] = cached[r] /\ PromptLen(r)' = PromptLen(r)
                                  /\ Undrained(r)' <=> Undrained(r)
  PROVE  Stage' = [Stage EXCEPT ![u] = x]
<1>1. \A r \in Reqs : r # u => StageOf(slot'[r], cached'[r], PromptLen(r)', Undrained(r)')
                                 = StageOf(slot[r], cached[r], PromptLen(r), Undrained(r))
  <2> SUFFICES ASSUME NEW r \in Reqs, r # u
               PROVE  StageOf(slot'[r], cached'[r], PromptLen(r)', Undrained(r)')
                        = StageOf(slot[r], cached[r], PromptLen(r), Undrained(r))
    OBVIOUS
  <2>1. CASE slot[r] = NoSlot
    BY <2>1 DEF StageOf
  <2>2. CASE slot[r] # NoSlot
    <3>1. r \in Held
      BY <2>2 DEF Held
    <3> QED BY <3>1 DEF StageOf
  <2> QED BY <2>1, <2>2
<1> QED BY <1>1, StageIs

\* What the cache manager does not see.
LEMMA Stutters ==
  ASSUME UNCHANGED kvVars, Stage' = Stage
  PROVE  [KV!Next]_(KV!vars)
BY DEF kvVars, KV!vars, KV!poolVars, KV!reqVars

\* _free_req_resources is a Finish, the first time.
LEMMA FreeIsFinish ==
  ASSUME SchedulerAssumption, LoopInv, NEW u \in Reqs, FreeReqResources(u), plan.fresh = {}, request' = request,
         \A r \in Held : r # u => (Undrained(r)' <=> Undrained(r))
  PROVE  [KV!Next]_(KV!vars)
<1>0. Types /\ Computing
  BY DEF LoopInv
<1>1. \A r : PromptLen(r)' = PromptLen(r)
  BY DEF PromptLen
<1>2. CASE slot[u] = NoSlot
  <2>1. UNCHANGED kvVars /\ slot' = slot /\ cached' = cached
    BY <1>2 DEF FreeReqResources, slotVars, kvVars
  <2>2. u \notin Held
    BY <1>2 DEF Held
  <2>3. Stage' = Stage
    BY <1>1, <2>1, <2>2, StageSame
  <2> QED BY <2>1, <2>3, Stutters
<1>3. CASE slot[u] # NoSlot
  <2>1. /\ KV!CacheReqFinished(u) /\ KV!ForgetFreed
        /\ slot' = [slot EXCEPT ![u] = NoSlot]
    BY <1>3 DEF FreeReqResources, Release
  <2>2. u \in Held
    BY <1>3 DEF Held
  <2>3. Stage[u] = "prefill" => cached[u] > hit[u] * PageSize
    <3>1. Stage[u] = "prefill" => cached[u] < PromptLen(u)
      BY StageIs DEF StageOf
    <3> DEFINE h == hit[u] * PageSize
    <3>2. cached[u] < PromptLen(u) => h <= cached[u] /\ h # cached[u]
      BY <1>0, <2>2 DEF Computing
    <3>3. cached[u] \in Nat /\ hit[u] \in Nat /\ PageSize \in Nat
      BY <1>0 DEF Types, SchedulerAssumption
    <3>4. h \in Nat
      BY <3>3
    <3> HIDE DEF h
    <3>5. Stage[u] = "prefill" => cached[u] > h
      BY <3>1, <3>2, <3>3, <3>4
    <3> QED BY <3>5 DEF h
  <2>4. Stage' = [Stage EXCEPT ![u] = "idle"]
    <3>1. /\ slot'[u] = NoSlot /\ \A r \in Reqs : r # u => slot'[r] = slot[r]
          /\ \A r \in Held : r # u => cached'[r] = cached[r]
      BY <1>0, <2>1, FreeFacts DEF Types, Held
    <3>2. StageOf(slot'[u], cached'[u], PromptLen(u)', Undrained(u)') = "idle"
      BY <3>1 DEF StageOf
    <3> QED BY <1>1, <3>1, <3>2, StageMoves
  <2>5. KV!Finish(u)
    BY <2>1, <2>2, <2>3, <2>4, ActiveIsHeld DEF KV!Finish
  <2> QED BY <2>5 DEF KV!Next
<1> QED BY <1>2, <1>3

\* AdmitNew and RefuseNew are an Admit and a Refuse.
LEMMA AdmitIsAdmit ==
  ASSUME SchedulerAssumption, LoopInv, AdmitNew \/ RefuseNew
  PROVE  [KV!Next]_(KV!vars)
<1>0. Types /\ Waiting /\ Planned
  BY DEF LoopInv
<1>1. /\ HasNext /\ NextUp \notin chunked
      /\ last' = last /\ draining' = draining /\ request' = request
  BY DEF AdmitNew, AddToPlan, RefuseNew, msgVars
<1>2. PICK u \in Reqs : u = NextUp
  BY <1>0, <1>1, NextUpFacts
<1>3. u \in ToSet(pending) /\ u \notin ToSet(plan.reqs) /\ u \notin chunked
  BY <1>0, <1>1, <1>2, NextUpFacts
<1>4. u \notin Held /\ Accepted(u)
  BY <1>0, <1>1, <1>3 DEF Waiting, Planned
<1>5. /\ request[u].prompt \in {q.prompt : q \in {c \in ClientRequests : Len(c.prompt) < MaxLen}}
      /\ request[u].prompt # <<>>
  <2>1. PICK q \in ClientRequests : request[u].prompt = q.prompt
    BY <1>4 DEF Accepted
  <2>2. PromptLen(u) = Len(q.prompt) /\ PromptLen(u) >= 1 /\ PromptLen(u) < MaxLen
    <3>1. PromptLen(u) \in Nat /\ request[u].output \in Nat /\ MaxLen \in Nat
      <4>1. request[u] \in [prompt : Seq(Tokens), output : Nat]
        BY <1>0 DEF Types
      <4> QED BY <4>1 DEF PromptLen, SchedulerAssumption
    <3>2. PromptLen(u) >= 1 /\ request[u].output >= 1 /\ PromptLen(u) + request[u].output <= MaxLen
      BY <1>4 DEF Accepted, MaxDeviceLen
    <3> QED BY <2>1, <3>1, <3>2 DEF PromptLen
  <2> QED BY <2>1, <2>2
<1>6. Stage[u] = "idle"
  BY <1>3, <1>4 DEF Held, Stage
<1>7. \A r : PromptLen(r)' = PromptLen(r) /\ (Undrained(r)' <=> Undrained(r))
  BY <1>1 DEF PromptLen, Undrained
<1>8. CASE AdmitNew
  <2>1. KV!AdmitReq(u, request[u].prompt) /\ kv' = kv
    BY <1>2, <1>8 DEF AdmitNew
  <2>2. /\ slot' = [slot EXCEPT ![u] = Last(freeSlots)] /\ Held' = Held \cup {u}
        /\ \A r \in Reqs : r # u => cached'[r] = cached[r]
        /\ cached'[u] < PromptLen(u)
    <3>1. Types /\ AdmitNew /\ u = NextUp /\ u \in Reqs /\ request[u].prompt # <<>>
      BY <1>0, <1>3, <1>5, <1>2, <1>8
    <3>2. slot' = [slot EXCEPT ![u] = Last(freeSlots)] /\ Held' = Held \cup {u}
      BY <3>1, AdmitFacts
    <3>3. /\ \A r \in Reqs : r # u => cached'[r] = cached[r]
          /\ cached'[u] < PromptLen(u)
      BY <3>1, AdmitFacts
    <3> QED BY <3>2, <3>3
  <2>3. slot'[u] # NoSlot /\ \A r \in Reqs : r # u => slot'[r] = slot[r]
    <3>1. u \in Held'
      BY <2>2
    <3> QED BY <1>0, <2>2, <3>1 DEF Held, Types
  <2>4. StageOf(slot'[u], cached'[u], PromptLen(u)', Undrained(u)') = "prefill"
    <3>1. cached'[u] < PromptLen(u)'
      BY <1>7, <2>2
    <3>2. slot'[u] # NoSlot
      BY <2>3
    <3> QED BY <3>1, <3>2 DEF StageOf
  <2>5. \A r \in Held : r # u => cached'[r] = cached[r]
    BY <2>2 DEF Held
  <2>6. Stage' = [Stage EXCEPT ![u] = "prefill"]
    <3>1. \A r \in Held : r # u => /\ cached'[r] = cached[r] /\ PromptLen(r)' = PromptLen(r)
                                   /\ Undrained(r)' <=> Undrained(r)
      BY <1>7, <2>5
    <3>2. u \in Reqs /\ \A r \in Reqs : r # u => slot'[r] = slot[r]
      BY <1>3, <2>3
    <3> QED BY <2>4, <3>1, <3>2, StageMoves
  <2>7. KV!Admit(u)
    BY <1>5, <1>6, <2>1, <2>6 DEF KV!Admit
  <2> QED BY <1>3, <2>7 DEF KV!Next
<1>9. CASE RefuseNew
  <2>1. /\ tree' = KV!Walk(tree, KV!MatchIds(u, request[u].prompt))
        /\ UNCHANGED <<pool, free, ids, hit, row, cached, kv, slot>>
    BY <1>2, <1>9 DEF RefuseNew, slotVars
  <2>2. Stage' = Stage
    BY <1>7, <2>1, StageSame
  <2>3. KV!Refuse(u)
    BY <1>5, <1>6, <2>1, <2>2 DEF KV!Refuse, KV!reqVars
  <2> QED BY <1>3, <2>3 DEF KV!Next
<1> QED BY <1>8, <1>9

\* A launch is an Extend: of requests that have something to compute, to lengths
\* the forward pass can compute, each from one stage to the next.
LEMMA LaunchIsExtend ==
  ASSUME SchedulerAssumption, LoopInv, Launch
  PROVE  LET B == ToSet(NextBatch.reqs) IN
         B \in (SUBSET KV!CanForward) \ {{}} /\ KV!Extend(B)
<1> DEFINE b == NextBatch
           B == ToSet(b.reqs)
           dev == Dev(b)
<1>0. Types /\ Waiting /\ Computing /\ Decoding /\ Planned /\ Launched /\ Drains
  BY DEF LoopInv
<1> HIDE DEF b
<1>1. PICK tok \in [B -> Generated] : KV!ExtendTo(dev, tok)
  BY DEF Launch, b
<1>2. /\ loop = "launch" /\ b # NoBatch /\ slot' = slot /\ request' = request
      /\ draining' = IF Overlap THEN last ELSE b
      /\ last' = IF Overlap THEN b ELSE NoBatch
  BY LaunchFacts DEF b
<1>3. \A r \in Reqs : /\ r \notin B => cached'[r] = cached[r]
                      /\ r \in B => cached'[r] = dev[r]
  BY LaunchFacts DEF b
<1>4. /\ B \subseteq Held /\ b.chunks \subseteq B /\ b.phase # "none" /\ b \in Batches
      /\ b.phase = "prefill" => b.reqs = plan.reqs /\ B \subseteq ToSet(pending)
      /\ b.phase # "prefill" => B = running /\ b.chunks = {}
      /\ DOMAIN dev = B
  BY <1>2, BatchFacts DEF b
<1>5. \A r \in B :
        /\ dev[r] \in Nat /\ cached[r] < dev[r]
        /\ r \in b.chunks => dev[r] < PromptLen(r) /\ DeviceLen(r) = PromptLen(r)
        /\ r \notin b.chunks =>
             /\ dev[r] = DeviceLen(r)
             /\ PromptLen(r) <= DeviceLen(r) /\ DeviceLen(r) < MaxDeviceLen(r)
             /\ b.phase = "prefill" => DeviceLen(r) = PromptLen(r)
  BY <1>2, BatchFacts DEF b
<1>6. B # {}
  <2>1. b.reqs # <<>>
    <3>1. CASE plan.reqs # <<>>
      BY <3>1 DEF b, NextBatch
    <3>2. CASE plan.reqs = <<>>
      <4>1. running # {} /\ b.reqs = InUidOrder(running) /\ b.phase = "decode"
        BY <1>2, <3>2 DEF b, NextBatch
      <4>2. B = running
        BY <1>4, <4>1
      <4> QED BY <4>1, <4>2 DEF ToSet
    <3> QED BY <3>1, <3>2
  <2>2. b.reqs \in Seq(Reqs)
    BY <1>4 DEF Batches
  <2> DEFINE s == b.reqs
  <2> HIDE DEF s
  <2>3. s \in Seq(Reqs) /\ s # <<>>
    BY <2>1, <2>2 DEF s
  <2>4. 1 \in DOMAIN s
    BY <2>3
  <2>5. s[1] \in ToSet(s)
    BY <2>4 DEF ToSet
  <2> QED BY <2>5 DEF s
<1>7. /\ draining = NoBatch /\ ToSet(NoBatch.reqs) = {} /\ NoBatch.phase = "none"
      /\ ~Overlap => last = NoBatch
  BY <1>0, <1>2 DEF Drains, Launched, NoBatch, ToSet
<1>8. \A r \in Reqs : /\ cached[r] \in Nat /\ PromptLen(r) \in Nat /\ DeviceLen(r) \in Nat
                      /\ MaxDeviceLen(r) \in Nat /\ DeviceLen(r) = Len(ids[r])
                      /\ PromptLen(r)' = PromptLen(r)
  <2>1. \A r \in Reqs : /\ ids[r] \in Seq(Tokens) /\ request[r].prompt \in Seq(Tokens)
                        /\ request[r].output \in Nat /\ cached[r] \in Nat
    BY <1>0 DEF Types
  <2> QED BY <1>2, <2>1 DEF PromptLen, MaxDeviceLen, DeviceLen
<1> HIDE DEF B, dev
\* Before the launch nothing is being drained, so a prompt is committed at most one
\* decode step later.
<1>9. /\ \A r : Undrained(r) <=> last.phase = "prefill" /\ r \in Finals(last)
      /\ \A r : Undrained(r)' <=> \/ last.phase = "prefill" /\ r \in Finals(last)
                                  \/ b.phase = "prefill" /\ r \in Finals(b)
  <2>1. \A r : Undrained(r) <=> last.phase = "prefill" /\ r \in Finals(last)
    BY <1>7 DEF Undrained, Finals
  <2>2. CASE Overlap
    BY <1>2, <2>1, <2>2 DEF Undrained, Finals
  <2>3. CASE ~Overlap
    BY <1>2, <1>7, <2>1, <2>3 DEF Undrained, Finals
  <2> QED BY <2>1, <2>2, <2>3
<1>10. \A r \in Held : last.phase = "prefill" /\ r \in Finals(last) => cached[r] = PromptLen(r)
  BY <1>0 DEF Launched, Finals
<1>11. ASSUME NEW r \in B
       PROVE  /\ r \in Reqs /\ r \in KV!CanForward
              /\ dev[r] \in 1..MaxLen /\ dev[r] <= Len(ids[r])
              /\ Stage[r] # "prefill" => dev[r] = Len(ids[r])
              /\ Stage'[r] = KV!AfterForward(r, dev[r] = Len(ids[r]))
  <2>1. r \in Reqs /\ r \in Held /\ Accepted(r) /\ slot[r] # NoSlot
    BY <1>0, <1>4 DEF Computing, Held
  <2>2. /\ cached[r] \in Nat /\ PromptLen(r) \in Nat /\ DeviceLen(r) \in Nat
        /\ MaxDeviceLen(r) \in Nat /\ DeviceLen(r) = Len(ids[r])
    BY <1>8, <2>1
  <2>3. /\ dev[r] \in Nat /\ cached[r] < dev[r] /\ cached'[r] = dev[r]
    BY <1>3, <1>5, <2>1
  <2>4. PromptLen(r) < MaxDeviceLen(r) /\ MaxDeviceLen(r) <= MaxLen /\ MaxLen \in Nat
    <3>1. request[r].output \in Nat /\ request[r].output >= 1 /\ MaxDeviceLen(r) <= MaxLen
      BY <1>0, <2>1 DEF Accepted, Types
    <3> QED BY <2>2, <3>1 DEF MaxDeviceLen, SchedulerAssumption
  <2>5. dev[r] <= DeviceLen(r) /\ DeviceLen(r) < MaxDeviceLen(r)
    <3>1. CASE r \in b.chunks
      BY <1>5, <2>2, <2>3, <2>4, <3>1
    <3>2. CASE r \notin b.chunks
      BY <1>5, <2>2, <2>3, <3>2
    <3> QED BY <3>1, <3>2
  <2>6. dev[r] \in 1..MaxLen /\ dev[r] <= Len(ids[r]) /\ cached[r] < Len(ids[r]) /\ Len(ids[r]) < MaxLen
    BY <2>2, <2>3, <2>4, <2>5
  <2>7. /\ Stage[r] = StageOf(slot[r], cached[r], PromptLen(r), Undrained(r))
        /\ Stage'[r] = StageOf(slot[r], dev[r], PromptLen(r), Undrained(r)')
    BY <1>2, <1>8, <2>1, <2>3, StageIs
  <2>8. CASE b.phase = "prefill"
    <3>1. r \in ToSet(plan.reqs) /\ r \in ToSet(pending)
      BY <1>4, <2>8 DEF B
    <3>2. dev[r] <= PromptLen(r) /\ DeviceLen(r) = PromptLen(r)
      BY <1>5, <2>2, <2>3, <2>5, <2>8
    <3>3. Stage[r] = "prefill"
      BY <2>1, <2>2, <2>3, <2>7, <3>2 DEF StageOf
    <3>4. CASE r \in b.chunks
      <4>1. dev[r] < PromptLen(r) /\ dev[r] # Len(ids[r])
        BY <1>5, <2>2, <2>3, <3>2, <3>4
      <4>2. Stage'[r] = "prefill"
        BY <2>1, <2>7, <4>1 DEF StageOf
      <4> QED BY <2>1, <2>6, <3>3, <4>1, <4>2, ActiveIsHeld DEF KV!CanForward, KV!AfterForward
    <3>5. CASE r \notin b.chunks
      <4>1. dev[r] = PromptLen(r) /\ dev[r] = Len(ids[r]) /\ r \in Finals(b)
        BY <1>5, <2>2, <2>8, <3>5 DEF Finals, B
      <4>2. Undrained(r)'
        BY <1>9, <2>8, <4>1
      <4>3. Stage'[r] = "sampled"
        BY <2>1, <2>2, <2>7, <4>1, <4>2 DEF StageOf
      <4> QED BY <2>1, <2>6, <3>3, <4>1, <4>3, ActiveIsHeld DEF KV!CanForward, KV!AfterForward
    <3> QED BY <3>4, <3>5
  <2>9. CASE b.phase # "prefill"
    <3>1. r \in running /\ r \notin b.chunks /\ cached[r] >= PromptLen(r)
      BY <1>0, <1>4, <2>9 DEF Decoding
    <3>2. dev[r] = Len(ids[r]) /\ dev[r] > PromptLen(r)
      BY <1>5, <2>2, <2>3, <3>1
    <3>3. Undrained(r)' <=> Undrained(r)
      BY <1>9, <2>9
    <3>4. CASE Undrained(r)
      <4>1. cached[r] = PromptLen(r)
        BY <1>9, <1>10, <2>1, <3>4
      <4>2. Stage[r] = "sampled"
        BY <2>1, <2>2, <2>7, <3>4, <4>1 DEF StageOf
      <4>3. Stage'[r] = "ahead"
        BY <2>1, <2>2, <2>3, <2>7, <3>2, <3>3, <3>4 DEF StageOf
      <4> QED BY <2>1, <2>6, <3>2, <4>2, <4>3, ActiveIsHeld DEF KV!CanForward, KV!AfterForward
    <3>5. CASE ~Undrained(r)
      <4>1. Stage[r] = "decode"
        BY <2>1, <2>2, <2>7, <3>1, <3>5 DEF StageOf
      <4>2. Stage'[r] = "decode"
        BY <2>1, <2>2, <2>3, <2>7, <3>2, <3>3, <3>5 DEF StageOf
      <4> QED BY <2>1, <2>6, <3>2, <4>1, <4>2, ActiveIsHeld DEF KV!CanForward, KV!AfterForward
    <3> QED BY <3>4, <3>5
  <2> QED BY <2>8, <2>9
<1>12. ASSUME NEW r \in Reqs, r \notin B PROVE Stage'[r] = Stage[r]
  <2>1. cached'[r] = cached[r] /\ slot'[r] = slot[r] /\ PromptLen(r)' = PromptLen(r)
    BY <1>2, <1>3, <1>8, <1>12
  <2>2. Undrained(r)' <=> Undrained(r)
    <3>1. r \notin Finals(b)
      BY <1>12 DEF Finals, B
    <3> QED BY <1>9, <3>1
  <2>3. StageOf(slot'[r], cached'[r], PromptLen(r)', Undrained(r)')
          = StageOf(slot[r], cached[r], PromptLen(r), Undrained(r))
    BY <2>1, <2>2 DEF StageOf
  <2>4. /\ Stage[r] = StageOf(slot[r], cached[r], PromptLen(r), Undrained(r))
        /\ Stage'[r] = StageOf(slot'[r], cached'[r], PromptLen(r)', Undrained(r)')
    BY <1>12, StageIs
  <2> QED BY <2>3, <2>4
<1>13. dev \in KV!ForwardLens(B)
  <2>1. dev \in [B -> 1..MaxLen]
    <3>1. dev = [r \in B |-> dev[r]]
      BY DEF dev, Dev, B
    <3> QED BY <1>11, <3>1
  <2>2. \A r \in B : /\ cached[r] < dev[r] /\ dev[r] <= Len(ids[r])
                     /\ Stage[r] # "prefill" => dev[r] = Len(ids[r])
    BY <1>5, <1>11
  <2> QED BY <2>1, <2>2 DEF KV!ForwardLens
<1>14. tok \in [B -> Tokens]
  BY <1>1 DEF SchedulerAssumption
<1>15. Stage' = [r \in Reqs |-> IF r \in B THEN KV!AfterForward(r, dev[r] = Len(ids[r]))
                                           ELSE Stage[r]]
  <2>1. Stage' = [r \in Reqs |-> Stage'[r]]
    BY StageIs
  <2> QED BY <1>11, <1>12, <2>1
<1>16. KV!Extend(B)
  BY <1>1, <1>13, <1>14, <1>15 DEF KV!Extend
<1>17. B \in (SUBSET KV!CanForward) \ {{}}
  <2>1. \A r \in B : r \in KV!CanForward
    BY <1>11
  <2> QED BY <1>6, <2>1
<1> QED BY <1>16, <1>17 DEF B, b

\* What leaves the pages, the held requests and their undrained batches alone.
LEMMA QuietStep ==
  ASSUME UNCHANGED kvVars, slot' = slot,
         \A r \in Held : /\ request'[r] = request[r]
                         /\ Undrained(r)' <=> Undrained(r)
  PROVE  [KV!Next]_(KV!vars)
<1>1. \A r \in Held : /\ cached'[r] = cached[r] /\ PromptLen(r)' = PromptLen(r)
                      /\ Undrained(r)' <=> Undrained(r)
  BY DEF kvVars, PromptLen
<1>2. Stage' = Stage
  BY <1>1, StageSame
<1> QED BY <1>2, Stutters

\* With the same batches launched the same requests are undrained.
LEMMA SameBatches ==
  ASSUME last' = last, draining' = draining
  PROVE  \A r : Undrained(r)' <=> Undrained(r)
BY DEF Undrained

\* Of a message the cache manager sees the free of an aborted request alone.
LEMMA ReceiveSteps ==
  ASSUME SchedulerAssumption, LoopInv, NEW u \in Reqs, RecvUser(u) \/ RecvAbort(u)
  PROVE  [KV!Next]_(KV!vars)
<1>0. Types /\ Unasked /\ Planned
  BY DEF LoopInv
<1>1. \A r : Undrained(r)' <=> Undrained(r)
  <2>1. last' = last /\ draining' = draining
    BY DEF RecvUser, RecvAbort, batchVars
  <2> QED BY <2>1, SameBatches
<1>2. CASE RecvUser(u)
  <2>1. /\ UNCHANGED kvVars /\ slot' = slot /\ request[u] = NoRequest
        /\ \E q : request' = [request EXCEPT ![u] = q]
    BY <1>2 DEF RecvUser, slotVars
  <2>2. u \notin Held
    BY <1>0, <2>1 DEF Unasked
  <2>3. \A r \in Held : request'[r] = request[r]
    BY <1>0, <2>1, <2>2 DEF Types, Held
  <2> QED BY <1>1, <2>1, <2>3, QuietStep
<1>3. CASE RecvAbort(u)
  <2>1. request' = request /\ loop = "recv" /\ (UNCHANGED <<kvVars, slot>> \/ FreeReqResources(u))
    BY <1>3 DEF RecvAbort, slotVars
  <2>2. CASE UNCHANGED <<kvVars, slot>>
    BY <1>1, <2>1, <2>2, QuietStep
  <2>3. CASE FreeReqResources(u)
    <3>1. plan.fresh = {}
      BY <1>0, <2>1 DEF Planned, ToSet
    <3> QED BY <1>1, <2>1, <2>3, <3>1, FreeIsFinish
  <2> QED BY <2>1, <2>2, <2>3
<1> QED BY <1>2, <1>3

\* A rebuild at the safe point is a Rebuild; the rest of an iteration's start and
\* of its filling is nothing to the cache manager.
LEMMA IterateSteps ==
  ASSUME SchedulerAssumption, LoopInv,
         StartIteration \/ ExecuteRebuild \/ ContinueChunk \/ StopAdmitting
  PROVE  [KV!Next]_(KV!vars)
<1>1. slot' = slot /\ request' = request /\ last' = last /\ draining' = draining
  BY DEF StartIteration, ExecuteRebuild, EndReceive, ContinueChunk, AddToPlan, StopAdmitting,
         slotVars, msgVars
<1>2. \A r : Undrained(r)' <=> Undrained(r)
  BY <1>1, SameBatches
<1>3. CASE UNCHANGED kvVars
  BY <1>1, <1>2, <1>3, QuietStep
<1>4. CASE ExecuteRebuild /\ KV!Reset
  <2>1. loop = "recv" /\ Idle
    BY <1>4 DEF ExecuteRebuild, EndReceive
  <2>2. KV!Active = {}
    BY <2>1, IdleHoldsNone, ActiveIsHeld
  <2>3. cached' = cached
    BY <1>4 DEF KV!Reset
  <2>4. \A r \in Held : /\ cached'[r] = cached[r] /\ PromptLen(r)' = PromptLen(r)
                        /\ Undrained(r)' <=> Undrained(r)
    BY <1>1, <1>2, <2>3 DEF PromptLen
  <2>5. Stage' = Stage
    BY <1>1, <2>4, StageSame
  <2>6. KV!Rebuild
    BY <1>4, <2>2, <2>5 DEF KV!Rebuild
  <2> QED BY <2>6 DEF KV!Next
<1> QED BY <1>3, <1>4 DEF StartIteration, ExecuteRebuild, ContinueChunk, StopAdmitting

\* An empty launch and the end of a drain move no request in or out of a batch.
LEMMA TurnSteps ==
  ASSUME LoopInv, LaunchNothing \/ EndIteration
  PROVE  [KV!Next]_(KV!vars)
<1>0. Launched /\ Drains
  BY DEF LoopInv
<1>1. UNCHANGED kvVars /\ slot' = slot /\ request' = request
  BY DEF LaunchNothing, EndIteration, slotVars, msgVars
<1>2. NoBatch.phase = "none" /\ ToSet(NoBatch.reqs) = {}
  BY DEF NoBatch, ToSet
<1>3. \A r : Undrained(r)' <=> Undrained(r)
  <2>1. CASE LaunchNothing
    <3>1. draining = NoBatch /\ draining' = last /\ last' = NoBatch
      <4>1. loop = "launch" /\ last' = NoBatch /\ draining' = IF Overlap THEN last ELSE NoBatch
        BY <2>1 DEF LaunchNothing, HandOver
      <4> QED BY <1>0, <4>1 DEF Launched, Drains
    <3> QED BY <1>2, <3>1 DEF Undrained
  <2>2. CASE EndIteration
    <3>1. draining.reqs = <<>> /\ draining' = NoBatch /\ last' = last
      BY <2>2 DEF EndIteration
    <3>2. ToSet(draining.reqs) = {}
      BY <3>1 DEF ToSet
    <3> QED BY <1>2, <3>1, <3>2 DEF Undrained
  <2> QED BY <2>1, <2>2
<1> QED BY <1>1, <1>3, QuietStep

\* A drain takes one request out of its batch: after the final part of a prompt
\* no batch of that prompt is left.
LEMMA DrainUndrained ==
  ASSUME LoopInv, DrainStep, NEW d, d = Drained
  PROVE  /\ \A r : r # d \/ d \in draining.chunks \/ draining.phase # "prefill" =>
              (Undrained(r)' <=> Undrained(r))
         /\ d \notin draining.chunks /\ draining.phase = "prefill" => Undrained(d) /\ ~Undrained(d)'
<1>1. /\ draining'.phase = draining.phase /\ draining'.chunks = draining.chunks /\ last' = last
      /\ ToSet(draining'.reqs) = ToSet(draining.reqs) \ {d} /\ d \in ToSet(draining.reqs)
  BY DrainFacts
<1>2. d \notin draining.chunks /\ draining.phase = "prefill" /\ last.phase = "prefill" =>
        d \notin ToSet(last.reqs) \ last.chunks
  BY <1>1 DEF LoopInv, Drains, Finals
<1>3. \A r : Undrained(r) <=> \/ last.phase = "prefill" /\ r \in ToSet(last.reqs) \ last.chunks
                              \/ draining.phase = "prefill"
                                 /\ r \in ToSet(draining.reqs) \ draining.chunks
  BY DEF Undrained
<1>4. \A r : Undrained(r)' <=> \/ last.phase = "prefill" /\ r \in ToSet(last.reqs) \ last.chunks
                               \/ draining.phase = "prefill"
                                  /\ r \in (ToSet(draining.reqs) \ {d}) \ draining.chunks
  BY <1>1 DEF Undrained
<1> QED BY <1>1, <1>2, <1>3, <1>4

\* A drained request is committed, finished or left as it is.
LEMMA DrainSteps ==
  ASSUME SchedulerAssumption, LoopInv, DrainChunk \/ DrainAborted \/ DrainEnded \/ DrainToken
  PROVE  [KV!Next]_(KV!vars)
<1>0. Types /\ Computing /\ Drains
  BY DEF LoopInv
<1>1. DrainStep
  BY DEF DrainChunk, DrainAborted, DrainEnded, DrainToken
<1>2. PICK d \in Reqs : d = Drained
  BY <1>1, DrainFacts
<1>3. plan.fresh = {} /\ request' = request /\ d \in ToSet(draining.reqs)
  BY <1>1, <1>2, DrainFacts
<1>4. /\ \A r : r # d \/ d \in draining.chunks \/ draining.phase # "prefill" =>
           (Undrained(r)' <=> Undrained(r))
      /\ d \notin draining.chunks /\ draining.phase = "prefill" => Undrained(d) /\ ~Undrained(d)'
  BY <1>1, <1>2, DrainUndrained
<1>5. CASE FreeReqResources(d)
  BY <1>3, <1>4, <1>5, FreeIsFinish
<1>6. CASE /\ UNCHANGED kvVars /\ slot' = slot
           /\ d \in draining.chunks \/ draining.phase # "prefill" \/ d \notin Held
  <2>1. \A r \in Held : request'[r] = request[r] /\ (Undrained(r)' <=> Undrained(r))
    BY <1>3, <1>4, <1>6
  <2> QED BY <1>6, <2>1, QuietStep
<1>7. CASE /\ d \notin draining.chunks /\ draining.phase = "prefill" /\ slot[d] # NoSlot
           /\ KV!CacheReqUnfinished(d) /\ KV!ForgetFreed
           /\ UNCHANGED <<ids, cached, slot>>
  <2>1. d \in Held /\ Undrained(d) /\ ~Undrained(d)'
    BY <1>4, <1>7 DEF Held
  <2>2. ~(cached[d] < PromptLen(d))
    <3>1. cached[d] >= PromptLen(d)
      BY <1>0, <1>3, <1>7, <2>1 DEF Drains
    <3>2. cached[d] \in Nat /\ request[d].prompt \in Seq(Tokens)
      BY <1>0 DEF Types
    <3> QED BY <3>1, <3>2 DEF PromptLen
  <2>3. \A r : PromptLen(r)' = PromptLen(r)
    BY <1>3 DEF PromptLen
  <2>4. Stage[d] \in {"sampled", "ahead"}
    <3>1. Stage[d] = StageOf(slot[d], cached[d], PromptLen(d), Undrained(d))
      BY StageIs
    <3> QED BY <1>7, <2>1, <2>2, <3>1 DEF StageOf
  <2>5. StageOf(slot'[d], cached'[d], PromptLen(d)', Undrained(d)') = "decode"
    <3>1. slot'[d] # NoSlot /\ cached'[d] = cached[d] /\ PromptLen(d)' = PromptLen(d)
      BY <1>7, <2>3
    <3> QED BY <2>1, <2>2, <3>1 DEF StageOf
  <2>6. Stage' = [Stage EXCEPT ![d] = "decode"]
    <3>1. \A r \in Reqs : r # d => slot'[r] = slot[r]
      BY <1>7
    <3>2. \A r \in Held : r # d => /\ cached'[r] = cached[r] /\ PromptLen(r)' = PromptLen(r)
                                   /\ Undrained(r)' <=> Undrained(r)
      BY <1>4, <1>7, <2>3
    <3> QED BY <2>5, <3>1, <3>2, StageMoves
  <2>7. KV!Commit(d)
    BY <1>7, <2>4, <2>6 DEF KV!Commit
  <2> QED BY <2>7 DEF KV!Next
<1>8. CASE DrainChunk
  BY <1>2, <1>5, <1>6, <1>8 DEF DrainChunk, slotVars
<1>9. CASE DrainAborted
  BY <1>2, <1>5, <1>9 DEF DrainAborted
<1>10. CASE DrainEnded
  <2>1. d \notin Held
    BY <1>0, <1>2, <1>10 DEF DrainEnded, Ended, Computing
  <2> QED BY <1>6, <1>10, <2>1 DEF DrainEnded, slotVars
<1>11. CASE DrainToken
  <2>1. \/ FreeReqResources(d)
        \/ /\ d \notin draining.chunks /\ draining.phase = "prefill" /\ slot[d] # NoSlot
           /\ KV!CacheReqUnfinished(d) /\ KV!ForgetFreed
           /\ UNCHANGED <<ids, cached, slot>>
        \/ /\ UNCHANGED kvVars /\ slot' = slot
           /\ draining.phase # "prefill" \/ slot[d] = NoSlot
    BY <1>2, <1>11 DEF DrainToken, slotVars
  <2>2. slot[d] = NoSlot => d \notin Held
    BY DEF Held
  <2> QED BY <1>5, <1>6, <1>7, <2>1, <2>2
<1> QED BY <1>8, <1>9, <1>10, <1>11

(* The scheduler drives the cache manager as KVCache assumes, in every order *)
(* of messages, batches, drains and rebuilds: a commit only once per prompt  *)
(* and before more than one decode step, a free only of a request that       *)
(* computed something, a rebuild only when no request holds a page           *)
(* (overlap_loop, _process_last_data, _free_req_resources,                   *)
(* _execute_pending_rebuild).                                                *)
THEOREM LoopDrivesTheCache == Spec => CacheProtocol
<1>1. Init => KV!Init
  BY DEF Init
<1>2. LoopInv /\ [Next]_vars => [KV!Next]_(KV!vars)
  <2> SUFFICES ASSUME LoopInv, [Next]_vars PROVE [KV!Next]_(KV!vars)
    OBVIOUS
  <2>1. ASSUME NEW u \in Reqs, RecvUser(u) \/ RecvAbort(u) PROVE [KV!Next]_(KV!vars)
    BY <2>1, SchedulerAssumption, ReceiveSteps
  <2>2. CASE RecvRebuild
    <3>1. UNCHANGED kvVars /\ slot' = slot /\ request' = request
          /\ last' = last /\ draining' = draining
      BY <2>2 DEF RecvRebuild, slotVars, batchVars
    <3> QED BY <3>1, SameBatches, QuietStep
  <2>3. CASE StartIteration \/ ExecuteRebuild \/ ContinueChunk \/ StopAdmitting
    BY <2>3, SchedulerAssumption, IterateSteps
  <2>4. CASE AdmitNew \/ RefuseNew
    BY <2>4, SchedulerAssumption, AdmitIsAdmit
  <2>5. CASE Launch
    <3>1. KV!Next
      BY <2>5, SchedulerAssumption, LaunchIsExtend DEF KV!Next
    <3> QED BY <3>1
  <2>6. CASE LaunchNothing \/ EndIteration
    BY <2>6, TurnSteps
  <2>7. CASE DrainChunk \/ DrainAborted \/ DrainEnded \/ DrainToken
    BY <2>7, SchedulerAssumption, DrainSteps
  <2>8. CASE UNCHANGED vars
    <3>1. UNCHANGED kvVars /\ slot' = slot /\ request' = request
          /\ last' = last /\ draining' = draining
      BY <2>8 DEF vars, slotVars, msgVars, batchVars
    <3> QED BY <3>1, SameBatches, QuietStep
  <2> QED BY <2>1, <2>2, <2>3, <2>4, <2>5, <2>6, <2>7, <2>8 DEF Next, Receive, Loop
<1> QED BY <1>1, <1>2, LoopAlways, PTL DEF Spec, CacheProtocol, KV!Spec

-----------------------------------------------------------------------------
(* What the invariant says of a request that holds something. *)

(* A request in a batch that is launched and not drained keeps its table row *)
(* and pages, unless an earlier token ended it: an abort never frees under a *)
(* forward in flight (abort_req, _process_last_data).                        *)
THEOREM FlightAlwaysHoldsRow == Spec => []InFlightHoldsRow
<1>1. LoopInv => InFlightHoldsRow
  <2> SUFFICES ASSUME LoopInv, NEW b \in {last, draining}, NEW r \in ToSet(b.reqs)
               PROVE  slot[r] # NoSlot \/ r \in finished \cup newFinished
    BY DEF InFlightHoldsRow
  <2>1. Launched /\ Drains
    BY DEF LoopInv
  <2>2. r \in Held \/ r \in finished \cup newFinished
    BY <2>1 DEF Launched, Drains
  <2> QED BY <2>2 DEF Held
<1> QED BY <1>1, LoopAlways, PTL

(* Only requests that will run again or are in flight hold anything: nothing *)
(* is left behind by a finish, an abort or a chunk that was cut.             *)
THEOREM HeldAlwaysReachable == Spec => []HeldIsReachable
<1>1. LoopInv => HeldIsReachable
  <2>1. ASSUME LoopInv PROVE Types /\ Reached
    BY <2>1 DEF LoopInv
  <2> QED BY <2>1 DEF HeldIsReachable, Held, Reached, Types
<1> QED BY <1>1, LoopAlways, PTL

-----------------------------------------------------------------------------
(* Replies and aborts, while no more requests are aborted than marks are kept. *)

Events == Sampled \cup {"admitted", "too_long", "aborted"}
Ending == {"stop", "length", "too_long", "aborted"}

\* An aborted request waits and runs nowhere and is freed by the drain that comes;
\* one that has not arrived has its mark.
Barrier ==
  /\ aborting \subseteq MayAbort /\ acks \subseteq aborting
  /\ tombstones \in Seq(MayAbort) /\ IsInjective(tombstones) /\ ToSet(tombstones) \subseteq aborting
  /\ \A u \in aborting :
       /\ u \notin ToSet(pending) \cup running
       /\ u \in Held => u \in ToSet(IF loop = "drain" THEN draining.reqs ELSE last.reqs)
       /\ loop = "drain" => u \notin ToSet(last.reqs)
       /\ request[u] = NoRequest => u \in ToSet(tombstones)

\* Nothing is sent before the admission, what holds a slot has been admitted and
\* not ended, and what was acknowledged is gone.
Answers ==
  /\ replies \in [Reqs -> Seq(Events)]
  /\ plan.fresh \cap chunked = {}
  /\ \A u \in Reqs :
       /\ request[u] = NoRequest /\ u \notin aborting => replies[u] = <<>>
       /\ u \in ToSet(pending) \ chunked => replies[u] = <<>>
       /\ u \in Held \ plan.fresh =>
            replies[u] # <<>> /\ replies[u][1] = "admitted" /\ ToSet(replies[u]) \cap Ending = {}
       /\ "aborted" \in ToSet(replies[u]) => u \in aborting \ acks /\ u \notin Held

ReplyInv == Barrier /\ Answers /\ RepliesWellFormed

\* A list that names each element once is no longer than the set is large.
LEMMA InjectiveLen ==
  ASSUME NEW S, IsFiniteSet(S), NEW s \in Seq(S), IsInjective(s)
  PROVE  Len(s) <= Cardinality(S) /\ Cardinality(S) \in Nat
<1> DEFINE n == Len(s)
<1>1. n \in Nat /\ s \in [1..n -> S] /\ Cardinality(S) \in Nat
  BY FS_CardinalityType
<1>2. s \in Injection(1..n, S)
  BY <1>1 DEF Injection, IsInjective
<1> HIDE DEF n
<1>3. Cardinality(1..n) <= Cardinality(S)
  BY <1>2, FS_Injection
<1>4. Cardinality(1..n) = n
  <2>1. Cardinality(1..n) = IF 1 <= n THEN n - 1 + 1 ELSE 0
    BY <1>1, FS_Interval
  <2> QED BY <1>1, <2>1
<1> QED BY <1>1, <1>3, <1>4 DEF n

\* The batch being filled is of pending requests.
LEMMA PlanIsPending ==
  ASSUME Types, Planned
  PROVE  ToSet(plan.reqs) \subseteq ToSet(pending)
<1> DEFINE n == Len(plan.reqs)
<1>1. /\ pending \in Seq(Reqs) /\ n \in Nat /\ n <= Len(pending) /\ plan.reqs = SubSeq(pending, 1, n)
  <2>1. pending \in Seq(Reqs) /\ plan.reqs \in Seq(Reqs) /\ n <= Len(pending)
    BY DEF Types, Planned
  <2> QED BY <2>1 DEF Planned
<1> HIDE DEF n
<1>2. \A i \in DOMAIN SubSeq(pending, 1, n) : SubSeq(pending, 1, n)[i] \in ToSet(pending)
  BY <1>1 DEF ToSet
<1> QED BY <1>1, <1>2 DEF ToSet

\* What leaves messages, managers and slots alone.
LEMMA QuietBarrier ==
  ASSUME Barrier, loop # "drain", loop' # "drain", last' = last,
         UNCHANGED <<request, tombstones, acks, aborting, pending, running, slot>>
  PROVE  Barrier'
BY DEF Barrier, Held

\* The request itself, after its abort or before any.
LEMMA RecvUserBarrier ==
  ASSUME SchedulerAssumption, LoopInv, Barrier, NEW u \in Reqs, RecvUser(u)
  PROVE  Barrier'
<1>0. Types /\ Unasked
  BY DEF LoopInv
<1>1. /\ loop = "recv" /\ loop' = loop /\ last' = last /\ slot' = slot /\ running' = running
      /\ acks' = acks /\ aborting' = aborting /\ request[u] = NoRequest
      /\ \/ u \in ToSet(tombstones) /\ tombstones' = Without(tombstones, u) /\ pending' = pending
         \/ /\ u \notin ToSet(tombstones) /\ tombstones' = tombstones
            /\ pending' = pending \/ pending' = Append(pending, u)
      /\ \A r \in Reqs : r # u => request'[r] = request[r]
  BY <1>0 DEF RecvUser, batchVars, slotVars, Types
<1>2. /\ tombstones' \in Seq(MayAbort) /\ IsInjective(tombstones')
      /\ ToSet(tombstones) \ {u} \subseteq ToSet(tombstones')
      /\ ToSet(tombstones') \subseteq ToSet(tombstones)
  <2>1. CASE tombstones' = tombstones
    BY <2>1 DEF Barrier
  <2>2. CASE tombstones' = Without(tombstones, u)
    BY <2>2, WithoutFacts DEF Barrier
  <2> QED BY <1>1, <2>1, <2>2
<1>3. /\ u \in aborting => u \in ToSet(tombstones) /\ pending' = pending
      /\ ToSet(pending') \subseteq ToSet(pending) \cup {u}
  <2>1. u \in aborting => u \in ToSet(tombstones)
    BY <1>1 DEF Barrier
  <2>2. u \notin ToSet(pending)
    BY <1>0, <1>1 DEF Unasked
  <2>3. ToSet(Append(pending, u)) = ToSet(pending) \cup {u}
    BY <1>0, <2>2, AppendFacts DEF Types
  <2> QED BY <1>1, <2>1, <2>3
<1>4. request'[u] # NoRequest
  <2>1. PICK q \in ClientRequests : \E n : request' = [request EXCEPT ![u] = [q EXCEPT !.output = n]]
    BY DEF RecvUser
  <2>2. q.prompt # <<>> /\ q \in [prompt : Seq(Tokens) \ {<<>>}, output : Nat \ {0}]
    BY DEF SchedulerAssumption
  <2>3. request'[u].prompt = q.prompt
    BY <1>0, <2>1, <2>2 DEF Types
  <2> QED BY <2>2, <2>3 DEF NoRequest
<1>5. Held' = Held
  BY <1>1 DEF Held
<1>6. aborting \subseteq Reqs
  BY DEF Barrier, SchedulerAssumption
<1> QED
  BY <1>1, <1>2, <1>3, <1>4, <1>5, <1>6 DEF Barrier

\* An abort leaves a mark, and a hold only in a batch that is launched.
LEMMA RecvAbortBarrier ==
  ASSUME SchedulerAssumption, Cardinality(MayAbort) <= MaxTombstones,
         LoopInv, Barrier, NEW u \in Reqs, RecvAbort(u)
  PROVE  Barrier'
<1>0. Types /\ Waiting /\ Decoding /\ Planned /\ Drains /\ Reached
  BY DEF LoopInv
<1>1. /\ loop = "recv" /\ loop' = loop /\ last' = last /\ request' = request
      /\ u \in MayAbort /\ u \notin aborting /\ aborting' = aborting \cup {u}
      /\ acks' = acks \cup {u} /\ tombstones' = Tombstone(u)
      /\ pending' = Without(pending, u) /\ running' = running \ {u}
  BY DEF RecvAbort, batchVars
<1>2. ToSet(pending') = ToSet(pending) \ {u}
  BY <1>0, <1>1, WithoutFacts DEF Types
<1>3. /\ tombstones' \in Seq(MayAbort) /\ IsInjective(tombstones')
      /\ ToSet(tombstones') = ToSet(tombstones) \cup {u}
  <2> DEFINE all == Append(tombstones, u)
  <2>1. all \in Seq(MayAbort) /\ IsInjective(all) /\ ToSet(all) = ToSet(tombstones) \cup {u}
    BY <1>1, AppendFacts DEF Barrier
  <2> HIDE DEF all
  <2>2. IsFiniteSet(MayAbort) /\ MaxTombstones \in Nat
    BY FS_Subset DEF SchedulerAssumption
  <2>3. Len(all) <= Cardinality(MayAbort) /\ Cardinality(MayAbort) \in Nat
    BY <2>1, <2>2, InjectiveLen
  <2>4. Len(all) \in Nat
    BY <2>1
  <2>5. ~(Len(all) > MaxTombstones)
    BY <2>2, <2>3, <2>4
  <2>6. tombstones' = all
    BY <1>1, <2>5 DEF Tombstone, all
  <2> QED BY <2>1, <2>6
<1>4. u \in Held' => u \in ToSet(last.reqs)
  <2>1. CASE Holding(u) /\ ~InFlight(u)
    <3>1. Held' = Held \ {u}
      BY <1>0, <2>1, FreeFacts DEF RecvAbort
    <3> QED BY <3>1
  <2>2. CASE Holding(u) /\ InFlight(u)
    BY <2>2 DEF InFlight
  <2>3. CASE ~Holding(u)
    <3>1. Held' = Held
      BY <2>3 DEF RecvAbort, slotVars, Held
    <3>2. ToSet(plan.reqs) = {} /\ ToSet(draining.reqs) = {}
      BY <1>0, <1>1 DEF Planned, Drains, NoBatch, ToSet
    <3> QED BY <1>0, <2>3, <3>1, <3>2 DEF Holding, Reached
  <2> QED BY <2>1, <2>2, <2>3
<1>5. Held' \subseteq Held
  <2>1. CASE slot' = slot
    BY <2>1 DEF Held
  <2>2. CASE FreeReqResources(u)
    BY <1>0, <2>2, FreeFacts
  <2> QED BY <2>1, <2>2 DEF RecvAbort, slotVars
<1> QED BY <1>1, <1>2, <1>3, <1>4, <1>5 DEF Barrier

\* A launch takes none of them along, and hands the batch they are in to the drain.
LEMMA LaunchBarrier ==
  ASSUME SchedulerAssumption, LoopInv, Barrier, Launch \/ LaunchNothing
  PROVE  Barrier'
<1>0. Types /\ Planned /\ Launched /\ Drains
  BY DEF LoopInv
<1>1. UNCHANGED <<request, tombstones, acks, aborting, slot>> /\ Held' = Held
  BY DEF Launch, LaunchNothing, msgVars, slotVars, Held
<1>2. ToSet(NoBatch.reqs) = {}
  BY DEF NoBatch, ToSet
<1>3. CASE Launch
  <2> DEFINE b == NextBatch
  <2>1. /\ loop = "launch" /\ loop' = "drain" /\ b # NoBatch
        /\ draining' = IF Overlap THEN last ELSE b
        /\ last' = IF Overlap THEN b ELSE NoBatch
        /\ ToSet(pending') = (ToSet(pending) \ ToSet(b.reqs)) \cup b.chunks
        /\ running' \subseteq running \cup Finals(b)
    BY <1>3, LaunchFacts
  <2>2. /\ b.chunks \subseteq ToSet(b.reqs)
        /\ ToSet(b.reqs) \subseteq ToSet(pending) \cup running
    BY <2>1, BatchFacts
  <2> HIDE DEF b
  <2>3. \A u \in aborting : u \notin ToSet(b.reqs) /\ u \notin ToSet(pending') \cup running'
    BY <2>1, <2>2 DEF Barrier, Finals
  <2>4. \A u \in aborting : u \in Held' => u \in ToSet(last.reqs)
    BY <1>1, <2>1 DEF Barrier
  <2>5. ~Overlap => last = NoBatch
    BY <1>0 DEF Launched
  <2>6. \A u \in aborting : /\ u \in Held' => u \in ToSet(draining'.reqs)
                            /\ u \notin ToSet(last'.reqs)
    <3>1. CASE Overlap
      BY <2>1, <2>3, <2>4, <3>1
    <3>2. CASE ~Overlap
      BY <1>2, <2>1, <2>4, <2>5, <3>2
    <3> QED BY <3>1, <3>2
  <2> QED BY <1>1, <2>1, <2>3, <2>6 DEF Barrier
<1>4. CASE LaunchNothing
  <2>1. /\ loop = "launch" /\ loop' = "drain" /\ last' = NoBatch
        /\ draining' = IF Overlap THEN last ELSE NoBatch
        /\ pending' = pending /\ running' = running
    BY <1>4 DEF LaunchNothing, HandOver
  <2>2. draining' = last
    BY <1>0, <2>1 DEF Launched
  <2> QED BY <1>1, <1>2, <2>1, <2>2 DEF Barrier
<1> QED BY <1>3, <1>4

\* A drain frees the aborted request it comes to: marked, ended, or at its length.
LEMMA DrainBarrier ==
  ASSUME SchedulerAssumption, LoopInv, Barrier,
         DrainChunk \/ DrainAborted \/ DrainEnded \/ DrainToken
  PROVE  Barrier'
<1>0. Types /\ Computing /\ Drains /\ Reached
  BY DEF LoopInv
<1>1. DrainStep
  BY DEF DrainChunk, DrainAborted, DrainEnded, DrainToken
<1>2. PICK d \in Reqs : d = Drained
  BY <1>1, DrainFacts
<1>3. /\ d \in ToSet(draining.reqs) /\ loop = "drain" /\ loop' = loop /\ last' = last
      /\ pending' = pending /\ request' = request /\ ToSet(plan.reqs) = {}
      /\ ToSet(draining'.reqs) = ToSet(draining.reqs) \ {d}
  BY <1>1, <1>2, DrainFacts
<1>4. UNCHANGED <<tombstones, acks, aborting>>
  BY <1>1 DEF DrainStep, msgVars
<1>5. running' \subseteq running
  BY DEF DrainChunk, DrainAborted, DrainEnded, DrainToken
<1>6. Held' \subseteq Held
  <2>1. CASE slot' = slot
    BY <2>1 DEF Held
  <2>2. CASE FreeReqResources(d)
    BY <1>0, <2>2, FreeFacts
  <2> QED BY <1>2, <2>1, <2>2 DEF DrainChunk, DrainAborted, DrainEnded, DrainToken, slotVars
<1>7. ASSUME d \in aborting, d \in Held PROVE d \notin Held'
  <2>1. d \notin chunked \cup running \cup ToSet(last.reqs)
    BY <1>0, <1>3, <1>7, Uids DEF Barrier
  <2>2. d \in aborted \/ DeviceLen(d) = MaxDeviceLen(d)
    BY <1>0, <1>3, <1>7, <2>1 DEF Reached
  <2>3. FreeReqResources(d)
    <3>1. CASE DrainChunk
      <4>1. d \in aborted
        BY <1>0, <1>2, <1>3, <1>7, <2>1, <3>1 DEF DrainChunk, Drains
      <4> QED BY <1>2, <3>1, <4>1 DEF DrainChunk
    <3>2. CASE DrainAborted
      BY <1>2, <3>2 DEF DrainAborted
    <3>3. CASE DrainEnded
      BY <1>0, <1>2, <1>7, <3>3 DEF DrainEnded, Ended, Computing
    <3>4. CASE DrainToken
      <4>1. DeviceLen(d) = MaxDeviceLen(d)
        BY <1>2, <2>2, <3>4 DEF DrainToken
      <4>2. ids[d] \in Seq(Tokens) /\ DeviceLen(d) \in Nat
        <5>1. ids[d] \in Seq(Tokens)
          BY <1>0 DEF Types
        <5> QED BY <5>1 DEF DeviceLen
      <4>3. HitLength(d)
        BY <4>1, <4>2 DEF HitLength, RemainLen
      <4> QED BY <1>2, <3>4, <4>3 DEF DrainToken
    <3> QED BY <3>1, <3>2, <3>3, <3>4
  <2> QED BY <1>0, <2>3, FreeFacts
<1> QED BY <1>3, <1>4, <1>5, <1>6, <1>7 DEF Barrier

\* At the end of a drain nothing of them is held.
LEMMA EndBarrier ==
  ASSUME Barrier, EndIteration
  PROVE  Barrier' /\ aborting \cap Held = {}
<1>1. /\ loop = "drain" /\ loop' = "recv" /\ draining.reqs = <<>> /\ acks' = {} /\ last' = last
      /\ UNCHANGED <<request, tombstones, aborting, pending, running, slot>>
  BY DEF EndIteration, AcksDue, slotVars
<1>2. ToSet(draining.reqs) = {} /\ Held' = Held
  BY <1>1 DEF ToSet, Held
<1>3. aborting \cap Held = {}
  BY <1>1, <1>2 DEF Barrier
<1> QED BY <1>1, <1>2, <1>3 DEF Barrier

\* Every step keeps the marks.
LEMMA BarrierSteps ==
  ASSUME SchedulerAssumption, Cardinality(MayAbort) <= MaxTombstones,
         LoopInv, Barrier, [Next]_vars
  PROVE  Barrier'
<1>0. Types /\ Planned
  BY DEF LoopInv
<1>1. ASSUME NEW u \in Reqs, RecvUser(u) PROVE Barrier'
  BY <1>1, RecvUserBarrier
<1>2. ASSUME NEW u \in Reqs, RecvAbort(u) PROVE Barrier'
  BY <1>2, RecvAbortBarrier
<1>3. CASE RecvRebuild \/ StartIteration \/ ExecuteRebuild \/ ContinueChunk \/ StopAdmitting
           \/ RefuseNew
  <2>1. /\ loop # "drain" /\ loop' # "drain" /\ last' = last
        /\ UNCHANGED <<request, tombstones, acks, aborting, pending, running, slot>>
    BY <1>3 DEF RecvRebuild, StartIteration, ExecuteRebuild, EndReceive, ContinueChunk, AddToPlan,
       StopAdmitting, RefuseNew, slotVars, msgVars, batchVars
  <2> QED BY <2>1, QuietBarrier
<1>4. CASE AdmitNew
  <2>1. HasNext /\ NextUp \in ToSet(pending) /\ NextUp \in Reqs
    BY <1>0, <1>4, NextUpFacts DEF AdmitNew
  <2>2. PICK u \in ToSet(pending) : u = NextUp
    BY <2>1
  <2>3. slot' = [slot EXCEPT ![u] = Last(freeSlots)] /\ loop = "admit" /\ loop' = loop
        /\ last' = last
        /\ UNCHANGED <<request, tombstones, acks, aborting, pending, running>>
    BY <1>4, <2>2 DEF AdmitNew, AddToPlan, msgVars
  <2>4. Held' \subseteq Held \cup {u}
    BY <1>0, <2>3 DEF Held, Types
  <2>5. u \notin aborting
    BY <2>2 DEF Barrier
  <2> QED BY <2>3, <2>4, <2>5 DEF Barrier
<1>5. CASE Launch \/ LaunchNothing
  BY <1>5, LaunchBarrier
<1>6. CASE DrainChunk \/ DrainAborted \/ DrainEnded \/ DrainToken
  BY <1>6, DrainBarrier
<1>7. CASE EndIteration
  BY <1>7, EndBarrier
<1>8. CASE UNCHANGED vars
  BY <1>8 DEF vars, slotVars, msgVars, batchVars, Barrier, Held
<1> QED BY <1>1, <1>2, <1>3, <1>4, <1>5, <1>6, <1>7, <1>8 DEF Next, Receive, Loop

\* What may be sent next for u.
Next1(u, e) ==
  /\ "aborted" \notin ToSet(replies[u])
  /\ e # "aborted" => ToSet(replies[u]) \cap Ending = {}
  /\ replies[u] # <<>> => /\ e \notin {"admitted", "too_long"}
                          /\ e \in Sampled => replies[u][1] = "admitted"

\* One event more for some uids.
LEMMA ReplyAppends ==
  ASSUME replies \in [Reqs -> Seq(Events)], RepliesWellFormed,
         NEW U \in SUBSET Reqs, NEW e \in Events, replies' = Sent(U, e), \A u \in U : Next1(u, e)
  PROVE  /\ replies' \in [Reqs -> Seq(Events)] /\ RepliesWellFormed'
         /\ \A u \in Reqs \ U : replies'[u] = replies[u]
         /\ \A u \in U : /\ ToSet(replies'[u]) = ToSet(replies[u]) \cup {e} /\ replies'[u] # <<>>
                         /\ replies'[u][1] = IF replies[u] = <<>> THEN e ELSE replies[u][1]
<1>1. \A u \in Reqs : replies'[u] = IF u \in U THEN Append(replies[u], e) ELSE replies[u]
  BY DEF Sent
<1>2. ASSUME NEW u \in U
      PROVE  /\ replies[u] \in Seq(Events) /\ replies'[u] \in Seq(Events)
             /\ Len(replies[u]) \in Nat /\ DOMAIN replies[u] = 1..Len(replies[u])
             /\ DOMAIN replies'[u] = 1..(Len(replies[u]) + 1)
             /\ \A i \in 1..Len(replies[u]) : replies'[u][i] = replies[u][i]
             /\ replies'[u][Len(replies[u]) + 1] = e
  <2> DEFINE r == replies[u]
             s == replies'[u]
  <2>1. r \in Seq(Events) /\ s = Append(r, e)
    BY <1>1
  <2> HIDE DEF r, s
  <2>2. /\ s \in Seq(Events) /\ Len(r) \in Nat /\ DOMAIN r = 1..Len(r)
        /\ DOMAIN s = 1..(Len(r) + 1) /\ s[Len(r) + 1] = e
        /\ \A i \in 1..Len(r) : s[i] = r[i]
    BY <2>1
  <2> QED BY <2>1, <2>2 DEF r, s
<1>3. replies' \in [Reqs -> Seq(Events)]
  <2>1. replies' = [u \in Reqs |-> IF u \in U THEN Append(replies[u], e) ELSE replies[u]]
    BY DEF Sent
  <2>2. \A u \in Reqs : (IF u \in U THEN Append(replies[u], e) ELSE replies[u]) \in Seq(Events)
    OBVIOUS
  <2> QED BY <2>1, <2>2
<1>4. ASSUME NEW u \in U
      PROVE  /\ ToSet(replies'[u]) = ToSet(replies[u]) \cup {e} /\ replies'[u] # <<>>
             /\ replies'[u][1] = IF replies[u] = <<>> THEN e ELSE replies[u][1]
  <2> DEFINE r == replies[u]
             s == replies'[u]
             n == Len(r)
  <2>1. /\ r \in Seq(Events) /\ s \in Seq(Events) /\ n \in Nat /\ n = Len(r)
        /\ DOMAIN r = 1..n /\ DOMAIN s = 1..(n + 1)
        /\ \A i \in 1..n : s[i] = r[i]
        /\ s[n + 1] = e
    BY <1>2
  <2> HIDE DEF r, s, n
  <2>2. ToSet(s) = ToSet(r) \cup {e}
    <3>1. ToSet(s) = {s[i] : i \in 1..(n + 1)} /\ ToSet(r) = {r[i] : i \in 1..n}
      BY <2>1 DEF ToSet
    <3>2. \A i \in 1..(n + 1) : i \in 1..n \/ i = n + 1
      BY <2>1
    <3>3. n + 1 \in 1..(n + 1) /\ \A i \in 1..n : i \in 1..(n + 1)
      BY <2>1
    <3> QED BY <2>1, <3>1, <3>2, <3>3
  <2>3. s # <<>>
    BY <2>1
  <2>4. s[1] = IF r = <<>> THEN e ELSE r[1]
    <3>1. CASE r = <<>>
      BY <2>1, <3>1
    <3>2. CASE r # <<>>
      <4>1. 1 \in 1..n
        BY <2>1, <3>2
      <4> QED BY <2>1, <3>2, <4>1
    <3> QED BY <3>1, <3>2
  <2> QED BY <2>2, <2>3, <2>4 DEF r, s
<1>5. RepliesWellFormed'
  <2> SUFFICES ASSUME NEW u \in Reqs, NEW i \in DOMAIN replies'[u], NEW j \in DOMAIN replies'[u], i < j
               PROVE  /\ replies'[u][i] # "aborted"
                      /\ replies'[u][i] \in {"stop", "length", "too_long"} => replies'[u][j] = "aborted"
                      /\ replies'[u][j] \in Sampled => replies'[u][1] = "admitted"
                      /\ replies'[u][j] \notin {"admitted", "too_long"}
    BY DEF RepliesWellFormed
  <2>1. CASE u \notin U
    BY <1>1, <2>1 DEF RepliesWellFormed
  <2>2. CASE u \in U
    <3> DEFINE n == Len(replies[u])
    <3>1. n \in Nat /\ i \in 1..(n + 1) /\ j \in 1..(n + 1) /\ DOMAIN replies[u] = 1..n
          /\ \A k \in 1..n : replies'[u][k] = replies[u][k]
          /\ replies'[u][n + 1] = e /\ replies[u] \in Seq(Events)
      BY <1>2, <2>2
    <3>2. n > 0 => replies[u] # <<>>
      BY <3>1
    <3> HIDE DEF n
    <3>3. i \in 1..n
      BY <3>1
    <3>4. replies'[u][i] = replies[u][i] /\ replies[u][i] \in ToSet(replies[u])
      BY <3>1, <3>3 DEF ToSet
    <3>5. n > 0 /\ replies[u] # <<>> /\ replies'[u][1] = replies[u][1]
      BY <3>1, <3>2, <3>3
    <3>6. CASE j \in 1..n
      <4>1. replies'[u][j] = replies[u][j]
        BY <3>1, <3>6
      <4> QED BY <3>1, <3>3, <3>4, <3>5, <3>6, <4>1 DEF RepliesWellFormed
    <3>7. CASE j = n + 1
      <4>1. replies'[u][j] = e
        BY <3>1, <3>7
      <4>2. Next1(u, e)
        BY <2>2
      <4> QED BY <3>4, <3>5, <4>1, <4>2 DEF Next1, Ending
    <3> QED BY <3>1, <3>6, <3>7
  <2> QED BY <2>1, <2>2
<1> QED BY <1>1, <1>3, <1>4, <1>5

\* No reply is sent, and less is held, waits and is unasked.
LEMMA QuietAnswers ==
  ASSUME Answers, RepliesWellFormed, replies' = replies, plan'.fresh = plan.fresh,
         Held' \subseteq Held, aborting \subseteq aborting', chunked' \subseteq chunked,
         \A u \in Reqs : request'[u] = NoRequest => request[u] = NoRequest,
         ToSet(pending') \ chunked' \subseteq ToSet(pending) \ chunked,
         acks' \cap aborting \subseteq acks
  PROVE  Answers' /\ RepliesWellFormed'
<1>1. RepliesWellFormed'
  BY DEF RepliesWellFormed
<1>2. Answers'
  BY DEF Answers
<1> QED BY <1>1, <1>2

\* A request is refused for its length before anything else is sent for it, or
\* waits with nothing sent.
LEMMA RecvUserAnswers ==
  ASSUME SchedulerAssumption, LoopInv, Barrier, Answers, RepliesWellFormed,
         NEW u \in Reqs, RecvUser(u)
  PROVE  Answers' /\ RepliesWellFormed'
<1>0. Types /\ Unasked
  BY DEF LoopInv
<1>1. /\ plan' = plan /\ Held' = Held /\ aborting' = aborting /\ chunked' = chunked /\ acks' = acks
      /\ request[u] = NoRequest /\ \A r \in Reqs : r # u => request'[r] = request[r]
      /\ \/ pending' = pending /\ replies' = replies
         \/ /\ u \notin ToSet(tombstones) /\ pending' = pending /\ replies' = Sent({u}, "too_long")
         \/ /\ u \notin ToSet(tombstones) /\ pending' = Append(pending, u) /\ replies' = replies
  BY <1>0 DEF RecvUser, batchVars, slotVars, Types, Held
<1>2. u \notin ToSet(pending) /\ u \notin Held
  BY <1>0, <1>1 DEF Unasked
<1>3. u \notin ToSet(tombstones) => u \notin aborting /\ replies[u] = <<>>
  BY <1>1 DEF Barrier, Answers
<1>4. request'[u] # NoRequest
  <2>1. PICK q \in ClientRequests : \E n : request' = [request EXCEPT ![u] = [q EXCEPT !.output = n]]
    BY DEF RecvUser
  <2>2. q.prompt # <<>> /\ q \in [prompt : Seq(Tokens) \ {<<>>}, output : Nat \ {0}]
    BY DEF SchedulerAssumption
  <2>3. request'[u].prompt = q.prompt
    BY <1>0, <2>1, <2>2 DEF Types
  <2> QED BY <2>2, <2>3 DEF NoRequest
<1>5. CASE pending' = pending /\ replies' = replies
  BY <1>1, <1>5, QuietAnswers
<1>6. CASE /\ u \notin ToSet(tombstones) /\ pending' = pending /\ replies' = Sent({u}, "too_long")
  <2>1. Next1(u, "too_long")
    BY <1>3, <1>6 DEF Next1, ToSet
  <2>2. /\ replies' \in [Reqs -> Seq(Events)] /\ RepliesWellFormed'
        /\ \A r \in Reqs \ {u} : replies'[r] = replies[r]
        /\ ToSet(replies'[u]) = ToSet(replies[u]) \cup {"too_long"}
    <3>1. replies \in [Reqs -> Seq(Events)] /\ {u} \in SUBSET Reqs /\ "too_long" \in Events
      BY DEF Answers, Events
    <3>2. \A r \in {u} : Next1(r, "too_long")
      BY <2>1
    <3> QED BY <1>6, <3>1, <3>2, ReplyAppends
  <2>3. "aborted" \notin ToSet(replies'[u])
    <3>1. ToSet(replies[u]) = {}
      BY <1>3, <1>6 DEF ToSet
    <3> QED BY <2>2, <3>1
  <2> QED BY <1>1, <1>2, <1>3, <1>4, <1>6, <2>2, <2>3 DEF Answers
<1>7. CASE /\ u \notin ToSet(tombstones) /\ pending' = Append(pending, u) /\ replies' = replies
  <2>1. ToSet(pending') = ToSet(pending) \cup {u}
    BY <1>0, <1>2, <1>7, AppendFacts DEF Types
  <2>2. RepliesWellFormed'
    BY <1>7 DEF RepliesWellFormed
  <2> QED BY <1>1, <1>3, <1>4, <1>7, <2>1, <2>2 DEF Answers
<1> QED BY <1>1, <1>5, <1>6, <1>7

\* The admission is the first that is sent, once for a prompt of many chunks.
LEMMA LaunchAnswers ==
  ASSUME SchedulerAssumption, LoopInv, Barrier, Answers, RepliesWellFormed, Launch
  PROVE  Answers' /\ RepliesWellFormed'
<1> DEFINE b == NextBatch
           B == ToSet(b.reqs)
<1>0. Types /\ Planned
  BY DEF LoopInv
<1>1. /\ loop = "launch" /\ b # NoBatch /\ slot' = slot /\ request' = request
      /\ plan' = EmptyPlan
      /\ ToSet(pending') = (ToSet(pending) \ B) \cup b.chunks
      /\ chunked' = (chunked \ B) \cup b.chunks
  BY LaunchFacts
<1>2. replies' = Sent(plan.fresh, "admitted") /\ acks' = acks /\ aborting' = aborting
  BY DEF Launch, msgVars
<1>3. /\ b.phase = "prefill" => b.reqs = plan.reqs
      /\ b.phase # "prefill" => plan.reqs = <<>>
  BY <1>1, BatchFacts
<1> HIDE DEF b
<1>4. plan.fresh \subseteq B /\ plan.fresh \subseteq ToSet(pending)
  <2>1. plan.fresh \subseteq ToSet(plan.reqs) /\ ToSet(plan.reqs) \subseteq ToSet(pending)
    BY <1>0, PlanIsPending DEF Planned
  <2>2. CASE b.phase = "prefill"
    BY <1>3, <2>1, <2>2
  <2>3. CASE b.phase # "prefill"
    BY <1>3, <2>1, <2>3 DEF ToSet
  <2> QED BY <2>2, <2>3
<1> HIDE DEF B
<1>5. \A u \in plan.fresh : u \in Reqs /\ replies[u] = <<>> /\ u \notin aborting
  <2>1. ToSet(pending) \subseteq Reqs
    BY <1>0, Uids
  <2> QED BY <1>4, <2>1 DEF Answers, Barrier
<1>6. \A u \in plan.fresh : Next1(u, "admitted")
  BY <1>5 DEF Next1, Sampled, ToSet
<1>7. /\ replies' \in [Reqs -> Seq(Events)] /\ RepliesWellFormed'
      /\ \A u \in Reqs \ plan.fresh : replies'[u] = replies[u]
      /\ \A u \in plan.fresh : /\ ToSet(replies'[u]) = {"admitted"} /\ replies'[u] # <<>>
                               /\ replies'[u][1] = "admitted"
  <2>1. plan.fresh \in SUBSET Reqs /\ "admitted" \in Events /\ replies \in [Reqs -> Seq(Events)]
    BY <1>5 DEF Events, Answers
  <2>2. /\ replies' \in [Reqs -> Seq(Events)] /\ RepliesWellFormed'
        /\ \A u \in Reqs \ plan.fresh : replies'[u] = replies[u]
        /\ \A u \in plan.fresh :
             /\ ToSet(replies'[u]) = ToSet(replies[u]) \cup {"admitted"} /\ replies'[u] # <<>>
             /\ replies'[u][1] = IF replies[u] = <<>> THEN "admitted" ELSE replies[u][1]
    BY <1>2, <1>6, <2>1, ReplyAppends
  <2>3. \A u \in plan.fresh : ToSet(replies[u]) = {}
    BY <1>5 DEF ToSet
  <2> QED BY <1>5, <2>2, <2>3
<1>8. plan'.fresh = {} /\ Held' = Held
  BY <1>1 DEF EmptyPlan, Held
<1>9. ToSet(pending') \ chunked' \subseteq (ToSet(pending) \ chunked) \ plan.fresh
  BY <1>1, <1>4
<1>10. ASSUME NEW u \in Reqs
       PROVE  /\ request'[u] = NoRequest /\ u \notin aborting' => replies'[u] = <<>>
              /\ u \in ToSet(pending') \ chunked' => replies'[u] = <<>>
              /\ u \in Held' \ plan'.fresh =>
                   /\ replies'[u] # <<>> /\ replies'[u][1] = "admitted"
                   /\ ToSet(replies'[u]) \cap Ending = {}
              /\ "aborted" \in ToSet(replies'[u]) => u \in aborting' \ acks' /\ u \notin Held'
  <2>1. CASE u \notin plan.fresh
    BY <1>1, <1>2, <1>7, <1>8, <1>9, <2>1 DEF Answers
  <2>2. CASE u \in plan.fresh
    <3>1. request[u] # NoRequest
      BY <1>4, <2>2 DEF LoopInv, Unasked
    <3>2. u \notin ToSet(pending') \ chunked'
      BY <1>9, <2>2
    <3>3. /\ ToSet(replies'[u]) = {"admitted"} /\ replies'[u] # <<>>
          /\ replies'[u][1] = "admitted"
      BY <1>7, <2>2
    <3> QED BY <1>1, <3>1, <3>2, <3>3 DEF Ending
  <2> QED BY <2>1, <2>2
<1> QED BY <1>7, <1>8, <1>10 DEF Answers

\* Only for a request that holds its slot a token goes out, and none after the last.
LEMMA DrainAnswers ==
  ASSUME SchedulerAssumption, LoopInv, Barrier, Answers, RepliesWellFormed,
         DrainChunk \/ DrainAborted \/ DrainEnded \/ DrainToken
  PROVE  Answers' /\ RepliesWellFormed'
<1>0. Types /\ Unasked /\ Waiting /\ Drains
  BY DEF LoopInv
<1>1. DrainStep
  BY DEF DrainChunk, DrainAborted, DrainEnded, DrainToken
<1>2. PICK d \in Reqs : d = Drained
  BY <1>1, DrainFacts
<1>3. /\ d \in ToSet(draining.reqs) /\ plan' = plan /\ plan.fresh = {}
      /\ pending' = pending /\ chunked' = chunked /\ request' = request
  BY <1>1, <1>2, DrainFacts
<1>4. acks' = acks /\ aborting' = aborting
  BY <1>1 DEF DrainStep, msgVars
<1>5. Held' \subseteq Held /\ (FreeReqResources(d) => d \notin Held')
  <2>1. CASE slot' = slot
    BY <1>0, <2>1, FreeFacts DEF Held
  <2>2. CASE FreeReqResources(d)
    BY <1>0, <2>2, FreeFacts
  <2> QED BY <1>2, <2>1, <2>2 DEF DrainChunk, DrainAborted, DrainEnded, DrainToken, slotVars
<1>6. CASE replies' = replies
  BY <1>3, <1>4, <1>5, <1>6, QuietAnswers
<1>7. CASE DrainToken
  <2>1. d \in Held /\ d \in Finals(draining)
    BY <1>0, <1>2, <1>3, <1>7 DEF DrainToken, Ended, Drains, Finals
  <2>2. d \notin ToSet(pending) /\ request[d] # NoRequest
    BY <1>0, <1>3, <2>1 DEF Waiting, Unasked
  <2>3. replies[d] # <<>> /\ replies[d][1] = "admitted" /\ ToSet(replies[d]) \cap Ending = {}
    BY <1>3, <2>1 DEF Answers
  <2>4. PICK event \in Sampled : /\ replies' = Sent({d}, event)
                                 /\ event # "token" => FreeReqResources(d)
    BY <1>2, <1>7 DEF DrainToken
  <2>5. Next1(d, event)
    BY <2>3, <2>4 DEF Next1, Ending, Sampled
  <2>6. /\ replies' \in [Reqs -> Seq(Events)] /\ RepliesWellFormed'
        /\ \A u \in Reqs \ {d} : replies'[u] = replies[u]
        /\ ToSet(replies'[d]) = ToSet(replies[d]) \cup {event} /\ replies'[d] # <<>>
        /\ replies'[d][1] = "admitted"
    <3>1. {d} \in SUBSET Reqs /\ event \in Events /\ replies \in [Reqs -> Seq(Events)]
      BY DEF Events, Answers
    <3> QED BY <2>3, <2>4, <2>5, <3>1, ReplyAppends
  <2>7. /\ "aborted" \notin ToSet(replies'[d])
        /\ d \in Held' => ToSet(replies'[d]) \cap Ending = {}
    BY <1>5, <2>3, <2>4, <2>6 DEF Ending, Sampled
  <2>8. ASSUME NEW u \in Reqs
        PROVE  /\ request'[u] = NoRequest /\ u \notin aborting' => replies'[u] = <<>>
               /\ u \in ToSet(pending') \ chunked' => replies'[u] = <<>>
               /\ u \in Held' \ plan'.fresh =>
                    /\ replies'[u] # <<>> /\ replies'[u][1] = "admitted"
                    /\ ToSet(replies'[u]) \cap Ending = {}
               /\ "aborted" \in ToSet(replies'[u]) => u \in aborting' \ acks' /\ u \notin Held'
    <3>1. CASE u # d
      BY <1>3, <1>4, <1>5, <2>6, <3>1 DEF Answers
    <3>2. CASE u = d
      BY <1>3, <2>2, <2>6, <2>7, <3>2
    <3> QED BY <3>1, <3>2
  <2> QED BY <1>3, <2>6, <2>8 DEF Answers
<1> QED BY <1>6, <1>7 DEF DrainChunk, DrainAborted, DrainEnded

\* The answer to an abort is the last that is sent.
LEMMA EndAnswers ==
  ASSUME SchedulerAssumption, LoopInv, Barrier, Answers, RepliesWellFormed, EndIteration
  PROVE  Answers' /\ RepliesWellFormed'
<1>1. /\ replies' = Sent(acks, "aborted") /\ acks' = {}
      /\ UNCHANGED <<request, aborting, pending, chunked, plan, slot>>
  BY DEF EndIteration, AcksDue, slotVars
<1>2. aborting \cap Held = {} /\ Held' = Held
  BY <1>1, EndBarrier DEF Held
<1>3. acks \subseteq aborting /\ aborting \subseteq Reqs /\ aborting \cap ToSet(pending) = {}
  BY DEF Barrier, SchedulerAssumption
<1>4. \A u \in acks : Next1(u, "aborted")
  BY <1>3 DEF Answers, Next1, Sampled
<1>5. /\ replies' \in [Reqs -> Seq(Events)] /\ RepliesWellFormed'
      /\ \A u \in Reqs \ acks : replies'[u] = replies[u]
  <2>1. acks \in SUBSET Reqs /\ "aborted" \in Events /\ replies \in [Reqs -> Seq(Events)]
    BY <1>3 DEF Events, Answers
  <2> QED BY <1>1, <1>4, <2>1, ReplyAppends
<1>6. ASSUME NEW u \in Reqs
      PROVE  /\ request'[u] = NoRequest /\ u \notin aborting' => replies'[u] = <<>>
             /\ u \in ToSet(pending') \ chunked' => replies'[u] = <<>>
             /\ u \in Held' \ plan'.fresh =>
                  /\ replies'[u] # <<>> /\ replies'[u][1] = "admitted"
                  /\ ToSet(replies'[u]) \cap Ending = {}
             /\ "aborted" \in ToSet(replies'[u]) => u \in aborting' \ acks' /\ u \notin Held'
  <2>1. CASE u \notin acks
    BY <1>1, <1>2, <1>5, <2>1 DEF Answers
  <2>2. CASE u \in acks
    BY <1>1, <1>2, <1>3, <2>2
  <2> QED BY <2>1, <2>2
<1> QED BY <1>1, <1>5, <1>6 DEF Answers

\* Every step keeps the replies in order.
LEMMA AnswersSteps ==
  ASSUME SchedulerAssumption, LoopInv, Barrier, Answers, RepliesWellFormed, [Next]_vars
  PROVE  Answers' /\ RepliesWellFormed'
<1>0. Types /\ Planned
  BY DEF LoopInv
<1>1. ASSUME NEW u \in Reqs, RecvUser(u) PROVE Answers' /\ RepliesWellFormed'
  BY <1>1, RecvUserAnswers
<1>2. ASSUME NEW u \in Reqs, RecvAbort(u) PROVE Answers' /\ RepliesWellFormed'
  <2>1. /\ plan' = plan /\ request' = request /\ replies' = replies /\ u \notin aborting
        /\ aborting' = aborting \cup {u} /\ acks' = acks \cup {u}
        /\ chunked' = chunked \ {u} /\ pending' = Without(pending, u)
    BY <1>2 DEF RecvAbort, batchVars
  <2>2. ToSet(pending') = ToSet(pending) \ {u}
    BY <1>0, <2>1, WithoutFacts DEF Types
  <2>3. Held' \subseteq Held
    <3>1. CASE slot' = slot
      BY <3>1 DEF Held
    <3>2. CASE FreeReqResources(u)
      BY <1>0, <3>2, FreeFacts
    <3> QED BY <1>2, <3>1, <3>2 DEF RecvAbort, slotVars
  <2> QED BY <2>1, <2>2, <2>3, QuietAnswers
<1>3. CASE RecvRebuild \/ StartIteration \/ ExecuteRebuild \/ ContinueChunk \/ StopAdmitting
           \/ RefuseNew \/ LaunchNothing
  <2>1. UNCHANGED <<replies, request, acks, aborting, pending, chunked, slot>>
    BY <1>3 DEF RecvRebuild, StartIteration, ExecuteRebuild, EndReceive, ContinueChunk, AddToPlan,
       StopAdmitting, RefuseNew, LaunchNothing, slotVars, msgVars
  <2>2. plan'.fresh = plan.fresh
    <3>1. CASE RecvRebuild \/ StopAdmitting \/ RefuseNew
      BY <3>1 DEF RecvRebuild, StopAdmitting, RefuseNew, batchVars
    <3>2. CASE ContinueChunk
      BY <3>2 DEF ContinueChunk, AddToPlan
    <3>3. CASE StartIteration \/ ExecuteRebuild
      <4>1. loop = "recv" /\ plan'.fresh = {}
        BY <3>3 DEF StartIteration, ExecuteRebuild, EndReceive, EmptyPlan
      <4> QED BY <1>0, <4>1 DEF Planned, ToSet
    <3>4. CASE LaunchNothing
      <4>1. plan.reqs = <<>> /\ plan'.fresh = {}
        BY <3>4 DEF LaunchNothing, HandOver, EmptyPlan, NextBatch, NoBatch
      <4> QED BY <1>0, <4>1 DEF Planned, ToSet
    <3> QED BY <1>3, <3>1, <3>2, <3>3, <3>4
  <2>3. Held' = Held
    BY <2>1 DEF Held
  <2> QED BY <2>1, <2>2, <2>3, QuietAnswers
<1>4. CASE AdmitNew
  <2>1. HasNext /\ NextUp \in ToSet(pending) /\ NextUp \in Reqs /\ NextUp \notin chunked
    BY <1>0, <1>4, NextUpFacts DEF AdmitNew
  <2>2. PICK u \in ToSet(pending) : u = NextUp
    BY <2>1
  <2>3. /\ slot' = [slot EXCEPT ![u] = Last(freeSlots)] /\ plan'.fresh = plan.fresh \cup {u}
        /\ UNCHANGED <<replies, request, acks, aborting, pending, chunked>>
    BY <1>4, <2>2 DEF AdmitNew, AddToPlan, msgVars
  <2>4. Held' \subseteq Held \cup {u}
    BY <1>0, <2>3 DEF Held, Types
  <2>5. u \in Reqs /\ u \notin chunked /\ replies[u] = <<>>
    BY <2>1, <2>2 DEF Answers
  <2>6. "aborted" \notin ToSet(replies[u])
    BY <2>5 DEF ToSet
  <2>7. RepliesWellFormed'
    BY <2>3 DEF RepliesWellFormed
  <2> QED BY <2>3, <2>4, <2>5, <2>6, <2>7 DEF Answers
<1>5. CASE Launch
  BY <1>5, LaunchAnswers
<1>6. CASE DrainChunk \/ DrainAborted \/ DrainEnded \/ DrainToken
  BY <1>6, DrainAnswers
<1>7. CASE EndIteration
  BY <1>7, EndAnswers
<1>8. CASE UNCHANGED vars
  BY <1>8, QuietAnswers DEF vars, slotVars, msgVars, batchVars, Held
<1> QED BY <1>1, <1>2, <1>3, <1>4, <1>5, <1>6, <1>7, <1>8 DEF Next, Receive, Loop

\* Both hold at the start.
LEMMA ReplyStarts ==
  ASSUME SchedulerAssumption, Init
  PROVE  ReplyInv
<1>1. /\ aborting = {} /\ acks = {} /\ tombstones = <<>> /\ replies = [r \in Reqs |-> <<>>]
      /\ pending = <<>> /\ slot = [r \in Reqs |-> NoSlot] /\ plan = EmptyPlan
  BY DEF Init
<1>2. ToSet(tombstones) = {} /\ IsInjective(tombstones) /\ tombstones \in Seq(MayAbort)
  BY <1>1 DEF ToSet, IsInjective
<1>3. Held = {} /\ ToSet(pending) = {} /\ plan.fresh = {}
  BY <1>1 DEF Held, ToSet, EmptyPlan
<1>4. \A u \in Reqs : replies[u] = <<>> /\ ToSet(replies[u]) = {} /\ DOMAIN replies[u] = {}
  BY <1>1 DEF ToSet
<1>5. Barrier
  BY <1>1, <1>2 DEF Barrier
<1>6. Answers
  BY <1>1, <1>3, <1>4 DEF Answers
<1> QED BY <1>4, <1>5, <1>6 DEF ReplyInv, RepliesWellFormed

\* So they always hold.
LEMMA ReplyAlways ==
  ASSUME Cardinality(MayAbort) <= MaxTombstones
  PROVE  Spec => []ReplyInv
<1>1. Init => ReplyInv
  BY SchedulerAssumption, ReplyStarts
<1>2. LoopInv /\ ReplyInv /\ [Next]_vars => ReplyInv'
  BY SchedulerAssumption, BarrierSteps, AnswersSteps DEF ReplyInv
<1> QED BY <1>1, <1>2, LoopAlways, PTL DEF Spec

(* What is sent for a uid reads: a prompt admission once, then tokens, one of  *)
(* them at most the last; or one refusal; and after the answer to an abort     *)
(* nothing more, even when the request itself arrives after its abort          *)
(* (_process_one_msg, _report_prompt_admissions, _process_last_data,           *)
(* _flush_abort_acks).  That late arrival is told by its tombstone, of which   *)
(* the code keeps the last MaxTombstones only.                                 *)
THEOREM RepliesAlwaysRead ==
  ASSUME Cardinality(MayAbort) <= MaxTombstones
  PROVE  Spec => []RepliesWellFormed
<1>1. ReplyInv => RepliesWellFormed
  BY DEF ReplyInv
<1> QED BY <1>1, ReplyAlways, PTL

(* The answer to an abort is a barrier: from then on the request holds no slot, *)
(* waits nowhere and runs nowhere, and no later message brings it back, while   *)
(* its tombstone is kept (_process_one_msg, abort_req, _flush_abort_acks).      *)
THEOREM AbortIsBarrier ==
  ASSUME Cardinality(MayAbort) <= MaxTombstones
  PROVE  Spec => []AckedHoldsNothing
<1>1. LoopInv /\ ReplyInv => AckedHoldsNothing
  <2> SUFFICES ASSUME LoopInv, ReplyInv, NEW u \in Reqs, "aborted" \in ToSet(replies[u])
               PROVE  slot[u] = NoSlot /\ u \notin ToSet(pending) \cup running \cup ToSet(plan.reqs)
    BY DEF AckedHoldsNothing
  <2>1. u \in aborting /\ u \notin Held
    BY DEF ReplyInv, Answers
  <2>2. u \notin ToSet(pending) \cup running
    BY <2>1 DEF ReplyInv, Barrier
  <2>3. ToSet(plan.reqs) \subseteq ToSet(pending)
    BY PlanIsPending DEF LoopInv
  <2> QED BY <2>1, <2>2, <2>3 DEF Held
<1> QED BY <1>1, LoopAlways, ReplyAlways, PTL
-----------------------------------------------------------------------------
(* One prompt at a time is cut in chunks. *)

\* The cut uses up the budget of its batch, and the cut prompt waits in front.
OneCut ==
  /\ \A u \in chunked : pending[1] = u
  /\ Len(plan.chunks) <= 1
  /\ plan.chunks # <<>> => plan.budget = 0

\* A request joins the batch only while there is budget, so after no cut.
LEMMA PlanCuts ==
  ASSUME Planned, OneCut, HasNext, NEW u \in Reqs, NEW from \in Nat, NEW fresh,
         PromptLen(u) \in Nat, from < PromptLen(u), AddToPlan(u, from, fresh)
  PROVE  OneCut'
<1> DEFINE size == Min({plan.budget, PromptLen(u) - from})
<1>1. /\ plan'.chunks = IF size < PromptLen(u) - from THEN Append(plan.chunks, u) ELSE plan.chunks
      /\ plan'.budget = plan.budget - size
      /\ UNCHANGED <<pending, chunked>>
  BY DEF AddToPlan
<1>2. plan.budget \in Nat /\ plan.budget > 0
  BY DEF Planned, HasNext
<1>3. size = IF plan.budget <= PromptLen(u) - from THEN plan.budget ELSE PromptLen(u) - from
  BY <1>2, OfTwo
<1> HIDE DEF size
<1>4. plan.chunks = <<>>
  BY <1>2 DEF OneCut
<1>5. CASE size < PromptLen(u) - from
  <2>1. plan'.chunks = <<u>> /\ plan'.budget = 0
    BY <1>1, <1>2, <1>3, <1>4, <1>5
  <2>2. Len(plan'.chunks) <= 1
    BY <2>1
  <2> QED BY <1>1, <2>1, <2>2 DEF OneCut
<1>6. CASE ~(size < PromptLen(u) - from)
  <2>1. plan'.chunks = <<>>
    BY <1>1, <1>4, <1>6
  <2> QED BY <1>1, <1>4, <2>1 DEF OneCut
<1> QED BY <1>5, <1>6

\* A list in front of another one keeps its first entry.
LEMMA FirstOfTwo ==
  ASSUME NEW S, NEW s \in Seq(S), NEW t \in Seq(S), Len(s) >= 1
  PROVE  (s \o t)[1] = s[1]
<1>1. Len(s) \in Nat /\ Len(t) \in Nat
  OBVIOUS
<1>2. \A i \in 1..(Len(s) + Len(t)) : (s \o t)[i] = IF i <= Len(s) THEN s[i] ELSE t[i - Len(s)]
  BY ConcatProperties
<1> QED BY <1>1, <1>2

\* Who waits in front stays there when a uid behind it goes away.
LEMMA FrontStays ==
  ASSUME NEW S, NEW s \in Seq(S), IsInjective(s), s # <<>>, NEW u, s[1] # u
  PROVE  Without(s, u)[1] = s[1]
<1>1. CASE u \notin ToSet(s)
  BY <1>1 DEF Without
<1>2. CASE u \in ToSet(s)
  <2>1. PICK k \in 1..Len(s) : s[k] = u
    BY <1>2 DEF ToSet
  <2>2. {i \in DOMAIN s : s[i] = u} = {k}
    BY <2>1 DEF IsInjective
  <2>3. Min({k}) = k /\ k # 1
    BY <2>1 DEF Min
  <2>4. Without(s, u) = SubSeq(s, 1, k - 1) \o SubSeq(s, k + 1, Len(s))
    BY <1>2, <2>2, <2>3 DEF Without, RemoveAt
  <2>5. /\ SubSeq(s, 1, k - 1) \in Seq(S) /\ Len(SubSeq(s, 1, k - 1)) = k - 1
        /\ SubSeq(s, 1, k - 1)[1] = s[1] /\ SubSeq(s, k + 1, Len(s)) \in Seq(S)
    BY <2>1, <2>3, SubSeqProperties
  <2> DEFINE l == SubSeq(s, 1, k - 1)
             m == SubSeq(s, k + 1, Len(s))
  <2>6. /\ l \in Seq(S) /\ m \in Seq(S) /\ Len(l) >= 1 /\ l[1] = s[1]
        /\ Without(s, u) = l \o m
    BY <2>1, <2>3, <2>4, <2>5
  <2> HIDE DEF l, m
  <2> QED BY <2>6, FirstOfTwo
<1> QED BY <1>1, <1>2

\* A launch takes the old cut into its batch and puts the new one in front.
LEMMA LaunchCuts ==
  ASSUME SchedulerAssumption, LoopInv, OneCut, Launch
  PROVE  OneCut'
<1> DEFINE b == NextBatch
<1>0. Types /\ Planned
  BY DEF LoopInv
<1>1. /\ loop = "launch" /\ b # NoBatch /\ plan' = EmptyPlan
      /\ chunked' = (chunked \ ToSet(b.reqs)) \cup b.chunks
  BY LaunchFacts
<1>2. pending' = IF b.phase = "prefill" THEN Requeue ELSE pending
  BY DEF Launch
<1>3. /\ b.phase = "prefill" => b.reqs = plan.reqs /\ b.chunks = ToSet(plan.chunks)
      /\ b.phase # "prefill" => b.chunks = {}
  BY <1>1, BatchFacts
<1>4. b.phase = "prefill" => plan.reqs # <<>>
  BY DEF NextBatch, NoBatch
<1> HIDE DEF b
<1>5. ASSUME NEW u \in chunked' PROVE pending'[1] = u
  <2>1. CASE b.phase # "prefill"
    BY <1>1, <1>2, <1>3, <1>5, <2>1 DEF OneCut
  <2>2. CASE b.phase = "prefill"
    <3>1. u \notin chunked \ ToSet(plan.reqs)
      <4> SUFFICES ASSUME u \in chunked PROVE u \in ToSet(plan.reqs)
        OBVIOUS
      <4>1. plan.reqs \in Seq(Reqs) /\ plan.reqs # <<>> /\ pending \in Seq(Reqs)
            /\ Len(plan.reqs) <= Len(pending) /\ plan.reqs = SubSeq(pending, 1, Len(plan.reqs))
        BY <1>0, <1>4, <2>2 DEF Planned, Types
      <4>2. 1 \in 1..Len(plan.reqs) /\ plan.reqs[1] = pending[1]
        BY <4>1
      <4> QED BY <4>1, <4>2 DEF OneCut, ToSet
    <3>2. u \in ToSet(plan.chunks) /\ plan.chunks \in Seq(Reqs) /\ Len(plan.chunks) <= 1
      BY <1>0, <1>1, <1>3, <1>5, <2>2, <3>1 DEF Planned, OneCut
    <3>3. Len(plan.chunks) = 1 /\ plan.chunks[1] = u
      <4> DEFINE c == plan.chunks
      <4>1. c \in Seq(Reqs) /\ Len(c) <= 1 /\ u \in ToSet(c)
        BY <3>2
      <4> HIDE DEF c
      <4>2. Len(c) \in Nat /\ DOMAIN c = 1..Len(c)
        BY <4>1
      <4>3. PICK i \in 1..Len(c) : u = c[i]
        BY <4>1, <4>2 DEF ToSet
      <4>4. i = 1 /\ Len(c) = 1
        BY <4>1, <4>2, <4>3
      <4> QED BY <4>3, <4>4 DEF c
    <3>4. SubSeq(pending, Len(plan.reqs) + 1, Len(pending)) \in Seq(Reqs)
      BY <1>0 DEF Types, Planned
    <3>5. Requeue[1] = plan.chunks[1]
      <4> DEFINE c == plan.chunks
                 m == SubSeq(pending, Len(plan.reqs) + 1, Len(pending))
      <4>1. c \in Seq(Reqs) /\ m \in Seq(Reqs) /\ Len(c) >= 1 /\ Requeue = c \o m
        BY <3>2, <3>3, <3>4 DEF Requeue
      <4> HIDE DEF c, m
      <4>2. (c \o m)[1] = c[1]
        BY <4>1, FirstOfTwo
      <4> QED BY <4>1, <4>2 DEF c
    <3> QED BY <1>2, <2>2, <3>3, <3>5
  <2> QED BY <2>1, <2>2
<1>6. plan'.chunks = <<>>
  BY <1>1 DEF EmptyPlan
<1> QED BY <1>5, <1>6 DEF OneCut

\* Every step keeps it.
LEMMA CutSteps ==
  ASSUME SchedulerAssumption, LoopInv, OneCut, [Next]_vars
  PROVE  OneCut'
<1>0. Types /\ Waiting /\ Planned
  BY DEF LoopInv
<1>1. ASSUME NEW u \in Reqs, RecvUser(u) PROVE OneCut'
  <2>1. plan' = plan /\ chunked' = chunked
        /\ (pending' = pending \/ pending' = Append(pending, u))
    BY <1>1 DEF RecvUser, batchVars
  <2>2. ASSUME NEW v \in chunked PROVE pending'[1] = v
    <3>1. v \in ToSet(pending) /\ pending \in Seq(Reqs)
      BY <1>0 DEF Types
    <3>2. Len(pending) >= 1
      BY <3>1 DEF ToSet
    <3> QED BY <2>1, <3>1, <3>2 DEF OneCut
  <2> QED BY <2>1, <2>2 DEF OneCut
<1>2. ASSUME NEW u \in Reqs, RecvAbort(u) PROVE OneCut'
  <2>1. plan' = plan /\ chunked' = chunked \ {u} /\ pending' = Without(pending, u)
    BY <1>2 DEF RecvAbort, batchVars
  <2>2. ASSUME NEW v \in chunked, v # u PROVE pending'[1] = v
    <3>1. v \in ToSet(pending) /\ pending \in Seq(Reqs) /\ IsInjective(pending)
      BY <1>0 DEF Types
    <3>2. pending # <<>>
      BY <3>1 DEF ToSet
    <3>3. pending[1] = v
      BY DEF OneCut
    <3> QED BY <2>1, <2>2, <3>1, <3>2, <3>3, FrontStays
  <2> QED BY <2>1, <2>2 DEF OneCut
<1>3. CASE RecvRebuild \/ StopAdmitting \/ RefuseNew
  BY <1>3 DEF RecvRebuild, StopAdmitting, RefuseNew, batchVars, OneCut
<1>4. CASE StartIteration \/ ExecuteRebuild
  <2>1. pending' = pending /\ chunked' = chunked /\ plan'.chunks = <<>>
    BY <1>4 DEF StartIteration, ExecuteRebuild, EndReceive, EmptyPlan
  <2> QED BY <2>1 DEF OneCut
<1>5. CASE ContinueChunk
  <2>1. HasNext /\ NextUp \in chunked /\ AddToPlan(NextUp, cached[NextUp], {})
    BY <1>5 DEF ContinueChunk
  <2>2. PICK u \in Reqs : u = NextUp
    BY <1>0, <2>1, NextUpFacts
  <2>3. cached[u] \in Nat /\ cached[u] < PromptLen(u) /\ PromptLen(u) \in Nat
    <3>1. u \in chunked /\ u \in ToSet(pending)
      BY <1>0, <2>1, <2>2 DEF Types
    <3>2. cached[u] < PromptLen(u)
      BY <1>0, <3>1 DEF Waiting
    <3> QED BY <1>0, <3>2 DEF Types, PromptLen
  <2> QED BY <1>0, <2>1, <2>2, <2>3, PlanCuts
<1>6. CASE AdmitNew
  <2>1. HasNext /\ NextUp \in ToSet(pending)
        /\ AddToPlan(NextUp, Match(NextUp) * PageSize, {NextUp})
    BY <1>0, <1>6, NextUpFacts DEF AdmitNew
  <2>2. PICK u \in Reqs : u = NextUp
    BY <1>0, <2>1, NextUpFacts
  <2>3. request[u].prompt # <<>> /\ PromptLen(u) \in Nat
    BY <1>0, <2>1, <2>2 DEF Waiting, Accepted, PromptLen, Types
  <2>4. Match(u) * PageSize \in Nat /\ Match(u) * PageSize < PromptLen(u)
    BY <1>0, <1>6, <2>2, <2>3, AdmitFacts
  <2> QED BY <1>0, <2>1, <2>2, <2>3, <2>4, PlanCuts
<1>7. CASE Launch
  BY <1>7, LaunchCuts
<1>8. CASE LaunchNothing
  BY <1>8 DEF LaunchNothing, HandOver, EmptyPlan, OneCut
<1>9. CASE DrainChunk \/ DrainAborted \/ DrainEnded \/ DrainToken \/ EndIteration
  BY <1>9 DEF DrainChunk, DrainAborted, DrainEnded, DrainToken, DrainStep, EndIteration, OneCut
<1>10. CASE UNCHANGED vars
  BY <1>10 DEF vars, batchVars, OneCut
<1> QED BY <1>1, <1>2, <1>3, <1>4, <1>5, <1>6, <1>7, <1>8, <1>9, <1>10 DEF Next, Receive, Loop

\* So it always holds.
LEMMA CutAlways == Spec => []OneCut
<1>1. Init => OneCut
  <2>1. Init => chunked = {} /\ plan.chunks = <<>>
    BY DEF Init, EmptyPlan
  <2> QED BY <2>1 DEF OneCut
<1>2. LoopInv /\ OneCut /\ [Next]_vars => OneCut'
  BY SchedulerAssumption, CutSteps
<1> QED BY <1>1, <1>2, LoopAlways, PTL DEF Spec

(* At most one prompt is cut in chunks at a time, and it is the next to go on: *)
(* a batch never leaves two half-computed prompts that hold pages and wait for *)
(* each other (PrefillAdder._add_one_req, PrefillManager.pending_list).        *)
THEOREM OneAlwaysChunked == Spec => []OneChunkedPrompt
<1>1. LoopInv /\ OneCut => OneChunkedPrompt
  <2> SUFFICES ASSUME LoopInv, OneCut PROVE Cardinality(chunked) <= 1
    BY DEF OneChunkedPrompt, OneCut
  <2>1. CASE chunked = {}
    BY <2>1, FS_EmptySet
  <2>2. CASE chunked # {}
    <3>1. chunked = {pending[1]}
      BY <2>2 DEF OneCut
    <3>2. Cardinality({pending[1]}) = 1
      BY FS_Singleton
    <3> QED BY <3>1, <3>2
  <2> QED BY <2>1, <2>2
<1> QED BY <1>1, LoopAlways, CutAlways, PTL

-----------------------------------------------------------------------------
(* The device is ahead of the host by the batches that are not drained. *)

\* Whether r is one token further in batch b.
Of(b, r) == IF r \in Finals(b) THEN 1 ELSE 0

\* No token was sent for what has not arrived or waits, and what holds its slot
\* past its prompt has computed the prompt, the tokens sent, and one for each
\* batch not drained, but for the last sampled.
Ahead ==
  /\ replies \in [Reqs -> Seq(Events)]
  /\ \A r \in Reqs :
       /\ request[r] = NoRequest \/ r \in ToSet(pending) => TokensSent(r) = 0
       /\ r \in Held /\ cached[r] >= PromptLen(r) =>
            cached[r] + 1 = PromptLen(r) + TokensSent(r) + Of(last, r) + Of(draining, r)

\* A number of tokens is sent.
LEMMA TokensNat ==
  ASSUME replies \in [Reqs -> Seq(Events)], NEW r \in Reqs
  PROVE  TokensSent(r) \in Nat
<1>1. IsFiniteSet(DOMAIN replies[r])
  <2>1. replies[r] \in Seq(Events)
    OBVIOUS
  <2>2. DOMAIN replies[r] = 1..Len(replies[r]) /\ Len(replies[r]) \in Nat
    BY <2>1
  <2> QED BY <2>2, FS_Interval
<1>2. {i \in DOMAIN replies[r] : replies[r][i] \in Sampled} \subseteq DOMAIN replies[r]
  OBVIOUS
<1> QED BY <1>1, <1>2, FS_Subset, FS_CardinalityType DEF TokensSent

\* The tokens sent after one event more for some uids.
LEMMA TokenCount ==
  ASSUME replies \in [Reqs -> Seq(Events)],
         NEW U \in SUBSET Reqs, NEW e \in Events, replies' = Sent(U, e)
  PROVE  /\ replies' \in [Reqs -> Seq(Events)]
         /\ \A u \in Reqs : /\ TokensSent(u) \in Nat
                            /\ TokensSent(u)' = IF u \in U /\ e \in Sampled THEN TokensSent(u) + 1
                                                                            ELSE TokensSent(u)
<1>1. replies' = [u \in Reqs |-> IF u \in U THEN Append(replies[u], e) ELSE replies[u]]
  BY DEF Sent
<1>2. \A u \in Reqs : (IF u \in U THEN Append(replies[u], e) ELSE replies[u]) \in Seq(Events)
  OBVIOUS
<1>3. ASSUME NEW u \in Reqs
      PROVE  /\ TokensSent(u) \in Nat
             /\ TokensSent(u)' = IF u \in U /\ e \in Sampled THEN TokensSent(u) + 1
                                                             ELSE TokensSent(u)
  <2> DEFINE r == replies[u]
             s == replies'[u]
             n == Len(r)
             I == {i \in DOMAIN r : r[i] \in Sampled}
             J == {i \in DOMAIN s : s[i] \in Sampled}
  <2>1. /\ r \in Seq(Events) /\ n \in Nat /\ DOMAIN r = 1..n /\ n + 1 \notin 1..n
        /\ TokensSent(u) = Cardinality(I) /\ TokensSent(u)' = Cardinality(J)
    BY DEF TokensSent
  <2>2. s = IF u \in U THEN Append(r, e) ELSE r
    BY <1>1
  <2> HIDE DEF r, s, n
  <2>3. IsFiniteSet(I) /\ Cardinality(I) \in Nat
    <3>1. IsFiniteSet(1..n) /\ I \subseteq 1..n
      BY <2>1, FS_Interval
    <3> QED BY <3>1, FS_Subset, FS_CardinalityType
  <2>4. CASE u \notin U
    BY <2>1, <2>2, <2>3, <2>4
  <2>5. CASE u \in U
    <3>1. /\ DOMAIN s = (1..n) \cup {n + 1} /\ s[n + 1] = e
          /\ \A i \in 1..n : s[i] = r[i]
      BY <2>1, <2>2, <2>5 DEF n
    <3>2. CASE e \in Sampled
      <4>1. J = I \cup {n + 1} /\ n + 1 \notin I
        BY <2>1, <3>1, <3>2
      <4>2. Cardinality(J) = Cardinality(I) + 1
        BY <2>3, <4>1, FS_AddElement
      <4> QED BY <2>1, <2>3, <2>5, <3>2, <4>2
    <3>3. CASE e \notin Sampled
      <4>1. J = I
        BY <2>1, <3>1, <3>3
      <4> QED BY <2>1, <2>3, <3>3, <4>1
    <3> QED BY <3>2, <3>3
  <2> QED BY <2>4, <2>5
<1> QED BY <1>1, <1>2, <1>3

\* No event is sent.
LEMMA TokensSame ==
  ASSUME replies' = replies
  PROVE  \A r \in Reqs : TokensSent(r)' = TokensSent(r)
  BY DEF TokensSent

\* The same sum in other parts.
LEMMA SameSum ==
  ASSUME NEW c \in Nat, NEW p \in Nat, NEW t \in Nat, NEW x \in Nat, NEW y \in Nat,
         NEW v \in Nat, NEW w \in Nat, c + 1 = p + t + x + y, v + w = x + y
  PROVE  c + 1 = p + t + v + w
  OBVIOUS

\* A step that sends no token, holds and asks no more, and leaves what is held
\* and the batches as they are.
LEMMA QuietAhead ==
  ASSUME Types, Ahead, replies' \in [Reqs -> Seq(Events)],
         \A r \in Reqs : TokensSent(r)' = TokensSent(r),
         \A r \in Reqs : request'[r] = NoRequest \/ r \in ToSet(pending') =>
                           request[r] = NoRequest \/ r \in ToSet(pending),
         \A r \in Reqs : r \in Held' /\ cached'[r] >= PromptLen(r)' =>
                           /\ r \in Held /\ cached'[r] = cached[r] /\ request'[r] = request[r]
                           /\ Of(last', r) + Of(draining', r) = Of(last, r) + Of(draining, r)
  PROVE  Ahead'
<1>1. \A b, r : Of(b, r) \in Nat
  BY DEF Of
<1>2. \A r \in Reqs : PromptLen(r) \in Nat
  BY DEF Types, PromptLen
<1>3. \A r \in Reqs : TokensSent(r) \in Nat
  BY TokensNat DEF Ahead
<1>4. ASSUME NEW r \in Reqs
      PROVE  /\ request'[r] = NoRequest \/ r \in ToSet(pending') => TokensSent(r)' = 0
             /\ r \in Held' /\ cached'[r] >= PromptLen(r)' =>
                  cached'[r] + 1 = PromptLen(r)' + TokensSent(r)' + Of(last', r) + Of(draining', r)
  <2>1. request'[r] = NoRequest \/ r \in ToSet(pending') => TokensSent(r)' = 0
    BY DEF Ahead
  <2>2. ASSUME r \in Held', cached'[r] >= PromptLen(r)'
        PROVE  cached'[r] + 1 = PromptLen(r)' + TokensSent(r)' + Of(last', r) + Of(draining', r)
    <3>1. PromptLen(r)' = PromptLen(r) /\ r \in Held /\ cached'[r] = cached[r]
      BY <2>2 DEF PromptLen
    <3>2. cached[r] + 1 = PromptLen(r) + TokensSent(r) + Of(last, r) + Of(draining, r)
      BY <2>2, <3>1 DEF Ahead
    <3>3. Of(last', r) + Of(draining', r) = Of(last, r) + Of(draining, r)
      BY <2>2
    <3>4. TokensSent(r)' = TokensSent(r) /\ PromptLen(r) \in Nat /\ TokensSent(r) \in Nat
      BY <1>2, <1>3
    <3>5. /\ Of(last', r) \in Nat /\ Of(draining', r) \in Nat
          /\ Of(last, r) \in Nat /\ Of(draining, r) \in Nat
      BY <1>1
    <3>6. cached[r] \in Nat
      BY DEF Types
    <3>7. cached[r] + 1 = PromptLen(r) + TokensSent(r) + Of(last', r) + Of(draining', r)
      BY <3>2, <3>3, <3>4, <3>5, <3>6, SameSum
    <3> QED BY <3>1, <3>4, <3>7
  <2> QED BY <2>1, <2>2
<1> QED BY <1>4 DEF Ahead, Of, Finals

\* A launched batch puts its requests one token further ahead.
LEMMA LaunchAhead ==
  ASSUME SchedulerAssumption, LoopInv, Ahead, Launch
  PROVE  Ahead'
<1> DEFINE b == NextBatch
           B == ToSet(b.reqs)
<1>0. Types /\ Waiting /\ Computing /\ Decoding /\ Planned /\ Launched /\ Drains
  BY DEF LoopInv
<1>1. /\ loop = "launch" /\ b # NoBatch /\ slot' = slot /\ request' = request
      /\ draining' = IF Overlap THEN last ELSE b
      /\ last' = IF Overlap THEN b ELSE NoBatch
      /\ ToSet(pending') = (ToSet(pending) \ B) \cup b.chunks
      /\ \A r \in Reqs :
           /\ r \notin B => cached'[r] = cached[r]
           /\ r \in B => cached'[r] = Dev(b)[r]
           /\ r \in b.chunks => cached'[r] < PromptLen(r)
           /\ r \in Finals(b) => cached'[r] = DeviceLen(r)
           /\ cached'[r] \in Nat
  BY LaunchFacts
<1>2. /\ b.phase = "prefill" => B \subseteq ToSet(pending)
      /\ b.phase # "prefill" => B = running /\ b.chunks = {}
      /\ b.chunks \subseteq B
      /\ \A r \in B : r \notin b.chunks /\ b.phase = "prefill" => DeviceLen(r) = PromptLen(r)
  BY <1>1, BatchFacts
<1> HIDE DEF b
<1>3. B = ToSet(b.reqs) /\ Finals(b) = B \ b.chunks
  BY DEF Finals
<1> HIDE DEF B
<1>4. /\ replies' \in [Reqs -> Seq(Events)]
      /\ \A r \in Reqs : TokensSent(r) \in Nat /\ TokensSent(r)' = TokensSent(r)
  <2>1. plan.fresh \in SUBSET Reqs
    BY <1>0, PlanIsPending, Uids DEF Planned
  <2>2. replies' = Sent(plan.fresh, "admitted") /\ "admitted" \in Events \ Sampled
    BY DEF Launch, Events, Sampled
  <2> QED BY <2>1, <2>2, TokenCount DEF Ahead
<1>5. ToSet(pending') \subseteq ToSet(pending)
  BY <1>1, <1>2
<1>6. \A r : /\ Of(draining, r) = 0 /\ Of(last', r) + Of(draining', r) = Of(b, r) + Of(last, r)
             /\ Of(last, r) \in {0, 1} /\ Of(b, r) = IF r \in Finals(b) THEN 1 ELSE 0
  <2>1. draining = NoBatch /\ (~Overlap => last = NoBatch)
    BY <1>0, <1>1 DEF Drains, Launched
  <2>2. \A r : Of(NoBatch, r) = 0
    BY DEF Of, Finals, NoBatch, ToSet
  <2>3. \A r : Of(last, r) \in {0, 1} /\ Of(b, r) \in {0, 1}
    BY DEF Of
  <2>4. CASE Overlap
    BY <1>1, <2>1, <2>2, <2>3, <2>4 DEF Of
  <2>5. CASE ~Overlap
    BY <1>1, <2>1, <2>2, <2>3, <2>5 DEF Of
  <2> QED BY <2>4, <2>5
<1>7. ASSUME NEW r \in Reqs, r \in Held', cached'[r] >= PromptLen(r)
      PROVE  cached'[r] + 1 = PromptLen(r) + TokensSent(r) + Of(b, r) + Of(last, r)
  <2>1. /\ r \in Held /\ PromptLen(r) \in Nat /\ cached[r] \in Nat /\ Of(last, r) \in {0, 1}
        /\ TokensSent(r) \in Nat
    <3>1. r \in Held
      BY <1>1, <1>7 DEF Held
    <3>2. request[r].prompt \in Seq(Tokens) /\ cached[r] \in Nat
      BY <1>0 DEF Types
    <3>3. PromptLen(r) \in Nat
      BY <3>2 DEF PromptLen
    <3> QED BY <1>4, <1>6, <3>1, <3>2, <3>3
  <2>2. cached[r] >= PromptLen(r) =>
          cached[r] + 1 = PromptLen(r) + TokensSent(r) + Of(last, r)
    BY <1>6, <2>1 DEF Ahead
  <2>3. CASE r \notin B
    <3>1. cached'[r] = cached[r] /\ Of(b, r) = 0
      BY <1>1, <1>3, <1>6, <2>3
    <3> QED BY <1>7, <2>1, <2>2, <3>1
  <2>4. CASE r \in B
    <3>1. r \notin b.chunks
      <4>1. cached'[r] \in Nat /\ cached'[r] >= PromptLen(r)
        BY <1>1, <1>7
      <4>2. ~(cached'[r] < PromptLen(r))
        BY <2>1, <4>1
      <4> QED BY <1>1, <4>2
    <3>2. r \in Finals(b) /\ cached'[r] = DeviceLen(r) /\ Of(b, r) = 1
      BY <1>1, <1>3, <1>6, <2>4, <3>1
    <3>3. CASE b.phase = "prefill"
      <4>1. DeviceLen(r) = PromptLen(r) /\ r \in ToSet(pending)
        BY <1>2, <2>4, <3>1, <3>3
      <4>2. TokensSent(r) = 0 /\ Of(last, r) = 0
        BY <1>0, <4>1 DEF Ahead, Waiting, Of
      <4> QED BY <2>1, <3>2, <4>1, <4>2
    <3>4. CASE b.phase # "prefill"
      <4>1. cached[r] >= PromptLen(r)
        BY <1>0, <1>2, <2>4, <3>4 DEF Decoding
      <4>2. DeviceLen(r) = cached[r] + 1
        BY <1>0, <2>1, <4>1 DEF Computing
      <4> QED BY <2>1, <2>2, <3>2, <4>1, <4>2
    <3> QED BY <3>3, <3>4
  <2> QED BY <2>3, <2>4
<1>8. ASSUME NEW r \in Reqs
      PROVE  /\ request'[r] = NoRequest \/ r \in ToSet(pending') => TokensSent(r)' = 0
             /\ r \in Held' /\ cached'[r] >= PromptLen(r)' =>
                  cached'[r] + 1 = PromptLen(r)' + TokensSent(r)' + Of(last', r) + Of(draining', r)
  <2>1. request'[r] = NoRequest \/ r \in ToSet(pending') => TokensSent(r)' = 0
    BY <1>1, <1>4, <1>5 DEF Ahead
  <2>2. ASSUME r \in Held', cached'[r] >= PromptLen(r)'
        PROVE  cached'[r] + 1 = PromptLen(r)' + TokensSent(r)' + Of(last', r) + Of(draining', r)
    <3>1. PromptLen(r)' = PromptLen(r) /\ TokensSent(r)' = TokensSent(r)
      BY <1>1, <1>4 DEF PromptLen
    <3>2. cached'[r] + 1 = PromptLen(r) + TokensSent(r) + Of(b, r) + Of(last, r)
      BY <1>7, <2>2, <3>1
    <3>3. /\ PromptLen(r) \in Nat /\ TokensSent(r) \in Nat /\ Of(b, r) \in Nat /\ Of(last, r) \in Nat
          /\ Of(last', r) \in Nat /\ Of(draining', r) \in Nat
      BY <1>0, <1>4 DEF Types, PromptLen, Of
    <3>4. Of(last', r) + Of(draining', r) = Of(b, r) + Of(last, r) /\ cached'[r] \in Nat
      BY <1>1, <1>6
    <3>5. cached'[r] + 1 = PromptLen(r) + TokensSent(r) + Of(last', r) + Of(draining', r)
      BY <3>2, <3>3, <3>4, SameSum
    <3> QED BY <3>1, <3>5
  <2> QED BY <2>1, <2>2
<1> QED BY <1>4, <1>8 DEF Ahead, Of, Finals

\* A drained token is one that the device is no longer ahead of.
LEMMA DrainAhead ==
  ASSUME SchedulerAssumption, LoopInv, Ahead,
         DrainChunk \/ DrainAborted \/ DrainEnded \/ DrainToken
  PROVE  Ahead'
<1>0. Types /\ Unasked /\ Waiting /\ Computing
  BY DEF LoopInv
<1>1. DrainStep
  BY DEF DrainChunk, DrainAborted, DrainEnded, DrainToken
<1>2. PICK d \in Reqs : d = Drained
  BY <1>1, DrainFacts
<1>3. /\ d \in ToSet(draining.reqs) /\ Finals(draining') = Finals(draining) \ {d}
      /\ UNCHANGED <<request, last, pending>>
  BY <1>1, <1>2, DrainFacts DEF Finals
\* What ends is not held any more, the rest has what it had.
<1>4. /\ \A r \in Reqs : r \in Held' => r \in Held /\ cached'[r] = cached[r]
      /\ FreeReqResources(d) => d \notin Held'
  <2>1. CASE slot' = slot /\ cached' = cached
    BY <1>0, <2>1, FreeFacts DEF Held
  <2>2. CASE FreeReqResources(d)
    BY <1>0, <2>2, FreeFacts
  <2>3. (slot' = slot /\ cached' = cached) \/ FreeReqResources(d)
    BY <1>2 DEF DrainChunk, DrainAborted, DrainEnded, DrainToken, slotVars, kvVars
  <2> QED BY <2>1, <2>2, <2>3
<1>5. \A r \in Reqs : r # d => Of(draining', r) = Of(draining, r) /\ Of(last', r) = Of(last, r)
  BY <1>3 DEF Of
<1>6. CASE DrainChunk \/ DrainAborted \/ DrainEnded
  <2>1. replies' = replies
    BY <1>6 DEF DrainChunk, DrainAborted, DrainEnded
  <2>2. d \in Held' => d \notin Finals(draining)
    BY <1>0, <1>2, <1>4, <1>6 DEF DrainChunk, DrainAborted, DrainEnded, Ended, Finals, Computing
  <2>3. d \in Held' => Of(draining', d) = Of(draining, d) /\ Of(last', d) = Of(last, d)
    BY <1>3, <2>2 DEF Of
  <2>4. replies' \in [Reqs -> Seq(Events)] /\ \A r \in Reqs : TokensSent(r)' = TokensSent(r)
    BY <2>1, TokensSame DEF Ahead
  <2>5. \A r \in Reqs : r \in Held' =>
          /\ r \in Held /\ cached'[r] = cached[r] /\ request'[r] = request[r]
          /\ Of(last', r) + Of(draining', r) = Of(last, r) + Of(draining, r)
    BY <1>3, <1>4, <1>5, <2>3
  <2>6. \A r \in Reqs : request'[r] = NoRequest \/ r \in ToSet(pending') =>
                          request[r] = NoRequest \/ r \in ToSet(pending)
    BY <1>3
  <2> QED BY <1>0, <2>4, <2>5, <2>6, QuietAhead
<1>7. CASE DrainToken
  <2>1. d \in Finals(draining)
    BY <1>2, <1>3, <1>7 DEF DrainToken, Finals
  <2>2. d \notin ToSet(pending) /\ request[d] # NoRequest
    BY <1>0, <1>3, <2>1 DEF Waiting, Unasked
  <2>3. PICK event \in Sampled : /\ replies' = Sent({d}, event)
                                 /\ event # "token" => FreeReqResources(d)
    BY <1>2, <1>7 DEF DrainToken
  <2>4. /\ replies' \in [Reqs -> Seq(Events)]
        /\ \A r \in Reqs : /\ TokensSent(r) \in Nat
                           /\ TokensSent(r)' = IF r = d THEN TokensSent(r) + 1 ELSE TokensSent(r)
    <3>1. {d} \in SUBSET Reqs /\ event \in Events /\ replies \in [Reqs -> Seq(Events)]
      BY DEF Events, Ahead
    <3>2. /\ replies' \in [Reqs -> Seq(Events)]
          /\ \A r \in Reqs :
               /\ TokensSent(r) \in Nat
               /\ TokensSent(r)' = IF r \in {d} /\ event \in Sampled THEN TokensSent(r) + 1
                                                                    ELSE TokensSent(r)
      BY <2>3, <3>1, TokenCount
    <3>3. \A r : (r \in {d} /\ event \in Sampled) <=> r = d
      BY <2>3
    <3> QED BY <3>2, <3>3
  <2>5. Of(draining, d) = 1 /\ Of(draining', d) = 0 /\ Of(last', d) = Of(last, d)
    BY <1>3, <2>1 DEF Of
  <2>6. ASSUME NEW r \in Reqs
        PROVE  /\ request'[r] = NoRequest \/ r \in ToSet(pending') => TokensSent(r)' = 0
               /\ r \in Held' /\ cached'[r] >= PromptLen(r)' =>
                    cached'[r] + 1 = PromptLen(r)' + TokensSent(r)' + Of(last', r) + Of(draining', r)
    <3>1. request'[r] = NoRequest \/ r \in ToSet(pending') => TokensSent(r)' = 0
      BY <1>3, <2>2, <2>4 DEF Ahead
    <3>2. ASSUME r \in Held', cached'[r] >= PromptLen(r)'
          PROVE  cached'[r] + 1 = PromptLen(r)' + TokensSent(r)' + Of(last', r) + Of(draining', r)
      <4>1. PromptLen(r)' = PromptLen(r) /\ r \in Held /\ cached'[r] = cached[r]
        BY <1>3, <1>4, <3>2 DEF PromptLen
      <4>2. cached[r] + 1 = PromptLen(r) + TokensSent(r) + Of(last, r) + Of(draining, r)
        BY <3>2, <4>1 DEF Ahead
      <4>3. /\ PromptLen(r) \in Nat /\ TokensSent(r) \in Nat
            /\ Of(last, r) \in Nat /\ Of(draining, r) \in Nat
        BY <1>0, <2>4 DEF Types, PromptLen, Of
      <4>4. CASE r # d
        BY <1>5, <2>4, <4>1, <4>2, <4>4
      <4>5. CASE r = d
        BY <2>4, <2>5, <4>1, <4>2, <4>3, <4>5
      <4> QED BY <4>4, <4>5
    <3> QED BY <3>1, <3>2
  <2> QED BY <2>4, <2>6 DEF Ahead, Of, Finals
<1> QED BY <1>6, <1>7

\* Every step keeps it.
LEMMA AheadSteps ==
  ASSUME SchedulerAssumption, LoopInv, Ahead, [Next]_vars
  PROVE  Ahead'
<1>0. Types /\ Unasked /\ Waiting /\ Planned /\ Launched /\ Drains
  BY DEF LoopInv
<1>1. ASSUME NEW u \in Reqs, RecvUser(u) PROVE Ahead'
  <2>1. /\ request[u] = NoRequest /\ \A r \in Reqs : r # u => request'[r] = request[r]
        /\ UNCHANGED <<last, draining, slot, cached>>
        /\ pending' = pending \/ pending' = Append(pending, u)
        /\ replies' = replies \/ replies' = Sent({u}, "too_long")
    BY <1>0, <1>1 DEF RecvUser, Types, kvVars, slotVars, batchVars
  <2>2. u \notin Held /\ Held' = Held
    BY <1>0, <2>1 DEF Unasked, Held
  <2>3. ToSet(pending') \subseteq ToSet(pending) \cup {u}
    <3>1. CASE pending' = pending
      BY <3>1
    <3>2. CASE pending' = Append(pending, u)
      <4>1. u \notin ToSet(pending)
        BY <1>0, <2>1 DEF Unasked
      <4> QED BY <1>0, <3>2, <4>1, AppendFacts DEF Types
    <3> QED BY <2>1, <3>1, <3>2
  <2>4. replies' \in [Reqs -> Seq(Events)] /\ \A r \in Reqs : TokensSent(r)' = TokensSent(r)
    <3>1. CASE replies' = replies
      BY <3>1, TokensSame DEF Ahead
    <3>2. CASE replies' = Sent({u}, "too_long")
      <4>1. {u} \in SUBSET Reqs /\ "too_long" \in Events \ Sampled
        BY DEF Events, Sampled
      <4> QED BY <3>2, <4>1, TokenCount DEF Ahead
    <3> QED BY <2>1, <3>1, <3>2
  <2>5. \A r \in Reqs : request'[r] = NoRequest \/ r \in ToSet(pending') =>
                          request[r] = NoRequest \/ r \in ToSet(pending)
    BY <2>1, <2>3
  <2>6. \A r \in Reqs : r \in Held' =>
          /\ r \in Held /\ cached'[r] = cached[r] /\ request'[r] = request[r]
          /\ Of(last', r) + Of(draining', r) = Of(last, r) + Of(draining, r)
    BY <2>1, <2>2
  <2> QED BY <1>0, <2>4, <2>5, <2>6, QuietAhead
<1>2. ASSUME NEW u \in Reqs, RecvAbort(u) PROVE Ahead'
  <2>1. /\ UNCHANGED <<request, last, draining, replies>> /\ pending' = Without(pending, u)
        /\ UNCHANGED <<kvVars, slotVars>> \/ FreeReqResources(u)
    BY <1>2 DEF RecvAbort, batchVars
  <2>2. ToSet(pending') \subseteq ToSet(pending)
    BY <1>0, <2>1, WithoutFacts DEF Types
  <2>3. \A r \in Reqs : r \in Held' => r \in Held /\ cached'[r] = cached[r]
    <3>1. CASE UNCHANGED <<kvVars, slotVars>>
      BY <3>1 DEF kvVars, slotVars, Held
    <3>2. CASE FreeReqResources(u)
      BY <1>0, <3>2, FreeFacts
    <3> QED BY <2>1, <3>1, <3>2
  <2>4. replies' \in [Reqs -> Seq(Events)] /\ \A r \in Reqs : TokensSent(r)' = TokensSent(r)
    BY <2>1, TokensSame DEF Ahead
  <2>5. /\ \A r \in Reqs : request'[r] = NoRequest \/ r \in ToSet(pending') =>
                             request[r] = NoRequest \/ r \in ToSet(pending)
        /\ \A r \in Reqs : r \in Held' =>
             /\ r \in Held /\ cached'[r] = cached[r] /\ request'[r] = request[r]
             /\ Of(last', r) + Of(draining', r) = Of(last, r) + Of(draining, r)
    BY <2>1, <2>2, <2>3
  <2> QED BY <1>0, <2>4, <2>5, QuietAhead
<1>3. CASE RecvRebuild \/ StartIteration \/ ExecuteRebuild \/ ContinueChunk \/ StopAdmitting
           \/ RefuseNew
  <2>1. UNCHANGED <<request, last, draining, replies, pending, slot>>
    BY <1>3 DEF RecvRebuild, StartIteration, ExecuteRebuild, EndReceive, ContinueChunk, AddToPlan,
       StopAdmitting, RefuseNew, slotVars, msgVars, batchVars
  <2>2. cached' = cached
    <3>1. CASE ExecuteRebuild
      BY <3>1 DEF ExecuteRebuild, KV!Reset, kvVars
    <3>2. CASE RecvRebuild \/ StartIteration \/ ContinueChunk \/ StopAdmitting \/ RefuseNew
      BY <3>2 DEF RecvRebuild, StartIteration, ContinueChunk, StopAdmitting, RefuseNew, kvVars
    <3> QED BY <1>3, <3>1, <3>2
  <2>3. Held' = Held
    BY <2>1 DEF Held
  <2>4. replies' \in [Reqs -> Seq(Events)] /\ \A r \in Reqs : TokensSent(r)' = TokensSent(r)
    BY <2>1, TokensSame DEF Ahead
  <2> QED BY <1>0, <2>1, <2>2, <2>3, <2>4, QuietAhead
<1>4. CASE AdmitNew
  <2>1. HasNext /\ UNCHANGED <<request, last, draining, replies, pending>>
    BY <1>4 DEF AdmitNew, AddToPlan, msgVars
  <2>2. PICK u \in Reqs : u = NextUp /\ u \in ToSet(pending)
    BY <1>0, <2>1, NextUpFacts
  <2>3. request[u].prompt # <<>>
    <3>1. Accepted(u)
      BY <1>0, <2>2 DEF Waiting
    <3>2. PromptLen(u) >= 1 /\ PromptLen(u) = Len(request[u].prompt)
      BY <3>1 DEF Accepted, PromptLen
    <3> QED BY <3>2
  <2>4. /\ Held' = Held \cup {u} /\ cached' \in [Reqs -> Nat] /\ cached'[u] < PromptLen(u)
        /\ \A r \in Reqs : r # u => cached'[r] = cached[r]
    <3>1. Types /\ AdmitNew /\ u = NextUp /\ u \in Reqs /\ request[u].prompt # <<>>
      BY <1>0, <1>4, <2>2, <2>3
    <3>2. Held' = Held \cup {u} /\ cached' \in [Reqs -> Nat]
      BY <3>1, AdmitFacts
    <3>3. /\ \A r \in Reqs : r # u => cached'[r] = cached[r]
          /\ cached'[u] < PromptLen(u)
      BY <3>1, AdmitFacts
    <3> QED BY <3>2, <3>3
  <2>5. PromptLen(u)' = PromptLen(u) /\ PromptLen(u) \in Nat /\ cached'[u] \in Nat
    BY <1>0, <2>1, <2>4 DEF PromptLen, Types
  <2>6. \A r \in Reqs : r \in Held' /\ cached'[r] >= PromptLen(r)' =>
          /\ r \in Held /\ cached'[r] = cached[r] /\ request'[r] = request[r]
          /\ Of(last', r) + Of(draining', r) = Of(last, r) + Of(draining, r)
    <3> SUFFICES ASSUME NEW r \in Reqs, r \in Held', cached'[r] >= PromptLen(r)'
                 PROVE  r # u
      BY <2>1, <2>4
    <3> QED BY <2>4, <2>5
  <2>7. replies' \in [Reqs -> Seq(Events)] /\ \A r \in Reqs : TokensSent(r)' = TokensSent(r)
    BY <2>1, TokensSame DEF Ahead
  <2> QED BY <1>0, <2>1, <2>6, <2>7, QuietAhead
<1>5. CASE Launch
  BY <1>5, LaunchAhead
<1>6. CASE LaunchNothing \/ EndIteration
  <2>1. UNCHANGED <<request, pending, slot, cached>>
    BY <1>6 DEF LaunchNothing, EndIteration, kvVars, slotVars, msgVars
  <2>2. \A r : Of(NoBatch, r) = 0
    BY DEF Of, Finals, NoBatch, ToSet
  <2>3. \A r : Of(last', r) + Of(draining', r) = Of(last, r) + Of(draining, r)
    <3>1. \A r : Of(last, r) \in {0, 1}
      BY DEF Of
    <3>2. CASE LaunchNothing
      <4>1. /\ draining = NoBatch /\ (~Overlap => last = NoBatch) /\ last' = NoBatch
            /\ draining' = IF Overlap THEN last ELSE NoBatch
        BY <1>0, <3>2 DEF LaunchNothing, HandOver, Drains, Launched
      <4>2. draining' = last
        BY <4>1
      <4> QED BY <2>2, <3>1, <4>1, <4>2
    <3>3. CASE EndIteration
      <4>1. draining.reqs = <<>> /\ draining' = NoBatch /\ last' = last
        BY <3>3 DEF EndIteration
      <4>2. \A r : Of(draining, r) = 0
        BY <4>1 DEF Of, Finals, ToSet
      <4> QED BY <2>2, <4>1, <4>2
    <3> QED BY <1>6, <3>2, <3>3
  <2>4. replies' \in [Reqs -> Seq(Events)] /\ \A r \in Reqs : TokensSent(r)' = TokensSent(r)
    <3>1. CASE replies' = replies
      BY <3>1, TokensSame DEF Ahead
    <3>2. CASE EndIteration
      <4>1. replies' = Sent(acks \cap Reqs, "aborted")
        BY <3>2 DEF EndIteration, AcksDue, Sent
      <4>2. acks \cap Reqs \in SUBSET Reqs /\ "aborted" \in Events \ Sampled
        BY DEF Events, Sampled
      <4> QED BY <4>1, <4>2, TokenCount DEF Ahead
    <3> QED BY <1>6, <3>1, <3>2 DEF LaunchNothing
  <2>5. Held' = Held
    BY <2>1 DEF Held
  <2> QED BY <1>0, <2>1, <2>3, <2>4, <2>5, QuietAhead
<1>7. CASE DrainChunk \/ DrainAborted \/ DrainEnded \/ DrainToken
  BY <1>7, DrainAhead
<1>8. CASE UNCHANGED vars
  <2>1. UNCHANGED <<request, last, draining, replies, pending, slot, cached>>
    BY <1>8 DEF vars, kvVars, slotVars, msgVars, batchVars
  <2>2. Held' = Held
    BY <2>1 DEF Held
  <2>3. replies' \in [Reqs -> Seq(Events)] /\ \A r \in Reqs : TokensSent(r)' = TokensSent(r)
    BY <2>1, TokensSame DEF Ahead
  <2> QED BY <1>0, <2>1, <2>2, <2>3, QuietAhead
<1> QED BY <1>1, <1>2, <1>3, <1>4, <1>5, <1>6, <1>7, <1>8 DEF Next, Receive, Loop

\* The batches of one request that are not drained, counted as the property does.
LEMMA BatchesOf ==
  ASSUME NEW r
  PROVE  Cardinality({x \in {<<"last", last>>, <<"draining", draining>>} :
                          r \in ToSet(x[2].reqs) \ x[2].chunks}) = Of(last, r) + Of(draining, r)
<1> DEFINE l == <<"last", last>>
           m == <<"draining", draining>>
           S == {x \in {l, m} : r \in ToSet(x[2].reqs) \ x[2].chunks}
<1>1. l # m /\ l[2] = last /\ m[2] = draining
  OBVIOUS
<1>2. /\ r \in Finals(last) <=> l \in S
      /\ r \in Finals(draining) <=> m \in S
  BY <1>1 DEF Finals
<1>3. S \subseteq {l, m}
  OBVIOUS
<1> HIDE DEF S, l, m
<1>4. CASE r \in Finals(last) /\ r \in Finals(draining)
  <2>1. S = {l} \cup {m} /\ m \notin {l}
    BY <1>1, <1>2, <1>3, <1>4
  <2>2. Cardinality(S) = 2
    <3>1. IsFiniteSet({l}) /\ Cardinality({l}) = 1
      BY FS_Singleton
    <3> QED BY <2>1, <3>1, FS_AddElement
  <2> QED BY <1>4, <2>2 DEF Of, S, l, m
<1>5. CASE r \in Finals(last) /\ r \notin Finals(draining)
  <2>1. S = {l}
    BY <1>2, <1>3, <1>5
  <2>2. Cardinality(S) = 1
    BY <2>1, FS_Singleton
  <2> QED BY <1>5, <2>2 DEF Of, S, l, m
<1>6. CASE r \notin Finals(last) /\ r \in Finals(draining)
  <2>1. S = {m}
    BY <1>2, <1>3, <1>6
  <2>2. Cardinality(S) = 1
    BY <2>1, FS_Singleton
  <2> QED BY <1>6, <2>2 DEF Of, S, l, m
<1>7. CASE r \notin Finals(last) /\ r \notin Finals(draining)
  <2>1. S = {}
    BY <1>2, <1>3, <1>7
  <2>2. Cardinality(S) = 0
    BY <2>1, FS_EmptySet
  <2> QED BY <1>7, <2>2 DEF Of, S, l, m
<1> QED BY <1>4, <1>5, <1>6, <1>7

(* The device runs ahead of the host by exactly the batches not drained yet: so *)
(* cache_req, at the drain, finds every token whose KV it inserts on the host   *)
(* (overlap_loop, complete_one, _process_last_data).                            *)
THEOREM DeviceAlwaysAhead == Spec => []DeviceAheadOfHost
<1>1. Init => Ahead
  <2> SUFFICES ASSUME Init PROVE Ahead
    OBVIOUS
  <2>1. /\ replies = [r \in Reqs |-> <<>>] /\ slot = [r \in Reqs |-> NoSlot]
        /\ Held = {}
    BY DEF Init, Held
  <2>2. \A r \in Reqs : TokensSent(r) = 0
    <3>1. \A r \in Reqs : {i \in DOMAIN replies[r] : replies[r][i] \in Sampled} = {}
      BY <2>1
    <3> QED BY <3>1, FS_EmptySet DEF TokensSent
  <2>3. replies \in [Reqs -> Seq(Events)]
    BY <2>1
  <2> QED BY <2>1, <2>2, <2>3 DEF Ahead
<1>2. LoopInv /\ Ahead /\ [Next]_vars => Ahead'
  BY SchedulerAssumption, AheadSteps
<1>3. LoopInv /\ Ahead => DeviceAheadOfHost
  <2> SUFFICES ASSUME LoopInv, Ahead, NEW r \in Reqs, slot[r] # NoSlot, cached[r] >= PromptLen(r)
               PROVE  cached[r] + 1 = PromptLen(r) + TokensSent(r)
                        + Cardinality({x \in {<<"last", last>>, <<"draining", draining>>} :
                                           r \in ToSet(x[2].reqs) \ x[2].chunks})
    BY DEF DeviceAheadOfHost
  <2>1. cached[r] + 1 = PromptLen(r) + TokensSent(r) + Of(last, r) + Of(draining, r)
    BY DEF Ahead, Held
  <2>2. PromptLen(r) \in Nat /\ Of(last, r) \in Nat /\ Of(draining, r) \in Nat
    BY DEF LoopInv, Types, PromptLen, Of
  <2>3. TokensSent(r) \in Nat
    BY TokensNat DEF Ahead
  <2> QED BY <2>1, <2>2, <2>3, BatchesOf
<1> QED BY <1>1, <1>2, <1>3, LoopAlways, PTL DEF Spec

-----------------------------------------------------------------------------
(* The cache manager under the scheduler.                                      *)
(*                                                                             *)
(* Scheduler_proofs shows that the loop keeps the CacheManager's protocol      *)
(* (LoopDrivesTheCache), so every behaviour of the scheduler is a behaviour of *)
(* KVCache and the theorems about KVCache are inherited, not proved again.     *)
(* They are taken from an instance C of KVCache_proofs with the values         *)
(* Scheduler gives its own instance KV of KVCache.  The prover takes the       *)
(* operators of two instances for different ones, so each operator of C is     *)
(* first shown to be the one of KV (the lemmas Same...).                       *)

C == INSTANCE KVCache_proofs WITH
        MMReqs  <- {},
        Prompts <- {q.prompt : q \in {c \in ClientRequests : Len(c.prompt) < MaxLen}},
        stage   <- Stage

-----------------------------------------------------------------------------
(* C and KV are the same module with the same values: every operator of the   *)
(* one is the operator of the other, from the library's to the next-state     *)
(* relation.  Each lemma cites the ones of the operators it calls.            *)

\* The library's operators.
LEMMA SameSetToSeq == \A S : C!SetToSeq(S) = KV!SetToSeq(S)
<1> SUFFICES ASSUME NEW S PROVE C!SetToSeq(S) = KV!SetToSeq(S)
  OBVIOUS
<1>1. \A f : C!IsInjective(f) <=> KV!IsInjective(f)
  BY Zenon DEF C!IsInjective, KV!IsInjective
<1>2. C!Cardinality(S) = KV!Cardinality(S)
  BY DEF C!Cardinality, KV!Cardinality
<1> QED BY <1>1, <1>2, SMT DEF C!SetToSeq, KV!SetToSeq

LEMMA SameCardinality == \A S : C!Cardinality(S) = KV!Cardinality(S)
BY Zenon DEF C!Cardinality, KV!Cardinality

LEMMA SameMin == \A S : C!Min(S) = KV!Min(S)
BY Zenon DEF C!Min, KV!Min

LEMMA SameToSet == \A s : C!ToSet(s) = KV!ToSet(s)
BY Zenon DEF C!ToSet, KV!ToSet

LEMMA SameIsFiniteSet == \A S : C!IsFiniteSet(S) <=> KV!IsFiniteSet(S)
BY Zenon DEF C!IsFiniteSet, KV!IsFiniteSet

\* Page arithmetic, and the keys of the tree.
LEMMA SameKey == \A s, i : C!Key(s, i) = KV!Key(s, i)
BY DEF C!Key, KV!Key

LEMMA SameFullPages == \A n : C!FullPages(n) = KV!FullPages(n)
BY DEF C!FullPages, KV!FullPages

LEMMA SamePagesFor == \A n : C!PagesFor(n) = KV!PagesFor(n)
BY DEF C!PagesFor, KV!PagesFor

LEMMA SameStartsWith == \A s, k : C!StartsWith(s, k) <=> KV!StartsWith(s, k)
BY DEF C!StartsWith, KV!StartsWith

\* The radix tree: its nodes, walks and pages.
LEMMA SameRoot == C!Root = KV!Root
BY DEF C!Root, KV!Root

LEMMA SameEmptyTree == C!EmptyTree = KV!EmptyTree
BY DEF C!EmptyTree, KV!EmptyTree

LEMMA SameStored == \A t : C!Stored(t) = KV!Stored(t)
BY DEF C!Stored, KV!Stored

LEMMA SameNodes == \A t : C!Nodes(t) = KV!Nodes(t)
BY DEF C!Nodes, KV!Nodes

LEMMA SameNodeOf == \A t, k : C!NodeOf(t, k) = KV!NodeOf(t, k)
BY Zenon DEF C!NodeOf, KV!NodeOf, C!Nodes, KV!Nodes, C!StartsWith, KV!StartsWith

LEMMA SameLocked == \A t, k : C!Locked(t, k) <=> KV!Locked(t, k)
BY SameNodeOf DEF C!Locked, KV!Locked

LEMMA SameMatched == \A t, s : C!Matched(t, s) = KV!Matched(t, s)
BY Zenon DEF C!Matched, KV!Matched, C!FullPages, KV!FullPages, C!Key, KV!Key,
    C!Stored, KV!Stored

LEMMA SameWalk == \A t, s : C!Walk(t, s) = KV!Walk(t, s)
BY Zenon DEF C!Walk, KV!Walk, C!FullPages, KV!FullPages, C!InheritedRef,
    KV!InheritedRef, C!Key, KV!Key, C!Matched, KV!Matched, C!NodeOf, KV!NodeOf,
    C!Nodes, KV!Nodes, C!Root, KV!Root, C!Split, KV!Split, C!StartsWith,
    KV!StartsWith, C!Stored, KV!Stored

LEMMA SameOnPath == \A t, k : C!OnPath(t, k) = KV!OnPath(t, k)
BY SameNodes, SameStartsWith DEF C!OnPath, KV!OnPath

LEMMA SameCounted == \A t, k, d : C!Counted(t, k, d) = KV!Counted(t, k, d)
BY SameNodes, SameOnPath DEF C!Counted, KV!Counted

LEMMA SamePagesAt == \A t, k, n : C!PagesAt(t, k, n) = KV!PagesAt(t, k, n)
BY SameCardinality, SameNodeOf, SameOnPath, SameStored DEF C!PagesAt, KV!PagesAt

\* The radix tree: lock, unlock, insert.
LEMMA SameLock == \A t, k : C!Lock(t, k) = KV!Lock(t, k)
BY SameCounted, SamePagesAt DEF C!Lock, KV!Lock

LEMMA SameUnlock == \A t, k : C!Unlock(t, k) = KV!Unlock(t, k)
BY SameCounted, SamePagesAt DEF C!Unlock, KV!Unlock

LEMMA SameInsert == \A t, s, list : C!Insert(t, s, list) = KV!Insert(t, s, list)
<1> SUFFICES ASSUME NEW t, NEW s, NEW list
             PROVE  C!Insert(t, s, list) = KV!Insert(t, s, list)
  OBVIOUS
<1> QED BY SameMatched, SameWalk, Zenon DEF C!Insert, KV!Insert, C!Key, KV!Key,
    C!Stored, KV!Stored, C!FullPages, KV!FullPages, C!Nodes, KV!Nodes

\* The radix tree: eviction.
LEMMA SamePrefixesOf == \A t, E : C!PrefixesOf(t, E) = KV!PrefixesOf(t, E)
BY SameNodeOf, SameStored DEF C!PrefixesOf, KV!PrefixesOf

LEMMA SameUnlocked == \A t : C!Unlocked(t) = KV!Unlocked(t)
BY SameNodes DEF C!Unlocked, KV!Unlocked

LEMMA SameLeafFirst == \A t, E : C!LeafFirst(t, E) <=> KV!LeafFirst(t, E)
BY SameNodes, SameStartsWith DEF C!LeafFirst, KV!LeafFirst

LEMMA SameEvictionChoices == \A t, n : C!EvictionChoices(t, n) = KV!EvictionChoices(t, n)
BY SameCardinality, SameLeafFirst, SamePrefixesOf, SameUnlocked DEF
    C!EvictionChoices, KV!EvictionChoices

LEMMA SameRemoveNodes == \A t, E : C!RemoveNodes(t, E) = KV!RemoveNodes(t, E)
BY SameCardinality, SameIsFiniteSet, SameNodes, SamePrefixesOf, SameStored DEF
    C!RemoveNodes, KV!RemoveNodes

\* The state of the cache manager.
LEMMA SamePoolVars == C!poolVars = KV!poolVars
BY DEF C!poolVars, KV!poolVars

LEMMA SameReqVars == C!reqVars = KV!reqVars
BY DEF C!reqVars, KV!reqVars

LEMMA SameVars == C!vars = KV!vars
BY SamePoolVars, SameReqVars DEF C!vars, KV!vars

LEMMA SameActive == C!Active = KV!Active
BY DEF C!Active, KV!Active

\* Admission of a request.
LEMMA SameHandleKey == \A r : C!HandleKey(r) = KV!HandleKey(r)
BY SameKey DEF C!HandleKey, KV!HandleKey

LEMMA SameShared == \A r : C!Shared(r) <=> KV!Shared(r)
BY DEF C!Shared, KV!Shared

LEMMA SameNoKV == C!NoKV = KV!NoKV
BY DEF C!NoKV, KV!NoKV

LEMMA SameContent == \A r, s : C!Content(r, s) = KV!Content(r, s)
BY DEF C!Content, KV!Content

LEMMA SameMatchIds == \A r, s : C!MatchIds(r, s) = KV!MatchIds(r, s)
BY SameRoot, SameShared DEF C!MatchIds, KV!MatchIds

LEMMA SameAdmitReq == \A r, s : C!AdmitReq(r, s) <=> KV!AdmitReq(r, s)
BY SameKey, SameLock, SameMatchIds, SameMatched, SameWalk DEF C!AdmitReq, KV!AdmitReq

\* allocate_paged, and the forward pass over the pages it gives.
LEMMA SameNewSlots == \A dev : C!NewSlots(dev) = KV!NewSlots(dev)
BY SamePagesFor DEF C!NewSlots, KV!NewSlots

LEMMA SameShortage == \A dev : C!Shortage(dev) = KV!Shortage(dev)
BY SameCardinality, SameNewSlots DEF C!Shortage, KV!Shortage

LEMMA SameAllocatePaged == \A dev : C!AllocatePaged(dev) <=> KV!AllocatePaged(dev)
BY SameCardinality, SameEvictionChoices, SameNewSlots, SamePrefixesOf,
    SameRemoveNodes, SameSetToSeq, SameShortage DEF C!AllocatePaged, KV!AllocatePaged

LEMMA SameForward == \A dev : C!Forward(dev) <=> KV!Forward(dev)
BY Zenon DEF C!Forward, KV!Forward, C!Content, KV!Content, C!FullPages, KV!FullPages,
    C!Min, KV!Min, C!NoKV, KV!NoKV, C!PagesFor, KV!PagesFor, C!ToSet, KV!ToSet

LEMMA SameExtendTo == \A dev, tok : C!ExtendTo(dev, tok) <=> KV!ExtendTo(dev, tok)
BY SameAllocatePaged, SameForward DEF C!ExtendTo, KV!ExtendTo

\* cache_req: the cuts of a row, and the two handlers.
LEMMA SameComputed == \A r : C!Computed(r) = KV!Computed(r)
BY DEF C!Computed, KV!Computed

LEMMA SamePublished == \A r : C!Published(r) = KV!Published(r)
BY SameComputed, SameHandleKey, SameInsert, SameUnlock DEF C!Published, KV!Published

LEMMA SameDuplicates == \A r, m : C!Duplicates(r, m) = KV!Duplicates(r, m)
BY DEF C!Duplicates, KV!Duplicates

LEMMA SamePaddedTail == \A r, n : C!PaddedTail(r, n) = KV!PaddedTail(r, n)
BY SamePagesFor DEF C!PaddedTail, KV!PaddedTail

LEMMA SameRepointed == \A r, m, t : C!Repointed(r, m, t) = KV!Repointed(r, m, t)
BY SameKey DEF C!Repointed, KV!Repointed

LEMMA SameCacheReqUnfinished == \A r : C!CacheReqUnfinished(r) <=> KV!CacheReqUnfinished(r)
BY SameComputed, SameDuplicates, SameFullPages, SameHandleKey, SameKey, SameLock,
    SameMatched, SamePublished, SameRepointed, SameShared, SameUnlock DEF
    C!CacheReqUnfinished, KV!CacheReqUnfinished

LEMMA SameCacheReqFinished == \A r : C!CacheReqFinished(r) <=> KV!CacheReqFinished(r)
BY SameComputed, SameDuplicates, SameFullPages, SameHandleKey, SameMatched,
    SamePaddedTail, SamePublished, SameShared, SameUnlock DEF C!CacheReqFinished,
    KV!CacheReqFinished

\* The rebuild, and the initial state.
LEMMA SameRebuiltTree == C!RebuiltTree = KV!RebuiltTree
BY SameEmptyTree DEF C!RebuiltTree, KV!RebuiltTree

LEMMA SameReset == C!Reset <=> KV!Reset
BY SameCardinality, SameNoKV, SameRebuiltTree, SameSetToSeq DEF C!Reset, KV!Reset

LEMMA SameForgetFreed == C!ForgetFreed <=> KV!ForgetFreed
BY SameNoKV, SameToSet DEF C!ForgetFreed, KV!ForgetFreed

LEMMA SameInit == C!Init <=> KV!Init
BY SameCardinality, SameEmptyTree, SameNoKV, SameSetToSeq DEF C!Init, KV!Init

\* The actions, and the next-state relation.
LEMMA SameAdmit == \A r : C!Admit(r) <=> KV!Admit(r)
BY SameAdmitReq DEF C!Admit, KV!Admit

LEMMA SameRefuse == \A r : C!Refuse(r) <=> KV!Refuse(r)
BY Zenon DEF C!Refuse, KV!Refuse, C!FullPages, KV!FullPages, C!InheritedRef,
    KV!InheritedRef, C!Key, KV!Key, C!MatchIds, KV!MatchIds, C!Matched, KV!Matched,
    C!NodeOf, KV!NodeOf, C!Nodes, KV!Nodes, C!Root, KV!Root, C!Shared, KV!Shared,
    C!Split, KV!Split, C!StartsWith, KV!StartsWith, C!Stored, KV!Stored, C!Walk,
    KV!Walk, C!reqVars, KV!reqVars

LEMMA SameAfterForward == \A r, done : C!AfterForward(r, done) = KV!AfterForward(r, done)
BY DEF C!AfterForward, KV!AfterForward

LEMMA SameCanForward == C!CanForward = KV!CanForward
BY SameActive DEF C!CanForward, KV!CanForward

LEMMA SameForwardLens == \A B : C!ForwardLens(B) = KV!ForwardLens(B)
BY DEF C!ForwardLens, KV!ForwardLens

LEMMA SameExtend == \A B : C!Extend(B) <=> KV!Extend(B)
BY SameAfterForward, SameExtendTo, SameForwardLens DEF C!Extend, KV!Extend

LEMMA SameCommit == \A r : C!Commit(r) <=> KV!Commit(r)
BY SameCacheReqUnfinished, SameForgetFreed DEF C!Commit, KV!Commit

LEMMA SameFinish == \A r : C!Finish(r) <=> KV!Finish(r)
BY SameActive, SameCacheReqFinished, SameForgetFreed DEF C!Finish, KV!Finish

LEMMA SameRebuild == C!Rebuild <=> KV!Rebuild
BY SameActive, SameReset DEF C!Rebuild, KV!Rebuild

LEMMA SameNext == C!Next <=> KV!Next
BY SameAdmit, SameCanForward, SameCommit, SameExtend, SameFinish, SameRebuild,
    SameRefuse DEF C!Next, KV!Next

\* The invariants.
LEMMA SameOwners == \A p : C!Owners(p) = KV!Owners(p)
BY SameStored DEF C!Owners, KV!Owners

LEMMA SamePagesConserved == C!PagesConserved <=> KV!PagesConserved
BY SameCardinality, SameOwners DEF C!PagesConserved, KV!PagesConserved

LEMMA SameRowsHoldOwnKV == C!RowsHoldOwnKV <=> KV!RowsHoldOwnKV
BY SameActive, SameContent, SameMin DEF C!RowsHoldOwnKV, KV!RowsHoldOwnKV

LEMMA SameTreeServesItsTokens == C!TreeServesItsTokens <=> KV!TreeServesItsTokens
BY SameStored DEF C!TreeServesItsTokens, KV!TreeServesItsTokens

LEMMA SameRefsCountHandles == C!RefsCountHandles <=> KV!RefsCountHandles
BY SameActive, SameCardinality, SameHandleKey, SameNodes, SameStartsWith DEF
    C!RefsCountHandles, KV!RefsCountHandles

LEMMA SameSizesExact == C!SizesExact <=> KV!SizesExact
BY SameCardinality, SameLocked, SameStored DEF C!SizesExact, KV!SizesExact

LEMMA SameEvictableIsReachable == C!EvictableIsReachable <=> KV!EvictableIsReachable
BY SameEvictionChoices DEF C!EvictableIsReachable, KV!EvictableIsReachable

-----------------------------------------------------------------------------
(* The assumptions and the specification of the instance follow from those of *)
(* the scheduler.                                                             *)

\* What is assumed of the scheduler's constants is what is assumed of the cache's.
LEMMA CacheAssumptions == C!KVCacheAssumption /\ C!PageSizeAssumption
<1> DEFINE P == {q.prompt : q \in {c \in ClientRequests : Len(c.prompt) < MaxLen}}
<1>1. ASSUME NEW q \in ClientRequests, Len(q.prompt) < MaxLen
      PROVE  q.prompt \in Seq(Tokens) /\ Len(q.prompt) \in 1..(MaxLen - 1)
  <2>1. q.prompt \in Seq(Tokens) /\ q.prompt # <<>> /\ Len(q.prompt) \in Nat
    BY SchedulerAssumption
  <2>2. Len(q.prompt) # 0
    BY <2>1, EmptySeq
  <2> QED BY <1>1, <2>1, <2>2, SchedulerAssumption
<1>2. P \subseteq {s \in Seq(Tokens) : Len(s) \in 1..(MaxLen - 1)}
  BY <1>1
<1>3. \A S : C!IsFiniteSet(S) <=> IsFiniteSet(S)
  BY DEF C!IsFiniteSet, IsFiniteSet
<1>4. \A S : C!Cardinality(S) = Cardinality(S)
  BY DEF C!Cardinality, Cardinality
<1> QED BY <1>2, <1>3, <1>4, SchedulerAssumption DEF C!KVCacheAssumption, C!PageSizeAssumption

\* Every behaviour of the scheduler is one of the cache manager.
LEMMA CacheSpec == Spec => C!Spec
<1>1. KV!Init => C!Init
  BY SameInit
<1>2. [KV!Next]_(KV!vars) => [C!Next]_(C!vars)
  <2>1. KV!Next => C!Next
    BY SameNext
  <2>2. KV!vars' = KV!vars => C!vars' = C!vars
    BY DEF C!vars, KV!vars, C!poolVars, KV!poolVars, C!reqVars, KV!reqVars
  <2> QED BY <2>1, <2>2
<1> QED BY <1>1, <1>2, LoopDrivesTheCache, PTL DEF CacheProtocol, KV!Spec, C!Spec

-----------------------------------------------------------------------------
(* What the cache manager guarantees, in every behaviour of the scheduler. *)

(* Every page of the pool is owned once, whatever the loop does with batches, *)
(* aborts, chunks and rebuilds (check_integrity, at every step and not only   *)
(* at idle).                                                                  *)
THEOREM LoopConservesPages == Spec => []KV!PagesConserved
<1>1. C!Spec => []C!PagesConserved
  BY CacheAssumptions, C!PagesAlwaysConserved
<1>2. C!PagesConserved => KV!PagesConserved
  BY SamePagesConserved
<1> QED BY <1>1, <1>2, CacheSpec, PTL

(* The pages a batch reads through the page table hold the KV of the request's *)
(* own tokens, and the prefix cache serves the KV of the very tokens it is     *)
(* asked for: in overlap_loop too, where a batch is launched before the one in *)
(* flight has been drained and its requests committed, freed or re-pointed.    *)
THEOREM LoopReadsOwnKV == Spec => [](KV!RowsHoldOwnKV /\ KV!TreeServesItsTokens)
<1>1. C!Spec => []C!RowsHoldOwnKV
  BY CacheAssumptions, C!RowsAlwaysHoldOwnKV
<1>2. C!Spec => []C!TreeServesItsTokens
  BY CacheAssumptions, C!TreeAlwaysServesItsTokens
<1>3. C!RowsHoldOwnKV /\ C!TreeServesItsTokens => KV!RowsHoldOwnKV /\ KV!TreeServesItsTokens
  BY SameRowsHoldOwnKV, SameTreeServesItsTokens
<1> QED BY <1>1, <1>2, <1>3, CacheSpec, PTL

(* The numbers PrefillAdder trusts are right: the reference counts and the two *)
(* sizes are those of the tree, and evict delivers every page evictable_size   *)
(* promises.                                                                   *)
THEOREM LoopCountsPages ==
  Spec => [](KV!RefsCountHandles /\ KV!SizesExact /\ KV!EvictableIsReachable)
<1>1. C!Spec => []C!RefsCountHandles
  BY CacheAssumptions, C!RefsAlwaysCountHandles
<1>2. C!Spec => []C!SizesExact
  BY CacheAssumptions, C!SizesAlwaysExact
<1>3. C!Spec => []C!EvictableIsReachable
  BY CacheAssumptions, C!EvictableAlwaysReachable
<1>4. C!RefsCountHandles /\ C!SizesExact /\ C!EvictableIsReachable
        => KV!RefsCountHandles /\ KV!SizesExact /\ KV!EvictableIsReachable
  BY SameRefsCountHandles, SameSizesExact, SameEvictableIsReachable
<1> QED BY <1>1, <1>2, <1>3, <1>4, CacheSpec, PTL

\* The invariants of the cache manager that the proofs below use.
LEMMA CacheInv == Spec => [](C!PagesInv /\ C!SizesMatch(tree))
<1>1. C!Spec => []C!PagesInv
  BY CacheAssumptions, C!PagesAlways
<1>2. C!Spec => []C!SInv
  <2>1. C!Init => C!SInv
    BY CacheAssumptions, C!InitSizes
  <2>2. C!SInv /\ [C!Next]_(C!vars) => C!SInv'
    BY CacheAssumptions, C!StepSizes
  <2> QED BY <2>1, <2>2, PTL DEF C!Spec
<1>3. C!SInv => C!SizesMatch(tree)
  BY DEF C!SInv
<1> QED BY <1>1, <1>2, <1>3, CacheSpec, PTL

(* When the scheduler goes idle every page is free or in the prefix cache,     *)
(* nothing is locked and every slot is back: check_integrity in run_when_idle  *)
(* never fails, whatever was aborted, cut in chunks or finished in flight.     *)
THEOREM IdleAlwaysClean == Spec => []IdleHoldsNothing
<1>1. LoopInv /\ SlotsConserved /\ C!PagesInv /\ C!SizesMatch(tree) => IdleHoldsNothing
  <2> SUFFICES ASSUME LoopInv, SlotsConserved, C!PagesInv, C!SizesMatch(tree),
                      loop = "recv", ~Busy
               PROVE  /\ Len(freeSlots) = TableSlots
                      /\ Len(free) + Cardinality(KV!Stored(tree)) = Cardinality(pool)
                      /\ tree.protected = 0
    BY DEF IdleHoldsNothing
  <2>1. /\ last = NoBatch /\ pending = <<>> /\ running = {} /\ draining = NoBatch
        /\ plan.reqs = <<>> /\ chunked \subseteq ToSet(pending) /\ slot \in [Reqs -> Int]
    BY DEF Busy, Runnable, LoopInv, Drains, Planned, Types, NoSlot
  <2>2. ToSet(last.reqs) = {} /\ ToSet(draining.reqs) = {} /\ ToSet(plan.reqs) = {}
        /\ chunked = {}
    BY <2>1 DEF NoBatch, ToSet
  <2>3. \A r \in Reqs : slot[r] = NoSlot
    BY <2>1, <2>2 DEF LoopInv, Reached, Held
  <2>4. Len(freeSlots) = TableSlots
    <3> DEFINE held == {r \in Reqs : slot[r] # NoSlot}
    <3>1. held = {}
      BY <2>3
    <3>2. Len(freeSlots) + Cardinality(held) = TableSlots
      BY DEF SlotsConserved
    <3> HIDE DEF held
    <3>3. Cardinality(held) = 0
      BY <3>1, FS_EmptySet
    <3>4. Len(freeSlots) \in Nat
      BY DEF LoopInv, Types
    <3> QED BY <3>2, <3>3, <3>4
  <2>5. C!Active = {}
    <3>1. \A r \in Reqs : Stage[r] = "idle"
      BY <2>3 DEF Stage
    <3> QED BY <3>1 DEF C!Active
  <2>6. /\ Len(free) + C!Cardinality(C!Stored(tree)) = C!Cardinality(pool)
        /\ tree.protected = 0
    BY <2>5, CacheAssumptions, C!UnusedIsWhole
  <2>7. C!Stored(tree) = KV!Stored(tree) /\ \A S : C!Cardinality(S) = Cardinality(S)
    BY SameStored DEF C!Cardinality, Cardinality
  <2> QED BY <2>4, <2>6, <2>7
<1> QED BY <1>1, LoopAlways, SlotsAlwaysConserved, CacheInv, PTL

-----------------------------------------------------------------------------
(* Where a page is one token, admission control is enough: the positions that *)
(* running, chunked and just admitted requests may still fill fit in the      *)
(* pages nobody uses, and plan.reserved is at least as much.                  *)

\* The positions whose KV request r may still need a page for: all but the last of
\* its max_device_len, whose KV no step computes.
NeededBy(r) == {r} \X ((cached[r] + 1)..(MaxDeviceLen(r) - 1))

\* The requests that will run again.
Live == running \cup chunked \cup plan.fresh

Needed   == UNION {NeededBy(r) : r \in Live}
Promised == UNION {NeededBy(r) : r \in running \cup ToSet(plan.reqs)}

\* What is used and what is still needed fits in the pool.
PagesLeft == Cardinality(C!UsedPages) + Cardinality(Needed) <= Cardinality(pool)

\* The PrefillAdder counts what the requests it knows of may still need.
Promise ==
  loop = "admit" => plan.reserved \in Nat /\ Cardinality(Promised) <= plan.reserved

Room == PagesLeft /\ Promise

\* Counting in the instance is counting.
LEMMA SameCounts ==
  /\ \A S : C!Cardinality(S) = Cardinality(S)
  /\ \A S : C!IsFiniteSet(S) <=> IsFiniteSet(S)
<1>1. \A S : C!Cardinality(S) = Cardinality(S)
  BY DEF C!Cardinality, Cardinality
<1>2. \A S : C!IsFiniteSet(S) <=> IsFiniteSet(S)
  BY DEF C!IsFiniteSet, IsFiniteSet
<1> QED BY <1>1, <1>2

\* Two sets together have no more elements than each for itself.
LEMMA CountTogether ==
  ASSUME NEW S, NEW T, IsFiniteSet(S), IsFiniteSet(T)
  PROVE  /\ IsFiniteSet(S \cup T) /\ Cardinality(S \cup T) \in Nat
         /\ Cardinality(S) \in Nat /\ Cardinality(T) \in Nat
         /\ Cardinality(S \cup T) <= Cardinality(S) + Cardinality(T)
         /\ S \cap T = {} => Cardinality(S \cup T) = Cardinality(S) + Cardinality(T)
<1>1. IsFiniteSet(S \cap T) /\ IsFiniteSet(S \cup T)
  BY FS_Subset, FS_Union
<1>2. /\ Cardinality(S) \in Nat /\ Cardinality(T) \in Nat
      /\ Cardinality(S \cap T) \in Nat /\ Cardinality(S \cup T) \in Nat
  BY <1>1, FS_CardinalityType
<1>3. Cardinality(S \cup T) = Cardinality(S) + Cardinality(T) - Cardinality(S \cap T)
  BY FS_Union
<1>4. S \cap T = {} => Cardinality(S \cap T) = 0
  BY FS_EmptySet
<1> QED BY <1>1, <1>2, <1>3, <1>4

\* The positions from a to b of one request.
LEMMA CountPositions ==
  ASSUME NEW r, NEW a \in Nat, NEW b \in Nat, a <= b
  PROVE  /\ IsFiniteSet({r} \X ((a + 1)..b))
         /\ Cardinality({r} \X ((a + 1)..b)) = b - a
<1> DEFINE I == (a + 1)..b
<1>1. IsFiniteSet(I) /\ Cardinality(I) = b - a
  <2>1. a + 1 \in Int /\ b \in Int
    OBVIOUS
  <2>2. /\ IsFiniteSet(I)
        /\ Cardinality(I) = IF a + 1 > b THEN 0 ELSE b - (a + 1) + 1
    BY <2>1, FS_Interval
  <2> QED BY <2>2
<1>2. IsFiniteSet({r}) /\ Cardinality({r}) = 1
  BY FS_Singleton
<1> HIDE DEF I
<1>3. IsFiniteSet({r} \X I) /\ Cardinality({r} \X I) = Cardinality({r}) * Cardinality(I)
  BY <1>1, <1>2, FS_Product
<1> QED BY <1>1, <1>2, <1>3 DEF I

\* What runs again holds its slot.
LEMMA LiveIsHeld ==
  ASSUME LoopInv
  PROVE  Live \subseteq Held /\ running \cup ToSet(plan.reqs) \subseteq Live
<1>1. \A r \in running : r \in Held
  BY DEF LoopInv, Decoding
<1>2. \A r \in chunked : r \in Held
  BY DEF LoopInv, Types, Waiting
<1>3. \A r \in plan.fresh : r \in Held
  BY DEF LoopInv, Planned
<1>4. \A r \in ToSet(plan.reqs) : r \in chunked \cup plan.fresh
  BY PlanIsPending DEF LoopInv, Planned, Waiting
<1> QED BY <1>1, <1>2, <1>3, <1>4 DEF Live

\* The same after a step.
LEMMA LiveStaysHeld == LoopInv' => Live' \subseteq Held'
<1> SUFFICES ASSUME LoopInv' PROVE Live' \subseteq Held'
  OBVIOUS
<1>1. \A r \in running' : r \in Held'
  BY DEF LoopInv, Decoding
<1>2. \A r \in chunked' : r \in Held'
  BY DEF LoopInv, Types, Waiting
<1>3. \A r \in plan'.fresh : r \in Held'
  BY DEF LoopInv, Planned
<1> QED BY <1>1, <1>2, <1>3 DEF Live

\* The lengths of what holds a slot.
LEMMA HeldLengths ==
  ASSUME SchedulerAssumption, LoopInv, NEW r \in Held
  PROVE  /\ r \in Reqs /\ cached[r] \in Nat /\ PromptLen(r) \in Nat /\ DeviceLen(r) \in Nat
         /\ request[r].output \in Nat /\ request[r].output >= 1
         /\ MaxDeviceLen(r) = PromptLen(r) + request[r].output
         /\ MaxDeviceLen(r) \in Nat /\ MaxDeviceLen(r) <= MaxLen /\ MaxLen \in Nat
<1>1. r \in Reqs /\ Accepted(r)
  BY DEF Held, LoopInv, Computing
<1>2. /\ cached[r] \in Nat /\ request[r].prompt \in Seq(Tokens) /\ request[r].output \in Nat
      /\ ids[r] \in Seq(Tokens)
  BY <1>1 DEF LoopInv, Types
<1> QED BY <1>1, <1>2 DEF Accepted, PromptLen, MaxDeviceLen, DeviceLen, SchedulerAssumption

\* There are finitely many positions.
LEMMA NeededFinite ==
  ASSUME SchedulerAssumption, LoopInv
  PROVE  /\ IsFiniteSet(Needed) /\ Cardinality(Needed) \in Nat
         /\ IsFiniteSet(Promised) /\ Promised \subseteq Needed
<1>1. Needed \subseteq Reqs \X (1..MaxLen)
  <2> SUFFICES ASSUME NEW r \in Live, NEW x \in NeededBy(r) PROVE x \in Reqs \X (1..MaxLen)
    BY DEF Needed
  <2>1. r \in Held
    BY LiveIsHeld
  <2>2. /\ r \in Reqs /\ cached[r] \in Nat
        /\ MaxDeviceLen(r) \in Nat /\ MaxDeviceLen(r) <= MaxLen /\ MaxLen \in Nat
    BY <2>1, HeldLengths
  <2>3. PICK i \in (cached[r] + 1)..(MaxDeviceLen(r) - 1) : x = <<r, i>>
    BY DEF NeededBy
  <2>4. i \in 1..MaxLen
    BY <2>2, <2>3
  <2> QED BY <2>2, <2>3, <2>4
<1>2. IsFiniteSet(Reqs \X (1..MaxLen))
  <2>1. IsFiniteSet(1..MaxLen)
    BY FS_Interval DEF SchedulerAssumption
  <2> QED BY <2>1, FS_Product DEF SchedulerAssumption
<1>3. Promised \subseteq Needed
  BY LiveIsHeld DEF Promised, Needed
<1> QED BY <1>1, <1>2, <1>3, FS_Subset, FS_CardinalityType

\* What available_size means to the loop.
LEMMA UsedCounts ==
  ASSUME C!AvailableIsUnused
  PROVE  /\ IsFiniteSet(C!UsedPages) /\ Cardinality(C!UsedPages) \in Nat
         /\ Cardinality(pool) \in Nat
         /\ KV!Available(tree, free) = Cardinality(pool) - Cardinality(C!UsedPages)
<1>1. /\ IsFiniteSet(pool) /\ C!UsedPages \subseteq pool
      /\ C!Available(tree, free) = Cardinality(pool) - Cardinality(C!UsedPages)
  BY SameCounts DEF C!AvailableIsUnused
<1>2. C!Available(tree, free) = KV!Available(tree, free)
  BY DEF C!Available, KV!Available
<1> QED BY <1>1, <1>2, FS_Subset, FS_CardinalityType

\* The same after a step.
LEMMA UsedStaysCounted ==
  ASSUME C!AvailableIsUnused'
  PROVE  /\ IsFiniteSet(C!UsedPages') /\ Cardinality(C!UsedPages') \in Nat
         /\ Cardinality(pool') \in Nat
         /\ KV!Available(tree', free') = Cardinality(pool') - Cardinality(C!UsedPages')
<1>1. /\ IsFiniteSet(pool') /\ C!UsedPages' \subseteq pool'
      /\ C!Available(tree', free') = Cardinality(pool') - Cardinality(C!UsedPages')
  BY SameCounts DEF C!AvailableIsUnused
<1>2. C!Available(tree', free') = KV!Available(tree', free')
  BY DEF C!Available, KV!Available
<1> QED BY <1>1, <1>2, FS_Subset, FS_CardinalityType

\* The room stays when nothing more is used, and nothing more may be needed.
LEMMA RoomStays ==
  ASSUME SchedulerAssumption, LoopInv, C!AvailableIsUnused, C!AvailableIsUnused', PagesLeft,
         Live' \subseteq Live, pool' = pool,
         \A r \in Live' : cached'[r] = cached[r] /\ request'[r] = request[r],
         Cardinality(C!UsedPages') <= Cardinality(C!UsedPages)
  PROVE  PagesLeft'
<1>1. Needed' \subseteq Needed
  BY DEF Needed, NeededBy, MaxDeviceLen, PromptLen
<1>2. /\ Cardinality(Needed') <= Cardinality(Needed)
      /\ Cardinality(Needed') \in Nat /\ Cardinality(Needed) \in Nat
  BY <1>1, NeededFinite, FS_Subset, FS_CardinalityType
<1>3. /\ Cardinality(C!UsedPages) \in Nat /\ Cardinality(C!UsedPages') \in Nat
      /\ Cardinality(pool) \in Nat
  BY UsedCounts, UsedStaysCounted
<1> QED BY <1>2, <1>3 DEF PagesLeft

\* A release uses nothing more.
LEMMA FreeUses ==
  ASSUME C!PagesInv, NEW u \in Reqs, FreeReqResources(u)
  PROVE  C!UsedPages' \subseteq C!UsedPages
<1>1. CASE slot[u] = NoSlot
  BY <1>1 DEF FreeReqResources, kvVars, C!UsedPages
<1>2. CASE slot[u] # NoSlot
  <2>1. row' = [row EXCEPT ![u] = <<>>]
    BY <1>2 DEF FreeReqResources, Release, KV!CacheReqFinished
  <2>2. row \in [Reqs -> Seq(pool)]
    BY DEF C!PagesInv, C!PoolInv
  <2>3. \A r \in Reqs : row'[r] = IF r = u THEN <<>> ELSE row[r]
    BY <2>1, <2>2
  <2>4. C!ToSet(<<>>) = {}
    BY DEF C!ToSet
  <2> QED BY <2>3, <2>4 DEF C!UsedPages
<1> QED BY <1>1, <1>2

\* Appending adds one element.
LEMMA AppendSet ==
  ASSUME NEW S, NEW s \in Seq(S), NEW u \in S
  PROVE  ToSet(Append(s, u)) = ToSet(s) \cup {u}
<1> DEFINE t == Append(s, u)
<1>1. /\ Len(s) \in Nat /\ Len(t) = Len(s) + 1
      /\ \A i \in 1..Len(s) : t[i] = s[i]
      /\ t[Len(s) + 1] = u /\ DOMAIN t = 1..Len(t) /\ DOMAIN s = 1..Len(s)
  OBVIOUS
<1> HIDE DEF t
<1>2. 1..Len(t) = (1..Len(s)) \cup {Len(s) + 1}
  BY <1>1
<1>3. ToSet(t) = {t[i] : i \in (1..Len(s)) \cup {Len(s) + 1}}
  BY <1>1, <1>2 DEF ToSet
<1>4. ToSet(s) = {t[i] : i \in 1..Len(s)}
  BY <1>1 DEF ToSet
<1> QED BY <1>1, <1>3, <1>4 DEF t

\* A request that joins the batch may need what is reserved for it.
LEMMA PromiseGrows ==
  ASSUME SchedulerAssumption, LoopInv, Promise, loop = "admit",
         NEW u \in Reqs, NEW from \in Nat, NEW fresh, AddToPlan(u, from, fresh),
         cached'[u] = from, \A r \in running \cup ToSet(plan.reqs) : cached'[r] = cached[r],
         PromptLen(u) \in Nat, from < PromptLen(u),
         request[u].output \in Nat, request[u].output >= 1
  PROVE  /\ plan'.reserved = plan.reserved + (PromptLen(u) - from + request[u].output)
         /\ plan'.reserved \in Nat /\ plan.reserved \in Nat
         /\ IsFiniteSet(Promised') /\ Cardinality(Promised') <= plan'.reserved
         /\ running' \cup ToSet(plan'.reqs) = running \cup ToSet(plan.reqs) \cup {u}
<1> DEFINE M == PromptLen(u) + request[u].output - 1
           N == {u} \X ((from + 1)..M)
<1>1. /\ plan'.reqs = Append(plan.reqs, u)
      /\ plan'.reserved = plan.reserved + (PromptLen(u) - from + request[u].output)
      /\ UNCHANGED <<request, running>>
  BY DEF AddToPlan, Reserve, msgVars
<1>2. plan.reserved \in Nat /\ Cardinality(Promised) <= plan.reserved
  BY DEF Promise
<1>3. running' \cup ToSet(plan'.reqs) = running \cup ToSet(plan.reqs) \cup {u}
  <2>1. plan.reqs \in Seq(Reqs)
    BY DEF LoopInv, Planned
  <2>2. ToSet(Append(plan.reqs, u)) = ToSet(plan.reqs) \cup {u}
    BY <2>1, AppendSet
  <2> QED BY <1>1, <2>2
<1>4. Promised' \subseteq Promised \cup N
  <2> SUFFICES ASSUME NEW r \in running \cup ToSet(plan.reqs) \cup {u}, NEW x \in NeededBy(r)'
               PROVE  x \in Promised \cup N
    BY <1>3 DEF Promised
  <2>1. CASE r \in running \cup ToSet(plan.reqs)
    BY <1>1, <2>1 DEF Promised, NeededBy, MaxDeviceLen, PromptLen
  <2>2. CASE r = u
    BY <1>1, <2>2 DEF NeededBy, MaxDeviceLen, PromptLen
  <2> QED BY <2>1, <2>2
<1>5. IsFiniteSet(N) /\ Cardinality(N) = M - from
  <2>1. M \in Nat /\ from <= M
    OBVIOUS
  <2> HIDE DEF M
  <2> QED BY <2>1, CountPositions
<1>6. IsFiniteSet(Promised)
  BY NeededFinite
<1> HIDE DEF N
<1>7. /\ IsFiniteSet(Promised \cup N)
      /\ Cardinality(Promised \cup N) <= Cardinality(Promised) + Cardinality(N)
      /\ Cardinality(Promised) \in Nat /\ Cardinality(N) \in Nat
      /\ Cardinality(Promised \cup N) \in Nat
  BY <1>5, <1>6, CountTogether
<1>8. /\ IsFiniteSet(Promised') /\ Cardinality(Promised') <= Cardinality(Promised \cup N)
      /\ Cardinality(Promised') \in Nat
  BY <1>4, <1>7, FS_Subset, FS_CardinalityType
<1>9. Cardinality(Promised') <= plan'.reserved /\ plan'.reserved \in Nat
  <2> DEFINE now  == Cardinality(Promised')
             both == Cardinality(Promised \cup N)
             was  == Cardinality(Promised)
             more == Cardinality(N)
             held == plan.reserved
             o    == request[u].output
             l    == PromptLen(u)
  <2>1. /\ now \in Nat /\ both \in Nat /\ was \in Nat /\ more \in Nat /\ held \in Nat
        /\ l \in Nat /\ o \in Nat /\ from < l
        /\ now <= both /\ both <= was + more /\ was <= held /\ more = (l + o - 1) - from
        /\ plan'.reserved = held + (l - from + o)
    BY <1>1, <1>2, <1>5, <1>7, <1>8
  <2> HIDE DEF now, both, was, more, held, o, l
  <2>2. now <= plan'.reserved /\ plan'.reserved \in Nat
    BY <2>1
  <2> QED BY <2>2 DEF now
<1> QED BY <1>1, <1>2, <1>3, <1>8, <1>9

\* While a prompt is cut, it is in the batch as soon as anything is.
LEMMA ChunksArePlanned ==
  ASSUME LoopInv, OneCut, plan.reqs # <<>> \/ (HasNext /\ NextUp \notin chunked)
  PROVE  Live \subseteq running \cup ToSet(plan.reqs)
<1>1. /\ pending \in Seq(Reqs) /\ plan.reqs \in Seq(Reqs) /\ Len(plan.reqs) <= Len(pending)
      /\ plan.reqs = SubSeq(pending, 1, Len(plan.reqs))
      /\ plan.fresh \subseteq ToSet(plan.reqs)
  BY DEF LoopInv, Types, Planned
<1>2. \A u \in chunked : pending[1] = u
  BY DEF OneCut
<1>3. CASE plan.reqs # <<>>
  <2>1. Len(plan.reqs) \in Nat /\ Len(plan.reqs) >= 1 /\ 1 \in DOMAIN plan.reqs
    BY <1>1, <1>3
  <2>2. plan.reqs[1] = pending[1]
    BY <1>1, <2>1
  <2>3. pending[1] \in ToSet(plan.reqs)
    BY <2>1, <2>2 DEF ToSet
  <2> QED BY <1>1, <1>2, <2>3 DEF Live
<1>4. CASE plan.reqs = <<>>
  <2>1. NextUp = pending[1] /\ NextUp \notin chunked
    BY <1>4 DEF NextUp
  <2>2. chunked = {}
    BY <1>2, <2>1
  <2> QED BY <1>1, <2>2 DEF Live
<1> QED BY <1>3, <1>4

\* An admission: what it adds to the used and the promised pages fits in what is
\* available once the match is locked.
LEMMA AdmitRoom ==
  ASSUME SchedulerAssumption, PageSize = 1, LoopInv, OneCut, C!AvailableIsUnused', Room, AdmitNew
  PROVE  Room'
<1>0. Types /\ Planned /\ Waiting
  BY DEF LoopInv
<1>1. /\ loop = "admit" /\ HasNext /\ NextUp \notin chunked /\ Fits(NextUp)
      /\ KV!AdmitReq(NextUp, request[NextUp].prompt)
      /\ AddToPlan(NextUp, Match(NextUp) * PageSize, {NextUp})
  BY DEF AdmitNew
<1>2. PICK u \in Reqs : u = NextUp /\ u \in ToSet(pending) /\ u \notin ToSet(plan.reqs)
  BY <1>0, <1>1, NextUpFacts
<1>3. /\ PromptLen(u) \in Nat /\ request[u].output \in Nat /\ request[u].output >= 1
      /\ request[u].prompt # <<>> /\ u \notin running
  BY <1>0, <1>2 DEF Waiting, Accepted, PromptLen, Types
<1> DEFINE from == Match(u) * PageSize
<1>4. /\ cached'[u] = from /\ from < PromptLen(u) /\ cached' \in [Reqs -> Nat]
      /\ \A r \in Reqs : r # u => cached'[r] = cached[r]
      /\ pool' = pool
  BY <1>0, <1>2, <1>3, AdmitFacts
<1>5. from \in Nat /\ AddToPlan(u, from, {u})
  BY <1>1, <1>2, <1>4
<1>6. \A r \in running \cup ToSet(plan.reqs) : cached'[r] = cached[r]
  <2>1. \A r \in running \cup ToSet(plan.reqs) : r \in Reqs /\ r # u
    BY <1>2, <1>3, LiveIsHeld DEF Held
  <2> QED BY <1>4, <2>1
<1>7. PromptLen(u) - from + request[u].output + plan.reserved <= KV!Available(tree', free')
  <2>1. /\ tree' = KV!Lock(KV!Walk(tree, KV!MatchIds(u, request[u].prompt)),
                           KV!Key(request[u].prompt, Match(u)))
        /\ free' = free
    BY <1>1, <1>2 DEF KV!AdmitReq, Match
  <2>2. PromptLen(u) - from + request[u].output + plan.reserved
           <= KV!Available(tree', free') * PageSize
    BY <1>1, <1>2, <2>1 DEF Fits
  <2>3. KV!Available(tree', free') \in Int
    BY UsedStaysCounted
  <2> HIDE DEF from
  <2> QED BY <2>2, <2>3
<1> HIDE DEF from
<1>8. /\ plan'.reserved = plan.reserved + (PromptLen(u) - from + request[u].output)
      /\ plan'.reserved \in Nat /\ plan.reserved \in Nat
      /\ IsFiniteSet(Promised') /\ Cardinality(Promised') <= plan'.reserved
      /\ running' \cup ToSet(plan'.reqs) = running \cup ToSet(plan.reqs) \cup {u}
  BY <1>1, <1>3, <1>4, <1>5, <1>6, PromiseGrows DEF Room
<1>9. Needed' \subseteq Promised'
  <2>1. Live \subseteq running \cup ToSet(plan.reqs)
    BY <1>1, ChunksArePlanned
  <2>2. Live' \subseteq Live \cup {u}
    BY <1>5 DEF AddToPlan, Live
  <2>3. Live' \subseteq running' \cup ToSet(plan'.reqs)
    BY <1>8, <2>1, <2>2
  <2> QED BY <2>3 DEF Needed, Promised
<1>10. /\ Cardinality(Needed') <= Cardinality(Promised')
       /\ Cardinality(Needed') \in Nat /\ Cardinality(Promised') \in Nat
  BY <1>8, <1>9, FS_Subset, FS_CardinalityType
<1>11. /\ KV!Available(tree', free') = Cardinality(pool') - Cardinality(C!UsedPages')
       /\ Cardinality(pool') \in Nat /\ Cardinality(C!UsedPages') \in Nat
  BY UsedStaysCounted
<1>12. PagesLeft'
  <2> DEFINE need == Cardinality(Needed')
             prom == Cardinality(Promised')
             room == KV!Available(tree', free')
             more == PromptLen(u) - from + request[u].output
  <2>1. more \in Int
    BY <1>3, <1>5
  <2>2. more + plan.reserved <= room /\ plan'.reserved = plan.reserved + more
    BY <1>7, <1>8
  <2>3. need <= prom /\ prom <= plan'.reserved /\ need \in Nat /\ prom \in Nat
    BY <1>8, <1>10
  <2>4. room = Cardinality(pool') - Cardinality(C!UsedPages')
    BY <1>11
  <2> HIDE DEF need, prom, room, more
  <2>5. need <= Cardinality(pool') - Cardinality(C!UsedPages')
    BY <1>8, <1>11, <2>1, <2>2, <2>3, <2>4
  <2>6. Cardinality(C!UsedPages') + need <= Cardinality(pool')
    BY <1>11, <2>3, <2>5
  <2> QED BY <2>6 DEF need, PagesLeft
<1>13. Promise'
  BY <1>8 DEF Promise
<1> QED BY <1>12, <1>13 DEF Room

\* The batch to launch is of requests that will run again, and computes positions that
\* are still needed.
LEMMA BatchIsNeeded ==
  ASSUME SchedulerAssumption, LoopInv, loop = "launch", NextBatch # NoBatch
  PROVE  /\ ToSet(NextBatch.reqs) \subseteq Live
         /\ DOMAIN Dev(NextBatch) = ToSet(NextBatch.reqs)
         /\ \A r \in ToSet(NextBatch.reqs) :
              /\ r \in Reqs /\ cached[r] \in Nat /\ Dev(NextBatch)[r] \in Nat
              /\ cached[r] < Dev(NextBatch)[r] /\ Dev(NextBatch)[r] <= MaxDeviceLen(r) - 1
<1> DEFINE b == NextBatch
           B == ToSet(b.reqs)
<1> HIDE DEF b
<1>1. /\ B \subseteq Held /\ DOMAIN Dev(b) = B
      /\ b.phase = "prefill" => b.reqs = plan.reqs
      /\ b.phase # "prefill" => B = running
      /\ \A r \in B :
           /\ Dev(b)[r] \in Nat /\ cached[r] < Dev(b)[r]
           /\ r \in b.chunks => Dev(b)[r] < PromptLen(r)
           /\ r \notin b.chunks => Dev(b)[r] = DeviceLen(r) /\ DeviceLen(r) < MaxDeviceLen(r)
  BY BatchFacts DEF b
<1>2. B \subseteq Live
  BY <1>1, LiveIsHeld
<1>3. ASSUME NEW r \in B
      PROVE  r \in Reqs /\ cached[r] \in Nat /\ Dev(b)[r] <= MaxDeviceLen(r) - 1
  <2>1. /\ r \in Reqs /\ cached[r] \in Nat /\ PromptLen(r) \in Nat /\ DeviceLen(r) \in Nat
        /\ request[r].output \in Nat /\ request[r].output >= 1
        /\ MaxDeviceLen(r) = PromptLen(r) + request[r].output /\ MaxDeviceLen(r) \in Nat
    BY <1>1, HeldLengths
  <2>2. CASE r \in b.chunks
    BY <1>1, <2>1, <2>2
  <2>3. CASE r \notin b.chunks
    BY <1>1, <2>1, <2>3
  <2> QED BY <2>1, <2>2, <2>3
<1> QED BY <1>1, <1>2, <1>3 DEF b

\* So allocate_paged gets its pages.
LEMMA RoomIsEnough ==
  ASSUME SchedulerAssumption, PageSize = 1, LoopInv, C!AvailableIsUnused, PagesLeft
  PROVE  AllocationNeverFails
<1> SUFFICES ASSUME loop = "launch", NextBatch # NoBatch
             PROVE  Cardinality(KV!NewSlots(Dev(NextBatch))) <= KV!Available(tree, free)
  BY DEF AllocationNeverFails
<1> DEFINE dev == Dev(NextBatch)
           W == KV!NewSlots(dev)
<1>1. /\ DOMAIN dev \subseteq Live
      /\ \A r \in DOMAIN dev : /\ r \in Reqs /\ cached[r] \in Nat /\ dev[r] \in Nat
                               /\ cached[r] < dev[r] /\ dev[r] <= MaxDeviceLen(r) - 1
                               /\ MaxDeviceLen(r) \in Nat
  <2>1. \A r \in Live : MaxDeviceLen(r) \in Nat
    BY LiveIsHeld, HeldLengths
  <2> QED BY <2>1, BatchIsNeeded
<1>2. \A n \in Nat : KV!PagesFor(n) = n
  BY DEF KV!PagesFor
<1> HIDE DEF dev
<1>3. W \subseteq Needed
  <2> SUFFICES ASSUME NEW r \in DOMAIN dev,
                      NEW i \in (KV!PagesFor(cached[r]) + 1)..KV!PagesFor(dev[r])
               PROVE  <<r, i>> \in Needed
    BY DEF KV!NewSlots
  <2>1. i \in (cached[r] + 1)..dev[r]
    BY <1>1, <1>2
  <2>2. i \in (cached[r] + 1)..(MaxDeviceLen(r) - 1)
    BY <1>1, <2>1
  <2> QED BY <1>1, <2>2 DEF Needed, NeededBy
<1> HIDE DEF W
<1>4. /\ Cardinality(W) <= Cardinality(Needed)
      /\ Cardinality(W) \in Nat /\ Cardinality(Needed) \in Nat
  BY <1>3, NeededFinite, FS_Subset, FS_CardinalityType
<1>5. /\ KV!Available(tree, free) = Cardinality(pool) - Cardinality(C!UsedPages)
      /\ Cardinality(pool) \in Nat /\ Cardinality(C!UsedPages) \in Nat
  BY UsedCounts
<1>6. Cardinality(W) <= KV!Available(tree, free)
  BY <1>4, <1>5 DEF PagesLeft
<1> QED BY <1>6 DEF W, dev

-----------------------------------------------------------------------------
(* Every step keeps the room. *)

\* The positions a launch computes.
Gained == UNION {{r} \X ((cached[r] + 1)..cached'[r]) : r \in ToSet(NextBatch.reqs)}

\* A launch uses at most one page for each of them.
LEMMA LaunchUses ==
  ASSUME SchedulerAssumption, PageSize = 1, LoopInv, C!PagesInv, C!PagesInv', Launch
  PROVE  /\ IsFiniteSet(Gained)
         /\ Cardinality(C!UsedPages') <= Cardinality(C!UsedPages) + Cardinality(Gained)
<1> DEFINE B == ToSet(NextBatch.reqs)
<1>1. B \in SUBSET KV!CanForward /\ KV!Extend(B)
  BY LaunchIsExtend
<1> HIDE DEF B
<1>2. B \in SUBSET C!CanForward /\ C!Extend(B)
  BY <1>1, SameCanForward, SameExtend
<1>3. C!IInv'
  BY DEF C!PagesInv
<1>4. /\ C!IsFiniteSet(C!Filled(B))
      /\ C!Cardinality(C!UsedPages') <= C!Cardinality(C!UsedPages) + C!Cardinality(C!Filled(B))
  BY <1>2, <1>3, CacheAssumptions, C!ExtendUses
<1>5. C!Filled(B) = Gained
  <2>1. B \subseteq Reqs /\ \A r \in Reqs : cached[r] \in Nat /\ cached'[r] \in Nat
    <3>1. B \subseteq Held /\ cached' \in [Reqs -> Nat]
      BY BatchFacts, LaunchFacts DEF B
    <3> QED BY <3>1 DEF Held, LoopInv, Types
  <2>2. \A n \in Nat : C!PagesFor(n) = n
    BY DEF C!PagesFor
  <2>3. \A r \in B : {r} \X ((C!PagesFor(cached[r]) + 1)..C!PagesFor(cached'[r]))
                       = {r} \X ((cached[r] + 1)..cached'[r])
    BY <2>1, <2>2
  <2> QED BY <2>3 DEF C!Filled, Gained, B
<1> QED BY <1>4, <1>5, SameCounts

\* What it computes was needed, and is not needed any more.
LEMMA LaunchNeeds ==
  ASSUME SchedulerAssumption, LoopInv, Launch
  PROVE  Needed' \cup Gained \subseteq Needed /\ Needed' \cap Gained = {}
<1> DEFINE b == NextBatch
           B == ToSet(b.reqs)
<1>1. /\ loop = "launch" /\ b # NoBatch /\ plan' = EmptyPlan /\ request' = request
      /\ running' \subseteq running \cup Finals(b)
      /\ chunked' = (chunked \ B) \cup b.chunks
      /\ \A r \in Reqs : /\ r \notin B => cached'[r] = cached[r]
                         /\ r \in B => cached'[r] = Dev(b)[r] /\ cached[r] < cached'[r]
  BY LaunchFacts
<1>2. /\ B \subseteq Live /\ b.chunks \subseteq B
      /\ \A r \in B : /\ r \in Reqs /\ cached[r] \in Nat /\ Dev(b)[r] \in Nat
                      /\ Dev(b)[r] <= MaxDeviceLen(r) - 1
  BY <1>1, BatchIsNeeded, BatchFacts
<1> HIDE DEF b
<1>3. Live' \subseteq Live
  BY <1>1, <1>2 DEF Live, Finals, EmptyPlan
<1>4. \A r \in Live : /\ r \in Reqs /\ cached[r] \in Nat /\ cached'[r] \in Nat
                      /\ cached[r] <= cached'[r] /\ MaxDeviceLen(r) \in Nat
  BY <1>1, <1>2, LiveIsHeld, HeldLengths
<1>5. \A r : MaxDeviceLen(r)' = MaxDeviceLen(r)
  BY <1>1 DEF MaxDeviceLen, PromptLen
<1>6. ASSUME NEW r \in Live', NEW i \in (cached'[r] + 1)..(MaxDeviceLen(r)' - 1)
      PROVE  <<r, i>> \in Needed
  <2>1. i \in (cached[r] + 1)..(MaxDeviceLen(r) - 1)
    BY <1>3, <1>4, <1>5
  <2> QED BY <1>3, <2>1 DEF Needed, NeededBy
<1>7. ASSUME NEW r \in B, NEW i \in (cached[r] + 1)..cached'[r]
      PROVE  <<r, i>> \in Needed
  <2>1. cached'[r] = Dev(b)[r] /\ Dev(b)[r] <= MaxDeviceLen(r) - 1
    BY <1>1, <1>2
  <2>2. cached[r] \in Nat /\ cached'[r] \in Nat /\ MaxDeviceLen(r) \in Nat
    BY <1>2, <1>4
  <2>3. cached'[r] <= MaxDeviceLen(r) - 1
    BY <2>1
  <2>4. i \in (cached[r] + 1)..(MaxDeviceLen(r) - 1)
    BY <2>2, <2>3
  <2> QED BY <1>2, <2>4 DEF Needed, NeededBy
<1>8. Needed' = UNION {{r} \X ((cached'[r] + 1)..(MaxDeviceLen(r)' - 1)) : r \in Live'}
  BY DEF Needed, NeededBy
<1>9. Gained = UNION {{r} \X ((cached[r] + 1)..cached'[r]) : r \in B}
  BY DEF Gained, b
<1>10. Needed' \cup Gained \subseteq Needed
  BY <1>6, <1>7, <1>8, <1>9
<1>11. ASSUME NEW r \in B, NEW i \in (cached[r] + 1)..cached'[r],
              i \in (cached'[r] + 1)..(MaxDeviceLen(r)' - 1)
       PROVE  FALSE
  BY <1>2, <1>4, <1>5, <1>11
<1> QED BY <1>8, <1>9, <1>10, <1>11

LEMMA LaunchRoom ==
  ASSUME SchedulerAssumption, PageSize = 1, LoopInv, C!PagesInv, C!PagesInv',
         C!AvailableIsUnused, C!AvailableIsUnused', Room, Launch
  PROVE  Room'
<1>1. /\ IsFiniteSet(Gained)
      /\ Cardinality(C!UsedPages') <= Cardinality(C!UsedPages) + Cardinality(Gained)
  BY LaunchUses
<1>2. Needed' \cup Gained \subseteq Needed /\ Needed' \cap Gained = {}
  BY LaunchNeeds
<1>3. IsFiniteSet(Needed) /\ Cardinality(Needed) \in Nat
  BY NeededFinite
<1>4. /\ Cardinality(Needed') + Cardinality(Gained) <= Cardinality(Needed)
      /\ Cardinality(Needed') \in Nat /\ Cardinality(Gained) \in Nat
  <2>1. IsFiniteSet(Needed')
    BY <1>2, <1>3, FS_Subset
  <2>2. /\ Cardinality(Needed' \cup Gained) = Cardinality(Needed') + Cardinality(Gained)
        /\ Cardinality(Needed') \in Nat /\ Cardinality(Gained) \in Nat
    BY <1>1, <1>2, <2>1, CountTogether
  <2>3. Cardinality(Needed' \cup Gained) <= Cardinality(Needed)
    BY <1>2, <1>3, FS_Subset
  <2> QED BY <2>2, <2>3
<1>5. /\ Cardinality(C!UsedPages) \in Nat /\ Cardinality(C!UsedPages') \in Nat
      /\ Cardinality(pool) \in Nat
  BY UsedCounts, UsedStaysCounted
<1>6. pool' = pool /\ loop' = "drain"
  BY LaunchFacts
<1>7. Cardinality(C!UsedPages) + Cardinality(Needed) <= Cardinality(pool)
  BY DEF Room, PagesLeft
<1> DEFINE need == Cardinality(Needed')
           used == Cardinality(C!UsedPages')
<1>8. used + need <= Cardinality(pool)
  BY <1>1, <1>3, <1>4, <1>5, <1>7
<1>9. PagesLeft'
  BY <1>6, <1>8 DEF PagesLeft
<1> QED BY <1>6, <1>9 DEF Room, Promise

\* Nothing of the cache changes, nor what is asked by who will run again.
LEMMA QuietRoom ==
  ASSUME SchedulerAssumption, LoopInv, C!AvailableIsUnused, C!AvailableIsUnused', PagesLeft,
         Live' \subseteq Live, UNCHANGED <<pool, row, cached>>,
         \A r \in Live : request'[r] = request[r]
  PROVE  PagesLeft'
<1>1. C!UsedPages' = C!UsedPages
  BY DEF C!UsedPages
<1>2. Cardinality(C!UsedPages) \in Nat
  BY UsedCounts
<1>3. Cardinality(C!UsedPages') <= Cardinality(C!UsedPages)
  BY <1>1, <1>2
<1> QED BY <1>3, RoomStays

\* Who is released does not run again.
LEMMA FreeRoom ==
  ASSUME SchedulerAssumption, LoopInv, LoopInv', C!PagesInv, C!AvailableIsUnused,
         C!AvailableIsUnused', PagesLeft, NEW u \in Reqs, FreeReqResources(u),
         Live' \subseteq Live, request' = request
  PROVE  PagesLeft'
<1>1. /\ Held' = Held \ {u} /\ pool' = pool
      /\ \A r \in Reqs : r # u => cached'[r] = cached[r]
  BY FreeFacts DEF LoopInv
<1>2. Live' \subseteq Held'
  BY LiveStaysHeld
<1>3. \A r \in Live' : r \in Reqs /\ r # u
  BY <1>1, <1>2 DEF Held
<1>4. Cardinality(C!UsedPages') <= Cardinality(C!UsedPages)
  <2>1. C!UsedPages' \subseteq C!UsedPages
    BY FreeUses
  <2>2. IsFiniteSet(C!UsedPages)
    BY UsedCounts
  <2> QED BY <2>1, <2>2, FS_Subset
<1> QED BY <1>1, <1>3, <1>4, RoomStays

\* Receiving.
LEMMA ReceiveRoom ==
  ASSUME SchedulerAssumption, LoopInv, LoopInv', C!PagesInv, C!AvailableIsUnused,
         C!AvailableIsUnused', Room, NEW u \in Reqs,
         RecvUser(u) \/ RecvAbort(u) \/ RecvRebuild
  PROVE  Room'
<1>0. PagesLeft
  BY DEF Room
<1>1. loop' = "recv"
  BY DEF RecvUser, RecvAbort, RecvRebuild, batchVars
<1>2. CASE RecvUser(u)
  <2>1. /\ Live' = Live /\ UNCHANGED <<pool, row, cached>>
        /\ request[u] = NoRequest
        /\ \A r \in Reqs : r # u => request'[r] = request[r]
    BY <1>2 DEF RecvUser, batchVars, kvVars, Live, LoopInv, Types
  <2>2. u \notin Live
    BY <2>1, LiveIsHeld DEF LoopInv, Unasked
  <2>3. \A r \in Live : request'[r] = request[r]
    BY <2>1, <2>2, LiveIsHeld DEF Held
  <2>4. PagesLeft'
    BY <1>0, <2>1, <2>3, QuietRoom
  <2> QED BY <1>1, <2>4 DEF Room, Promise
<1>3. CASE RecvAbort(u)
  <2>1. Live' \subseteq Live /\ request' = request
    BY <1>3 DEF RecvAbort, batchVars, Live
  <2>2. CASE UNCHANGED kvVars
    <3>1. PagesLeft'
      BY <1>0, <2>1, <2>2, QuietRoom DEF kvVars
    <3> QED BY <1>1, <3>1 DEF Room, Promise
  <2>3. CASE FreeReqResources(u)
    <3>1. PagesLeft'
      BY <1>0, <2>1, <2>3, FreeRoom
    <3> QED BY <1>1, <3>1 DEF Room, Promise
  <2> QED BY <1>3, <2>2, <2>3 DEF RecvAbort
<1>4. CASE RecvRebuild
  <2>1. Live' = Live /\ UNCHANGED <<pool, row, cached, request>>
    BY <1>4 DEF RecvRebuild, batchVars, kvVars, Live
  <2>2. PagesLeft'
    BY <1>0, <2>1, QuietRoom
  <2> QED BY <1>1, <2>2 DEF Room, Promise
<1> QED BY <1>2, <1>3, <1>4

\* inflight_tokens counts what the running requests may still need.
LEMMA InflightCounts ==
  ASSUME SchedulerAssumption, PageSize = 1, LoopInv
  PROVE  /\ Inflight = Cardinality(UNION {NeededBy(r) : r \in running})
         /\ Inflight \in Nat
<1>1. ASSUME NEW r \in running
      PROVE  {r} \X (DeviceLen(r)..(MaxDeviceLen(r) + PageSize - 2)) = NeededBy(r)
  <2>1. r \in Held /\ cached[r] >= PromptLen(r)
    BY DEF LoopInv, Decoding
  <2>2. cached[r] \in Nat /\ PromptLen(r) \in Nat /\ MaxDeviceLen(r) \in Nat
    BY <2>1, HeldLengths
  <2>3. DeviceLen(r) = cached[r] + 1
    <3>1. ~(cached[r] < PromptLen(r))
      BY <2>1, <2>2
    <3> QED BY <2>1, <3>1 DEF LoopInv, Computing
  <2>4. MaxDeviceLen(r) + PageSize - 2 = MaxDeviceLen(r) - 1
    BY <2>2
  <2> QED BY <2>3, <2>4 DEF NeededBy
<1>2. Inflight = Cardinality(UNION {NeededBy(r) : r \in running})
  <2>1. {{r} \X (DeviceLen(r)..(MaxDeviceLen(r) + PageSize - 2)) : r \in running}
          = {NeededBy(r) : r \in running}
    BY <1>1
  <2> QED BY <2>1 DEF Inflight
<1>3. UNION {NeededBy(r) : r \in running} \subseteq Promised
  BY DEF Promised
<1>4. IsFiniteSet(Promised)
  BY NeededFinite
<1>5. IsFiniteSet(UNION {NeededBy(r) : r \in running})
  BY <1>3, <1>4, FS_Subset
<1> QED BY <1>2, <1>5, FS_CardinalityType

\* An iteration starts: what runs is reserved for.
LEMMA PromiseStarts ==
  ASSUME SchedulerAssumption, PageSize = 1, LoopInv, EndReceive, cached' = cached
  PROVE  Promise' /\ Live' \subseteq Live /\ running' = running /\ request' = request
<1>1. /\ plan' = [EmptyPlan EXCEPT !.budget = PrefillBudget, !.reserved = Inflight]
      /\ UNCHANGED <<request, running, chunked>>
  BY DEF EndReceive
<1>2. plan'.reqs = <<>> /\ plan'.fresh = {} /\ plan'.reserved = Inflight
  BY <1>1 DEF EmptyPlan
<1>3. ToSet(plan'.reqs) = {}
  BY <1>2 DEF ToSet
<1>4. Promised' = UNION {NeededBy(r) : r \in running}
  BY <1>1, <1>3 DEF Promised, NeededBy, MaxDeviceLen, PromptLen
<1>5. plan'.reserved \in Nat /\ Cardinality(Promised') <= plan'.reserved
  BY <1>2, <1>4, InflightCounts
<1> QED BY <1>1, <1>2, <1>5 DEF Promise, Live

LEMMA IterateRoom ==
  ASSUME SchedulerAssumption, PageSize = 1, LoopInv, C!AvailableIsUnused,
         C!AvailableIsUnused', Room, StartIteration \/ ExecuteRebuild
  PROVE  Room'
<1>1. EndReceive /\ row' = row /\ cached' = cached
  BY DEF StartIteration, ExecuteRebuild, kvVars, KV!Reset
<1>2. Promise' /\ Live' \subseteq Live /\ running' = running /\ request' = request
  BY <1>1, PromiseStarts
<1>3. CASE pool' = pool
  <2>1. PagesLeft'
    BY <1>1, <1>2, <1>3, QuietRoom DEF Room
  <2> QED BY <1>2, <2>1 DEF Room
<1>4. CASE pool' # pool
  <2>1. loop = "recv" /\ Idle
    BY <1>1, <1>4 DEF StartIteration, ExecuteRebuild, kvVars, EndReceive
  <2>2. Live' = {}
    BY <1>2, <2>1, IdleHoldsNone, LiveIsHeld
  <2>3. Needed' = {}
    BY <2>2 DEF Needed
  <2>4. Cardinality(Needed') = 0
    BY <2>3, FS_EmptySet
  <2>5. IsFiniteSet(pool') /\ C!UsedPages' \subseteq pool'
    BY SameCounts DEF C!AvailableIsUnused
  <2>6. Cardinality(C!UsedPages') <= Cardinality(pool')
    BY <2>5, FS_Subset
  <2>7. Cardinality(C!UsedPages') \in Nat
    BY UsedStaysCounted
  <2>8. PagesLeft'
    BY <2>4, <2>6, <2>7 DEF PagesLeft
  <2> QED BY <1>2, <2>8 DEF Room
<1> QED BY <1>3, <1>4

\* The next chunk of a prompt.
LEMMA ContinueRoom ==
  ASSUME SchedulerAssumption, LoopInv, C!AvailableIsUnused, C!AvailableIsUnused', Room,
         ContinueChunk
  PROVE  Room'
<1>0. Types /\ Planned /\ Waiting
  BY DEF LoopInv
<1>1. /\ loop = "admit" /\ HasNext /\ NextUp \in chunked
      /\ AddToPlan(NextUp, cached[NextUp], {}) /\ UNCHANGED kvVars
  BY DEF ContinueChunk
<1>2. PICK u \in Reqs : u = NextUp
  BY <1>0, <1>1, NextUpFacts
<1>3. u \in Held /\ cached[u] < PromptLen(u)
  BY <1>0, <1>1, <1>2 DEF Waiting, Types
<1>4. /\ cached[u] \in Nat /\ PromptLen(u) \in Nat
      /\ request[u].output \in Nat /\ request[u].output >= 1
  BY <1>3, HeldLengths
<1>5. AddToPlan(u, cached[u], {}) /\ cached' = cached /\ row' = row /\ pool' = pool
  BY <1>1, <1>2 DEF kvVars
<1>6. plan'.reserved \in Nat /\ Cardinality(Promised') <= plan'.reserved
  <2> DEFINE from == cached[u]
  <2>1. /\ from \in Nat /\ AddToPlan(u, from, {}) /\ cached'[u] = from /\ from < PromptLen(u)
        /\ \A r \in running \cup ToSet(plan.reqs) : cached'[r] = cached[r]
        /\ Promise
    BY <1>3, <1>4, <1>5 DEF Room
  <2> HIDE DEF from
  <2> QED BY <1>1, <1>4, <2>1, PromiseGrows
<1>7. Live' = Live /\ request' = request
  BY <1>5 DEF AddToPlan, msgVars, Live
<1>8. PagesLeft'
  BY <1>5, <1>7, QuietRoom DEF Room
<1> QED BY <1>6, <1>8 DEF Room, Promise

\* A drain releases a request, commits it or leaves it what it has.
LEMMA DrainRoom ==
  ASSUME SchedulerAssumption, LoopInv, LoopInv', C!PagesInv, C!AvailableIsUnused,
         C!AvailableIsUnused', Room, DrainChunk \/ DrainAborted \/ DrainEnded \/ DrainToken
  PROVE  Room'
<1>1. DrainStep
  BY DEF DrainChunk, DrainAborted, DrainEnded, DrainToken
<1>2. PICK d \in Reqs : d = Drained
  BY <1>1, DrainFacts
<1>3. loop' = "drain" /\ UNCHANGED <<request, plan, chunked>>
  BY <1>1, DrainFacts
<1>4. running' \subseteq running
  BY DEF DrainChunk, DrainAborted, DrainEnded, DrainToken
<1>5. Live' \subseteq Live
  BY <1>3, <1>4 DEF Live
<1>6. PagesLeft
  BY DEF Room
<1>7. CASE FreeReqResources(d)
  <2>1. PagesLeft'
    BY <1>3, <1>5, <1>6, <1>7, FreeRoom
  <2> QED BY <1>3, <2>1 DEF Room, Promise
<1>8. CASE UNCHANGED kvVars
  <2>1. PagesLeft'
    BY <1>3, <1>5, <1>6, <1>8, QuietRoom DEF kvVars
  <2> QED BY <1>3, <2>1 DEF Room, Promise
<1>9. CASE KV!CacheReqUnfinished(d) /\ UNCHANGED <<ids, cached>>
  <2>1. C!CacheReqUnfinished(d)
    BY <1>9, SameCacheReqUnfinished
  <2>2. C!Cardinality(C!UsedPages') <= C!Cardinality(C!UsedPages)
    BY <2>1, CacheAssumptions, C!CommitUses
  <2>3. Cardinality(C!UsedPages') <= Cardinality(C!UsedPages)
    BY <2>2, SameCounts
  <2>4. pool' = pool
    BY <1>9 DEF KV!CacheReqUnfinished
  <2>5. PagesLeft'
    BY <1>3, <1>5, <1>6, <1>9, <2>3, <2>4, RoomStays
  <2> QED BY <1>3, <2>5 DEF Room, Promise
<1> QED BY <1>2, <1>7, <1>8, <1>9 DEF DrainChunk, DrainAborted, DrainEnded, DrainToken

LEMMA RoomSteps ==
  ASSUME SchedulerAssumption, PageSize = 1, LoopInv, LoopInv', OneCut, C!PagesInv, C!PagesInv',
         C!AvailableIsUnused, C!AvailableIsUnused', Room, [Next]_vars
  PROVE  Room'
<1>0. PagesLeft /\ Promise
  BY DEF Room
<1>1. ASSUME NEW u \in Reqs, RecvUser(u) \/ RecvAbort(u) PROVE Room'
  BY <1>1, ReceiveRoom
<1>2. CASE RecvRebuild
  <2>1. Live' = Live /\ loop' = "recv" /\ UNCHANGED <<pool, row, cached, request>>
    BY <1>2 DEF RecvRebuild, batchVars, kvVars, Live
  <2>2. PagesLeft'
    BY <1>0, <2>1, QuietRoom
  <2> QED BY <2>1, <2>2 DEF Room, Promise
<1>3. CASE StartIteration \/ ExecuteRebuild
  BY <1>3, IterateRoom
<1>4. CASE ContinueChunk
  BY <1>4, ContinueRoom
<1>5. CASE AdmitNew
  BY <1>5, AdmitRoom
<1>6. CASE StopAdmitting \/ RefuseNew
  <2>1. Live' = Live /\ loop' = "launch" /\ UNCHANGED <<pool, row, cached, request>>
    BY <1>6 DEF StopAdmitting, RefuseNew, kvVars, msgVars, Live
  <2>2. PagesLeft'
    BY <1>0, <2>1, QuietRoom
  <2> QED BY <2>1, <2>2 DEF Room, Promise
<1>7. CASE Launch
  BY <1>7, LaunchRoom
<1>8. CASE LaunchNothing
  <2>1. Live' \subseteq Live /\ loop' = "drain" /\ UNCHANGED <<pool, row, cached, request>>
    BY <1>8 DEF LaunchNothing, HandOver, EmptyPlan, kvVars, msgVars, Live
  <2>2. PagesLeft'
    BY <1>0, <2>1, QuietRoom
  <2> QED BY <2>1, <2>2 DEF Room, Promise
<1>9. CASE DrainChunk \/ DrainAborted \/ DrainEnded \/ DrainToken
  BY <1>9, DrainRoom
<1>10. CASE EndIteration
  <2>1. Live' = Live /\ loop' = "recv" /\ UNCHANGED <<pool, row, cached, request>>
    BY <1>10 DEF EndIteration, kvVars, Live
  <2>2. PagesLeft'
    BY <1>0, <2>1, QuietRoom
  <2> QED BY <2>1, <2>2 DEF Room, Promise
<1>11. CASE UNCHANGED vars
  <2>1. UNCHANGED <<pool, row, cached, request, loop, plan, running, chunked>>
    BY <1>11 DEF vars, kvVars, msgVars, batchVars
  <2>2. Live' = Live /\ Promised' = Promised
    BY <2>1 DEF Live, Promised, NeededBy, MaxDeviceLen, PromptLen
  <2>3. PagesLeft'
    BY <1>0, <2>1, <2>2, QuietRoom
  <2>4. Promise'
    BY <1>0, <2>1, <2>2 DEF Promise
  <2> QED BY <2>3, <2>4 DEF Room
<1> QED BY <1>1, <1>2, <1>3, <1>4, <1>5, <1>6, <1>7, <1>8, <1>9, <1>10, <1>11
        DEF Next, Receive, Loop

\* At the start nothing is used or needed.
LEMMA RoomStarts ==
  ASSUME Init, C!AvailableIsUnused
  PROVE  Room
<1>1. running = {} /\ chunked = {} /\ plan.fresh = {} /\ loop = "recv"
  BY DEF Init, EmptyPlan
<1>2. Needed = {}
  BY <1>1 DEF Needed, Live
<1>3. Cardinality(Needed) = 0
  BY <1>2, FS_EmptySet
<1>4. IsFiniteSet(pool) /\ C!UsedPages \subseteq pool
  BY SameCounts DEF C!AvailableIsUnused
<1>5. Cardinality(C!UsedPages) <= Cardinality(pool)
  BY <1>4, FS_Subset
<1>6. Cardinality(C!UsedPages) \in Nat
  BY UsedCounts
<1> QED BY <1>1, <1>3, <1>5, <1>6 DEF Room, PagesLeft, Promise

(* The estimates of the admission control are enough where a page is one      *)
(* token: no batch, chunked prompts and the decode steps of all running       *)
(* requests included, ever needs more pages than are free or evictable, so    *)
(* the assertions of _allocate and evict never fire (PrefillAdder,            *)
(* inflight_tokens, allocate_paged), with any number of requests of any       *)
(* lengths, aborts, rebuilds and batches in flight.                           *)
THEOREM AllocationAlwaysSucceeds ==
  ASSUME PageSize = 1
  PROVE  Spec => []AllocationNeverFails
<1>1. C!Spec => []C!AvailableIsUnused
  BY CacheAssumptions, C!AvailableAlwaysUnused
<1>2. Spec => []C!AvailableIsUnused
  BY <1>1, CacheSpec, PTL
<1>3. Init /\ C!AvailableIsUnused => Room
  BY RoomStarts
<1>4. /\ LoopInv /\ LoopInv' /\ OneCut /\ C!PagesInv /\ C!PagesInv'
      /\ C!AvailableIsUnused /\ C!AvailableIsUnused' /\ Room /\ [Next]_vars
      => Room'
  BY SchedulerAssumption, PageSize = 1, RoomSteps
<1>5. LoopInv /\ C!AvailableIsUnused /\ Room => AllocationNeverFails
  BY SchedulerAssumption, PageSize = 1, RoomIsEnough DEF Room
<1> QED BY <1>2, <1>3, <1>4, <1>5, LoopAlways, CutAlways, CacheInv, PTL DEF Spec
=============================================================================
