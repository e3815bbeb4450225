-------------------------- MODULE MoeOffload_proofs --------------------------
(***************************************************************************)
(* Theorems about the slot cache of the experts, for any number of layers, *)
(* experts and slots, with and without overlap, device hits and the hybrid *)
(* split, over any sequence of passes, resets and rebuilds:                *)
(*   MapAlwaysInverse         the two directions of the slot map agree     *)
(*   DecodeAlwaysReadsIts     a decode GEMM reads the experts routed to    *)
(*   PrefillAlwaysReadsIts    a prefill GEMM reads the experts of its layer*)
(*   HitsAlwaysHoldTheirBytes what the map may be believed of is there     *)
(*   LiveIsAlwaysSnapshot     device and host agree on what is a hit       *)
(*   BuffersNeverStolen       no buffer is taken before it was released    *)
(*   HitsAlwaysStay           a decode step keeps its own residents        *)
(*   ForwardAlwaysReadsItsExperts   the property of the runs               *)
(***************************************************************************)
EXTENDS MoeOffload, TLAPS, FiniteSetTheorems, SequenceTheorems

-----------------------------------------------------------------------------
(* The inductive invariant. *)

\* What changes the slot map, or the bytes of any slot.
Changers == {"ensure", "materialize", "copy_missing", "gemm", "reset"}

ComputeOps ==
  [op : Changers \cup {"compact", "gather", "gemm_layer"}, layer : Layers]
    \cup [op : {"wait"}, ev : {Ready(b) : b \in {0, 1}}, n : Nat]
    \cup [op : {"record"}, ev : {Begin} \cup {Release(b) : b \in {0, 1}}, n : Nat]

CopyOps ==
  [op : {"snapshot", "invalidate"}, layer : Layers]
    \cup [op : {"h2d", "h2d_end"}, layer : Layers, buffer : {0, 1}, rows : [Banks -> SUBSET Experts]]
    \cup [op : {"wait"}, ev : {Begin} \cup {Release(b) : b \in {0, 1}}, n : Nat]
    \cup [op : {"record"}, ev : {Ready(b) : b \in {0, 1}}, n : Nat]

Types ==
  /\ cache_size \in CacheSizes /\ cache_size >= NumExperts /\ prefill_overlap \in BOOLEAN
  /\ slot_for_id \in [Ids -> Slots \cup {None}]
  /\ id_of_slot \in [Slots -> Ids \cup {None}]
  /\ usage \in [Slots -> 0 .. step] /\ step \in Nat
  /\ expert_recency \in [Ids -> None .. step]
  /\ staged \subseteq Slots \X Ids
  /\ topk \subseteq Experts \X (Slots \cup {None})
  /\ data = [k \in Banks |-> data[k]]
  /\ hits \subseteq Nat \X Nat
  /\ compute \in Seq(ComputeOps) /\ copy \in Seq(CopyOps)
  /\ recorded \in [Events -> Nat] /\ done \in [Events -> Nat]
  /\ buffer_layer \in [{0, 1} -> Layers \cup {None}]
  /\ released \in [{0, 1} -> BOOLEAN] /\ has_release \in [{0, 1} -> BOOLEAN]
  /\ snapshot \in [Ids -> Nat \cup {None}] /\ hit_d2d_active \in BOOLEAN
  /\ host \in [at : {"idle", "snapshot", "prefetch", "invalidate", "forward"},
               layer : Layers, target : Nat]

\* Without overlap the copy stream does nothing.
Mode ==
  /\ prefill_overlap => cache_size >= 2 * NumExperts
  /\ prefill_overlap => \A i \in 1 .. Len(compute) : compute[i].op # "materialize"
  /\ ~prefill_overlap =>
       /\ copy = <<>> /\ host.at = "idle"
       /\ \A i \in 1 .. Len(compute) : compute[i].op \in Changers \cup {"gemm_layer"}

-----------------------------------------------------------------------------
(* The host. *)

\* Before the first copy of a chunk.
Starting ==
  \/ host.at = "snapshot"
  \/ host.at \in {"prefetch", "invalidate"} /\ host.layer = 0 /\ host.target = 0

\* Which layer each buffer is of.
Cursor ==
  LET l == host.layer IN
  /\ host.at = "snapshot" => l = 0 /\ host.target = 0
  /\ Starting => \A b \in {0, 1} : buffer_layer[b] = None
  /\ host.at = "prefetch" /\ ~Starting =>
       /\ host.target \in {l, l + 1}
       /\ buffer_layer[BufferOf(l)] = l /\ buffer_layer[BufferOf(l + 1)] = l - 1
  /\ host.at = "invalidate" =>
       /\ host.target < NumLayers
       /\ ~Starting => /\ host.target = l + 1
                       /\ buffer_layer[BufferOf(l)] = l /\ buffer_layer[BufferOf(l + 1)] = l - 1
  /\ host.at = "forward" =>
       /\ buffer_layer[BufferOf(l)] = l
       /\ buffer_layer[BufferOf(l + 1)] = IF l + 1 < NumLayers THEN l + 1 ELSE l - 1
  /\ host.at # "idle" => \A b \in {0, 1} : buffer_layer[b] < l => released[b]

\* A buffer holds layer l, or will, and its GEMM has not been enqueued.
Owned(l) ==
  /\ host.at \in {"prefetch", "invalidate", "forward"}
  /\ l \in Layers /\ host.layer <= l /\ buffer_layer[BufferOf(l)] = l

-----------------------------------------------------------------------------
(* The streams. *)

Pending(ev) == done[ev] < recorded[ev]

\* A record that has not run is in its queue once, and is the last one enqueued.
Records ==
  /\ \A ev \in Events : done[ev] <= recorded[ev]
  /\ \A i \in 1 .. Len(compute) :
       /\ compute[i].op = "wait" => compute[i].n = recorded[compute[i].ev]
       /\ compute[i].op = "record" => /\ compute[i].n = recorded[compute[i].ev]
                                      /\ Pending(compute[i].ev)
  /\ \A i, j \in 1 .. Len(compute) :
       compute[i].op = "record" /\ compute[j].op = "record" /\ compute[i].ev = compute[j].ev => i = j
  /\ \A p \in 1 .. Len(copy) :
       /\ copy[p].op = "wait" => copy[p].n = recorded[copy[p].ev]
       /\ copy[p].op = "record" => copy[p].n = recorded[copy[p].ev] /\ Pending(copy[p].ev)
  /\ \A b \in {0, 1} : has_release[b] \/ ~Pending(Release(b))

\* What the copy stream waits for is in its queue.
Fences ==
  /\ Pending(Begin) => /\ Starting /\ (hit_d2d_active => host.at = "snapshot")
                       /\ \E p \in 1 .. Len(copy) : copy[p] = WaitOp(Begin, recorded[Begin])
  /\ host.at = "invalidate" =>
       LET b == BufferOf(host.target)
       IN  Pending(Release(b)) =>
             \E p \in 1 .. Len(copy) : copy[p] = WaitOp(Release(b), recorded[Release(b)])
  /\ \A l \in Layers : Owned(l) => ~Pending(Release(BufferOf(l)))

IsCopy(o) == o.op \in {"h2d", "h2d_end"}

\* The copy queue: a layer's copy and its record, what the next chunk waits for, and what
\* the host waits for.
CopyQueue ==
  /\ \A p \in 1 .. Len(copy) :
       LET o == copy[p] IN
       /\ IsCopy(o) => /\ p = 1 /\ Len(copy) >= 2 /\ o.buffer = BufferOf(o.layer)
                       /\ copy[2].op = "record" /\ copy[2].ev = Ready(o.buffer)
       /\ o.op = "record" => p \in {1, 2} /\ (p = 2 => IsCopy(copy[1]))
       /\ o.op = "wait" => Starting \/ host.at = "invalidate"
       /\ o.op \in {"snapshot", "invalidate"} => p = Len(copy) /\ host.at = o.op
       /\ o.op = "invalidate" => o.layer = host.target
  /\ host.at \in {"snapshot", "invalidate"} /\ copy # <<>> => copy[Len(copy)].op = host.at

GemmLayer(l) == Op("gemm_layer", l)

IsHitOp(o) == o.op \in {"compact", "gather"}

\* Operations that belong together stand together.
Neighbours(q, i) ==
  LET o == q[i] IN
  /\ o.op = "ensure" => /\ i + 2 <= Len(q)
                        /\ q[i + 1] = Op("copy_missing", o.layer)
                        /\ q[i + 2] = Op("gemm", o.layer)
  /\ o.op = "materialize" => /\ i + 2 <= Len(q)
                             /\ q[i + 1] = Op("copy_missing", o.layer)
                             /\ q[i + 2] = GemmLayer(o.layer)
  /\ o.op = "copy_missing" =>
       /\ i > 1 => q[i - 1] \in {Op("ensure", o.layer), Op("materialize", o.layer)}
       /\ i + 1 <= Len(q) /\ q[i + 1] \in {Op("gemm", o.layer), GemmLayer(o.layer)}
  /\ o.op = "gemm" /\ i > 1 => q[i - 1] = Op("copy_missing", o.layer)
  /\ o.op = "compact" => i + 1 <= Len(q) /\ q[i + 1] = Op("gather", o.layer)
  /\ o.op = "gather" /\ i > 1 => q[i - 1] = Op("compact", o.layer)
  /\ o.op = "gemm_layer" /\ ~prefill_overlap /\ i > 1 => q[i - 1] = Op("copy_missing", o.layer)
  /\ o.op = "gemm_layer" /\ prefill_overlap =>
       /\ i + 1 <= Len(q)
       /\ q[i + 1].op = "record" /\ q[i + 1].ev = Release(BufferOf(o.layer))
       /\ i > 1 => q[i - 1].op = "wait" /\ q[i - 1].ev = Ready(BufferOf(o.layer))
  /\ o.op = "wait" => /\ i + 1 <= Len(q) /\ q[i + 1].op = "gemm_layer"
                      /\ o.ev = Ready(BufferOf(q[i + 1].layer))

Adjacent ==
  /\ \A i \in 1 .. Len(compute) : Neighbours(compute, i)
  /\ Running(compute, "gemm_layer") /\ prefill_overlap => ~Pending(Ready(BufferOf(Head(compute).layer)))

IsBegin(o) == o.op = "record" /\ o.ev = Begin
IsPass(o)  == o.op \in Changers \/ IsBegin(o)

\* The streamed chunk runs before whatever was enqueued after it, and a new chunk starts
\* behind all that.
Order ==
  /\ prefill_overlap =>
       \A i, j \in 1 .. Len(compute) : i < j /\ IsPass(compute[i]) => IsPass(compute[j])
  /\ \A i \in 1 .. Len(compute) : IsBegin(compute[i]) => i = Len(compute)
  /\ host.at # "idle" /\ ~Pending(Begin) =>
       \A i \in 1 .. Len(compute) : compute[i].op \notin Changers
  /\ host.at # "idle" /\ ~Pending(Begin) =>
       \A i \in 1 .. Len(compute) : compute[i].op = "gemm_layer" => compute[i].layer < host.layer

-----------------------------------------------------------------------------
(* The map and the bytes. *)

\* The GEMM of layer l reads its buffer, now or later.
Live(l) == Owned(l) \/ (prefill_overlap /\ \E i \in 1 .. Len(compute) : compute[i] = GemmLayer(l))

\* No expert is looked up in the slots of buffer b.
Free(b) == \A s \in BufferSlots(b) : id_of_slot[s] = None

\* The host waits for the buffer of layer t to be disowned.
Taking(t) == host.at = "invalidate" /\ host.target = t

HitRows(t) ==
  {<<BufferOf(t) * NumExperts + e, slot_for_id[Id(t, e)]>> :
      e \in {x \in Experts : IsHit(slot_for_id[Id(t, x)])}}

HitsOf(t) == {Op("compact", t), Op("gather", t)}

\* The layer whose rows are crossing the bus.
Copying(l) == copy # <<>> /\ IsCopy(copy[1]) /\ copy[1].layer = l

\* The i-th operation finds the hits of layer t, or moves them into its buffer: nobody
\* else will read the buffer before its GEMM.
Gathering(i, t) ==
  /\ hit_d2d_active /\ HitD2d /\ cache_size > 2 * NumExperts
  /\ \/ Taking(t) /\ i >= Len(compute) - 1
     \/ Free(BufferOf(t)) /\ Owned(t)
     \/ Free(BufferOf(t)) /\ \E j \in i .. Len(compute) : compute[j] = GemmLayer(t)
  /\ \A j \in i .. Len(compute), l \in Layers : compute[j] = GemmLayer(l) /\ BufferOf(l) = BufferOf(t) => l = t
  /\ i = 1 /\ compute[i] = Op("gather", t) => hits = HitRows(t)

\* The layers whose buffers are being filled.
Filling ==
  /\ host.at # "idle" /\ hit_d2d_active => HitD2d /\ cache_size > 2 * NumExperts
  /\ \A l \in Layers : Copying(l) => Live(l) /\ Free(BufferOf(l))
  /\ \A i \in 1 .. Len(compute), t \in Layers : compute[i] \in HitsOf(t) => Gathering(i, t)
  /\ \A t \in Layers : Taking(t) =>
       /\ copy = <<>> => Free(BufferOf(t))
       /\ hit_d2d_active /\ compute # <<>> => compute[Len(compute)] = Op("gather", t)

\* Nothing is streamed.
Quiet ==
  /\ \A l \in Layers : ~Live(l) /\ ~Copying(l)
  /\ \A i \in 1 .. Len(compute) : ~IsHitOp(compute[i])
  /\ host.at # "idle" => Pending(Begin)

\* The hits of the live map are those of the snapshot.
Matches ==
  \A i \in Ids : IsHit(slot_for_id[i]) \/ IsHit(snapshot[i]) => slot_for_id[i] = snapshot[i]

Snapshots ==
  /\ (\E i \in 1 .. Len(compute) : IsHitOp(compute[i])) => Matches
  /\ hit_d2d_active /\ host.at # "idle" /\ ~Pending(Begin) /\ ~(host.at = "snapshot" /\ copy # <<>>)
       => Matches

\* The slot is overwritten by the hits of the chunk before it is disowned.
Overwritten(s) ==
  /\ host.at = "invalidate" /\ hit_d2d_active /\ compute = <<>>
  /\ s \in BufferSlots(BufferOf(host.target))

Bytes ==
  \A i \in Ids :
    LET s == slot_for_id[i] IN
    s # None /\ <<s, i>> \notin staged => Overwritten(s) \/ \A k \in Banks : data[k][s] = i

\* A decode step, or a materialized layer, between its look-up and its GEMM.
Steps ==
  /\ staged # {} => Running(compute, "copy_missing")
  /\ \A a \in staged : slot_for_id[a[2]] = a[1]
  /\ \/ Running(compute, "copy_missing") /\ compute[2].op = "gemm"
     \/ Running(compute, "gemm")
     => \A r \in topk : r[2] # None => slot_for_id[Id(compute[1].layer, r[1])] = r[2]
  /\ \/ Running(compute, "copy_missing") /\ compute[2].op = "gemm_layer"
     \/ Running(compute, "gemm_layer") /\ ~prefill_overlap
     => \A e \in Experts : slot_for_id[Id(compute[1].layer, e)] = e

\* A row of a buffer is right, or its copy is coming, or its gather is.
Row(l, k, e) ==
  \/ data[k][BufferOf(l) * NumExperts + e] = Id(l, e)
  \/ Copying(l) /\ e \in copy[1].rows[k]
  \/ /\ k = "wide" /\ IsHit(slot_for_id[Id(l, e)])
     /\ \E j \in 1 .. Len(compute) : compute[j] = Op("gather", l)

Rows ==
  /\ \A l \in Layers : Live(l) => \A k \in Banks, e \in Experts : Row(l, k, e)
  /\ \A t \in Layers : Taking(t) /\ hit_d2d_active /\ compute = <<>> =>
       \A e \in Experts : IsHit(slot_for_id[Id(t, e)]) => data["wide"][BufferOf(t) * NumExperts + e] = Id(t, e)

\* The routing of a decode step lives until its GEMM.
Routed ==
  topk # {} => Running(compute, "copy_missing") \/ Running(compute, "gemm") \/ Running(compute, "gemm_layer")

StreamRest == Mode /\ Cursor /\ Records /\ Fences /\ CopyQueue /\ Adjacent /\ Order
StreamInv == Types /\ StreamRest /\ Routed
MapInv    == MapIsInverse /\ Filling /\ Snapshots /\ Bytes /\ Steps /\ Rows
OffloadInv == StreamInv /\ MapInv

-----------------------------------------------------------------------------
(* Numbers: ids, buffers and events. *)

LEMMA EventsDiffer ==
  /\ Begin \in Events /\ \A b \in {0, 1} : Ready(b) \in Events /\ Release(b) \in Events
  /\ \A b \in {0, 1} : Ready(b) # Begin /\ Release(b) # Begin
  /\ \A b, c \in {0, 1} : /\ Ready(b) # Release(c)
                          /\ Ready(b) = Ready(c) => b = c
                          /\ Release(b) = Release(c) => b = c
  BY DEF Events, Begin, Ready, Release

LEMMA Division ==
  ASSUME NEW n \in Nat \ {0}, NEW a \in Nat
  PROVE  a \div n \in Nat /\ a % n \in 0 .. n - 1 /\ a = (a \div n) * n + (a % n)
  <1>1. a \div n \in Nat /\ a % n \in 0 .. n - 1 /\ a = n * (a \div n) + (a % n)
    OBVIOUS
  <1>2. PICK q \in Nat, r \in 0 .. n - 1 : q = a \div n /\ r = a % n /\ a = n * q + r
    BY <1>1
  <1>3. n * q = q * n
    OBVIOUS
  <1>4. a = q * n + r
    BY <1>2, <1>3
  <1> QED BY <1>2, <1>4

LEMMA Product ==
  ASSUME NEW m \in Nat, NEW n \in Nat
  PROVE  m * n \in Nat
  OBVIOUS

LEMMA NextMultiple ==
  ASSUME NEW n \in Nat \ {0}, NEW a \in Nat, NEW b \in Nat, a < b
  PROVE  a * n + n <= b * n
  OBVIOUS

LEMMA SplitIndex ==
  ASSUME NEW n \in Nat \ {0}, NEW l \in Nat, NEW e \in 0 .. n - 1
  PROVE  (l * n + e) \div n = l /\ (l * n + e) % n = e
  <1>1. l * n + e \in Nat
    OBVIOUS
  <1>2. PICK q \in Nat, r \in 0 .. n - 1 :
          /\ q = (l * n + e) \div n /\ r = (l * n + e) % n
          /\ l * n + e = q * n + r
    BY <1>1, Division
  <1>3. ~(l < q) /\ ~(q < l)
    <2>1. l < q => l * n + n <= q * n
      BY NextMultiple
    <2>2. q < l => q * n + n <= l * n
      BY NextMultiple
    <2>3. l * n \in Int /\ q * n \in Int
      OBVIOUS
    <2> QED BY <1>2, <2>1, <2>2, <2>3
  <1>4. l = q
    BY <1>3
  <1>5. l * n \in Int
    OBVIOUS
  <1> QED BY <1>2, <1>4, <1>5

LEMMA IdFacts ==
  ASSUME SizesAssumption
  PROVE  /\ \A l \in Layers, e \in Experts :
              /\ Id(l, e) \in Ids /\ Id(l, e) \div NumExperts = l /\ Id(l, e) % NumExperts = e
         /\ \A i \in Ids : /\ i \div NumExperts \in Layers /\ i % NumExperts \in Experts
                           /\ Id(i \div NumExperts, i % NumExperts) = i
         /\ \A l, m \in Layers, e, f \in Experts : Id(l, e) = Id(m, f) => l = m /\ e = f
         /\ None \notin Ids /\ Torn \notin Ids
  <1>1. NumLayers \in Nat \ {0} /\ NumExperts \in Nat \ {0}
    BY DEF SizesAssumption
  <1>2. NumLayers * NumExperts \in Nat
    BY <1>1, Product
  <1>3. ASSUME NEW l \in Layers, NEW e \in Experts
        PROVE  Id(l, e) \in Ids /\ Id(l, e) \div NumExperts = l /\ Id(l, e) % NumExperts = e
    <2>1. l \in Nat /\ l < NumLayers /\ e \in 0 .. NumExperts - 1
      BY <1>1 DEF Layers, Experts
    <2>2. Id(l, e) \div NumExperts = l /\ Id(l, e) % NumExperts = e
      BY <1>1, <2>1, SplitIndex DEF Id
    <2>3. l * NumExperts + NumExperts <= NumLayers * NumExperts
      BY <1>1, <2>1, NextMultiple
    <2>4. l * NumExperts \in Nat
      BY <1>1, <2>1, Product
    <2> QED BY <1>1, <1>2, <2>1, <2>2, <2>3, <2>4 DEF Ids, Id
  <1>4. ASSUME NEW i \in Ids
        PROVE  /\ i \div NumExperts \in Layers /\ i % NumExperts \in Experts
               /\ Id(i \div NumExperts, i % NumExperts) = i
    <2>1. i \in Nat /\ i < NumLayers * NumExperts
      BY <1>2 DEF Ids
    <2>2. PICK q \in Nat, r \in 0 .. NumExperts - 1 :
            q = i \div NumExperts /\ r = i % NumExperts /\ i = q * NumExperts + r
      BY <1>1, <2>1, Division
    <2>3. ~(NumLayers <= q)
      <3>1. NumLayers < q => NumLayers * NumExperts + NumExperts <= q * NumExperts
        BY <1>1, <2>2, NextMultiple
      <3>2. q * NumExperts \in Nat
        BY <1>1, <2>2, Product
      <3>3. NumLayers = q => FALSE
        BY <1>1, <1>2, <2>1, <2>2
      <3> QED BY <1>1, <1>2, <2>1, <2>2, <3>1, <3>2, <3>3
    <2>4. q \in Layers /\ r \in Experts
      BY <1>1, <2>2, <2>3 DEF Layers, Experts
    <2>5. Id(q, r) = i
      BY <2>2 DEF Id
    <2> QED BY <2>2, <2>4, <2>5
  <1>5. None \notin Ids /\ Torn \notin Ids
    BY <1>2 DEF Ids, None, Torn
  <1>6. ASSUME NEW l \in Layers, NEW m \in Layers, NEW e \in Experts, NEW f \in Experts, Id(l, e) = Id(m, f)
        PROVE  l = m /\ e = f
    BY <1>3, <1>6
  <1> QED BY <1>3, <1>4, <1>5, <1>6

LEMMA BufferFacts ==
  ASSUME SizesAssumption
  PROVE  /\ \A l \in Nat : BufferOf(l) \in {0, 1} /\ BufferOf(l + 1) \in {0, 1} /\ BufferOf(l + 1) # BufferOf(l)
         /\ \A b \in {0, 1}, e \in Experts :
              /\ b * NumExperts + e \in BufferSlots(b)
              /\ (b * NumExperts + e) % NumExperts = e
         /\ \A b \in {0, 1} : \A s \in BufferSlots(b) :
              /\ s \in 0 .. 2 * NumExperts - 1 /\ ~IsHit(s) /\ s # None
              /\ s % NumExperts \in Experts /\ s = b * NumExperts + (s % NumExperts)
         /\ \A b, c \in {0, 1} : BufferSlots(b) \cap BufferSlots(c) # {} => b = c
         /\ ~IsHit(None)
  <1>1. NumExperts \in Nat \ {0}
    BY DEF SizesAssumption
  <1>2. \A l \in Nat : BufferOf(l) \in {0, 1} /\ BufferOf(l + 1) \in {0, 1} /\ BufferOf(l + 1) # BufferOf(l)
    BY DEF BufferOf
  <1>3. BufferSlots(0) = 0 .. NumExperts - 1 /\ BufferSlots(1) = NumExperts .. 2 * NumExperts - 1
    BY <1>1 DEF BufferSlots
  <1>4. 0 * NumExperts = 0 /\ 1 * NumExperts = NumExperts
    BY <1>1
  <1>5. ASSUME NEW b \in {0, 1}, NEW e \in Experts
        PROVE  b * NumExperts + e \in BufferSlots(b) /\ (b * NumExperts + e) % NumExperts = e
    <2>1. (b * NumExperts + e) % NumExperts = e
      BY <1>1, SplitIndex DEF Experts
    <2>2. CASE b = 0
      BY <1>1, <1>3, <1>4, <2>1, <2>2 DEF Experts
    <2>3. CASE b = 1
      BY <1>1, <1>3, <1>4, <2>1, <2>3 DEF Experts
    <2> QED BY <2>2, <2>3
  <1>6. ASSUME NEW b \in {0, 1}, NEW s \in BufferSlots(b)
        PROVE  /\ s \in 0 .. 2 * NumExperts - 1 /\ ~IsHit(s) /\ s # None
               /\ s % NumExperts \in Experts /\ s = b * NumExperts + (s % NumExperts)
    <2>1. s \in 0 .. 2 * NumExperts - 1
      BY <1>1, <1>3
    <2>2. PICK e \in Experts : s = b * NumExperts + e
      <3>1. CASE b = 0
        <4>1. s \in Experts /\ s = 0 + s
          BY <1>1, <1>3, <3>1 DEF Experts
        <4> QED BY <1>4, <3>1, <4>1
      <3>2. CASE b = 1
        <4>1. s - NumExperts \in Experts /\ s = NumExperts + (s - NumExperts)
          BY <1>1, <1>3, <3>2 DEF Experts
        <4> QED BY <1>4, <3>2, <4>1
      <3> QED BY <3>1, <3>2
    <2>3. s % NumExperts = e
      BY <1>5, <2>2
    <2>4. ~IsHit(s) /\ s # None
      BY <1>1, <2>1 DEF IsHit, None
    <2> QED BY <2>1, <2>2, <2>3, <2>4
  <1>7. \A b, c \in {0, 1} : BufferSlots(b) \cap BufferSlots(c) # {} => b = c
    BY <1>1, <1>3
  <1>8. ~IsHit(None)
    BY <1>1 DEF IsHit, None
  <1> QED BY <1>2, <1>5, <1>6, <1>7, <1>8

-----------------------------------------------------------------------------
(* Choosing slots. *)

\* Counting what comes before numbers a finite set from zero; B[x] is what comes before x.
LEMMA Ranking ==
  ASSUME NEW S, IsFiniteSet(S), NEW B \in [S -> SUBSET S],
         \A x \in S : x \notin B[x],
         \A x, y \in S : x = y \/ x \in B[y] \/ y \in B[x],
         \A x, y \in S : x \in B[y] => B[x] \subseteq B[y]
  PROVE  /\ \A x \in S : Cardinality(B[x]) \in 0 .. Cardinality(S) - 1
         /\ \A x, y \in S : Cardinality(B[x]) = Cardinality(B[y]) => x = y
         /\ \A n \in 0 .. Cardinality(S) - 1 : \E x \in S : Cardinality(B[x]) = n
  <1> DEFINE N == 0 .. Cardinality(S) - 1
             rank == [x \in S |-> Cardinality(B[x])]
  <1>1. Cardinality(S) \in Nat
    BY FS_CardinalityType
  <1>2. ASSUME NEW x \in S
        PROVE  /\ IsFiniteSet(B[x]) /\ Cardinality(B[x]) \in N
    <2>1. B[x] \in SUBSET S /\ B[x] # S
      OBVIOUS
    <2>2. IsFiniteSet(B[x]) /\ Cardinality(B[x]) <= Cardinality(S) /\ Cardinality(B[x]) # Cardinality(S)
      BY <2>1, FS_Subset
    <2>3. Cardinality(B[x]) \in Nat
      BY <2>2, FS_CardinalityType
    <2> QED BY <1>1, <2>2, <2>3
  <1>3. ASSUME NEW x \in S, NEW y \in S, x \in B[y]
        PROVE  Cardinality(B[x]) # Cardinality(B[y])
    <2>1. B[x] \in SUBSET B[y] /\ B[x] # B[y]
      BY <1>3
    <2>2. IsFiniteSet(B[y])
      BY <1>2
    <2> QED BY <2>1, <2>2, FS_Subset
  <1>4. ASSUME NEW x \in S, NEW y \in S, Cardinality(B[x]) = Cardinality(B[y])
        PROVE  x = y
    <2>1. x = y \/ x \in B[y] \/ y \in B[x]
      OBVIOUS
    <2> QED BY <1>3, <1>4, <2>1
  <1>5. rank \in Injection(S, N)
    <2>1. rank \in [S -> N]
      BY <1>2
    <2>2. \A x \in S : rank[x] = Cardinality(B[x])
      OBVIOUS
    <2> HIDE DEF rank
    <2> QED BY <1>4, <2>1, <2>2 DEF Injection, IsInjective
  <1>6. IsFiniteSet(N) /\ Cardinality(N) = Cardinality(S)
    BY <1>1, FS_Interval
  <1> HIDE DEF rank
  <1>7. rank \in Surjection(S, N)
    BY <1>5, <1>6, FS_Injection
  <1>8. \A n \in N : \E x \in S : rank[x] = n
    BY <1>7 DEF Surjection
  <1>9. \A n \in N : \E x \in S : Cardinality(B[x]) = n
    BY <1>8 DEF rank
  <1> QED BY <1>2, <1>4, <1>9

LEMMA Sizes == SizesAssumption => NumExperts \in Nat \ {0} /\ CacheSizes \subseteq Nat
  BY DEF SizesAssumption

LEMMA CacheSize ==
  ASSUME Types
  PROVE  cache_size \in CacheSizes /\ cache_size >= NumExperts
  BY DEF Types

\* The order slots are evicted in.
LEMMA EvictOrder ==
  ASSUME SizesAssumption, Types, NEW E \in SUBSET Slots, IsFiniteSet(E)
  PROVE  /\ \A x \in E : Rank(E, EvictBefore, x) \in 0 .. Cardinality(E) - 1
         /\ \A x, y \in E : Rank(E, EvictBefore, x) = Rank(E, EvictBefore, y) => x = y
         /\ \A n \in 0 .. Cardinality(E) - 1 : \E x \in E : Rank(E, EvictBefore, x) = n
  <1> DEFINE B == [x \in E |-> {y \in E : EvictBefore(y, x)}]
  <1>1. \A x \in E : x \in Int /\ usage[x] \in Int
    <2>1. cache_size \in Nat
      BY Sizes, CacheSize
    <2>2. usage \in [Slots -> 0 .. step] /\ step \in Nat
      BY DEF Types
    <2> QED BY <2>1, <2>2 DEF Slots
  <1>2. /\ \A x \in E : ~EvictBefore(x, x)
        /\ \A x, y \in E : x = y \/ EvictBefore(x, y) \/ EvictBefore(y, x)
        /\ \A x, y, z \in E : EvictBefore(x, y) /\ EvictBefore(y, z) => EvictBefore(x, z)
    BY <1>1 DEF EvictBefore
  <1>3. \A x \in E : Rank(E, EvictBefore, x) = Cardinality(B[x])
    BY DEF Rank
  <1>4. \A x, y \in E : y \in B[x] <=> EvictBefore(y, x)
    OBVIOUS
  <1>5. B \in [E -> SUBSET E]
    OBVIOUS
  <1> HIDE DEF B
  <1>6. \A x, y \in E : x \in B[y] => B[x] \subseteq B[y]
    BY <1>2, <1>4, <1>5
  <1>7. (\A x \in E : x \notin B[x]) /\ \A x, y \in E : x = y \/ x \in B[y] \/ y \in B[x]
    BY <1>2, <1>4
  <1>8. /\ \A x \in E : Cardinality(B[x]) \in 0 .. Cardinality(E) - 1
        /\ \A x, y \in E : Cardinality(B[x]) = Cardinality(B[y]) => x = y
        /\ \A n \in 0 .. Cardinality(E) - 1 : \E x \in E : Cardinality(B[x]) = n
    BY <1>5, <1>6, <1>7, Ranking
  <1> QED BY <1>3, <1>8

\* How many of the misses F are fetched before miss x.
FetchRank(l, F, x) == Cardinality({y \in F : FetchBefore(l, y, x)})

LEMMA FetchOrder ==
  ASSUME SizesAssumption, Types, NEW l \in Layers, NEW F \in SUBSET Experts, IsFiniteSet(F)
  PROVE  /\ \A x \in F : FetchRank(l, F, x) \in 0 .. Cardinality(F) - 1
         /\ \A x, y \in F : FetchRank(l, F, x) = FetchRank(l, F, y) => x = y
  <1> DEFINE B == [x \in F |-> {y \in F : FetchBefore(l, y, x)}]
             re(x) == expert_recency[Id(l, x)]
  <1>1. \A x \in F : x \in Int /\ re(x) \in Int
    <2>1. \A x \in Experts : Id(l, x) \in Ids
      BY IdFacts
    <2>2. \A i \in Ids : expert_recency[i] \in Int
      BY DEF Types, None
    <2>3. Experts \subseteq Int
      BY DEF SizesAssumption, Experts
    <2> QED BY <2>1, <2>2, <2>3
  <1>2. \A x, y \in F : FetchBefore(l, x, y) <=> IF Hybrid /\ re(x) # re(y) THEN re(x) > re(y) ELSE x < y
    BY DEF FetchBefore
  <1> HIDE DEF re
  <1>3. /\ \A x \in F : ~FetchBefore(l, x, x)
        /\ \A x, y \in F : x = y \/ FetchBefore(l, x, y) \/ FetchBefore(l, y, x)
        /\ \A x, y, z \in F : FetchBefore(l, x, y) /\ FetchBefore(l, y, z) => FetchBefore(l, x, z)
    BY <1>1, <1>2
  <1>4. \A x \in F : FetchRank(l, F, x) = Cardinality(B[x])
    BY DEF FetchRank
  <1>5. \A x, y \in F : y \in B[x] <=> FetchBefore(l, y, x)
    OBVIOUS
  <1>6. B \in [F -> SUBSET F]
    OBVIOUS
  <1> HIDE DEF B
  <1>7. \A x, y \in F : x \in B[y] => B[x] \subseteq B[y]
    BY <1>3, <1>5, <1>6
  <1>8. (\A x \in F : x \notin B[x]) /\ \A x, y \in F : x = y \/ x \in B[y] \/ y \in B[x]
    BY <1>3, <1>5
  <1>9. /\ \A x \in F : Cardinality(B[x]) \in 0 .. Cardinality(F) - 1
        /\ \A x, y \in F : Cardinality(B[x]) = Cardinality(B[y]) => x = y
    BY <1>6, <1>7, <1>8, Ranking
  <1> QED BY <1>4, <1>9

\* The misses that get a slot are misses, and the slots left to evict are enough for them.
LEMMA EnoughSlots ==
  ASSUME SizesAssumption, Types, MapIsInverse, NEW l \in Layers, NEW active \in SUBSET Experts
  PROVE  /\ Fetched(l, active) \in SUBSET Missing(l, active) /\ Missing(l, active) \in SUBSET active
         /\ IsFiniteSet(Fetched(l, active)) /\ IsFiniteSet(Evictable(l, active))
         /\ Cardinality(Fetched(l, active)) <= Cardinality(Evictable(l, active))
  <1> DEFINE M == Missing(l, active)
             E == Evictable(l, active)
             Kept == Slots \ E
             Hit == active \ M
             f == [s \in Kept |-> id_of_slot[s] % NumExperts]
  <1>1. NumExperts \in Nat \ {0} /\ cache_size \in Nat /\ cache_size >= NumExperts
    BY Sizes, CacheSize
  <1>2. IsFiniteSet(Experts) /\ Cardinality(Experts) = NumExperts
    <2>1. 0 \in Int /\ NumExperts - 1 \in Int /\ ~(0 > NumExperts - 1) /\ (NumExperts - 1) - 0 + 1 = NumExperts
      BY <1>1
    <2> QED BY <2>1, FS_Interval DEF Experts
  <1>3. IsFiniteSet(Slots) /\ Cardinality(Slots) = cache_size
    BY <1>1, FS_Interval DEF Slots
  <1>4. IsFiniteSet(active) /\ Cardinality(active) <= NumExperts
    BY <1>2, FS_Subset
  <1>5. Fetched(l, active) \in SUBSET M /\ M \in SUBSET active /\ E \in SUBSET Slots
    BY DEF Fetched, Missing, Evictable
  <1>6. f \in Injection(Kept, Hit)
    <2>1. ASSUME NEW s \in Kept
          PROVE  \E e \in Hit : id_of_slot[s] = Id(l, e) /\ f[s] = e /\ slot_for_id[Id(l, e)] = s
      <3>1. PICK e \in active : id_of_slot[s] = Id(l, e)
        BY DEF Evictable
      <3>2. Id(l, e) \in Ids /\ Id(l, e) % NumExperts = e /\ Id(l, e) # None
        BY IdFacts
      <3>3. slot_for_id[Id(l, e)] = s
        BY <3>1, <3>2 DEF MapIsInverse
      <3>4. s # None
        BY <1>1 DEF Slots, None
      <3>5. e \in Hit
        BY <3>3, <3>4 DEF Missing
      <3> QED BY <3>1, <3>2, <3>3, <3>5
    <2> HIDE DEF Kept, Hit
    <2>2. f \in [Kept -> Hit]
      BY <2>1
    <2>3. \A s, t \in Kept : f[s] = f[t] => s = t
      BY <2>1
    <2> QED BY <2>2, <2>3 DEF Injection, IsInjective
  <1> HIDE DEF f, M, E
  <1>7. IsFiniteSet(Hit) /\ Cardinality(Hit) = Cardinality(active) - Cardinality(M)
    <2>1. active \cap M = M
      BY <1>5
    <2> QED BY <1>4, <2>1, FS_Difference
  <1>8. Cardinality(Kept) <= Cardinality(Hit)
    BY <1>6, <1>7, FS_Injection
  <1>9. Cardinality(Kept) = cache_size - Cardinality(E) /\ IsFiniteSet(E) /\ Cardinality(E) \in Nat
    <2>1. Slots \cap E = E
      BY <1>5
    <2>2. IsFiniteSet(E)
      BY <1>3, <1>5, FS_Subset
    <2> QED BY <1>3, <2>1, <2>2, FS_Difference, FS_CardinalityType
  <1>10. IsFiniteSet(M) /\ Cardinality(M) \in Nat
    BY <1>4, <1>5, FS_Subset, FS_CardinalityType
  <1>11. /\ IsFiniteSet(Fetched(l, active)) /\ Cardinality(Fetched(l, active)) \in Nat
         /\ Cardinality(Fetched(l, active)) <= Cardinality(M)
    BY <1>5, <1>10, FS_Subset, FS_CardinalityType
  <1>12. Cardinality(active) \in Nat
    BY <1>4, FS_CardinalityType
  <1>13. Cardinality(M) <= Cardinality(E)
    BY <1>1, <1>4, <1>7, <1>8, <1>9, <1>10, <1>12
  <1> QED BY <1>5, <1>9, <1>10, <1>11, <1>13 DEF M, E

\* Every expert that is fetched gets a slot of its own, which no expert of the step holds.
LEMMA VictimFacts ==
  ASSUME SizesAssumption, Types, MapIsInverse, NEW l \in Layers, NEW active \in SUBSET Experts
  PROVE  /\ \A e \in Fetched(l, active) : Victim(l, active, e) \in Evictable(l, active)
         /\ \A e, f \in Fetched(l, active) : Victim(l, active, e) = Victim(l, active, f) => e = f
  <1> DEFINE F == Fetched(l, active)
             E == Evictable(l, active)
             r(e) == FetchRank(l, F, e)
  <1>1. /\ F \in SUBSET Experts /\ IsFiniteSet(F) /\ IsFiniteSet(E) /\ Cardinality(F) <= Cardinality(E)
    BY EnoughSlots
  <1>2. E \in SUBSET Slots
    BY DEF Evictable
  <1>3. Cardinality(F) \in Nat /\ Cardinality(E) \in Nat
    BY <1>1, FS_CardinalityType
  <1>4. \A e \in F : Victim(l, active, e) = CHOOSE s \in E : Rank(E, EvictBefore, s) = r(e)
    BY DEF Victim, Rank, FetchRank
  <1> HIDE DEF F, E
  <1>5. \A e \in F : r(e) \in 0 .. Cardinality(F) - 1
    BY <1>1, FetchOrder
  <1>6. \A e \in F : r(e) \in 0 .. Cardinality(E) - 1
    BY <1>1, <1>3, <1>5
  <1>7. \A e, g \in F : r(e) = r(g) => e = g
    BY <1>1, FetchOrder
  <1> HIDE DEF r
  <1>8. \A e \in F : \E s \in E : Rank(E, EvictBefore, s) = r(e)
    BY <1>1, <1>2, <1>6, EvictOrder
  <1>9. \A e \in F : Victim(l, active, e) \in E /\ Rank(E, EvictBefore, Victim(l, active, e)) = r(e)
    BY <1>4, <1>8
  <1>10. \A e, g \in F : Victim(l, active, e) = Victim(l, active, g) => e = g
    BY <1>7, <1>9
  <1> QED BY <1>9, <1>10 DEF F, E

-----------------------------------------------------------------------------
(* Queues and operations. *)

LEMMA PopFacts ==
  ASSUME NEW S, NEW q \in Seq(S), q # <<>>
  PROVE  /\ Len(q) \in Nat \ {0} /\ Head(q) = q[1] /\ q[1] \in S
         /\ Tail(q) \in Seq(S) /\ Len(Tail(q)) = Len(q) - 1
         /\ \A i \in 1 .. Len(q) - 1 : Tail(q)[i] = q[i + 1]
         /\ \A i \in 1 .. Len(q) : q[i] \in S
  BY HeadTailProperties, ElementOfSeq, EmptySeq

LEMMA JoinFacts ==
  ASSUME NEW S, NEW q \in Seq(S), NEW r \in Seq(S)
  PROVE  /\ Len(q) \in Nat /\ Len(r) \in Nat
         /\ q \o r \in Seq(S) /\ Len(q \o r) = Len(q) + Len(r)
         /\ \A i \in 1 .. Len(q) : (q \o r)[i] = q[i]
         /\ \A i \in 1 .. Len(r) : (q \o r)[Len(q) + i] = r[i]
  <1>1. /\ q \o r \in Seq(S) /\ Len(q \o r) = Len(q) + Len(r)
        /\ \A i \in 1 .. Len(q) + Len(r) : (q \o r)[i] = IF i <= Len(q) THEN q[i] ELSE r[i - Len(q)]
    BY ConcatProperties
  <1>2. Len(q) \in Nat /\ Len(r) \in Nat
    BY LenProperties
  <1>3. \A i \in 1 .. Len(q) : (q \o r)[i] = q[i]
    BY <1>1, <1>2
  <1>4. \A i \in 1 .. Len(r) : (q \o r)[Len(q) + i] = r[i]
    <2> SUFFICES ASSUME NEW i \in 1 .. Len(r) PROVE (q \o r)[Len(q) + i] = r[i]
      OBVIOUS
    <2> DEFINE j == Len(q) + i
    <2>1. j \in 1 .. Len(q) + Len(r) /\ ~(j <= Len(q)) /\ j - Len(q) = i
      BY <1>2
    <2> HIDE DEF j
    <2>2. (q \o r)[j] = r[i]
      BY <1>1, <2>1
    <2> QED BY <2>2 DEF j
  <1> QED BY <1>1, <1>2, <1>3, <1>4

LEMMA AppendFacts ==
  ASSUME NEW S, NEW q \in Seq(S), NEW x \in S
  PROVE  /\ Append(q, x) \in Seq(S) /\ Len(Append(q, x)) = Len(q) + 1 /\ Len(q) \in Nat
         /\ \A i \in 1 .. Len(q) : Append(q, x)[i] = q[i]
         /\ Append(q, x)[Len(q) + 1] = x
  BY AppendProperties, LenProperties

LEMMA OpKinds ==
  /\ \A o \in ComputeOps :
       /\ o.op \in Changers \cup {"compact", "gather", "gemm_layer", "wait", "record"}
       /\ o.op \notin {"wait", "record"} => o.layer \in Layers /\ o = Op(o.op, o.layer)
       /\ o.op = "wait" => o.ev \in {Ready(b) : b \in {0, 1}} /\ o.n \in Nat
       /\ o.op = "record" => o.ev \in {Begin} \cup {Release(b) : b \in {0, 1}} /\ o.n \in Nat
  /\ \A o \in CopyOps :
       /\ o.op \in {"snapshot", "invalidate", "h2d", "h2d_end", "wait", "record"}
       /\ o.op \notin {"wait", "record"} => o.layer \in Layers
       /\ o.op \in {"h2d", "h2d_end"} => o.buffer \in {0, 1} /\ o.rows \in [Banks -> SUBSET Experts]
       /\ o.op = "wait" => o.ev \in {Begin} \cup {Release(b) : b \in {0, 1}} /\ o.n \in Nat
       /\ o.op = "record" => o.ev \in {Ready(b) : b \in {0, 1}} /\ o.n \in Nat
  <1>1. ASSUME NEW o \in ComputeOps
        PROVE  /\ o.op \in Changers \cup {"compact", "gather", "gemm_layer", "wait", "record"}
               /\ o.op \notin {"wait", "record"} => o.layer \in Layers /\ o = Op(o.op, o.layer)
               /\ o.op = "wait" => o.ev \in {Ready(b) : b \in {0, 1}} /\ o.n \in Nat
               /\ o.op = "record" => o.ev \in {Begin} \cup {Release(b) : b \in {0, 1}} /\ o.n \in Nat
    <2>1. CASE o \in [op : Changers \cup {"compact", "gather", "gemm_layer"}, layer : Layers]
      BY <2>1 DEF Op, Changers
    <2>2. CASE o \in [op : {"wait"}, ev : {Ready(b) : b \in {0, 1}}, n : Nat]
      BY <2>2
    <2>3. CASE o \in [op : {"record"}, ev : {Begin} \cup {Release(b) : b \in {0, 1}}, n : Nat]
      BY <2>3
    <2> QED BY <2>1, <2>2, <2>3 DEF ComputeOps
  <1>2. ASSUME NEW o \in CopyOps
        PROVE  /\ o.op \in {"snapshot", "invalidate", "h2d", "h2d_end", "wait", "record"}
               /\ o.op \notin {"wait", "record"} => o.layer \in Layers
               /\ o.op \in {"h2d", "h2d_end"} => o.buffer \in {0, 1} /\ o.rows \in [Banks -> SUBSET Experts]
               /\ o.op = "wait" => o.ev \in {Begin} \cup {Release(b) : b \in {0, 1}} /\ o.n \in Nat
               /\ o.op = "record" => o.ev \in {Ready(b) : b \in {0, 1}} /\ o.n \in Nat
    <2>1. CASE o \in [op : {"snapshot", "invalidate"}, layer : Layers]
      BY <2>1
    <2>2. CASE o \in [op : {"h2d", "h2d_end"}, layer : Layers, buffer : {0, 1},
                      rows : [Banks -> SUBSET Experts]]
      BY <2>2
    <2>3. CASE o \in [op : {"wait"}, ev : {Begin} \cup {Release(b) : b \in {0, 1}}, n : Nat]
      BY <2>3
    <2>4. CASE o \in [op : {"record"}, ev : {Ready(b) : b \in {0, 1}}, n : Nat]
      BY <2>4
    <2> QED BY <2>1, <2>2, <2>3, <2>4 DEF CopyOps
  <1> QED BY <1>1, <1>2

\* The operations the host enqueues.
LEMMA NewOps ==
  /\ \A l \in Layers, name \in Changers \cup {"compact", "gather", "gemm_layer"} :
       Op(name, l) \in ComputeOps
  /\ \A b \in {0, 1}, n \in Nat : WaitOp(Ready(b), n) \in ComputeOps /\ RecordOp(Release(b), n) \in ComputeOps
  /\ \A n \in Nat : RecordOp(Begin, n) \in ComputeOps /\ WaitOp(Begin, n) \in CopyOps
  /\ \A l \in Layers, name \in {"snapshot", "invalidate"} : Op(name, l) \in CopyOps
  /\ \A b \in {0, 1}, n \in Nat : RecordOp(Ready(b), n) \in CopyOps /\ WaitOp(Release(b), n) \in CopyOps
  /\ \A l \in Layers, b \in {0, 1}, rows \in [Banks -> SUBSET Experts] : H2dOp(l, b, rows) \in CopyOps
  BY DEF Op, WaitOp, RecordOp, H2dOp, ComputeOps, CopyOps, Changers

-----------------------------------------------------------------------------
(* Types. *)

\* What the host never changes behind a stream's back.
LEMMA ComputeHead ==
  ASSUME Types, compute # <<>>
  PROVE  /\ Head(compute) = compute[1] /\ compute[1] \in ComputeOps /\ Len(compute) \in Nat \ {0}
         /\ Tail(compute) \in Seq(ComputeOps) /\ Len(Tail(compute)) = Len(compute) - 1
         /\ \A i \in 1 .. Len(compute) - 1 : Tail(compute)[i] = compute[i + 1]
         /\ \A i \in 1 .. Len(compute) : compute[i] \in ComputeOps
  BY PopFacts DEF Types

LEMMA CopyHead ==
  ASSUME Types, copy # <<>>
  PROVE  /\ Head(copy) = copy[1] /\ copy[1] \in CopyOps /\ Len(copy) \in Nat \ {0}
         /\ Tail(copy) \in Seq(CopyOps) /\ Len(Tail(copy)) = Len(copy) - 1
         /\ \A i \in 1 .. Len(copy) - 1 : Tail(copy)[i] = copy[i + 1]
         /\ \A i \in 1 .. Len(copy) : copy[i] \in CopyOps
  BY PopFacts DEF Types

LEMMA InitTypes ==
  ASSUME SizesAssumption, Init
  PROVE  Types
  <1>1. /\ cache_size = FirstSize /\ cache_size \in CacheSizes /\ cache_size >= NumExperts
        /\ prefill_overlap \in BOOLEAN
    <2>1. cache_size = FirstSize /\ prefill_overlap = Overlap
      BY DEF Init
    <2>2. FirstSize \in CacheSizes /\ FirstSize >= NumExperts
      BY DEF SizesAssumption
    <2>3. Overlap \in BOOLEAN
      BY DEF SizesAssumption
    <2> QED BY <2>1, <2>2, <2>3
  <1>2. /\ slot_for_id \in [Ids -> Slots \cup {None}] /\ id_of_slot \in [Slots -> Ids \cup {None}]
        /\ usage \in [Slots -> 0 .. step] /\ step \in Nat /\ expert_recency \in [Ids -> None .. step]
        /\ snapshot \in [Ids -> Nat \cup {None}]
    BY <1>1 DEF Init, Slots, None
  <1>3. /\ staged = {} /\ topk = {} /\ hits = {} /\ data = [k \in Banks |-> data[k]]
    BY DEF Init
  <1>4. compute \in Seq(ComputeOps) /\ copy \in Seq(CopyOps)
    BY EmptySeq DEF Init
  <1>5. /\ recorded \in [Events -> Nat] /\ done \in [Events -> Nat]
        /\ buffer_layer \in [{0, 1} -> Layers \cup {None}]
        /\ released \in [{0, 1} -> BOOLEAN] /\ has_release \in [{0, 1} -> BOOLEAN]
        /\ hit_d2d_active \in BOOLEAN
    <2>1. /\ recorded = [ev \in Events |-> 0] /\ done = [ev \in Events |-> 0]
          /\ buffer_layer = [b \in {0, 1} |-> None] /\ released = [b \in {0, 1} |-> TRUE]
          /\ has_release = [b \in {0, 1} |-> FALSE] /\ hit_d2d_active = FALSE
      BY DEF Init
    <2>2. recorded \in [Events -> Nat] /\ done \in [Events -> Nat]
      BY <2>1
    <2>3. buffer_layer \in [{0, 1} -> Layers \cup {None}]
      BY <2>1
    <2>4. released \in [{0, 1} -> BOOLEAN] /\ has_release \in [{0, 1} -> BOOLEAN]
      BY <2>1
    <2> QED BY <2>1, <2>2, <2>3, <2>4
  <1>6. host \in [at : {"idle", "snapshot", "prefetch", "invalidate", "forward"},
                  layer : Layers, target : Nat]
    <2>1. host = [at |-> "idle", layer |-> 0, target |-> 0]
      BY DEF Init, Idle
    <2>2. 0 \in Layers
      BY DEF Layers, SizesAssumption
    <2> QED BY <2>1, <2>2
  <1> QED BY <1>1, <1>2, <1>3, <1>4, <1>5, <1>6 DEF Types

\* The types of the map, and of the rest of the device.
MapTypes ==
  /\ slot_for_id \in [Ids -> Slots \cup {None}]
  /\ id_of_slot \in [Slots -> Ids \cup {None}]
  /\ usage \in [Slots -> 0 .. step] /\ step \in Nat
  /\ expert_recency \in [Ids -> None .. step]

\* A step of the device keeps the types of what it leaves alone.
LEMMA DeviceTypes ==
  ASSUME Types, UNCHANGED <<sizeVars, recorded, bufferVars, hit_d2d_active, host>>,
         MapTypes', (staged \subseteq Slots \X Ids)', (topk \subseteq Experts \X (Slots \cup {None}))',
         (data = [k \in Banks |-> data[k]])', (hits \subseteq Nat \X Nat)',
         compute' \in Seq(ComputeOps), copy' \in Seq(CopyOps),
         (done \in [Events -> Nat])', (snapshot \in [Ids -> Nat \cup {None}])'
  PROVE  Types'
  BY DEF Types, MapTypes, sizeVars, bufferVars, Slots


\* The look-up of a step, in terms of the experts that are fetched and their victims.
LookUp(l, active) ==
  LET F == Fetched(l, active)  V(e) == Victim(l, active, e) IN
  /\ step' = step + 1
  /\ slot_for_id' \in [Ids -> Slots \cup {None}]
  /\ \A e \in F : slot_for_id'[Id(l, e)] = V(e)
  /\ \A i \in Ids : (\A e \in F : Id(l, e) # i) =>
       slot_for_id'[i] = IF \E e \in F : id_of_slot[V(e)] = i THEN None ELSE slot_for_id[i]
  /\ id_of_slot' \in [Slots -> Ids \cup {None}]
  /\ \A e \in F : id_of_slot'[V(e)] = Id(l, e)
  /\ \A s \in Slots : (\A e \in F : V(e) # s) => id_of_slot'[s] = id_of_slot[s]
  /\ usage' \in [Slots -> 0 .. step + 1]
  /\ expert_recency' \in [Ids -> None .. step + 1]
  /\ staged' = {<<V(e), Id(l, e)>> : e \in F}
  /\ topk' = {<<e, slot_for_id'[Id(l, e)]>> : e \in active}

LEMMA EnsureLooksUp ==
  ASSUME SizesAssumption, Types, MapIsInverse, EnsureExperts
  PROVE  \E active \in SUBSET Experts : LookUp(compute[1].layer, active)
  <1> DEFINE l == Head(compute).layer
  <1>1. l \in Layers /\ l = compute[1].layer
    BY ComputeHead, OpKinds DEF EnsureExperts, Running, Changers
  <1> DEFINE New(active) == Ensured(l, active)
             Assigned(active) == {<<New(active).slotOf[e], Id(l, e)>> : e \in DOMAIN New(active).slotOf}
             Held(active) == {New(active).slot_for_id[Id(l, e)] : e \in active}
  <1>2. PICK active \in SUBSET Experts :
          /\ step' = step + 1
          /\ slot_for_id' = New(active).slot_for_id
          /\ id_of_slot' = [s \in Slots |->
               IF \E a \in Assigned(active) : a[1] = s
                 THEN (CHOOSE a \in Assigned(active) : a[1] = s)[2] ELSE id_of_slot[s]]
          /\ usage' = [s \in Slots |-> IF s \in Held(active) THEN step + 1 ELSE usage[s]]
          /\ expert_recency' = [i \in Ids |->
               IF Hybrid /\ \E e \in active : Id(l, e) = i THEN step + 1 ELSE expert_recency[i]]
          /\ staged' = Assigned(active)
          /\ topk' = {<<e, New(active).slot_for_id[Id(l, e)]>> : e \in active}
    BY DEF EnsureExperts
  <1> HIDE DEF l
  <1> DEFINE F == Fetched(l, active)
             V(e) == Victim(l, active, e)
  <1>0. slot_for_id \in [Ids -> Slots \cup {None}] /\ id_of_slot \in [Slots -> Ids \cup {None}]
    BY DEF Types
  <1>3. /\ F \in SUBSET Experts
        /\ \A e \in F : V(e) \in Slots
        /\ \A e, f \in F : V(e) = V(f) => e = f
    <2>1. l \in Layers
      BY <1>1
    <2>2. F \in SUBSET Experts
      BY <2>1, EnoughSlots
    <2>3. \A e \in F : V(e) \in Evictable(l, active)
      BY <2>1, VictimFacts
    <2>4. \A e, f \in F : V(e) = V(f) => e = f
      BY <2>1, VictimFacts
    <2> HIDE DEF F, V
    <2> QED BY <2>2, <2>3, <2>4 DEF Evictable
  <1>4. /\ New(active).slotOf = [e \in F |-> V(e)]
        /\ New(active).slot_for_id = [i \in Ids |->
             IF \E e \in F : Id(l, e) = i THEN [e \in F |-> V(e)][i % NumExperts]
             ELSE IF \E v \in {[f \in F |-> V(f)][e] : e \in F} : id_of_slot[v] = i THEN None
             ELSE slot_for_id[i]]
    BY DEF Ensured
  <1> HIDE DEF F, V, New
  <1>5. Assigned(active) = {<<V(e), Id(l, e)>> : e \in F}
    BY <1>4
  <1>6. \A e \in F : Id(l, e) \in Ids /\ Id(l, e) % NumExperts = e
    BY <1>1, <1>3, IdFacts
  <1>7. \A e \in F : slot_for_id'[Id(l, e)] = V(e)
    BY <1>2, <1>4, <1>6
  <1>8. \A i \in Ids : (\A e \in F : Id(l, e) # i) =>
          slot_for_id'[i] = IF \E e \in F : id_of_slot[V(e)] = i THEN None ELSE slot_for_id[i]
    BY <1>2, <1>4
  <1>9. slot_for_id' \in [Ids -> Slots \cup {None}]
    <2>1. ASSUME NEW i \in Ids PROVE slot_for_id'[i] \in Slots \cup {None}
      <3>1. CASE \E e \in F : Id(l, e) = i
        BY <1>3, <1>7, <3>1
      <3>2. CASE \A e \in F : Id(l, e) # i
        BY <1>0, <1>8, <3>2
      <3> QED BY <3>1, <3>2
    <2>2. slot_for_id' = [i \in Ids |-> slot_for_id'[i]]
      BY <1>2, <1>4
    <2> QED BY <2>1, <2>2
  <1> HIDE DEF Assigned
  <1>10. ASSUME NEW e \in F PROVE id_of_slot'[V(e)] = Id(l, e)
    <2>1. <<V(e), Id(l, e)>> \in Assigned(active)
      BY <1>5
    <2>2. \A a \in Assigned(active) : a[1] = V(e) => a = <<V(e), Id(l, e)>>
      BY <1>3, <1>5
    <2>3. (CHOOSE a \in Assigned(active) : a[1] = V(e)) = <<V(e), Id(l, e)>>
      BY <2>1, <2>2
    <2> QED BY <1>2, <1>3, <2>1, <2>3
  <1>11. \A s \in Slots : (\A e \in F : V(e) # s) => id_of_slot'[s] = id_of_slot[s]
    BY <1>2, <1>5
  <1>12. id_of_slot' \in [Slots -> Ids \cup {None}]
    <2>1. ASSUME NEW s \in Slots PROVE id_of_slot'[s] \in Ids \cup {None}
      <3>1. CASE \E e \in F : V(e) = s
        BY <1>6, <1>10, <3>1
      <3>2. CASE \A e \in F : V(e) # s
        BY <1>0, <1>11, <3>2
      <3> QED BY <3>1, <3>2
    <2> QED BY <1>2, <2>1
  <1>13. usage' \in [Slots -> 0 .. step + 1]
    BY <1>2 DEF Types
  <1>14. expert_recency' \in [Ids -> None .. step + 1]
    BY <1>2 DEF Types, None
  <1>15. topk' = {<<e, slot_for_id'[Id(l, e)]>> : e \in active}
    BY <1>2
  <1> HIDE DEF l
  <1>16. LookUp(l, active)
    BY <1>2, <1>5, <1>7, <1>8, <1>9, <1>10, <1>11, <1>12, <1>13, <1>14, <1>15 DEF LookUp, F, V
  <1> QED BY <1>1, <1>16

LEMMA EnsureTypes ==
  ASSUME SizesAssumption, Types, MapIsInverse, EnsureExperts
  PROVE  Types'
  <1> DEFINE l == compute[1].layer
  <1>1. l \in Layers /\ Tail(compute) \in Seq(ComputeOps)
    BY ComputeHead, OpKinds DEF EnsureExperts, Running, Changers
  <1>2. PICK active \in SUBSET Experts : LookUp(l, active)
    BY EnsureLooksUp
  <1> HIDE DEF l
  <1>3. \A e \in Experts : Id(l, e) \in Ids
    BY <1>1, IdFacts
  <1>4. /\ slot_for_id' \in [Ids -> Slots \cup {None}] /\ id_of_slot' \in [Slots -> Ids \cup {None}]
        /\ usage' \in [Slots -> 0 .. step'] /\ step' \in Nat
        /\ expert_recency' \in [Ids -> None .. step']
    BY <1>2 DEF LookUp, Types
  <1>5. Fetched(l, active) \in SUBSET Experts /\ \A e \in Fetched(l, active) : Victim(l, active, e) \in Slots
    BY <1>1, VictimFacts, EnoughSlots DEF Evictable
  <1>6. staged' \subseteq Slots \X Ids
    BY <1>2, <1>3, <1>5 DEF LookUp
  <1>7. topk' \subseteq Experts \X (Slots \cup {None})
    BY <1>2, <1>3, <1>4 DEF LookUp
  <1>8. /\ UNCHANGED <<cache_size, prefill_overlap, recorded, buffer_layer, released, has_release,
                       hit_d2d_active, host, data, hits, done, copy, snapshot>>
        /\ compute' \in Seq(ComputeOps)
    BY <1>1 DEF EnsureExperts, sizeVars, bufferVars
  <1> QED BY <1>4, <1>6, <1>7, <1>8 DEF Types, Slots

LEMMA SlotNumbers ==
  ASSUME SizesAssumption, Types
  PROVE  /\ Experts \subseteq Slots /\ None \notin Slots /\ Slots \subseteq Nat
         /\ prefill_overlap /\ Mode => \A b \in {0, 1} : BufferSlots(b) \subseteq Slots
  <1>1. NumExperts \in Nat \ {0} /\ cache_size \in Nat /\ cache_size >= NumExperts
    BY Sizes, CacheSize
  <1>2. Experts \subseteq Slots /\ None \notin Slots /\ Slots \subseteq Nat
    BY <1>1 DEF Experts, Slots, None
  <1>3. ASSUME prefill_overlap, Mode, NEW b \in {0, 1} PROVE BufferSlots(b) \subseteq Slots
    <2>1. cache_size >= 2 * NumExperts
      BY <1>3 DEF Mode
    <2>2. \A s \in BufferSlots(b) : s \in 0 .. 2 * NumExperts - 1
      BY BufferFacts
    <2> QED BY <1>1, <2>1, <2>2 DEF Slots
  <1> QED BY <1>2, <1>3

LEMMA MaterializeTypes ==
  ASSUME SizesAssumption, Types, MaterializeLayer
  PROVE  Types'
  <1> DEFINE l == compute[1].layer
  <1>1. l \in Layers /\ l = Head(compute).layer /\ Tail(compute) \in Seq(ComputeOps)
    BY ComputeHead, OpKinds DEF MaterializeLayer, Running, Changers
  <1> HIDE DEF l
  <1>2. \A e \in Experts : Id(l, e) \in Ids /\ e \in Slots
    BY <1>1, IdFacts, SlotNumbers
  <1>3. /\ slot_for_id' = Materialized(l)
        /\ id_of_slot' \in [Slots -> Ids \cup {None}]
    BY <1>1, <1>2 DEF MaterializeLayer, Types
  <1>4. \A i \in Ids : i % NumExperts \in Slots
    BY <1>2, IdFacts
  <1>5. slot_for_id' \in [Ids -> Slots \cup {None}]
    BY <1>3, <1>4 DEF Materialized, Types
  <1>6. step' = step + 1 /\ step' \in Nat /\ usage' \in [Slots -> 0 .. step']
        /\ expert_recency' \in [Ids -> None .. step']
    BY DEF MaterializeLayer, Types, None
  <1>7. staged' \subseteq Slots \X Ids
    BY <1>1, <1>2 DEF MaterializeLayer
  <1>8. /\ UNCHANGED <<cache_size, prefill_overlap, recorded, buffer_layer, released, has_release,
                       hit_d2d_active, host, data, topk, hits, done, copy, snapshot>>
        /\ compute' \in Seq(ComputeOps)
    BY <1>1 DEF MaterializeLayer, sizeVars, bufferVars
  <1> QED BY <1>3, <1>5, <1>6, <1>7, <1>8 DEF Types, Slots

LEMMA ResetTypes ==
  ASSUME SizesAssumption, Types, ResetCache
  PROVE  Types'
  <1>1. Tail(compute) \in Seq(ComputeOps)
    BY ComputeHead DEF ResetCache, Running
  <1>2. /\ slot_for_id' = [i \in Ids |-> None] /\ id_of_slot' = [s \in Slots |-> None]
        /\ usage' = [s \in Slots |-> 0] /\ step' = 0 /\ expert_recency' = [i \in Ids |-> None]
        /\ staged' = {} /\ compute' \in Seq(ComputeOps)
        /\ UNCHANGED <<cache_size, prefill_overlap, recorded, buffer_layer, released, has_release,
                       hit_d2d_active, host, data, topk, hits, done, copy, snapshot>>
    BY <1>1 DEF ResetCache, ColdUsage, sizeVars, bufferVars
  <1> QED BY <1>2 DEF Types, Slots, None

\* The compute operations that leave the slot map alone.
LEMMA ComputeRestTypes ==
  ASSUME SizesAssumption, Types, CopyMissing \/ Gemm \/ HitCompact \/ HitGather \/ ComputeEvent
  PROVE  Types'
  <1>1. compute # <<>>
    BY DEF CopyMissing, Gemm, HitCompact, HitGather, ComputeEvent, EventOps, Running
  <1>2. Tail(compute) \in Seq(ComputeOps) /\ Head(compute) = compute[1] /\ compute[1] \in ComputeOps
    BY <1>1, ComputeHead
  <1>3. /\ UNCHANGED <<cache_size, prefill_overlap, slot_for_id, id_of_slot, usage, step, expert_recency,
                       recorded, buffer_layer, released, has_release, hit_d2d_active, host, copy, snapshot>>
        /\ compute' = Tail(compute)
    BY DEF CopyMissing, Gemm, HitCompact, HitGather, ComputeEvent, sizeVars, mapVars, bufferVars
  <1>4. staged' \in {staged, {}} /\ topk' \in {topk, {}}
    BY DEF CopyMissing, Gemm, HitCompact, HitGather, ComputeEvent
  <1>5. (data = [k \in Banks |-> data[k]])'
    BY DEF CopyMissing, Gemm, HitCompact, HitGather, ComputeEvent, Types
  <1>6. hits' \subseteq Nat \X Nat
    <2>1. CASE HitCompact
      <3>1. Running(compute, "compact") /\ Head(compute).layer \in Layers
        BY <1>2, <2>1, OpKinds DEF HitCompact, Running
      <3>2. ASSUME NEW e \in Experts, IsHit(slot_for_id[Id(Head(compute).layer, e)])
            PROVE  /\ BufferOf(Head(compute).layer) * NumExperts + e \in Nat
                   /\ slot_for_id[Id(Head(compute).layer, e)] \in Nat
        <4>1. slot_for_id[Id(Head(compute).layer, e)] \in Slots \cup {None}
          BY <3>1, IdFacts DEF Types
        <4>2. slot_for_id[Id(Head(compute).layer, e)] \in Nat
          BY <3>2, <4>1, BufferFacts, SlotNumbers
        <4>3. Head(compute).layer \in Nat /\ NumExperts \in Nat /\ e \in Nat
          BY <3>1 DEF Layers, SizesAssumption, Experts
        <4>4. BufferOf(Head(compute).layer) \in Nat
          BY <4>3 DEF BufferOf
        <4>5. BufferOf(Head(compute).layer) * NumExperts \in Nat
          BY <4>3, <4>4, Product
        <4> QED BY <4>2, <4>3, <4>5
      <3> QED BY <2>1, <3>2 DEF HitCompact
    <2>2. CASE ~HitCompact
      BY <2>2 DEF CopyMissing, Gemm, HitGather, ComputeEvent, Types
    <2> QED BY <2>1, <2>2
  <1>7. done' \in [Events -> Nat]
    <2>1. CASE ComputeEvent
      <3>1. compute[1].op = "record" => compute[1].n \in Nat
        BY <1>2, OpKinds
      <3> QED BY <1>2, <2>1, <3>1 DEF ComputeEvent, EventOps, Running, Types
    <2>2. CASE ~ComputeEvent
      BY <2>2 DEF CopyMissing, Gemm, HitCompact, HitGather, Types
    <2> QED BY <2>1, <2>2
  <1> QED BY <1>2, <1>3, <1>4, <1>5, <1>6, <1>7 DEF Types, Slots

LEMMA InvalidateTypes ==
  ASSUME SizesAssumption, Types, InvalidatePrefillBuffer
  PROVE  Types'
  <1>1. Tail(copy) \in Seq(CopyOps)
    BY CopyHead DEF InvalidatePrefillBuffer, Running
  <1> DEFINE b == BufferOf(Head(copy).layer)
  <1>2. /\ slot_for_id' = Disowned(b)
        /\ id_of_slot' = [s \in Slots |-> IF s \in BufferSlots(b) THEN None ELSE id_of_slot[s]]
        /\ usage' = [s \in Slots |-> IF s \in BufferSlots(b) THEN 0 ELSE usage[s]]
        /\ copy' \in Seq(CopyOps)
        /\ UNCHANGED <<cache_size, prefill_overlap, step, expert_recency, recorded, buffer_layer, released,
                       has_release, hit_d2d_active, host, staged, data, topk, hits, done, compute, snapshot>>
    BY <1>1 DEF InvalidatePrefillBuffer, sizeVars, bufferVars
  <1> HIDE DEF b
  <1>3. slot_for_id' \in [Ids -> Slots \cup {None}] /\ id_of_slot' \in [Slots -> Ids \cup {None}]
    BY <1>2 DEF Disowned, Types
  <1>4. usage' \in [Slots -> 0 .. step']
    BY <1>2 DEF Types
  <1> QED BY <1>2, <1>3, <1>4 DEF Types, Slots

\* The copy operations that leave the slot map alone.
LEMMA CopyRestTypes ==
  ASSUME SizesAssumption, Types, CopyEvent \/ Snapshot \/ LayerCopy
  PROVE  Types'
  <1>1. copy # <<>>
    BY DEF CopyEvent, Snapshot, LayerCopy, EventOps, Running
  <1>2. Tail(copy) \in Seq(CopyOps) /\ Head(copy) = copy[1] /\ copy[1] \in CopyOps
    BY <1>1, CopyHead
  <1>3. UNCHANGED <<cache_size, prefill_overlap, slot_for_id, id_of_slot, usage, step, expert_recency, staged,
                    topk, hits, compute, recorded, buffer_layer, released, has_release, hit_d2d_active, host>>
    BY DEF CopyEvent, Snapshot, LayerCopy, sizeVars, mapVars, deviceVars, bufferVars
  <1>4. copy' \in Seq(CopyOps)
    <2>1. CASE LayerCopy /\ Head(copy).op = "h2d"
      <3>1. [Head(copy) EXCEPT !.op = "h2d_end"] \in CopyOps
        BY <1>2, <2>1 DEF CopyOps
      <3>2. <<[Head(copy) EXCEPT !.op = "h2d_end"]>> \in Seq(CopyOps)
        BY <3>1
      <3> QED BY <1>2, <2>1, <3>2, JoinFacts DEF LayerCopy
    <2>2. CASE ~(LayerCopy /\ Head(copy).op = "h2d")
      BY <1>2, <2>2 DEF CopyEvent, Snapshot, LayerCopy
    <2> QED BY <2>1, <2>2
  <1>5. (data = [k \in Banks |-> data[k]])'
    BY DEF CopyEvent, Snapshot, LayerCopy, deviceVars, Types
  <1>6. snapshot' \in [Ids -> Nat \cup {None}]
    BY SlotNumbers DEF CopyEvent, Snapshot, LayerCopy, Types
  <1>7. done' \in [Events -> Nat]
    <2>1. CASE CopyEvent
      <3>1. copy[1].op = "record" => copy[1].n \in Nat
        BY <1>2, OpKinds
      <3> QED BY <1>2, <2>1, <3>1 DEF CopyEvent, EventOps, Running, Types
    <2>2. CASE ~CopyEvent
      BY <2>2 DEF Snapshot, LayerCopy, deviceVars, Types
    <2> QED BY <2>1, <2>2
  <1> QED BY <1>2, <1>3, <1>4, <1>5, <1>6, <1>7 DEF Types, Slots

-----------------------------------------------------------------------------
(* What the host enqueues. *)

LEMMA Thirds ==
  ASSUME NEW n \in Nat, NEW i \in 1 .. 3 * n
  PROVE  /\ (i - 1) \div 3 \in 0 .. n - 1 /\ ((i - 1) % 3) \in 0 .. 2
         /\ i = 3 * ((i - 1) \div 3) + ((i - 1) % 3) + 1
  OBVIOUS

\* Every third operation of a pass is the same, and three in a row are of one layer.
LEMMA PassFacts ==
  ASSUME SizesAssumption, NEW a, NEW b, NEW c, NEW q, q = PassOver(<<a, b, c>>, 3)
  PROVE  /\ DOMAIN q = 1 .. 3 * NumLayers /\ 3 * NumLayers \in Nat \ {0}
         /\ \A i \in 1 .. 3 * NumLayers :
              LET l == (i - 1) \div 3 IN
              /\ l \in Layers
              /\ \/ i = 3 * l + 1 /\ q[i] = Op(a, l)
                 \/ i = 3 * l + 2 /\ q[i] = Op(b, l)
                 \/ i = 3 * l + 3 /\ q[i] = Op(c, l)
         /\ \A l \in Layers : q[3 * l + 1] = Op(a, l) /\ q[3 * l + 2] = Op(b, l) /\ q[3 * l + 3] = Op(c, l)
  <1> DEFINE per == <<a, b, c>>
  <1>1. NumLayers \in Nat \ {0}
    BY DEF SizesAssumption
  <1>2. DOMAIN q = 1 .. 3 * NumLayers
    BY DEF PassOver
  <1>3. \A i \in 1 .. 3 * NumLayers : q[i] = Op(per[((i - 1) % 3) + 1], (i - 1) \div 3)
    BY DEF PassOver
  <1>4. per[1] = a /\ per[2] = b /\ per[3] = c
    OBVIOUS
  <1> HIDE DEF per
  <1>5. ASSUME NEW i \in 1 .. 3 * NumLayers
        PROVE  LET l == (i - 1) \div 3 IN
               /\ l \in Layers
               /\ \/ i = 3 * l + 1 /\ q[i] = Op(a, l)
                  \/ i = 3 * l + 2 /\ q[i] = Op(b, l)
                  \/ i = 3 * l + 3 /\ q[i] = Op(c, l)
    <2>1. PICK l \in 0 .. NumLayers - 1, r \in 0 .. 2 :
            l = (i - 1) \div 3 /\ r = (i - 1) % 3 /\ i = 3 * l + r + 1
      BY <1>1, Thirds
    <2>2. q[i] = Op(per[r + 1], l)
      BY <1>3, <2>1
    <2>3. \/ r + 1 = 1 /\ i = 3 * l + 1
          \/ r + 1 = 2 /\ i = 3 * l + 2
          \/ r + 1 = 3 /\ i = 3 * l + 3
      BY <2>1
    <2>4. l \in Layers
      BY DEF Layers
    <2>5. \/ i = 3 * l + 1 /\ q[i] = Op(a, l)
          \/ i = 3 * l + 2 /\ q[i] = Op(b, l)
          \/ i = 3 * l + 3 /\ q[i] = Op(c, l)
      BY <1>4, <2>2, <2>3
    <2> QED BY <2>1, <2>4, <2>5
  <1>6. ASSUME NEW l \in Layers
        PROVE  q[3 * l + 1] = Op(a, l) /\ q[3 * l + 2] = Op(b, l) /\ q[3 * l + 3] = Op(c, l)
    <2>1. l \in Nat /\ l < NumLayers
      BY <1>1 DEF Layers
    <2>2. ASSUME NEW r \in 0 .. 2 PROVE q[3 * l + r + 1] = Op(per[r + 1], l)
      <3> DEFINE i == 3 * l + r + 1
      <3>1. i \in 1 .. 3 * NumLayers /\ (i - 1) \div 3 = l /\ ((i - 1) % 3) = r
        BY <1>1, <2>1
      <3> HIDE DEF i
      <3>2. q[i] = Op(per[r + 1], l)
        BY <1>3, <3>1
      <3> QED BY <3>2 DEF i
    <2>3. q[3 * l + 0 + 1] = Op(per[0 + 1], l) /\ q[3 * l + 1 + 1] = Op(per[1 + 1], l)
          /\ q[3 * l + 2 + 1] = Op(per[2 + 1], l)
      BY <2>2
    <2>4. 3 * l + 0 + 1 = 3 * l + 1 /\ 3 * l + 1 + 1 = 3 * l + 2 /\ 3 * l + 2 + 1 = 3 * l + 3
          /\ 0 + 1 = 1 /\ 1 + 1 = 2 /\ 2 + 1 = 3
      BY <2>1
    <2> QED BY <1>4, <2>3, <2>4
  <1>7. 3 * NumLayers \in Nat \ {0}
    BY <1>1
  <1>8. \A l \in Layers : q[3 * l + 1] = Op(a, l) /\ q[3 * l + 2] = Op(b, l) /\ q[3 * l + 3] = Op(c, l)
    BY <1>6
  <1> QED BY <1>2, <1>5, <1>7, <1>8

\* q with one, two or three operations more.
LEMMA JoinOne ==
  ASSUME NEW S, NEW q \in Seq(S), NEW x \in S
  PROVE  /\ q \o <<x>> \in Seq(S) /\ Len(q) \in Nat /\ Len(q \o <<x>>) = Len(q) + 1
         /\ \A i \in 1 .. Len(q) : (q \o <<x>>)[i] = q[i]
         /\ (q \o <<x>>)[Len(q) + 1] = x
  <1>1. <<x>> \in Seq(S) /\ Len(<<x>>) = 1 /\ <<x>>[1] = x /\ 1 \in 1 .. 1
    OBVIOUS
  <1> DEFINE r == <<x>>
  <1> HIDE DEF r
  <1>2. r \in Seq(S) /\ Len(r) = 1 /\ r[1] = x /\ 1 \in 1 .. Len(r)
    BY <1>1 DEF r
  <1>3. /\ q \o r \in Seq(S) /\ Len(q) \in Nat /\ Len(q \o r) = Len(q) + 1
        /\ \A i \in 1 .. Len(q) : (q \o r)[i] = q[i]
        /\ (q \o r)[Len(q) + 1] = x
    <2>1. /\ Len(q) \in Nat /\ q \o r \in Seq(S) /\ Len(q \o r) = Len(q) + Len(r)
          /\ \A i \in 1 .. Len(q) : (q \o r)[i] = q[i]
          /\ \A i \in 1 .. Len(r) : (q \o r)[Len(q) + i] = r[i]
      <3>1. r \in Seq(S)
        BY <1>2
      <3> QED BY ONLY <3>1, q \in Seq(S), JoinFacts
    <2>2. (q \o r)[Len(q) + 1] = r[1]
      BY <1>2, <2>1
    <2> QED BY <1>2, <2>1, <2>2
  <1> QED BY <1>3 DEF r

LEMMA JoinTwo ==
  ASSUME NEW S, NEW q \in Seq(S), NEW x \in S, NEW y \in S
  PROVE  /\ q \o <<x, y>> \in Seq(S) /\ Len(q) \in Nat /\ Len(q \o <<x, y>>) = Len(q) + 2
         /\ \A i \in 1 .. Len(q) : (q \o <<x, y>>)[i] = q[i]
         /\ (q \o <<x, y>>)[Len(q) + 1] = x /\ (q \o <<x, y>>)[Len(q) + 2] = y
  <1>1. <<x, y>> \in Seq(S) /\ Len(<<x, y>>) = 2 /\ <<x, y>>[1] = x /\ <<x, y>>[2] = y
        /\ 1 \in 1 .. 2 /\ 2 \in 1 .. 2
    OBVIOUS
  <1> DEFINE r == <<x, y>>
  <1> HIDE DEF r
  <1>2. r \in Seq(S) /\ Len(r) = 2 /\ r[1] = x /\ r[2] = y /\ 1 \in 1 .. Len(r) /\ 2 \in 1 .. Len(r)
    BY <1>1 DEF r
  <1>3. /\ q \o r \in Seq(S) /\ Len(q) \in Nat /\ Len(q \o r) = Len(q) + 2
        /\ \A i \in 1 .. Len(q) : (q \o r)[i] = q[i]
        /\ (q \o r)[Len(q) + 1] = x /\ (q \o r)[Len(q) + 2] = y
    <2>1. /\ Len(q) \in Nat /\ q \o r \in Seq(S) /\ Len(q \o r) = Len(q) + Len(r)
          /\ \A i \in 1 .. Len(q) : (q \o r)[i] = q[i]
          /\ \A i \in 1 .. Len(r) : (q \o r)[Len(q) + i] = r[i]
      <3>1. r \in Seq(S)
        BY <1>2
      <3> QED BY ONLY <3>1, q \in Seq(S), JoinFacts
    <2>2. (q \o r)[Len(q) + 1] = r[1] /\ (q \o r)[Len(q) + 2] = r[2]
      BY <1>2, <2>1
    <2> QED BY <1>2, <2>1, <2>2
  <1> QED BY <1>3 DEF r

\* A pass is enqueued behind what is there.
LEMMA PassEnqueued ==
  ASSUME SizesAssumption, Types,
         NEW a \in Changers \cup {"gemm_layer"}, NEW b \in Changers \cup {"gemm_layer"},
         NEW c \in Changers \cup {"gemm_layer"},
         compute' = compute \o PassOver(<<a, b, c>>, 3)
  PROVE  /\ compute' \in Seq(ComputeOps) /\ Len(compute) \in Nat
         /\ Len(compute') = Len(compute) + 3 * NumLayers /\ 3 * NumLayers \in Nat \ {0}
         /\ \A i \in 1 .. Len(compute) : compute'[i] = compute[i]
         /\ \A l \in Layers : LET n == Len(compute) + 3 * l IN
              compute'[n + 1] = Op(a, l) /\ compute'[n + 2] = Op(b, l) /\ compute'[n + 3] = Op(c, l)
         /\ \A i \in 1 .. Len(compute') : i \notin 1 .. Len(compute) =>
              \E l \in Layers : i \in {Len(compute) + 3 * l + 1, Len(compute) + 3 * l + 2, Len(compute) + 3 * l + 3}
  <1> DEFINE q == PassOver(<<a, b, c>>, 3)
             m == 3 * NumLayers
  <1>1. /\ DOMAIN q = 1 .. m /\ m \in Nat \ {0}
        /\ \A i \in 1 .. m : LET l == (i - 1) \div 3 IN
             /\ l \in Layers
             /\ \/ i = 3 * l + 1 /\ q[i] = Op(a, l)
                \/ i = 3 * l + 2 /\ q[i] = Op(b, l)
                \/ i = 3 * l + 3 /\ q[i] = Op(c, l)
        /\ \A l \in Layers : q[3 * l + 1] = Op(a, l) /\ q[3 * l + 2] = Op(b, l) /\ q[3 * l + 3] = Op(c, l)
    BY PassFacts
  <1>2. \A l \in Layers : l \in Nat /\ 3 * l + 1 \in 1 .. m /\ 3 * l + 2 \in 1 .. m /\ 3 * l + 3 \in 1 .. m
    <2>1. NumLayers \in Nat
      BY ONLY SizesAssumption DEF SizesAssumption
    <2>2. ASSUME NEW l \in Layers
          PROVE  l \in Nat /\ 3 * l + 1 \in 1 .. m /\ 3 * l + 2 \in 1 .. m /\ 3 * l + 3 \in 1 .. m
      <3>1. l \in Nat /\ l <= NumLayers - 1
        BY ONLY <2>1, l \in Layers DEF Layers
      <3> QED BY ONLY <2>1, <3>1, m = 3 * NumLayers
    <2> QED BY <2>2
  <1>3. \A i \in 1 .. m : \E l \in Layers : i \in {3 * l + 1, 3 * l + 2, 3 * l + 3}
    BY <1>1
  <1>4. q = [i \in 1 .. m |-> q[i]]
    BY <1>1 DEF PassOver
  <1> HIDE DEF q, m
  <1>5. q \in Seq(ComputeOps) /\ Len(q) = m
    <2>1. \A l \in Layers : Op(a, l) \in ComputeOps /\ Op(b, l) \in ComputeOps /\ Op(c, l) \in ComputeOps
      BY NewOps
    <2>2. \A i \in 1 .. m : q[i] \in ComputeOps
      BY <1>1, <2>1
    <2>3. q \in [1 .. m -> ComputeOps]
      BY <1>4, <2>2
    <2> QED BY <1>1, <2>3
  <1>6. /\ Len(compute) \in Nat /\ compute' \in Seq(ComputeOps) /\ Len(compute') = Len(compute) + m
        /\ \A i \in 1 .. Len(compute) : compute'[i] = compute[i]
        /\ \A i \in 1 .. m : compute'[Len(compute) + i] = q[i]
    <2>1. compute \in Seq(ComputeOps) /\ compute' = compute \o q
      BY DEF Types, q
    <2>2. /\ Len(compute) \in Nat /\ compute' \in Seq(ComputeOps) /\ Len(compute') = Len(compute) + Len(q)
          /\ \A i \in 1 .. Len(compute) : compute'[i] = compute[i]
          /\ \A i \in 1 .. Len(q) : compute'[Len(compute) + i] = q[i]
      <3>1. q \in Seq(ComputeOps) /\ compute \in Seq(ComputeOps)
        BY <1>5, <2>1
      <3>2. /\ Len(compute) \in Nat /\ compute \o q \in Seq(ComputeOps) /\ Len(compute \o q) = Len(compute) + Len(q)
            /\ \A i \in 1 .. Len(compute) : (compute \o q)[i] = compute[i]
            /\ \A i \in 1 .. Len(q) : (compute \o q)[Len(compute) + i] = q[i]
        BY ONLY <3>1, JoinFacts
      <3> QED BY <2>1, <3>2
    <2> QED BY <1>5, <2>2
  <1>7. ASSUME NEW l \in Layers
        PROVE  /\ compute'[Len(compute) + 3 * l + 1] = Op(a, l)
               /\ compute'[Len(compute) + 3 * l + 2] = Op(b, l)
               /\ compute'[Len(compute) + 3 * l + 3] = Op(c, l)
    <2>1. /\ compute'[Len(compute) + (3 * l + 1)] = Op(a, l)
          /\ compute'[Len(compute) + (3 * l + 2)] = Op(b, l)
          /\ compute'[Len(compute) + (3 * l + 3)] = Op(c, l)
      BY <1>1, <1>2, <1>6
    <2>2. /\ Len(compute) + (3 * l + 1) = Len(compute) + 3 * l + 1
          /\ Len(compute) + (3 * l + 2) = Len(compute) + 3 * l + 2
          /\ Len(compute) + (3 * l + 3) = Len(compute) + 3 * l + 3
      BY <1>2, <1>6
    <2> QED BY <2>1, <2>2
  <1>8. ASSUME NEW i \in 1 .. Len(compute'), i \notin 1 .. Len(compute)
        PROVE  \E l \in Layers :
                 i \in {Len(compute) + 3 * l + 1, Len(compute) + 3 * l + 2, Len(compute) + 3 * l + 3}
    <2> DEFINE n == Len(compute)
               j == i - n
    <2>0. n \in Nat /\ m \in Nat /\ i \in 1 .. n + m /\ i \notin 1 .. n
      BY <1>1, <1>6, <1>8
    <2>1. j \in 1 .. m /\ i = n + j
      BY <2>0
    <2> HIDE DEF j
    <2>2. PICK l \in Layers : j \in {3 * l + 1, 3 * l + 2, 3 * l + 3}
      BY <1>3, <2>1
    <2>3. l \in Nat
      BY <1>2
    <2> HIDE DEF n
    <2>4. i \in {n + 3 * l + 1, n + 3 * l + 2, n + 3 * l + 3}
      BY <2>0, <2>1, <2>2, <2>3
    <2> QED BY <2>4 DEF n
  <1> QED BY <1>1, <1>6, <1>7, <1>8 DEF m

LEMMA LayerFacts ==
  ASSUME SizesAssumption
  PROVE  /\ Layers \subseteq Nat /\ 0 \in Layers /\ NumLayers \in Nat \ {0}
         /\ \A l \in Nat : l \in Layers <=> l < NumLayers
         /\ \A l \in Layers : BufferOf(l) \in {0, 1}
  <1>1. NumLayers \in Nat \ {0}
    BY DEF SizesAssumption
  <1>2. Layers = 0 .. NumLayers - 1
    BY DEF Layers
  <1>3. Layers \subseteq Nat /\ 0 \in Layers
    BY <1>1, <1>2
  <1>4. ASSUME NEW l \in Nat PROVE l \in Layers <=> l < NumLayers
    BY <1>1, <1>2
  <1>5. ASSUME NEW l \in Layers PROVE BufferOf(l) \in {0, 1}
    BY <1>3, BufferFacts
  <1> QED BY <1>1, <1>3, <1>4, <1>5

LEMMA HostFacts ==
  ASSUME SizesAssumption, Types
  PROVE  /\ host.at \in {"idle", "snapshot", "prefetch", "invalidate", "forward"}
         /\ host.layer \in Layers /\ host.layer \in Nat /\ host.target \in Nat
         /\ BufferOf(host.layer) \in {0, 1} /\ BufferOf(host.target) \in {0, 1}
  <1>1. /\ host.at \in {"idle", "snapshot", "prefetch", "invalidate", "forward"}
        /\ host.layer \in Layers /\ host.target \in Nat
    BY DEF Types
  <1> QED BY <1>1, LayerFacts, BufferFacts

\* q2 is q with the operations of x more.
Extends(q2, q, n) == Len(q) \in Nat /\ Len(q2) = Len(q) + n /\ \A i \in 1 .. Len(q) : q2[i] = q[i]

LEMMA BeginEnqueues ==
  ASSUME SizesAssumption, Types, BeginPrefill
  PROVE  LET n == recorded[Begin] + 1
             split == HitD2d /\ cache_size > 2 * NumExperts
         IN  /\ n \in Nat
             /\ compute' \in Seq(ComputeOps) /\ Extends(compute', compute, 1)
             /\ compute'[Len(compute) + 1] = RecordOp(Begin, n)
             /\ copy' \in Seq(CopyOps) /\ Extends(copy', copy, IF split THEN 2 ELSE 1)
             /\ copy'[Len(copy) + 1] = WaitOp(Begin, n)
             /\ split => copy'[Len(copy) + 2] = Op("snapshot", 0)
  <1> DEFINE n == recorded[Begin] + 1
             split == HitD2d /\ cache_size > 2 * NumExperts
             W == WaitOp(Begin, n)
             R == RecordOp(Begin, n)
             Z == Op("snapshot", 0)
  <1>1. n \in Nat
    BY EventsDiffer DEF Types
  <1>2. W \in CopyOps /\ R \in ComputeOps /\ Z \in CopyOps
    <2>1. 0 \in Layers
      BY DEF Layers, SizesAssumption
    <2> QED BY <1>1, <2>1, NewOps
  <1>3. compute \in Seq(ComputeOps) /\ copy \in Seq(CopyOps)
    BY DEF Types
  <1>4. compute' = Append(compute, R) /\ copy' = copy \o <<W>> \o (IF split THEN <<Z>> ELSE <<>>)
    BY DEF BeginPrefill, BeginFence
  <1> HIDE DEF R, W, Z, split, n
  <1>5. /\ Append(compute, R) \in Seq(ComputeOps) /\ Len(Append(compute, R)) = Len(compute) + 1
        /\ Len(compute) \in Nat /\ \A i \in 1 .. Len(compute) : Append(compute, R)[i] = compute[i]
        /\ Append(compute, R)[Len(compute) + 1] = R
    BY ONLY <1>2, <1>3, AppendFacts
  <1>6. /\ copy \o <<W>> \in Seq(CopyOps) /\ Len(copy) \in Nat /\ Len(copy \o <<W>>) = Len(copy) + 1
        /\ \A i \in 1 .. Len(copy) : (copy \o <<W>>)[i] = copy[i]
        /\ (copy \o <<W>>)[Len(copy) + 1] = W
    BY ONLY <1>2, <1>3, JoinOne
  <1> DEFINE c == copy \o <<W>>
  <1>7. c \in Seq(CopyOps) /\ Extends(c, copy, 1) /\ c[Len(copy) + 1] = W
    BY ONLY <1>6 DEF Extends
  <1>8. copy' = c \o (IF split THEN <<Z>> ELSE <<>>)
    BY <1>4
  <1> HIDE DEF c
  <1>9. CASE ~split
    <2>1. copy' = c
      <3>1. copy' = c \o <<>>
        BY ONLY <1>8, <1>9
      <3>2. c \o <<>> = c
        BY ONLY <1>7, ConcatEmptySeq
      <3> QED BY ONLY <3>1, <3>2
    <2> QED BY ONLY <1>1, <1>4, <1>5, <1>7, <1>9, <2>1 DEF Extends, n, split, W, R
  <1>10. CASE split
    <2>1. /\ c \o <<Z>> \in Seq(CopyOps) /\ Len(c) \in Nat /\ Len(c \o <<Z>>) = Len(c) + 1
          /\ \A i \in 1 .. Len(c) : (c \o <<Z>>)[i] = c[i]
          /\ (c \o <<Z>>)[Len(c) + 1] = Z
      BY ONLY <1>2, <1>7, JoinOne
    <2> DEFINE d == c \o <<Z>>
    <2>2. copy' = d
      BY ONLY <1>8, <1>10
    <2>3. d \in Seq(CopyOps) /\ Len(c) \in Nat /\ Len(d) = Len(c) + 1 /\ (\A i \in 1 .. Len(c) : d[i] = c[i])
          /\ d[Len(c) + 1] = Z
      BY ONLY <2>1
    <2> HIDE DEF d
    <2>4. d \in Seq(CopyOps) /\ Extends(d, copy, 2) /\ d[Len(copy) + 1] = W /\ d[Len(copy) + 2] = Z
      BY ONLY <1>7, <2>3 DEF Extends
    <2>5. copy' \in Seq(CopyOps) /\ Extends(copy', copy, 2) /\ copy'[Len(copy) + 1] = W /\ copy'[Len(copy) + 2] = Z
      BY ONLY <2>2, <2>4
    <2> QED BY ONLY <1>1, <1>4, <1>5, <2>5, <1>10 DEF Extends, n, split, W, R, Z
  <1> QED BY <1>9, <1>10

\* prefetch_prefill_layer finds the layer there, or nothing to prefetch.
PrefetchSkips ==
  /\ host.at = "prefetch"
  /\ host.target >= NumLayers \/ buffer_layer[BufferOf(host.target)] = host.target
  /\ host' = AfterPrefetch(host)
  /\ UNCHANGED <<sizeVars, deviceVars, compute, copy, recorded, bufferVars, snapshot, hit_d2d_active, used>>

\* prefetch_prefill_layer takes the buffer.
PrefetchTakes ==
  /\ host.at = "prefetch"
  /\ host.target < NumLayers /\ buffer_layer[BufferOf(host.target)] # host.target
  /\ host' = [host EXCEPT !.at = "invalidate"]
  /\ Extends(compute', compute, IF hit_d2d_active THEN 2 ELSE 0)
  /\ hit_d2d_active => /\ compute'[Len(compute) + 1] = Op("compact", host.target)
                       /\ compute'[Len(compute) + 2] = Op("gather", host.target)
  /\ ~hit_d2d_active => compute' = compute
  /\ LET b == BufferOf(host.target) IN
     /\ Extends(copy', copy, IF has_release[b] THEN 2 ELSE 1)
     /\ has_release[b] => /\ copy'[Len(copy) + 1] = WaitOp(Release(b), recorded[Release(b)])
                          /\ copy'[Len(copy) + 2] = Op("invalidate", host.target)
     /\ ~has_release[b] => copy'[Len(copy) + 1] = Op("invalidate", host.target)
  /\ compute' \in Seq(ComputeOps) /\ copy' \in Seq(CopyOps)
  /\ UNCHANGED <<sizeVars, deviceVars, recorded, bufferVars, snapshot, hit_d2d_active, used>>

LEMMA PrefetchCases ==
  ASSUME SizesAssumption, Types, PrefetchPrefillLayer
  PROVE  PrefetchSkips \/ PrefetchTakes
  <1> DEFINE t == host.target
             b == BufferOf(t)
             C == Op("compact", t)
             G == Op("gather", t)
             W == WaitOp(Release(b), recorded[Release(b)])
             I == Op("invalidate", t)
             Takes ==
               /\ t < NumLayers /\ buffer_layer[b] # t
               /\ compute' = compute \o (IF hit_d2d_active THEN <<C, G>> ELSE <<>>)
               /\ copy' = copy \o (IF has_release[b] THEN <<W>> ELSE <<>>) \o <<I>>
               /\ host' = [host EXCEPT !.at = "invalidate"]
  <1>1. PrefetchSkips \/ Takes
    BY DEF PrefetchPrefillLayer, PrefetchSkips, ReleaseWait
  <1>2. CASE PrefetchSkips
    BY <1>2
  <1>3. CASE Takes
    <2>1. t \in Layers /\ b \in {0, 1}
      BY ONLY <1>3, SizesAssumption, Types, HostFacts, LayerFacts
    <2>2. C \in ComputeOps /\ G \in ComputeOps /\ I \in CopyOps
      BY <2>1, NewOps
    <2>3. W \in CopyOps
      <3>1. recorded[Release(b)] \in Nat
        BY <2>1, EventsDiffer DEF Types
      <3> QED BY <2>1, <3>1, NewOps
    <2>4. compute \in Seq(ComputeOps) /\ copy \in Seq(CopyOps)
      BY DEF Types
    <2>5. /\ compute' \in Seq(ComputeOps)
          /\ Extends(compute', compute, IF hit_d2d_active THEN 2 ELSE 0)
          /\ hit_d2d_active => compute'[Len(compute) + 1] = C /\ compute'[Len(compute) + 2] = G
          /\ ~hit_d2d_active => compute' = compute
      <3>1. compute' = compute \o (IF hit_d2d_active THEN <<C, G>> ELSE <<>>)
        BY <1>3
      <3> HIDE DEF C, G
      <3>2. CASE hit_d2d_active
        <4>1. compute' = compute \o <<C, G>>
          BY ONLY <3>1, <3>2
        <4>2. /\ compute \o <<C, G>> \in Seq(ComputeOps) /\ Len(compute) \in Nat
              /\ Len(compute \o <<C, G>>) = Len(compute) + 2
              /\ \A i \in 1 .. Len(compute) : (compute \o <<C, G>>)[i] = compute[i]
              /\ (compute \o <<C, G>>)[Len(compute) + 1] = C /\ (compute \o <<C, G>>)[Len(compute) + 2] = G
          BY ONLY <2>2, <2>4, JoinTwo DEF C, G
        <4> DEFINE q == compute \o <<C, G>>
        <4>3. compute' = q
          BY ONLY <4>1
        <4>4. /\ q \in Seq(ComputeOps) /\ Len(compute) \in Nat /\ Len(q) = Len(compute) + 2
              /\ \A i \in 1 .. Len(compute) : q[i] = compute[i]
              /\ q[Len(compute) + 1] = C /\ q[Len(compute) + 2] = G
          BY ONLY <4>2
        <4> HIDE DEF q
        <4> QED BY ONLY <3>2, <4>3, <4>4 DEF Extends
      <3>3. CASE ~hit_d2d_active
        <4>1. compute' = compute \o <<>>
          BY ONLY <3>1, <3>3
        <4>2. compute \o <<>> = compute
          BY ONLY <2>4, ConcatEmptySeq
        <4>3. compute' = compute /\ Len(compute) \in Nat
          BY ONLY <2>4, <4>1, <4>2, LenProperties
        <4> QED BY ONLY <2>4, <3>3, <4>3 DEF Extends
      <3> QED BY ONLY <3>2, <3>3
    <2>6. /\ copy' \in Seq(CopyOps)
          /\ Extends(copy', copy, IF has_release[b] THEN 2 ELSE 1)
          /\ has_release[b] => copy'[Len(copy) + 1] = W /\ copy'[Len(copy) + 2] = I
          /\ ~has_release[b] => copy'[Len(copy) + 1] = I
      <3>1. copy' = copy \o (IF has_release[b] THEN <<W>> ELSE <<>>) \o <<I>>
        BY <1>3
      <3> HIDE DEF W, I
      <3> DEFINE c == copy \o (IF has_release[b] THEN <<W>> ELSE <<>>)
                 h == has_release[b]
      <3>2. copy' = c \o <<I>>
        BY ONLY <3>1
      <3>3. /\ c \in Seq(CopyOps) /\ Extends(c, copy, IF h THEN 1 ELSE 0)
            /\ h => c[Len(copy) + 1] = W
        <4>1. CASE h
          <5>1. c = copy \o <<W>>
            BY ONLY <4>1
          <5>2. /\ copy \o <<W>> \in Seq(CopyOps) /\ Len(copy) \in Nat /\ Len(copy \o <<W>>) = Len(copy) + 1
                /\ \A i \in 1 .. Len(copy) : (copy \o <<W>>)[i] = copy[i]
                /\ (copy \o <<W>>)[Len(copy) + 1] = W
            BY ONLY <2>3, <2>4, JoinOne DEF W
          <5>3. /\ c \in Seq(CopyOps) /\ Len(copy) \in Nat /\ Len(c) = Len(copy) + 1
                /\ \A i \in 1 .. Len(copy) : c[i] = copy[i]
                /\ c[Len(copy) + 1] = W
            BY ONLY <5>1, <5>2
          <5> HIDE DEF c, h
          <5> QED BY ONLY <4>1, <5>3 DEF Extends
        <4>2. CASE ~h
          <5>1. c = copy \o <<>>
            BY ONLY <4>2
          <5>2. copy \o <<>> = copy
            BY ONLY <2>4, ConcatEmptySeq
          <5>3. c = copy /\ Len(copy) \in Nat
            BY ONLY <2>4, <5>1, <5>2, LenProperties
          <5> HIDE DEF c, h
          <5> QED BY ONLY <2>4, <4>2, <5>3 DEF Extends
        <4> QED BY ONLY <4>1, <4>2
      <3> HIDE DEF c
      <3>4. /\ c \o <<I>> \in Seq(CopyOps) /\ Len(c) \in Nat /\ Len(c \o <<I>>) = Len(c) + 1
            /\ \A i \in 1 .. Len(c) : (c \o <<I>>)[i] = c[i]
            /\ (c \o <<I>>)[Len(c) + 1] = I
        BY ONLY <2>2, <3>3, JoinOne DEF I
      <3> DEFINE d == c \o <<I>>
      <3>5. copy' = d
        BY ONLY <3>2
      <3>6. d \in Seq(CopyOps) /\ Len(d) = Len(c) + 1 /\ (\A i \in 1 .. Len(c) : d[i] = c[i]) /\ d[Len(c) + 1] = I
        BY ONLY <3>4
      <3> HIDE DEF d, h
      <3>7. /\ d \in Seq(CopyOps) /\ Extends(d, copy, IF h THEN 2 ELSE 1)
            /\ h => d[Len(copy) + 1] = W /\ d[Len(copy) + 2] = I
            /\ ~h => d[Len(copy) + 1] = I
        BY ONLY <3>3, <3>6 DEF Extends
      <3> QED BY ONLY <3>5, <3>7 DEF h
    <2>7. /\ host.at = "prefetch"
          /\ UNCHANGED <<sizeVars, deviceVars, recorded, bufferVars, snapshot, hit_d2d_active, used>>
      BY DEF PrefetchPrefillLayer
    <2> QED BY ONLY <1>3, <2>5, <2>6, <2>7 DEF PrefetchTakes
  <1> QED BY <1>1, <1>2, <1>3

LEMMA CopiesEnqueue ==
  ASSUME SizesAssumption, Types, Cursor, PrefetchCopies
  PROVE  LET t == host.target
             b == BufferOf(t)
             n == recorded[Ready(b)] + 1
         IN  /\ t \in Layers /\ b \in {0, 1} /\ n \in Nat
             /\ RowsToCopy(t) \in [Banks -> SUBSET Experts]
             /\ copy' \in Seq(CopyOps) /\ Len(copy') = 2
             /\ copy'[1] = H2dOp(t, b, RowsToCopy(t)) /\ copy'[2] = RecordOp(Ready(b), n)
  <1> DEFINE t == host.target
             b == BufferOf(t)
             n == recorded[Ready(b)] + 1
             H == H2dOp(t, b, RowsToCopy(t))
             R == RecordOp(Ready(b), n)
  <1>1. t \in Layers /\ b \in {0, 1}
    BY HostFacts, LayerFacts DEF PrefetchCopies, Cursor
  <1>2. n \in Nat
    BY <1>1, EventsDiffer DEF Types
  <1>3. RowsToCopy(t) \in [Banks -> SUBSET Experts]
    BY DEF RowsToCopy
  <1>4. H \in CopyOps /\ R \in CopyOps
    BY <1>1, <1>2, <1>3, NewOps
  <1>5. copy' = <<H, R>>
    BY DEF PrefetchCopies
  <1> HIDE DEF H, R
  <1>6. copy' \in Seq(CopyOps) /\ Len(copy') = 2 /\ copy'[1] = H /\ copy'[2] = R
    BY ONLY <1>4, <1>5
  <1> QED BY ONLY <1>1, <1>2, <1>3, <1>6 DEF H, R

LEMMA ForwardEnqueues ==
  ASSUME SizesAssumption, Types, ForwardLayer
  PROVE  LET l == host.layer
             b == BufferOf(l)
             n == recorded[Release(b)] + 1
         IN  /\ l \in Layers /\ b \in {0, 1} /\ n \in Nat
             /\ compute' \in Seq(ComputeOps) /\ Extends(compute', compute, 3)
             /\ compute'[Len(compute) + 1] = WaitOp(Ready(b), recorded[Ready(b)])
             /\ compute'[Len(compute) + 2] = GemmLayer(l)
             /\ compute'[Len(compute) + 3] = RecordOp(Release(b), n)
  <1> DEFINE l == host.layer
             b == BufferOf(l)
             n == recorded[Release(b)] + 1
             W == WaitOp(Ready(b), recorded[Ready(b)])
             G == GemmLayer(l)
             R == RecordOp(Release(b), n)
  <1>1. l \in Layers /\ b \in {0, 1}
    BY HostFacts
  <1>2. n \in Nat /\ recorded[Ready(b)] \in Nat
    BY <1>1, EventsDiffer DEF Types
  <1>3. W \in ComputeOps /\ G \in ComputeOps /\ R \in ComputeOps
    BY <1>1, <1>2, NewOps DEF GemmLayer
  <1>4. compute' = compute \o <<W>> \o <<G, R>> /\ compute \in Seq(ComputeOps)
    BY DEF ForwardLayer, ReadyWait, GemmLayer, Types
  <1> HIDE DEF W, G, R
  <1>5. /\ compute \o <<W>> \in Seq(ComputeOps) /\ Len(compute) \in Nat /\ Len(compute \o <<W>>) = Len(compute) + 1
        /\ \A i \in 1 .. Len(compute) : (compute \o <<W>>)[i] = compute[i]
        /\ (compute \o <<W>>)[Len(compute) + 1] = W
    BY ONLY <1>3, <1>4, JoinOne
  <1> DEFINE c == compute \o <<W>>
  <1>6. compute' = c \o <<G, R>>
    BY ONLY <1>4
  <1>7. c \in Seq(ComputeOps) /\ Extends(c, compute, 1) /\ c[Len(compute) + 1] = W
    BY ONLY <1>5 DEF Extends
  <1> HIDE DEF c
  <1>8. /\ c \o <<G, R>> \in Seq(ComputeOps) /\ Len(c) \in Nat /\ Len(c \o <<G, R>>) = Len(c) + 2
        /\ \A i \in 1 .. Len(c) : (c \o <<G, R>>)[i] = c[i]
        /\ (c \o <<G, R>>)[Len(c) + 1] = G /\ (c \o <<G, R>>)[Len(c) + 2] = R
    BY ONLY <1>3, <1>7, JoinTwo
  <1> DEFINE d == c \o <<G, R>>
  <1>9. compute' = d
    BY ONLY <1>6
  <1>10. /\ d \in Seq(ComputeOps) /\ Len(d) = Len(c) + 2 /\ \A i \in 1 .. Len(c) : d[i] = c[i]
         /\ d[Len(c) + 1] = G /\ d[Len(c) + 2] = R
    BY ONLY <1>8
  <1> HIDE DEF d
  <1>11. /\ d \in Seq(ComputeOps) /\ Extends(d, compute, 3)
         /\ d[Len(compute) + 1] = W /\ d[Len(compute) + 2] = G /\ d[Len(compute) + 3] = R
    BY ONLY <1>7, <1>10 DEF Extends
  <1> QED BY ONLY <1>1, <1>2, <1>9, <1>11 DEF W, G, R

-----------------------------------------------------------------------------
(* The streams: an operation leaves the compute queue. *)

hostSide == <<cache_size, prefill_overlap, recorded, buffer_layer, released, has_release, hit_d2d_active, host>>

\* q2 is q without its head.
Pop(q2, q) ==
  q # <<>> /\ Len(q) \in Nat \ {0} /\ Len(q2) = Len(q) - 1 /\ \A i \in 1 .. Len(q) - 1 : q2[i] = q[i + 1]

\* The head of a queue has run: a wait is over, a record marks its event.
Ran(o) ==
  \/ o.op # "record" /\ done' = done /\ (o.op = "wait" => done[o.ev] >= o.n)
  \/ o.op = "record" /\ done' = [done EXCEPT ![o.ev] = o.n]

ComputePops == Pop(compute', compute) /\ Ran(compute[1]) /\ UNCHANGED <<copy, hostSide>>

LEMMA ComputeIsPop ==
  ASSUME SizesAssumption, Types, Compute
  PROVE  ComputePops
  <1>1. compute # <<>> /\ compute' = Tail(compute) /\ UNCHANGED <<copy, hostSide>>
    BY DEF Compute, EnsureExperts, MaterializeLayer, CopyMissing, Gemm, ResetCache, HitCompact, HitGather,
           ComputeEvent, EventOps, Running, hostSide, sizeVars, bufferVars
  <1>2. /\ Head(compute) = compute[1] /\ Len(compute) \in Nat \ {0} /\ Len(Tail(compute)) = Len(compute) - 1
        /\ \A i \in 1 .. Len(compute) - 1 : Tail(compute)[i] = compute[i + 1]
    BY <1>1, ComputeHead
  <1>3. Pop(compute', compute)
    BY ONLY <1>1, <1>2 DEF Pop
  <1>4. Ran(compute[1])
    BY <1>2 DEF Ran, Compute, EnsureExperts, MaterializeLayer, CopyMissing, Gemm, ResetCache, HitCompact,
                HitGather, ComputeEvent, EventOps, Running
  <1> QED BY <1>1, <1>3, <1>4 DEF ComputePops

LEMMA PopMode ==
  ASSUME SizesAssumption, Types, Mode, Cursor, ComputePops
  PROVE  Mode' /\ Cursor' /\ Starting' = Starting /\ \A l : Owned(l)' = Owned(l)
  <1>1. \A i \in 1 .. Len(compute') : \E j \in 1 .. Len(compute) : compute'[i] = compute[j]
    BY DEF ComputePops, Pop
  <1>2. UNCHANGED <<cache_size, prefill_overlap, copy, host, buffer_layer, released>>
    BY DEF ComputePops, hostSide
  <1>3. Mode'
    BY <1>1, <1>2 DEF Mode
  <1>4. Cursor'
    BY <1>2 DEF Cursor, Starting
  <1> QED BY <1>2, <1>3, <1>4 DEF Starting, Owned

\* The events of the two queues.
LEMMA QueueEvents ==
  ASSUME Types
  PROVE  /\ \A i \in 1 .. Len(compute) :
              /\ compute[i] \in ComputeOps
              /\ compute[i].op \in {"wait", "record"} => compute[i].ev \in Events
              /\ compute[i].op = "wait" => compute[i].ev \in {Ready(b) : b \in {0, 1}}
              /\ compute[i].op = "record" => compute[i].ev \in {Begin} \cup {Release(b) : b \in {0, 1}}
         /\ \A p \in 1 .. Len(copy) :
              /\ copy[p] \in CopyOps
              /\ copy[p].op \in {"wait", "record"} => copy[p].ev \in Events
              /\ copy[p].op = "wait" => copy[p].ev \in {Begin} \cup {Release(b) : b \in {0, 1}}
              /\ copy[p].op = "record" => copy[p].ev \in {Ready(b) : b \in {0, 1}}
         /\ \A i \in 1 .. Len(compute), p \in 1 .. Len(copy) :
              compute[i].op = "record" /\ copy[p].op = "record" => compute[i].ev # copy[p].ev
  <1>1. \A i \in 1 .. Len(compute) : compute[i] \in ComputeOps
    BY ElementOfSeq DEF Types
  <1>2. \A p \in 1 .. Len(copy) : copy[p] \in CopyOps
    BY ElementOfSeq DEF Types
  <1>3. \A ev \in {Begin} \cup {Release(b) : b \in {0, 1}} : ev \in Events /\ ev \notin {Ready(b) : b \in {0, 1}}
    BY EventsDiffer
  <1>4. \A ev \in {Ready(b) : b \in {0, 1}} : ev \in Events
    BY EventsDiffer
  <1>5. ASSUME NEW i \in 1 .. Len(compute)
        PROVE  /\ compute[i].op \in {"wait", "record"} => compute[i].ev \in Events
               /\ compute[i].op = "wait" => compute[i].ev \in {Ready(b) : b \in {0, 1}}
               /\ compute[i].op = "record" => compute[i].ev \in {Begin} \cup {Release(b) : b \in {0, 1}}
    BY <1>1, <1>3, <1>4, OpKinds
  <1>6. ASSUME NEW p \in 1 .. Len(copy)
        PROVE  /\ copy[p].op \in {"wait", "record"} => copy[p].ev \in Events
               /\ copy[p].op = "wait" => copy[p].ev \in {Begin} \cup {Release(b) : b \in {0, 1}}
               /\ copy[p].op = "record" => copy[p].ev \in {Ready(b) : b \in {0, 1}}
    BY <1>2, <1>3, <1>4, OpKinds
  <1>7. \A i \in 1 .. Len(compute), p \in 1 .. Len(copy) :
          compute[i].op = "record" /\ copy[p].op = "record" => compute[i].ev # copy[p].ev
    BY <1>3, <1>5, <1>6
  <1> QED BY <1>1, <1>2, <1>5, <1>6, <1>7

LEMMA PopRecords ==
  ASSUME SizesAssumption, Types, Types', Records, ComputePops
  PROVE  Records' /\ \A ev \in Events : Pending(ev)' => Pending(ev)
  <1>1. /\ Len(compute) \in Nat \ {0} /\ Len(compute') = Len(compute) - 1
        /\ \A i \in 1 .. Len(compute) - 1 : compute'[i] = compute[i + 1]
        /\ UNCHANGED <<copy, recorded, has_release>>
    BY DEF ComputePops, Pop, hostSide
  <1>2. compute[1] \in ComputeOps
    BY ComputeHead DEF ComputePops, Pop
  <1> DEFINE e == compute[1].ev
  <1>3. CASE compute[1].op # "record"
    <2>1. done' = done
      BY <1>3 DEF ComputePops, Ran
    <2>2. \A i \in 1 .. Len(compute') : i + 1 \in 1 .. Len(compute) /\ compute'[i] = compute[i + 1]
      BY <1>1
    <2> QED BY <1>1, <2>1, <2>2 DEF Records, Pending
  <1>4. CASE compute[1].op = "record"
    <2>0. 1 \in 1 .. Len(compute)
      BY <1>1
    <2>1. e \in Events /\ compute[1].n = recorded[e] /\ recorded[e] \in Nat
      BY <1>4, <2>0, QueueEvents DEF Records, Types
    <2>2. done' = [done EXCEPT ![e] = recorded[e]]
      BY <1>4, <2>1 DEF ComputePops, Ran
    <2>3. \A ev \in Events : done'[ev] = IF ev = e THEN recorded[e] ELSE done[ev]
      BY <2>1, <2>2 DEF Types
    <2>4. \A ev \in Events : done'[ev] < recorded'[ev] <=> ev # e /\ done[ev] < recorded[ev]
      BY <1>1, <2>1, <2>3
    <2>5. \A i \in 1 .. Len(compute') : i + 1 \in 1 .. Len(compute) /\ compute'[i] = compute[i + 1] /\ i + 1 # 1
      BY <1>1
    <2>6. \A i \in 1 .. Len(compute) : compute[i].op = "record" => compute[i].ev \in Events
      BY QueueEvents
    <2>7. ASSUME NEW i \in 1 .. Len(compute'), compute'[i].op = "record"
          PROVE  done'[compute'[i].ev] < recorded'[compute'[i].ev]
      <3>1. compute[i + 1].op = "record" /\ compute[i + 1].ev # e /\ Pending(compute[i + 1].ev)
        BY <1>4, <2>0, <2>5, <2>7 DEF Records
      <3>2. compute[i + 1].ev \in Events
        BY <2>5, <2>6, <3>1
      <3> QED BY <2>4, <2>5, <3>1, <3>2 DEF Pending
    <2>8. \A p \in 1 .. Len(copy) : copy[p].op = "record" => copy[p].ev \in Events /\ copy[p].ev # e
      BY <1>4, <2>0, QueueEvents
    <2>9. \A ev \in Events : done'[ev] <= recorded'[ev]
      <3>1. \A ev \in Events : done[ev] <= recorded[ev]
        BY DEF Records
      <3> QED BY ONLY <1>1, <2>1, <2>3, <3>1
    <2>10. \A i \in 1 .. Len(compute') :
             /\ compute'[i].op = "wait" => compute'[i].n = recorded'[compute'[i].ev]
             /\ compute'[i].op = "record" => compute'[i].n = recorded'[compute'[i].ev]
      BY <1>1, <2>5 DEF Records
    <2>11. \A i, j \in 1 .. Len(compute') :
             compute'[i].op = "record" /\ compute'[j].op = "record" /\ compute'[i].ev = compute'[j].ev => i = j
      <3>1. \A i, j \in 1 .. Len(compute) :
              compute[i].op = "record" /\ compute[j].op = "record" /\ compute[i].ev = compute[j].ev => i = j
        BY DEF Records
      <3>2. ASSUME NEW i \in 1 .. Len(compute'), NEW j \in 1 .. Len(compute'),
                   compute'[i].op = "record", compute'[j].op = "record", compute'[i].ev = compute'[j].ev
            PROVE  i = j
        <4>1. i + 1 = j + 1
          BY ONLY <2>5, <3>1, <3>2
        <4> QED BY ONLY <1>1, <3>2, <4>1
      <3> QED BY <3>2
    <2>12. \A p \in 1 .. Len(copy') :
             /\ copy'[p].op = "wait" => copy'[p].n = recorded'[copy'[p].ev]
             /\ copy'[p].op = "record" =>
                  copy'[p].n = recorded'[copy'[p].ev] /\ done'[copy'[p].ev] < recorded'[copy'[p].ev]
      <3> SUFFICES ASSUME NEW p \in 1 .. Len(copy)
                   PROVE  /\ copy[p].op = "wait" => copy[p].n = recorded[copy[p].ev]
                          /\ copy[p].op = "record" =>
                               copy[p].n = recorded[copy[p].ev] /\ done'[copy[p].ev] < recorded'[copy[p].ev]
        BY <1>1
      <3> QED BY <2>4, <2>8 DEF Records, Pending
    <2>13. \A b \in {0, 1} : has_release'[b] \/ ~(done'[Release(b)] < recorded'[Release(b)])
      BY <1>1, <2>4, EventsDiffer DEF Records, Pending
    <2>14. Records'
      BY <2>7, <2>9, <2>10, <2>11, <2>12, <2>13 DEF Records, Pending
    <2> QED BY <2>4, <2>14 DEF Pending
  <1> QED BY <1>3, <1>4

LEMMA PopFences ==
  ASSUME SizesAssumption, Types, Types', Mode, Cursor, Records, Fences, ComputePops
  PROVE  Fences'
  <1>1. \A ev \in Events : Pending(ev)' => Pending(ev)
    BY PopRecords
  <1>2. Starting' = Starting /\ \A l : Owned(l)' = Owned(l)
    BY PopMode
  <1>3. UNCHANGED <<copy, recorded, hit_d2d_active, host>>
    BY DEF ComputePops, hostSide
  <1>4. \A l \in Layers : BufferOf(l) \in {0, 1}
    BY LayerFacts
  <1>5. Begin \in Events /\ \A b \in {0, 1} : Release(b) \in Events
    BY EventsDiffer
  <1>6. BufferOf(host.target) \in {0, 1}
    BY HostFacts
  <1> QED BY <1>1, <1>2, <1>3, <1>4, <1>5, <1>6 DEF Fences

LEMMA PopCopyQueue ==
  ASSUME CopyQueue, ComputePops
  PROVE  CopyQueue'
  BY DEF CopyQueue, ComputePops, hostSide, Starting, IsCopy

\* Without its head, a queue keeps the neighbours of what is left of it.
LEMMA NeighboursPop ==
  ASSUME NEW q, NEW q2, Pop(q2, q), NEW i \in 1 .. Len(q) - 1, Neighbours(q, i + 1)
  PROVE  Neighbours(q2, i)
  <1> DEFINE n == Len(q)
             j == i + 1
             o == q[j]
  <1>1. n \in Nat \ {0} /\ Len(q2) = n - 1 /\ \A k \in 1 .. n - 1 : q2[k] = q[k + 1]
    BY DEF Pop
  <1>2. /\ j \in 1 .. n /\ q2[i] = o /\ j > 1
        /\ i + 1 <= Len(q2) <=> j + 1 <= n
        /\ i + 2 <= Len(q2) <=> j + 2 <= n
    BY <1>1
  <1>3. j + 1 <= n => q2[i + 1] = q[j + 1]
    BY <1>1
  <1>4. j + 2 <= n => q2[i + 2] = q[j + 2]
    <2>1. j + 2 <= n => i + 2 \in 1 .. n - 1 /\ (i + 2) + 1 = j + 2
      BY <1>1
    <2> QED BY <1>1, <2>1
  <1>5. i > 1 => q2[i - 1] = q[j - 1]
    <2>1. i > 1 => i - 1 \in 1 .. n - 1 /\ (i - 1) + 1 = j - 1
      BY <1>1
    <2> QED BY <1>1, <2>1
  <1>6. j + 2 <= n => j + 1 <= n
    BY <1>1
  <1> HIDE DEF j, n
  <1> QED BY <1>2, <1>3, <1>4, <1>5, <1>6 DEF Neighbours, j, n, Op, GemmLayer

\* A longer queue keeps the neighbours of what was there.
LEMMA NeighboursExtend ==
  ASSUME NEW q, NEW q2, NEW n \in Nat, Extends(q2, q, n), NEW i \in 1 .. Len(q), Neighbours(q, i)
  PROVE  Neighbours(q2, i)
  <1>1. Len(q) \in Nat /\ Len(q2) = Len(q) + n /\ \A k \in 1 .. Len(q) : q2[k] = q[k]
    BY DEF Extends
  <1>2. /\ q2[i] = q[i]
        /\ i + 1 <= Len(q) => i + 1 <= Len(q2) /\ q2[i + 1] = q[i + 1]
        /\ i + 2 <= Len(q) => i + 2 <= Len(q2) /\ q2[i + 2] = q[i + 2] /\ i + 1 <= Len(q)
        /\ i > 1 => q2[i - 1] = q[i - 1]
    BY <1>1
  <1> QED BY <1>2 DEF Neighbours

LEMMA PopAdjacent ==
  ASSUME SizesAssumption, Types, Types', Mode, Records, Adjacent, ComputePops
  PROVE  Adjacent'
  <1>1. Pop(compute', compute) /\ UNCHANGED <<prefill_overlap, recorded>>
    BY DEF ComputePops, hostSide
  <1>2. Len(compute') = Len(compute) - 1 /\ Len(compute) \in Nat \ {0}
        /\ \A i \in 1 .. Len(compute) - 1 : compute'[i] = compute[i + 1]
    BY <1>1 DEF Pop
  <1>3. \A ev \in Events : Pending(ev)' => Pending(ev)
    BY PopRecords
  <1>4. ASSUME NEW i \in 1 .. Len(compute')
        PROVE  Neighbours(compute, i)'
    <2>1. i + 1 \in 1 .. Len(compute) /\ i \in 1 .. Len(compute) - 1
      BY <1>2
    <2>2. Neighbours(compute, i + 1)
      BY <2>1 DEF Adjacent
    <2>3. Neighbours(compute', i)
      BY <1>1, <2>1, <2>2, NeighboursPop
    <2> QED BY <1>1, <2>3 DEF Neighbours, GemmLayer, Op
  <1>5. ASSUME Running(compute', "gemm_layer"), prefill_overlap
        PROVE  ~(done'[Ready(BufferOf(Head(compute').layer))] < recorded'[Ready(BufferOf(Head(compute').layer))])
    <2> DEFINE ev == Ready(BufferOf(Head(compute').layer))
    <2>1. compute' # <<>> /\ compute' \in Seq(ComputeOps) /\ Head(compute') = compute'[1] /\ Len(compute') \in Nat \ {0}
      BY <1>5, PopFacts DEF Running, Types
    <2>2. 1 \in 1 .. Len(compute) /\ 2 \in 1 .. Len(compute) /\ compute[2] = Head(compute') /\ 1 + 1 = 2 /\ 2 - 1 = 1
      BY <1>2, <2>1
    <2>3. Neighbours(compute, 2) /\ compute[2].op = "gemm_layer"
      BY <1>5, <2>2 DEF Adjacent, Running
    <2>4. compute[1].op = "wait" /\ compute[1].ev = ev
      BY <1>5, <2>2, <2>3 DEF Neighbours
    <2>5. compute[1].n = recorded[ev] /\ ev \in Events
      BY <2>2, <2>4, QueueEvents DEF Records
    <2>6. done' = done /\ done[ev] >= compute[1].n
      BY <2>4 DEF ComputePops, Ran
    <2>7. recorded[ev] \in Nat /\ done[ev] \in Nat
      BY <2>5 DEF Types
    <2> QED BY <1>1, <2>5, <2>6, <2>7
  <1> QED BY <1>1, <1>4, <1>5 DEF Adjacent, Pending, Running

LEMMA PopOrder ==
  ASSUME SizesAssumption, Types, Types', Records, Order, ComputePops
  PROVE  Order'
  <1> DEFINE n == Len(compute)
  <1>1. /\ n \in Nat \ {0} /\ Len(compute') = n - 1
        /\ \A i \in 1 .. n - 1 : compute'[i] = compute[i + 1]
        /\ UNCHANGED <<prefill_overlap, recorded, host>>
    BY DEF ComputePops, Pop, hostSide
  <1>2. \A i \in 1 .. Len(compute') : i + 1 \in 1 .. n /\ compute'[i] = compute[i + 1]
    BY <1>1
  <1>3. (prefill_overlap =>
          \A i, j \in 1 .. Len(compute) : i < j /\ IsPass(compute[i]) => IsPass(compute[j]))'
    <2>1. prefill_overlap =>
            \A i, j \in 1 .. n : i < j /\ IsPass(compute[i]) => IsPass(compute[j])
      BY DEF Order
    <2>2. ASSUME prefill_overlap', NEW i \in 1 .. Len(compute'), NEW j \in 1 .. Len(compute'),
                 i < j, IsPass(compute[i + 1])
          PROVE  IsPass(compute[j + 1])
      <3>1. i + 1 \in 1 .. n /\ j + 1 \in 1 .. n /\ i + 1 < j + 1
        BY <1>2, <2>2
      <3> HIDE DEF n
      <3> QED BY <1>1, <2>1, <2>2, <3>1
    <2> QED BY <1>2, <2>2 DEF IsPass, IsBegin
  <1>4. (\A i \in 1 .. Len(compute) : IsBegin(compute[i]) => i = Len(compute))'
    BY <1>1, <1>2 DEF Order, IsBegin
  <1>5. CASE ~(Pending(Begin) /\ ~Pending(Begin)')
    <2>1. ~Pending(Begin)' => ~Pending(Begin)
      BY <1>5
    <2> QED BY <1>1, <1>2, <1>3, <1>4, <2>1 DEF Order
  <1>6. CASE Pending(Begin) /\ ~Pending(Begin)'
    <2>1. compute[1].op = "record" /\ compute[1].ev = Begin
      <3>1. done' # done
        BY <1>1, <1>6 DEF Pending
      <3>2. compute[1].op = "record" /\ done' = [done EXCEPT ![compute[1].ev] = compute[1].n]
        BY <3>1 DEF ComputePops, Ran
      <3>3. done[Begin] # done'[Begin]
        BY <1>1, <1>6 DEF Pending
      <3>4. done \in [Events -> Nat] /\ Begin \in Events
        BY EventsDiffer DEF Types
      <3> QED BY <3>2, <3>3, <3>4
    <2>2. n = 1
      BY <1>1, <2>1 DEF Order, IsBegin
    <2> QED BY <1>1, <1>3, <1>4, <2>2 DEF Order
  <1> QED BY <1>5, <1>6

-----------------------------------------------------------------------------
(* The streams: an operation leaves the copy queue. *)

CopyPops == Pop(copy', copy) /\ Ran(copy[1]) /\ UNCHANGED <<compute, hostSide>>

\* A layer copy is under way, then over.
CopyEnds ==
  /\ copy # <<>> /\ copy[1].op = "h2d" /\ Len(copy') = Len(copy) /\ Len(copy) \in Nat \ {0}
  /\ copy'[1] = [copy[1] EXCEPT !.op = "h2d_end"]
  /\ \A p \in 2 .. Len(copy) : copy'[p] = copy[p]
  /\ UNCHANGED <<compute, hostSide, done>>

LEMMA CopyIsPop ==
  ASSUME SizesAssumption, Types, Copy
  PROVE  \/ CopyPops /\ (LayerCopy => copy[1].op # "h2d")
         \/ CopyEnds /\ LayerCopy
  <1>1. copy # <<>> /\ UNCHANGED <<compute, hostSide>>
    BY DEF Copy, CopyEvent, Snapshot, InvalidatePrefillBuffer, LayerCopy, EventOps, Running, hostSide, sizeVars,
           bufferVars
  <1>2. /\ Head(copy) = copy[1] /\ Len(copy) \in Nat \ {0} /\ Len(Tail(copy)) = Len(copy) - 1
        /\ copy[1] \in CopyOps /\ Tail(copy) \in Seq(CopyOps)
        /\ \A i \in 1 .. Len(copy) - 1 : Tail(copy)[i] = copy[i + 1]
    BY <1>1, CopyHead
  <1>3. CASE LayerCopy /\ Head(copy).op = "h2d"
    <2> DEFINE x == [Head(copy) EXCEPT !.op = "h2d_end"]
               r == Tail(copy)
    <2>1. copy' = <<x>> \o r /\ done' = done
      BY <1>3 DEF LayerCopy
    <2>2. x \in CopyOps
      BY <1>2, <1>3 DEF CopyOps
    <2> HIDE DEF x, r
    <2>3. <<x>> \in Seq(CopyOps) /\ Len(<<x>>) = 1 /\ <<x>>[1] = x
      BY ONLY <2>2
    <2>4. r \in Seq(CopyOps)
      BY <1>2 DEF r
    <2> DEFINE y == <<x>>
    <2>5. y \in Seq(CopyOps) /\ Len(y) = 1 /\ y[1] = x /\ copy' = y \o r
      BY ONLY <2>1, <2>3
    <2> HIDE DEF y
    <2>6. /\ Len(y \o r) = Len(y) + Len(r)
          /\ \A i \in 1 .. Len(y) : (y \o r)[i] = y[i]
          /\ \A i \in 1 .. Len(r) : (y \o r)[Len(y) + i] = r[i]
      <3>1. y \in Seq(CopyOps)
        BY ONLY <2>5
      <3> QED BY ONLY <2>4, <3>1, JoinFacts
    <2> DEFINE d == y \o r
    <2>7. copy' = d
      BY ONLY <2>5
    <2>8. Len(d) = Len(y) + Len(r) /\ (\A i \in 1 .. Len(y) : d[i] = y[i]) /\ (\A i \in 1 .. Len(r) : d[Len(y) + i] = r[i])
      BY ONLY <2>6
    <2> HIDE DEF d
    <2>9. Len(r) = Len(copy) - 1 /\ \A i \in 1 .. Len(copy) - 1 : r[i] = copy[i + 1]
      BY ONLY <1>2 DEF r
    <2>10. Len(d) = Len(copy) /\ d[1] = x
      BY ONLY <1>2, <2>5, <2>8, <2>9
    <2>11. ASSUME NEW p \in 2 .. Len(copy) PROVE d[p] = copy[p]
      <3> DEFINE i == p - 1
      <3>1. i \in 1 .. Len(r) /\ Len(y) + i = p /\ i + 1 = p /\ i \in 1 .. Len(copy) - 1
        BY ONLY <1>2, <2>5, <2>9, p \in 2 .. Len(copy)
      <3> HIDE DEF i
      <3>2. d[Len(y) + i] = r[i] /\ r[i] = copy[i + 1]
        BY ONLY <2>8, <2>9, <3>1
      <3> QED BY ONLY <3>1, <3>2
    <2>12. CopyEnds
      BY ONLY <1>1, <1>2, <1>3, <2>1, <2>7, <2>10, <2>11 DEF CopyEnds, x
    <2> QED BY <1>3, <2>12
  <1>4. CASE ~(LayerCopy /\ Head(copy).op = "h2d")
    <2>1. copy' = Tail(copy)
      BY <1>4 DEF Copy, CopyEvent, Snapshot, InvalidatePrefillBuffer, LayerCopy
    <2>2. Pop(copy', copy)
      BY ONLY <1>1, <1>2, <2>1 DEF Pop
    <2>3. Ran(copy[1])
      BY <1>2, <1>4 DEF Ran, Copy, CopyEvent, Snapshot, InvalidatePrefillBuffer, LayerCopy, EventOps, Running,
                        deviceVars
    <2>4. LayerCopy => copy[1].op # "h2d"
      BY ONLY <1>2, <1>4
    <2> QED BY ONLY <1>1, <2>2, <2>3, <2>4 DEF CopyPops
  <1> QED BY <1>3, <1>4

LEMMA CopyPopRecords ==
  ASSUME SizesAssumption, Types, Types', Records, CopyQueue, CopyPops
  PROVE  /\ Records' /\ \A ev \in Events : Pending(ev)' => Pending(ev)
         /\ Pending(Begin)' = Pending(Begin) /\ \A b \in {0, 1} : Pending(Release(b))' = Pending(Release(b))
  <1>1. /\ Len(copy) \in Nat \ {0} /\ Len(copy') = Len(copy) - 1
        /\ \A i \in 1 .. Len(copy) - 1 : copy'[i] = copy[i + 1]
        /\ UNCHANGED <<compute, recorded, has_release>>
    BY DEF CopyPops, Pop, hostSide
  <1>2. \A p \in 1 .. Len(copy') : p + 1 \in 1 .. Len(copy) /\ copy'[p] = copy[p + 1] /\ p + 1 # 1
    BY <1>1
  <1>3. 1 \in 1 .. Len(copy)
    BY <1>1
  <1> DEFINE e == copy[1].ev
  <1>4. CASE copy[1].op # "record"
    <2>1. done' = done
      BY <1>4 DEF CopyPops, Ran
    <2> QED BY <1>1, <1>2, <2>1 DEF Records, Pending
  <1>5. CASE copy[1].op = "record"
    <2>1. /\ e \in Events /\ copy[1].n = recorded[e] /\ recorded[e] \in Nat
          /\ e # Begin /\ \A b \in {0, 1} : e # Release(b)
      <3>1. e \in {Ready(b) : b \in {0, 1}} /\ e \in Events
        BY <1>3, <1>5, QueueEvents
      <3>2. copy[1].n = recorded[e]
        BY <1>3, <1>5 DEF Records
      <3>3. recorded[e] \in Nat
        BY <3>1 DEF Types
      <3>4. e # Begin /\ \A b \in {0, 1} : e # Release(b)
        BY <3>1, EventsDiffer
      <3> QED BY <3>1, <3>2, <3>3, <3>4
    <2>2. done' = [done EXCEPT ![e] = recorded[e]]
      BY <1>5, <2>1 DEF CopyPops, Ran
    <2>3. \A ev \in Events : done'[ev] = IF ev = e THEN recorded[e] ELSE done[ev]
      BY <2>1, <2>2 DEF Types
    <2>4. \A ev \in Events : done'[ev] < recorded'[ev] <=> ev # e /\ done[ev] < recorded[ev]
      BY <1>1, <2>1, <2>3
    <2>5. \A p \in 1 .. Len(copy') : copy'[p].op # "record"
      BY <1>2, <1>5 DEF CopyQueue, IsCopy
    <2>6. \A i \in 1 .. Len(compute) : compute[i].op = "record" => compute[i].ev \in Events /\ compute[i].ev # e
      BY <1>3, <1>5, QueueEvents
    <2>7. \A ev \in Events : done'[ev] <= recorded'[ev]
      <3>1. \A ev \in Events : done[ev] <= recorded[ev]
        BY DEF Records
      <3> QED BY ONLY <1>1, <2>1, <2>3, <3>1
    <2>8. \A i \in 1 .. Len(compute) :
            /\ compute[i].op = "wait" => compute[i].n = recorded[compute[i].ev]
            /\ compute[i].op = "record" => /\ compute[i].n = recorded[compute[i].ev]
                                           /\ done'[compute[i].ev] < recorded'[compute[i].ev]
      BY <2>4, <2>6 DEF Records, Pending
    <2>9. \A p \in 1 .. Len(copy') : copy'[p].op = "wait" => copy'[p].n = recorded[copy'[p].ev]
      BY <1>2 DEF Records
    <2>10. \A b \in {0, 1} : has_release'[b] \/ ~(done'[Release(b)] < recorded'[Release(b)])
      BY <1>1, <2>4, EventsDiffer DEF Records, Pending
    <2>11. \A i, j \in 1 .. Len(compute) :
             compute[i].op = "record" /\ compute[j].op = "record" /\ compute[i].ev = compute[j].ev => i = j
      BY DEF Records
    <2>12. Records'
      BY <1>1, <2>5, <2>7, <2>8, <2>9, <2>10, <2>11 DEF Records, Pending
    <2> QED BY <2>1, <2>4, <2>12, EventsDiffer DEF Pending
  <1> QED BY <1>4, <1>5

LEMMA CopyPopRest ==
  ASSUME SizesAssumption, Types, Types', Mode, Cursor, Records, Fences, CopyQueue, Adjacent, Order, CopyPops
  PROVE  Mode' /\ Cursor' /\ Fences' /\ CopyQueue' /\ Adjacent' /\ Order'
  <1>1. /\ Len(copy) \in Nat \ {0} /\ Len(copy') = Len(copy) - 1 /\ copy # <<>>
        /\ \A i \in 1 .. Len(copy) - 1 : copy'[i] = copy[i + 1]
        /\ UNCHANGED <<compute, hostSide>>
    BY DEF CopyPops, Pop
  <1>2. \A p \in 1 .. Len(copy') : p + 1 \in 1 .. Len(copy) /\ copy'[p] = copy[p + 1] /\ p + 1 # 1
    BY <1>1
  <1>3. /\ \A ev \in Events : Pending(ev)' => Pending(ev)
        /\ Pending(Begin)' = Pending(Begin)
    BY CopyPopRecords
  <1>4. Mode'
    BY <1>1 DEF Mode, hostSide
  <1>5. Cursor' /\ Starting' = Starting /\ \A l : Owned(l)' = Owned(l)
    BY <1>1 DEF Cursor, Starting, Owned, hostSide
  <1>6. ASSUME NEW ev \in {Begin} \cup {Release(b) : b \in {0, 1}}, Pending(ev),
               NEW p \in 1 .. Len(copy), copy[p] = WaitOp(ev, recorded[ev])
        PROVE  \E r \in 1 .. Len(copy') : copy'[r] = WaitOp(ev, recorded[ev])
    <2>0. ev \in Events
      BY EventsDiffer
    <2>1. p # 1
      <3> SUFFICES ASSUME p = 1 PROVE FALSE
        OBVIOUS
      <3>1. copy[1].op = "wait" /\ copy[1].ev = ev /\ copy[1].n = recorded[ev]
        BY <1>6 DEF WaitOp
      <3>2. done[ev] >= recorded[ev]
        BY <3>1 DEF CopyPops, Ran
      <3> QED BY <1>6, <2>0, <3>2 DEF Pending, Types
    <2>2. p - 1 \in 1 .. Len(copy') /\ copy'[p - 1] = copy[p]
      BY <1>1, <2>1
    <2> QED BY <1>6, <2>2
  <1>7. Fences'
    <2>1. (Pending(Begin) => /\ Starting /\ (hit_d2d_active => host.at = "snapshot")
                             /\ \E p \in 1 .. Len(copy) : copy[p] = WaitOp(Begin, recorded[Begin]))'
      <3> SUFFICES ASSUME Pending(Begin)
                   PROVE  /\ Starting /\ (hit_d2d_active => host.at = "snapshot")
                          /\ \E r \in 1 .. Len(copy') : copy'[r] = WaitOp(Begin, recorded[Begin])
        BY <1>1, <1>3, <1>5 DEF hostSide, WaitOp
      <3>1. PICK p \in 1 .. Len(copy) : copy[p] = WaitOp(Begin, recorded[Begin])
        BY DEF Fences
      <3> QED BY <1>6, <3>1 DEF Fences
    <2>2. (host.at = "invalidate" =>
             LET b == BufferOf(host.target)
             IN  Pending(Release(b)) => \E p \in 1 .. Len(copy) : copy[p] = WaitOp(Release(b), recorded[Release(b)]))'
      <3> DEFINE b == BufferOf(host.target)
      <3>1. b \in {0, 1} /\ Release(b) \in Events
        BY HostFacts, EventsDiffer
      <3> SUFFICES ASSUME host.at = "invalidate", Pending(Release(b))
                   PROVE  \E r \in 1 .. Len(copy') : copy'[r] = WaitOp(Release(b), recorded[Release(b)])
        BY <1>1, <1>3, <3>1 DEF hostSide, WaitOp
      <3>2. PICK p \in 1 .. Len(copy) : copy[p] = WaitOp(Release(b), recorded[Release(b)])
        BY DEF Fences
      <3> QED BY <1>6, <3>1, <3>2
    <2>3. (\A l \in Layers : Owned(l) => ~Pending(Release(BufferOf(l))))'
      <3>1. \A l \in Layers : Release(BufferOf(l)) \in Events
        BY LayerFacts, EventsDiffer
      <3> QED BY <1>3, <1>5, <3>1 DEF Fences
    <2> QED BY <2>1, <2>2, <2>3 DEF Fences
  <1>8. CopyQueue'
    <2>1. ASSUME NEW p \in 1 .. Len(copy')
          PROVE  LET o == copy'[p] IN
                 /\ ~IsCopy(o)
                 /\ o.op = "record" => p \in {1, 2} /\ (p = 2 => IsCopy(copy'[1]))
                 /\ o.op = "wait" => Starting \/ host.at = "invalidate"
                 /\ o.op \in {"snapshot", "invalidate"} => p = Len(copy') /\ host.at = o.op
                 /\ o.op = "invalidate" => o.layer = host.target
      BY <1>1, <1>2 DEF CopyQueue
    <2>2. host.at \in {"snapshot", "invalidate"} /\ copy' # <<>> => copy'[Len(copy')].op = host.at
      <3> SUFFICES ASSUME host.at \in {"snapshot", "invalidate"}, copy' # <<>> PROVE copy'[Len(copy')].op = host.at
        OBVIOUS
      <3>1. Len(copy') \in Nat \ {0}
        BY EmptySeq DEF Types
      <3>2. copy'[Len(copy')] = copy[Len(copy)]
        BY <1>1, <3>1
      <3> QED BY <1>1, <3>2 DEF CopyQueue
    <2> QED BY <1>1, <1>5, <2>1, <2>2 DEF CopyQueue, IsCopy, hostSide
  <1>9. Adjacent'
    <2>1. \A i \in 1 .. Len(compute') : Neighbours(compute, i)'
      BY <1>1 DEF Adjacent, Neighbours, hostSide
    <2>2. (Running(compute, "gemm_layer") /\ prefill_overlap =>
             ~Pending(Ready(BufferOf(Head(compute).layer))))'
      <3> SUFFICES ASSUME Running(compute, "gemm_layer"), prefill_overlap
                   PROVE  ~(Pending(Ready(BufferOf(Head(compute).layer)))')
        BY <1>1 DEF hostSide, Running, Pending
      <3>1. Ready(BufferOf(Head(compute).layer)) \in Events
        <4>1. Head(compute) = compute[1] /\ compute[1] \in ComputeOps
          BY ComputeHead DEF Running
        <4>2. Head(compute).layer \in Layers
          BY <4>1, OpKinds DEF Running
        <4> QED BY <4>2, LayerFacts, EventsDiffer
      <3>2. ~Pending(Ready(BufferOf(Head(compute).layer)))
        BY DEF Adjacent
      <3> QED BY <1>1, <1>3, <3>1, <3>2 DEF Pending
    <2> QED BY <2>1, <2>2 DEF Adjacent
  <1>10. Order'
    BY <1>1, <1>3 DEF Order, hostSide, IsPass, IsBegin
  <1> QED BY <1>4, <1>5, <1>7, <1>8, <1>9, <1>10

LEMMA CopyEndStreams ==
  ASSUME SizesAssumption, Types, Mode, Cursor, Records, Fences, CopyQueue, Adjacent, Order, CopyEnds
  PROVE  Mode' /\ Cursor' /\ Records' /\ Fences' /\ CopyQueue' /\ Adjacent' /\ Order'
  <1>1. /\ copy # <<>> /\ copy[1].op = "h2d" /\ Len(copy') = Len(copy) /\ Len(copy) \in Nat \ {0}
        /\ copy'[1] = [copy[1] EXCEPT !.op = "h2d_end"]
        /\ \A p \in 2 .. Len(copy) : copy'[p] = copy[p]
        /\ UNCHANGED <<compute, hostSide, done>>
    BY DEF CopyEnds
  <1>2. copy[1] \in CopyOps
    BY <1>1, CopyHead
  <1>3. /\ copy'[1].op = "h2d_end" /\ copy'[1].layer = copy[1].layer /\ copy'[1].buffer = copy[1].buffer
        /\ copy'[1].rows = copy[1].rows
    <2>1. copy[1] \in [op : {"h2d", "h2d_end"}, layer : Layers, buffer : {0, 1}, rows : [Banks -> SUBSET Experts]]
      BY <1>1, <1>2 DEF CopyOps
    <2> QED BY <1>1, <2>1
  <1>4. \A p \in 1 .. Len(copy) : p = 1 \/ p \in 2 .. Len(copy)
    BY <1>1
  <1>5. UNCHANGED <<cache_size, prefill_overlap, recorded, buffer_layer, released, has_release, hit_d2d_active, host>>
    BY <1>1 DEF hostSide
  <1>6. Mode' /\ Cursor'
    BY <1>1, <1>5 DEF Mode, Cursor, Starting
  <1>7. \A p \in 1 .. Len(copy') : copy'[p].op \in {"wait", "record", "snapshot", "invalidate"} => copy'[p] = copy[p]
    BY <1>1, <1>3, <1>4
  <1>8. Records'
    BY <1>1, <1>5, <1>7 DEF Records, Pending
  <1>9. \A p \in 1 .. Len(copy) : copy[p].op = "wait" => copy'[p] = copy[p]
    BY <1>1, <1>4
  <1>10. Fences'
    <2>1. \A ev, n : \A p \in 1 .. Len(copy) : copy[p] = WaitOp(ev, n) => copy'[p] = WaitOp(ev, n)
      BY <1>9 DEF WaitOp
    <2> QED BY <1>1, <1>5, <2>1 DEF Fences, Pending, Starting, Owned
  <1>11. CopyQueue'
    <2>1. \A p \in 1 .. Len(copy') : LET o == copy'[p] IN
            /\ IsCopy(o) => /\ p = 1 /\ Len(copy') >= 2 /\ o.buffer = BufferOf(o.layer)
                            /\ copy'[2].op = "record" /\ copy'[2].ev = Ready(o.buffer)
            /\ o.op = "record" => p \in {1, 2} /\ (p = 2 => IsCopy(copy'[1]))
            /\ o.op = "wait" => Starting \/ host.at = "invalidate"
            /\ o.op \in {"snapshot", "invalidate"} => p = Len(copy') /\ host.at = o.op
            /\ o.op = "invalidate" => o.layer = host.target
      <3>1. /\ Len(copy) >= 2 /\ copy[1].buffer = BufferOf(copy[1].layer)
            /\ copy[2].op = "record" /\ copy[2].ev = Ready(copy[1].buffer)
        BY <1>1 DEF CopyQueue, IsCopy
      <3>2. copy'[2] = copy[2]
        BY <1>1, <3>1
      <3>3. \A p \in 2 .. Len(copy) :
              /\ ~IsCopy(copy[p]) /\ copy'[p] = copy[p] /\ p \in 1 .. Len(copy)
        BY <1>1 DEF CopyQueue
      <3>4. IsCopy(copy'[1])
        BY <1>3 DEF IsCopy
      <3> SUFFICES ASSUME NEW p \in 1 .. Len(copy)
                   PROVE  LET o == copy'[p] IN
            /\ IsCopy(o) => /\ p = 1 /\ Len(copy') >= 2 /\ o.buffer = BufferOf(o.layer)
                            /\ copy'[2].op = "record" /\ copy'[2].ev = Ready(o.buffer)
            /\ o.op = "record" => p \in {1, 2} /\ (p = 2 => IsCopy(copy'[1]))
            /\ o.op = "wait" => Starting \/ host.at = "invalidate"
            /\ o.op \in {"snapshot", "invalidate"} => p = Len(copy') /\ host.at = o.op
            /\ o.op = "invalidate" => o.layer = host.target
        BY <1>1
      <3>5. CASE p = 1
        BY <1>1, <1>3, <3>1, <3>2, <3>5
      <3>6. CASE p \in 2 .. Len(copy)
        BY <1>1, <3>3, <3>4, <3>6 DEF CopyQueue
      <3> QED BY <1>4, <3>5, <3>6
    <2>2. host.at \in {"snapshot", "invalidate"} /\ copy' # <<>> => copy'[Len(copy')].op = host.at
      <3>1. Len(copy) >= 2
        BY <1>1 DEF CopyQueue, IsCopy
      <3>2. copy'[Len(copy)] = copy[Len(copy)]
        BY <1>1, <3>1
      <3> QED BY <1>1, <3>2 DEF CopyQueue
    <2> QED BY <1>1, <1>5, <2>1, <2>2 DEF CopyQueue, IsCopy, Starting
  <1>12. Adjacent'
    BY <1>1, <1>5 DEF Adjacent, Neighbours, Running, Pending
  <1>13. Order'
    BY <1>1, <1>5 DEF Order, IsPass, IsBegin, Pending
  <1> QED BY <1>6, <1>8, <1>10, <1>11, <1>12, <1>13

-----------------------------------------------------------------------------
(* The streams: the host between passes. *)

\* Between passes no chunk is about to begin.
LEMMA IdleFacts ==
  ASSUME Types, Records, Fences, CopyQueue, host.at = "idle"
  PROVE  /\ ~Pending(Begin) /\ \A i \in 1 .. Len(compute) : ~IsBegin(compute[i])
         /\ \A p \in 1 .. Len(copy) : copy[p].op \notin {"wait", "snapshot", "invalidate"}
  <1>1. ~Starting
    BY DEF Starting
  <1>2. ~Pending(Begin)
    BY <1>1 DEF Fences
  <1>3. \A i \in 1 .. Len(compute) : ~IsBegin(compute[i])
    BY <1>2 DEF Records, IsBegin
  <1>4. \A p \in 1 .. Len(copy) : copy[p].op \notin {"wait", "snapshot", "invalidate"}
    BY <1>1 DEF CopyQueue
  <1> QED BY <1>2, <1>3, <1>4

\* A longer queue: what was there, then what is new.
LEMMA ExtendsSplit ==
  ASSUME NEW q, NEW q2, NEW n \in Nat, Extends(q2, q, n)
  PROVE  /\ \A i \in 1 .. Len(q2) : (i \in 1 .. Len(q) /\ q2[i] = q[i]) \/ i \in Len(q) + 1 .. Len(q) + n
         /\ \A i \in 1 .. Len(q) : i \in 1 .. Len(q2) /\ q2[i] = q[i]
         /\ \A i \in Len(q) + 1 .. Len(q) + n : i \in 1 .. Len(q2)
         /\ Len(q2) = Len(q) + n /\ Len(q) \in Nat
  BY DEF Extends

\* Whole passes, and resets, are enqueued behind everything else.
LEMMA PassStreams ==
  ASSUME SizesAssumption, Types, Types', Mode, Cursor, Records, Fences, CopyQueue, Adjacent, Order,
         host.at = "idle", UNCHANGED <<copy, done, hostSide>>, NEW n \in Nat \ {0}, Extends(compute', compute, n),
         \A i \in Len(compute) + 1 .. Len(compute) + n :
           /\ Neighbours(compute', i)
           /\ compute'[i].op \in IF prefill_overlap THEN Changers \ {"materialize"} ELSE Changers \cup {"gemm_layer"},
         compute'[Len(compute) + 1].op # "gemm_layer"
  PROVE  Mode' /\ Cursor' /\ Records' /\ Fences' /\ CopyQueue' /\ Adjacent' /\ Order'
  <1> DEFINE m == Len(compute)
  <1>0. UNCHANGED <<copy, done, cache_size, prefill_overlap, recorded, buffer_layer, released, has_release,
                    hit_d2d_active, host>>
    BY DEF hostSide
  <1>1. /\ \A i \in 1 .. Len(compute') : (i \in 1 .. m /\ compute'[i] = compute[i]) \/ i \in m + 1 .. m + n
        /\ Len(compute') = m + n /\ m \in Nat
        /\ \A i \in 1 .. m : i \in 1 .. Len(compute') /\ compute'[i] = compute[i]
    BY ONLY n \in Nat \ {0}, Extends(compute', compute, n), ExtendsSplit
  <1>2. \A i \in m + 1 .. m + n : compute'[i].op \notin {"wait", "record"}
    BY DEF Changers
  <1>3. Mode'
    <2>1. \A i \in m + 1 .. m + n :
            /\ prefill_overlap => compute'[i].op # "materialize"
            /\ ~prefill_overlap => compute'[i].op \in Changers \cup {"gemm_layer"}
      OBVIOUS
    <2> QED BY <1>0, <1>1, <2>1 DEF Mode
  <1>4. Cursor' /\ Fences' /\ CopyQueue'
    BY <1>0 DEF Cursor, Fences, CopyQueue, Starting, Owned, Pending, IsCopy
  <1>5. Records'
    BY <1>0, <1>1, <1>2 DEF Records, Pending
  <1>6. Adjacent'
    <2>1. ASSUME NEW i \in 1 .. Len(compute') PROVE Neighbours(compute', i)
      <3>1. CASE i \in 1 .. m
        <4>1. Neighbours(compute, i)
          BY <3>1 DEF Adjacent
        <4> QED BY <3>1, <4>1, NeighboursExtend
      <3>2. CASE i \in m + 1 .. m + n
        BY <3>2
      <3> QED BY <1>1, <3>1, <3>2
    <2>2. \A i \in 1 .. Len(compute') : Neighbours(compute, i)'
      BY <1>0, <2>1 DEF Neighbours, GemmLayer, Op
    <2>3. ASSUME Running(compute', "gemm_layer"), prefill_overlap
          PROVE  ~(done'[Ready(BufferOf(Head(compute').layer))] < recorded'[Ready(BufferOf(Head(compute').layer))])
      <3>1. compute' # <<>> /\ Head(compute') = compute'[1] /\ Len(compute') \in Nat \ {0}
        BY <2>3, PopFacts DEF Running, Types
      <3>2. m # 0
        BY <1>1, <2>3, <3>1 DEF Running
      <3>3. compute # <<>> /\ 1 \in 1 .. m
        BY <1>1, <3>2, EmptySeq DEF Types
      <3>4. Head(compute) = compute[1] /\ compute'[1] = compute[1]
        BY <1>1, <3>3, ComputeHead
      <3>5. Running(compute, "gemm_layer") /\ Head(compute') = Head(compute)
        BY <2>3, <3>1, <3>3, <3>4 DEF Running
      <3> QED BY <1>0, <2>3, <3>5 DEF Adjacent, Pending
    <2> QED BY <1>0, <2>2, <2>3 DEF Adjacent, Running, Pending
  <1>7. Order'
    <2>1. \A i \in 1 .. m : ~IsBegin(compute[i])
      BY IdleFacts
    <2>2. \A i \in m + 1 .. m + n : ~IsBegin(compute'[i]) /\ (prefill_overlap => IsPass(compute'[i]))
      BY <1>2 DEF IsBegin, IsPass
    <2>3. \A i \in 1 .. Len(compute') : ~IsBegin(compute'[i])
      BY <1>1, <2>1, <2>2
    <2>4. ASSUME prefill_overlap, NEW i \in 1 .. Len(compute'), NEW j \in 1 .. Len(compute'), i < j, IsPass(compute'[i])
          PROVE  IsPass(compute'[j])
      <3>1. CASE j \in m + 1 .. m + n
        BY <2>2, <2>4, <3>1
      <3>2. CASE j \in 1 .. m /\ compute'[j] = compute[j]
        <4>1. i \in 1 .. m /\ compute'[i] = compute[i]
          BY <1>1, <2>4, <3>2
        <4> QED BY <2>4, <3>2, <4>1 DEF Order
      <3> QED BY <1>1, <3>1, <3>2
    <2>5. (\A i \in 1 .. Len(compute) : ~IsBegin(compute[i]))' /\ host'.at = "idle"
      BY <1>0, <2>3 DEF IsBegin
    <2>6. (prefill_overlap =>
            \A i, j \in 1 .. Len(compute) : i < j /\ IsPass(compute[i]) => IsPass(compute[j]))'
      BY <1>0, <2>4 DEF IsPass, IsBegin
    <2> QED BY <2>5, <2>6 DEF Order
  <1> QED BY <1>3, <1>4, <1>5, <1>6, <1>7

\* The types of a step that only adds to the compute queue.
LEMMA EnqueueTypes ==
  ASSUME Types, UNCHANGED <<sizeVars, deviceVars, copy, recorded, bufferVars, snapshot, hit_d2d_active, host>>,
         compute' \in Seq(ComputeOps)
  PROVE  Types' /\ UNCHANGED <<copy, done, hostSide>>
  <1>1. UNCHANGED <<cache_size, prefill_overlap, slot_for_id, id_of_slot, usage, step, expert_recency, staged, topk,
                    data, hits, done, copy, recorded, buffer_layer, released, has_release, snapshot, hit_d2d_active,
                    host>>
    BY DEF sizeVars, deviceVars, mapVars, bufferVars
  <1> QED BY <1>1 DEF Types, Slots, hostSide

LEMMA PassNeighbours ==
  ASSUME SizesAssumption, Types, NEW a \in Changers, NEW c \in {"gemm", "gemm_layer"},
         \/ a = "ensure" /\ c = "gemm"
         \/ a = "materialize" /\ c = "gemm_layer" /\ ~prefill_overlap,
         NEW m \in Nat, NEW q, Len(q) = m + 3 * NumLayers,
         \A l \in Layers : /\ q[m + 3 * l + 1] = Op(a, l) /\ q[m + 3 * l + 2] = Op("copy_missing", l)
                           /\ q[m + 3 * l + 3] = Op(c, l),
         NEW i, NEW l \in Layers, i \in {m + 3 * l + 1, m + 3 * l + 2, m + 3 * l + 3}
  PROVE  Neighbours(q, i) /\ q[i].op \in {a, "copy_missing", c} /\ i \in m + 1 .. m + 3 * NumLayers
  <1> DEFINE x == m + 3 * l + 1
             y == m + 3 * l + 2
             z == m + 3 * l + 3
  <1>1. q[x] = Op(a, l) /\ q[y] = Op("copy_missing", l) /\ q[z] = Op(c, l)
    OBVIOUS
  <1>2. l \in Nat /\ l < NumLayers /\ NumLayers \in Nat
    BY LayerFacts
  <1>3. x + 1 = y /\ x + 2 = z /\ y + 1 = z /\ y - 1 = x /\ z - 1 = y /\ x \in Nat /\ z <= Len(q)
        /\ x + 2 <= Len(q) /\ y + 1 <= Len(q) /\ {x, y, z} \subseteq m + 1 .. m + 3 * NumLayers
    BY <1>2
  <1> HIDE DEF x, y, z
  <1>4. CASE i = x
    <2>1. q[i].op = a /\ q[i].layer = l
      BY <1>1, <1>4 DEF Op
    <2> QED BY <1>1, <1>3, <1>4, <2>1 DEF Neighbours, GemmLayer, Changers
  <1>5. CASE i = y
    <2>1. q[i].op = "copy_missing" /\ q[i].layer = l
      BY <1>1, <1>5 DEF Op
    <2> QED BY <1>1, <1>3, <1>5, <2>1 DEF Neighbours, GemmLayer, Changers
  <1>6. CASE i = z
    <2>1. q[i].op = c /\ q[i].layer = l
      BY <1>1, <1>6 DEF Op
    <2> QED BY <1>1, <1>3, <1>6, <2>1 DEF Neighbours, GemmLayer, Changers
  <1> QED BY <1>4, <1>5, <1>6 DEF x, y, z

LEMMA DecodeStreams ==
  ASSUME SizesAssumption, Types, StreamRest, DecodePass
  PROVE  Types' /\ StreamRest'
  <1> DEFINE m == Len(compute)
             n == 3 * NumLayers
  <1>1. compute' = compute \o PassOver(<<"ensure", "copy_missing", "gemm">>, 3) /\ host.at = "idle"
        /\ UNCHANGED <<sizeVars, deviceVars, copy, recorded, bufferVars, snapshot, hit_d2d_active, host>>
    BY DEF DecodePass, NewPass
  <1>2. /\ compute' \in Seq(ComputeOps) /\ m \in Nat
        /\ Len(compute') = m + n /\ n \in Nat \ {0}
        /\ \A i \in 1 .. m : compute'[i] = compute[i]
        /\ \A l \in Layers : LET k == m + 3 * l IN
             compute'[k + 1] = Op("ensure", l) /\ compute'[k + 2] = Op("copy_missing", l) /\ compute'[k + 3] = Op("gemm", l)
        /\ \A i \in 1 .. Len(compute') : i \notin 1 .. m =>
             \E l \in Layers : i \in {m + 3 * l + 1, m + 3 * l + 2, m + 3 * l + 3}
    BY <1>1, PassEnqueued DEF Changers
  <1>3. Types' /\ UNCHANGED <<copy, done, hostSide>>
    BY <1>1, <1>2, EnqueueTypes
  <1>4. Extends(compute', compute, n)
    BY <1>2 DEF Extends
  <1>5. ASSUME NEW i \in m + 1 .. m + n
        PROVE  Neighbours(compute', i) /\ compute'[i].op \in {"ensure", "copy_missing", "gemm"}
    <2>1. i \in 1 .. Len(compute') /\ i \notin 1 .. m
      BY <1>2
    <2>2. PICK l \in Layers : i \in {m + 3 * l + 1, m + 3 * l + 2, m + 3 * l + 3}
      BY <1>2, <2>1
    <2>3. "ensure" \in Changers
      BY DEF Changers
    <2> QED BY ONLY <1>2, <2>2, <2>3, SizesAssumption, Types, PassNeighbours
  <1>6. m + 1 \in m + 1 .. m + n
    BY <1>2
  <1> HIDE DEF n
  <1>7. \A i \in m + 1 .. m + n : /\ Neighbours(compute', i)
           /\ compute'[i].op \in IF prefill_overlap THEN Changers \ {"materialize"} ELSE Changers \cup {"gemm_layer"}
    BY <1>5 DEF Changers
  <1>8. compute'[m + 1].op # "gemm_layer"
    BY <1>5, <1>6
  <1> QED BY <1>1, <1>2, <1>3, <1>4, <1>7, <1>8, PassStreams DEF StreamRest

LEMMA MaterializePassStreams ==
  ASSUME SizesAssumption, Types, StreamRest, MaterializePass
  PROVE  Types' /\ StreamRest'
  <1> DEFINE m == Len(compute)
             n == 3 * NumLayers
  <1>1. compute' = compute \o PassOver(<<"materialize", "copy_missing", "gemm_layer">>, 3) /\ host.at = "idle"
        /\ UNCHANGED <<sizeVars, deviceVars, copy, recorded, bufferVars, snapshot, hit_d2d_active, host>>
        /\ ~prefill_overlap
    BY DEF MaterializePass, NewPass
  <1>2. /\ compute' \in Seq(ComputeOps) /\ m \in Nat
        /\ Len(compute') = m + n /\ n \in Nat \ {0}
        /\ \A i \in 1 .. m : compute'[i] = compute[i]
        /\ \A l \in Layers : LET k == m + 3 * l IN
             /\ compute'[k + 1] = Op("materialize", l) /\ compute'[k + 2] = Op("copy_missing", l)
             /\ compute'[k + 3] = Op("gemm_layer", l)
        /\ \A i \in 1 .. Len(compute') : i \notin 1 .. m =>
             \E l \in Layers : i \in {m + 3 * l + 1, m + 3 * l + 2, m + 3 * l + 3}
    BY <1>1, PassEnqueued DEF Changers
  <1>3. Types' /\ UNCHANGED <<copy, done, hostSide>>
    BY <1>1, <1>2, EnqueueTypes
  <1>4. Extends(compute', compute, n)
    BY <1>2 DEF Extends
  <1>5. ASSUME NEW i \in m + 1 .. m + n
        PROVE  Neighbours(compute', i) /\ compute'[i].op \in {"materialize", "copy_missing", "gemm_layer"}
    <2>1. i \in 1 .. Len(compute') /\ i \notin 1 .. m
      BY <1>2
    <2>2. PICK l \in Layers : i \in {m + 3 * l + 1, m + 3 * l + 2, m + 3 * l + 3}
      BY <1>2, <2>1
    <2>3. "materialize" \in Changers /\ ~prefill_overlap
      BY <1>1 DEF Changers
    <2> QED BY ONLY <1>2, <2>2, <2>3, SizesAssumption, Types, PassNeighbours
  <1>6. compute'[m + 1].op # "gemm_layer"
    <2>1. 0 \in Layers /\ m + 3 * 0 + 1 = m + 1
      BY <1>2, LayerFacts
    <2>2. compute'[m + 3 * 0 + 1] = Op("materialize", 0)
      BY ONLY <1>2, <2>1
    <2> QED BY <2>1, <2>2 DEF Op
  <1> HIDE DEF n
  <1>7. \A i \in m + 1 .. m + n : /\ Neighbours(compute', i)
           /\ compute'[i].op \in IF prefill_overlap THEN Changers \ {"materialize"} ELSE Changers \cup {"gemm_layer"}
    BY <1>1, <1>5 DEF Changers
  <1> QED BY <1>1, <1>2, <1>3, <1>4, <1>6, <1>7, PassStreams DEF StreamRest

LEMMA ResetStreams ==
  ASSUME SizesAssumption, Types, StreamRest, Reset
  PROVE  Types' /\ StreamRest'
  <1> DEFINE m == Len(compute)
             x == Op("reset", 0)
  <1>1. compute' = Append(compute, x) /\ host.at = "idle"
        /\ UNCHANGED <<sizeVars, deviceVars, copy, recorded, bufferVars, snapshot, hit_d2d_active, host>>
    BY DEF Reset
  <1>2. x \in ComputeOps /\ x.op = "reset" /\ compute \in Seq(ComputeOps)
    BY NewOps, LayerFacts DEF Changers, Op, Types
  <1> HIDE DEF x
  <1>3. /\ compute' \in Seq(ComputeOps) /\ Len(compute') = m + 1 /\ m \in Nat
        /\ \A i \in 1 .. m : compute'[i] = compute[i]
        /\ compute'[m + 1] = x
    BY ONLY <1>1, <1>2, AppendFacts
  <1>4. Types' /\ UNCHANGED <<copy, done, hostSide>>
    BY <1>1, <1>3, EnqueueTypes
  <1>5. Extends(compute', compute, 1)
    BY <1>3 DEF Extends
  <1>6. \A i \in m + 1 .. m + 1 : i = m + 1
    BY <1>3
  <1>7. Neighbours(compute', m + 1)
    BY <1>2, <1>3 DEF Neighbours
  <1>8. compute'[m + 1].op = "reset" /\ 1 \in Nat \ {0}
    BY <1>2, <1>3
  <1>9. \A i \in m + 1 .. m + 1 : /\ Neighbours(compute', i)
           /\ compute'[i].op \in IF prefill_overlap THEN Changers \ {"materialize"} ELSE Changers \cup {"gemm_layer"}
    BY <1>6, <1>7, <1>8 DEF Changers
  <1> QED BY <1>1, <1>4, <1>5, <1>8, <1>9, PassStreams DEF StreamRest

-----------------------------------------------------------------------------
(* The streams: the host inside a chunk. *)

\* What is enqueued keeps what stood together together.
LEMMA AdjacentExtends ==
  ASSUME SizesAssumption, Types, Types', Adjacent, prefill_overlap' = prefill_overlap,
         \A b \in {0, 1} : done'[Ready(b)] < recorded'[Ready(b)] =>
           Pending(Ready(b)) \/ ~(Running(compute, "gemm_layer") /\ BufferOf(Head(compute).layer) = b),
         NEW n \in Nat, Extends(compute', compute, n),
         \A i \in Len(compute) + 1 .. Len(compute) + n : Neighbours(compute', i),
         n > 0 => compute'[Len(compute) + 1].op # "gemm_layer"
  PROVE  Adjacent'
  <1> DEFINE m == Len(compute)
  <1>1. /\ \A i \in 1 .. Len(compute') : (i \in 1 .. m /\ compute'[i] = compute[i]) \/ i \in m + 1 .. m + n
        /\ Len(compute') = m + n /\ m \in Nat
        /\ \A i \in 1 .. m : i \in 1 .. Len(compute') /\ compute'[i] = compute[i]
    BY ONLY n \in Nat, Extends(compute', compute, n), ExtendsSplit
  <1>2. ASSUME NEW i \in 1 .. Len(compute') PROVE Neighbours(compute', i)
    <2>1. CASE i \in 1 .. m
      <3>1. Neighbours(compute, i)
        BY <2>1 DEF Adjacent
      <3> QED BY <2>1, <3>1, NeighboursExtend
    <2>2. CASE i \in m + 1 .. m + n
      BY <2>2
    <2> QED BY <1>1, <2>1, <2>2
  <1>3. \A i \in 1 .. Len(compute') : Neighbours(compute, i)'
    BY <1>2 DEF Neighbours, GemmLayer, Op
  <1>4. ASSUME Running(compute', "gemm_layer"), prefill_overlap
        PROVE  ~(done'[Ready(BufferOf(Head(compute').layer))] < recorded'[Ready(BufferOf(Head(compute').layer))])
    <2>1. compute' # <<>> /\ Head(compute') = compute'[1] /\ Len(compute') \in Nat \ {0}
      BY <1>4, PopFacts DEF Running, Types
    <2>2. m # 0
      BY <1>1, <1>4, <2>1 DEF Running
    <2>3. compute # <<>> /\ 1 \in 1 .. m
      BY <1>1, <2>2, EmptySeq DEF Types
    <2>4. Head(compute) = compute[1] /\ compute'[1] = compute[1]
      BY <1>1, <2>3, ComputeHead
    <2>5. Running(compute, "gemm_layer") /\ Head(compute') = Head(compute)
      BY <1>4, <2>1, <2>3, <2>4 DEF Running
    <2>6. BufferOf(Head(compute).layer) \in {0, 1}
      <3>1. Head(compute).layer \in Layers
        BY <2>3, <2>5, ComputeHead, OpKinds DEF Running
      <3> QED BY <3>1, LayerFacts
    <2> QED BY <1>4, <2>5, <2>6 DEF Adjacent
  <1> QED BY <1>3, <1>4 DEF Adjacent, Running, Pending

LEMMA BeginStreams ==
  ASSUME SizesAssumption, Types, StreamRest, BeginPrefill
  PROVE  Types' /\ StreamRest'
  <1> DEFINE m == Len(compute)
             k == Len(copy)
             n == recorded[Begin] + 1
             split == HitD2d /\ cache_size > 2 * NumExperts
             c == IF split THEN 2 ELSE 1
  <1>1. /\ n \in Nat
        /\ compute' \in Seq(ComputeOps) /\ Extends(compute', compute, 1) /\ compute'[m + 1] = RecordOp(Begin, n)
        /\ copy' \in Seq(CopyOps) /\ Extends(copy', copy, c) /\ copy'[k + 1] = WaitOp(Begin, n)
        /\ split => copy'[k + 2] = Op("snapshot", 0)
    BY BeginEnqueues
  <1>2. /\ UNCHANGED <<cache_size, prefill_overlap, slot_for_id, id_of_slot, usage, step, expert_recency, staged,
                       topk, data, hits, done, has_release, snapshot>>
        /\ prefill_overlap /\ host.at = "idle"
        /\ recorded' = [recorded EXCEPT ![Begin] = n] /\ hit_d2d_active' = split
        /\ host' = [at |-> IF split THEN "snapshot" ELSE "prefetch", layer |-> 0, target |-> 0]
        /\ buffer_layer' = [b \in {0, 1} |-> None] /\ released' = [b \in {0, 1} |-> TRUE]
    BY DEF BeginPrefill, NewPass, Idle, sizeVars, deviceVars, mapVars
  <1>3. split \in BOOLEAN
    OBVIOUS
  <1>4. 0 \in Layers
    BY LayerFacts
  <1>5. recorded \in [Events -> Nat] /\ done \in [Events -> Nat] /\ Begin \in Events
    BY EventsDiffer DEF Types
  <1> HIDE DEF split
  <1>6. Types'
    BY <1>1, <1>2, <1>3, <1>4, <1>5 DEF Types, Slots
  <1>7. /\ ~Pending(Begin) /\ \A i \in 1 .. m : ~IsBegin(compute[i])
        /\ \A p \in 1 .. k : copy[p].op \notin {"wait", "snapshot", "invalidate"}
    BY <1>2, IdleFacts DEF StreamRest
  <1>8. /\ \A i \in 1 .. Len(compute') : (i \in 1 .. m /\ compute'[i] = compute[i]) \/ i \in m + 1 .. m + 1
        /\ Len(compute') = m + 1 /\ m \in Nat
    BY ONLY <1>1, ExtendsSplit, 1 \in Nat
  <1>9. c \in Nat
    OBVIOUS
  <1>10. /\ \A p \in 1 .. Len(copy') : (p \in 1 .. k /\ copy'[p] = copy[p]) \/ p \in k + 1 .. k + c
         /\ \A p \in 1 .. k : p \in 1 .. Len(copy') /\ copy'[p] = copy[p]
         /\ Len(copy') = k + c /\ k \in Nat
    BY ONLY <1>1, <1>9, ExtendsSplit
  <1>11. \A i \in 1 .. Len(compute') : (i \in 1 .. m /\ compute'[i] = compute[i]) \/ i = m + 1
    BY <1>8
  <1>12. \A p \in 1 .. Len(copy') : (p \in 1 .. k /\ copy'[p] = copy[p]) \/ p = k + 1 \/ (split /\ p = k + 2)
    <2>1. (split /\ c = 2) \/ (~split /\ c = 1)
      OBVIOUS
    <2>2. k \in Nat
      BY <1>10
    <2> HIDE DEF c, k
    <2>3. \A p \in k + 1 .. k + c : p = k + 1 \/ (split /\ p = k + 2)
      BY ONLY <2>1, <2>2
    <2> QED BY ONLY <1>10, <2>3
  <1>13. /\ compute'[m + 1].op = "record" /\ compute'[m + 1].ev = Begin /\ compute'[m + 1].n = n
         /\ copy'[k + 1].op = "wait" /\ copy'[k + 1].ev = Begin /\ copy'[k + 1].n = n
         /\ split => copy'[k + 2].op = "snapshot"
    BY <1>1 DEF RecordOp, WaitOp, Op
  <1>14. \A ev \in Events : recorded'[ev] = IF ev = Begin THEN n ELSE recorded[ev]
    BY <1>2, <1>5
  <1>15. done[Begin] <= recorded[Begin] /\ done[Begin] < n
    <2>1. done[Begin] <= recorded[Begin]
      BY <1>5 DEF StreamRest, Records
    <2> QED BY <1>5, <2>1
  <1>16. Mode'
    BY <1>2, <1>11, <1>13 DEF StreamRest, Mode
  <1>17. Starting'
    BY <1>2 DEF Starting
  <1>18. Cursor'
    <2>1. \A b \in {0, 1} : buffer_layer'[b] = None /\ released'[b]
      BY <1>2
    <2>2. BufferOf(0) \in {0, 1}
      BY <1>4, LayerFacts
    <2> QED BY <1>2, <1>17, <2>1, <2>2 DEF Cursor
  <1>19. Records'
    <2>1. \A ev \in Events : done'[ev] <= recorded'[ev]
      BY <1>2, <1>5, <1>14, <1>15 DEF StreamRest, Records
    <2>2. ASSUME NEW i \in 1 .. Len(compute')
          PROVE  /\ compute'[i].op = "wait" => compute'[i].n = recorded'[compute'[i].ev]
                 /\ compute'[i].op = "record" => /\ compute'[i].n = recorded'[compute'[i].ev]
                                                 /\ done'[compute'[i].ev] < recorded'[compute'[i].ev]
      <3>1. CASE i = m + 1
        BY <1>2, <1>5, <1>13, <1>14, <1>15, <3>1
      <3>2. CASE i \in 1 .. m /\ compute'[i] = compute[i]
        <4>1. compute[i].op \in {"wait", "record"} => compute[i].ev \in Events
          BY <3>2, QueueEvents
        <4>2. compute[i].op = "wait" => compute[i].ev \in {Ready(b) : b \in {0, 1}}
          BY <3>2, QueueEvents
        <4>3. compute[i].op \in {"wait", "record"} => compute[i].ev # Begin
          BY <1>7, <3>2, <4>2, EventsDiffer DEF IsBegin
        <4> QED BY <1>2, <1>14, <3>2, <4>1, <4>3 DEF StreamRest, Records, Pending
      <3> QED BY <1>11, <3>1, <3>2
    <2>3. ASSUME NEW i \in 1 .. Len(compute'), NEW j \in 1 .. Len(compute'),
                 compute'[i].op = "record", compute'[j].op = "record", compute'[i].ev = compute'[j].ev
          PROVE  i = j
      <3>1. \A x \in 1 .. m : ~(compute[x].op = "record" /\ compute[x].ev = Begin)
        BY <1>7 DEF IsBegin
      <3>2. \A x, y \in 1 .. m :
              compute[x].op = "record" /\ compute[y].op = "record" /\ compute[x].ev = compute[y].ev => x = y
        BY DEF StreamRest, Records
      <3> QED BY <1>11, <1>13, <2>3, <3>1, <3>2
    <2>4. ASSUME NEW p \in 1 .. Len(copy')
          PROVE  /\ copy'[p].op = "wait" => copy'[p].n = recorded'[copy'[p].ev]
                 /\ copy'[p].op = "record" => /\ copy'[p].n = recorded'[copy'[p].ev]
                                              /\ done'[copy'[p].ev] < recorded'[copy'[p].ev]
      <3>1. CASE p = k + 1 \/ (split /\ p = k + 2)
        BY <1>5, <1>13, <1>14, <3>1
      <3>2. CASE p \in 1 .. k /\ copy'[p] = copy[p]
        <4>1. copy[p].op = "record" => copy[p].ev \in {Ready(b) : b \in {0, 1}} /\ copy[p].ev \in Events
          BY <3>2, QueueEvents
        <4>2. copy[p].op = "record" => copy[p].ev # Begin
          BY <4>1, EventsDiffer
        <4> QED BY <1>2, <1>7, <1>14, <3>2, <4>1, <4>2 DEF StreamRest, Records, Pending
      <3> QED BY <1>12, <3>1, <3>2
    <2>5. \A b \in {0, 1} : has_release'[b] \/ ~(done'[Release(b)] < recorded'[Release(b)])
      BY <1>2, <1>14, EventsDiffer DEF StreamRest, Records, Pending
    <2> QED BY <2>1, <2>2, <2>3, <2>4, <2>5 DEF Records, Pending
  <1>20. Fences'
    <2>1. k + 1 \in 1 .. Len(copy') /\ copy'[k + 1] = WaitOp(Begin, recorded'[Begin])
      BY <1>1, <1>5, <1>10, <1>14
    <2>2. (Pending(Begin) => /\ Starting /\ (hit_d2d_active => host.at = "snapshot")
                             /\ \E p \in 1 .. Len(copy) : copy[p] = WaitOp(Begin, recorded[Begin]))'
      BY <1>2, <1>17, <2>1 DEF WaitOp
    <2>3. host'.at # "invalidate"
      BY <1>2
    <2>4. \A l \in Layers : ~Owned(l)'
      <3>1. \A l \in Layers : l # None /\ BufferOf(l) \in {0, 1}
        BY LayerFacts DEF None
      <3> QED BY <1>2, <3>1 DEF Owned
    <2> QED BY <2>2, <2>3, <2>4 DEF Fences
  <1>21. CopyQueue'
    <2>1. ASSUME NEW p \in 1 .. Len(copy')
          PROVE  LET o == copy'[p] IN
                 /\ IsCopy(o) => /\ p = 1 /\ Len(copy') >= 2 /\ o.buffer = BufferOf(o.layer)
                                 /\ copy'[2].op = "record" /\ copy'[2].ev = Ready(o.buffer)
                 /\ o.op = "record" => p \in {1, 2} /\ (p = 2 => IsCopy(copy'[1]))
                 /\ o.op \in {"snapshot", "invalidate"} => p = Len(copy') /\ host'.at = o.op
                 /\ o.op # "invalidate"
      <3>1. CASE p = k + 1
        BY <1>13, <3>1 DEF IsCopy
      <3>2. CASE split /\ p = k + 2
        BY <1>2, <1>10, <1>13, <3>2 DEF IsCopy
      <3>3. CASE p \in 1 .. k /\ copy'[p] = copy[p]
        <4>1. IsCopy(copy[p]) => /\ p = 1 /\ k >= 2 /\ copy[p].buffer = BufferOf(copy[p].layer)
                                 /\ copy[2].op = "record" /\ copy[2].ev = Ready(copy[p].buffer)
          BY <3>3 DEF StreamRest, CopyQueue
        <4>2. copy[p].op = "record" => p \in {1, 2} /\ (p = 2 => IsCopy(copy[1]))
          BY <3>3 DEF StreamRest, CopyQueue
        <4>3. k >= 2 => copy'[2] = copy[2] /\ Len(copy') >= 2
          BY <1>10
        <4>4. copy'[1] = copy[1]
          BY <1>10, <3>3
        <4> QED BY <1>7, <3>3, <4>1, <4>2, <4>3, <4>4
      <3> QED BY <1>12, <3>1, <3>2, <3>3
    <2>2. host'.at \in {"snapshot", "invalidate"} => copy'[Len(copy')].op = host'.at
      BY <1>2, <1>10, <1>13
    <2> QED BY <1>17, <2>1, <2>2 DEF CopyQueue, IsCopy
  <1>22. Adjacent'
    <2>1. \A i \in m + 1 .. m + 1 : Neighbours(compute', i)
      BY <1>8, <1>13 DEF Neighbours
    <2>2. \A b \in {0, 1} : done'[Ready(b)] < recorded'[Ready(b)] => Pending(Ready(b))
      BY <1>2, <1>14, EventsDiffer DEF Pending
    <2> QED BY <1>1, <1>2, <1>6, <1>13, <2>1, <2>2, AdjacentExtends DEF StreamRest
  <1>23. Order'
    <2>1. IsBegin(compute'[m + 1]) /\ IsPass(compute'[m + 1])
      BY <1>13 DEF IsBegin, IsPass
    <2>2. done'[Begin] < recorded'[Begin]
      BY <1>2, <1>5, <1>14, <1>15
    <2>3. ASSUME NEW i \in 1 .. Len(compute'), NEW j \in 1 .. Len(compute'), i < j, IsPass(compute'[i])
          PROVE  IsPass(compute'[j])
      <3>1. CASE j = m + 1
        BY <2>1, <3>1
      <3>2. CASE j \in 1 .. m /\ compute'[j] = compute[j]
        <4>1. i \in 1 .. m /\ compute'[i] = compute[i]
          BY <1>11, <1>8, <2>3, <3>2
        <4> QED BY <1>2, <2>3, <3>2, <4>1 DEF StreamRest, Order
      <3> QED BY <1>11, <3>1, <3>2
    <2>4. \A i \in 1 .. Len(compute') : IsBegin(compute'[i]) => i = Len(compute')
      BY <1>7, <1>8, <1>11
    <2> QED BY <2>2, <2>3, <2>4 DEF Order, IsPass, IsBegin, Pending
  <1> QED BY <1>6, <1>16, <1>18, <1>19, <1>20, <1>21, <1>22, <1>23 DEF StreamRest

\* The types of a step that only moves the host.
LEMMA HostTypes ==
  ASSUME Types, UNCHANGED <<sizeVars, deviceVars, recorded, bufferVars, snapshot, hit_d2d_active>>,
         compute' \in Seq(ComputeOps), copy' \in Seq(CopyOps),
         host' \in [at : {"idle", "snapshot", "prefetch", "invalidate", "forward"}, layer : Layers, target : Nat]
  PROVE  /\ Types'
         /\ UNCHANGED <<cache_size, prefill_overlap, recorded, done, buffer_layer, released, has_release,
                        hit_d2d_active>>
  <1>1. UNCHANGED <<cache_size, prefill_overlap, slot_for_id, id_of_slot, usage, step, expert_recency, staged, topk,
                    data, hits, done, recorded, buffer_layer, released, has_release, snapshot, hit_d2d_active>>
    BY DEF sizeVars, deviceVars, mapVars, bufferVars
  <1> QED BY <1>1 DEF Types, Slots

LEMMA SyncStreams ==
  ASSUME SizesAssumption, Types, StreamRest, SnapshotSynced
  PROVE  Types' /\ StreamRest'
  <1>1. /\ host.at = "snapshot" /\ copy = <<>> /\ host' = [host EXCEPT !.at = "prefetch"]
        /\ UNCHANGED <<sizeVars, deviceVars, compute, copy, recorded, bufferVars, snapshot, hit_d2d_active>>
    BY DEF SnapshotSynced
  <1>2. /\ host \in [at : {"idle", "snapshot", "prefetch", "invalidate", "forward"}, layer : Layers, target : Nat]
        /\ compute \in Seq(ComputeOps) /\ copy \in Seq(CopyOps)
    BY DEF Types
  <1>3. host.layer = 0 /\ host.target = 0 /\ Starting
    BY <1>1 DEF StreamRest, Cursor, Starting
  <1>4. /\ host'.at = "prefetch" /\ host'.layer = 0 /\ host'.target = 0
        /\ host' \in [at : {"idle", "snapshot", "prefetch", "invalidate", "forward"}, layer : Layers, target : Nat]
    BY <1>1, <1>2, <1>3
  <1>5. /\ Types'
        /\ UNCHANGED <<cache_size, prefill_overlap, recorded, done, buffer_layer, released, has_release,
                        hit_d2d_active, compute, copy>>
    BY <1>1, <1>2, <1>4, HostTypes
  <1>6. prefill_overlap /\ Mode'
    BY <1>1, <1>5 DEF StreamRest, Mode
  <1>7. Starting'
    BY <1>4 DEF Starting
  <1>8. Cursor'
    BY <1>1, <1>3, <1>4, <1>5, <1>7 DEF StreamRest, Cursor
  <1>9. Records'
    BY <1>5 DEF StreamRest, Records, Pending
  <1>10. ~Pending(Begin)
    <2>1. Len(copy) = 0
      BY <1>1
    <2> QED BY <2>1 DEF StreamRest, Fences
  <1>11. Fences'
    <2>1. \A l \in Layers : l # None /\ BufferOf(l) \in {0, 1}
      BY LayerFacts DEF None
    <2>2. \A b \in {0, 1} : buffer_layer[b] = None
      BY <1>3 DEF StreamRest, Cursor
    <2> QED BY <1>4, <1>5, <1>10, <2>1, <2>2 DEF Fences, Pending, Owned
  <1>12. CopyQueue'
    BY <1>1, <1>4, <1>5 DEF CopyQueue
  <1>13. Adjacent'
    BY <1>5 DEF StreamRest, Adjacent, Neighbours, Running, Pending
  <1>14. Order'
    BY <1>1, <1>3, <1>4, <1>5 DEF StreamRest, Order, IsPass, IsBegin, Pending
  <1> QED BY <1>5, <1>6, <1>8, <1>9, <1>11, <1>12, <1>13, <1>14 DEF StreamRest

\* The second layer of the chunk is already there, or there is none left.
LEMMA SkipStreams ==
  ASSUME SizesAssumption, Types, StreamRest, PrefetchSkips
  PROVE  Types' /\ StreamRest'
  <1> DEFINE l == host.layer
             t == host.target
  <1>1. /\ host.at = "prefetch" /\ (t >= NumLayers \/ buffer_layer[BufferOf(t)] = t)
        /\ host' = AfterPrefetch(host)
        /\ UNCHANGED <<sizeVars, deviceVars, compute, copy, recorded, bufferVars, snapshot, hit_d2d_active>>
    BY DEF PrefetchSkips
  <1>2. /\ host \in [at : {"idle", "snapshot", "prefetch", "invalidate", "forward"}, layer : Layers, target : Nat]
        /\ compute \in Seq(ComputeOps) /\ copy \in Seq(CopyOps)
    BY DEF Types
  <1>3. l \in Nat /\ l < NumLayers /\ t \in Nat /\ BufferOf(t) \in {0, 1} /\ NumLayers \in Nat \ {0}
    BY HostFacts, LayerFacts
  <1>4. ~Starting
    <2> SUFFICES ASSUME Starting PROVE FALSE
      OBVIOUS
    <2>1. t = 0 /\ buffer_layer[BufferOf(t)] = None
      BY <1>1, <1>3 DEF StreamRest, Cursor, Starting
    <2> QED BY <1>1, <1>3, <2>1 DEF None
  <1>5. t \in {l, l + 1} /\ buffer_layer[BufferOf(l)] = l /\ buffer_layer[BufferOf(l + 1)] = l - 1
    BY <1>1, <1>4 DEF StreamRest, Cursor
  <1>6. \/ t = l /\ host'.at = "prefetch" /\ host'.target = l + 1
        \/ t = l + 1 /\ host'.at = "forward" /\ host'.target = t /\ ~(l + 1 < NumLayers)
    BY <1>1, <1>2, <1>3, <1>5 DEF AfterPrefetch
  <1>7. /\ host'.layer = l
        /\ host' \in [at : {"idle", "snapshot", "prefetch", "invalidate", "forward"}, layer : Layers, target : Nat]
    <2>1. CASE t = l
      <3>1. host' = [host EXCEPT !.at = "prefetch", !.target = l + 1] /\ l + 1 \in Nat
        BY <1>1, <1>3, <2>1 DEF AfterPrefetch
      <3> QED BY <1>2, <3>1
    <2>2. CASE t # l
      <3>1. host' = [host EXCEPT !.at = "forward"]
        BY <1>1, <2>2 DEF AfterPrefetch
      <3> QED BY <1>2, <3>1
    <2> QED BY <2>1, <2>2
  <1>8. /\ Types'
        /\ UNCHANGED <<cache_size, prefill_overlap, recorded, done, buffer_layer, released, has_release,
                        hit_d2d_active, compute, copy>>
    BY <1>1, <1>2, <1>7, HostTypes
  <1>9. prefill_overlap /\ Mode'
    BY <1>1, <1>8 DEF StreamRest, Mode
  <1>10. ~Starting'
    BY <1>3, <1>4, <1>6, <1>7 DEF Starting
  <1>11. Cursor'
    <2>1. \A b \in {0, 1} : buffer_layer[b] < l => released[b]
      BY <1>1 DEF StreamRest, Cursor
    <2>2. /\ host'.at # "snapshot" /\ host'.at # "invalidate"
          /\ host'.at = "prefetch" => host'.target = l + 1
          /\ host'.at = "forward" => ~(l + 1 < NumLayers)
      BY <1>6
    <2> QED BY <1>5, <1>7, <1>8, <1>10, <2>1, <2>2 DEF Cursor
  <1>12. Records'
    BY <1>8 DEF StreamRest, Records, Pending
  <1>13. ~Pending(Begin) /\ host'.at \in {"prefetch", "forward"}
    BY <1>4, <1>6 DEF StreamRest, Fences
  <1>14. Fences'
    <2>1. \A x \in Layers : Owned(x)' <=> Owned(x)
      BY <1>1, <1>7, <1>8, <1>13 DEF Owned
    <2>2. \A x \in Layers : Owned(x) => ~Pending(Release(BufferOf(x)))
      BY DEF StreamRest, Fences
    <2> QED BY <1>8, <1>13, <2>1, <2>2 DEF Fences, Pending
  <1>15. CopyQueue'
    <2>1. \A p \in 1 .. Len(copy) : copy[p].op \notin {"wait", "snapshot", "invalidate"}
      BY <1>1, <1>4 DEF StreamRest, CopyQueue
    <2> QED BY <1>8, <1>13, <2>1 DEF StreamRest, CopyQueue, IsCopy
  <1>16. Adjacent'
    BY <1>8 DEF StreamRest, Adjacent, Neighbours, Running, Pending
  <1>17. Order'
    BY <1>1, <1>7, <1>8, <1>13 DEF StreamRest, Order, IsPass, IsBegin, Pending
  <1> QED BY <1>8, <1>9, <1>11, <1>12, <1>14, <1>15, <1>16, <1>17 DEF StreamRest

\* The host takes a buffer: the hits are compacted, the buffer is about to be disowned.
LEMMA TakeStreams ==
  ASSUME SizesAssumption, Types, StreamRest, PrefetchTakes
  PROVE  Types' /\ StreamRest'
  <1> DEFINE l == host.layer
             t == host.target
             b == BufferOf(t)
             m == Len(compute)
             k == Len(copy)
             n == IF hit_d2d_active THEN 2 ELSE 0
             c == IF has_release[b] THEN 2 ELSE 1
  <1>1. /\ host.at = "prefetch" /\ t < NumLayers /\ buffer_layer[b] # t
        /\ host' = [host EXCEPT !.at = "invalidate"]
        /\ Extends(compute', compute, n)
        /\ hit_d2d_active => compute'[m + 1] = Op("compact", t) /\ compute'[m + 2] = Op("gather", t)
        /\ ~hit_d2d_active => compute' = compute
        /\ Extends(copy', copy, c)
        /\ has_release[b] => /\ copy'[k + 1] = WaitOp(Release(b), recorded[Release(b)])
                             /\ copy'[k + 2] = Op("invalidate", t)
        /\ ~has_release[b] => copy'[k + 1] = Op("invalidate", t)
        /\ compute' \in Seq(ComputeOps) /\ copy' \in Seq(CopyOps)
        /\ UNCHANGED <<sizeVars, deviceVars, recorded, bufferVars, snapshot, hit_d2d_active>>
    BY DEF PrefetchTakes
  <1>2. host \in [at : {"idle", "snapshot", "prefetch", "invalidate", "forward"}, layer : Layers, target : Nat]
    BY DEF Types
  <1>3. l \in Nat /\ l < NumLayers /\ t \in Nat /\ b \in {0, 1} /\ NumLayers \in Nat \ {0}
    BY HostFacts, LayerFacts
  <1>4. /\ host'.at = "invalidate" /\ host'.layer = l /\ host'.target = t
        /\ host' \in [at : {"idle", "snapshot", "prefetch", "invalidate", "forward"}, layer : Layers, target : Nat]
    BY <1>1, <1>2
  <1>5. /\ Types'
        /\ UNCHANGED <<cache_size, prefill_overlap, recorded, done, buffer_layer, released, has_release,
                        hit_d2d_active>>
    BY <1>1, <1>4, HostTypes
  <1>6. n \in Nat /\ c \in Nat
    OBVIOUS
  <1>7. /\ \A i \in 1 .. Len(compute') : (i \in 1 .. m /\ compute'[i] = compute[i]) \/ i \in m + 1 .. m + n
        /\ \A i \in 1 .. m : i \in 1 .. Len(compute') /\ compute'[i] = compute[i]
        /\ Len(compute') = m + n /\ m \in Nat
    BY ONLY <1>1, <1>6, ExtendsSplit
  <1>8. /\ \A p \in 1 .. Len(copy') : (p \in 1 .. k /\ copy'[p] = copy[p]) \/ p \in k + 1 .. k + c
        /\ \A p \in 1 .. k : p \in 1 .. Len(copy') /\ copy'[p] = copy[p]
        /\ \A p \in k + 1 .. k + c : p \in 1 .. Len(copy')
        /\ Len(copy') = k + c /\ k \in Nat
    BY ONLY <1>1, <1>6, ExtendsSplit
  <1>9. ASSUME NEW i \in m + 1 .. m + n
        PROVE  /\ hit_d2d_active /\ n = 2
               /\ \/ i = m + 1 /\ compute'[i] = Op("compact", t) /\ compute'[i].op = "compact" /\ compute'[i].layer = t
                  \/ i = m + 2 /\ compute'[i] = Op("gather", t) /\ compute'[i].op = "gather" /\ compute'[i].layer = t
    <2>1. hit_d2d_active /\ n = 2
      BY <1>7
    <2>2. i = m + 1 \/ i = m + 2
      BY <1>7, <2>1
    <2> QED BY <1>1, <2>1, <2>2 DEF Op
  <1>10. ASSUME NEW p \in k + 1 .. k + c
         PROVE  \/ /\ p = k + 1 /\ c = 2 /\ has_release[b]
                   /\ copy'[p].op = "wait" /\ copy'[p].ev = Release(b) /\ copy'[p].n = recorded[Release(b)]
                \/ p = Len(copy') /\ copy'[p].op = "invalidate" /\ copy'[p].layer = t
    <2>1. CASE has_release[b]
      <3>1. c = 2
        BY <2>1
      <3>2. p = k + 1 \/ p = k + 2
        BY <1>8, <3>1
      <3> QED BY <1>1, <1>8, <2>1, <3>1, <3>2 DEF WaitOp, Op
    <2>2. CASE ~has_release[b]
      <3>1. c = 1
        BY <2>2
      <3>2. p = k + 1
        BY <1>8, <3>1
      <3> QED BY <1>1, <1>8, <2>2, <3>1, <3>2 DEF Op
    <2> QED BY <2>1, <2>2
  <1>11. copy'[Len(copy')].op = "invalidate" /\ Len(copy') \in k + 1 .. k + c /\ Len(copy') \in Nat
    <2>1. c = 1 \/ c = 2
      OBVIOUS
    <2>2. Len(copy') \in k + 1 .. k + c /\ Len(copy') \in Nat
      BY <1>8, <2>1
    <2>3. ~(Len(copy') = k + 1 /\ c = 2)
      BY <1>8
    <2> QED BY <1>10, <2>2, <2>3
  <1>12. has_release[b] => k + 1 \in 1 .. Len(copy') /\ copy'[k + 1] = WaitOp(Release(b), recorded[Release(b)])
    <2>1. has_release[b] => k + 1 \in k + 1 .. k + c
      BY <1>8
    <2> QED BY <1>1, <1>8, <2>1
  <1>13. Starting' = Starting
    BY <1>1, <1>4 DEF Starting
  <1>14. hit_d2d_active => ~Pending(Begin)
    BY <1>1 DEF StreamRest, Fences
  <1> HIDE DEF n, c
  <1>15. prefill_overlap /\ Mode'
    <2>1. prefill_overlap /\ cache_size >= 2 * NumExperts /\ \A i \in 1 .. m : compute[i].op # "materialize"
      BY <1>1 DEF StreamRest, Mode
    <2>2. \A i \in 1 .. Len(compute') : compute'[i].op # "materialize"
      BY <1>7, <1>9, <2>1
    <2> QED BY <1>5, <2>1, <2>2 DEF Mode
  <1>16. Cursor'
    <2>1. \A x \in {0, 1} : buffer_layer[x] < l => released[x]
      BY <1>1 DEF StreamRest, Cursor
    <2>2. ~Starting => t = l + 1 /\ buffer_layer[BufferOf(l)] = l /\ buffer_layer[BufferOf(l + 1)] = l - 1
      BY <1>1 DEF StreamRest, Cursor
    <2>3. Starting => \A x \in {0, 1} : buffer_layer[x] = None
      BY DEF StreamRest, Cursor
    <2> QED BY <1>1, <1>4, <1>5, <1>13, <2>1, <2>2, <2>3 DEF Cursor
  <1>17. Records'
    <2>1. \A i \in m + 1 .. m + n : compute'[i].op # "wait" /\ compute'[i].op # "record"
      BY <1>9
    <2>2. \A i \in 1 .. Len(compute') :
            /\ compute'[i].op = "wait" => compute'[i].n = recorded[compute'[i].ev]
            /\ compute'[i].op = "record" => compute'[i].n = recorded[compute'[i].ev] /\ Pending(compute'[i].ev)
      BY <1>7, <2>1 DEF StreamRest, Records
    <2>3. ASSUME NEW i \in 1 .. Len(compute'), NEW j \in 1 .. Len(compute'),
                 compute'[i].op = "record", compute'[j].op = "record", compute'[i].ev = compute'[j].ev
          PROVE  i = j
      <3>1. \A x, y \in 1 .. m :
              compute[x].op = "record" /\ compute[y].op = "record" /\ compute[x].ev = compute[y].ev => x = y
        BY DEF StreamRest, Records
      <3> QED BY <1>7, <2>1, <2>3, <3>1
    <2>4. \A p \in 1 .. Len(copy') :
            /\ copy'[p].op = "wait" => copy'[p].n = recorded[copy'[p].ev]
            /\ copy'[p].op = "record" => copy'[p].n = recorded[copy'[p].ev] /\ Pending(copy'[p].ev)
      <3>1. \A p \in k + 1 .. k + c :
              copy'[p].op # "record" /\ (copy'[p].op = "wait" => copy'[p].n = recorded[copy'[p].ev])
        BY <1>10
      <3> QED BY <1>8, <3>1 DEF StreamRest, Records
    <2>5. \A ev \in Events : done[ev] <= recorded[ev]
      BY DEF StreamRest, Records
    <2>6. \A x \in {0, 1} : has_release[x] \/ ~Pending(Release(x))
      BY DEF StreamRest, Records
    <2> QED BY <1>5, <2>2, <2>3, <2>4, <2>5, <2>6 DEF Records, Pending
  <1>18. Fences'
    <2>1. ASSUME Pending(Begin)
          PROVE  Starting /\ ~hit_d2d_active /\ \E p \in 1 .. Len(copy') : copy'[p] = WaitOp(Begin, recorded[Begin])
      <3>1. PICK p \in 1 .. k : copy[p] = WaitOp(Begin, recorded[Begin])
        BY <2>1 DEF StreamRest, Fences
      <3>2. Starting
        BY <2>1 DEF StreamRest, Fences
      <3> QED BY <1>8, <1>14, <2>1, <3>1, <3>2
    <2>2. Pending(Release(b)) =>
            \E p \in 1 .. Len(copy') : copy'[p] = WaitOp(Release(b), recorded[Release(b)])
      BY <1>3, <1>12 DEF StreamRest, Records
    <2>3. \A x \in Layers : Owned(x)' <=> Owned(x)
      BY <1>1, <1>4, <1>5 DEF Owned
    <2>4. \A x \in Layers : Owned(x) => ~Pending(Release(BufferOf(x)))
      BY DEF StreamRest, Fences
    <2> QED BY <1>4, <1>5, <1>13, <2>1, <2>2, <2>3, <2>4 DEF Fences, Pending, WaitOp
  <1>19. CopyQueue'
    <2>1. ASSUME NEW p \in 1 .. Len(copy')
          PROVE  LET o == copy'[p] IN
                 /\ IsCopy(o) => /\ p = 1 /\ Len(copy') >= 2 /\ o.buffer = BufferOf(o.layer)
                                 /\ copy'[2].op = "record" /\ copy'[2].ev = Ready(o.buffer)
                 /\ o.op = "record" => p \in {1, 2} /\ (p = 2 => IsCopy(copy'[1]))
                 /\ o.op \in {"snapshot", "invalidate"} => p = Len(copy') /\ o.op = "invalidate" /\ o.layer = t
      <3>1. CASE p \in k + 1 .. k + c
        BY <1>10, <3>1 DEF IsCopy
      <3>3. CASE p \in 1 .. k /\ copy'[p] = copy[p]
        <4>1. IsCopy(copy[p]) => /\ p = 1 /\ k >= 2 /\ copy[p].buffer = BufferOf(copy[p].layer)
                                 /\ copy[2].op = "record" /\ copy[2].ev = Ready(copy[p].buffer)
          BY <3>3 DEF StreamRest, CopyQueue
        <4>2. copy[p].op = "record" => p \in {1, 2} /\ (p = 2 => IsCopy(copy[1]))
          BY <3>3 DEF StreamRest, CopyQueue
        <4>3. k >= 2 => copy'[2] = copy[2] /\ Len(copy') >= 2
          BY <1>8, <1>11
        <4>4. copy'[1] = copy[1]
          BY <1>8, <3>3
        <4>5. copy[p].op \notin {"snapshot", "invalidate"}
          BY <1>1, <3>3 DEF StreamRest, CopyQueue
        <4> QED BY <3>3, <4>1, <4>2, <4>3, <4>4, <4>5
      <3> QED BY <1>8, <3>1, <3>3
    <2> QED BY <1>4, <1>11, <2>1 DEF CopyQueue, IsCopy
  <1>20. Adjacent'
    <2>1. ASSUME NEW i \in m + 1 .. m + n PROVE Neighbours(compute', i)
      <3>1. m + 1 \in Nat /\ (m + 1) + 1 = m + 2 /\ (m + 2) - 1 = m + 1 /\ n = 2 /\ m + 2 <= Len(compute')
        BY <1>7, <1>9
      <3>2. compute'[m + 1] = Op("compact", t) /\ compute'[m + 2] = Op("gather", t)
        BY <1>1, <1>9
      <3> QED BY <1>9, <3>1, <3>2 DEF Neighbours, Changers
    <2>2. \A x \in {0, 1} : done'[Ready(x)] < recorded'[Ready(x)] => Pending(Ready(x))
      BY <1>5 DEF Pending
    <2>3. n > 0 => compute'[m + 1].op # "gemm_layer"
      <3>1. n > 0 => m + 1 \in m + 1 .. m + n
        BY <1>6, <1>7
      <3> QED BY <1>9, <3>1
    <2> QED BY <1>1, <1>5, <1>6, <2>1, <2>2, <2>3, AdjacentExtends DEF StreamRest
  <1>21. Order'
    <2>1. hit_d2d_active => \A i \in 1 .. m : ~IsPass(compute[i])
      <3>1. hit_d2d_active => \A i \in 1 .. m : compute[i].op \notin Changers
        BY <1>1, <1>14 DEF StreamRest, Order
      <3>2. hit_d2d_active => \A i \in 1 .. m : ~IsBegin(compute[i])
        BY <1>14 DEF StreamRest, Records, IsBegin
      <3> QED BY <3>1, <3>2 DEF IsPass
    <2>2. ASSUME hit_d2d_active PROVE \A i \in 1 .. Len(compute') : ~IsPass(compute'[i]) /\ ~IsBegin(compute'[i])
      <3>1. \A i \in m + 1 .. m + n : ~IsPass(compute'[i])
        BY <1>9 DEF IsPass, IsBegin, Changers
      <3>2. \A i \in 1 .. Len(compute') : ~IsPass(compute'[i])
        BY <1>7, <2>1, <2>2, <3>1
      <3> QED BY <3>2 DEF IsPass
    <2>3. ~Pending(Begin) => \A i \in 1 .. Len(compute') :
            compute'[i].op \notin Changers /\ (compute'[i].op = "gemm_layer" => compute'[i].layer < l)
      <3>1. ~Pending(Begin) => \A i \in 1 .. m :
              compute[i].op \notin Changers /\ (compute[i].op = "gemm_layer" => compute[i].layer < l)
        BY <1>1 DEF StreamRest, Order
      <3>2. \A i \in m + 1 .. m + n : compute'[i].op \notin Changers /\ compute'[i].op # "gemm_layer"
        BY <1>9 DEF Changers
      <3> QED BY <1>7, <3>1, <3>2
    <2>4. CASE hit_d2d_active
      BY <1>4, <1>5, <2>2, <2>3, <2>4 DEF Order, Pending, IsPass, IsBegin
    <2>5. CASE ~hit_d2d_active
      <3>1. compute' = compute
        BY <1>1, <2>5
      <3> QED BY <1>1, <1>4, <1>5, <3>1 DEF StreamRest, Order, Pending, IsPass, IsBegin
    <2> QED BY <2>4, <2>5
  <1> QED BY <1>5, <1>15, <1>16, <1>17, <1>18, <1>19, <1>20, <1>21 DEF StreamRest

\* The rest of the prefetch: the copy of the layer and its record.
LEMMA CopiesStreams ==
  ASSUME SizesAssumption, Types, StreamRest, PrefetchCopies
  PROVE  Types' /\ StreamRest'
  <1> DEFINE l == host.layer
             t == host.target
             b == BufferOf(t)
             n == recorded[Ready(b)] + 1
             rows == RowsToCopy(t)
  <1>1. /\ t \in Layers /\ b \in {0, 1} /\ n \in Nat /\ rows \in [Banks -> SUBSET Experts]
        /\ copy' \in Seq(CopyOps) /\ Len(copy') = 2
        /\ copy'[1] = H2dOp(t, b, rows) /\ copy'[2] = RecordOp(Ready(b), n)
    BY CopiesEnqueue DEF StreamRest
  <1>2. /\ host.at = "invalidate" /\ copy = <<>> /\ Len(copy) = 0
        /\ recorded' = [recorded EXCEPT ![Ready(b)] = n]
        /\ buffer_layer' = [buffer_layer EXCEPT ![b] = t]
        /\ released' = [released EXCEPT ![b] = FALSE]
        /\ host' = AfterPrefetch(host)
        /\ UNCHANGED <<cache_size, prefill_overlap, slot_for_id, id_of_slot, usage, step, expert_recency, staged,
                       topk, data, hits, done, compute, has_release, snapshot, hit_d2d_active>>
    BY DEF PrefetchCopies, sizeVars, deviceVars, mapVars
  <1>3. /\ host \in [at : {"idle", "snapshot", "prefetch", "invalidate", "forward"}, layer : Layers, target : Nat]
        /\ recorded \in [Events -> Nat] /\ done \in [Events -> Nat]
        /\ buffer_layer \in [{0, 1} -> Layers \cup {None}] /\ released \in [{0, 1} -> BOOLEAN]
        /\ Ready(b) \in Events
    BY <1>1, EventsDiffer DEF Types
  <1>4. l \in Layers /\ l \in Nat /\ l < NumLayers /\ t \in Nat /\ t < NumLayers /\ NumLayers \in Nat \ {0}
    BY <1>1, <1>3, LayerFacts
  <1> HIDE DEF rows
  <1>5. /\ host' \in [at : {"idle", "snapshot", "prefetch", "invalidate", "forward"}, layer : Layers, target : Nat]
        /\ host'.layer = l
        /\ t = l => host'.at = "prefetch" /\ host'.target = l + 1
        /\ t # l => host'.at = "forward" /\ host'.target = t
    <2>1. CASE t = l
      <3>1. host' = [host EXCEPT !.at = "prefetch", !.target = l + 1] /\ l + 1 \in Nat
        BY <1>2, <1>4, <2>1 DEF AfterPrefetch
      <3> QED BY <1>3, <2>1, <3>1
    <2>2. CASE t # l
      <3>1. host' = [host EXCEPT !.at = "forward"]
        BY <1>2, <2>2 DEF AfterPrefetch
      <3> QED BY <1>3, <2>2, <3>1
    <2> QED BY <2>1, <2>2
  <1>6. /\ recorded' \in [Events -> Nat] /\ buffer_layer' \in [{0, 1} -> Layers \cup {None}]
        /\ released' \in [{0, 1} -> BOOLEAN]
        /\ \A ev \in Events : recorded'[ev] = IF ev = Ready(b) THEN n ELSE recorded[ev]
        /\ \A x \in {0, 1} : /\ buffer_layer'[x] = IF x = b THEN t ELSE buffer_layer[x]
                             /\ released'[x] = IF x = b THEN FALSE ELSE released[x]
    BY <1>1, <1>2, <1>3
  <1>7. Types'
    BY <1>1, <1>2, <1>5, <1>6 DEF Types, Slots
  <1>8. ~Pending(Begin) /\ ~Pending(Release(b))
    BY <1>2 DEF StreamRest, Fences
  <1>9. \A ev \in Events : done'[ev] < recorded'[ev] => Pending(ev) \/ ev = Ready(b)
    BY <1>2, <1>6 DEF Pending
  <1>10. \A ev \in {Begin} \cup {Release(x) : x \in {0, 1}} : ev \in Events /\ recorded'[ev] = recorded[ev]
    BY <1>1, <1>6, EventsDiffer
  \* Nothing of the buffer is left on the compute stream.
  <1>11. \A i \in 1 .. Len(compute) : ~(compute[i].op = "record" /\ compute[i].ev = Release(b))
    BY <1>8 DEF StreamRest, Records
  <1>12. prefill_overlap
    BY <1>2 DEF StreamRest, Mode
  <1>13. ASSUME NEW i \in 1 .. Len(compute), compute[i].op = "gemm_layer" PROVE BufferOf(compute[i].layer) # b
    <2>1. Neighbours(compute, i)
      BY DEF StreamRest, Adjacent
    <2>2. i + 1 \in 1 .. Len(compute) /\ compute[i + 1].op = "record" /\ compute[i + 1].ev = Release(BufferOf(compute[i].layer))
      BY <1>12, <1>13, <2>1 DEF Neighbours
    <2> QED BY <1>11, <2>2
  <1>14. ASSUME NEW i \in 1 .. Len(compute), compute[i].op = "wait" PROVE compute[i].ev # Ready(b)
    <2>1. Neighbours(compute, i)
      BY DEF StreamRest, Adjacent
    <2>2. i + 1 \in 1 .. Len(compute) /\ compute[i + 1].op = "gemm_layer" /\ compute[i].ev = Ready(BufferOf(compute[i + 1].layer))
      BY <1>14, <2>1 DEF Neighbours
    <2>3. compute[i + 1].layer \in Layers
      BY <2>2, QueueEvents, OpKinds
    <2>4. BufferOf(compute[i + 1].layer) \in {0, 1} /\ BufferOf(compute[i + 1].layer) # b
      BY <1>13, <2>2, <2>3, LayerFacts
    <2> QED BY <1>1, <2>2, <2>4, EventsDiffer
  <1>15. Starting => l = 0 /\ t = 0 /\ \A x \in {0, 1} : buffer_layer[x] = None
    BY <1>2 DEF StreamRest, Cursor, Starting
  <1>16. ~Starting => t = l + 1 /\ buffer_layer[BufferOf(l)] = l /\ buffer_layer[BufferOf(l + 1)] = l - 1
    BY <1>2 DEF StreamRest, Cursor
  <1>17. BufferOf(l) \in {0, 1} /\ BufferOf(l + 1) \in {0, 1} /\ BufferOf(l + 1) # BufferOf(l)
    BY <1>4, BufferFacts
  <1>18. Mode'
    BY <1>2, <1>12 DEF StreamRest, Mode
  <1>19. /\ ~Starting' /\ host'.at \in {"prefetch", "forward"}
         /\ t = l => Starting
         /\ t # l => ~Starting
    BY <1>4, <1>5, <1>15, <1>16 DEF Starting
  <1>20. Cursor'
    <2>1. \A x \in {0, 1} : buffer_layer'[x] < l => released'[x]
      <3>1. \A x \in {0, 1} : buffer_layer[x] < l => released[x]
        BY <1>2 DEF StreamRest, Cursor
      <3>2. ~(t < l)
        BY <1>4, <1>15, <1>16
      <3> QED BY <1>6, <3>1, <3>2
    <2>2. CASE Starting
      <3>1. l = 0 /\ t = 0 /\ buffer_layer'[BufferOf(l)] = l /\ buffer_layer'[BufferOf(l + 1)] = l - 1
        BY <1>6, <1>15, <1>17, <2>2 DEF None
      <3>2. host'.at = "prefetch" /\ host'.target = l + 1
        BY <1>5, <3>1
      <3> QED BY <1>5, <1>19, <2>1, <3>1, <3>2 DEF Cursor
    <2>3. CASE ~Starting
      <3>1. t = l + 1 /\ t # l
        BY <1>4, <1>16, <2>3
      <3>2. buffer_layer'[BufferOf(l)] = l /\ buffer_layer'[BufferOf(l + 1)] = l + 1 /\ l + 1 < NumLayers
        BY <1>4, <1>6, <1>16, <1>17, <2>3, <3>1
      <3>3. host'.at = "forward"
        BY <1>5, <3>1
      <3> QED BY <1>5, <1>19, <2>1, <3>2, <3>3 DEF Cursor
    <2> QED BY <2>2, <2>3
  <1>21. Records'
    <2>1. \A ev \in Events : done'[ev] <= recorded'[ev]
      <3>1. \A ev \in Events : done[ev] <= recorded[ev]
        BY DEF StreamRest, Records
      <3> QED BY <1>2, <1>3, <1>6, <3>1
    <2>2. ASSUME NEW i \in 1 .. Len(compute)
          PROVE  /\ compute[i].op = "wait" => compute[i].n = recorded'[compute[i].ev]
                 /\ compute[i].op = "record" => /\ compute[i].n = recorded'[compute[i].ev]
                                                /\ done[compute[i].ev] < recorded'[compute[i].ev]
      <3>1. compute[i].op = "wait" => compute[i].ev \in Events /\ compute[i].ev # Ready(b)
        BY <1>14, QueueEvents
      <3>2. compute[i].op = "record" => compute[i].ev \in {Begin} \cup {Release(x) : x \in {0, 1}}
        BY QueueEvents
      <3> QED BY <1>6, <1>10, <3>1, <3>2 DEF StreamRest, Records, Pending
    <2>3. \A p \in 1 .. Len(copy') :
            /\ copy'[p].op # "wait"
            /\ copy'[p].op = "record" => copy'[p].n = recorded'[copy'[p].ev] /\ done[copy'[p].ev] < recorded'[copy'[p].ev]
      <3>1. \A p \in 1 .. Len(copy') : p = 1 \/ p = 2
        BY <1>1
      <3>2. copy'[1].op = "h2d" /\ copy'[2].op = "record" /\ copy'[2].ev = Ready(b) /\ copy'[2].n = n
        BY <1>1 DEF H2dOp, RecordOp
      <3>3. done[Ready(b)] < n
        <4>1. done[Ready(b)] <= recorded[Ready(b)]
          BY <1>3 DEF StreamRest, Records
        <4> QED BY <1>3, <4>1
      <3> QED BY <1>1, <1>3, <1>6, <3>1, <3>2, <3>3
    <2>4. \A x \in {0, 1} : has_release[x] \/ ~(done[Release(x)] < recorded'[Release(x)])
      BY <1>10 DEF StreamRest, Records, Pending
    <2>5. \A i, j \in 1 .. Len(compute) :
            compute[i].op = "record" /\ compute[j].op = "record" /\ compute[i].ev = compute[j].ev => i = j
      BY DEF StreamRest, Records
    <2> QED BY <1>2, <2>1, <2>2, <2>3, <2>4, <2>5 DEF Records, Pending
  <1>22. Fences'
    <2>1. ~(done[Begin] < recorded'[Begin])
      BY <1>8, <1>10 DEF Pending
    <2>2. ASSUME NEW x \in Layers, Owned(x)' PROVE ~(done[Release(BufferOf(x))] < recorded'[Release(BufferOf(x))])
      <3>1. BufferOf(x) \in {0, 1} /\ l <= x /\ buffer_layer'[BufferOf(x)] = x
        BY <1>5, <2>2, LayerFacts DEF Owned
      <3>2. CASE BufferOf(x) = b
        BY <1>8, <1>10, <3>1, <3>2 DEF Pending
      <3>3. CASE BufferOf(x) # b
        <4>1. Owned(x)
          BY <1>2, <1>6, <3>1, <3>3 DEF Owned
        <4>2. ~Pending(Release(BufferOf(x)))
          BY <4>1 DEF StreamRest, Fences
        <4> QED BY <1>10, <3>1, <4>2 DEF Pending
      <3> QED BY <3>2, <3>3
    <2> QED BY <1>2, <1>19, <2>1, <2>2 DEF Fences, Pending
  <1>23. CopyQueue'
    <2>1. /\ copy'[1].op = "h2d" /\ copy'[1].buffer = b /\ copy'[1].layer = t
          /\ copy'[2].op = "record" /\ copy'[2].ev = Ready(b)
      BY <1>1 DEF H2dOp, RecordOp
    <2>2. \A p \in 1 .. Len(copy') : p = 1 \/ p = 2
      BY <1>1
    <2> QED BY <1>1, <1>19, <2>1, <2>2 DEF CopyQueue, IsCopy
  <1>24. Adjacent'
    <2>1. Extends(compute', compute, 0)
      <3>1. Len(compute) \in Nat
        BY LenProperties DEF Types
      <3> QED BY <1>2, <3>1 DEF Extends
    <2>2. \A i \in Len(compute) + 1 .. Len(compute) + 0 : Neighbours(compute', i)
      BY <2>1 DEF Extends
    <2>3. \A x \in {0, 1} : done'[Ready(x)] < recorded'[Ready(x)] =>
            Pending(Ready(x)) \/ ~(Running(compute, "gemm_layer") /\ BufferOf(Head(compute).layer) = x)
      <3>1. Running(compute, "gemm_layer") => BufferOf(Head(compute).layer) # b
        <4>1. Running(compute, "gemm_layer") => 1 \in 1 .. Len(compute) /\ Head(compute) = compute[1]
          BY ComputeHead DEF Running
        <4> QED BY <1>13, <4>1 DEF Running
      <3> QED BY <1>1, <1>9, <3>1, EventsDiffer
    <2> QED BY <1>2, <1>7, <2>1, <2>2, <2>3, AdjacentExtends DEF StreamRest
  <1>25. Order'
    <2>1. ~(done[Begin] < recorded'[Begin])
      BY <1>8, <1>10 DEF Pending
    <2> QED BY <1>2, <1>5, <1>8, <1>19, <2>1 DEF StreamRest, Order, IsPass, IsBegin, Pending
  <1> QED BY <1>7, <1>18, <1>20, <1>21, <1>22, <1>23, <1>24, <1>25 DEF StreamRest

\* The layer's GEMM is enqueued between the wait for its copy and its release.
LEMMA ForwardStreams ==
  ASSUME SizesAssumption, Types, StreamRest, ForwardLayer
  PROVE  Types' /\ StreamRest'
  <1> DEFINE l == host.layer
             b == BufferOf(l)
             n == recorded[Release(b)] + 1
             m == Len(compute)
             x == m + 1
             y == m + 2
             z == m + 3
  <1>1. /\ l \in Layers /\ b \in {0, 1} /\ n \in Nat
        /\ compute' \in Seq(ComputeOps) /\ Extends(compute', compute, 3)
        /\ compute'[x] = WaitOp(Ready(b), recorded[Ready(b)])
        /\ compute'[y] = GemmLayer(l)
        /\ compute'[z] = RecordOp(Release(b), n)
    BY ForwardEnqueues
  <1>2. /\ host.at = "forward"
        /\ recorded' = [recorded EXCEPT ![Release(b)] = n]
        /\ has_release' = [has_release EXCEPT ![b] = TRUE]
        /\ released' = [released EXCEPT ![b] = TRUE]
        /\ host' = IF l = NumLayers - 1 THEN Idle
                   ELSE [at |-> "prefetch", layer |-> l + 1, target |-> l + 1]
        /\ UNCHANGED <<cache_size, prefill_overlap, slot_for_id, id_of_slot, usage, step, expert_recency, staged,
                       topk, data, hits, done, copy, buffer_layer, snapshot, hit_d2d_active>>
    BY DEF ForwardLayer, sizeVars, deviceVars, mapVars
  <1>3. /\ recorded \in [Events -> Nat] /\ done \in [Events -> Nat]
        /\ buffer_layer \in [{0, 1} -> Layers \cup {None}] /\ released \in [{0, 1} -> BOOLEAN]
        /\ has_release \in [{0, 1} -> BOOLEAN]
        /\ Release(b) \in Events
    BY <1>1, EventsDiffer DEF Types
  <1>4. l \in Nat /\ l < NumLayers /\ NumLayers \in Nat \ {0} /\ 0 \in Layers
        /\ (l # NumLayers - 1 => l + 1 \in Layers)
    BY <1>1, LayerFacts
  <1>5. /\ \/ l = NumLayers - 1 /\ host'.at = "idle"
           \/ l + 1 \in Layers /\ host'.at = "prefetch" /\ host'.layer = l + 1 /\ host'.target = l + 1
        /\ host' \in [at : {"idle", "snapshot", "prefetch", "invalidate", "forward"}, layer : Layers, target : Nat]
    BY <1>2, <1>4 DEF Idle
  <1>6. /\ recorded' \in [Events -> Nat] /\ has_release' \in [{0, 1} -> BOOLEAN] /\ released' \in [{0, 1} -> BOOLEAN]
        /\ \A ev \in Events : recorded'[ev] = IF ev = Release(b) THEN n ELSE recorded[ev]
        /\ \A c \in {0, 1} : /\ has_release'[c] = IF c = b THEN TRUE ELSE has_release[c]
                             /\ released'[c] = IF c = b THEN TRUE ELSE released[c]
    BY <1>1, <1>2, <1>3
  <1>7. Types'
    BY <1>1, <1>2, <1>5, <1>6 DEF Types, Slots
  <1>8. prefill_overlap /\ ~Starting /\ ~Pending(Begin)
    BY <1>2 DEF StreamRest, Mode, Fences, Starting
  <1>9. buffer_layer[b] = l /\ buffer_layer[BufferOf(l + 1)] = (IF l + 1 < NumLayers THEN l + 1 ELSE l - 1)
        /\ \A c \in {0, 1} : buffer_layer[c] < l => released[c]
    BY <1>2 DEF StreamRest, Cursor
  <1>10. BufferOf(l + 1) \in {0, 1} /\ BufferOf(l + 1) # b /\ BufferOf(l + 2) = b
    <2>1. BufferOf(l + 1) \in {0, 1} /\ BufferOf(l + 1) # b
      BY <1>4, BufferFacts
    <2>2. l + 1 \in Nat /\ (l + 1) + 1 = l + 2
      BY <1>4
    <2>3. BufferOf((l + 1) + 1) \in {0, 1} /\ BufferOf((l + 1) + 1) # BufferOf(l + 1)
      BY ONLY <2>2, SizesAssumption, BufferFacts
    <2> QED BY <1>1, <2>1, <2>2, <2>3
  <1>11. ~Pending(Release(b)) /\ done[Release(b)] < n
    <2>1. Owned(l)
      BY <1>1, <1>2, <1>4, <1>9 DEF Owned
    <2>2. ~Pending(Release(b))
      BY <1>1, <2>1 DEF StreamRest, Fences
    <2>3. done[Release(b)] <= recorded[Release(b)]
      BY <1>3 DEF StreamRest, Records
    <2> QED BY <1>3, <2>2, <2>3
  <1>12. \A i \in 1 .. m : compute[i].op = "record" => compute[i].ev # Release(b) /\ compute[i].ev # Begin
    BY <1>8, <1>11 DEF StreamRest, Records
  <1>13. /\ \A i \in 1 .. Len(compute') : (i \in 1 .. m /\ compute'[i] = compute[i]) \/ i \in m + 1 .. m + 3
         /\ Len(compute') = m + 3 /\ m \in Nat
    BY ONLY <1>1, 3 \in Nat, ExtendsSplit
  <1>14. \A i \in m + 1 .. m + 3 : i \in {x, y, z}
    BY <1>13
  <1>15. x + 1 = y /\ y + 1 = z /\ y - 1 = x /\ z <= Len(compute') /\ y <= Len(compute') /\ x # z /\ x # y /\ y # z
    BY <1>13
  <1>16. /\ compute'[x].op = "wait" /\ compute'[x].ev = Ready(b) /\ compute'[x].n = recorded[Ready(b)]
         /\ compute'[y].op = "gemm_layer" /\ compute'[y].layer = l
         /\ compute'[z].op = "record" /\ compute'[z].ev = Release(b) /\ compute'[z].n = n
    BY <1>1 DEF WaitOp, GemmLayer, Op, RecordOp
  <1>17. \A i \in 1 .. Len(compute') : (i \in 1 .. m /\ compute'[i] = compute[i]) \/ i \in {x, y, z}
    BY <1>13, <1>14
  <1>18. recorded'[Ready(b)] = recorded[Ready(b)] /\ recorded'[Begin] = recorded[Begin] /\ recorded'[Release(b)] = n
    BY <1>1, <1>6, EventsDiffer
  <1> HIDE DEF x, y, z
  <1>19. Mode'
    BY <1>2, <1>8, <1>16, <1>17 DEF StreamRest, Mode
  <1>20. ~Starting' /\ host'.at \in {"idle", "prefetch"}
    BY <1>4, <1>5 DEF Starting
  <1>21. Cursor'
    <2>1. CASE host'.at = "idle"
      BY <1>20, <2>1 DEF Cursor
    <2>2. CASE host'.at # "idle"
      <3>1. l + 1 \in Layers /\ host'.at = "prefetch" /\ host'.layer = l + 1 /\ host'.target = l + 1
        BY <1>5, <2>2
      <3>2. l + 1 < NumLayers /\ (l + 1) + 1 = l + 2 /\ (l + 1) - 1 = l
        BY <1>4, <3>1, LayerFacts
      <3>3. /\ buffer_layer'[BufferOf(l + 1)] = l + 1
            /\ buffer_layer'[BufferOf(l + 2)] = l
        BY <1>2, <1>9, <1>10, <3>2
      <3>4. \A c \in {0, 1} : buffer_layer'[c] < l + 1 => released'[c]
        <4>1. \A c \in {0, 1} : c = b \/ c = BufferOf(l + 1)
          BY <1>1, <1>10
        <4>2. ~(l + 1 < l + 1)
          BY <1>4
        <4> QED BY <1>2, <1>6, <3>3, <4>1, <4>2
      <3> QED BY <1>20, <3>1, <3>2, <3>3, <3>4 DEF Cursor
    <2> QED BY <2>1, <2>2
  <1>22. Records'
    <2>1. \A ev \in Events : done'[ev] <= recorded'[ev]
      <3>1. \A ev \in Events : done[ev] <= recorded[ev]
        BY DEF StreamRest, Records
      <3>2. done[Release(b)] <= n
        BY <1>3, <1>11
      <3> QED BY <1>2, <1>6, <3>1, <3>2
    <2>2. ASSUME NEW i \in 1 .. Len(compute')
          PROVE  /\ compute'[i].op = "wait" => compute'[i].n = recorded'[compute'[i].ev]
                 /\ compute'[i].op = "record" => /\ compute'[i].n = recorded'[compute'[i].ev]
                                                 /\ done[compute'[i].ev] < recorded'[compute'[i].ev]
      <3>1. CASE i \in {x, y, z}
        BY <1>11, <1>16, <1>18, <3>1
      <3>2. CASE i \in 1 .. m /\ compute'[i] = compute[i]
        <4>1. compute[i].op \in {"wait", "record"} => compute[i].ev \in Events
          BY <3>2, QueueEvents
        <4>2. compute[i].op = "wait" => compute[i].ev # Release(b)
          <5>1. compute[i].op = "wait" => compute[i].ev \in {Ready(c) : c \in {0, 1}}
            BY <3>2, QueueEvents
          <5> QED BY <1>1, <5>1, EventsDiffer
        <4> QED BY <1>6, <1>12, <3>2, <4>1, <4>2 DEF StreamRest, Records, Pending
      <3> QED BY <1>17, <3>1, <3>2
    <2>3. ASSUME NEW i \in 1 .. Len(compute'), NEW j \in 1 .. Len(compute'),
                 compute'[i].op = "record", compute'[j].op = "record", compute'[i].ev = compute'[j].ev
          PROVE  i = j
      <3>1. \A c, d \in 1 .. m :
              compute[c].op = "record" /\ compute[d].op = "record" /\ compute[c].ev = compute[d].ev => c = d
        BY DEF StreamRest, Records
      <3> QED BY <1>12, <1>16, <1>17, <2>3, <3>1
    <2>4. \A p \in 1 .. Len(copy) :
            /\ copy[p].op # "wait"
            /\ copy[p].op = "record" => copy[p].n = recorded'[copy[p].ev] /\ done[copy[p].ev] < recorded'[copy[p].ev]
      <3>1. \A p \in 1 .. Len(copy) : copy[p].op # "wait"
        BY <1>2, <1>8 DEF StreamRest, CopyQueue
      <3>2. \A p \in 1 .. Len(copy) : copy[p].op = "record" =>
              copy[p].ev \in Events /\ copy[p].ev \in {Ready(c) : c \in {0, 1}}
        BY QueueEvents
      <3>3. \A p \in 1 .. Len(copy) : copy[p].op = "record" => copy[p].ev \in Events /\ copy[p].ev # Release(b)
        BY <1>1, <3>2, EventsDiffer
      <3>4. \A p \in 1 .. Len(copy) : copy[p].op = "record" => copy[p].n = recorded[copy[p].ev] /\ Pending(copy[p].ev)
        BY DEF StreamRest, Records
      <3> QED BY <1>6, <3>1, <3>3, <3>4 DEF Pending
    <2>5. \A c \in {0, 1} : has_release'[c] \/ ~(done[Release(c)] < recorded'[Release(c)])
      <3>1. \A c \in {0, 1} : Release(c) \in Events /\ (Release(c) = Release(b) => c = b)
        BY <1>1, EventsDiffer
      <3> QED BY <1>6, <3>1 DEF StreamRest, Records, Pending
    <2> QED BY <1>2, <2>1, <2>2, <2>3, <2>4, <2>5 DEF Records, Pending
  <1>23. Fences'
    <2>1. ~(done[Begin] < recorded'[Begin])
      BY <1>8, <1>18 DEF Pending
    <2>2. ASSUME NEW c \in Layers, Owned(c)' PROVE ~(done[Release(BufferOf(c))] < recorded'[Release(BufferOf(c))])
      <3>1. BufferOf(c) \in {0, 1} /\ host'.at = "prefetch" /\ buffer_layer[BufferOf(c)] = c /\ l + 1 <= c
        BY <1>2, <1>5, <2>2, LayerFacts DEF Owned
      <3>2. BufferOf(c) # b /\ l <= c
        <4>1. c \in Nat
          BY LayerFacts
        <4> QED BY <1>4, <1>9, <3>1, <4>1
      <3>3. ~Pending(Release(BufferOf(c)))
        <4>1. Owned(c)
          BY <1>2, <3>1, <3>2 DEF Owned
        <4> QED BY <4>1 DEF StreamRest, Fences
      <3>4. Release(BufferOf(c)) \in Events /\ Release(BufferOf(c)) # Release(b)
        BY <1>1, <3>1, <3>2, EventsDiffer
      <3> QED BY <1>6, <3>3, <3>4 DEF Pending
    <2> QED BY <1>2, <1>20, <2>1, <2>2 DEF Fences, Pending
  <1>24. CopyQueue'
    <2>1. \A p \in 1 .. Len(copy) : copy[p].op \notin {"wait", "snapshot", "invalidate"}
      BY <1>2, <1>8 DEF StreamRest, CopyQueue
    <2> QED BY <1>2, <1>20, <2>1 DEF StreamRest, CopyQueue, IsCopy
  <1>25. Adjacent'
    <2>1. ASSUME NEW i \in m + 1 .. m + 3 PROVE Neighbours(compute', i)
      <3>1. CASE i = x
        BY <1>15, <1>16, <3>1 DEF Neighbours, Changers
      <3>2. CASE i = y
        BY <1>15, <1>8, <1>16, <3>2 DEF Neighbours, Changers
      <3>3. CASE i = z
        BY <1>16, <3>3 DEF Neighbours, Changers
      <3> QED BY <1>14, <3>1, <3>2, <3>3
    <2>2. \A c \in {0, 1} : done'[Ready(c)] < recorded'[Ready(c)] => Pending(Ready(c))
      BY <1>1, <1>2, <1>6, EventsDiffer DEF Pending
    <2>3. compute'[m + 1].op # "gemm_layer"
      BY <1>16 DEF x
    <2> QED BY <1>1, <1>2, <1>7, <2>1, <2>2, <2>3, AdjacentExtends DEF StreamRest
  <1>26. Order'
    <2>1. \A i \in 1 .. m : ~IsPass(compute[i]) /\ ~IsBegin(compute[i])
                            /\ (compute[i].op = "gemm_layer" => compute[i].layer < l)
      BY <1>2, <1>8, <1>12 DEF StreamRest, Order, IsPass, IsBegin
    <2>2. ASSUME NEW i \in 1 .. Len(compute')
          PROVE  ~IsPass(compute'[i]) /\ ~IsBegin(compute'[i]) /\ (compute'[i].op = "gemm_layer" => compute'[i].layer < l + 1)
      <3>1. CASE i \in {x, y, z}
        BY <1>1, <1>4, <1>16, <3>1, EventsDiffer DEF IsPass, IsBegin, Changers
      <3>2. CASE i \in 1 .. m /\ compute'[i] = compute[i]
        <4>1. compute[i].op = "gemm_layer" => compute[i].layer \in Nat
          <5>1. compute[i].op = "gemm_layer" => compute[i].layer \in Layers
            BY <3>2, QueueEvents, OpKinds
          <5> QED BY <5>1, LayerFacts
        <4> QED BY <1>4, <2>1, <3>2, <4>1 DEF IsPass, IsBegin
      <3> QED BY <1>17, <3>1, <3>2
    <2>3. host'.at # "idle" => host'.layer = l + 1
      BY <1>5
    <2>4. \A i \in 1 .. Len(compute') : compute'[i].op \notin Changers
      BY <2>2 DEF IsPass
    <2> QED BY <2>2, <2>3, <2>4 DEF Order, IsPass, IsBegin
  <1> QED BY <1>7, <1>19, <1>21, <1>22, <1>23, <1>24, <1>25, <1>26 DEF StreamRest

\* A rebuild starts from nothing.
LEMMA RebuildStreams ==
  ASSUME SizesAssumption, Types, StreamRest, Routed, Rebuild
  PROVE  Types' /\ StreamRest'
  <1>1. /\ host.at = "idle" /\ compute = <<>> /\ copy = <<>> /\ Len(compute) = 0 /\ Len(copy) = 0
        /\ UNCHANGED <<topk, hits, compute, copy, snapshot, hit_d2d_active, host>>
        /\ slot_for_id' = [i \in Ids |-> None] /\ step' = 0
        /\ expert_recency' = [i \in Ids |-> None] /\ staged' = {}
        /\ buffer_layer' = [b \in {0, 1} |-> None] /\ released' = [b \in {0, 1} |-> TRUE]
        /\ has_release' = [b \in {0, 1} |-> FALSE]
        /\ recorded' = [ev \in Events |-> 0] /\ done' = [ev \in Events |-> 0]
    BY DEF Rebuild
  <1>2. PICK size \in CacheSizes :
          /\ size >= NumExperts /\ cache_size' = size
          /\ prefill_overlap' = (prefill_overlap /\ size >= 2 * NumExperts)
          /\ id_of_slot' = [s \in 0 .. size - 1 |-> None]
          /\ usage' = [s \in 0 .. size - 1 |-> 0]
          /\ data' = [k \in Banks |-> [s \in 0 .. size - 1 |-> None]]
    BY DEF Rebuild
  <1>3. prefill_overlap \in BOOLEAN /\ size \in Nat /\ NumExperts \in Nat
    <2>1. prefill_overlap \in BOOLEAN
      BY DEF Types
    <2>2. CacheSizes \subseteq Nat /\ NumExperts \in Nat
      BY ONLY SizesAssumption DEF SizesAssumption
    <2> QED BY ONLY <2>1, <2>2, size \in CacheSizes
  <1>4. prefill_overlap' \in BOOLEAN /\ (prefill_overlap' => size >= 2 * NumExperts)
    BY <1>2, <1>3
  <1>5. topk = {}
    BY <1>1 DEF Routed, Running
  <1>6. Types'
    <2>1. compute' \in Seq(ComputeOps) /\ copy' \in Seq(CopyOps)
      BY <1>1 DEF Types
    <2>2. hits' \subseteq Nat \X Nat /\ snapshot' \in [Ids -> Nat \cup {None}] /\ hit_d2d_active' \in BOOLEAN
          /\ host' \in [at : {"idle", "snapshot", "prefetch", "invalidate", "forward"}, layer : Layers, target : Nat]
      BY <1>1 DEF Types
    <2>3. /\ slot_for_id' \in [Ids -> Slots' \cup {None}] /\ id_of_slot' \in [Slots' -> Ids \cup {None}]
          /\ usage' \in [Slots' -> 0 .. step'] /\ step' \in Nat
          /\ expert_recency' \in [Ids -> None .. step'] /\ staged' \subseteq Slots' \X Ids
          /\ topk' \subseteq Experts \X (Slots' \cup {None})
          /\ data' = [k \in Banks |-> data'[k]]
      BY <1>1, <1>2, <1>5 DEF Slots, None
    <2>4. /\ recorded' \in [Events -> Nat] /\ done' \in [Events -> Nat]
          /\ buffer_layer' \in [{0, 1} -> Layers \cup {None}]
          /\ released' \in [{0, 1} -> BOOLEAN] /\ has_release' \in [{0, 1} -> BOOLEAN]
      BY <1>1
    <2> QED BY <1>2, <1>4, <2>1, <2>2, <2>3, <2>4 DEF Types
  <1>7. ~Pending(Begin)' /\ \A b \in {0, 1} : ~Pending(Release(b))'
    BY <1>1, EventsDiffer DEF Pending
  <1>8. Mode'
    BY <1>1, <1>2, <1>4 DEF Mode
  <1>9. Cursor'
    BY <1>1 DEF Cursor, Starting
  <1>10. Records'
    <2>1. \A ev \in Events : done'[ev] <= recorded'[ev]
      BY <1>1
    <2> QED BY <1>1, <1>7, <2>1 DEF Records
  <1>11. Fences'
    BY <1>1, <1>7 DEF Fences, Owned
  <1>12. CopyQueue'
    BY <1>1 DEF CopyQueue
  <1>13. Adjacent'
    BY <1>1 DEF Adjacent, Running
  <1>14. Order'
    BY <1>1 DEF Order
  <1> QED BY <1>6, <1>8, <1>9, <1>10, <1>11, <1>12, <1>13, <1>14 DEF StreamRest

LEMMA StreamInit ==
  ASSUME SizesAssumption, Init
  PROVE  StreamInv /\ MapIsInverse
  <1>1. Types
    BY InitTypes
  <1>2. /\ compute = <<>> /\ copy = <<>> /\ Len(compute) = 0 /\ Len(copy) = 0 /\ host.at = "idle" /\ topk = {}
        /\ recorded = [ev \in Events |-> 0] /\ done = [ev \in Events |-> 0]
        /\ has_release = [b \in {0, 1} |-> FALSE] /\ prefill_overlap = Overlap /\ cache_size = FirstSize
        /\ slot_for_id = [i \in Ids |-> None] /\ id_of_slot = [s \in 0 .. FirstSize - 1 |-> None]
    BY DEF Init, Idle
  <1>3. ~Pending(Begin) /\ \A b \in {0, 1} : ~Pending(Release(b))
    BY <1>2, EventsDiffer DEF Pending
  <1>4. Mode
    BY <1>2 DEF Mode, SizesAssumption
  <1>5. Cursor
    BY <1>2 DEF Cursor, Starting
  <1>6. Records
    <2>1. \A ev \in Events : done[ev] <= recorded[ev]
      BY <1>2
    <2> QED BY <1>2, <1>3, <2>1 DEF Records
  <1>7. Fences
    BY <1>2, <1>3 DEF Fences, Owned
  <1>8. CopyQueue
    BY <1>2 DEF CopyQueue
  <1>9. Adjacent
    BY <1>2 DEF Adjacent, Running
  <1>10. Order
    BY <1>2 DEF Order
  <1>11. Routed
    BY <1>2 DEF Routed
  <1>12. MapIsInverse
    BY <1>2 DEF MapIsInverse, Slots
  <1> QED BY <1>1, <1>4, <1>5, <1>6, <1>7, <1>8, <1>9, <1>10, <1>11, <1>12 DEF StreamInv, StreamRest

-----------------------------------------------------------------------------
(* The streams: every step. *)

LEMMA ComputeStreams ==
  ASSUME SizesAssumption, Types, StreamRest, MapIsInverse, Compute
  PROVE  Types' /\ StreamRest'
  <1>1. Types'
    BY EnsureTypes, MaterializeTypes, ResetTypes, ComputeRestTypes DEF Compute
  <1>2. ComputePops
    BY ComputeIsPop
  <1>3. Mode' /\ Cursor'
    BY <1>2, PopMode DEF StreamRest
  <1>4. Records'
    BY <1>1, <1>2, PopRecords DEF StreamRest
  <1>5. Fences'
    BY <1>1, <1>2, PopFences DEF StreamRest
  <1>6. CopyQueue'
    BY <1>2, PopCopyQueue DEF StreamRest
  <1>7. Adjacent'
    BY <1>1, <1>2, PopAdjacent DEF StreamRest
  <1>8. Order'
    BY <1>1, <1>2, PopOrder DEF StreamRest
  <1> QED BY <1>1, <1>3, <1>4, <1>5, <1>6, <1>7, <1>8 DEF StreamRest

LEMMA CopyStreams ==
  ASSUME SizesAssumption, Types, StreamRest, Copy
  PROVE  Types' /\ StreamRest'
  <1>1. Types'
    BY InvalidateTypes, CopyRestTypes DEF Copy
  <1>2. CASE CopyPops
    BY <1>1, <1>2, CopyPopRecords, CopyPopRest DEF StreamRest
  <1>3. CASE CopyEnds
    BY <1>1, <1>3, CopyEndStreams DEF StreamRest
  <1> QED BY <1>2, <1>3, CopyIsPop

LEMMA HostStreams ==
  ASSUME SizesAssumption, Types, StreamRest, Routed, Host
  PROVE  Types' /\ StreamRest'
  BY DecodeStreams, MaterializePassStreams, ResetStreams, BeginStreams, RebuildStreams, SyncStreams, SkipStreams,
     TakeStreams, PrefetchCases, CopiesStreams, ForwardStreams DEF Host, Prefill

LEMMA StreamStutters ==
  ASSUME Types, StreamRest, UNCHANGED vars
  PROVE  Types' /\ StreamRest'
  <1>1. UNCHANGED <<cache_size, prefill_overlap, slot_for_id, id_of_slot, usage, step, expert_recency, staged, topk,
                    data, hits, done, compute, copy, recorded, buffer_layer, released, has_release, snapshot,
                    hit_d2d_active, host>>
    BY DEF vars, sizeVars, deviceVars, mapVars, bufferVars
  <1>2. Types'
    BY <1>1 DEF Types, Slots
  <1>3. Mode' /\ Cursor' /\ Records' /\ Fences'
    BY <1>1 DEF StreamRest, Mode, Cursor, Records, Fences, Pending, Starting, Owned
  <1>4. CopyQueue' /\ Adjacent' /\ Order'
    BY <1>1 DEF StreamRest, CopyQueue, Adjacent, Order, Pending, Starting, IsCopy, Neighbours, Running, IsPass,
                IsBegin
  <1> QED BY <1>2, <1>3, <1>4 DEF StreamRest

-----------------------------------------------------------------------------
(* The slot map. *)

\* What a look-up does, one expert and one slot at a time.
LEMMA LookUpFacts ==
  ASSUME SizesAssumption, Types, MapIsInverse, NEW l \in Layers, NEW active \in SUBSET Experts, LookUp(l, active)
  PROVE  LET F == Fetched(l, active)  V(e) == Victim(l, active, e) IN
         /\ F \subseteq active /\ \A e \in F : slot_for_id[Id(l, e)] = None
         /\ \A e \in F : V(e) \in Slots /\ V(e) # None
         /\ \A e, f \in F : V(e) = V(f) => e = f
         /\ \A e \in F : \A f \in active : id_of_slot[V(e)] # Id(l, f)
         /\ ~Hybrid => \A e \in active : slot_for_id[Id(l, e)] = None => e \in F
  <1> DEFINE F == Fetched(l, active)
             M == Missing(l, active)
             V(e) == Victim(l, active, e)
  <1>1. F \in SUBSET M /\ M \in SUBSET active /\ IsFiniteSet(F)
    BY EnoughSlots
  <1>2. /\ \A e \in F : V(e) \in Evictable(l, active)
        /\ \A e, f \in F : V(e) = V(f) => e = f
    BY VictimFacts
  <1>3. \A e \in F : V(e) \in Slots /\ \A f \in active : id_of_slot[V(e)] # Id(l, f)
    BY <1>2 DEF Evictable
  <1>4. \A s \in Slots : s # None
    BY SlotNumbers
  <1>5. \A e \in M : slot_for_id[Id(l, e)] = None
    BY DEF Missing
  <1>6. ASSUME ~Hybrid, NEW e \in active, slot_for_id[Id(l, e)] = None PROVE e \in F
    <2>1. e \in M
      BY <1>6 DEF Missing
    <2>2. M \in SUBSET Experts
      BY <1>1
    <2>3. IsFiniteSet(M)
      <3>1. NumExperts \in Nat
        BY DEF SizesAssumption
      <3>2. IsFiniteSet(0 .. NumExperts - 1)
        BY <3>1, FS_Interval
      <3> QED BY <2>2, <3>2, FS_Subset DEF Experts
    <2>4. FetchRank(l, M, e) \in 0 .. Cardinality(M) - 1
      BY <2>1, <2>2, <2>3, FetchOrder
    <2>5. Cardinality(M) \in Nat
      BY <2>3, FS_CardinalityType
    <2>6. FetchCap(Cardinality(M)) = Cardinality(M)
      BY <1>6 DEF FetchCap
    <2>7. F = {x \in M : FetchRank(l, M, x) < FetchCap(Cardinality(M))}
      BY DEF Fetched, Rank, FetchRank
    <2> HIDE DEF M, F
    <2> QED BY <2>1, <2>4, <2>5, <2>6, <2>7
  <1> HIDE DEF F, M, V
  <1>7. F \subseteq active /\ \A e \in F : slot_for_id[Id(l, e)] = None
    BY <1>1, <1>5
  <1> QED BY <1>2, <1>3, <1>4, <1>6, <1>7 DEF F, V

\* What is found stays where it is.
LEMMA LookUpKeeps ==
  ASSUME SizesAssumption, Types, MapIsInverse, NEW l \in Layers, NEW active \in SUBSET Experts, LookUp(l, active)
  PROVE  /\ \A e \in active : slot_for_id[Id(l, e)] # None => slot_for_id'[Id(l, e)] = slot_for_id[Id(l, e)]
         /\ ~Hybrid => \A e \in active : slot_for_id'[Id(l, e)] # None
  <1> DEFINE F == Fetched(l, active)
             V(e) == Victim(l, active, e)
  <1>1. /\ F \subseteq active /\ \A e \in F : slot_for_id[Id(l, e)] = None
        /\ \A e \in F : V(e) \in Slots /\ V(e) # None
        /\ \A e \in F : \A f \in active : id_of_slot[V(e)] # Id(l, f)
        /\ ~Hybrid => \A e \in active : slot_for_id[Id(l, e)] = None => e \in F
    BY LookUpFacts
  <1>2. /\ \A e \in F : slot_for_id'[Id(l, e)] = V(e)
        /\ \A i \in Ids : (\A e \in F : Id(l, e) # i) =>
             slot_for_id'[i] = IF \E e \in F : id_of_slot[V(e)] = i THEN None ELSE slot_for_id[i]
    BY DEF LookUp
  <1> HIDE DEF F, V
  <1>3. ASSUME NEW e \in active, slot_for_id[Id(l, e)] # None
        PROVE  slot_for_id'[Id(l, e)] = slot_for_id[Id(l, e)]
    <2>1. Id(l, e) \in Ids
      BY IdFacts
    <2>2. \A f \in F : Id(l, f) # Id(l, e)
      BY <1>1, <1>3
    <2>3. \A f \in F : id_of_slot[V(f)] # Id(l, e)
      BY <1>1
    <2> QED BY <1>2, <2>1, <2>2, <2>3
  <1>4. ASSUME ~Hybrid, NEW e \in active PROVE slot_for_id'[Id(l, e)] # None
    BY <1>1, <1>2, <1>3, <1>4
  <1> QED BY <1>3, <1>4

LEMMA EnsureInverse ==
  ASSUME SizesAssumption, Types, MapIsInverse, EnsureExperts
  PROVE  MapIsInverse'
  <1> DEFINE l == compute[1].layer
  <1>1. l \in Layers
    BY ComputeHead, OpKinds DEF EnsureExperts, Running, Changers
  <1>2. PICK active \in SUBSET Experts : LookUp(l, active)
    BY EnsureLooksUp
  <1> HIDE DEF l
  <1> DEFINE F == Fetched(l, active)
             V(e) == Victim(l, active, e)
  <1>3. /\ F \subseteq active /\ \A e \in F : slot_for_id[Id(l, e)] = None
        /\ \A e \in F : V(e) \in Slots /\ V(e) # None
    BY <1>1, <1>2, LookUpFacts
  <1>4. /\ \A e \in F : slot_for_id'[Id(l, e)] = V(e)
        /\ \A i \in Ids : (\A e \in F : Id(l, e) # i) =>
             slot_for_id'[i] = IF \E e \in F : id_of_slot[V(e)] = i THEN None ELSE slot_for_id[i]
        /\ \A e \in F : id_of_slot'[V(e)] = Id(l, e)
        /\ \A s \in Slots : (\A e \in F : V(e) # s) => id_of_slot'[s] = id_of_slot[s]
    BY <1>2 DEF LookUp
  <1>5. /\ \A i \in Ids : slot_for_id[i] # None => slot_for_id[i] \in Slots /\ id_of_slot[slot_for_id[i]] = i
        /\ \A s \in Slots : id_of_slot[s] # None => id_of_slot[s] \in Ids /\ slot_for_id[id_of_slot[s]] = s
        /\ \A s \in Slots : s # None
    BY SlotNumbers DEF MapIsInverse, Types
  <1>6. \A e \in F : Id(l, e) \in Ids
    BY <1>1, <1>3, IdFacts
  <1> HIDE DEF F, V
  <1>7. ASSUME NEW i \in Ids, slot_for_id'[i] # None
        PROVE  id_of_slot'[slot_for_id'[i]] = i
    <2>1. CASE \E e \in F : Id(l, e) = i
      BY <1>4, <2>1
    <2>2. CASE \A e \in F : Id(l, e) # i
      <3>1. slot_for_id'[i] = slot_for_id[i] /\ \A e \in F : id_of_slot[V(e)] # i
        BY <1>4, <1>7, <2>2
      <3>2. slot_for_id[i] \in Slots /\ id_of_slot[slot_for_id[i]] = i
        BY <1>5, <1>7, <3>1
      <3>3. \A e \in F : V(e) # slot_for_id[i]
        BY <3>1, <3>2
      <3> QED BY <1>4, <3>1, <3>2, <3>3
    <2> QED BY <2>1, <2>2
  <1>8. ASSUME NEW s \in Slots, id_of_slot'[s] # None
        PROVE  slot_for_id'[id_of_slot'[s]] = s
    <2>1. CASE \E e \in F : V(e) = s
      BY <1>4, <2>1
    <2>2. CASE \A e \in F : V(e) # s
      <3>1. id_of_slot'[s] = id_of_slot[s]
        BY <1>4, <2>2
      <3>2. id_of_slot[s] \in Ids /\ slot_for_id[id_of_slot[s]] = s /\ s # None
        BY <1>5, <1>8, <3>1
      <3>3. \A e \in F : Id(l, e) # id_of_slot[s]
        BY <1>3, <3>2
      <3>4. \A e \in F : id_of_slot[V(e)] # id_of_slot[s]
        BY <1>3, <1>5, <2>2, <3>2, IdFacts
      <3> QED BY <1>4, <3>1, <3>2, <3>3, <3>4
    <2> QED BY <2>1, <2>2
  <1>9. cache_size' = cache_size
    BY DEF EnsureExperts, sizeVars
  <1> QED BY <1>7, <1>8, <1>9 DEF MapIsInverse, Slots

LEMMA MaterializeInverse ==
  ASSUME SizesAssumption, Types, MapIsInverse, MaterializeLayer
  PROVE  MapIsInverse'
  <1> DEFINE l == compute[1].layer
             ofLayer(s) == id_of_slot[s] \in {Id(l, e) : e \in Experts}
  <1>1. l \in Layers /\ l = Head(compute).layer
    BY ComputeHead, OpKinds DEF MaterializeLayer, Running, Changers
  <1>2. /\ slot_for_id' = Materialized(l)
        /\ id_of_slot' = [s \in Slots |-> IF s \in Experts THEN Id(l, s)
                                          ELSE IF ofLayer(s) THEN None ELSE id_of_slot[s]]
        /\ cache_size' = cache_size
    BY <1>1 DEF MaterializeLayer, sizeVars
  <1> HIDE DEF l
  <1>3. /\ \A i \in Ids : slot_for_id[i] # None => slot_for_id[i] \in Slots /\ id_of_slot[slot_for_id[i]] = i
        /\ \A s \in Slots : id_of_slot[s] # None => id_of_slot[s] \in Ids /\ slot_for_id[id_of_slot[s]] = s
        /\ \A s \in Slots : s # None
        /\ Experts \subseteq Slots
    BY SlotNumbers DEF MapIsInverse, Types
  <1>4. \A i \in Ids : (i \div NumExperts = l) <=> \E e \in Experts : Id(l, e) = i
    BY <1>1, IdFacts
  <1>5. ASSUME NEW i \in Ids
        PROVE  slot_for_id'[i] = IF i \div NumExperts = l THEN i % NumExperts
                                 ELSE IF \E s \in Experts : id_of_slot[s] = i THEN None ELSE slot_for_id[i]
    BY <1>2 DEF Materialized
  <1>6. ASSUME NEW i \in Ids, slot_for_id'[i] # None
        PROVE  id_of_slot'[slot_for_id'[i]] = i
    <2>1. CASE i \div NumExperts = l
      <3>1. i % NumExperts \in Experts /\ Id(l, i % NumExperts) = i
        BY <2>1, IdFacts
      <3> QED BY <1>2, <1>3, <1>5, <2>1, <3>1
    <2>2. CASE i \div NumExperts # l
      <3>1. slot_for_id'[i] = slot_for_id[i] /\ \A s \in Experts : id_of_slot[s] # i
        BY <1>5, <1>6, <2>2
      <3>2. slot_for_id[i] \in Slots /\ id_of_slot[slot_for_id[i]] = i
        BY <1>3, <1>6, <3>1
      <3>3. slot_for_id[i] \notin Experts /\ ~ofLayer(slot_for_id[i])
        BY <1>4, <2>2, <3>1, <3>2
      <3> QED BY <1>2, <3>1, <3>2, <3>3
    <2> QED BY <2>1, <2>2
  <1>7. ASSUME NEW s \in Slots, id_of_slot'[s] # None
        PROVE  slot_for_id'[id_of_slot'[s]] = s
    <2>1. CASE s \in Experts
      <3>1. id_of_slot'[s] = Id(l, s) /\ Id(l, s) \in Ids /\ Id(l, s) \div NumExperts = l /\ Id(l, s) % NumExperts = s
        BY <1>1, <1>2, <2>1, IdFacts
      <3> QED BY <1>5, <3>1
    <2>2. CASE s \notin Experts
      <3>1. id_of_slot'[s] = id_of_slot[s] /\ ~ofLayer(s)
        BY <1>2, <1>7, <2>2
      <3>2. id_of_slot[s] \in Ids /\ slot_for_id[id_of_slot[s]] = s
        BY <1>3, <1>7, <3>1
      <3>3. id_of_slot[s] \div NumExperts # l
        BY <1>4, <3>1, <3>2
      <3>4. \A x \in Experts : id_of_slot[x] # id_of_slot[s]
        BY <1>3, <1>7, <2>2, <3>1, <3>2
      <3> QED BY <1>5, <3>1, <3>2, <3>3, <3>4
    <2> QED BY <2>1, <2>2
  <1> QED BY <1>2, <1>6, <1>7 DEF MapIsInverse, Slots

LEMMA InvalidateInverse ==
  ASSUME SizesAssumption, Types, Mode, MapIsInverse, InvalidatePrefillBuffer
  PROVE  MapIsInverse'
  <1> DEFINE b == BufferOf(Head(copy).layer)
  <1>1. copy # <<>> /\ Head(copy).op = "invalidate"
    BY DEF InvalidatePrefillBuffer, Running
  <1>2. b \in {0, 1}
    <2>1. Head(copy).layer \in Layers
      BY <1>1, CopyHead, OpKinds
    <2> QED BY <2>1, LayerFacts
  <1>3. /\ slot_for_id' = Disowned(b)
        /\ id_of_slot' = [s \in Slots |-> IF s \in BufferSlots(b) THEN None ELSE id_of_slot[s]]
        /\ cache_size' = cache_size
    BY DEF InvalidatePrefillBuffer, sizeVars
  <1> HIDE DEF b
  <1>4. BufferSlots(b) \subseteq Slots
    BY <1>1, <1>2, SlotNumbers DEF Mode
  <1>5. /\ \A i \in Ids : slot_for_id[i] # None => slot_for_id[i] \in Slots /\ id_of_slot[slot_for_id[i]] = i
        /\ \A s \in Slots : id_of_slot[s] # None => id_of_slot[s] \in Ids /\ slot_for_id[id_of_slot[s]] = s
    BY DEF MapIsInverse, Types
  <1>6. \A i \in Ids : slot_for_id'[i] = IF \E s \in BufferSlots(b) : id_of_slot[s] = i THEN None ELSE slot_for_id[i]
    BY <1>3 DEF Disowned
  <1>7. ASSUME NEW i \in Ids, slot_for_id'[i] # None
        PROVE  id_of_slot'[slot_for_id'[i]] = i
    <2>1. slot_for_id'[i] = slot_for_id[i] /\ \A s \in BufferSlots(b) : id_of_slot[s] # i
      BY <1>6, <1>7
    <2>2. slot_for_id[i] \in Slots /\ id_of_slot[slot_for_id[i]] = i /\ slot_for_id[i] \notin BufferSlots(b)
      BY <1>5, <1>7, <2>1
    <2> QED BY <1>3, <2>1, <2>2
  <1>8. ASSUME NEW s \in Slots, id_of_slot'[s] # None
        PROVE  slot_for_id'[id_of_slot'[s]] = s
    <2>1. s \notin BufferSlots(b) /\ id_of_slot'[s] = id_of_slot[s]
      BY <1>3, <1>8
    <2>2. id_of_slot[s] \in Ids /\ slot_for_id[id_of_slot[s]] = s
      BY <1>5, <1>8, <2>1
    <2>3. \A x \in BufferSlots(b) : id_of_slot[x] # id_of_slot[s]
      BY <1>4, <1>5, <1>8, <2>1, <2>2
    <2> QED BY <1>6, <2>1, <2>2, <2>3
  <1> QED BY <1>3, <1>7, <1>8 DEF MapIsInverse, Slots

LEMMA InverseStep ==
  ASSUME SizesAssumption, Types, StreamRest, MapIsInverse, [Next]_vars
  PROVE  MapIsInverse'
  <1>1. CASE EnsureExperts
    BY <1>1, EnsureInverse
  <1>2. CASE MaterializeLayer
    BY <1>2, MaterializeInverse
  <1>3. CASE InvalidatePrefillBuffer
    BY <1>3, InvalidateInverse DEF StreamRest
  <1>4. CASE ResetCache
    <2>1. slot_for_id' = [i \in Ids |-> None] /\ id_of_slot' = [s \in Slots |-> None] /\ cache_size' = cache_size
      BY <1>4 DEF ResetCache, sizeVars
    <2> QED BY <2>1 DEF MapIsInverse, Slots
  <1>5. CASE Rebuild
    <2>1. slot_for_id' = [i \in Ids |-> None] /\ \A s \in Slots' : id_of_slot'[s] = None
      BY <1>5 DEF Rebuild, Slots
    <2> QED BY <2>1 DEF MapIsInverse
  <1>6. CASE ~EnsureExperts /\ ~MaterializeLayer /\ ~InvalidatePrefillBuffer /\ ~ResetCache /\ ~Rebuild
    <2>1. UNCHANGED <<slot_for_id, id_of_slot, cache_size>>
      BY <1>6 DEF Next, Compute, Copy, Host, Prefill, CopyMissing, Gemm, HitCompact, HitGather, ComputeEvent, CopyEvent,
                  Snapshot, LayerCopy, DecodePass, MaterializePass, BeginPrefill, Reset, SnapshotSynced,
                  PrefetchPrefillLayer, PrefetchCopies, ForwardLayer, vars, sizeVars, deviceVars, mapVars
    <2> QED BY <2>1 DEF MapIsInverse, Slots
  <1> QED BY <1>1, <1>2, <1>3, <1>4, <1>5, <1>6

-----------------------------------------------------------------------------
(* The routing of a decode step. *)

\* The host only adds to the compute queue, and touches neither routing nor hits.
LEMMA HostExtends ==
  ASSUME SizesAssumption, Types, Host
  PROVE  \E n \in Nat : Extends(compute', compute, n)
  <1>0. Len(compute) \in Nat /\ compute \in Seq(ComputeOps)
    BY LenProperties DEF Types
  <1>1. compute' = compute => Extends(compute', compute, 0)
    BY <1>0 DEF Extends
  <1>2. CASE DecodePass
    <2>1. compute' = compute \o PassOver(<<"ensure", "copy_missing", "gemm">>, 3)
      BY <1>2 DEF DecodePass
    <2>2. /\ Len(compute') = Len(compute) + 3 * NumLayers /\ 3 * NumLayers \in Nat \ {0}
          /\ \A i \in 1 .. Len(compute) : compute'[i] = compute[i]
      BY <2>1, PassEnqueued DEF Changers
    <2>3. 3 * NumLayers \in Nat /\ Extends(compute', compute, 3 * NumLayers)
      BY <1>0, <2>2 DEF Extends
    <2> QED BY <2>3
  <1>3. CASE MaterializePass
    <2>1. compute' = compute \o PassOver(<<"materialize", "copy_missing", "gemm_layer">>, 3)
      BY <1>3 DEF MaterializePass
    <2>2. /\ Len(compute') = Len(compute) + 3 * NumLayers /\ 3 * NumLayers \in Nat \ {0}
          /\ \A i \in 1 .. Len(compute) : compute'[i] = compute[i]
      BY <2>1, PassEnqueued DEF Changers
    <2>3. 3 * NumLayers \in Nat /\ Extends(compute', compute, 3 * NumLayers)
      BY <1>0, <2>2 DEF Extends
    <2> QED BY <2>3
  <1>4. CASE BeginPrefill
    <2>1. Extends(compute', compute, 1)
      BY <1>4, BeginEnqueues
    <2> QED BY <2>1
  <1>5. CASE Reset
    <2> DEFINE x == Op("reset", 0)
    <2>1. compute' = Append(compute, x)
      BY <1>5 DEF Reset
    <2>2. x \in ComputeOps
      BY NewOps, LayerFacts DEF Changers
    <2> HIDE DEF x
    <2>3. Len(compute') = Len(compute) + 1 /\ \A i \in 1 .. Len(compute) : compute'[i] = compute[i]
      BY ONLY <1>0, <2>1, <2>2, AppendFacts
    <2>4. Extends(compute', compute, 1)
      BY <1>0, <2>3 DEF Extends
    <2> QED BY <2>4
  <1>6. CASE PrefetchPrefillLayer
    <2>1. CASE PrefetchSkips
      BY <1>1, <2>1 DEF PrefetchSkips
    <2>2. CASE PrefetchTakes
      BY <2>2 DEF PrefetchTakes
    <2> QED BY <1>6, <2>1, <2>2, PrefetchCases
  <1>7. CASE ForwardLayer
    <2>1. Extends(compute', compute, 3)
      BY <1>7, ForwardEnqueues
    <2> QED BY <2>1
  <1>8. CASE Rebuild \/ SnapshotSynced \/ PrefetchCopies
    <2>1. compute' = compute
      BY <1>8 DEF Rebuild, SnapshotSynced, PrefetchCopies
    <2> QED BY <1>1, <2>1
  <1> QED BY <1>2, <1>3, <1>4, <1>5, <1>6, <1>7, <1>8 DEF Host, Prefill

LEMMA HostHead ==
  ASSUME SizesAssumption, Types, Types', Host, compute # <<>>
  PROVE  compute' # <<>> /\ Head(compute') = Head(compute) /\ compute'[1] = compute[1] /\ topk' = topk
  <1>1. PICK n \in Nat : Extends(compute', compute, n)
    BY HostExtends
  <1>2. Len(compute) \in Nat \ {0} /\ Head(compute) = compute[1]
    BY ComputeHead
  <1>3. compute'[1] = compute[1] /\ Len(compute') \in Nat \ {0}
    BY <1>1, <1>2 DEF Extends
  <1>4. compute' # <<>>
    BY <1>3
  <1>5. Head(compute') = compute'[1]
    BY <1>4, PopFacts DEF Types
  <1>6. topk' = topk
    BY DEF Host, Prefill, DecodePass, MaterializePass, BeginPrefill, Reset, Rebuild, SnapshotSynced,
           PrefetchPrefillLayer, PrefetchCopies, ForwardLayer, deviceVars
  <1> QED BY <1>2, <1>3, <1>4, <1>5, <1>6

\* The operation after the head of the compute queue.
LEMMA NextHead ==
  ASSUME SizesAssumption, Types, Types', Pop(compute', compute), Len(compute) >= 2
  PROVE  compute' # <<>> /\ Head(compute') = compute[2] /\ compute'[1] = compute[2] /\ 1 \in 1 .. Len(compute)
  <1>1. Len(compute) \in Nat /\ Len(compute') = Len(compute) - 1 /\ \A i \in 1 .. Len(compute) - 1 : compute'[i] = compute[i + 1]
    BY DEF Pop
  <1>2. Len(compute') # 0 /\ compute'[1] = compute[2] /\ 1 \in 1 .. Len(compute)
    BY <1>1
  <1>3. compute' # <<>>
    BY <1>2
  <1> QED BY <1>2, <1>3, PopFacts DEF Types

LEMMA RoutedStep ==
  ASSUME SizesAssumption, Types, StreamRest, Routed, Types', [Next]_vars
  PROVE  Routed'
  <1>1. CASE UNCHANGED vars
    BY <1>1 DEF Routed, Running, vars, deviceVars
  <1>2. CASE Host
    <2>1. CASE compute # <<>>
      BY <1>2, <2>1, HostHead DEF Routed, Running
    <2>2. CASE compute = <<>>
      <3>1. topk = {}
        BY <2>2 DEF Routed, Running
      <3>2. topk' = topk
        BY <1>2 DEF Host, Prefill, DecodePass, MaterializePass, BeginPrefill, Reset, Rebuild, SnapshotSynced,
                    PrefetchPrefillLayer, PrefetchCopies, ForwardLayer, deviceVars
      <3> QED BY <3>1, <3>2 DEF Routed
    <2> QED BY <2>1, <2>2
  <1>3. CASE Copy
    <2>1. compute' = compute /\ topk' = topk
      BY <1>3 DEF Copy, CopyEvent, Snapshot, InvalidatePrefillBuffer, LayerCopy, deviceVars
    <2> QED BY <2>1 DEF Routed, Running
  <1>4. CASE EnsureExperts \/ CopyMissing
    <2>1. Pop(compute', compute)
      BY <1>4, ComputeIsPop DEF Compute, ComputePops
    <2>2. compute # <<>> /\ Head(compute) = compute[1] /\ Len(compute) \in Nat \ {0}
      BY <1>4, ComputeHead DEF EnsureExperts, CopyMissing, Running
    <2>3. 1 \in 1 .. Len(compute) /\ Neighbours(compute, 1)
      BY <2>2 DEF StreamRest, Adjacent
    <2>4. /\ compute[1].op = "ensure" \/ compute[1].op = "copy_missing"
      BY <1>4, <2>2 DEF EnsureExperts, CopyMissing, Running
    <2>5. Len(compute) >= 2 /\ compute[2].op \in {"copy_missing", "gemm", "gemm_layer"}
      <3>1. 1 + 1 = 2 /\ (1 + 2 <= Len(compute) => 2 <= Len(compute))
        BY <2>2
      <3>2. CASE compute[1].op = "ensure"
        BY <2>2, <2>3, <3>1, <3>2 DEF Neighbours, Op
      <3>3. CASE compute[1].op = "copy_missing"
        BY <2>2, <2>3, <3>1, <3>3 DEF Neighbours, Op, GemmLayer
      <3> QED BY <2>4, <3>2, <3>3
    <2> QED BY <2>1, <2>5, NextHead DEF Routed, Running
  <1>5. CASE Gemm
    BY <1>5 DEF Gemm, Routed
  <1>6. CASE MaterializeLayer \/ ResetCache \/ HitCompact \/ HitGather \/ ComputeEvent
    <2>1. topk' = topk
      BY <1>6 DEF MaterializeLayer, ResetCache, HitCompact, HitGather, ComputeEvent
    <2>2. topk = {}
      BY <1>6 DEF MaterializeLayer, ResetCache, HitCompact, HitGather, ComputeEvent, EventOps, Running, Routed
    <2> QED BY <2>1, <2>2 DEF Routed
  <1> QED BY <1>1, <1>2, <1>3, <1>4, <1>5, <1>6 DEF Next, Compute

LEMMA StreamStep ==
  ASSUME SizesAssumption, StreamInv, MapIsInverse, [Next]_vars
  PROVE  StreamInv' /\ MapIsInverse'
  <1>1. Types' /\ StreamRest'
    BY ComputeStreams, CopyStreams, HostStreams, StreamStutters DEF StreamInv, Next
  <1>2. Routed'
    BY <1>1, RoutedStep DEF StreamInv
  <1>3. MapIsInverse'
    BY InverseStep DEF StreamInv
  <1> QED BY <1>1, <1>2, <1>3 DEF StreamInv

-----------------------------------------------------------------------------
(* The theorems of the streams and the map. *)

LEMMA StreamsInvariant == SizesAssumption => (Spec => [](StreamInv /\ MapIsInverse))
  <1> SUFFICES ASSUME SizesAssumption PROVE Spec => [](StreamInv /\ MapIsInverse)
    OBVIOUS
  <1>1. Init => StreamInv /\ MapIsInverse
    BY StreamInit
  <1>2. StreamInv /\ MapIsInverse /\ [Next]_vars => (StreamInv /\ MapIsInverse)'
    BY StreamStep
  <1> QED BY <1>1, <1>2, PTL DEF Spec

\* The two directions of the slot map are inverse to each other in every state, whichever of
\* the two streams wrote last.
THEOREM MapAlwaysInverse == SizesAssumption => (Spec => []MapIsInverse)
  BY StreamsInvariant, PTL

\* The assertions of prefetch_prefill_layer and wait_prefill_layer never fail: no buffer is
\* taken for another layer before it was released, and a layer waits for its own.
THEOREM BuffersNeverStolen == SizesAssumption => (Spec => []NeverReusedUnreleased)
  <1> SUFFICES ASSUME SizesAssumption PROVE Spec => []NeverReusedUnreleased
    OBVIOUS
  <1>1. StreamInv => NeverReusedUnreleased
    <2> SUFFICES ASSUME StreamInv PROVE NeverReusedUnreleased
      OBVIOUS
    <2> DEFINE l == host.layer
               t == host.target
    <2>1. Types /\ Cursor
      BY DEF StreamInv, StreamRest
    <2>2. l \in Nat /\ BufferOf(l) \in {0, 1} /\ BufferOf(l + 1) \in {0, 1} /\ BufferOf(t) \in {0, 1}
      BY <2>1, HostFacts, BufferFacts
    <2>3. host.at = "forward" => buffer_layer[BufferOf(l)] = l
      BY <2>1 DEF Cursor
    <2>4. ASSUME host.at = "prefetch" PROVE buffer_layer[BufferOf(t)] \in {None, t} \/ released[BufferOf(t)]
      <3>1. CASE Starting
        BY <2>1, <2>2, <3>1 DEF Cursor
      <3>2. CASE ~Starting
        <4>1. /\ t \in {l, l + 1} /\ buffer_layer[BufferOf(l)] = l /\ buffer_layer[BufferOf(l + 1)] = l - 1
              /\ \A b \in {0, 1} : buffer_layer[b] < l => released[b]
          BY <2>1, <2>4, <3>2 DEF Cursor
        <4>2. l - 1 < l
          BY <2>2
        <4> QED BY <2>2, <4>1, <4>2
      <3> QED BY <3>1, <3>2
    <2> QED BY <2>3, <2>4 DEF NeverReusedUnreleased
  <1> QED BY <1>1, StreamsInvariant, PTL

\* A decode step never takes a slot from one of its own experts, gives no two of them the
\* same slot, and leaves misses to the CPU only in the hybrid split.
THEOREM HitsAlwaysStay == SizesAssumption => (Spec => HitsStay)
  <1> SUFFICES ASSUME SizesAssumption PROVE Spec => HitsStay
    OBVIOUS
  <1> DEFINE Stays ==
        Running(compute, "ensure") =>
          \A r \in topk' :
            LET old == slot_for_id[Id(Head(compute).layer, r[1])]
            IN  /\ old # None => r[2] = old
                /\ r[2] = None => Hybrid
                /\ \A q \in topk' : q # r => r[2] = None \/ q[2] # r[2]
  <1>1. StreamInv /\ MapIsInverse /\ [Next]_vars => Stays
    <2> SUFFICES ASSUME StreamInv, MapIsInverse, [Next]_vars, Running(compute, "ensure"),
                        NEW r \in topk'
                 PROVE  LET old == slot_for_id[Id(Head(compute).layer, r[1])]
                        IN  /\ old # None => r[2] = old
                            /\ r[2] = None => Hybrid
                            /\ \A q \in topk' : q # r => r[2] = None \/ q[2] # r[2]
      OBVIOUS
    <2>0. Types /\ Routed /\ MapIsInverse' /\ Types'
      BY StreamStep DEF StreamInv
    <2>1. compute # <<>> /\ Head(compute) = compute[1] /\ compute[1].op = "ensure"
      BY <2>0, ComputeHead DEF Running
    <2>2. CASE ~EnsureExperts
      <3>1. topk = {}
        BY <2>0, <2>1 DEF Routed, Running
      <3>2. topk' = topk
        <4>1. CASE Host
          BY <2>0, <2>1, <4>1, HostHead
        <4>2. CASE ~Host
          BY <2>1, <2>2, <4>2 DEF Next, Compute, Copy, MaterializeLayer, CopyMissing, Gemm, ResetCache, HitCompact,
             HitGather, ComputeEvent, EventOps, Running, CopyEvent, Snapshot, InvalidatePrefillBuffer, LayerCopy,
             vars, deviceVars
        <4> QED BY <4>1, <4>2
      <3> QED BY <3>1, <3>2
    <2>3. CASE EnsureExperts
      <3> DEFINE l == compute[1].layer
      <3>1. l \in Layers /\ l = Head(compute).layer
        BY <2>0, <2>1, ComputeHead, OpKinds
      <3>2. PICK active \in SUBSET Experts : LookUp(l, active)
        BY <2>0, <2>3, EnsureLooksUp
      <3> HIDE DEF l
      <3>3. topk' = {<<e, slot_for_id'[Id(l, e)]>> : e \in active}
        BY <3>2 DEF LookUp
      <3>4. PICK e \in active : r = <<e, slot_for_id'[Id(l, e)]>>
        BY <3>3
      <3>5. /\ slot_for_id[Id(l, e)] # None => slot_for_id'[Id(l, e)] = slot_for_id[Id(l, e)]
            /\ ~Hybrid => slot_for_id'[Id(l, e)] # None
        BY <2>0, <3>1, <3>2, LookUpKeeps
      <3>6. Hybrid \in BOOLEAN
        BY DEF SizesAssumption
      <3>7. ASSUME NEW q \in topk', q # r, r[2] # None PROVE q[2] # r[2]
        <4>1. PICK f \in active : q = <<f, slot_for_id'[Id(l, f)]>>
          BY <3>3
        <4>2. f # e
          BY <3>4, <3>7, <4>1
        <4>3. Id(l, e) \in Ids /\ Id(l, f) \in Ids /\ Id(l, e) # Id(l, f)
          BY <3>1, <4>2, IdFacts
        <4>4. /\ slot_for_id'[Id(l, e)] # None
              /\ \A i \in Ids : slot_for_id'[i] # None => id_of_slot'[slot_for_id'[i]] = i
          BY <2>0, <3>4, <3>7 DEF MapIsInverse
        <4>5. slot_for_id'[Id(l, e)] # slot_for_id'[Id(l, f)]
          BY <4>3, <4>4
        <4> QED BY <3>4, <4>1, <4>5
      <3> QED BY <3>1, <3>4, <3>5, <3>6, <3>7
    <2> QED BY <2>2, <2>3
  <1>2. StreamInv /\ MapIsInverse /\ [Next]_vars => Stays
    BY <1>1
  <1>3. Spec => [](StreamInv /\ MapIsInverse)
    BY StreamsInvariant
  <1> HIDE DEF Stays
  <1>4. Spec => [][Stays]_vars
    BY <1>2, <1>3, PTL DEF Spec
  <1> QED BY <1>4 DEF Stays, HitsStay

-----------------------------------------------------------------------------
(* The bytes: who may read a buffer, and when nobody does. *)

\* Behind the GEMM of a layer stands the release of its buffer.
LEMMA ReleaseFollows ==
  ASSUME SizesAssumption, Types, Records, Adjacent, prefill_overlap,
         NEW i \in 1 .. Len(compute), compute[i].op = "gemm_layer"
  PROVE  LET b == BufferOf(compute[i].layer) IN
         /\ compute[i].layer \in Layers /\ b \in {0, 1} /\ compute[i] = GemmLayer(compute[i].layer)
         /\ i + 1 \in 1 .. Len(compute) /\ compute[i + 1].op = "record" /\ compute[i + 1].ev = Release(b)
         /\ Pending(Release(b))
  <1>1. compute[i].layer \in Layers /\ compute[i] = GemmLayer(compute[i].layer)
    BY QueueEvents, OpKinds DEF GemmLayer
  <1>2. Neighbours(compute, i)
    BY DEF Adjacent
  <1>3. Len(compute) \in Nat
    BY LenProperties DEF Types
  <1>4. /\ i + 1 <= Len(compute) /\ compute[i + 1].op = "record"
        /\ compute[i + 1].ev = Release(BufferOf(compute[i].layer))
    BY <1>2 DEF Neighbours
  <1>5. i + 1 \in 1 .. Len(compute)
    BY <1>3, <1>4
  <1> QED BY <1>1, <1>4, <1>5, LayerFacts DEF Records

\* At most one layer of a buffer is live.
LEMMA LiveOnce ==
  ASSUME SizesAssumption, Types, StreamRest, NEW x \in Layers, NEW y \in Layers, Live(x), Live(y),
         BufferOf(x) = BufferOf(y)
  PROVE  x = y
  <1>0. Types /\ Records /\ Adjacent /\ Fences
    BY DEF StreamRest
  <1>1. CASE Owned(x) /\ Owned(y)
    BY <1>1 DEF Owned
  <1>2. ASSUME NEW u \in Layers, NEW v \in Layers, Owned(u), BufferOf(u) = BufferOf(v), prefill_overlap,
               NEW i \in 1 .. Len(compute), compute[i] = GemmLayer(v)
        PROVE  FALSE
    <2>1. compute[i].op = "gemm_layer" /\ compute[i].layer = v
      BY <1>2 DEF GemmLayer, Op
    <2>2. Pending(Release(BufferOf(v)))
      BY <1>0, <1>2, <2>1, ReleaseFollows
    <2>3. ~Pending(Release(BufferOf(u)))
      BY <1>0, <1>2 DEF Fences
    <2> QED BY <1>2, <2>2, <2>3
  <1>3. ASSUME prefill_overlap, NEW i \in 1 .. Len(compute), NEW j \in 1 .. Len(compute),
               compute[i] = GemmLayer(x), compute[j] = GemmLayer(y)
        PROVE  x = y
    <2>1. /\ compute[i].op = "gemm_layer" /\ compute[i].layer = x
          /\ compute[j].op = "gemm_layer" /\ compute[j].layer = y
      BY <1>3 DEF GemmLayer, Op
    <2>2. i + 1 \in 1 .. Len(compute) /\ compute[i + 1].op = "record" /\ compute[i + 1].ev = Release(BufferOf(x))
      BY <1>0, <1>3, <2>1, ReleaseFollows
    <2>3. j + 1 \in 1 .. Len(compute) /\ compute[j + 1].op = "record" /\ compute[j + 1].ev = Release(BufferOf(y))
      BY <1>0, <1>3, <2>1, ReleaseFollows
    <2>4. i + 1 = j + 1
      BY <1>0, <2>2, <2>3 DEF Records
    <2>5. i = j
      BY <2>4
    <2> QED BY <2>1, <2>5
  <1> QED BY <1>1, <1>2, <1>3 DEF Live

\* Whatever changes the map or the bytes at the head of the compute queue: nothing is streamed.
LEMMA ChangerQuiet ==
  ASSUME SizesAssumption, Types, StreamRest, Filling, compute # <<>>, compute[1].op \in Changers
  PROVE  Quiet
  <1>1. Len(compute) \in Nat \ {0} /\ 1 \in 1 .. Len(compute)
    <2>1. Len(compute) \in Nat \ {0}
      BY ComputeHead
    <2> QED BY <2>1
  <1>2. host.at # "idle" => Pending(Begin)
    BY <1>1 DEF StreamRest, Order
  <1>3. \A l \in Layers : ~Owned(l)
    <2>1. \A l \in Layers : l # None /\ BufferOf(l) \in {0, 1}
      BY LayerFacts DEF None
    <2>2. host.at # "idle" => Starting
      BY <1>2 DEF StreamRest, Fences
    <2>3. host.at # "idle" => \A b \in {0, 1} : buffer_layer[b] = None
      BY <2>2 DEF StreamRest, Cursor
    <2> QED BY <2>1, <2>3 DEF Owned
  <1>4. prefill_overlap => \A i \in 1 .. Len(compute) : compute[i].op # "gemm_layer" /\ ~IsHitOp(compute[i])
    <2> SUFFICES ASSUME prefill_overlap, NEW i \in 1 .. Len(compute)
                 PROVE  compute[i].op # "gemm_layer" /\ ~IsHitOp(compute[i])
      OBVIOUS
    <2>1. IsPass(compute[1])
      BY DEF IsPass
    <2>2. i = 1 \/ 1 < i
      BY <1>1
    <2>3. IsPass(compute[i])
      BY <1>1, <2>1, <2>2 DEF StreamRest, Order
    <2> QED BY <2>3 DEF IsPass, IsBegin, Changers, IsHitOp
  <1>5. ~prefill_overlap => \A i \in 1 .. Len(compute) : ~IsHitOp(compute[i])
    BY DEF StreamRest, Mode, IsHitOp, Changers
  <1>6. \A l \in Layers : ~Live(l)
    BY <1>3, <1>4 DEF Live, GemmLayer, Op
  <1> QED BY <1>2, <1>4, <1>5, <1>6 DEF Quiet, Filling

LEMMA NoOverlapQuiet == SizesAssumption => (Types /\ StreamRest /\ ~prefill_overlap => Quiet)
  <1> SUFFICES ASSUME SizesAssumption, Types, StreamRest, ~prefill_overlap PROVE Quiet
    OBVIOUS
  <1>1. host.at = "idle" /\ copy = <<>> /\ \A i \in 1 .. Len(compute) : ~IsHitOp(compute[i])
    BY DEF StreamRest, Mode, IsHitOp, Changers
  <1> QED BY <1>1 DEF Quiet, Live, Owned, Copying

\* While nothing is streamed, only the map and the bytes of decode steps count.
LEMMA QuietRest ==
  SizesAssumption =>
    (Types /\ StreamRest /\ Quiet /\ (host.at # "idle" /\ hit_d2d_active => HitD2d /\ cache_size > 2 * NumExperts)
       => Filling /\ Snapshots /\ Rows)
  <1> SUFFICES ASSUME SizesAssumption, Types, StreamRest, Quiet,
                      host.at # "idle" /\ hit_d2d_active => HitD2d /\ cache_size > 2 * NumExperts
               PROVE  Filling /\ Snapshots /\ Rows
    OBVIOUS
  <1>1. host.at # "invalidate" \/ (copy # <<>> /\ ~hit_d2d_active)
    <2> SUFFICES ASSUME host.at = "invalidate" PROVE copy # <<>> /\ ~hit_d2d_active
      OBVIOUS
    <2>1. Pending(Begin)
      BY DEF Quiet
    <2>2. ~hit_d2d_active
      BY <2>1 DEF StreamRest, Fences
    <2>3. PICK p \in 1 .. Len(copy) : copy[p] = WaitOp(Begin, recorded[Begin])
      BY <2>1 DEF StreamRest, Fences
    <2>4. copy # <<>>
      <3>1. Len(<<>>) = 0
        BY EmptySeq
      <3> QED BY <2>3, <3>1
    <2> QED BY <2>2, <2>4
  <1>2. Filling
    <2>1. \A i \in 1 .. Len(compute), t \in Layers : compute[i] \notin HitsOf(t)
      BY DEF Quiet, HitsOf, IsHitOp, Op
    <2>2. \A t \in Layers : Taking(t) => copy # <<>> /\ ~hit_d2d_active
      BY <1>1 DEF Taking
    <2> QED BY <2>1, <2>2 DEF Filling, Quiet
  <1>3. Snapshots
    BY DEF Snapshots, Quiet
  <1>4. Rows
    BY <1>1 DEF Rows, Quiet, Taking
  <1> QED BY <1>2, <1>3, <1>4

-----------------------------------------------------------------------------
(* The bytes: what changes the map while nothing is streamed. *)

\* Such an operation keeps it that way.
LEMMA QuietPop ==
  ASSUME SizesAssumption, Types, StreamRest, Types', StreamRest', Filling, Quiet, ComputePops,
         compute[1].op # "record"
  PROVE  Filling' /\ Snapshots' /\ Rows'
  <1>1. done' = done /\ UNCHANGED <<copy, hostSide>>
    BY DEF ComputePops, Ran
  <1>2. \A i \in 1 .. Len(compute') : i + 1 \in 1 .. Len(compute) /\ compute'[i] = compute[i + 1]
    <2>1. Len(compute) \in Nat \ {0} /\ Len(compute') = Len(compute) - 1
      BY DEF ComputePops, Pop
    <2>2. \A i \in 1 .. Len(compute) - 1 : compute'[i] = compute[i + 1]
      BY DEF ComputePops, Pop
    <2> QED BY ONLY <2>1, <2>2
  <1>3. \A l \in Layers : Live(l)' => Live(l)
    <2> SUFFICES ASSUME NEW l \in Layers, Live(l)' PROVE Live(l)
      OBVIOUS
    <2>1. CASE Owned(l)'
      BY <1>1, <2>1 DEF Live, Owned, hostSide
    <2>2. CASE prefill_overlap' /\ \E i \in 1 .. Len(compute') : compute'[i] = GemmLayer(l)
      <3>1. \E i \in 1 .. Len(compute) : compute[i] = GemmLayer(l)
        BY <1>2, <2>2
      <3> QED BY <1>1, <2>2, <3>1 DEF Live, hostSide
    <2> QED BY <2>1, <2>2 DEF Live
  <1>4. Quiet'
    BY <1>1, <1>2, <1>3 DEF Quiet, Pending, hostSide, IsHitOp, Copying
  <1>5. (host.at # "idle" /\ hit_d2d_active => HitD2d /\ cache_size > 2 * NumExperts)'
    BY <1>1 DEF Filling, hostSide
  <1>6. (Types /\ StreamRest /\ Quiet
           /\ (host.at # "idle" /\ hit_d2d_active => HitD2d /\ cache_size > 2 * NumExperts)
              => Filling /\ Snapshots /\ Rows)'
    BY QuietRest, PTL
  <1> QED BY ONLY <1>4, <1>5, <1>6, Types', StreamRest'

\* What the bytes of the map are while the compute stream has work.
LEMMA BytesPlain ==
  ASSUME Bytes, compute # <<>> \/ host.at # "invalidate", NEW i \in Ids, slot_for_id[i] # None,
         <<slot_for_id[i], i>> \notin staged, NEW k \in Banks
  PROVE  data[k][slot_for_id[i]] = i
  BY DEF Bytes, Overwritten

\* The next operation belongs to no step that is under way.
LEMMA FreshHead ==
  ASSUME SizesAssumption, Types, Types', Adjacent, ComputePops,
         compute[1].op \notin {"ensure", "materialize", "copy_missing"}, compute' # <<>>
  PROVE  /\ compute'[1].op \notin {"copy_missing", "gemm"}
         /\ compute'[1].op = "gemm_layer" => prefill_overlap
  <1>1. Pop(compute', compute)
    BY DEF ComputePops
  <1>2. Len(compute) >= 2
    <2>1. Len(compute') \in Nat \ {0}
      <3>1. compute' \in Seq(ComputeOps)
        BY DEF Types
      <3> QED BY <3>1, PopFacts
    <2>2. Len(compute) \in Nat /\ Len(compute') = Len(compute) - 1
      BY <1>1 DEF Pop
    <2> QED BY ONLY <2>1, <2>2
  <1>3. compute'[1] = compute[2]
    BY <1>1, <1>2, NextHead
  <1>4. Neighbours(compute, 2)
    <2>1. Len(compute) \in Nat
      BY <1>1 DEF Pop
    <2>2. 2 \in 1 .. Len(compute)
      BY ONLY <1>2, <2>1
    <2> QED BY <2>2 DEF Adjacent
  <1>5. 2 > 1 /\ 2 - 1 = 1
    OBVIOUS
  <1>6. /\ compute[2].op = "copy_missing" => compute[1].op \in {"ensure", "materialize"}
        /\ compute[2].op = "gemm" => compute[1].op = "copy_missing"
        /\ compute[2].op = "gemm_layer" /\ ~prefill_overlap => compute[1].op = "copy_missing"
    BY <1>4, <1>5 DEF Neighbours, Op
  <1> QED BY <1>3, <1>6

LEMMA FreshSteps ==
  ASSUME SizesAssumption, Types, Types', Adjacent, ComputePops,
         compute[1].op \notin {"ensure", "materialize", "copy_missing"}, staged' = {}
  PROVE  Steps'
  <1>1. compute' # <<>> => /\ compute'[1].op \notin {"copy_missing", "gemm"}
                           /\ compute'[1].op = "gemm_layer" => prefill_overlap'
    BY FreshHead DEF ComputePops, hostSide
  <1>2. compute' # <<>> => Head(compute') = compute'[1]
    BY PopFacts DEF Types
  <1>3. ~Running(compute, "copy_missing")' /\ ~Running(compute, "gemm")'
    BY <1>1, <1>2 DEF Running
  <1>4. ~(Running(compute, "gemm_layer") /\ ~prefill_overlap)'
    BY <1>1, <1>2 DEF Running
  <1> QED BY <1>3, <1>4 DEF Steps

\* Only a decode step, or a materialized layer, stages anything, and nothing is staged before.
LEMMA NothingStaged ==
  ASSUME Types, Steps, ~Running(compute, "copy_missing")
  PROVE  staged = {}
  BY DEF Steps

LEMMA EnsureBytes ==
  ASSUME SizesAssumption, Types, Types', StreamRest, MapIsInverse, Bytes, Steps, EnsureExperts
  PROVE  Bytes' /\ Steps'
  <1>0. compute # <<>> /\ Head(compute).op = "ensure" /\ compute' = Tail(compute) /\ data' = data
    BY DEF EnsureExperts, Running
  <1>1. Head(compute) = compute[1] /\ compute[1] \in ComputeOps /\ compute[1].op = "ensure"
    BY <1>0, ComputeHead
  <1>2. compute[1].layer \in Layers
    BY <1>1, OpKinds
  <1>3. PICK active \in SUBSET Experts : LookUp(compute[1].layer, active)
    BY EnsureLooksUp
  <1> DEFINE l == compute[1].layer
             F == Fetched(l, active)
             V(e) == Victim(l, active, e)
  <1>4. staged = {}
    BY <1>0, NothingStaged DEF Running
  <1>5. F \subseteq active /\ F \subseteq Experts
    BY <1>2, <1>3, LookUpFacts
  <1>6. \A i \in Ids : slot_for_id'[i] # None /\ <<slot_for_id'[i], i>> \notin staged' => slot_for_id'[i] = slot_for_id[i]
    <2> SUFFICES ASSUME NEW i \in Ids, slot_for_id'[i] # None, <<slot_for_id'[i], i>> \notin staged'
                 PROVE  slot_for_id'[i] = slot_for_id[i]
      OBVIOUS
    <2>1. \A e \in F : Id(l, e) # i
      <3> SUFFICES ASSUME NEW e \in F, Id(l, e) = i PROVE FALSE
        OBVIOUS
      <3>1. slot_for_id'[i] = V(e) /\ <<V(e), i>> \in staged'
        BY <1>3 DEF LookUp
      <3> QED BY <3>1
    <2>2. slot_for_id'[i] = IF \E e \in F : id_of_slot[V(e)] = i THEN None ELSE slot_for_id[i]
      BY <1>3, <2>1 DEF LookUp
    <2> QED BY <2>2
  <1>7. Bytes'
    <2> SUFFICES ASSUME NEW i \in Ids, slot_for_id'[i] # None, <<slot_for_id'[i], i>> \notin staged', NEW k \in Banks
                 PROVE  data'[k][slot_for_id'[i]] = i
      BY DEF Bytes
    <2>1. slot_for_id'[i] = slot_for_id[i]
      BY <1>6
    <2> QED BY <1>0, <1>4, <2>1, BytesPlain
  <1>8. Len(compute) >= 3 /\ compute[2] = Op("copy_missing", l) /\ compute[3] = Op("gemm", l)
    <2>1. Neighbours(compute, 1)
      BY <1>0, ComputeHead DEF StreamRest, Adjacent
    <2>2. 1 + 2 <= Len(compute) /\ compute[1 + 1] = Op("copy_missing", l) /\ compute[1 + 2] = Op("gemm", l)
      BY <1>1, <2>1 DEF Neighbours
    <2>3. Len(compute) \in Nat
      BY <1>0, ComputeHead
    <2> QED BY <2>2, <2>3
  <1>9. compute' # <<>> /\ Head(compute') = compute[2] /\ compute'[1] = compute[2] /\ compute'[2] = compute[3]
    <2>1. Len(compute) \in Nat \ {0}
      BY <1>0, ComputeHead
    <2>2. Len(compute) >= 2 /\ 2 \in 1 .. Len(compute) - 1
      BY ONLY <1>8, <2>1
    <2>3. Pop(compute', compute)
      BY <1>0, ComputeHead DEF Pop
    <2>4. compute'[2] = compute[2 + 1]
      BY <2>2, <2>3 DEF Pop
    <2> QED BY <2>2, <2>3, <2>4, NextHead
  <1>10. /\ Head(compute').op = "copy_missing" /\ Head(compute').layer = l /\ compute'[2].op = "gemm"
         /\ compute'[1].layer = l
    BY <1>8, <1>9 DEF Op
  <1>11. \A a \in staged' : slot_for_id'[a[2]] = a[1]
    BY <1>3 DEF LookUp
  <1>12. \A r \in topk' : slot_for_id'[Id(compute'[1].layer, r[1])] = r[2]
    BY <1>3, <1>10 DEF LookUp
  <1>13. /\ Running(compute, "copy_missing")'
         /\ ~(Running(compute, "copy_missing") /\ compute[2].op = "gemm_layer")'
         /\ ~(Running(compute, "gemm_layer") /\ ~prefill_overlap)'
    BY <1>9, <1>10 DEF Running
  <1>14. Steps'
    BY <1>11, <1>12, <1>13 DEF Steps
  <1> QED BY <1>7, <1>14

LEMMA MaterializeBytes ==
  ASSUME SizesAssumption, Types, Types', StreamRest, Bytes, Steps, MaterializeLayer
  PROVE  Bytes' /\ Steps'
  <1>0. compute # <<>> /\ Head(compute).op = "materialize" /\ compute' = Tail(compute) /\ data' = data
    BY DEF MaterializeLayer, Running
  <1>1. Head(compute) = compute[1] /\ compute[1] \in ComputeOps /\ compute[1].op = "materialize"
    BY <1>0, ComputeHead
  <1>2. compute[1].layer \in Layers
    BY <1>1, OpKinds
  <1> DEFINE l == compute[1].layer
  <1>3. slot_for_id' = Materialized(l) /\ staged' = {<<e, Id(l, e)>> : e \in Experts}
    BY <1>1 DEF MaterializeLayer
  <1>4. staged = {}
    BY <1>0, NothingStaged DEF Running
  <1>5. \A i \in Ids : slot_for_id'[i] # None /\ <<slot_for_id'[i], i>> \notin staged' => slot_for_id'[i] = slot_for_id[i]
    <2> SUFFICES ASSUME NEW i \in Ids, slot_for_id'[i] # None, <<slot_for_id'[i], i>> \notin staged'
                 PROVE  slot_for_id'[i] = slot_for_id[i]
      OBVIOUS
    <2>1. i \div NumExperts # l
      <3> SUFFICES ASSUME i \div NumExperts = l PROVE FALSE
        OBVIOUS
      <3>1. i % NumExperts \in Experts /\ Id(l, i % NumExperts) = i
        BY IdFacts
      <3>2. slot_for_id'[i] = i % NumExperts
        BY <1>3 DEF Materialized
      <3>3. <<i % NumExperts, Id(l, i % NumExperts)>> \in staged'
        BY <1>3, <3>1
      <3> QED BY <3>1, <3>2, <3>3
    <2>2. slot_for_id'[i] = IF \E s \in Experts : id_of_slot[s] = i THEN None ELSE slot_for_id[i]
      BY <1>3, <2>1 DEF Materialized
    <2> QED BY <2>2
  <1>7. Bytes'
    <2> SUFFICES ASSUME NEW i \in Ids, slot_for_id'[i] # None, <<slot_for_id'[i], i>> \notin staged', NEW k \in Banks
                 PROVE  data'[k][slot_for_id'[i]] = i
      BY DEF Bytes
    <2>1. slot_for_id'[i] = slot_for_id[i]
      BY <1>5
    <2> QED BY <1>0, <1>4, <2>1, BytesPlain
  <1>8. Len(compute) >= 3 /\ compute[2] = Op("copy_missing", l) /\ compute[3] = GemmLayer(l)
    <2>1. Neighbours(compute, 1)
      BY <1>0, ComputeHead DEF StreamRest, Adjacent
    <2>2. 1 + 2 <= Len(compute) /\ compute[1 + 1] = Op("copy_missing", l) /\ compute[1 + 2] = GemmLayer(l)
      BY <1>1, <2>1 DEF Neighbours
    <2>3. Len(compute) \in Nat
      BY <1>0, ComputeHead
    <2> QED BY <2>2, <2>3
  <1>9. compute' # <<>> /\ Head(compute') = compute[2] /\ compute'[1] = compute[2] /\ compute'[2] = compute[3]
    <2>1. Len(compute) \in Nat \ {0}
      BY <1>0, ComputeHead
    <2>2. Len(compute) >= 2 /\ 2 \in 1 .. Len(compute) - 1
      BY ONLY <1>8, <2>1
    <2>3. Pop(compute', compute)
      BY <1>0, ComputeHead DEF Pop
    <2>4. compute'[2] = compute[2 + 1]
      BY <2>2, <2>3 DEF Pop
    <2> QED BY <2>2, <2>3, <2>4, NextHead
  <1>10. /\ Head(compute').op = "copy_missing" /\ compute'[2].op = "gemm_layer" /\ compute'[1].layer = l
    BY <1>8, <1>9 DEF Op, GemmLayer
  <1>11. \A e \in Experts : slot_for_id'[Id(l, e)] = e
    <2> TAKE e \in Experts
    <2>1. Id(l, e) \in Ids /\ Id(l, e) \div NumExperts = l /\ Id(l, e) % NumExperts = e
      BY <1>2, IdFacts
    <2> QED BY <1>3, <2>1 DEF Materialized
  <1>12. \A a \in staged' : slot_for_id'[a[2]] = a[1]
    BY <1>3, <1>11
  <1>13. /\ Running(compute, "copy_missing")'
         /\ ~(Running(compute, "copy_missing") /\ compute[2].op = "gemm")'
         /\ ~Running(compute, "gemm")'
    BY <1>9, <1>10 DEF Running
  <1>14. Steps'
    BY <1>10, <1>11, <1>12, <1>13 DEF Steps
  <1> QED BY <1>7, <1>14

LEMMA CopyMissingBytes ==
  ASSUME SizesAssumption, Types, Types', StreamRest, MapIsInverse, Bytes, Steps, CopyMissing
  PROVE  Bytes' /\ Steps'
  <1>0. compute # <<>> /\ Head(compute).op = "copy_missing" /\ compute' = Tail(compute) /\ staged' = {}
    BY DEF CopyMissing, Running
  <1>1. slot_for_id' = slot_for_id /\ topk' = topk /\ sizeVars' = sizeVars
    BY DEF CopyMissing, mapVars
  <1>2. Bytes'
    <2> SUFFICES ASSUME NEW i \in Ids, slot_for_id[i] # None, NEW k \in Banks
                 PROVE  data'[k][slot_for_id[i]] = i
      BY <1>0, <1>1 DEF Bytes
    <2> DEFINE s == slot_for_id[i]
    <2>1. s \in Slots /\ id_of_slot[s] = i
      BY DEF Types, MapIsInverse
    <2>2. data'[k][s] = IF \E a \in staged : a[1] = s THEN (CHOOSE a \in staged : a[1] = s)[2] ELSE data[k][s]
      BY <2>1 DEF CopyMissing
    <2>3. \A a \in staged : a[1] = s => a[2] = i
      <3> SUFFICES ASSUME NEW a \in staged, a[1] = s PROVE a[2] = i
        OBVIOUS
      <3>1. a[2] \in Ids /\ s # None
        BY DEF Types
      <3>2. slot_for_id[a[2]] = s
        BY DEF Steps
      <3> QED BY <2>1, <3>1, <3>2 DEF MapIsInverse
    <2>4. CASE \E a \in staged : a[1] = s
      BY <2>2, <2>3, <2>4
    <2>5. CASE ~\E a \in staged : a[1] = s
      <3>1. <<s, i>> \notin staged
        BY <2>5
      <3>2. data[k][s] = i
        BY <1>0, <3>1, BytesPlain
      <3> QED BY <2>2, <2>5, <3>2
    <2> QED BY <2>4, <2>5
  <1>3. Neighbours(compute, 1) /\ Head(compute) = compute[1] /\ Len(compute) \in Nat \ {0}
    BY <1>0, ComputeHead DEF StreamRest, Adjacent
  <1>4. 1 + 1 <= Len(compute) /\ compute[1 + 1] \in {Op("gemm", compute[1].layer), GemmLayer(compute[1].layer)}
    BY <1>0, <1>3 DEF Neighbours
  <1>5. Len(compute) >= 2 /\ compute[2] \in {Op("gemm", compute[1].layer), GemmLayer(compute[1].layer)}
    BY <1>3, <1>4
  <1>6. compute' # <<>> /\ Head(compute') = compute[2] /\ compute'[1] = compute[2]
    <2>1. Pop(compute', compute)
      BY <1>0, ComputeHead DEF Pop
    <2> QED BY <1>5, <2>1, NextHead
  <1>7. compute'[1].layer = compute[1].layer /\ compute[2].op \in {"gemm", "gemm_layer"}
    BY <1>5, <1>6 DEF Op, GemmLayer
  <1>8. Running(compute, "gemm")' => \A r \in topk' : r[2] # None => slot_for_id'[Id(compute'[1].layer, r[1])] = r[2]
    BY <1>0, <1>1, <1>6, <1>7 DEF Steps, Running
  <1>9. Running(compute, "gemm_layer")' => \A e \in Experts : slot_for_id'[Id(compute'[1].layer, e)] = e
    BY <1>0, <1>1, <1>6, <1>7 DEF Steps, Running
  <1>10. ~Running(compute, "copy_missing")'
    BY <1>6, <1>7 DEF Running
  <1>11. Steps'
    BY <1>0, <1>8, <1>9, <1>10 DEF Steps
  <1> QED BY <1>2, <1>11

LEMMA GemmBytes ==
  ASSUME SizesAssumption, Types, Types', StreamRest, Bytes, Steps, Gemm, ComputePops
  PROVE  Bytes' /\ Steps'
  <1>1. compute # <<>> /\ compute[1].op \in {"gemm", "gemm_layer"} /\ ~Running(compute, "copy_missing")
    BY ComputeHead DEF Gemm, Running
  <1>2. staged = {}
    BY <1>1, NothingStaged
  <1>3. staged' = staged /\ slot_for_id' = slot_for_id /\ data' = data
    BY DEF Gemm, mapVars
  <1>4. Bytes'
    <2> SUFFICES ASSUME NEW i \in Ids, slot_for_id[i] # None, NEW k \in Banks
                 PROVE  data[k][slot_for_id[i]] = i
      BY <1>3 DEF Bytes
    <2> QED BY <1>1, <1>2, BytesPlain
  <1>5. Steps'
    BY <1>1, <1>2, <1>3, FreshSteps DEF StreamRest
  <1> QED BY <1>4, <1>5

LEMMA ResetBytes ==
  ASSUME SizesAssumption, Types, Types', StreamRest, ResetCache, ComputePops
  PROVE  Bytes' /\ Steps'
  <1>1. compute # <<>> /\ compute[1].op = "reset"
    BY ComputeHead DEF ResetCache, Running
  <1>2. staged' = {} /\ slot_for_id' = [i \in Ids |-> None]
    BY DEF ResetCache
  <1>3. Bytes'
    BY <1>2 DEF Bytes
  <1>4. Steps'
    BY <1>1, <1>2, FreshSteps DEF StreamRest
  <1> QED BY <1>3, <1>4

\* What changes the map or its bytes on the compute stream.
LEMMA ChangerMap ==
  ASSUME SizesAssumption, Types, StreamRest, Types', StreamRest', MapInv, MapIsInverse',
         EnsureExperts \/ MaterializeLayer \/ CopyMissing \/ ResetCache \/ (Gemm /\ (~prefill_overlap \/ compute[1].op = "gemm"))
  PROVE  MapInv'
  <1>1. ComputePops
    BY ComputeIsPop DEF Compute
  <1>2. compute # <<>> /\ compute[1].op \in Changers \cup {"gemm_layer"}
        /\ (compute[1].op = "gemm_layer" => ~prefill_overlap)
    BY ComputeHead DEF EnsureExperts, MaterializeLayer, CopyMissing, ResetCache, Gemm, Running, Changers
  <1>3. Quiet
    <2>1. CASE compute[1].op \in Changers
      BY <1>2, <2>1, ChangerQuiet DEF MapInv
    <2>2. CASE ~prefill_overlap
      BY <2>2, NoOverlapQuiet
    <2> QED BY <1>2, <2>1, <2>2
  <1>4. Filling' /\ Snapshots' /\ Rows'
    BY <1>1, <1>2, <1>3, QuietPop DEF MapInv, Changers
  <1>5. Bytes' /\ Steps'
    BY <1>1, EnsureBytes, MaterializeBytes, CopyMissingBytes, GemmBytes, ResetBytes DEF MapInv
  <1> QED BY <1>4, <1>5 DEF MapInv

-----------------------------------------------------------------------------
(* The bytes: the compute stream runs a streamed chunk. *)

LEMMA PopShift ==
  ASSUME NEW q, NEW q2, Pop(q2, q)
  PROVE  /\ Len(q2) \in Nat /\ Len(q) \in Nat \ {0} /\ Len(q) = Len(q2) + 1
         /\ \A i \in 1 .. Len(q2) : i + 1 \in 1 .. Len(q) /\ q2[i] = q[i + 1]
         /\ \A j \in 1 .. Len(q) : j = 1 \/ (j - 1 \in 1 .. Len(q2) /\ q2[j - 1] = q[j])
  <1>1. Len(q) \in Nat \ {0} /\ Len(q2) = Len(q) - 1 /\ \A i \in 1 .. Len(q) - 1 : q2[i] = q[i + 1]
    BY DEF Pop
  <1>2. Len(q2) \in Nat /\ Len(q) = Len(q2) + 1
    BY ONLY <1>1
  <1>3. \A i \in 1 .. Len(q2) : i + 1 \in 1 .. Len(q) /\ q2[i] = q[i + 1]
    BY ONLY <1>1
  <1>4. ASSUME NEW j \in 1 .. Len(q), j # 1
        PROVE  j - 1 \in 1 .. Len(q2) /\ q2[j - 1] = q[j]
    <2>1. j - 1 \in 1 .. Len(q2) /\ (j - 1) + 1 = j
      BY ONLY <1>1, <1>4
    <2> QED BY <1>3, <2>1
  <1> QED BY <1>1, <1>2, <1>3, <1>4

\* A layer is live until its GEMM has run.
LEMMA PopLive ==
  ASSUME ComputePops, NEW l
  PROVE  /\ Live(l)' => Live(l)
         /\ Live(l) => Live(l)' \/ compute[1] = GemmLayer(l)
         /\ Owned(l)' <=> Owned(l)
  <1>1. UNCHANGED hostSide /\ Pop(compute', compute)
    BY DEF ComputePops
  <1>2. Owned(l)' <=> Owned(l)
    BY <1>1 DEF Owned, hostSide
  <1>3. Live(l)' => Live(l)
    BY <1>1, <1>2, PopShift DEF Live, hostSide
  <1>4. Live(l) => Live(l)' \/ compute[1] = GemmLayer(l)
    <2> SUFFICES ASSUME prefill_overlap, NEW i \in 1 .. Len(compute), compute[i] = GemmLayer(l), i # 1
                 PROVE  Live(l)'
      BY <1>2 DEF Live
    <2>1. i - 1 \in 1 .. Len(compute') /\ compute'[i - 1] = GemmLayer(l)
      BY <1>1, PopShift
    <2> QED BY <1>1, <2>1 DEF Live, hostSide
  <1> QED BY <1>2, <1>3, <1>4

\* What runs on the compute stream without touching the map or the bytes.
StreamPop ==
  /\ ComputePops /\ prefill_overlap /\ compute[1].op \in {"gemm_layer", "wait", "record", "compact"}
  /\ UNCHANGED <<slot_for_id, id_of_slot, data, staged, snapshot>>
  /\ compute[1].op = "compact" => hits' = HitRows(compute[1].layer)

LEMMA StreamPopFilling ==
  ASSUME SizesAssumption, Types, StreamRest, Types', Filling, ComputePops, prefill_overlap,
         UNCHANGED <<slot_for_id, id_of_slot>>, compute[1].op = "compact" => hits' = HitRows(compute[1].layer)
  PROVE  Filling'
  <1>1. Pop(compute', compute) /\ UNCHANGED <<copy, hostSide, slot_for_id, id_of_slot>> /\ ComputePops
    BY DEF ComputePops
  <1>2. \A b : Free(b)' <=> Free(b)
    BY <1>1 DEF Free, BufferSlots
  <1>3. (host.at # "idle" /\ hit_d2d_active => HitD2d /\ cache_size > 2 * NumExperts)'
    BY <1>1 DEF Filling, hostSide
  <1>4. ASSUME NEW l \in Layers, Copying(l) PROVE Live(l)' /\ Free(BufferOf(l))'
    <2>1. Live(l) /\ Free(BufferOf(l))
      BY <1>4 DEF Filling
    <2>2. compute[1] # GemmLayer(l)
      <3> SUFFICES ASSUME compute[1] = GemmLayer(l) PROVE FALSE
        OBVIOUS
      <3>1. compute # <<>> /\ Head(compute) = compute[1]
        BY <1>1, ComputeHead DEF Pop
      <3>2. compute[1].op = "gemm_layer" /\ compute[1].layer = l
        BY DEF GemmLayer, Op
      <3>3. ~Pending(Ready(BufferOf(l)))
        BY <3>1, <3>2 DEF StreamRest, Adjacent, Running
      <3>4. Len(copy) \in Nat \ {0}
        BY <1>4, CopyHead DEF Copying
      <3>5. 1 \in 1 .. Len(copy)
        BY ONLY <3>4
      <3>6. Len(copy) >= 2 /\ copy[2].op = "record" /\ copy[2].ev = Ready(BufferOf(l))
        BY <1>4, <3>5 DEF StreamRest, CopyQueue, Copying
      <3>7. 2 \in 1 .. Len(copy)
        BY ONLY <3>4, <3>6
      <3> QED BY <3>3, <3>6, <3>7 DEF StreamRest, Records
    <2> QED BY <1>1, <1>2, <2>1, <2>2, PopLive
  <1>5. ASSUME NEW i \in 1 .. Len(compute'), NEW t \in Layers, compute'[i] \in HitsOf(t)
        PROVE  Gathering(i, t)'
    <2>0. /\ Len(compute') \in Nat /\ Len(compute) \in Nat \ {0} /\ Len(compute) = Len(compute') + 1
          /\ i + 1 \in 1 .. Len(compute) /\ compute'[i] = compute[i + 1]
          /\ \A j \in 1 .. Len(compute') : j + 1 \in 1 .. Len(compute) /\ compute'[j] = compute[j + 1]
          /\ \A j \in 1 .. Len(compute) : j = 1 \/ (j - 1 \in 1 .. Len(compute') /\ compute'[j - 1] = compute[j])
      BY <1>1, PopShift
    <2>2. Gathering(i + 1, t)
      BY <1>5, <2>0 DEF Filling
    <2>3. Taking(t)' <=> Taking(t)
      BY <1>1 DEF Taking, hostSide
    <2>4. i + 1 >= Len(compute) - 1 => i >= Len(compute') - 1
      BY ONLY <2>0
    <2>5. ASSUME NEW j \in i + 1 .. Len(compute)
          PROVE  j - 1 \in i .. Len(compute') /\ compute'[j - 1] = compute[j]
      <3>1. j \in 1 .. Len(compute) /\ j # 1 /\ j - 1 \in i .. Len(compute')
        BY ONLY <2>0, <2>5
      <3> QED BY <2>0, <3>1
    <2>6. ASSUME NEW j \in i .. Len(compute')
          PROVE  j + 1 \in i + 1 .. Len(compute) /\ compute'[j] = compute[j + 1]
      <3>1. j \in 1 .. Len(compute') /\ j + 1 \in i + 1 .. Len(compute)
        BY ONLY <2>0, <2>6
      <3> QED BY <2>0, <3>1
    <2>7. \/ Taking(t)' /\ i >= Len(compute') - 1
          \/ Free(BufferOf(t))' /\ Owned(t)'
          \/ Free(BufferOf(t))' /\ \E j \in i .. Len(compute') : compute'[j] = GemmLayer(t)
      <3>1. (\E j \in i + 1 .. Len(compute) : compute[j] = GemmLayer(t))
              => \E j \in i .. Len(compute') : compute'[j] = GemmLayer(t)
        BY <2>5
      <3>2. Owned(t)' <=> Owned(t)
        BY <1>1, PopLive
      <3>3. Free(BufferOf(t))' <=> Free(BufferOf(t))
        BY <1>2
      <3>4. \/ Taking(t) /\ i + 1 >= Len(compute) - 1
            \/ Free(BufferOf(t)) /\ Owned(t)
            \/ Free(BufferOf(t)) /\ \E j \in i + 1 .. Len(compute) : compute[j] = GemmLayer(t)
        BY <2>2 DEF Gathering
      <3> QED BY <2>3, <2>4, <3>1, <3>2, <3>3, <3>4
    <2>8. \A j \in i .. Len(compute'), l \in Layers :
            compute'[j] = GemmLayer(l) /\ BufferOf(l) = BufferOf(t) => l = t
      BY <2>2, <2>6 DEF Gathering
    <2>9. ASSUME i = 1, compute'[i] = Op("gather", t) PROVE hits' = HitRows(t)'
      <3>1. compute[1 + 1].op = "gather" /\ compute[1 + 1].layer = t /\ 1 + 1 \in 1 .. Len(compute)
        BY <2>0, <2>9 DEF Op
      <3>2. Neighbours(compute, 1 + 1)
        BY <3>1 DEF StreamRest, Adjacent
      <3>3. 1 + 1 > 1 /\ (1 + 1) - 1 = 1
        OBVIOUS
      <3>4. compute[1] = Op("compact", t)
        BY <3>1, <3>2, <3>3 DEF Neighbours
      <3>5. hits' = HitRows(t)
        BY <3>4 DEF Op
      <3>6. HitRows(t)' = HitRows(t)
        BY <1>1 DEF HitRows
      <3> QED BY <3>5, <3>6
    <2>10. hit_d2d_active' /\ HitD2d /\ cache_size' > 2 * NumExperts
      BY <1>1, <2>2 DEF hostSide, Gathering
    <2> QED BY <2>7, <2>8, <2>9, <2>10 DEF Gathering
  <1>6. ASSUME NEW t \in Layers, Taking(t)'
        PROVE  /\ copy' = <<>> => Free(BufferOf(t))'
               /\ hit_d2d_active' /\ compute' # <<>> => compute'[Len(compute')] = Op("gather", t)
    <2>0. Taking(t)
      BY <1>1, <1>6 DEF Taking, hostSide
    <2>1. copy' = <<>> => Free(BufferOf(t))'
      BY <1>1, <1>2, <2>0 DEF Filling
    <2>2. ASSUME hit_d2d_active', compute' # <<>> PROVE compute'[Len(compute')] = Op("gather", t)
      <3>1. compute[Len(compute)] = Op("gather", t)
        BY <1>1, <2>0, <2>2 DEF Filling, Pop, hostSide
      <3>2. Len(compute') \in Nat \ {0}
        BY <2>2, PopFacts DEF Types
      <3>3. compute'[Len(compute')] = compute[Len(compute') + 1] /\ Len(compute) = Len(compute') + 1
        <4>1. Len(compute') \in 1 .. Len(compute')
          BY ONLY <3>2
        <4> QED BY <1>1, <4>1, PopShift
      <3> QED BY <3>1, <3>3
    <2> QED BY <2>1, <2>2
  <1>7. \A l \in Layers : Copying(l)' => Live(l)' /\ Free(BufferOf(l))'
    BY <1>1, <1>4 DEF Copying
  <1> QED BY <1>3, <1>5, <1>6, <1>7 DEF Filling

LEMMA StreamPopSnapshots ==
  ASSUME StreamRest, Snapshots, ComputePops, UNCHANGED <<slot_for_id, snapshot>>
  PROVE  Snapshots'
  <1>1. Pop(compute', compute) /\ UNCHANGED <<copy, hostSide>>
    BY DEF ComputePops
  <1>2. Matches' <=> Matches
    BY DEF Matches
  <1>3. (\E i \in 1 .. Len(compute') : IsHitOp(compute'[i])) => Matches
    BY <1>1, PopShift DEF Snapshots
  <1>4. ASSUME hit_d2d_active, host.at # "idle", ~Pending(Begin)', ~(host.at = "snapshot" /\ copy # <<>>)
        PROVE  Matches
    <2>1. CASE ~Pending(Begin)
      BY <1>4, <2>1 DEF Snapshots
    <2>2. CASE Pending(Begin)
      <3>1. host.at = "snapshot"
        BY <1>4, <2>2 DEF StreamRest, Fences
      <3>2. PICK p \in 1 .. Len(copy) : copy[p] = WaitOp(Begin, recorded[Begin])
        BY <2>2 DEF StreamRest, Fences
      <3>3. Len(<<>>) = 0
        BY EmptySeq
      <3>4. copy # <<>>
        BY <3>2, <3>3
      <3> QED BY <1>4, <3>1, <3>4
    <2> QED BY <2>1, <2>2
  <1> QED BY <1>1, <1>2, <1>3, <1>4 DEF Snapshots, hostSide

LEMMA StreamPopRest ==
  ASSUME SizesAssumption, Types, StreamRest, Types', MapInv, StreamPop
  PROVE  Snapshots' /\ Bytes' /\ Steps' /\ Rows'
  <1>1. Pop(compute', compute) /\ UNCHANGED <<copy, hostSide, slot_for_id, id_of_slot, data, staged, snapshot>> /\ ComputePops
    BY DEF StreamPop, ComputePops
  <1>2. compute # <<>> /\ Head(compute) = compute[1]
    BY <1>1, ComputeHead DEF Pop
  <1>3. staged = {}
    BY <1>2, NothingStaged DEF MapInv, StreamPop, Running
  <1>4. Bytes'
    <2> SUFFICES ASSUME NEW i \in Ids, slot_for_id[i] # None, NEW k \in Banks
                 PROVE  data[k][slot_for_id[i]] = i
      BY <1>1 DEF Bytes
    <2> QED BY <1>2, <1>3, BytesPlain DEF MapInv
  <1>5. Steps'
    BY <1>1, <1>3, FreshSteps DEF StreamRest, StreamPop
  <1>7. Snapshots'
    BY <1>1, StreamPopSnapshots DEF MapInv
  <1>8. Rows'
    <2>1. ASSUME NEW l \in Layers, Live(l)', NEW k \in Banks, NEW e \in Experts PROVE Row(l, k, e)'
      <3>1. Live(l)
        BY <1>1, <2>1, PopLive
      <3>2. Row(l, k, e)
        BY <3>1 DEF MapInv, Rows
      <3>3. (\E j \in 1 .. Len(compute) : compute[j] = Op("gather", l)) => \E j \in 1 .. Len(compute') : compute'[j] = Op("gather", l)
        <4> SUFFICES ASSUME NEW j \in 1 .. Len(compute), compute[j] = Op("gather", l)
                     PROVE  \E m \in 1 .. Len(compute') : compute'[m] = Op("gather", l)
          OBVIOUS
        <4>1. j # 1
          BY DEF StreamPop, Op
        <4>2. j - 1 \in 1 .. Len(compute') /\ compute'[j - 1] = compute[j]
          BY <1>1, <4>1, PopShift
        <4> QED BY <4>2
      <3> QED BY <1>1, <3>2, <3>3 DEF Row, Copying
    <2>2. ASSUME NEW t \in Layers, Taking(t)', hit_d2d_active', compute' = <<>> PROVE FALSE
      <3>1. compute[Len(compute)] = Op("gather", t)
        <4>1. Taking(t) /\ hit_d2d_active
          BY <1>1, <2>2 DEF Taking, hostSide
        <4>2. Filling
          BY DEF MapInv
        <4> QED BY <1>2, <4>1, <4>2 DEF Filling
      <3>2. Len(compute') = 0
        BY <2>2, EmptySeq
      <3>3. Len(compute) = 1
        <4>1. Len(compute) = Len(compute') + 1
          BY <1>1, PopShift
        <4> QED BY ONLY <3>2, <4>1
      <3> QED BY <3>1, <3>3 DEF StreamPop, Op
    <2> QED BY <2>1, <2>2 DEF Rows
  <1> QED BY <1>4, <1>5, <1>7, <1>8

\* The events, the GEMM of a streamed layer and the compaction of the hits.
LEMMA StreamPopMap ==
  ASSUME SizesAssumption, Types, StreamRest, Types', StreamRest', MapInv, MapIsInverse',
         ComputeEvent \/ HitCompact \/ (Gemm /\ prefill_overlap /\ compute[1].op = "gemm_layer")
  PROVE  MapInv'
  <1>1. ComputePops
    BY ComputeIsPop DEF Compute
  <1>2. compute # <<>> /\ Head(compute) = compute[1] /\ 1 \in 1 .. Len(compute)
    <2>1. compute # <<>>
      BY <1>1 DEF ComputePops, Pop
    <2>2. Head(compute) = compute[1] /\ Len(compute) \in Nat \ {0}
      BY <2>1, ComputeHead
    <2> QED BY <2>1, <2>2
  <1>3. compute[1].op \in {"gemm_layer", "wait", "record", "compact"}
    BY <1>2 DEF ComputeEvent, EventOps, HitCompact, Gemm, Running
  <1>4. prefill_overlap
    BY <1>2, <1>3 DEF StreamRest, Mode, Changers, ComputeEvent, EventOps, HitCompact, Gemm, Running
  <1>5. UNCHANGED <<slot_for_id, id_of_slot, data, staged, snapshot>>
    BY DEF ComputeEvent, HitCompact, Gemm, mapVars
  <1>6. compute[1].op = "compact" => hits' = HitRows(compute[1].layer)
    BY <1>2 DEF ComputeEvent, EventOps, HitCompact, Gemm, Running, HitRows
  <1>7. StreamPop
    BY <1>1, <1>3, <1>4, <1>5, <1>6 DEF StreamPop
  <1>8. Filling'
    BY <1>1, <1>4, <1>5, <1>6, StreamPopFilling DEF MapInv
  <1> QED BY <1>7, <1>8, StreamPopRest DEF MapInv

-----------------------------------------------------------------------------
(* The bytes: the hits are gathered. *)

\* The gather brings the hits of a layer, from slots that hold them, into the buffer.
LEMMA GatherFacts ==
  ASSUME SizesAssumption, Types, StreamRest, MapInv, HitGather, NEW t \in Layers, compute[1] = Op("gather", t)
  PROVE  /\ prefill_overlap /\ staged = {} /\ Gathering(1, t)
         /\ \A k \in Banks, s \in Slots : s \notin BufferSlots(BufferOf(t)) => data'[k][s] = data[k][s]
         /\ \A e \in Experts : LET s == BufferOf(t) * NumExperts + e IN
              /\ data'["narrow"][s] = data["narrow"][s]
              /\ IsHit(slot_for_id[Id(t, e)]) => data'["wide"][s] = Id(t, e)
              /\ ~IsHit(slot_for_id[Id(t, e)]) => data'["wide"][s] = data["wide"][s]
  <1> DEFINE b == BufferOf(t)
             src(s) == data["wide"][(CHOOSE h \in hits : h[1] = s)[2]]
  <1>0. compute # <<>> /\ Head(compute) = compute[1] /\ Head(compute).op = "gather" /\ 1 \in 1 .. Len(compute)
    <2>1. compute # <<>> /\ Head(compute).op = "gather"
      BY DEF HitGather, Running
    <2>2. Head(compute) = compute[1] /\ Len(compute) \in Nat \ {0}
      BY <2>1, ComputeHead
    <2> QED BY <2>1, <2>2
  <1>1. prefill_overlap
    BY <1>0 DEF StreamRest, Mode, Changers
  <1>2. staged = {}
    BY <1>0, NothingStaged DEF MapInv, Running
  <1>3. Gathering(1, t)
    BY <1>0 DEF MapInv, Filling, HitsOf
  <1>4. hits = HitRows(t)
    BY <1>3 DEF Gathering
  <1>5. /\ \A s \in Slots : data'["wide"][s] = IF \E h \in hits : h[1] = s THEN src(s) ELSE data["wide"][s]
        /\ data'["narrow"] = data["narrow"]
    BY DEF HitGather, Types, Banks
  <1>6. \A e \in Experts : b * NumExperts + e \in Slots /\ b * NumExperts + e \in BufferSlots(b)
    BY <1>1, SlotNumbers, BufferFacts, LayerFacts DEF StreamRest
  <1>7. \A e, f \in Experts : b * NumExperts + e = b * NumExperts + f => e = f
    <2>1. \A e \in Experts : (b * NumExperts + e) % NumExperts = e
      BY BufferFacts, LayerFacts
    <2> QED BY <2>1
  <1>8. ASSUME NEW k \in Banks, NEW s \in Slots, s \notin BufferSlots(b)
        PROVE  data'[k][s] = data[k][s]
    <2>1. ~\E h \in hits : h[1] = s
      BY <1>4, <1>6, <1>8 DEF HitRows
    <2> QED BY <1>5, <2>1 DEF Banks
  <1>9. ASSUME NEW e \in Experts, IsHit(slot_for_id[Id(t, e)])
        PROVE  data'["wide"][b * NumExperts + e] = Id(t, e)
    <2> DEFINE s == b * NumExperts + e
    <2>1. <<s, slot_for_id[Id(t, e)]>> \in hits
      BY <1>4, <1>9 DEF HitRows
    <2>2. ASSUME NEW h \in hits, h[1] = s PROVE h[2] = slot_for_id[Id(t, e)]
      <3>1. PICK f \in Experts : h = <<b * NumExperts + f, slot_for_id[Id(t, f)]>>
        BY <1>4 DEF HitRows
      <3>2. f = e
        BY <1>7, <2>2, <3>1
      <3> QED BY <3>1, <3>2
    <2>3. src(s) = data["wide"][slot_for_id[Id(t, e)]]
      <3>1. \E h \in hits : h[1] = s
        BY <2>1
      <3> QED BY <2>2, <3>1
    <2>4. Id(t, e) \in Ids /\ slot_for_id[Id(t, e)] # None
      BY <1>9, IdFacts, BufferFacts
    <2>5. data["wide"][slot_for_id[Id(t, e)]] = Id(t, e)
      BY <1>0, <1>2, <2>4, BytesPlain DEF MapInv, Banks
    <2>6. data'["wide"][s] = src(s)
      BY <1>5, <1>6, <2>1
    <2> QED BY <2>3, <2>5, <2>6
  <1>10. ASSUME NEW e \in Experts, ~IsHit(slot_for_id[Id(t, e)])
         PROVE  data'["wide"][b * NumExperts + e] = data["wide"][b * NumExperts + e]
    <2>1. ASSUME NEW h \in hits, h[1] = b * NumExperts + e PROVE FALSE
      <3>1. PICK f \in Experts : h = <<b * NumExperts + f, slot_for_id[Id(t, f)]>> /\ IsHit(slot_for_id[Id(t, f)])
        BY <1>4 DEF HitRows
      <3>2. f = e
        BY <1>7, <2>1, <3>1
      <3> QED BY <1>10, <3>1, <3>2
    <2> QED BY <1>5, <1>6, <2>1
  <1>11. \A e \in Experts : data'["narrow"][b * NumExperts + e] = data["narrow"][b * NumExperts + e]
    BY <1>5
  <1> QED BY <1>1, <1>2, <1>3, <1>8, <1>9, <1>10, <1>11

\* A buffer about to be disowned is nobody's yet.
LEMMA TakenNotOwned ==
  ASSUME SizesAssumption, Types, Cursor, NEW t \in Layers, Taking(t), NEW x \in Layers, Owned(x)
  PROVE  BufferOf(x) # BufferOf(t)
  <1> SUFFICES ASSUME BufferOf(x) = BufferOf(t) PROVE FALSE
    OBVIOUS
  <1>0. host.layer \in Nat /\ x \in Nat /\ None \notin Nat /\ t \in Nat
    BY HostFacts, LayerFacts DEF None
  <1>1. buffer_layer[BufferOf(t)] = x /\ host.layer <= x /\ host.at = "invalidate" /\ host.target = t
    BY DEF Owned, Taking
  <1>2. ~Starting
    <2>1. BufferOf(t) \in {0, 1}
      BY LayerFacts
    <2> QED BY <1>0, <1>1, <2>1 DEF Cursor
  <1>3. host.target = host.layer + 1 /\ buffer_layer[BufferOf(host.layer + 1)] = host.layer - 1
    BY <1>1, <1>2 DEF Cursor
  <1>4. x = host.layer - 1
    BY <1>1, <1>3
  <1> QED BY ONLY <1>0, <1>1, <1>4

\* Whoever will read the buffer of a layer that is being gathered is that layer.
LEMMA GatherOwner ==
  ASSUME SizesAssumption, Types, StreamRest, NEW t \in Layers, Gathering(1, t), prefill_overlap,
         NEW x \in Layers, Live(x), BufferOf(x) = BufferOf(t)
  PROVE  x = t
  <1>1. CASE \E i \in 1 .. Len(compute) : compute[i] = GemmLayer(x)
    BY <1>1 DEF Gathering
  <1>2. CASE Owned(x)
    <2>1. CASE Taking(t)
      BY <1>2, <2>1, TakenNotOwned DEF StreamRest
    <2>2. CASE Live(t)
      BY <2>2, LiveOnce
    <2>3. Taking(t) \/ Live(t)
      BY DEF Gathering, Live
    <2> QED BY <2>1, <2>2, <2>3
  <1> QED BY <1>1, <1>2 DEF Live

LEMMA GatherBytes ==
  ASSUME SizesAssumption, Types, Types', StreamRest, MapIsInverse, MapInv, HitGather, ComputePops,
         NEW t \in Layers, compute[1] = Op("gather", t)
  PROVE  Bytes'
  <1>1. /\ prefill_overlap /\ staged = {} /\ Gathering(1, t)
        /\ \A k \in Banks, s \in Slots : s \notin BufferSlots(BufferOf(t)) => data'[k][s] = data[k][s]
    BY GatherFacts
  <1>2. UNCHANGED <<hostSide, slot_for_id, id_of_slot, staged>> /\ compute # <<>>
    BY DEF HitGather, ComputePops, mapVars, Pop
  <1> SUFFICES ASSUME NEW i \in Ids, slot_for_id[i] # None, NEW k \in Banks
               PROVE  Overwritten(slot_for_id[i])' \/ data'[k][slot_for_id[i]] = i
    <2>1. \A s : Overwritten(s)' <=> (/\ host.at = "invalidate" /\ hit_d2d_active /\ compute' = <<>>
                                      /\ s \in BufferSlots(BufferOf(host.target)))
      BY <1>2 DEF Overwritten, BufferSlots, hostSide
    <2> QED BY <1>1, <1>2, <2>1 DEF Bytes
  <1> DEFINE s == slot_for_id[i]
  <1>3. s \in Slots /\ id_of_slot[s] = i
    BY DEF Types, MapIsInverse
  <1>4. data[k][s] = i
    BY <1>1, <1>2, BytesPlain DEF MapInv
  <1>5. CASE s \notin BufferSlots(BufferOf(t))
    BY <1>1, <1>3, <1>4, <1>5
  <1>6. CASE s \in BufferSlots(BufferOf(t))
    <2>1. ~Free(BufferOf(t))
      <3>1. None \notin Ids
        BY IdFacts
      <3> QED BY <1>3, <1>6, <3>1 DEF Free
    <2>2. Taking(t) /\ 1 >= Len(compute) - 1 /\ hit_d2d_active
      BY <1>1, <2>1 DEF Gathering
    <2>3. compute[Len(compute)] = Op("gather", t)
      BY <1>2, <2>2 DEF MapInv, Filling
    <2>4. Len(compute) \in Nat \ {0} /\ Len(compute') = Len(compute) - 1
      BY DEF ComputePops, Pop
    <2>5. Len(compute) # 2
      <3> SUFFICES ASSUME Len(compute) = 2 PROVE FALSE
        OBVIOUS
      <3>1. 2 \in 1 .. Len(compute) /\ 2 > 1 /\ 2 - 1 = 1
        BY ONLY Len(compute) = 2
      <3>2. Neighbours(compute, 2)
        BY <3>1 DEF StreamRest, Adjacent
      <3>3. compute[2].op = "gather" /\ compute[2].layer = t
        BY <2>3 DEF Op
      <3>4. compute[1] = Op("compact", t)
        BY <3>1, <3>2, <3>3 DEF Neighbours
      <3> QED BY <3>4 DEF Op
    <2>6. Len(compute') = 0
      BY ONLY <2>2, <2>4, <2>5
    <2>7. compute' = <<>>
      <3> SUFFICES ASSUME compute' # <<>> PROVE FALSE
        OBVIOUS
      <3>1. Len(compute') \in Nat \ {0}
        BY PopFacts DEF Types
      <3> QED BY <2>6, <3>1
    <2>8. host.at = "invalidate" /\ host.target = t
      BY <2>2 DEF Taking
    <2>9. Overwritten(s)'
      BY <1>2, <1>6, <2>2, <2>7, <2>8 DEF Overwritten, BufferSlots, hostSide
    <2> QED BY <2>9
  <1> QED BY <1>5, <1>6

LEMMA GatherRows ==
  ASSUME SizesAssumption, Types, Types', StreamRest, MapIsInverse, MapInv, HitGather, ComputePops,
         NEW t \in Layers, compute[1] = Op("gather", t)
  PROVE  Rows'
  <1>1. /\ prefill_overlap /\ Gathering(1, t)
        /\ \A k \in Banks, s \in Slots : s \notin BufferSlots(BufferOf(t)) => data'[k][s] = data[k][s]
        /\ \A e \in Experts : LET s == BufferOf(t) * NumExperts + e IN
             /\ data'["narrow"][s] = data["narrow"][s]
             /\ IsHit(slot_for_id[Id(t, e)]) => data'["wide"][s] = Id(t, e)
             /\ ~IsHit(slot_for_id[Id(t, e)]) => data'["wide"][s] = data["wide"][s]
    BY GatherFacts
  <1>2. UNCHANGED <<copy, hostSide, slot_for_id>> /\ compute # <<>> /\ Pop(compute', compute)
    BY DEF HitGather, ComputePops, mapVars, Pop
  <1>3. ASSUME NEW x \in Layers, Live(x)', NEW k \in Banks, NEW e \in Experts PROVE Row(x, k, e)'
    <2>1. Live(x) /\ Row(x, k, e)
      BY <1>3, PopLive DEF MapInv, Rows
    <2>2. CASE BufferOf(x) # BufferOf(t)
      <3>1. BufferOf(x) * NumExperts + e \in Slots /\ BufferOf(x) * NumExperts + e \notin BufferSlots(BufferOf(t))
        BY <1>1, <2>2, SlotNumbers, BufferFacts, LayerFacts DEF StreamRest
      <3>2. data'[k][BufferOf(x) * NumExperts + e] = data[k][BufferOf(x) * NumExperts + e]
        BY <1>1, <3>1
      <3>3. ASSUME NEW j \in 1 .. Len(compute), compute[j] = Op("gather", x)
            PROVE  \E m \in 1 .. Len(compute') : compute'[m] = Op("gather", x)
        <4>1. j # 1
          BY <2>2, <3>3 DEF Op
        <4>2. j - 1 \in 1 .. Len(compute') /\ compute'[j - 1] = compute[j]
          BY <1>2, <4>1, PopShift
        <4> QED BY <3>3, <4>2
      <3> QED BY <1>2, <2>1, <3>2, <3>3 DEF Row, Copying
    <2>3. CASE BufferOf(x) = BufferOf(t)
      <3>1. x = t
        BY <1>1, <2>1, <2>3, GatherOwner
      <3>2. k = "wide" \/ k = "narrow"
        BY DEF Banks
      <3> QED BY <1>1, <1>2, <2>1, <3>1, <3>2 DEF Row, Copying
    <2> QED BY <2>2, <2>3
  <1>4. ASSUME NEW u \in Layers, Taking(u)', hit_d2d_active', compute' = <<>>, NEW e \in Experts,
               IsHit(slot_for_id[Id(u, e)])
        PROVE  data'["wide"][BufferOf(u) * NumExperts + e] = Id(u, e)
    <2>1. Taking(u) /\ hit_d2d_active
      BY <1>2, <1>4 DEF Taking, hostSide
    <2>2. compute[Len(compute)] = Op("gather", u)
      BY <1>2, <2>1 DEF MapInv, Filling
    <2>3. Len(compute') = 0
      BY <1>4, EmptySeq
    <2>4. Len(compute) = Len(compute') + 1
      BY <1>2, PopShift
    <2>5. Len(compute) = 1
      BY ONLY <2>3, <2>4
    <2>6. u = t
      BY <2>2, <2>5 DEF Op
    <2> QED BY <1>1, <1>4, <2>6
  <1> QED BY <1>2, <1>3, <1>4 DEF Rows

LEMMA GatherMap ==
  ASSUME SizesAssumption, Types, StreamRest, Types', MapInv, MapIsInverse, MapIsInverse', HitGather
  PROVE  MapInv'
  <1>1. ComputePops
    BY ComputeIsPop DEF Compute
  <1>2. compute # <<>> /\ Head(compute) = compute[1] /\ compute[1] \in ComputeOps /\ compute[1].op = "gather"
    BY ComputeHead DEF HitGather, Running
  <1>3. compute[1].layer \in Layers /\ compute[1] = Op("gather", compute[1].layer)
    BY <1>2, OpKinds
  <1>4. Bytes' /\ Rows'
    BY <1>1, <1>3, GatherBytes, GatherRows
  <1>5. prefill_overlap /\ staged = {}
    BY <1>3, GatherFacts
  <1>6. UNCHANGED <<slot_for_id, id_of_slot, snapshot, staged>>
    BY DEF HitGather, mapVars
  <1>7. Filling'
    BY <1>1, <1>2, <1>5, <1>6, StreamPopFilling DEF MapInv
  <1>8. Snapshots'
    BY <1>1, <1>6, StreamPopSnapshots DEF MapInv
  <1>9. Steps'
    BY <1>1, <1>2, <1>5, <1>6, FreshSteps DEF StreamRest
  <1> QED BY <1>4, <1>7, <1>8, <1>9 DEF MapInv

-----------------------------------------------------------------------------
(* The bytes: the copy stream. *)

\* The copy stream never touches what the host and the compute queue say.
CopyStep == copy # <<>> /\ UNCHANGED <<compute, hostSide>>

LEMMA CopyLive ==
  ASSUME CopyStep, NEW l
  PROVE  (Live(l)' <=> Live(l)) /\ (Owned(l)' <=> Owned(l)) /\ (Taking(l)' <=> Taking(l))
  BY DEF CopyStep, Live, Owned, Taking, hostSide

\* What is gathered stays so, while buffers are disowned or filled.
LEMMA CopyGathering ==
  ASSUME CopyStep, Filling, hits' = hits, \A t \in Layers : HitRows(t)' = HitRows(t),
         \A b : Free(b) => Free(b)', NEW i \in 1 .. Len(compute), NEW t \in Layers, compute[i] \in HitsOf(t)
  PROVE  Gathering(i, t)'
  <1>1. Gathering(i, t)
    BY DEF Filling
  <1>2. UNCHANGED <<compute, hits, hit_d2d_active, cache_size>> /\ HitRows(t)' = HitRows(t)
    BY DEF CopyStep, hostSide
  <1>3. (Owned(t)' <=> Owned(t)) /\ (Taking(t)' <=> Taking(t))
    BY CopyLive
  <1> QED BY <1>1, <1>2, <1>3 DEF Gathering

\* The copy stream waits, marks an event or copies the map.
LEMMA CopyEventMap ==
  ASSUME SizesAssumption, Types, StreamRest, Types', MapInv, MapIsInverse', CopyEvent \/ Snapshot
  PROVE  MapInv'
  <1>0. CopyPops /\ CopyStep /\ Pop(copy', copy)
    BY CopyIsPop DEF Copy, CopyEnds, CopyEvent, Snapshot, EventOps, Running, CopyPops, CopyStep, Pop
  <1>1. Head(copy) = copy[1] /\ Len(copy) \in Nat \ {0} /\ 1 \in 1 .. Len(copy)
    <2>1. Head(copy) = copy[1] /\ Len(copy) \in Nat \ {0}
      BY <1>0, CopyHead DEF CopyStep
    <2> QED BY <2>1
  <1>2. copy[1].op \in {"wait", "record", "snapshot"}
    BY <1>1 DEF CopyEvent, Snapshot, EventOps, Running
  <1>3. UNCHANGED <<compute, hostSide, slot_for_id, id_of_slot, data, staged, topk, hits>>
    BY <1>0 DEF CopyPops, CopyEvent, Snapshot, mapVars, deviceVars
  <1>4. /\ \A b : Free(b)' <=> Free(b)
        /\ \A t : HitRows(t)' = HitRows(t)
    BY <1>3 DEF Free, BufferSlots, HitRows
  <1>5. \A l : ~Copying(l) /\ ~Copying(l)'
    <2>1. \A l : ~Copying(l)
      BY <1>2 DEF Copying, IsCopy
    <2>2. copy' # <<>> => ~IsCopy(copy'[1])
      <3> SUFFICES ASSUME copy' # <<>>, IsCopy(copy'[1]) PROVE FALSE
        OBVIOUS
      <3>1. Len(copy') \in Nat \ {0}
        BY PopFacts DEF Types
      <3>2. 1 \in 1 .. Len(copy')
        BY ONLY <3>1
      <3>3. 1 + 1 \in 1 .. Len(copy) /\ copy'[1] = copy[1 + 1]
        BY <1>0, <3>2, PopShift
      <3>4. 1 + 1 # 1
        OBVIOUS
      <3> QED BY <3>3, <3>4 DEF StreamRest, CopyQueue
    <2> QED BY <2>1, <2>2 DEF Copying
  <1>6. copy' = <<>> => Len(copy) = 1
    <2> SUFFICES ASSUME copy' = <<>> PROVE Len(copy) = 1
      OBVIOUS
    <2>1. Len(copy') = 0
      BY EmptySeq
    <2>2. Len(copy) = Len(copy') + 1
      BY <1>0, PopShift
    <2> QED BY ONLY <2>1, <2>2
  <1>7. copy' = <<>> => host.at # "invalidate"
    BY <1>0, <1>2, <1>6 DEF StreamRest, CopyQueue, CopyStep
  <1>8. Filling'
    <2>1. \A i \in 1 .. Len(compute'), t \in Layers : compute'[i] \in HitsOf(t) => Gathering(i, t)'
      BY <1>0, <1>3, <1>4, CopyGathering DEF MapInv
    <2>2. ASSUME NEW t \in Layers, Taking(t)'
          PROVE  /\ copy' = <<>> => Free(BufferOf(t))'
                 /\ hit_d2d_active' /\ compute' # <<>> => compute'[Len(compute')] = Op("gather", t)
      <3>1. Taking(t) /\ host.at = "invalidate"
        BY <1>0, <2>2, CopyLive DEF Taking
      <3> QED BY <1>3, <1>7, <3>1 DEF MapInv, Filling, hostSide
    <2>3. (host.at # "idle" /\ hit_d2d_active => HitD2d /\ cache_size > 2 * NumExperts)'
      BY <1>3 DEF MapInv, Filling, hostSide
    <2> QED BY <1>5, <2>1, <2>2, <2>3 DEF Filling
  <1>9. Bytes'
    BY <1>3 DEF MapInv, Bytes, Overwritten, BufferSlots, hostSide
  <1>10. Steps'
    BY <1>3 DEF MapInv, Steps, Running, hostSide
  <1>11. Rows'
    <2>1. ASSUME NEW l \in Layers, Live(l)', NEW k \in Banks, NEW e \in Experts PROVE Row(l, k, e)'
      <3>1. Row(l, k, e)
        BY <1>0, <2>1, CopyLive DEF MapInv, Rows
      <3> QED BY <1>3, <1>5, <3>1 DEF Row
    <2>2. ASSUME NEW t \in Layers, Taking(t)', hit_d2d_active', compute' = <<>>, NEW e \in Experts,
                 IsHit(slot_for_id'[Id(t, e)])
          PROVE  data'["wide"][BufferOf(t) * NumExperts + e] = Id(t, e)
      <3>1. Taking(t)
        BY <1>0, <2>2, CopyLive
      <3> QED BY <1>3, <2>2, <3>1 DEF MapInv, Rows, hostSide
    <2> QED BY <2>1, <2>2 DEF Rows
  <1>12. Snapshots'
    <2>1. CASE Snapshot
      <3>1. Matches'
        BY <1>3, <2>1 DEF Snapshot, Matches
      <3> QED BY <3>1 DEF Snapshots
    <2>2. CASE CopyEvent
      <3>1. (Matches' <=> Matches) /\ (Pending(Begin)' <=> Pending(Begin))
        <4>1. Matches' <=> Matches
          BY <1>3, <2>2 DEF CopyEvent, Matches
        <4>2. Pending(Begin)' = Pending(Begin)
          BY <1>0, CopyPopRecords DEF StreamRest
        <4> QED BY <4>1, <4>2
      <3>2. host.at = "snapshot" => copy' # <<>>
        <4>1. copy[1].op # "snapshot"
          BY <1>1, <2>2 DEF CopyEvent, EventOps, Running
        <4> QED BY <1>0, <1>6, <4>1 DEF StreamRest, CopyQueue, CopyStep
      <3>3. host.at = "snapshot" => copy # <<>>
        BY <1>0 DEF CopyStep
      <3> QED BY <1>3, <3>1, <3>2, <3>3 DEF MapInv, Snapshots, hostSide
    <2> QED BY <2>1, <2>2
  <1> QED BY <1>8, <1>9, <1>10, <1>11, <1>12 DEF MapInv

\* Rows of a layer cross the bus: torn while they do, the layer's when they have.
LEMMA LayerCopyFacts ==
  ASSUME SizesAssumption, Types, StreamRest, LayerCopy
  PROVE  LET l == copy[1].layer IN
         /\ CopyStep /\ prefill_overlap /\ l \in Layers /\ Copying(l)
         /\ UNCHANGED <<slot_for_id, id_of_slot, staged, topk, hits, snapshot, done>>
         /\ copy' # <<>>
         /\ copy[1].op = "h2d" => IsCopy(copy'[1]) /\ copy'[1].layer = l /\ copy'[1].rows = copy[1].rows
         /\ copy[1].op # "h2d" => ~IsCopy(copy'[1])
         /\ \A k \in Banks, s \in Slots : s \notin BufferSlots(BufferOf(l)) => data'[k][s] = data[k][s]
         /\ \A k \in Banks, e \in Experts : LET s == BufferOf(l) * NumExperts + e IN
              /\ e \notin copy[1].rows[k] => data'[k][s] = data[k][s]
              /\ e \in copy[1].rows[k] /\ copy[1].op # "h2d" => data'[k][s] = Id(l, e)
  <1> DEFINE l == copy[1].layer
             b == BufferOf(l)
  <1>1. copy # <<>> /\ Head(copy) = copy[1] /\ Len(copy) \in Nat \ {0} /\ 1 \in 1 .. Len(copy) /\ IsCopy(copy[1])
    <2>1. copy # <<>> /\ Head(copy).op \in {"h2d", "h2d_end"}
      BY DEF LayerCopy, Running
    <2>2. Head(copy) = copy[1] /\ Len(copy) \in Nat \ {0}
      BY <2>1, CopyHead
    <2> QED BY <2>1, <2>2 DEF IsCopy
  <1>2. l \in Layers /\ Copying(l) /\ Len(copy) >= 2 /\ copy[1].buffer = b
    <2>1. l \in Layers
      BY <1>1, CopyHead, OpKinds DEF IsCopy
    <2> QED BY <1>1, <2>1 DEF Copying, StreamRest, CopyQueue
  <1>3. prefill_overlap
    BY <1>1 DEF StreamRest, Mode
  <1>4. CopyStep /\ UNCHANGED <<slot_for_id, id_of_slot, staged, topk, hits, snapshot, done>>
    <2>1. UNCHANGED <<slot_for_id, id_of_slot, staged, topk, hits, snapshot, done>>
      BY DEF LayerCopy, mapVars
    <2>2. UNCHANGED <<compute, hostSide>>
      BY DEF LayerCopy, sizeVars, bufferVars, hostSide
    <2> QED BY <1>1, <2>1, <2>2 DEF CopyStep
  <1>5. \A k \in Banks, s \in Slots : data'[k][s] = Filled(copy[1], k, s)
    BY <1>1 DEF LayerCopy
  <1>6. \A k \in Banks, s \in Slots : s \notin BufferSlots(b) => data'[k][s] = data[k][s]
    BY <1>2, <1>5 DEF Filled
  <1>7. ASSUME NEW k \in Banks, NEW e \in Experts
        PROVE  LET s == b * NumExperts + e IN
               /\ e \notin copy[1].rows[k] => data'[k][s] = data[k][s]
               /\ e \in copy[1].rows[k] /\ copy[1].op # "h2d" => data'[k][s] = Id(l, e)
    <2> DEFINE s == b * NumExperts + e
    <2>1. s \in Slots /\ s \in BufferSlots(b) /\ s % NumExperts = e
      BY <1>2, <1>3, SlotNumbers, BufferFacts, LayerFacts DEF StreamRest
    <2>2. data'[k][s] = Filled(copy[1], k, s)
      BY <1>5, <2>1
    <2> HIDE DEF s
    <2>3. Filled(copy[1], k, s) = IF e \in copy[1].rows[k] THEN (IF copy[1].op = "h2d" THEN Torn ELSE Id(l, e)) ELSE data[k][s]
      BY <1>2, <2>1 DEF Filled
    <2> QED BY <2>2, <2>3 DEF s
  <1>8. (CopyPops /\ copy[1].op # "h2d") \/ CopyEnds
    BY CopyIsPop DEF Copy
  <1>9. CASE CopyEnds
    <2>1. /\ copy[1].op = "h2d" /\ copy'[1] = [copy[1] EXCEPT !.op = "h2d_end"] /\ Len(copy') = Len(copy)
      BY <1>9 DEF CopyEnds
    <2>2. copy' # <<>>
      <3>1. Len(<<>>) = 0
        BY EmptySeq
      <3> QED BY <1>1, <2>1, <3>1
    <2>3. copy'[1].layer = l /\ copy'[1].rows = copy[1].rows /\ copy'[1].op = "h2d_end"
      <3>1. copy[1] \in CopyOps
        BY <1>1, CopyHead
      <3> QED BY <2>1, <3>1 DEF CopyOps
    <2>4. IsCopy(copy'[1])
      BY <2>3 DEF IsCopy
    <2> QED BY <1>2, <1>3, <1>4, <1>6, <1>7, <2>1, <2>2, <2>3, <2>4
  <1>10. CASE CopyPops /\ copy[1].op # "h2d"
    <2>1. Pop(copy', copy)
      BY <1>10 DEF CopyPops
    <2>2. 1 \in 1 .. Len(copy')
      <3>1. Len(copy') = Len(copy) - 1
        BY <2>1 DEF Pop
      <3> QED BY ONLY <1>1, <1>2, <3>1
    <2>3. copy' # <<>>
      <3>1. Len(<<>>) = 0
        BY EmptySeq
      <3> QED BY <2>2, <3>1
    <2>4. 1 + 1 \in 1 .. Len(copy) /\ copy'[1] = copy[1 + 1]
      BY <2>1, <2>2, PopShift
    <2>5. ~IsCopy(copy'[1])
      <3>1. 1 + 1 # 1
        OBVIOUS
      <3> QED BY <2>4, <3>1 DEF StreamRest, CopyQueue
    <2> QED BY <1>2, <1>3, <1>4, <1>6, <1>7, <1>10, <2>3, <2>5
  <1> QED BY <1>8, <1>9, <1>10

LEMMA LayerCopyMap ==
  ASSUME SizesAssumption, Types, StreamRest, Types', MapInv, MapIsInverse, MapIsInverse', LayerCopy
  PROVE  MapInv'
  <1> DEFINE l == copy[1].layer
             b == BufferOf(l)
  <1>1. /\ CopyStep /\ prefill_overlap /\ l \in Layers /\ Copying(l)
        /\ UNCHANGED <<slot_for_id, id_of_slot, staged, topk, hits, snapshot, done>>
        /\ copy' # <<>>
        /\ copy[1].op = "h2d" => IsCopy(copy'[1]) /\ copy'[1].layer = l /\ copy'[1].rows = copy[1].rows
        /\ copy[1].op # "h2d" => ~IsCopy(copy'[1])
        /\ \A k \in Banks, s \in Slots : s \notin BufferSlots(b) => data'[k][s] = data[k][s]
        /\ \A k \in Banks, e \in Experts :
             /\ e \notin copy[1].rows[k] => data'[k][b * NumExperts + e] = data[k][b * NumExperts + e]
             /\ e \in copy[1].rows[k] /\ copy[1].op # "h2d" => data'[k][b * NumExperts + e] = Id(l, e)
    BY LayerCopyFacts
  <1>2. PICK x \in Layers : x = l
    BY <1>1
  <1>3. UNCHANGED <<compute, hostSide, slot_for_id, id_of_slot, staged, topk, hits, snapshot, done>> /\ copy # <<>>
    BY <1>1 DEF CopyStep
  <1>4. /\ \A c : Free(c)' <=> Free(c)
        /\ \A t : HitRows(t)' = HitRows(t)
    BY <1>3 DEF Free, BufferSlots, HitRows
  <1>5. Copying(x) /\ Live(x) /\ Free(BufferOf(x)) /\ \A y : Copying(y) => y = x
    <2>1. Copying(x) /\ \A y : Copying(y) => y = x
      BY <1>1, <1>2 DEF Copying
    <2> QED BY <2>1 DEF MapInv, Filling
  <1>6. \A y : Copying(y)' => y = x /\ copy[1].op = "h2d"
    <2>1. \A y : Copying(y)' => IsCopy(copy'[1]) /\ copy'[1].layer = y
      BY DEF Copying
    <2> QED BY <1>1, <1>2, <2>1
  <1> HIDE DEF l, b
  <1>7. Filling'
    <2>1. \A i \in 1 .. Len(compute'), t \in Layers : compute'[i] \in HitsOf(t) => Gathering(i, t)'
      BY <1>1, <1>3, <1>4, CopyGathering DEF MapInv
    <2>2. ASSUME NEW t \in Layers, Taking(t)', hit_d2d_active', compute' # <<>>
          PROVE  compute'[Len(compute')] = Op("gather", t)
      <3>1. Taking(t)
        BY <1>1, <2>2, CopyLive
      <3> QED BY <1>3, <2>2, <3>1 DEF MapInv, Filling, hostSide
    <2>3. (host.at # "idle" /\ hit_d2d_active => HitD2d /\ cache_size > 2 * NumExperts)'
      BY <1>3 DEF MapInv, Filling, hostSide
    <2>4. \A y \in Layers : Copying(y)' => Live(y)' /\ Free(BufferOf(y))'
      BY <1>1, <1>4, <1>5, <1>6, CopyLive
    <2> QED BY <1>1, <2>1, <2>2, <2>3, <2>4 DEF Filling
  <1>8. Bytes'
    <2> SUFFICES ASSUME NEW i \in Ids, slot_for_id[i] # None, <<slot_for_id[i], i>> \notin staged
                 PROVE  Overwritten(slot_for_id[i])' \/ \A k \in Banks : data'[k][slot_for_id[i]] = i
      BY <1>3 DEF Bytes
    <2>1. slot_for_id[i] \in Slots /\ id_of_slot[slot_for_id[i]] = i /\ None \notin Ids
      BY IdFacts DEF Types, MapIsInverse
    <2>2. slot_for_id[i] \notin BufferSlots(BufferOf(x))
      BY <1>5, <2>1 DEF Free
    <2>3. \A k \in Banks : data'[k][slot_for_id[i]] = data[k][slot_for_id[i]]
      BY <1>1, <1>2, <2>1, <2>2 DEF b
    <2>4. Overwritten(slot_for_id[i])' <=> Overwritten(slot_for_id[i])
      BY <1>3 DEF Overwritten, BufferSlots, hostSide
    <2> QED BY <2>3, <2>4 DEF MapInv, Bytes
  <1>9. Steps'
    BY <1>3 DEF MapInv, Steps, Running, hostSide
  <1>10. Snapshots'
    BY <1>1, <1>3 DEF MapInv, Snapshots, Matches, Pending, hostSide
  <1>11. ASSUME NEW y \in Layers, BufferOf(y) # BufferOf(x), NEW k \in Banks, NEW e \in Experts
         PROVE  data'[k][BufferOf(y) * NumExperts + e] = data[k][BufferOf(y) * NumExperts + e]
    <2>1. BufferOf(y) * NumExperts + e \in Slots /\ BufferOf(y) * NumExperts + e \notin BufferSlots(BufferOf(x))
      BY <1>1, <1>11, SlotNumbers, BufferFacts, LayerFacts DEF StreamRest
    <2> QED BY <1>1, <1>2, <2>1 DEF b
  <1>12. Rows'
    <2>1. ASSUME NEW y \in Layers, Live(y)', NEW k \in Banks, NEW e \in Experts PROVE Row(y, k, e)'
      <3>1. Live(y) /\ Row(y, k, e)
        BY <1>1, <2>1, CopyLive DEF MapInv, Rows
      <3>2. CASE BufferOf(y) # BufferOf(x)
        <4>1. ~Copying(y) /\ ~Copying(y)'
          BY <1>5, <1>6, <3>2
        <4> QED BY <1>3, <1>11, <3>1, <3>2, <4>1 DEF Row
      <3>3. CASE BufferOf(y) = BufferOf(x)
        <4>1. y = x
          BY <1>5, <3>1, <3>3, LiveOnce
        <4>2. CASE e \in copy[1].rows[k] /\ copy[1].op # "h2d"
          <5>1. data'[k][BufferOf(y) * NumExperts + e] = Id(y, e)
            BY <1>1, <1>2, <4>1, <4>2 DEF b
          <5> QED BY <5>1 DEF Row
        <4>3. CASE e \in copy[1].rows[k] /\ copy[1].op = "h2d"
          <5>1. Copying(y)' /\ e \in copy'[1].rows[k]
            BY <1>1, <1>2, <4>1, <4>3 DEF Copying
          <5> QED BY <5>1 DEF Row
        <4>4. CASE e \notin copy[1].rows[k]
          <5>1. data'[k][BufferOf(y) * NumExperts + e] = data[k][BufferOf(y) * NumExperts + e]
            BY <1>1, <1>2, <4>1, <4>4 DEF b
          <5> QED BY <1>3, <3>1, <4>4, <5>1 DEF Row
        <4> QED BY <4>2, <4>3, <4>4
      <3> QED BY <3>2, <3>3
    <2>2. ASSUME NEW t \in Layers, Taking(t)', hit_d2d_active', compute' = <<>>, NEW e \in Experts,
                 IsHit(slot_for_id'[Id(t, e)])
          PROVE  data'["wide"][BufferOf(t) * NumExperts + e] = Id(t, e)
      <3>1. Taking(t)
        BY <1>1, <2>2, CopyLive
      <3>2. Owned(x)
        <4>1. Len(<<>>) = 0
          BY EmptySeq
        <4> QED BY <1>3, <1>5, <2>2, <4>1 DEF Live
      <3>3. BufferOf(x) # BufferOf(t)
        BY <3>1, <3>2, TakenNotOwned DEF StreamRest
      <3> QED BY <1>3, <1>11, <2>2, <3>1, <3>3 DEF MapInv, Rows, hostSide, Banks
    <2> QED BY <2>1, <2>2 DEF Rows
  <1> QED BY <1>7, <1>8, <1>9, <1>10, <1>12 DEF MapInv

\* A buffer is disowned: the map keeps everything that is a hit.
LEMMA InvalidateFacts ==
  ASSUME SizesAssumption, Types, Types', StreamRest, MapIsInverse, InvalidatePrefillBuffer
  PROVE  LET t == copy[1].layer IN
         /\ CopyStep /\ CopyPops /\ prefill_overlap /\ t \in Layers /\ Taking(t) /\ copy' = <<>>
         /\ ~Pending(Begin) /\ \A l : ~Copying(l)
         /\ UNCHANGED <<data, staged, topk, hits, snapshot, done>>
         /\ \A s \in BufferSlots(BufferOf(t)) : s \in Slots /\ id_of_slot'[s] = None
         /\ \A s \in Slots : id_of_slot'[s] \in {id_of_slot[s], None}
         /\ \A i \in Ids : /\ slot_for_id'[i] \in {slot_for_id[i], None}
                           /\ IsHit(slot_for_id[i]) => slot_for_id'[i] = slot_for_id[i]
  <1> DEFINE t == copy[1].layer
  <1>1. copy # <<>> /\ Head(copy) = copy[1] /\ Len(copy) \in Nat \ {0} /\ 1 \in 1 .. Len(copy) /\ copy[1].op = "invalidate"
    <2>1. copy # <<>> /\ Head(copy).op = "invalidate"
      BY DEF InvalidatePrefillBuffer, Running
    <2>2. Head(copy) = copy[1] /\ Len(copy) \in Nat \ {0}
      BY <2>1, CopyHead
    <2> QED BY <2>1, <2>2
  <1>2. /\ UNCHANGED <<compute, hostSide, data, staged, topk, hits, snapshot, done>>
        /\ slot_for_id' = Disowned(BufferOf(t))
        /\ id_of_slot' = [s \in Slots |-> IF s \in BufferSlots(BufferOf(t)) THEN None ELSE id_of_slot[s]]
    BY <1>1 DEF InvalidatePrefillBuffer, sizeVars, bufferVars, hostSide
  <1>3. Len(copy) = 1 /\ host.at = "invalidate" /\ t = host.target
    BY <1>1 DEF StreamRest, CopyQueue
  <1>4. t \in Layers /\ prefill_overlap
    <2>1. t \in Layers
      BY <1>1, CopyHead, OpKinds
    <2> QED BY <1>1, <2>1 DEF StreamRest, Mode
  <1>5. CopyPops
    BY <1>1, CopyIsPop DEF Copy, CopyEnds
  <1>6. copy' = <<>>
    <2> SUFFICES ASSUME copy' # <<>> PROVE FALSE
      OBVIOUS
    <2>1. Len(copy') \in Nat \ {0}
      BY PopFacts DEF Types
    <2>2. Len(copy') = Len(copy) - 1
      BY <1>5 DEF CopyPops, Pop
    <2> QED BY ONLY <1>3, <2>1, <2>2
  <1>7. ~Pending(Begin)
    <2> SUFFICES ASSUME Pending(Begin) PROVE FALSE
      OBVIOUS
    <2>1. PICK p \in 1 .. Len(copy) : copy[p] = WaitOp(Begin, recorded[Begin])
      BY DEF StreamRest, Fences
    <2>2. p = 1
      BY <1>3
    <2> QED BY <1>1, <2>1, <2>2 DEF WaitOp
  <1>8. \A l : ~Copying(l)
    BY <1>1 DEF Copying, IsCopy
  <1>9. \A s \in BufferSlots(BufferOf(t)) : s \in Slots /\ id_of_slot'[s] = None
    <2>1. BufferOf(t) \in {0, 1}
      BY <1>4, LayerFacts
    <2>2. BufferSlots(BufferOf(t)) \subseteq Slots
      BY <1>4, <2>1, SlotNumbers DEF StreamRest
    <2> QED BY <1>2, <2>2
  <1>10. \A s \in Slots : id_of_slot'[s] \in {id_of_slot[s], None}
    BY <1>2
  <1>11. ASSUME NEW i \in Ids
         PROVE  /\ slot_for_id'[i] \in {slot_for_id[i], None}
                /\ IsHit(slot_for_id[i]) => slot_for_id'[i] = slot_for_id[i]
    <2>1. slot_for_id'[i] = IF \E s \in BufferSlots(BufferOf(t)) : id_of_slot[s] = i THEN None ELSE slot_for_id[i]
      BY <1>2 DEF Disowned
    <2>2. ASSUME IsHit(slot_for_id[i]), NEW s \in BufferSlots(BufferOf(t)), id_of_slot[s] = i PROVE FALSE
      <3>1. s \in Slots /\ i # None
        BY <1>9, IdFacts
      <3>2. slot_for_id[i] = s
        BY <2>2, <3>1 DEF MapIsInverse
      <3> QED BY <1>4, <2>2, <3>2, BufferFacts, LayerFacts
    <2> QED BY <2>1, <2>2
  <1>12. CopyStep /\ Taking(t)
    BY <1>1, <1>2, <1>3 DEF CopyStep, Taking
  <1> QED BY <1>2, <1>4, <1>5, <1>6, <1>7, <1>8, <1>9, <1>10, <1>11, <1>12

LEMMA InvalidateMap ==
  ASSUME SizesAssumption, Types, StreamRest, Types', MapInv, MapIsInverse, MapIsInverse', InvalidatePrefillBuffer
  PROVE  MapInv'
  <1>1. PICK t \in Layers : t = copy[1].layer
    BY InvalidateFacts
  <1>2. /\ CopyStep /\ CopyPops /\ prefill_overlap /\ Taking(t) /\ copy' = <<>>
        /\ ~Pending(Begin) /\ \A l : ~Copying(l)
        /\ UNCHANGED <<data, staged, topk, hits, snapshot, done>>
        /\ \A s \in BufferSlots(BufferOf(t)) : s \in Slots /\ id_of_slot'[s] = None
        /\ \A s \in Slots : id_of_slot'[s] \in {id_of_slot[s], None}
        /\ \A i \in Ids : /\ slot_for_id'[i] \in {slot_for_id[i], None}
                          /\ IsHit(slot_for_id[i]) => slot_for_id'[i] = slot_for_id[i]
    BY <1>1, InvalidateFacts
  <1>3. UNCHANGED <<compute, hostSide>> /\ \A l : ~Copying(l)'
    BY <1>2 DEF CopyStep, Copying
  <1>4. \A i \in Ids : /\ IsHit(slot_for_id'[i]) <=> IsHit(slot_for_id[i])
                       /\ IsHit(slot_for_id[i]) => slot_for_id'[i] = slot_for_id[i]
    BY <1>2, BufferFacts
  <1>5. \A u \in Layers : HitRows(u)' = HitRows(u)
    <2> TAKE u \in Layers
    <2>1. \A e \in Experts : Id(u, e) \in Ids
      BY IdFacts
    <2>2. \A e \in Experts : /\ IsHit(slot_for_id'[Id(u, e)]) <=> IsHit(slot_for_id[Id(u, e)])
                             /\ IsHit(slot_for_id[Id(u, e)]) => slot_for_id'[Id(u, e)] = slot_for_id[Id(u, e)]
      BY <1>4, <2>1
    <2> QED BY <2>2 DEF HitRows
  <1>6. Free(BufferOf(t))' /\ \A u \in Layers : Free(BufferOf(u)) => Free(BufferOf(u))'
    <2>1. ASSUME NEW u \in Layers, Free(BufferOf(u)) PROVE Free(BufferOf(u))'
      <3>1. BufferSlots(BufferOf(u)) \subseteq Slots
        BY <1>2, LayerFacts, SlotNumbers DEF StreamRest
      <3> QED BY <1>2, <2>1, <3>1 DEF Free, BufferSlots
    <2> QED BY <1>2, <2>1 DEF Free, BufferSlots
  <1>7. Filling'
    <2>1. ASSUME NEW i \in 1 .. Len(compute), NEW u \in Layers, compute[i] \in HitsOf(u) PROVE Gathering(i, u)'
      <3>1. Gathering(i, u)
        BY <2>1 DEF MapInv, Filling
      <3>2. UNCHANGED <<compute, hits, hit_d2d_active, cache_size>> /\ HitRows(u)' = HitRows(u)
        BY <1>2, <1>3, <1>5 DEF hostSide
      <3>3. (Owned(u)' <=> Owned(u)) /\ (Taking(u)' <=> Taking(u)) /\ (Free(BufferOf(u)) => Free(BufferOf(u))')
        BY <1>2, <1>6, CopyLive
      <3> QED BY <3>1, <3>2, <3>3 DEF Gathering
    <2>2. ASSUME NEW u \in Layers, Taking(u)'
          PROVE  /\ Free(BufferOf(u))'
                 /\ hit_d2d_active' /\ compute' # <<>> => compute'[Len(compute')] = Op("gather", u)
      <3>1. Taking(u)
        BY <1>2, <2>2, CopyLive
      <3>2. u = t
        BY <1>2, <3>1 DEF Taking
      <3> QED BY <1>3, <1>6, <3>1, <3>2 DEF MapInv, Filling, hostSide
    <2>3. (host.at # "idle" /\ hit_d2d_active => HitD2d /\ cache_size > 2 * NumExperts)'
      BY <1>3 DEF MapInv, Filling, hostSide
    <2> QED BY <1>3, <2>1, <2>2, <2>3 DEF Filling
  <1>8. Bytes'
    <2> SUFFICES ASSUME NEW i \in Ids, slot_for_id'[i] # None, <<slot_for_id'[i], i>> \notin staged
                 PROVE  \/ /\ host.at = "invalidate" /\ hit_d2d_active /\ compute = <<>>
                           /\ slot_for_id'[i] \in BufferSlots(BufferOf(host.target))
                        \/ \A k \in Banks : data[k][slot_for_id'[i]] = i
      BY <1>2, <1>3 DEF Bytes, Overwritten, BufferSlots, hostSide
    <2>1. slot_for_id'[i] = slot_for_id[i]
      BY <1>2
    <2>2. Overwritten(slot_for_id[i]) \/ \A k \in Banks : data[k][slot_for_id[i]] = i
      BY <2>1 DEF MapInv, Bytes
    <2> QED BY <2>1, <2>2 DEF Overwritten
  <1>9. Steps'
    <2>1. \A i \in 1 .. Len(compute) : compute[i].op \notin Changers
      BY <1>2 DEF StreamRest, Order, Taking
    <2>2. compute # <<>> => Head(compute) = compute[1] /\ 1 \in 1 .. Len(compute)
      <3> SUFFICES ASSUME compute # <<>> PROVE Head(compute) = compute[1] /\ 1 \in 1 .. Len(compute)
        OBVIOUS
      <3>1. Head(compute) = compute[1] /\ Len(compute) \in Nat \ {0}
        BY ComputeHead
      <3> QED BY <3>1
    <2>3. ~Running(compute, "copy_missing") /\ ~Running(compute, "gemm")
      BY <2>1, <2>2 DEF Running, Changers
    <2>4. staged = {}
      BY <2>3, NothingStaged DEF MapInv
    <2>5. ~Running(compute, "copy_missing")' /\ ~Running(compute, "gemm")' /\ prefill_overlap' /\ staged' = {}
      BY <1>2, <1>3, <2>3, <2>4 DEF Running, hostSide
    <2> QED BY <2>5 DEF Steps
  <1>10. Snapshots'
    <2>1. Matches => Matches'
      BY <1>2, <1>4 DEF Matches
    <2>2. Matches \/ ~hit_d2d_active
      BY <1>2 DEF MapInv, Snapshots, Taking
    <2>3. (\E i \in 1 .. Len(compute) : IsHitOp(compute[i])) => Matches
      BY DEF MapInv, Snapshots
    <2> QED BY <1>3, <2>1, <2>2, <2>3 DEF Snapshots, hostSide
  <1>11. Rows'
    <2>1. ASSUME NEW y \in Layers, Live(y)', NEW k \in Banks, NEW e \in Experts PROVE Row(y, k, e)'
      <3>1. Row(y, k, e)
        BY <1>2, <2>1, CopyLive DEF MapInv, Rows
      <3>2. Id(y, e) \in Ids
        BY IdFacts
      <3> QED BY <1>2, <1>3, <1>4, <3>1, <3>2 DEF Row
    <2>2. ASSUME NEW u \in Layers, Taking(u)', hit_d2d_active', compute' = <<>>, NEW e \in Experts,
                 IsHit(slot_for_id'[Id(u, e)])
          PROVE  data'["wide"][BufferOf(u) * NumExperts + e] = Id(u, e)
      <3>1. Taking(u) /\ Id(u, e) \in Ids
        BY <1>2, <2>2, CopyLive, IdFacts
      <3> QED BY <1>2, <1>3, <1>4, <2>2, <3>1 DEF MapInv, Rows, hostSide
    <2> QED BY <2>1, <2>2 DEF Rows
  <1> QED BY <1>7, <1>8, <1>9, <1>10, <1>11 DEF MapInv

\* No operation of either stream breaks the invariant.
LEMMA StreamsMap ==
  ASSUME SizesAssumption, Types, StreamRest, MapInv, MapIsInverse', Types', StreamRest', Compute \/ Copy
  PROVE  MapInv'
  <1>1. MapIsInverse
    BY DEF MapInv
  <1>2. CASE Copy
    BY <1>1, <1>2, CopyEventMap, LayerCopyMap, InvalidateMap DEF Copy
  <1>3. CASE Gemm
    <2>1. compute[1].op \in {"gemm", "gemm_layer"}
      BY <1>3, ComputeHead DEF Gemm, Running
    <2> QED BY <1>3, <2>1, ChangerMap, StreamPopMap
  <1>4. CASE Compute /\ ~Gemm
    BY <1>1, <1>4, ChangerMap, StreamPopMap, GatherMap DEF Compute
  <1> QED BY <1>2, <1>3, <1>4

-----------------------------------------------------------------------------
(* The bytes: the host. *)

deviceSide == <<slot_for_id, id_of_slot, data, staged, topk, hits, done>>

\* The host changes no byte; when it takes up a buffer nothing of the map is in it.
LEMMA HostBytes ==
  ASSUME SizesAssumption, Types, StreamRest, MapInv, MapIsInverse, UNCHANGED deviceSide,
         host.at = "invalidate" => copy = <<>>
  PROVE  Bytes'
  <1> SUFFICES ASSUME NEW i \in Ids, slot_for_id[i] # None, <<slot_for_id[i], i>> \notin staged
               PROVE  \A k \in Banks : data[k][slot_for_id[i]] = i
    BY DEF Bytes, deviceSide
  <1>1. ~Overwritten(slot_for_id[i])
    <2> SUFFICES ASSUME host.at = "invalidate", slot_for_id[i] \in BufferSlots(BufferOf(host.target)) PROVE FALSE
      BY DEF Overwritten
    <2>1. host.target \in Layers
      <3>1. host.target \in Nat /\ host.target < NumLayers
        BY HostFacts DEF StreamRest, Cursor
      <3> QED BY <3>1, LayerFacts
    <2>2. Free(BufferOf(host.target))
      BY <2>1 DEF MapInv, Filling, Taking
    <2>3. id_of_slot[slot_for_id[i]] = i /\ None \notin Ids
      BY IdFacts DEF MapIsInverse
    <2> QED BY <2>2, <2>3 DEF Free
  <1> QED BY <1>1 DEF MapInv, Bytes

\* What is enqueued behind a step under way leaves it alone.
LEMMA HostSteps ==
  ASSUME SizesAssumption, Types, Types', StreamRest, Steps, UNCHANGED <<deviceSide, prefill_overlap>>,
         NEW n \in Nat, Extends(compute', compute, n),
         compute = <<>> /\ compute' # <<>> =>
           /\ compute'[1].op \notin {"copy_missing", "gemm"}
           /\ compute'[1].op = "gemm_layer" => prefill_overlap
  PROVE  Steps'
  <1>1. CASE compute = <<>>
    <2>1. staged = {}
      BY <1>1, NothingStaged DEF Running
    <2>2. compute' # <<>> => Head(compute') = compute'[1]
      BY PopFacts DEF Types
    <2>3. ~Running(compute, "copy_missing")' /\ ~Running(compute, "gemm")'
          /\ ~(Running(compute, "gemm_layer") /\ ~prefill_overlap)'
      <3>1. prefill_overlap' = prefill_overlap
        OBVIOUS
      <3>2. CASE compute' = <<>>
        BY <3>2 DEF Running
      <3>3. CASE compute' # <<>>
        <4>1. compute'[1].op \notin {"copy_missing", "gemm"} /\ (compute'[1].op = "gemm_layer" => prefill_overlap)
          BY <1>1, <3>3
        <4> QED BY <2>2, <3>1, <3>3, <4>1 DEF Running
      <3> QED BY <3>2, <3>3
    <2> QED BY <2>1, <2>3 DEF Steps, deviceSide
  <1>2. CASE compute # <<>>
    <2>1. /\ Head(compute) = compute[1] /\ Len(compute) \in Nat \ {0} /\ 1 \in 1 .. Len(compute)
      <3>1. Head(compute) = compute[1] /\ Len(compute) \in Nat \ {0}
        BY <1>2, ComputeHead
      <3> QED BY <3>1
    <2>2. compute'[1] = compute[1]
      BY <2>1 DEF Extends
    <2>3. compute' # <<>> /\ Head(compute') = compute'[1]
      <3>1. Len(compute') = Len(compute) + n
        BY DEF Extends
      <3>2. Len(compute') # 0
        BY ONLY <2>1, <3>1, n \in Nat
      <3>3. Len(<<>>) = 0
        BY EmptySeq
      <3>4. compute' # <<>>
        BY <3>2, <3>3
      <3> QED BY <3>4, PopFacts DEF Types
    <2>4. compute[1].op = "copy_missing" => compute'[2] = compute[2]
      <3> SUFFICES ASSUME compute[1].op = "copy_missing" PROVE compute'[2] = compute[2]
        OBVIOUS
      <3>1. Neighbours(compute, 1)
        BY <2>1 DEF StreamRest, Adjacent
      <3>2. 1 + 1 <= Len(compute)
        BY <3>1 DEF Neighbours
      <3>3. 2 \in 1 .. Len(compute)
        BY ONLY <2>1, <3>2
      <3> QED BY <3>3 DEF Extends
    <2>5. \A name : Running(compute, name)' <=> Running(compute, name)
      BY <1>2, <2>1, <2>2, <2>3 DEF Running
    <2>6. Running(compute, "copy_missing") => compute'[2] = compute[2]
      BY <2>1, <2>4 DEF Running
    <2>7. UNCHANGED <<staged, topk, slot_for_id, prefill_overlap>>
      BY DEF deviceSide
    <2> QED BY <2>2, <2>5, <2>6, <2>7 DEF Steps
  <1> QED BY <1>1, <1>2

\* What the host enqueues without taking a buffer, and where it goes then.
LEMMA EnqueueMap ==
  ASSUME SizesAssumption, Types, Types', StreamRest, MapInv,
         UNCHANGED <<deviceSide, snapshot, cache_size, prefill_overlap>>,
         host.at # "invalidate", host'.at # "invalidate",
         NEW n \in Nat, Extends(compute', compute, n),
         \A i \in Len(compute) + 1 .. Len(compute) + n :
           ~IsHitOp(compute'[i]) /\ (prefill_overlap => compute'[i].op # "gemm_layer"),
         \A l \in Layers : (Copying(l)' <=> Copying(l)) /\ (Owned(l)' <=> Owned(l)),
         copy # <<>> => copy'[1] = copy[1],
         host'.at # "idle" /\ hit_d2d_active' => HitD2d /\ cache_size > 2 * NumExperts,
         hit_d2d_active /\ HitD2d /\ cache_size > 2 * NumExperts => hit_d2d_active',
         (hit_d2d_active /\ host.at # "idle" /\ ~Pending(Begin) /\ ~(host.at = "snapshot" /\ copy # <<>>))' => Matches
  PROVE  Filling' /\ Snapshots' /\ Rows'
  <1>1. UNCHANGED <<slot_for_id, id_of_slot, data, hits, snapshot, cache_size, prefill_overlap>>
    BY DEF deviceSide
  <1>2. /\ Len(compute) \in Nat /\ Len(compute') = Len(compute) + n
        /\ \A i \in 1 .. Len(compute') : (i \in 1 .. Len(compute) /\ compute'[i] = compute[i]) \/ i \in Len(compute) + 1 .. Len(compute) + n
        /\ \A i \in 1 .. Len(compute) : i \in 1 .. Len(compute') /\ compute'[i] = compute[i]
    BY ExtendsSplit
  <1>3. /\ \A b : Free(b)' <=> Free(b)
        /\ \A t : HitRows(t)' = HitRows(t)
        /\ Matches' <=> Matches
    BY <1>1 DEF Free, BufferSlots, HitRows, Matches
  <1>4. \A l \in Layers : Live(l)' <=> Live(l)
    <2> TAKE l \in Layers
    <2>1. prefill_overlap => ((\E i \in 1 .. Len(compute') : compute'[i] = GemmLayer(l)) <=> \E i \in 1 .. Len(compute) : compute[i] = GemmLayer(l))
      BY <1>2 DEF GemmLayer, Op
    <2> QED BY <1>1, <2>1 DEF Live
  <1>5. \A t : ~Taking(t) /\ ~Taking(t)'
    BY DEF Taking
  <1>6. ASSUME NEW i \in 1 .. Len(compute'), NEW t \in Layers, compute'[i] \in HitsOf(t)
        PROVE  Gathering(i, t)'
    <2>1. IsHitOp(compute'[i])
      BY <1>6 DEF HitsOf, IsHitOp, Op
    <2>2. i \in 1 .. Len(compute) /\ compute'[i] = compute[i] /\ IsHitOp(compute[i])
      BY <1>2, <2>1
    <2>3. Gathering(i, t)
      BY <1>6, <2>2 DEF MapInv, Filling
    <2>4. prefill_overlap
      BY <2>2 DEF StreamRest, Mode, IsHitOp, Changers
    <2>5. hit_d2d_active' /\ HitD2d /\ cache_size' > 2 * NumExperts
      BY <1>1, <2>2, <2>3 DEF Gathering
    <2>6. ASSUME NEW j \in i .. Len(compute), compute[j] = GemmLayer(t)
          PROVE  j \in i .. Len(compute') /\ compute'[j] = GemmLayer(t)
      <3>1. j \in 1 .. Len(compute) /\ j \in i .. Len(compute')
        BY ONLY <1>2, <2>2, <2>6, n \in Nat
      <3> QED BY <1>2, <2>6, <3>1
    <2>7. \/ Free(BufferOf(t))' /\ Owned(t)'
          \/ Free(BufferOf(t))' /\ \E j \in i .. Len(compute') : compute'[j] = GemmLayer(t)
      <3>1. \/ Free(BufferOf(t)) /\ Owned(t)
            \/ Free(BufferOf(t)) /\ \E j \in i .. Len(compute) : compute[j] = GemmLayer(t)
        BY <1>5, <2>3 DEF Gathering
      <3>2. (\E j \in i .. Len(compute) : compute[j] = GemmLayer(t)) => \E j \in i .. Len(compute') : compute'[j] = GemmLayer(t)
        BY <2>6
      <3>3. (Free(BufferOf(t))' <=> Free(BufferOf(t))) /\ (Owned(t)' <=> Owned(t))
        BY <1>3
      <3> QED BY <3>1, <3>2, <3>3
    <2>8. ASSUME NEW j \in i .. Len(compute'), NEW l \in Layers, compute'[j] = GemmLayer(l), BufferOf(l) = BufferOf(t)
          PROVE  l = t
      <3>1. j \in 1 .. Len(compute')
        BY ONLY <1>2, <2>2, <2>8, n \in Nat
      <3>2. j \in 1 .. Len(compute) /\ compute'[j] = compute[j]
        BY <1>2, <2>4, <2>8, <3>1 DEF GemmLayer, Op
      <3>3. j \in i .. Len(compute)
        BY ONLY <1>2, <2>2, <2>8, <3>2
      <3> QED BY <2>3, <2>8, <3>2, <3>3 DEF Gathering
    <2>9. i = 1 /\ compute'[i] = Op("gather", t) => hits' = HitRows(t)'
      BY <1>1, <1>3, <2>2, <2>3 DEF Gathering
    <2> QED BY <2>5, <2>7, <2>8, <2>9 DEF Gathering
  <1>7. (host.at # "idle" /\ hit_d2d_active => HitD2d /\ cache_size > 2 * NumExperts)'
    BY <1>1
  <1>8. \A l \in Layers : Copying(l)' => Live(l)' /\ Free(BufferOf(l))'
    BY <1>3, <1>4 DEF MapInv, Filling
  <1>9. Filling'
    BY <1>5, <1>6, <1>7, <1>8 DEF Filling
  <1>10. Snapshots'
    <2>1. ASSUME NEW i \in 1 .. Len(compute'), IsHitOp(compute'[i]) PROVE Matches
      <3>1. i \in 1 .. Len(compute) /\ compute'[i] = compute[i]
        BY <1>2, <2>1
      <3> QED BY <2>1, <3>1 DEF MapInv, Snapshots
    <2> QED BY <1>3, <2>1 DEF Snapshots
  <1>11. Rows'
    <2>1. ASSUME NEW l \in Layers, Live(l)', NEW k \in Banks, NEW e \in Experts PROVE Row(l, k, e)'
      <3>1. Row(l, k, e)
        BY <1>4, <2>1 DEF MapInv, Rows
      <3>2. (\E j \in 1 .. Len(compute) : compute[j] = Op("gather", l)) => \E j \in 1 .. Len(compute') : compute'[j] = Op("gather", l)
        BY <1>2
      <3>3. Copying(l) => Copying(l)' /\ copy'[1] = copy[1]
        BY DEF Copying
      <3> QED BY <1>1, <3>1, <3>2, <3>3 DEF Row
    <2> QED BY <1>5, <2>1 DEF Rows
  <1> QED BY <1>9, <1>10, <1>11

\* Passes and resets are enqueued behind everything.
LEMMA PassMap ==
  ASSUME SizesAssumption, Types, StreamRest, MapInv, Types', StreamRest', MapIsInverse', host.at = "idle",
         UNCHANGED <<deviceSide, snapshot, copy, hostSide>>, NEW n \in Nat \ {0}, Extends(compute', compute, n),
         \A i \in Len(compute) + 1 .. Len(compute) + n :
           compute'[i].op \in IF prefill_overlap THEN Changers \ {"materialize"} ELSE Changers \cup {"gemm_layer"},
         compute'[Len(compute) + 1].op \notin {"copy_missing", "gemm", "gemm_layer"}
  PROVE  MapInv'
  <1>1. UNCHANGED <<copy, cache_size, prefill_overlap, recorded, buffer_layer, hit_d2d_active, host>>
    BY DEF hostSide
  <1>2. Bytes'
    BY <1>1, HostBytes DEF MapInv
  <1>3. Len(compute) \in Nat /\ (compute = <<>> => Len(compute) = 0)
    BY EmptySeq DEF Extends
  <1>4. Steps'
    <2>1. compute = <<>> => compute'[1].op \notin {"copy_missing", "gemm", "gemm_layer"}
      <3> SUFFICES ASSUME compute = <<>> PROVE compute'[1].op \notin {"copy_missing", "gemm", "gemm_layer"}
        OBVIOUS
      <3>1. Len(compute) + 1 = 1
        BY <1>3
      <3> QED BY <3>1
    <2> QED BY <1>1, <2>1, HostSteps DEF MapInv
  <1>5. \A i \in Len(compute) + 1 .. Len(compute) + n :
          ~IsHitOp(compute'[i]) /\ (prefill_overlap => compute'[i].op # "gemm_layer")
    BY DEF IsHitOp, Changers
  <1>6. \A l \in Layers : (Copying(l)' <=> Copying(l)) /\ (Owned(l)' <=> Owned(l))
    BY <1>1 DEF Copying, Owned
  <1>7. Filling' /\ Snapshots' /\ Rows'
    BY <1>1, <1>5, <1>6, EnqueueMap
  <1> QED BY <1>2, <1>4, <1>7 DEF MapInv

LEMMA DecodeMap ==
  ASSUME SizesAssumption, Types, StreamRest, MapInv, Types', StreamRest', MapIsInverse', DecodePass
  PROVE  MapInv'
  <1>1. /\ Len(compute) \in Nat
        /\ Len(compute') = Len(compute) + 3 * NumLayers /\ 3 * NumLayers \in Nat \ {0}
        /\ \A i \in 1 .. Len(compute) : compute'[i] = compute[i]
        /\ \A l \in Layers : LET m == Len(compute) + 3 * l IN
             compute'[m + 1] = Op("ensure", l) /\ compute'[m + 2] = Op("copy_missing", l) /\ compute'[m + 3] = Op("gemm", l)
        /\ \A i \in 1 .. Len(compute') : i \notin 1 .. Len(compute) =>
             \E l \in Layers : i \in {Len(compute) + 3 * l + 1, Len(compute) + 3 * l + 2, Len(compute) + 3 * l + 3}
    <2>1. compute' = compute \o PassOver(<<"ensure", "copy_missing", "gemm">>, 3)
      BY DEF DecodePass
    <2>2. "ensure" \in Changers \cup {"gemm_layer"} /\ "copy_missing" \in Changers \cup {"gemm_layer"}
          /\ "gemm" \in Changers \cup {"gemm_layer"}
      BY DEF Changers
    <2> QED BY <2>1, <2>2, PassEnqueued
  <1>2. UNCHANGED <<deviceSide, snapshot, copy, hostSide>> /\ host.at = "idle"
    BY DEF DecodePass, NewPass, deviceVars, mapVars, deviceSide, sizeVars, bufferVars, hostSide
  <1>3. Extends(compute', compute, 3 * NumLayers)
    BY <1>1 DEF Extends
  <1>4. ASSUME NEW i \in Len(compute) + 1 .. Len(compute) + 3 * NumLayers
        PROVE  compute'[i].op \in {"ensure", "copy_missing", "gemm"}
    <2>1. i \in 1 .. Len(compute') /\ i \notin 1 .. Len(compute)
      BY ONLY <1>1, <1>4
    <2>2. PICK l \in Layers : i \in {Len(compute) + 3 * l + 1, Len(compute) + 3 * l + 2, Len(compute) + 3 * l + 3}
      BY <1>1, <2>1
    <2>3. compute'[i] \in {Op("ensure", l), Op("copy_missing", l), Op("gemm", l)}
      BY <1>1, <2>2
    <2> QED BY <2>3 DEF Op
  <1>5. compute'[Len(compute) + 1].op = "ensure"
    <2>1. 0 \in Layers /\ Len(compute) + 3 * 0 = Len(compute)
      BY <1>1, LayerFacts
    <2>2. compute'[(Len(compute) + 3 * 0) + 1] = Op("ensure", 0)
      BY <1>1, <2>1
    <2> QED BY <2>1, <2>2 DEF Op
  <1> QED BY <1>1, <1>2, <1>3, <1>4, <1>5, PassMap DEF Changers

LEMMA MaterializePassMap ==
  ASSUME SizesAssumption, Types, StreamRest, MapInv, Types', StreamRest', MapIsInverse', MaterializePass
  PROVE  MapInv'
  <1>1. /\ Len(compute) \in Nat
        /\ Len(compute') = Len(compute) + 3 * NumLayers /\ 3 * NumLayers \in Nat \ {0}
        /\ \A i \in 1 .. Len(compute) : compute'[i] = compute[i]
        /\ \A l \in Layers : LET m == Len(compute) + 3 * l IN
             compute'[m + 1] = Op("materialize", l) /\ compute'[m + 2] = Op("copy_missing", l) /\ compute'[m + 3] = Op("gemm_layer", l)
        /\ \A i \in 1 .. Len(compute') : i \notin 1 .. Len(compute) =>
             \E l \in Layers : i \in {Len(compute) + 3 * l + 1, Len(compute) + 3 * l + 2, Len(compute) + 3 * l + 3}
    <2>1. compute' = compute \o PassOver(<<"materialize", "copy_missing", "gemm_layer">>, 3)
      BY DEF MaterializePass
    <2>2. "materialize" \in Changers \cup {"gemm_layer"} /\ "copy_missing" \in Changers \cup {"gemm_layer"}
          /\ "gemm_layer" \in Changers \cup {"gemm_layer"}
      BY DEF Changers
    <2> QED BY <2>1, <2>2, PassEnqueued
  <1>2. UNCHANGED <<deviceSide, snapshot, copy, hostSide>> /\ host.at = "idle" /\ ~prefill_overlap
    BY DEF MaterializePass, NewPass, deviceVars, mapVars, deviceSide, sizeVars, bufferVars, hostSide
  <1>3. Extends(compute', compute, 3 * NumLayers)
    BY <1>1 DEF Extends
  <1>4. ASSUME NEW i \in Len(compute) + 1 .. Len(compute) + 3 * NumLayers
        PROVE  compute'[i].op \in {"materialize", "copy_missing", "gemm_layer"}
    <2>1. i \in 1 .. Len(compute') /\ i \notin 1 .. Len(compute)
      BY ONLY <1>1, <1>4
    <2>2. PICK l \in Layers : i \in {Len(compute) + 3 * l + 1, Len(compute) + 3 * l + 2, Len(compute) + 3 * l + 3}
      BY <1>1, <2>1
    <2>3. compute'[i] \in {Op("materialize", l), Op("copy_missing", l), Op("gemm_layer", l)}
      BY <1>1, <2>2
    <2> QED BY <2>3 DEF Op
  <1>5. compute'[Len(compute) + 1].op = "materialize"
    <2>1. 0 \in Layers /\ Len(compute) + 3 * 0 = Len(compute)
      BY <1>1, LayerFacts
    <2>2. compute'[(Len(compute) + 3 * 0) + 1] = Op("materialize", 0)
      BY <1>1, <2>1
    <2> QED BY <2>1, <2>2 DEF Op
  <1> QED BY <1>1, <1>2, <1>3, <1>4, <1>5, PassMap DEF Changers

LEMMA ResetMap ==
  ASSUME SizesAssumption, Types, StreamRest, MapInv, Types', StreamRest', MapIsInverse', Reset
  PROVE  MapInv'
  <1>1. UNCHANGED <<deviceSide, snapshot, copy, hostSide>> /\ host.at = "idle" /\ compute' = Append(compute, Op("reset", 0))
    BY DEF Reset, deviceVars, mapVars, deviceSide, sizeVars, bufferVars, hostSide
  <1>2. Op("reset", 0) \in ComputeOps /\ compute \in Seq(ComputeOps)
    BY NewOps, LayerFacts DEF Changers, Types
  <1>3. /\ Len(compute') = Len(compute) + 1 /\ Len(compute) \in Nat
        /\ \A i \in 1 .. Len(compute) : compute'[i] = compute[i]
        /\ compute'[Len(compute) + 1] = Op("reset", 0)
    BY <1>1, <1>2, AppendFacts
  <1>4. Extends(compute', compute, 1)
    BY <1>3 DEF Extends
  <1>5. \A i \in Len(compute) + 1 .. Len(compute) + 1 : compute'[i].op = "reset"
    BY <1>3 DEF Op
  <1> QED BY <1>1, <1>3, <1>4, <1>5, PassMap DEF Changers

\* A chunk begins: nothing of it is streamed yet.
LEMMA BeginMap ==
  ASSUME SizesAssumption, Types, StreamRest, MapInv, Types', StreamRest', MapIsInverse', BeginPrefill
  PROVE  MapInv'
  <1> DEFINE n == recorded[Begin] + 1
             split == HitD2d /\ cache_size > 2 * NumExperts
  <1>1. /\ UNCHANGED <<deviceSide, snapshot, cache_size, prefill_overlap>> /\ host.at = "idle" /\ prefill_overlap
        /\ hit_d2d_active' = split /\ host'.at \in {"snapshot", "prefetch"} /\ host'.layer = 0
        /\ \A b \in {0, 1} : buffer_layer'[b] = None
        /\ recorded' = [recorded EXCEPT ![Begin] = n] /\ done' = done
    BY DEF BeginPrefill, NewPass, Idle, deviceVars, mapVars, deviceSide, sizeVars
  <1>2. /\ n \in Nat
        /\ compute' \in Seq(ComputeOps) /\ Extends(compute', compute, 1)
        /\ compute'[Len(compute) + 1] = RecordOp(Begin, n)
        /\ copy' \in Seq(CopyOps) /\ Extends(copy', copy, IF split THEN 2 ELSE 1)
        /\ copy'[Len(copy) + 1] = WaitOp(Begin, n)
    BY BeginEnqueues
  <1> HIDE DEF split
  <1>3. Bytes'
    BY <1>1, HostBytes DEF MapInv
  <1>4. compute'[Len(compute) + 1].op = "record" /\ copy'[Len(copy) + 1].op = "wait"
    BY <1>2 DEF RecordOp, WaitOp
  <1>5. Steps'
    <2>1. compute = <<>> => compute'[1].op = "record"
      <3>1. Len(<<>>) + 1 = 1
        BY EmptySeq
      <3> QED BY <1>4, <3>1
    <2> QED BY <1>1, <1>2, <2>1, HostSteps DEF MapInv
  <1>6. \A i \in Len(compute) + 1 .. Len(compute) + 1 : ~IsHitOp(compute'[i]) /\ compute'[i].op # "gemm_layer"
    BY <1>2, <1>4 DEF IsHitOp, Extends
  <1>7. copy # <<>> => copy' # <<>> /\ copy'[1] = copy[1]
    <2> SUFFICES ASSUME copy # <<>> PROVE copy' # <<>> /\ copy'[1] = copy[1]
      OBVIOUS
    <2>1. Len(copy) \in Nat \ {0}
      BY CopyHead
    <2>2. Len(copy') = Len(copy) + 1 \/ Len(copy') = Len(copy) + 2
      BY <1>2 DEF Extends
    <2>3. Len(copy') # 0 /\ 1 \in 1 .. Len(copy)
      BY ONLY <2>1, <2>2
    <2>4. Len(<<>>) = 0
      BY EmptySeq
    <2> QED BY <1>2, <2>3, <2>4 DEF Extends
  <1>8. copy = <<>> => copy'[1].op = "wait"
    <2>1. Len(<<>>) + 1 = 1
      BY EmptySeq
    <2> QED BY <1>4, <2>1
  <1>9. \A l \in Layers : (Copying(l)' <=> Copying(l)) /\ (Owned(l)' <=> Owned(l))
    <2> TAKE l \in Layers
    <2>1. Copying(l)' <=> Copying(l)
      BY <1>7, <1>8 DEF Copying, IsCopy
    <2>2. ~Owned(l)
      BY <1>1 DEF Owned
    <2>3. ~Owned(l)'
      <3>1. BufferOf(l) \in {0, 1} /\ l # None
        BY LayerFacts DEF None
      <3> QED BY <1>1, <3>1 DEF Owned
    <2> QED BY <2>1, <2>2, <2>3
  <1>10. Pending(Begin)'
    <2>1. done[Begin] <= recorded[Begin] /\ done[Begin] \in Nat /\ recorded[Begin] \in Nat /\ Begin \in Events
      BY EventsDiffer DEF StreamRest, Records, Types
    <2>2. done'[Begin] = done[Begin] /\ recorded'[Begin] = recorded[Begin] + 1
      BY <1>1, <2>1 DEF Types
    <2> QED BY <2>1, <2>2 DEF Pending
  <1>11. Filling' /\ Snapshots' /\ Rows'
    BY <1>1, <1>2, <1>6, <1>7, <1>9, <1>10, EnqueueMap DEF split
  <1> QED BY <1>3, <1>5, <1>11 DEF MapInv

\* The host has the snapshot, or skips what is already there.
LEMMA MoveMap ==
  ASSUME SizesAssumption, Types, StreamRest, MapInv, Types', StreamRest', MapIsInverse', SnapshotSynced \/ PrefetchSkips
  PROVE  MapInv'
  <1>1. /\ UNCHANGED <<deviceSide, snapshot, cache_size, prefill_overlap, compute, copy, hit_d2d_active,
                       recorded, done, buffer_layer>>
        /\ \/ host.at = "snapshot" /\ copy = <<>> /\ host'.at = "prefetch"
           \/ host.at = "prefetch" /\ host'.at \in {"prefetch", "forward"} /\ host'.layer = host.layer
    <2>1. UNCHANGED <<deviceSide, snapshot, cache_size, prefill_overlap, compute, copy, hit_d2d_active,
                       recorded, done, buffer_layer>>
      BY DEF SnapshotSynced, PrefetchSkips, deviceVars, mapVars, deviceSide, sizeVars, bufferVars
    <2>2. CASE SnapshotSynced
      BY <2>1, <2>2 DEF SnapshotSynced, Types
    <2>3. CASE PrefetchSkips
      BY <2>1, <2>3 DEF PrefetchSkips, AfterPrefetch, Types
    <2> QED BY <2>1, <2>2, <2>3
  <1>2. Bytes'
    BY <1>1, HostBytes DEF MapInv
  <1>3. Extends(compute', compute, 0)
    BY <1>1, LenProperties DEF Extends, Types
  <1>4. Steps'
    BY <1>1, <1>3, HostSteps DEF MapInv
  <1>5. \A i \in Len(compute) + 1 .. Len(compute) + 0 : FALSE
    <2>1. Len(compute) \in Nat
      BY <1>3 DEF Extends
    <2> QED BY ONLY <2>1
  <1>6. \A l \in Layers : (Copying(l)' <=> Copying(l)) /\ (Owned(l)' <=> Owned(l))
    <2> TAKE l \in Layers
    <2>1. Copying(l)' <=> Copying(l)
      BY <1>1 DEF Copying
    <2>2. CASE host.at = "prefetch"
      <3>1. Owned(l)' <=> Owned(l)
        BY <1>1, <2>2 DEF Owned
      <3> QED BY <2>1, <3>1
    <2>3. CASE host.at = "snapshot"
      <3>1. \A b \in {0, 1} : buffer_layer[b] = None
        BY <2>3 DEF StreamRest, Cursor, Starting
      <3>2. BufferOf(l) \in {0, 1} /\ l # None
        BY LayerFacts DEF None
      <3> QED BY <1>1, <2>1, <2>3, <3>1, <3>2 DEF Owned
    <2> QED BY <1>1, <2>1, <2>2, <2>3
  <1>7. (hit_d2d_active /\ host.at # "idle" /\ ~Pending(Begin))' => Matches
    <2>1. hit_d2d_active /\ ~Pending(Begin) => Matches
      BY <1>1 DEF MapInv, Snapshots
    <2> QED BY <1>1, <2>1 DEF Pending
  <1>8. host'.at # "idle" /\ hit_d2d_active' => HitD2d /\ cache_size > 2 * NumExperts
    BY <1>1 DEF MapInv, Filling
  <1>9. Filling' /\ Snapshots' /\ Rows'
    BY <1>1, <1>3, <1>5, <1>6, <1>7, <1>8, EnqueueMap
  <1> QED BY <1>2, <1>4, <1>9 DEF MapInv

\* An empty map and empty queues.
LEMMA ColdMap ==
  SizesAssumption => (MapIsInverse /\ compute = <<>> /\ copy = <<>> /\ staged = {} /\ host.at = "idle"
                        /\ slot_for_id = [i \in Ids |-> None] => MapInv)
  <1> SUFFICES ASSUME SizesAssumption, MapIsInverse, compute = <<>>, copy = <<>>, staged = {}, host.at = "idle",
                      slot_for_id = [i \in Ids |-> None]
               PROVE  MapInv
    OBVIOUS
  <1>1. \A i : i \notin 1 .. Len(compute)
    <2>1. Len(compute) = 0
      BY EmptySeq
    <2> QED BY ONLY <2>1
  <1>2. \A l : ~Live(l) /\ ~Taking(l) /\ ~Copying(l)
    BY <1>1 DEF Live, Owned, Taking, Copying
  <1>3. Filling /\ Rows
    BY <1>1, <1>2 DEF Filling, Rows
  <1>4. Snapshots /\ Bytes /\ Steps
    BY <1>1 DEF Snapshots, Bytes, Steps, Running
  <1> QED BY <1>3, <1>4 DEF MapInv

LEMMA RebuildMap ==
  ASSUME SizesAssumption, MapIsInverse', Rebuild
  PROVE  MapInv'
  <1>1. (MapIsInverse /\ compute = <<>> /\ copy = <<>> /\ staged = {} /\ host.at = "idle"
           /\ slot_for_id = [i \in Ids |-> None])'
    BY DEF Rebuild, Ids
  <1>2. (MapIsInverse /\ compute = <<>> /\ copy = <<>> /\ staged = {} /\ host.at = "idle"
           /\ slot_for_id = [i \in Ids |-> None] => MapInv)'
    BY ColdMap, PTL
  <1> QED BY ONLY <1>1, <1>2

LEMMA MapStutters ==
  ASSUME MapInv, UNCHANGED vars
  PROVE  MapInv'
  <1>1. UNCHANGED <<cache_size, prefill_overlap, slot_for_id, id_of_slot, data, staged, topk, hits, done, compute, copy,
                    recorded, buffer_layer, snapshot, hit_d2d_active, host>>
    BY DEF vars, sizeVars, deviceVars, mapVars, bufferVars
  <1>2. /\ \A l : (Owned(l)' <=> Owned(l)) /\ (Live(l)' <=> Live(l)) /\ (Taking(l)' <=> Taking(l))
                  /\ (Copying(l)' <=> Copying(l)) /\ HitRows(l)' = HitRows(l)
        /\ \A b : Free(b)' <=> Free(b)
        /\ \A s : Overwritten(s)' <=> Overwritten(s)
        /\ \A name : Running(compute, name)' <=> Running(compute, name)
        /\ (Matches' <=> Matches) /\ (Pending(Begin)' <=> Pending(Begin))
    BY <1>1 DEF Owned, Live, Taking, Copying, HitRows, Free, BufferSlots, Overwritten, Running, Matches, Pending
  <1>3. MapIsInverse'
    BY <1>1 DEF MapInv, MapIsInverse, Slots
  <1>4. Filling'
    <2>1. \A i \in 1 .. Len(compute), t \in Layers : Gathering(i, t)' <=> Gathering(i, t)
      BY <1>1, <1>2 DEF Gathering
    <2> QED BY <1>1, <1>2, <2>1 DEF MapInv, Filling
  <1>5. Snapshots'
    BY <1>1, <1>2 DEF MapInv, Snapshots
  <1>6. Bytes'
    BY <1>1 DEF MapInv, Bytes, Overwritten, BufferSlots
  <1>7. Steps'
    BY <1>1 DEF MapInv, Steps, Running
  <1>8. Rows'
    BY <1>1, <1>2 DEF MapInv, Rows, Row
  <1> QED BY <1>3, <1>4, <1>5, <1>6, <1>7, <1>8 DEF MapInv

\* The host takes a buffer: the hits will be gathered into it before it is disowned.
LEMMA TakesMap ==
  ASSUME SizesAssumption, Types, StreamRest, MapInv, Types', StreamRest', MapIsInverse', PrefetchTakes
  PROVE  MapInv'
  <1> DEFINE m == Len(compute)
             n == IF hit_d2d_active THEN 2 ELSE 0
             c == IF has_release[BufferOf(host.target)] THEN 2 ELSE 1
  <1>1. /\ host.at = "prefetch" /\ host.target < NumLayers /\ host' = [host EXCEPT !.at = "invalidate"]
        /\ Extends(compute', compute, n)
        /\ hit_d2d_active => /\ compute'[m + 1] = Op("compact", host.target)
                             /\ compute'[m + 2] = Op("gather", host.target)
        /\ ~hit_d2d_active => compute' = compute
        /\ Extends(copy', copy, c)
        /\ has_release[BufferOf(host.target)] => copy'[Len(copy) + 1].op = "wait"
        /\ ~has_release[BufferOf(host.target)] => copy'[Len(copy) + 1].op = "invalidate"
    BY DEF PrefetchTakes, WaitOp, Op
  <1>2. UNCHANGED <<deviceSide, snapshot, cache_size, prefill_overlap, hit_d2d_active, recorded, done, buffer_layer>>
    BY DEF PrefetchTakes, deviceVars, mapVars, deviceSide, sizeVars, bufferVars
  <1>3. UNCHANGED <<slot_for_id, id_of_slot, data, hits, snapshot, cache_size, prefill_overlap, hit_d2d_active,
                    recorded, done, buffer_layer>>
    BY <1>2 DEF deviceSide
  <1>4. host'.at = "invalidate" /\ host'.layer = host.layer /\ host'.target = host.target
    BY <1>1 DEF Types
  <1>5. PICK t \in Layers : t = host.target
    BY <1>1, HostFacts, LayerFacts
  <1>6. n \in Nat /\ c \in Nat
    OBVIOUS
  <1>7. /\ m \in Nat /\ Len(compute') = m + n
        /\ \A i \in 1 .. Len(compute') : (i \in 1 .. m /\ compute'[i] = compute[i]) \/ i \in m + 1 .. m + n
        /\ \A i \in 1 .. m : i \in 1 .. Len(compute') /\ compute'[i] = compute[i]
    BY ONLY <1>1, <1>6, ExtendsSplit
  <1>8. ASSUME NEW i \in m + 1 .. m + n
        PROVE  /\ hit_d2d_active /\ n = 2
               /\ \/ i = m + 1 /\ compute'[i] = Op("compact", t)
                  \/ i = m + 2 /\ compute'[i] = Op("gather", t)
    <2>1. hit_d2d_active /\ n = 2
      BY <1>7
    <2>2. i = m + 1 \/ i = m + 2
      BY <1>7, <2>1
    <2> QED BY <1>1, <1>5, <2>1, <2>2
  <1>9. hit_d2d_active => n = 2
    OBVIOUS
  <1>10. copy' # <<>> /\ (copy # <<>> => copy'[1] = copy[1]) /\ (copy = <<>> => ~IsCopy(copy'[1]))
    <2>1. /\ Len(copy) \in Nat /\ Len(copy') = Len(copy) + c /\ \A p \in 1 .. Len(copy) : copy'[p] = copy[p]
      BY <1>1 DEF Extends
    <2>2. c = 1 \/ c = 2
      OBVIOUS
    <2>3. Len(<<>>) = 0
      BY EmptySeq
    <2>4. Len(copy') # 0
      BY ONLY <2>1, <2>2
    <2>5. copy # <<>> => copy'[1] = copy[1]
      <3>1. copy # <<>> => Len(copy) \in Nat \ {0}
        BY CopyHead
      <3> QED BY <2>1, <3>1
    <2>6. copy'[Len(copy) + 1].op \in {"wait", "invalidate"}
      BY <1>1
    <2>7. copy = <<>> => Len(copy) + 1 = 1
      BY <2>3
    <2>8. copy = <<>> => ~IsCopy(copy'[1])
      BY <2>6, <2>7 DEF IsCopy
    <2>9. copy' # <<>>
      BY <2>3, <2>4
    <2> QED BY <2>5, <2>8, <2>9
  <1> HIDE DEF n, c
  <1>11. /\ \A b : Free(b)' <=> Free(b)
         /\ \A x : HitRows(x)' = HitRows(x)
         /\ (Matches' <=> Matches) /\ (Pending(Begin)' <=> Pending(Begin))
    BY <1>3 DEF Free, BufferSlots, HitRows, Matches, Pending
  <1>12. /\ \A x : ~Taking(x) /\ (Taking(x)' <=> x = t)
         /\ \A x : (Owned(x)' <=> Owned(x)) /\ (Copying(x)' <=> Copying(x))
    <2>1. \A x : ~Taking(x) /\ (Taking(x)' <=> x = t)
      BY <1>1, <1>4, <1>5 DEF Taking
    <2>2. \A x : Owned(x)' <=> Owned(x)
      BY <1>1, <1>3, <1>4 DEF Owned
    <2>3. \A x : Copying(x)' <=> Copying(x)
      BY <1>10 DEF Copying
    <2> QED BY <2>1, <2>2, <2>3
  <1>13. \A i \in m + 1 .. m + n : compute'[i].op # "gemm_layer" /\ compute'[i].op \notin {"copy_missing", "gemm"}
    BY <1>8 DEF Op
  <1>14. \A x \in Layers : Live(x)' <=> Live(x)
    <2> TAKE x \in Layers
    <2>1. (\E i \in 1 .. Len(compute') : compute'[i] = GemmLayer(x)) <=> \E i \in 1 .. m : compute[i] = GemmLayer(x)
      BY <1>7, <1>13 DEF GemmLayer, Op
    <2> QED BY <1>3, <1>12, <2>1 DEF Live
  <1>15. hit_d2d_active => Matches /\ HitD2d /\ cache_size > 2 * NumExperts
    <2>1. hit_d2d_active => ~Pending(Begin)
      BY <1>1 DEF StreamRest, Fences
    <2>2. hit_d2d_active /\ ~Pending(Begin) => Matches
      BY <1>1 DEF MapInv, Snapshots
    <2>3. hit_d2d_active => HitD2d /\ cache_size > 2 * NumExperts
      BY <1>1 DEF MapInv, Filling
    <2> QED BY <2>1, <2>2, <2>3
  <1>16. Bytes'
    BY <1>1, <1>2, HostBytes DEF MapInv
  <1>17. Steps'
    <2>1. compute = <<>> /\ compute' # <<>> => compute'[1].op = "compact"
      <3>1. compute = <<>> => m + 1 = 1
        BY EmptySeq
      <3> QED BY <1>1, <3>1 DEF Op
    <2> QED BY <1>1, <1>2, <1>6, <2>1, HostSteps DEF MapInv
  <1>18. ASSUME NEW i \in 1 .. Len(compute'), NEW u \in Layers, compute'[i] \in HitsOf(u)
         PROVE  Gathering(i, u)'
    <2>1. CASE i \in 1 .. m /\ compute'[i] = compute[i]
      <3>1. Gathering(i, u)
        BY <1>18, <2>1 DEF MapInv, Filling
      <3>2. hit_d2d_active' /\ HitD2d /\ cache_size' > 2 * NumExperts
        BY <1>3, <3>1 DEF Gathering
      <3>3. ASSUME NEW j \in i .. m, compute[j] = GemmLayer(u)
            PROVE  j \in i .. Len(compute') /\ compute'[j] = GemmLayer(u)
        <4>1. j \in 1 .. m /\ j \in i .. Len(compute')
          BY ONLY <1>6, <1>7, <2>1, <3>3
        <4> QED BY <1>7, <3>3, <4>1
      <3>4. \/ Free(BufferOf(u))' /\ Owned(u)'
            \/ Free(BufferOf(u))' /\ \E j \in i .. Len(compute') : compute'[j] = GemmLayer(u)
        <4>1. \/ Free(BufferOf(u)) /\ Owned(u)
              \/ Free(BufferOf(u)) /\ \E j \in i .. m : compute[j] = GemmLayer(u)
          BY <1>12, <3>1 DEF Gathering
        <4>2. (\E j \in i .. m : compute[j] = GemmLayer(u)) => \E j \in i .. Len(compute') : compute'[j] = GemmLayer(u)
          BY <3>3
        <4>3. (Free(BufferOf(u))' <=> Free(BufferOf(u))) /\ (Owned(u)' <=> Owned(u))
          BY <1>11, <1>12
        <4> QED BY <4>1, <4>2, <4>3
      <3>5. ASSUME NEW j \in i .. Len(compute'), NEW l \in Layers, compute'[j] = GemmLayer(l), BufferOf(l) = BufferOf(u)
            PROVE  l = u
        <4>1. j \in 1 .. Len(compute')
          BY ONLY <1>6, <1>7, <2>1, <3>5
        <4>2. j \in 1 .. m /\ compute'[j] = compute[j]
          BY <1>7, <1>13, <3>5, <4>1 DEF GemmLayer, Op
        <4>3. j \in i .. m
          BY ONLY <1>7, <2>1, <3>5, <4>2
        <4> QED BY <3>1, <3>5, <4>2, <4>3 DEF Gathering
      <3>6. i = 1 /\ compute'[i] = Op("gather", u) => hits' = HitRows(u)'
        BY <1>3, <1>11, <2>1, <3>1 DEF Gathering
      <3> QED BY <3>2, <3>4, <3>5, <3>6 DEF Gathering
    <2>2. CASE i \in m + 1 .. m + n
      <3>1. /\ hit_d2d_active /\ n = 2
            /\ \/ i = m + 1 /\ compute'[i] = Op("compact", t)
               \/ i = m + 2 /\ compute'[i] = Op("gather", t)
        BY <1>8, <2>2
      <3>2. u = t
        BY <1>18, <3>1 DEF HitsOf, Op
      <3>3. Taking(u)' /\ i >= Len(compute') - 1
        <4>1. Taking(u)'
          BY <1>12, <3>2
        <4>2. i >= Len(compute') - 1
          BY ONLY <1>7, <3>1
        <4> QED BY <4>1, <4>2
      <3>4. ASSUME NEW j \in i .. Len(compute'), NEW l \in Layers, compute'[j] = GemmLayer(l) PROVE FALSE
        <4>1. j \in m + 1 .. m + n
          BY ONLY <1>6, <1>7, <2>2, <3>4
        <4> QED BY <1>13, <3>4, <4>1 DEF GemmLayer, Op
      <3>5. ~(i = 1 /\ compute'[i] = Op("gather", u))
        <4>1. i = m + 1 => compute'[i].op = "compact"
          BY <3>1 DEF Op
        <4>2. i = m + 2 => i # 1
          BY ONLY <1>7
        <4> QED BY <3>1, <4>1, <4>2 DEF Op
      <3>6. hit_d2d_active' /\ HitD2d /\ cache_size' > 2 * NumExperts
        BY <1>3, <1>15, <3>1
      <3> QED BY <3>3, <3>4, <3>5, <3>6 DEF Gathering
    <2> QED BY <1>7, <2>1, <2>2
  <1>19. Filling'
    <2>1. (host.at # "idle" /\ hit_d2d_active => HitD2d /\ cache_size > 2 * NumExperts)'
      BY <1>3, <1>15
    <2>2. \A x \in Layers : Copying(x)' => Live(x)' /\ Free(BufferOf(x))'
      BY <1>11, <1>12, <1>14 DEF MapInv, Filling
    <2>3. hit_d2d_active' => compute'[Len(compute')] = Op("gather", t)
      BY <1>1, <1>3, <1>5, <1>7, <1>9
    <2> QED BY <1>10, <1>12, <1>18, <2>1, <2>2, <2>3 DEF Filling
  <1>20. Snapshots'
    <2>1. ASSUME NEW i \in 1 .. Len(compute'), IsHitOp(compute'[i]) PROVE Matches
      <3>1. CASE i \in 1 .. m /\ compute'[i] = compute[i]
        BY <2>1, <3>1 DEF MapInv, Snapshots
      <3>2. CASE i \in m + 1 .. m + n
        BY <1>8, <1>15, <3>2
      <3> QED BY <1>7, <3>1, <3>2
    <2> QED BY <1>3, <1>11, <1>15, <2>1 DEF Snapshots
  <1>21. Rows'
    <2>1. ASSUME NEW l \in Layers, Live(l)', NEW k \in Banks, NEW e \in Experts PROVE Row(l, k, e)'
      <3>1. Row(l, k, e)
        BY <1>14, <2>1 DEF MapInv, Rows
      <3>2. (\E j \in 1 .. m : compute[j] = Op("gather", l)) => \E j \in 1 .. Len(compute') : compute'[j] = Op("gather", l)
        BY <1>7
      <3>3. Copying(l) => Copying(l)' /\ copy'[1] = copy[1]
        BY <1>10, <1>12 DEF Copying
      <3> QED BY <1>3, <3>1, <3>2, <3>3 DEF Row
    <2>2. hit_d2d_active' => compute' # <<>>
      <3>1. Len(<<>>) = 0
        BY EmptySeq
      <3>2. hit_d2d_active => Len(compute') # 0
        BY ONLY <1>7, <1>9
      <3> QED BY <1>3, <3>1, <3>2
    <2> QED BY <2>1, <2>2 DEF Rows
  <1> QED BY <1>16, <1>17, <1>19, <1>20, <1>21 DEF MapInv

\* The host has the buffer: a layer's copy is enqueued, and what it leaves out is in the
\* buffer already, or is what a gather moves there.
LEMMA CopiesMap ==
  ASSUME SizesAssumption, Types, StreamRest, MapInv, Types', StreamRest', MapIsInverse', PrefetchCopies
  PROVE  MapInv'
  <1> DEFINE b == BufferOf(host.target)
  <1>1. /\ host.at = "invalidate" /\ copy = <<>> /\ host' = AfterPrefetch(host)
        /\ recorded' = [recorded EXCEPT ![Ready(b)] = recorded[Ready(b)] + 1]
        /\ buffer_layer' = [buffer_layer EXCEPT ![b] = host.target]
    BY DEF PrefetchCopies
  <1>2. UNCHANGED <<deviceSide, compute, snapshot, cache_size, prefill_overlap, hit_d2d_active>>
    BY DEF PrefetchCopies, deviceVars, mapVars, deviceSide, sizeVars
  <1>3. UNCHANGED <<slot_for_id, id_of_slot, data, hits, done, compute, snapshot, cache_size, prefill_overlap,
                    hit_d2d_active>>
    BY <1>2 DEF deviceSide
  <1>4. /\ host.target \in Layers /\ b \in {0, 1} /\ Len(copy') = 2
        /\ copy'[1] = H2dOp(host.target, b, RowsToCopy(host.target))
    BY CopiesEnqueue DEF StreamRest
  <1>5. PICK t \in Layers : t = host.target
    BY <1>4
  <1>6. host'.at \in {"prefetch", "forward"} /\ host'.layer = host.layer
    BY <1>1, HostFacts DEF AfterPrefetch, Types
  <1>7. host.layer <= t
    <2>1. host.layer \in Nat
      BY HostFacts
    <2>2. Starting => host.layer = 0 /\ t = 0
      BY <1>1, <1>5 DEF Starting
    <2>3. ~Starting => t = host.layer + 1
      BY <1>1, <1>5 DEF StreamRest, Cursor
    <2> QED BY <2>1, <2>2, <2>3
  <1>8. copy' # <<>> /\ IsCopy(copy'[1]) /\ copy'[1].layer = t /\ copy'[1].rows = RowsToCopy(t)
    <2>1. Len(<<>>) = 0
      BY EmptySeq
    <2> QED BY <1>4, <1>5, <2>1 DEF H2dOp, IsCopy
  <1>9. Taking(t) /\ Free(BufferOf(t)) /\ \A x : ~Copying(x)
    <2>1. Taking(t) /\ \A x : ~Copying(x)
      BY <1>1, <1>5 DEF Taking, Copying
    <2> QED BY <1>1, <2>1 DEF MapInv, Filling
  <1>10. /\ \A x : ~Taking(x)'
         /\ \A x : Copying(x)' <=> x = t
    BY <1>6, <1>8 DEF Taking, Copying
  <1>11. /\ \A x : Free(x)' <=> Free(x)
         /\ \A x : HitRows(x)' = HitRows(x)
         /\ Matches' <=> Matches
    BY <1>3 DEF Free, BufferSlots, HitRows, Matches
  <1>12. Pending(Begin)' <=> Pending(Begin)
    <2>1. recorded'[Begin] = recorded[Begin]
      BY <1>1, <1>4, EventsDiffer DEF Types
    <2> QED BY <1>3, <2>1 DEF Pending
  <1>13. \A x \in Layers : Owned(x)' <=> Owned(x) \/ x = t
    <2> TAKE x \in Layers
    <2>1. BufferOf(x) \in {0, 1} /\ buffer_layer \in [{0, 1} -> Layers \cup {None}]
      BY LayerFacts DEF Types
    <2>2. CASE BufferOf(x) = b
      <3>1. buffer_layer'[BufferOf(x)] = t
        BY <1>1, <1>5, <2>1, <2>2
      <3>2. ~Owned(x)
        BY <1>5, <1>9, <2>2, TakenNotOwned DEF StreamRest
      <3> QED BY <1>6, <1>7, <3>1, <3>2 DEF Owned
    <2>3. CASE BufferOf(x) # b
      <3>1. buffer_layer'[BufferOf(x)] = buffer_layer[BufferOf(x)] /\ x # t
        BY <1>1, <1>5, <2>1, <2>3
      <3> QED BY <1>1, <1>6, <3>1 DEF Owned
    <2> QED BY <2>2, <2>3
  <1> HIDE DEF b
  <1>14. \A x \in Layers : Live(x)' <=> Live(x) \/ x = t
    BY <1>3, <1>13 DEF Live
  <1>15. Bytes'
    BY <1>1, <1>2, HostBytes DEF MapInv
  <1>16. Steps'
    <2>1. Extends(compute', compute, 0)
      BY <1>3, LenProperties DEF Extends, Types
    <2> QED BY <1>2, <1>3, <2>1, HostSteps DEF MapInv
  <1>17. ASSUME NEW i \in 1 .. Len(compute), NEW u \in Layers, compute[i] \in HitsOf(u)
         PROVE  Gathering(i, u)'
    <2>1. Gathering(i, u)
      BY <1>17 DEF MapInv, Filling
    <2>2. \/ Free(BufferOf(u)) /\ (Owned(u) \/ u = t)
          \/ Free(BufferOf(u)) /\ \E j \in i .. Len(compute) : compute[j] = GemmLayer(u)
      <3>1. Taking(u) => u = t
        BY <1>5 DEF Taking
      <3> QED BY <1>9, <2>1, <3>1 DEF Gathering
    <2>3. \/ Free(BufferOf(u))' /\ Owned(u)'
          \/ Free(BufferOf(u))' /\ \E j \in i .. Len(compute') : compute'[j] = GemmLayer(u)
      <3>1. (Free(BufferOf(u))' <=> Free(BufferOf(u))) /\ (Owned(u)' <=> Owned(u) \/ u = t)
        BY <1>11, <1>13
      <3> QED BY <1>3, <2>2, <3>1
    <2> QED BY <1>3, <1>11, <2>1, <2>3 DEF Gathering
  <1>18. Filling'
    <2>1. (host.at # "idle" /\ hit_d2d_active => HitD2d /\ cache_size > 2 * NumExperts)'
      BY <1>1, <1>3 DEF MapInv, Filling
    <2>2. \A x \in Layers : Copying(x)' => Live(x)' /\ Free(BufferOf(x))'
      BY <1>9, <1>10, <1>11, <1>14
    <2>3. \A i \in 1 .. Len(compute'), u \in Layers : compute'[i] \in HitsOf(u) => Gathering(i, u)'
      BY <1>3, <1>17
    <2> QED BY <1>10, <2>1, <2>2, <2>3 DEF Filling
  <1>19. hit_d2d_active => Matches
    <2>1. hit_d2d_active => ~Pending(Begin)
      BY <1>1 DEF StreamRest, Fences
    <2> QED BY <1>1, <2>1 DEF MapInv, Snapshots
  <1>20. Snapshots'
    BY <1>3, <1>11, <1>19 DEF MapInv, Snapshots
  <1>21. Rows'
    <2>1. ASSUME NEW l \in Layers, Live(l)', NEW k \in Banks, NEW e \in Experts PROVE Row(l, k, e)'
      <3>1. CASE l # t
        <4>1. Row(l, k, e) /\ ~Copying(l)
          BY <1>9, <1>14, <2>1, <3>1 DEF MapInv, Rows
        <4> QED BY <1>3, <4>1 DEF Row
      <3>2. CASE l = t /\ e \in RowsToCopy(t)[k]
        <4>1. Copying(l)' /\ e \in copy'[1].rows[k]
          BY <1>8, <1>10, <3>2
        <4> QED BY <4>1 DEF Row
      <3>3. CASE l = t /\ e \notin RowsToCopy(t)[k]
        <4>1. hit_d2d_active /\ k = "wide" /\ IsHit(snapshot[Id(t, e)])
          BY <3>3 DEF RowsToCopy
        <4>2. IsHit(slot_for_id[Id(t, e)])
          <5>1. Id(t, e) \in Ids
            BY IdFacts
          <5> QED BY <1>19, <4>1, <5>1 DEF Matches
        <4>3. CASE compute = <<>>
          <5>1. data["wide"][BufferOf(t) * NumExperts + e] = Id(t, e)
            BY <1>9, <4>1, <4>2, <4>3 DEF MapInv, Rows
          <5> QED BY <1>3, <3>3, <4>1, <5>1 DEF Row
        <4>4. CASE compute # <<>>
          <5>1. compute[Len(compute)] = Op("gather", t)
            BY <1>9, <4>1, <4>4 DEF MapInv, Filling
          <5>2. Len(compute) \in 1 .. Len(compute)
            BY <4>4, ComputeHead
          <5> QED BY <1>3, <3>3, <4>1, <4>2, <5>1, <5>2 DEF Row
        <4> QED BY <4>3, <4>4
      <3> QED BY <3>1, <3>2, <3>3
    <2> QED BY <1>10, <2>1 DEF Rows
  <1> QED BY <1>15, <1>16, <1>18, <1>20, <1>21 DEF MapInv

\* The GEMM of a layer is enqueued: its buffer passes from the host to the queue.
LEMMA ForwardMap ==
  ASSUME SizesAssumption, Types, StreamRest, MapInv, Types', StreamRest', MapIsInverse', ForwardLayer
  PROVE  MapInv'
  <1> DEFINE m == Len(compute)
  <1>1. PICK l \in Layers : l = host.layer
    BY HostFacts
  <1>2. /\ host.at = "forward"
        /\ recorded' = [recorded EXCEPT ![Release(BufferOf(l))] = recorded[Release(BufferOf(l))] + 1]
        /\ host' = IF l = NumLayers - 1 THEN Idle ELSE [at |-> "prefetch", layer |-> l + 1, target |-> l + 1]
    BY <1>1 DEF ForwardLayer
  <1>3. UNCHANGED <<deviceSide, copy, buffer_layer, snapshot, cache_size, prefill_overlap, hit_d2d_active>>
    BY DEF ForwardLayer, deviceVars, mapVars, deviceSide, sizeVars
  <1>4. UNCHANGED <<slot_for_id, id_of_slot, data, hits, done, copy, buffer_layer, snapshot, cache_size,
                    prefill_overlap, hit_d2d_active>>
    BY <1>3 DEF deviceSide
  <1>5. /\ Extends(compute', compute, 3)
        /\ compute'[m + 1].op = "wait" /\ compute'[m + 2] = GemmLayer(l) /\ compute'[m + 3].op = "record"
    BY <1>1, ForwardEnqueues DEF WaitOp, RecordOp
  <1>6. /\ m \in Nat /\ Len(compute') = m + 3
        /\ \A i \in 1 .. Len(compute') : (i \in 1 .. m /\ compute'[i] = compute[i]) \/ i \in m + 1 .. m + 3
        /\ \A i \in 1 .. m : i \in 1 .. Len(compute') /\ compute'[i] = compute[i]
    BY ONLY <1>5, ExtendsSplit
  <1>7. ASSUME NEW i \in m + 1 .. m + 3
        PROVE  ~IsHitOp(compute'[i]) /\ \A x : compute'[i] = GemmLayer(x) => x = l
    <2>1. i = m + 1 \/ i = m + 2 \/ i = m + 3
      BY ONLY <1>6
    <2> QED BY <1>5, <2>1 DEF IsHitOp, GemmLayer, Op
  <1>8. l \in Nat /\ l < NumLayers /\ NumLayers \in Nat
    BY LayerFacts
  <1>9. prefill_overlap /\ Owned(l)
    <2>1. buffer_layer[BufferOf(l)] = l
      BY <1>1, <1>2 DEF StreamRest, Cursor
    <2> QED BY <1>1, <1>2, <1>8, <2>1 DEF Owned, StreamRest, Mode
  <1>10. /\ host'.at \in {"idle", "prefetch"}
         /\ host'.at = "prefetch" => l # NumLayers - 1 /\ host'.layer = l + 1
         /\ l # NumLayers - 1 => host'.at = "prefetch"
    BY <1>2 DEF Idle
  <1>11. \A x \in Layers : Owned(x)' <=> Owned(x) /\ x # l
    <2> TAKE x \in Layers
    <2>1. x \in Nat /\ x < NumLayers
      BY LayerFacts
    <2>2. CASE host'.at = "idle"
      <3>1. l = NumLayers - 1
        BY <1>10, <2>2
      <3>2. host.layer <= x => x = l
        BY ONLY <1>1, <1>8, <2>1, <3>1
      <3> QED BY <2>2, <3>2 DEF Owned
    <2>3. CASE host'.at = "prefetch"
      <3>1. l + 1 <= x <=> l <= x /\ x # l
        BY ONLY <1>8, <2>1
      <3> QED BY <1>1, <1>2, <1>4, <1>10, <2>3, <3>1 DEF Owned
    <2> QED BY <1>10, <2>2, <2>3
  <1>12. m + 2 \in 1 .. Len(compute')
    BY ONLY <1>6
  <1>13. \A x \in Layers : Live(x)' <=> Live(x)
    <2> TAKE x \in Layers
    <2>1. (\E i \in 1 .. Len(compute') : compute'[i] = GemmLayer(x)) <=> (\E i \in 1 .. m : compute[i] = GemmLayer(x)) \/ x = l
      BY <1>5, <1>6, <1>7, <1>12
    <2>2. Live(x)' <=> Owned(x)' \/ (\E i \in 1 .. Len(compute') : compute'[i] = GemmLayer(x))
      BY <1>4, <1>9 DEF Live
    <2>3. Live(x) <=> Owned(x) \/ (\E i \in 1 .. m : compute[i] = GemmLayer(x))
      BY <1>9 DEF Live
    <2> QED BY <1>9, <1>11, <2>1, <2>2, <2>3
  <1>14. /\ \A x : ~Taking(x) /\ ~Taking(x)'
         /\ \A x : Copying(x)' <=> Copying(x)
    BY <1>2, <1>4, <1>10 DEF Taking, Copying
  <1>15. /\ \A x : Free(x)' <=> Free(x)
         /\ \A x : HitRows(x)' = HitRows(x)
         /\ Matches' <=> Matches
    BY <1>4 DEF Free, BufferSlots, HitRows, Matches
  <1>16. Pending(Begin)' <=> Pending(Begin)
    <2>1. recorded'[Begin] = recorded[Begin]
      BY <1>2, EventsDiffer, LayerFacts DEF Types
    <2> QED BY <1>4, <2>1 DEF Pending
  <1>17. Bytes'
    BY <1>2, <1>3, HostBytes DEF MapInv
  <1>18. Steps'
    <2>1. compute = <<>> => compute'[1].op = "wait"
      <3>1. compute = <<>> => m + 1 = 1
        BY EmptySeq
      <3> QED BY <1>5, <3>1
    <2> QED BY <1>3, <1>5, <2>1, HostSteps DEF MapInv
  <1>19. ASSUME NEW i \in 1 .. Len(compute'), NEW u \in Layers, compute'[i] \in HitsOf(u)
         PROVE  Gathering(i, u)'
    <2>1. i \in 1 .. m /\ compute'[i] = compute[i]
      <3>1. IsHitOp(compute'[i])
        BY <1>19 DEF HitsOf, IsHitOp, Op
      <3> QED BY <1>6, <1>7, <3>1
    <2>2. Gathering(i, u)
      BY <1>19, <2>1 DEF MapInv, Filling
    <2>3. hit_d2d_active' /\ HitD2d /\ cache_size' > 2 * NumExperts
      BY <1>4, <2>2 DEF Gathering
    <2>4. ASSUME NEW j \in i .. m, compute[j] = GemmLayer(u)
          PROVE  j \in i .. Len(compute') /\ compute'[j] = GemmLayer(u)
      <3>1. j \in 1 .. m /\ j \in i .. Len(compute')
        BY ONLY <1>6, <2>1, <2>4
      <3> QED BY <1>6, <2>4, <3>1
    <2>5. m + 2 \in i .. Len(compute')
      BY ONLY <1>6, <2>1
    <2>6. \/ Free(BufferOf(u)) /\ Owned(u)
          \/ Free(BufferOf(u)) /\ \E j \in i .. m : compute[j] = GemmLayer(u)
      BY <1>14, <2>2 DEF Gathering
    <2>7. \/ Free(BufferOf(u))' /\ Owned(u)'
          \/ Free(BufferOf(u))' /\ \E j \in i .. Len(compute') : compute'[j] = GemmLayer(u)
      <3>1. (\E j \in i .. m : compute[j] = GemmLayer(u)) => \E j \in i .. Len(compute') : compute'[j] = GemmLayer(u)
        BY <2>4
      <3>2. u = l => \E j \in i .. Len(compute') : compute'[j] = GemmLayer(u)
        BY <1>5, <2>5
      <3>3. (Free(BufferOf(u))' <=> Free(BufferOf(u))) /\ (Owned(u)' <=> Owned(u) /\ u # l)
        BY <1>11, <1>15
      <3> QED BY <2>6, <3>1, <3>2, <3>3
    <2>8. Live(u) /\ Live(l)
      <3>1. (\E j \in i .. m : compute[j] = GemmLayer(u)) => \E j \in 1 .. m : compute[j] = GemmLayer(u)
        <4>1. \A j \in i .. m : j \in 1 .. m
          BY ONLY <2>1, <1>6
        <4> QED BY <4>1
      <3> QED BY <1>9, <2>6, <3>1 DEF Live
    <2>9. ASSUME NEW j \in i .. Len(compute'), NEW x \in Layers, compute'[j] = GemmLayer(x), BufferOf(x) = BufferOf(u)
          PROVE  x = u
      <3>1. j \in 1 .. Len(compute')
        BY ONLY <1>6, <2>1, <2>9
      <3>2. CASE j \in 1 .. m /\ compute'[j] = compute[j]
        <4>1. j \in i .. m
          BY ONLY <1>6, <2>1, <2>9, <3>2
        <4> QED BY <2>2, <2>9, <3>2, <4>1 DEF Gathering
      <3>3. CASE j \in m + 1 .. m + 3
        <4>1. x = l
          BY <1>7, <2>9, <3>3
        <4> QED BY <2>8, <2>9, <4>1, LiveOnce
      <3> QED BY <1>6, <3>1, <3>2, <3>3
    <2>10. i = 1 /\ compute'[i] = Op("gather", u) => hits' = HitRows(u)'
      BY <1>4, <1>15, <2>1, <2>2 DEF Gathering
    <2> QED BY <2>3, <2>7, <2>9, <2>10 DEF Gathering
  <1>20. Filling'
    <2>1. (host.at # "idle" /\ hit_d2d_active => HitD2d /\ cache_size > 2 * NumExperts)'
      BY <1>2, <1>4 DEF MapInv, Filling
    <2>2. \A x \in Layers : Copying(x)' => Live(x)' /\ Free(BufferOf(x))'
      BY <1>13, <1>14, <1>15 DEF MapInv, Filling
    <2> QED BY <1>14, <1>19, <2>1, <2>2 DEF Filling
  <1>21. Snapshots'
    <2>1. ASSUME NEW i \in 1 .. Len(compute'), IsHitOp(compute'[i]) PROVE Matches
      <3>1. i \in 1 .. m /\ compute'[i] = compute[i]
        BY <1>6, <1>7, <2>1
      <3> QED BY <2>1, <3>1 DEF MapInv, Snapshots
    <2>2. hit_d2d_active /\ ~Pending(Begin) => Matches
      BY <1>2 DEF MapInv, Snapshots
    <2> QED BY <1>4, <1>15, <1>16, <2>1, <2>2 DEF Snapshots
  <1>22. Rows'
    <2>1. ASSUME NEW y \in Layers, Live(y)', NEW k \in Banks, NEW e \in Experts PROVE Row(y, k, e)'
      <3>1. Row(y, k, e)
        BY <1>13, <2>1 DEF MapInv, Rows
      <3>2. (\E j \in 1 .. m : compute[j] = Op("gather", y)) => \E j \in 1 .. Len(compute') : compute'[j] = Op("gather", y)
        BY <1>6
      <3> QED BY <1>4, <1>14, <3>1, <3>2 DEF Row
    <2> QED BY <1>14, <2>1 DEF Rows
  <1> QED BY <1>17, <1>18, <1>20, <1>21, <1>22 DEF MapInv

\* No action of the host breaks the invariant.
LEMMA HostMap ==
  ASSUME SizesAssumption, Types, StreamRest, MapInv, Types', StreamRest', MapIsInverse', Host
  PROVE  MapInv'
  <1>1. CASE DecodePass \/ MaterializePass \/ Reset
    BY <1>1, DecodeMap, MaterializePassMap, ResetMap
  <1>2. CASE BeginPrefill \/ Rebuild
    BY <1>2, BeginMap, RebuildMap
  <1>3. CASE Prefill
    BY <1>3, MoveMap, TakesMap, CopiesMap, ForwardMap, PrefetchCases DEF Prefill
  <1> QED BY <1>1, <1>2, <1>3 DEF Host

LEMMA OffloadStep ==
  ASSUME SizesAssumption, OffloadInv, [Next]_vars
  PROVE  OffloadInv'
  <1>1. Types /\ StreamRest /\ StreamInv /\ MapInv /\ MapIsInverse
    BY DEF OffloadInv, StreamInv, MapInv
  <1>2. StreamInv' /\ MapIsInverse' /\ Types' /\ StreamRest'
    BY <1>1, StreamStep DEF StreamInv
  <1>3. CASE Compute \/ Copy
    BY <1>1, <1>2, <1>3, StreamsMap DEF OffloadInv
  <1>4. CASE Host
    BY <1>1, <1>2, <1>4, HostMap DEF OffloadInv
  <1>5. CASE UNCHANGED vars
    BY <1>1, <1>2, <1>5, MapStutters DEF OffloadInv
  <1> QED BY <1>3, <1>4, <1>5 DEF Next

LEMMA OffloadInvariant == SizesAssumption => (Spec => []OffloadInv)
  <1> SUFFICES ASSUME SizesAssumption PROVE Spec => []OffloadInv
    OBVIOUS
  <1>1. Init => OffloadInv
    <2> SUFFICES ASSUME Init PROVE OffloadInv
      OBVIOUS
    <2>1. StreamInv /\ MapIsInverse
      BY StreamInit
    <2>2. compute = <<>> /\ copy = <<>> /\ staged = {} /\ host.at = "idle" /\ slot_for_id = [i \in Ids |-> None]
      BY DEF Init, Idle
    <2> QED BY <2>1, <2>2, ColdMap DEF OffloadInv
  <1>2. OffloadInv /\ [Next]_vars => OffloadInv'
    BY OffloadStep
  <1> QED BY <1>1, <1>2, PTL DEF Spec

-----------------------------------------------------------------------------
(* The theorems of the bytes. *)

\* For as long as an expert GEMM of a decode step runs, each slot it reads holds every bank of
\* the expert that was routed to, and the reverse map says so: no fetch, eviction or layer
\* copy of another pass reaches a slot that is still being read.
THEOREM DecodeAlwaysReadsIts == SizesAssumption => (Spec => []DecodeReadsItsExperts)
  <1> SUFFICES ASSUME SizesAssumption PROVE Spec => []DecodeReadsItsExperts
    OBVIOUS
  <1>1. OffloadInv => DecodeReadsItsExperts
    <2> SUFFICES ASSUME OffloadInv, Running(compute, "gemm"), NEW r \in topk, r[2] # None
                 PROVE  /\ id_of_slot[r[2]] = Id(Head(compute).layer, r[1])
                        /\ \A k \in Banks : data[k][r[2]] = Id(Head(compute).layer, r[1])
      BY DEF DecodeReadsItsExperts
    <2>1. Types /\ StreamRest /\ MapIsInverse /\ Bytes /\ Steps
      BY DEF OffloadInv, StreamInv, MapInv
    <2>2. compute # <<>> /\ Head(compute) = compute[1] /\ compute[1].op = "gemm" /\ compute[1].layer \in Layers
      <3>1. compute # <<>> /\ Head(compute).op = "gemm" /\ Head(compute) = compute[1] /\ compute[1] \in ComputeOps
        BY <2>1, ComputeHead DEF Running
      <3> QED BY <3>1, OpKinds
    <2>3. staged = {}
      BY <2>1, <2>2, NothingStaged DEF Running
    <2> DEFINE i == Id(compute[1].layer, r[1])
    <2>4. r[1] \in Experts
      BY <2>1 DEF Types
    <2>5. i \in Ids
      BY <2>2, <2>4, IdFacts
    <2>6. slot_for_id[i] = r[2]
      BY <2>1 DEF Steps
    <2> HIDE DEF i
    <2>7. id_of_slot[r[2]] = i
      BY <2>1, <2>5, <2>6 DEF MapIsInverse
    <2>8. \A k \in Banks : data[k][slot_for_id[i]] = i
      BY <2>1, <2>2, <2>3, <2>5, <2>6, BytesPlain
    <2> QED BY <2>2, <2>6, <2>7, <2>8 DEF i
  <1> QED BY <1>1, OffloadInvariant, PTL

\* Whenever the map may be believed - a decode step looks its experts up in it, or a slot
\* beyond the buffers counts as a prefill hit - the slot holds that expert in every bank,
\* unless its copy is staged.
THEOREM HitsAlwaysHoldTheirBytes == SizesAssumption => (Spec => []HitsHoldTheirBytes)
  <1> SUFFICES ASSUME SizesAssumption PROVE Spec => []HitsHoldTheirBytes
    OBVIOUS
  <1>1. OffloadInv => HitsHoldTheirBytes
    <2> SUFFICES ASSUME OffloadInv, NEW i \in Ids, slot_for_id[i] # None,
                        Running(compute, "ensure") \/ IsHit(slot_for_id[i]),
                        <<slot_for_id[i], i>> \notin staged
                 PROVE  \A k \in Banks : data[k][slot_for_id[i]] = i
      BY DEF HitsHoldTheirBytes
    <2>1. Types /\ Bytes
      BY DEF OffloadInv, StreamInv, MapInv
    <2>2. ~Overwritten(slot_for_id[i])
      <3>1. CASE Running(compute, "ensure")
        BY <3>1 DEF Running, Overwritten
      <3>2. CASE IsHit(slot_for_id[i])
        <4>1. BufferOf(host.target) \in {0, 1}
          BY <2>1, HostFacts
        <4>2. slot_for_id[i] \notin BufferSlots(BufferOf(host.target))
          BY <3>2, <4>1, BufferFacts
        <4> QED BY <4>2 DEF Overwritten
      <3> QED BY <3>1, <3>2
    <2> QED BY <2>1, <2>2 DEF Bytes
  <1> QED BY <1>1, OffloadInvariant, PTL

\* "Live-vs-snapshot cannot disagree": the hits the device compacts from the live map and
\* those the host took from the snapshot are the same rows from the same slots.
THEOREM LiveIsAlwaysSnapshot == SizesAssumption => (Spec => []LiveIsSnapshot)
  <1> SUFFICES ASSUME SizesAssumption PROVE Spec => []LiveIsSnapshot
    OBVIOUS
  <1>1. OffloadInv => LiveIsSnapshot
    <2> SUFFICES ASSUME OffloadInv, Running(compute, "compact"), NEW e \in Experts
                 PROVE  LET i == Id(Head(compute).layer, e)
                        IN  /\ IsHit(slot_for_id[i]) <=> IsHit(snapshot[i])
                            /\ IsHit(slot_for_id[i]) => slot_for_id[i] = snapshot[i]
      BY DEF LiveIsSnapshot
    <2>1. Types /\ Snapshots
      BY DEF OffloadInv, StreamInv, MapInv
    <2>2. Head(compute) = compute[1] /\ compute[1].op = "compact" /\ compute[1].layer \in Layers /\ 1 \in 1 .. Len(compute)
      <3>1. Head(compute).op = "compact" /\ Head(compute) = compute[1] /\ compute[1] \in ComputeOps /\ Len(compute) \in Nat \ {0}
        BY <2>1, ComputeHead DEF Running
      <3>2. 1 \in 1 .. Len(compute)
        BY ONLY <3>1
      <3> QED BY <3>1, <3>2, OpKinds
    <2>3. Matches
      BY <2>1, <2>2 DEF Snapshots, IsHitOp
    <2>4. Id(compute[1].layer, e) \in Ids
      BY <2>2, IdFacts
    <2> QED BY <2>2, <2>3, <2>4 DEF Matches
  <1> QED BY <1>1, OffloadInvariant, PTL

\* For as long as the GEMM of a prefill layer runs, row e of its buffer holds expert e of that
\* layer in every bank: its copy and its gather have ended, and the copy of the layer after
\* next has not begun.
THEOREM PrefillAlwaysReadsIts == SizesAssumption => (Spec => []PrefillReadsItsLayer)
  <1> SUFFICES ASSUME SizesAssumption PROVE Spec => []PrefillReadsItsLayer
    OBVIOUS
  <1>1. OffloadInv => PrefillReadsItsLayer
    <2> SUFFICES ASSUME OffloadInv, Running(compute, "gemm_layer"), NEW e \in Experts, NEW k \in Banks
                 PROVE  LET l == Head(compute).layer
                            first == IF prefill_overlap THEN BufferOf(l) * NumExperts ELSE 0
                        IN  data[k][first + e] = Id(l, e)
      BY DEF PrefillReadsItsLayer
    <2>1. Types /\ StreamRest /\ Filling /\ Bytes /\ Steps /\ Rows
      BY DEF OffloadInv, StreamInv, MapInv
    <2>2. compute # <<>> /\ Head(compute) = compute[1] /\ compute[1].op = "gemm_layer" /\ 1 \in 1 .. Len(compute)
      <3>1. compute # <<>> /\ Head(compute).op = "gemm_layer" /\ Head(compute) = compute[1] /\ Len(compute) \in Nat \ {0}
        BY <2>1, ComputeHead DEF Running
      <3>2. 1 \in 1 .. Len(compute)
        BY ONLY <3>1
      <3> QED BY <3>1, <3>2
    <2>3. PICK l \in Layers : compute[1] = GemmLayer(l) /\ Head(compute).layer = l
      <3>1. compute[1] \in ComputeOps
        BY <2>1, <2>2, ComputeHead
      <3> QED BY <2>2, <3>1, OpKinds DEF GemmLayer
    <2>4. CASE prefill_overlap
      <3> DEFINE b == BufferOf(l)
      <3>1. compute[1].layer = l
        BY <2>2, <2>3
      <3>2. /\ b \in {0, 1} /\ 1 + 1 \in 1 .. Len(compute)
            /\ compute[1 + 1].op = "record" /\ compute[1 + 1].ev = Release(b) /\ Pending(Release(b))
        BY <2>1, <2>2, <2>4, <3>1, ReleaseFollows DEF StreamRest
      <3>3. Row(l, k, e)
        <4>1. Live(l)
          BY <2>2, <2>3, <2>4 DEF Live
        <4> QED BY <2>1, <4>1 DEF Rows
      <3>4. ~Copying(l)
        <4> SUFFICES ASSUME Copying(l) PROVE FALSE
          OBVIOUS
        <4>1. ~Pending(Ready(b))
          BY <2>1, <2>2, <2>3, <2>4 DEF StreamRest, Adjacent
        <4>2. copy # <<>> /\ IsCopy(copy[1]) /\ copy[1].layer = l
          BY DEF Copying
        <4>3. Len(copy) \in Nat \ {0}
          BY <2>1, <4>2, CopyHead
        <4>4. Len(copy) >= 2 /\ copy[2].op = "record" /\ copy[2].ev = Ready(b)
          BY <2>1, <4>2, <4>3 DEF StreamRest, CopyQueue
        <4>5. 2 \in 1 .. Len(copy)
          BY ONLY <4>3, <4>4
        <4> QED BY <2>1, <4>1, <4>4, <4>5 DEF StreamRest, Records
      <3>5. ~\E j \in 1 .. Len(compute) : compute[j] = Op("gather", l)
        <4> SUFFICES ASSUME NEW j \in 1 .. Len(compute), compute[j] = Op("gather", l) PROVE FALSE
          OBVIOUS
        <4>1. Gathering(j, l)
          BY <2>1 DEF Filling, HitsOf
        <4>2. j # 1
          BY <2>2 DEF Op
        <4>3. ~Taking(l)
          <5> SUFFICES ASSUME Taking(l) PROVE FALSE
            OBVIOUS
          <5>1. host.at = "invalidate" /\ host.target = l /\ hit_d2d_active
            BY <4>1 DEF Taking, Gathering
          <5>2. ~Pending(Begin)
            BY <2>1, <5>1 DEF StreamRest, Fences
          <5>3. l < host.layer
            BY <2>1, <2>2, <3>1, <5>1, <5>2 DEF StreamRest, Order
          <5>4. host.layer \in Nat /\ l \in Nat
            BY <2>1, HostFacts, LayerFacts
          <5>5. (host.layer = 0 /\ l = 0) \/ l = host.layer + 1
            BY <2>1, <5>1 DEF StreamRest, Cursor, Starting
          <5> QED BY ONLY <5>3, <5>4, <5>5
        <4>4. ~Owned(l)
          BY <2>1, <3>2 DEF StreamRest, Fences
        <4>5. PICK i \in j .. Len(compute) : compute[i] = GemmLayer(l)
          BY <4>1, <4>3, <4>4 DEF Gathering
        <4>6. i \in 1 .. Len(compute) /\ i # 1
          BY ONLY <4>2, j \in 1 .. Len(compute), i \in j .. Len(compute)
        <4>7. compute[i].op = "gemm_layer" /\ compute[i].layer = l
          BY <4>5 DEF GemmLayer, Op
        <4>8. i + 1 \in 1 .. Len(compute) /\ compute[i + 1].op = "record" /\ compute[i + 1].ev = Release(b)
          BY <2>1, <2>4, <4>6, <4>7, ReleaseFollows DEF StreamRest
        <4>9. 1 + 1 = i + 1
          BY <2>1, <3>2, <4>8 DEF StreamRest, Records
        <4> QED BY ONLY <4>6, <4>9
      <3> QED BY <2>3, <2>4, <3>3, <3>4, <3>5 DEF Row
    <2>5. CASE ~prefill_overlap
      <3>1. slot_for_id[Id(l, e)] = e
        BY <2>1, <2>2, <2>3, <2>5 DEF Steps, Running
      <3>2. staged = {}
        BY <2>1, <2>2, NothingStaged DEF Running
      <3>3. Id(l, e) \in Ids /\ e # None /\ 0 + e = e
        <4>1. e \in Nat
          BY DEF Experts, SizesAssumption
        <4> QED BY <4>1, IdFacts DEF None
      <3>4. data[k][slot_for_id[Id(l, e)]] = Id(l, e)
        BY <2>1, <2>2, <3>1, <3>2, <3>3, BytesPlain
      <3> QED BY <2>3, <2>5, <3>1, <3>3, <3>4
    <2> QED BY <2>4, <2>5
  <1> QED BY <1>1, OffloadInvariant, PTL

\* All of it together: whatever pass, fetch, eviction, layer copy, reset or rebuild the host
\* enqueues, the expert GEMMs read the experts routed to.
THEOREM ForwardAlwaysReadsItsExperts == SizesAssumption => (Spec => []ForwardReadsItsExperts)
  <1>1. DecodeReadsItsExperts /\ PrefillReadsItsLayer /\ HitsHoldTheirBytes /\ LiveIsSnapshot /\ NeverReusedUnreleased
          => ForwardReadsItsExperts
    BY DEF ForwardReadsItsExperts
  <1> QED BY <1>1, DecodeAlwaysReadsIts, PrefillAlwaysReadsIts, HitsAlwaysHoldTheirBytes, LiveIsAlwaysSnapshot,
             BuffersNeverStolen, PTL
=============================================================================
