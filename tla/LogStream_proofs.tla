-------------------------- MODULE LogStream_proofs --------------------------
(***************************************************************************)
(* A client of the log stream never sees a record twice, whoever appends   *)
(* and however often it comes back; and unless a push overtakes an earlier *)
(* record's it gets every record or is told of a gap, for every capacity   *)
(* of the ring, bound of the queue, number of records and reconnections.   *)
(***************************************************************************)
EXTENDS LogStream, TLAPS

-----------------------------------------------------------------------------
(* The inductive invariant of the numbers, for any appenders. *)

Frames == [kind : {"rec", "gap"}, from : Int, to : Int]
Stages == {"idle", "half", "replay", "get", "send"}

Covers(f, s) == f.from <= s /\ s <= f.to

\* The client was sent record s, or a gap that names it.
Told(s) == \E j \in 1..Len(out) : Covers(out[j], s)

Types ==
  /\ next \in Nat /\ since \in 0..next /\ boundary \in 0..next
  /\ pushing \in [Appenders -> Int] /\ \A a \in Appenders : pushing[a] \in -1..(next - 1)
  /\ loop \in Seq(Nat) /\ \A i \in 1..Len(loop) : loop[i] < next
  /\ q \in Seq(Nat) /\ (\A i \in 1..Len(q) : q[i] < next) /\ Len(q) <= QueueMax
  /\ drop \in [n : Nat, from : Int, to : Int]
  /\ lastSeq \in -1..(next - 1) /\ rec \in -1..(next - 1)
  /\ stage \in Stages
  /\ backlog \in Seq(Frames) /\ out \in Seq(Frames)

\* The numbers sent grow; one of them is the last.
Sent ==
  /\ \A i, j \in Numbers("rec") : i < j => out[i].to < out[j].to
  /\ \A i \in Numbers("rec") : out[i].from = out[i].to /\ out[i].to \in 0..(next - 1)
  /\ Numbers("rec") # {} =>
       \E m \in Numbers("rec") : \A i \in Numbers("rec") : out[i].to <= out[m].to

\* What was sent is behind where the reader is.
Behind ==
  \A i \in Numbers("rec") :
    /\ stage \in {"idle", "half"} => out[i].to < since
    /\ stage = "replay" => \A k \in 1..Len(backlog) : out[i].to < backlog[k].from
    /\ stage \in {"replay", "get", "send"} => out[i].to <= lastSeq

\* The backlog is replayed in order, up to the boundary.
Replayed ==
  /\ stage # "replay" => backlog = <<>>
  /\ stage = "replay" => lastSeq = boundary - 1
  /\ stage = "send" => lastSeq < rec
  /\ \A k \in 1..Len(backlog) :
       /\ backlog[k].from \in Nat /\ backlog[k].from <= backlog[k].to
       /\ backlog[k].to < boundary
       /\ backlog[k].kind = "rec" => backlog[k].from = backlog[k].to
  /\ \A k, l \in 1..Len(backlog) : k < l => backlog[k].to < backlog[l].from

LogInv == Types /\ Sent /\ Behind /\ Replayed

-----------------------------------------------------------------------------
(* The frames sent and the backlog. *)

LEMMA FrameTypes ==
  ASSUME NEW x \in Int, NEW y \in Int
  PROVE  Frame(x) \in Frames /\ GapFrame(x, y) \in Frames
  BY DEF Frame, GapFrame, Frames

\* Sending a frame leaves the ones before it alone.
LEMMA OneMore ==
  ASSUME Types, NEW f \in Frames, out' = Append(out, f)
  PROVE  /\ out' \in Seq(Frames) /\ Len(out') = Len(out) + 1
         /\ \A i \in 1..Len(out) : out'[i] = out[i]
         /\ out'[Len(out) + 1] = f
         /\ \A k \in {"rec", "gap"} :
              Numbers(k)' = IF f.kind = k THEN Numbers(k) \cup {Len(out) + 1} ELSE Numbers(k)
  <1>1. /\ out' \in Seq(Frames) /\ Len(out') = Len(out) + 1
        /\ \A i \in 1..Len(out) : out'[i] = out[i]
        /\ out'[Len(out) + 1] = f
    BY DEF Types
  <1>2. Len(out) \in Nat
    BY DEF Types
  <1>3. 1..(Len(out) + 1) = 1..Len(out) \cup {Len(out) + 1}
    BY <1>2
  <1>4. ASSUME NEW k \in {"rec", "gap"}
        PROVE  Numbers(k)' = IF f.kind = k THEN Numbers(k) \cup {Len(out) + 1} ELSE Numbers(k)
    BY <1>1, <1>3, <1>2 DEF Numbers
  <1> QED BY <1>1, <1>4

\* The largest id the client has seen.
LEMMA LastSeen ==
  ASSUME Types, Sent
  PROVE  /\ LastId \in -1..(next - 1)
         /\ \A i \in Numbers("rec") : out[i].to <= LastId
         /\ LastId # None => \E m \in Numbers("rec") : LastId = out[m].to
  <1> DEFINE ids == {out[i].to : i \in {j \in 1..Len(out) : out[j].kind = "rec"}}
  <1>1. ids = {out[i].to : i \in Numbers("rec")}
    BY DEF Numbers
  <1>2. CASE Numbers("rec") = {}
    <2>1. ids = {}
      BY <1>1, <1>2
    <2>2. LastId = None
      BY <2>1 DEF LastId
    <2> QED BY <1>2, <2>2 DEF None, Types
  <1>3. CASE Numbers("rec") # {}
    <2>1. \E x \in ids : \A y \in ids : y <= x
      BY <1>1, <1>3 DEF Sent
    <2>2. LastId = CHOOSE x \in ids : \A y \in ids : y <= x
      BY <2>1 DEF LastId
    <2>3. LastId \in ids /\ \A y \in ids : y <= LastId
      BY <2>1, <2>2
    <2> HIDE DEF ids
    <2>4. PICK m \in Numbers("rec") : LastId = out[m].to
      BY <2>3, <1>1
    <2>5. \A i \in Numbers("rec") : out[i].to <= LastId
      BY <2>3, <1>1
    <2> QED BY <2>4, <2>5 DEF Sent, Types
  <1> QED BY <1>2, <1>3

\* The head of the backlog or of a queue goes.
LEMMA HeadGoes ==
  ASSUME NEW S, NEW s \in Seq(S), s # <<>>
  PROVE  /\ Len(s) \in Nat /\ Len(s) > 0 /\ Head(s) = s[1] /\ s[1] \in S
         /\ Tail(s) \in Seq(S) /\ Len(Tail(s)) = Len(s) - 1
         /\ \A i \in 1..Len(Tail(s)) : Tail(s)[i] = s[i + 1]
  OBVIOUS

\* Numbers below next stay below it in a queue that is appended to, or taken from.
LEMMA StillBelow ==
  ASSUME NEW n \in Nat, NEW s \in Seq(Nat), \A i \in 1..Len(s) : s[i] < n
  PROVE  /\ \A x \in Nat : x < n =>
              /\ Append(s, x) \in Seq(Nat) /\ Len(Append(s, x)) = Len(s) + 1
              /\ \A i \in 1..Len(s) : Append(s, x)[i] = s[i]
              /\ Append(s, x)[Len(s) + 1] = x
              /\ \A i \in 1..Len(Append(s, x)) : Append(s, x)[i] < n
         /\ s # <<>> => \A i \in 1..Len(Tail(s)) : Tail(s)[i] < n
  <1>1. ASSUME NEW x \in Nat, x < n
        PROVE  /\ Append(s, x) \in Seq(Nat) /\ Len(Append(s, x)) = Len(s) + 1
               /\ \A i \in 1..Len(s) : Append(s, x)[i] = s[i]
               /\ Append(s, x)[Len(s) + 1] = x
               /\ \A i \in 1..Len(Append(s, x)) : Append(s, x)[i] < n
    <2>1. /\ Append(s, x) \in Seq(Nat) /\ Len(Append(s, x)) = Len(s) + 1 /\ Len(s) \in Nat
          /\ \A i \in 1..Len(s) : Append(s, x)[i] = s[i]
          /\ Append(s, x)[Len(s) + 1] = x
      OBVIOUS
    <2>2. ASSUME NEW i \in 1..(Len(s) + 1)
          PROVE  Append(s, x)[i] < n
      <3>1. CASE i = Len(s) + 1
        BY <1>1, <2>1, <3>1
      <3>2. CASE i # Len(s) + 1
        <4>1. i \in 1..Len(s)
          BY <2>1, <3>2
        <4> QED BY <2>1, <4>1
      <3> QED BY <3>1, <3>2
    <2> QED BY <2>1, <2>2
  <1>2. ASSUME s # <<>>, NEW i \in 1..Len(Tail(s))
        PROVE  Tail(s)[i] < n
    <2>1. Tail(s)[i] = s[i + 1] /\ Len(Tail(s)) = Len(s) - 1 /\ Len(s) \in Nat
      BY <1>2, HeadGoes
    <2>2. i + 1 \in 1..Len(s)
      BY <2>1
    <2> QED BY <2>1, <2>2
  <1> QED BY <1>1, <1>2

\* The frames a snapshot hands out: a gap for the lost prefix, then the records.
LEMMA BacklogShape ==
  ASSUME LogAssumption, Types, Snapshot
  PROVE  \E first \in since..next, p \in {0, 1} :
           /\ p = IF first > since THEN 1 ELSE 0
           /\ backlog' \in Seq(Frames) /\ Len(backlog') = p + next - first
           /\ p = 1 => backlog'[1] = GapFrame(since, first - 1)
           /\ \A k \in 1..(next - first) : backlog'[p + k] = Frame(first + k - 1)
  <1> DEFINE first == Least(next, Greatest(lo, since))
             pre   == Prefix(first)
             recs  == [i \in 1..(next - first) |-> Frame(first + i - 1)]
  <1>1. lo \in 0..next
    BY DEF lo, LogAssumption, Types
  <1>2. first \in since..next
    BY <1>1 DEF Least, Greatest, Types
  <1>3. backlog' = pre \o recs
    BY DEF Snapshot
  <1>4. since \in Nat /\ next \in Nat
    BY DEF Types
  <1> HIDE DEF first
  <1>5. recs \in Seq(Frames) /\ Len(recs) = next - first
    BY <1>2, <1>4, FrameTypes
  <1>6. \A k \in 1..(next - first) : recs[k] = Frame(first + k - 1)
    OBVIOUS
  <1> HIDE DEF recs
  <1>7. CASE first > since
    <2>1. pre = <<GapFrame(since, first - 1)>>
      BY <1>7 DEF Prefix
    <2>2. GapFrame(since, first - 1) \in Frames
      BY <1>2, <1>4, FrameTypes
    <2>3. backlog' \in Seq(Frames) /\ Len(backlog') = 1 + next - first /\ backlog'[1] = GapFrame(since, first - 1)
      BY <1>2, <1>3, <1>4, <1>5, <2>1, <2>2
    <2>4. \A k \in 1..(next - first) : backlog'[1 + k] = Frame(first + k - 1)
      BY <1>2, <1>3, <1>4, <1>5, <1>6, <2>1, <2>2
    <2> QED BY <1>2, <1>7, <2>3, <2>4
  <1>8. CASE ~(first > since)
    <2>1. pre = <<>>
      BY <1>8 DEF Prefix
    <2>2. backlog' = recs
      BY <1>3, <1>5, <2>1
    <2> QED BY <1>2, <1>4, <1>5, <1>6, <1>8, <2>2
  <1> QED BY <1>7, <1>8

-----------------------------------------------------------------------------
(* Every step keeps it. *)

LEMMA InitLog ==
  ASSUME LogAssumption, Init
  PROVE  LogInv
  <1>1. /\ next = 0 /\ since = 0 /\ boundary = 0 /\ lastSeq = -1 /\ rec = -1
        /\ loop = <<>> /\ q = <<>> /\ backlog = <<>> /\ out = <<>> /\ stage = "idle"
    BY DEF Init, None
  <1>2. Types
    BY <1>1 DEF Init, Types, LogAssumption, Stages, NoDrop, None, Frames
  <1>3. Numbers("rec") = {}
    BY <1>1 DEF Numbers
  <1> QED BY <1>1, <1>2, <1>3 DEF LogInv, Sent, Behind, Replayed

LEMMA AppendKeepsLog ==
  ASSUME LogInv, NEW a \in Appenders, RingAppend(a)
  PROVE  LogInv'
  <1> USE DEF RingAppend, readVars
  <1>1. next' = next + 1 /\ Numbers("rec")' = Numbers("rec")
    BY DEF Numbers
  <1>2. Types'
    <2>1. pushing' \in [Appenders -> Int] /\ \A b \in Appenders : pushing'[b] \in -1..(next' - 1)
      BY <1>1 DEF LogInv, Types, None
    <2>2. /\ next' \in Nat /\ since \in 0..next' /\ boundary \in 0..next'
          /\ lastSeq \in -1..(next' - 1) /\ rec \in -1..(next' - 1)
      BY <1>1 DEF LogInv, Types
    <2>3. ASSUME NEW s \in Seq(Nat), NEW i \in 1..Len(s), s[i] < next
          PROVE  s[i] < next'
      <3>1. s[i] \in Nat /\ next \in Nat
        BY DEF LogInv, Types
      <3> QED BY <1>1, <2>3, <3>1
    <2>4. /\ loop \in Seq(Nat) /\ \A i \in 1..Len(loop) : loop[i] < next
          /\ q \in Seq(Nat) /\ \A i \in 1..Len(q) : q[i] < next
      BY DEF LogInv, Types
    <2>5. (\A i \in 1..Len(loop) : loop[i] < next') /\ (\A i \in 1..Len(q) : q[i] < next')
      BY <2>3, <2>4
    <2> QED BY <2>1, <2>2, <2>5 DEF LogInv, Types
  <1>3. Sent'
    BY <1>1 DEF LogInv, Types, Sent
  <1>4. Behind'
    BY <1>1 DEF LogInv, Behind
  <1>5. Replayed'
    BY DEF LogInv, Replayed
  <1> QED BY <1>2, <1>3, <1>4, <1>5 DEF LogInv

LEMMA PushKeepsLog ==
  ASSUME LogInv, NEW a \in Appenders, Push(a)
  PROVE  LogInv'
  <1> USE DEF Push, readVars
  <1>1. Numbers("rec")' = Numbers("rec")
    BY DEF Numbers
  <1>2. pushing[a] \in Nat /\ pushing[a] < next
    BY DEF LogInv, Types, None
  <1>3. loop' \in Seq(Nat) /\ \A i \in 1..Len(loop') : loop'[i] < next
    BY <1>2, StillBelow DEF LogInv, Types
  <1>4. Types'
    BY <1>3 DEF LogInv, Types, None
  <1>5. Sent' /\ Behind'
    BY <1>1 DEF LogInv, Sent, Behind
  <1>6. Replayed'
    BY DEF LogInv, Replayed
  <1> QED BY <1>4, <1>5, <1>6 DEF LogInv

LEMMA SubscribeKeepsLog ==
  ASSUME LogInv, Subscribe
  PROVE  LogInv'
  <1> USE DEF Subscribe, Order
  <1>1. Numbers("rec")' = Numbers("rec") /\ stage = "idle" /\ stage' = "half"
    BY DEF Numbers
  <1>2. Types'
    BY <1>1 DEF LogInv, Types, Stages
  <1>3. Sent' /\ Behind'
    BY <1>1 DEF LogInv, Sent, Behind
  <1>4. Replayed'
    BY <1>1 DEF LogInv, Replayed
  <1> QED BY <1>2, <1>3, <1>4 DEF LogInv

\* The backlog starts at the cursor, behind which everything sent lies.
LEMMA SnapshotKeepsLog ==
  ASSUME LogAssumption, LogInv, Snapshot
  PROVE  LogInv'
  <1>1. /\ Numbers("rec")' = Numbers("rec") /\ stage = "half" /\ stage' = "replay"
        /\ boundary' = next /\ lastSeq' = next - 1
        /\ UNCHANGED <<ringVars, loop, since, q, drop, rec, out, reconnects>>
    BY DEF Numbers, Snapshot, Order
  <1>2. PICK first \in since..next, p \in {0, 1} :
           /\ p = IF first > since THEN 1 ELSE 0
           /\ backlog' \in Seq(Frames) /\ Len(backlog') = p + next - first
           /\ p = 1 => backlog'[1] = GapFrame(since, first - 1)
           /\ \A k \in 1..(next - first) : backlog'[p + k] = Frame(first + k - 1)
    BY BacklogShape DEF LogInv
  <1>3. since \in Nat /\ next \in Nat /\ first \in Nat
    BY <1>2 DEF LogInv, Types
  <1>4. Types'
    BY <1>1, <1>2 DEF LogInv, Types, ringVars, Stages
  <1>5. Sent'
    BY <1>1 DEF LogInv, Sent, ringVars
  <1>6. ASSUME NEW k \in 1..Len(backlog')
        PROVE  /\ backlog'[k].from = IF k = 1 /\ p = 1 THEN since ELSE first + k - p - 1
               /\ backlog'[k].to = IF k = 1 /\ p = 1 THEN first - 1 ELSE first + k - p - 1
               /\ backlog'[k].kind = IF k = 1 /\ p = 1 THEN "gap" ELSE "rec"
    <2>1. CASE k = 1 /\ p = 1
      BY <1>2, <2>1 DEF GapFrame
    <2>2. CASE ~(k = 1 /\ p = 1)
      <3>1. k - p \in 1..(next - first) /\ p + (k - p) = k
        BY <1>2, <1>3, <2>2
      <3>2. backlog'[p + (k - p)] = Frame(first + (k - p) - 1)
        BY <1>2, <3>1
      <3> QED BY <1>3, <2>2, <3>1, <3>2 DEF Frame
    <2> QED BY <2>1, <2>2
  <1>7. Behind'
    <2>1. ASSUME NEW i \in Numbers("rec")
          PROVE  out[i].to < since /\ out[i].to <= next - 1
      BY <1>1, <1>3 DEF LogInv, Behind, Sent
    <2>2. \A k \in 1..Len(backlog') : since <= backlog'[k].from
      BY <1>2, <1>3, <1>6
    <2>3. ASSUME NEW i \in Numbers("rec"), NEW k \in 1..Len(backlog')
          PROVE  out[i].to < backlog'[k].from
      <3>1. out[i].to \in Int /\ backlog'[k].from \in Int
        BY <1>2, <1>3, <1>6 DEF LogInv, Sent
      <3> QED BY <1>3, <2>1, <2>2, <3>1
    <2> QED BY <1>1, <2>1, <2>3 DEF Behind
  <1>8. Replayed'
    <2>1. ASSUME NEW k \in 1..Len(backlog')
          PROVE  /\ backlog'[k].from \in Nat /\ backlog'[k].from <= backlog'[k].to
                 /\ backlog'[k].to < next
                 /\ backlog'[k].kind = "rec" => backlog'[k].from = backlog'[k].to
      <3>1. k \in 1..(p + next - first)
        BY <1>2
      <3>2. CASE k = 1 /\ p = 1
        <4>1. backlog'[k].from = since /\ backlog'[k].to = first - 1 /\ backlog'[k].kind = "gap"
          BY <1>6, <3>2
        <4>2. since < first /\ first <= next
          BY <1>2, <1>3, <3>2
        <4> QED BY <1>3, <4>1, <4>2
      <3>3. CASE ~(k = 1 /\ p = 1)
        <4>1. backlog'[k].from = first + k - p - 1 /\ backlog'[k].to = first + k - p - 1
          BY <1>6, <3>3
        <4>2. k - p \in 1..(next - first)
          BY <1>3, <3>1, <3>3
        <4> QED BY <1>3, <4>1, <4>2
      <3> QED BY <3>2, <3>3
    <2>2. ASSUME NEW k \in 1..Len(backlog'), NEW l \in 1..Len(backlog'), k < l
          PROVE  backlog'[k].to < backlog'[l].from
      <3>1. k \in Nat /\ l \in Nat /\ ~(l = 1 /\ p = 1) /\ k >= 1
        BY <1>2, <1>3, <2>2
      <3>2. backlog'[l].from = first + l - p - 1
        BY <1>6, <3>1
      <3>3. CASE k = 1 /\ p = 1
        <4>1. backlog'[k].to = first - 1
          BY <1>6, <3>3
        <4> QED BY <1>3, <2>2, <3>1, <3>2, <3>3, <4>1
      <3>4. CASE ~(k = 1 /\ p = 1)
        <4>1. backlog'[k].to = first + k - p - 1
          BY <1>6, <3>4
        <4> QED BY <1>3, <2>2, <3>1, <3>2, <4>1
      <3> QED BY <3>3, <3>4
    <2> QED BY <1>1, <2>1, <2>2 DEF Replayed
  <1> QED BY <1>4, <1>5, <1>7, <1>8 DEF LogInv

\* What enters the queue is a record of the loop; one may fall out.
LEMMA QueuedTypes ==
  ASSUME LogAssumption, Types, NEW s \in Nat, s < next
  PROVE  /\ Queued(s).q \in Seq(Nat) /\ Len(Queued(s).q) <= QueueMax
         /\ \A i \in 1..Len(Queued(s).q) : Queued(s).q[i] < next
         /\ Queued(s).drop \in [n : Nat, from : Int, to : Int]
  <1>1. CASE Len(q) = QueueMax
    <2>1. q # <<>> /\ QueueMax \in Nat
      BY <1>1 DEF LogAssumption
    <2>2. /\ Head(q) = q[1] /\ q[1] \in Nat /\ Tail(q) \in Seq(Nat) /\ Len(Tail(q)) = Len(q) - 1
          /\ \A i \in 1..Len(Tail(q)) : Tail(q)[i] = q[i + 1]
      BY <2>1, HeadGoes DEF Types
    <2>3. \A i \in 1..Len(Tail(q)) : Tail(q)[i] < next
      BY <2>1, StillBelow DEF Types
    <2>4. /\ Append(Tail(q), s) \in Seq(Nat) /\ Len(Append(Tail(q), s)) = Len(q)
          /\ \A i \in 1..Len(Append(Tail(q), s)) : Append(Tail(q), s)[i] < next
      <3>1. Len(q) \in Nat /\ next \in Nat
        BY DEF Types
      <3>2. /\ Append(Tail(q), s) \in Seq(Nat) /\ Len(Append(Tail(q), s)) = Len(Tail(q)) + 1
            /\ \A i \in 1..Len(Append(Tail(q), s)) : Append(Tail(q), s)[i] < next
        BY <2>2, <2>3, <3>1, StillBelow
      <3>3. Len(Tail(q)) + 1 = Len(q)
        BY <2>2, <3>1
      <3> QED BY <3>2, <3>3
    <2>5. [n |-> drop.n + 1, from |-> IF drop.from = None THEN Head(q) ELSE drop.from, to |-> Head(q)]
            \in [n : Nat, from : Int, to : Int]
      BY <2>2 DEF Types
    <2> QED BY <1>1, <2>1, <2>4, <2>5 DEF Queued
  <1>2. CASE Len(q) # QueueMax
    <2>1. QueueMax \in Nat
      BY DEF LogAssumption
    <2>2. /\ Append(q, s) \in Seq(Nat) /\ Len(Append(q, s)) = Len(q) + 1
          /\ \A i \in 1..Len(Append(q, s)) : Append(q, s)[i] < next
      BY StillBelow DEF Types
    <2>3. Len(q) + 1 <= QueueMax
      BY <1>2, <2>1 DEF Types
    <2> QED BY <1>2, <2>2, <2>3 DEF Queued, Types
  <1> QED BY <1>1, <1>2

LEMMA PutKeepsLog ==
  ASSUME LogAssumption, LogInv, Put
  PROVE  LogInv'
  <1>1. Numbers("rec")' = Numbers("rec")
    BY DEF Put, Numbers
  <1>2. /\ Head(loop) = loop[1] /\ loop[1] \in Nat /\ loop[1] < next
        /\ loop' \in Seq(Nat) /\ Len(loop') = Len(loop) - 1
        /\ \A i \in 1..Len(loop') : loop'[i] = loop[i + 1]
    <2>1. loop # <<>> /\ loop' = Tail(loop) /\ loop \in Seq(Nat) /\ \A i \in 1..Len(loop) : loop[i] < next
      BY DEF Put, LogInv, Types
    <2> QED BY <2>1, HeadGoes
  <1>3. \A i \in 1..Len(loop') : loop'[i] < next
    BY StillBelow DEF Put, LogInv, Types
  <1>4. /\ q' \in Seq(Nat) /\ Len(q') <= QueueMax /\ \A i \in 1..Len(q') : q'[i] < next
        /\ drop' \in [n : Nat, from : Int, to : Int]
    BY <1>2, QueuedTypes DEF Put, LogInv, Types
  <1>5. Types'
    BY <1>2, <1>3, <1>4 DEF Put, LogInv, Types, ringVars
  <1>6. Sent' /\ Behind' /\ Replayed'
    BY <1>1 DEF Put, LogInv, Sent, Behind, Replayed, ringVars
  <1> QED BY <1>5, <1>6 DEF LogInv

\* The next frame of the backlog is sent: it is beyond those sent, and the rest of
\* the backlog is beyond it.
LEMMA ReplayKeepsLog ==
  ASSUME LogInv, Replay
  PROVE  LogInv'
  <1>1. CASE backlog = <<>>
    <2>1. Numbers("rec")' = Numbers("rec") /\ UNCHANGED <<ringVars, loop, since, boundary, backlog, q, drop, lastSeq, rec, out>>
      BY <1>1 DEF Replay, Numbers
    <2>2. stage = "replay" /\ stage' = "get"
      BY <1>1 DEF Replay
    <2>3. Types'
      BY <2>1, <2>2 DEF LogInv, Types, ringVars, Stages
    <2>4. Sent' /\ Behind' /\ Replayed'
      BY <1>1, <2>1, <2>2 DEF LogInv, Sent, Behind, Replayed, ringVars
    <2> QED BY <2>3, <2>4 DEF LogInv
  <1>2. CASE backlog # <<>>
    <2> DEFINE f == backlog[1]
               L == Len(out)
    <2>1. /\ Head(backlog) = f /\ f \in Frames /\ Len(backlog) \in Nat /\ Len(backlog) > 0
          /\ backlog' \in Seq(Frames) /\ Len(backlog') = Len(backlog) - 1
          /\ \A k \in 1..Len(backlog') : backlog'[k] = backlog[k + 1]
      <3>1. backlog' = Tail(backlog)
        BY <1>2 DEF Replay
      <3>2. backlog \in Seq(Frames)
        BY DEF LogInv, Types
      <3> QED BY <1>2, <3>1, <3>2, HeadGoes
    <2>2. /\ out' = Append(out, f) /\ stage = "replay" /\ stage' = "replay"
          /\ UNCHANGED <<ringVars, loop, since, boundary, q, drop, lastSeq, rec>>
      BY <1>2, <2>1 DEF Replay
    <2>3. /\ out' \in Seq(Frames) /\ L \in Nat
          /\ \A i \in 1..L : out'[i] = out[i]
          /\ out'[L + 1] = f
          /\ Numbers("rec")' = IF f.kind = "rec" THEN Numbers("rec") \cup {L + 1} ELSE Numbers("rec")
          /\ Numbers("rec") \subseteq 1..L
      BY <2>1, <2>2, OneMore DEF LogInv, Types, Numbers
    <2>4. /\ f.from \in Nat /\ f.from <= f.to /\ f.to \in Int /\ f.to < boundary
          /\ f.kind = "rec" => f.from = f.to
          /\ boundary \in 0..next /\ next \in Nat /\ lastSeq = boundary - 1
      BY <2>1, <2>2 DEF LogInv, Replayed, Types, Frames
    <2>5. ASSUME NEW i \in Numbers("rec")
          PROVE  out[i].to < f.from /\ out'[i] = out[i] /\ out[i].to \in Nat /\ i \in 1..L
      BY <2>1, <2>2, <2>3 DEF LogInv, Behind, Sent, Types
    <2> HIDE DEF f, L
    <2>6. Types'
      BY <2>1, <2>2, <2>3 DEF LogInv, Types, ringVars, Stages
    <2>7. ASSUME NEW i \in Numbers("rec")'
          PROVE  \/ i \in Numbers("rec") /\ out'[i] = out[i]
                 \/ i = L + 1 /\ out'[i] = f /\ f.kind = "rec"
      BY <2>3, <2>5
    <2>8. Sent'
      <3>1. ASSUME NEW i \in Numbers("rec")', NEW j \in Numbers("rec")', i < j
            PROVE  out'[i].to < out'[j].to
        BY <2>3, <2>4, <2>5, <2>7, <3>1 DEF LogInv, Sent
      <3>2. ASSUME NEW i \in Numbers("rec")'
            PROVE  out'[i].from = out'[i].to /\ out'[i].to \in 0..(next - 1)
        BY <2>4, <2>5, <2>7 DEF LogInv, Sent
      <3>3. ASSUME Numbers("rec")' # {}
            PROVE  \E m \in Numbers("rec")' : \A i \in Numbers("rec")' : out'[i].to <= out'[m].to
        <4>1. CASE f.kind = "rec"
          <5>1. L + 1 \in Numbers("rec")' /\ out'[L + 1] = f
            BY <2>3, <4>1
          <5>2. \A i \in Numbers("rec")' : out'[i].to <= out'[L + 1].to
            BY <2>4, <2>5, <2>7, <5>1
          <5> QED BY <5>1, <5>2
        <4>2. CASE f.kind # "rec"
          <5>1. Numbers("rec")' = Numbers("rec")
            BY <2>3, <4>2
          <5>2. PICK m \in Numbers("rec") : \A i \in Numbers("rec") : out[i].to <= out[m].to
            BY <3>3, <5>1 DEF LogInv, Sent
          <5> QED BY <2>5, <5>1, <5>2
        <4> QED BY <4>1, <4>2
      <3> QED BY <2>2, <3>1, <3>2, <3>3 DEF Sent, ringVars
    <2>9. Behind'
      <3>1. ASSUME NEW i \in Numbers("rec")', NEW k \in 1..Len(backlog')
            PROVE  out'[i].to < backlog'[k].from
        <4>1. k + 1 \in 1..Len(backlog) /\ 1 \in 1..Len(backlog) /\ 1 < k + 1 /\ backlog'[k] = backlog[k + 1]
          BY <2>1
        <4>2. backlog[1].to < backlog[k + 1].from /\ backlog[k + 1].from \in Int
          BY <4>1 DEF LogInv, Replayed
        <4>3. f.to < backlog'[k].from /\ backlog'[k].from \in Int
          BY <4>1, <4>2 DEF f
        <4> QED BY <2>4, <2>5, <2>7, <4>3
      <3>2. ASSUME NEW i \in Numbers("rec")'
            PROVE  out'[i].to <= lastSeq
        BY <2>4, <2>5, <2>7
      <3> QED BY <2>2, <3>1, <3>2 DEF Behind
    <2>10. Replayed'
      <3>1. \A k \in 1..Len(backlog') : k + 1 \in 1..Len(backlog) /\ backlog'[k] = backlog[k + 1]
        BY <2>1
      <3>2. \A k, l \in 1..Len(backlog') : k < l => k + 1 < l + 1
        BY <2>1
      <3> QED BY <2>2, <3>1, <3>2 DEF LogInv, Replayed
    <2> QED BY <2>6, <2>8, <2>9, <2>10 DEF LogInv
  <1> QED BY <1>1, <1>2

\* A gap frame is not a record.
LEMMA GetKeepsLog ==
  ASSUME LogAssumption, LogInv, Get
  PROVE  LogInv'
  <1>1. /\ Head(q) = q[1] /\ q[1] \in Nat /\ q[1] < next /\ q' = Tail(q)
        /\ q' \in Seq(Nat) /\ Len(q') = Len(q) - 1 /\ Len(q) \in Nat
        /\ \A i \in 1..Len(q') : q'[i] < next
        /\ stage = "get"
        /\ UNCHANGED <<ringVars, loop, since, boundary, backlog, lastSeq>>
    BY HeadGoes, StillBelow DEF Get, LogInv, Types
  <1>2. Numbers("rec")' = Numbers("rec") /\ out' \in Seq(Frames) /\ \A i \in Numbers("rec") : out'[i] = out[i]
    <2>1. CASE out' = out
      BY <2>1 DEF Numbers, LogInv, Types
    <2>2. CASE out' = Append(out, GapFrame(drop.from, drop.to))
      <3>1. GapFrame(drop.from, drop.to) \in Frames /\ GapFrame(drop.from, drop.to).kind = "gap"
        BY FrameTypes DEF LogInv, Types, GapFrame
      <3> QED BY <2>2, <3>1, OneMore DEF LogInv, Numbers
    <2> QED BY <2>1, <2>2 DEF Get
  <1>3. \/ stage' = "get" /\ UNCHANGED <<rec, drop>>
        \/ stage' = "send" /\ rec' = q[1] /\ lastSeq < q[1] /\ drop' = NoDrop
    <2>1. lastSeq \in Int
      BY DEF LogInv, Types
    <2>2. CASE q[1] <= lastSeq
      BY <1>1, <2>2 DEF Get, Stale
    <2>3. CASE ~(q[1] <= lastSeq)
      BY <1>1, <2>1, <2>3 DEF Get, Stale
    <2> QED BY <2>2, <2>3
  <1>4. Types'
    <2>1. Len(q') <= QueueMax
      BY <1>1 DEF LogInv, Types, LogAssumption
    <2>2. rec' \in -1..(next - 1) /\ stage' \in Stages /\ drop' \in [n : Nat, from : Int, to : Int]
      <3>1. stage' \in Stages
        BY <1>3 DEF Stages
      <3>2. rec \in -1..(next - 1) /\ drop \in [n : Nat, from : Int, to : Int] /\ next \in Nat
        BY DEF LogInv, Types
      <3>3. NoDrop \in [n : Nat, from : Int, to : Int]
        BY DEF NoDrop, None
      <3>4. rec' \in -1..(next - 1)
        BY <1>1, <1>3, <3>2
      <3> QED BY <1>3, <3>1, <3>2, <3>3, <3>4
    <2> QED BY <1>1, <1>2, <2>1, <2>2 DEF LogInv, Types, ringVars
  <1>5. Sent' /\ Behind'
    BY <1>1, <1>2, <1>3 DEF LogInv, Sent, Behind, ringVars
  <1>6. Replayed'
    BY <1>1, <1>3 DEF LogInv, Replayed
  <1> QED BY <1>4, <1>5, <1>6 DEF LogInv

LEMMA SendKeepsLog ==
  ASSUME LogInv, Send
  PROVE  LogInv'
  <1> DEFINE L == Len(out)
  <1>1. /\ rec \in Nat /\ rec < next /\ lastSeq < rec /\ lastSeq \in Int /\ next \in Nat
        /\ stage = "send" /\ stage' = "get" /\ lastSeq' = rec /\ rec' = -1
        /\ out' = Append(out, Frame(rec)) /\ Frame(rec) \in Frames
        /\ UNCHANGED <<ringVars, loop, since, boundary, backlog, q, drop>>
    BY FrameTypes DEF Send, None, LogInv, Types, Replayed
  <1>0. rec \in Nat /\ rec < next /\ next \in Nat
    BY <1>1
  <1>2. /\ out' \in Seq(Frames) /\ L \in Nat
        /\ \A i \in 1..L : out'[i] = out[i]
        /\ out'[L + 1] = Frame(rec)
        /\ Numbers("rec")' = Numbers("rec") \cup {L + 1}
        /\ Numbers("rec") \subseteq 1..L
    BY <1>1, OneMore DEF LogInv, Types, Numbers, Frame
  <1>3. ASSUME NEW i \in Numbers("rec")
        PROVE  out[i].to < rec /\ out'[i] = out[i] /\ out[i].to \in Nat /\ i \in 1..L
    BY <1>1, <1>2 DEF LogInv, Behind, Sent
  <1> HIDE DEF L
  <1>4. out'[L + 1].from = rec /\ out'[L + 1].to = rec
    BY <1>2 DEF Frame
  <1>5. Types'
    BY <1>1, <1>2 DEF LogInv, Types, ringVars, Stages
  <1>6. ASSUME NEW i \in Numbers("rec")'
        PROVE  \/ i \in Numbers("rec") /\ out'[i] = out[i]
               \/ i = L + 1 /\ out'[i].from = rec /\ out'[i].to = rec
    BY <1>2, <1>3, <1>4
  <1>7. Sent'
    <2>1. ASSUME NEW i \in Numbers("rec")', NEW j \in Numbers("rec")', i < j
          PROVE  out'[i].to < out'[j].to
      BY <1>0, <1>2, <1>3, <1>6, <2>1 DEF LogInv, Sent
    <2>2. ASSUME NEW i \in Numbers("rec")'
          PROVE  out'[i].from = out'[i].to /\ out'[i].to \in 0..(next - 1)
      BY <1>0, <1>3, <1>6 DEF LogInv, Sent
    <2>3. \A i \in Numbers("rec")' : out'[i].to <= out'[L + 1].to
      BY <1>0, <1>3, <1>4, <1>6
    <2> QED BY <1>1, <1>2, <2>1, <2>2, <2>3 DEF Sent, ringVars
  <1>8. Behind'
    <2>1. \A i \in Numbers("rec")' : out'[i].to <= rec
      BY <1>0, <1>3, <1>6
    <2> QED BY <1>1, <2>1 DEF Behind
  <1>9. Replayed'
    BY <1>1 DEF LogInv, Replayed
  <1> QED BY <1>5, <1>7, <1>8, <1>9 DEF LogInv

\* The client comes back with the last id it saw: everything it was sent is behind it.
LEMMA DisconnectKeepsLog ==
  ASSUME LogAssumption, LogInv, Disconnect
  PROVE  LogInv'
  <1>1. /\ stage' = "idle" /\ boundary' = 0 /\ backlog' = <<>> /\ q' = <<>> /\ drop' = NoDrop
        /\ lastSeq' = -1 /\ rec' = -1 /\ loop' = <<>> /\ pushing' = [a \in Appenders |-> -1]
        /\ UNCHANGED <<next, out>>
        /\ since' = IF LastId = -1 THEN since ELSE LastId + 1
        /\ Numbers("rec")' = Numbers("rec")
    BY DEF Disconnect, None, Resume, Numbers
  <1>2. /\ LastId \in -1..(next - 1) /\ \A i \in Numbers("rec") : out[i].to <= LastId
    BY LastSeen DEF LogInv
  <1>3. next \in Nat /\ since \in 0..next /\ QueueMax \in Nat /\ \A i \in Numbers("rec") : out[i].to \in Nat
    BY DEF LogInv, Types, Sent, LogAssumption
  <1> HIDE DEF LastId
  <1>4. since' \in 0..next
    BY <1>1, <1>2, <1>3
  <1>5. \A i \in Numbers("rec") : out[i].to < since'
    BY <1>1, <1>2, <1>3
  <1>6. Len(q') <= QueueMax
    BY <1>1, <1>3
  <1>7. Types'
    BY <1>1, <1>3, <1>4, <1>6 DEF LogInv, Types, NoDrop, None, Stages
  <1>8. Sent'
    BY <1>1 DEF LogInv, Sent
  <1>9. Behind' /\ Replayed'
    BY <1>1, <1>5 DEF Behind, Replayed
  <1> QED BY <1>7, <1>8, <1>9 DEF LogInv

\* Every step of an appender, the event loop and the reader keeps it.
LEMMA StepLog ==
  ASSUME LogAssumption, LogInv, [Next]_vars
  PROVE  LogInv'
  <1>1. CASE \E a \in Appenders : RingAppend(a) \/ Push(a)
    BY <1>1, AppendKeepsLog, PushKeepsLog
  <1>2. CASE Reader
    BY <1>2, SubscribeKeepsLog, SnapshotKeepsLog, ReplayKeepsLog, GetKeepsLog, SendKeepsLog DEF Reader
  <1>3. CASE Put \/ Disconnect
    BY <1>3, PutKeepsLog, DisconnectKeepsLog
  <1>4. CASE UNCHANGED vars
    BY <1>4 DEF vars, ringVars, readVars, LogInv, Types, Sent, Behind, Replayed, Numbers
  <1> QED BY <1>1, <1>2, <1>3, <1>4 DEF Next

LEMMA LogAlways == LogAssumption => (Spec => []LogInv)
  <1> SUFFICES ASSUME LogAssumption PROVE Spec => []LogInv
    OBVIOUS
  <1>1. Init => LogInv
    BY InitLog
  <1>2. LogInv /\ [Next]_vars => LogInv'
    BY StepLog
  <1> QED BY <1>1, <1>2, PTL DEF Spec

\* "no duplicate across the replay->live boundary" of daemon/app.py's log stream, nor
\* across a reconnection with Last-Event-ID: the numbers of the records a client is sent
\* grow, whoever appends.
THEOREM RecordsNeverRepeat == LogAssumption => (Spec => []NoDuplicate)
  <1> SUFFICES ASSUME LogAssumption PROVE Spec => []NoDuplicate
    OBVIOUS
  <1>1. LogInv => NoDuplicate
    BY DEF LogInv, Sent, NoDuplicate
  <1> QED BY <1>1, LogAlways, PTL

-----------------------------------------------------------------------------
(* While no push overtakes another, the records reach the reader's queue in order. *)

\* The numbers given and not yet pushed.
Pending == {pushing[a] : a \in Appenders} \ {None}

\* The least of S, or n.
LeastOf(S, n) == IF S = {} THEN n ELSE CHOOSE x \in S : \A y \in S : x <= y

\* The number of the next record to be pushed.
Low == LeastOf(Pending, next)

\* The number of the next record to come to the event loop.
Coming == Low - Len(loop)

\* The number of the next record to come to the queue.
Entering == Greatest(boundary, Coming)

\* The number of the first record that the reader has not taken.
First == IF drop.n = 0 THEN Entering - Len(q) ELSE drop.from

Pipe ==
  /\ subscribed <=> stage # "idle"
  /\ stage = "idle" => loop = <<>> /\ Pending = {}
  /\ stage \in {"idle", "half"} => q = <<>> /\ drop = NoDrop
  /\ Coming \in Nat
  /\ \A i \in 1..Len(loop) : loop[i] = Coming + i - 1
  /\ Low \in 0..next /\ Pending = Low..(next - 1)
  /\ \A a, b \in Appenders : pushing[a] = pushing[b] /\ pushing[a] # None => a = b

Queue ==
  stage \in {"replay", "get", "send"} =>
    /\ Len(q) <= Entering - boundary
    /\ \A i \in 1..Len(q) : q[i] = Entering - Len(q) + i - 1
    /\ drop.n = 0 => drop = NoDrop
    /\ drop.n > 0 => boundary <= drop.from /\ drop.from <= drop.to /\ drop.to = Entering - Len(q) - 1
    /\ stage = "replay" => First = boundary
    /\ stage = "get" => lastSeq < First
    /\ stage = "send" => rec + 1 = First

Known ==
  /\ \A s \in 0..(since - 1) : Told(s)
  /\ stage = "replay" => \A s \in 0..(boundary - 1) :
       Told(s) \/ \E k \in 1..Len(backlog) : Covers(backlog[k], s)
  /\ stage = "get" => \A s \in 0..(First - 1) : Told(s)
  /\ stage = "send" => \A s \in 0..(rec - 1) : Told(s)

StreamInv == Pipe /\ Queue /\ Known /\ NoSilentLoss /\ GapsHonest

-----------------------------------------------------------------------------
(* What a record is told by. *)

LEMMA SameFrames ==
  ASSUME out' = out
  PROVE  /\ \A s : Told(s)' <=> Told(s)
         /\ NoSilentLoss' <=> NoSilentLoss
         /\ GapsHonest' <=> GapsHonest
  BY DEF Told, NoSilentLoss, GapsHonest, Numbers

\* Frame f is sent after the others.
Sends(f) ==
  /\ Len(out) \in Nat /\ Len(out') = Len(out) + 1
  /\ \A i \in 1..Len(out) : out'[i] = out[i]
  /\ out'[Len(out) + 1] = f

LEMMA AppendSends ==
  ASSUME Types, NEW f \in Frames, out' = Append(out, f)
  PROVE  Sends(f)
  BY OneMore DEF Types, Sends

\* A frame more: what it covers is told, and nothing is forgotten.
LEMMA MoreTold ==
  ASSUME NEW f, Sends(f)
  PROVE  \A s : Told(s)' <=> Told(s) \/ Covers(f, s)
  <1>1. /\ Len(out) \in Nat /\ Len(out') = Len(out) + 1
        /\ \A i \in 1..Len(out) : out'[i] = out[i]
        /\ out'[Len(out) + 1] = f
    BY DEF Sends
  <1>2. 1..Len(out') = 1..Len(out) \cup {Len(out) + 1}
    BY <1>1
  <1> SUFFICES ASSUME NEW s PROVE Told(s)' <=> Told(s) \/ Covers(f, s)
    OBVIOUS
  <1>3. Told(s)' <=> \E j \in 1..Len(out') : Covers(out'[j], s)
    BY DEF Told, Covers
  <1>4. Told(s)' <=> (\E j \in 1..Len(out) : Covers(out'[j], s)) \/ Covers(out'[Len(out) + 1], s)
    BY <1>2, <1>3
  <1>5. (\E j \in 1..Len(out) : Covers(out'[j], s)) <=> \E j \in 1..Len(out) : Covers(out[j], s)
    BY <1>1
  <1> QED BY <1>1, <1>4, <1>5 DEF Told

\* A record is sent when every earlier one is told of; a gap lies beyond every record sent.
LEMMA HonestFrame ==
  ASSUME LogInv, NoSilentLoss, GapsHonest, NEW f \in Frames, Sends(f),
         f.kind = "rec" => \A s \in 0..f.to : Told(s) \/ Covers(f, s),
         f.kind = "gap" => \A j \in Numbers("rec") : out[j].to < f.from
  PROVE  NoSilentLoss' /\ GapsHonest'
  <1> DEFINE L == Len(out)
  <1>0. 1..(L + 1) = 1..L \cup {L + 1}
    BY DEF Sends
  <1>1. /\ L \in Nat /\ \A i \in 1..L : out'[i] = out[i]
        /\ out'[L + 1] = f
        /\ Numbers("rec")' = IF f.kind = "rec" THEN Numbers("rec") \cup {L + 1} ELSE Numbers("rec")
        /\ Numbers("gap")' = IF f.kind = "gap" THEN Numbers("gap") \cup {L + 1} ELSE Numbers("gap")
        /\ Numbers("rec") \subseteq 1..L /\ Numbers("gap") \subseteq 1..L
    BY <1>0 DEF Sends, Numbers
  <1>2. \A s : Told(s) => \E j \in 1..L : Covers(out[j], s)
    BY DEF Told
  <1>3. \A j \in Numbers("rec") : out[j].to \in Int
    BY DEF LogInv, Sent
  <1>4. f.from \in Int
    BY DEF Frames
  <1> HIDE DEF L
  <1>5. NoSilentLoss'
    <2>1. ASSUME NEW i \in Numbers("rec")', NEW s \in 0..out'[i].to
          PROVE  \E j \in 1..i : out'[j].from <= s /\ s <= out'[j].to
      <3>1. CASE i \in Numbers("rec")
        <4>1. i \in 1..L /\ out'[i] = out[i]
          BY <1>1, <3>1
        <4>2. PICK j \in 1..i : out[j].from <= s /\ s <= out[j].to
          BY <3>1, <4>1 DEF NoSilentLoss
        <4>3. out'[j] = out[j]
          BY <1>1, <4>1
        <4> QED BY <4>2, <4>3
      <3>2. CASE i = L + 1 /\ f.kind = "rec"
        <4>1. CASE Covers(f, s)
          <5>1. i \in 1..i /\ out'[i] = f
            BY <1>1, <3>2
          <5> QED BY <4>1, <5>1 DEF Covers
        <4>2. CASE ~Covers(f, s)
          <5>1. PICK j \in 1..L : Covers(out[j], s)
            BY <1>1, <1>2, <3>2, <4>2
          <5>2. j \in 1..i /\ out'[j] = out[j]
            BY <1>1, <3>2
          <5> QED BY <5>1, <5>2 DEF Covers
        <4> QED BY <4>1, <4>2
      <3> QED BY <1>1, <3>1, <3>2
    <2> QED BY <2>1 DEF NoSilentLoss
  <1>6. GapsHonest'
    <2>1. ASSUME NEW i \in Numbers("gap")', NEW j \in Numbers("rec")', i > j
          PROVE  ~(out'[i].from <= out'[j].to /\ out'[j].to <= out'[i].to)
      <3>1. CASE i \in Numbers("gap")
        <4>1. j \in Numbers("rec") /\ out'[j] = out[j] /\ out'[i] = out[i]
          BY <1>1, <2>1, <3>1
        <4> QED BY <2>1, <3>1, <4>1 DEF GapsHonest
      <3>2. CASE i = L + 1 /\ f.kind = "gap"
        <4>1. j \in Numbers("rec") /\ out'[j] = out[j] /\ out'[i] = f
          BY <1>1, <2>1, <3>2
        <4>2. out[j].to < f.from
          BY <3>2, <4>1
        <4> QED BY <1>3, <1>4, <4>1, <4>2
      <3> QED BY <1>1, <3>1, <3>2
    <2> QED BY <2>1 DEF GapsHonest
  <1> QED BY <1>5, <1>6

\* The least of an interval.
LEMMA LowOf ==
  ASSUME NEW n \in Nat, NEW l \in 0..n
  PROVE  LeastOf(l..(n - 1), n) = l
  <1>1. CASE l = n
    <2>1. l..(n - 1) = {}
      BY <1>1
    <2> QED BY <1>1, <2>1 DEF LeastOf
  <1>2. CASE l # n
    <2>1. l \in l..(n - 1) /\ \A y \in l..(n - 1) : l <= y
      BY <1>2
    <2>2. LeastOf(l..(n - 1), n) = CHOOSE x \in l..(n - 1) : \A y \in l..(n - 1) : x <= y
      BY <2>1 DEF LeastOf
    <2>3. PICK x \in l..(n - 1) : x = LeastOf(l..(n - 1), n) /\ \A y \in l..(n - 1) : x <= y
      BY <2>1, <2>2
    <2>4. x <= l /\ l <= x
      BY <2>1, <2>3
    <2> QED BY <2>3, <2>4
  <1> QED BY <1>1, <1>2

LEMMA StreamNumbers ==
  ASSUME Types, Pipe
  PROVE  /\ next \in Nat /\ since \in Nat /\ boundary \in Nat /\ boundary <= next
         /\ Len(loop) \in Nat /\ Len(q) \in Nat
         /\ Low \in Nat /\ Low <= next /\ Coming = Low - Len(loop) /\ Coming \in Int
         /\ Entering \in Int /\ boundary <= Entering /\ Coming <= Entering
         /\ Entering = boundary \/ Entering = Coming
         /\ lastSeq \in Int /\ rec \in Int
         /\ drop.n \in Nat /\ drop.from \in Int /\ drop.to \in Int
         /\ First \in Int
         /\ First = IF drop.n = 0 THEN Entering - Len(q) ELSE drop.from
  <1>1. /\ next \in Nat /\ since \in Nat /\ boundary \in Nat /\ boundary <= next
        /\ Len(loop) \in Nat /\ Len(q) \in Nat /\ lastSeq \in Int /\ rec \in Int
        /\ drop.n \in Nat /\ drop.from \in Int /\ drop.to \in Int
    BY DEF Types
  <1>2. Low \in Nat /\ Low <= next /\ Coming = Low - Len(loop)
    BY <1>1 DEF Pipe, Coming
  <1>3. Coming \in Int
    BY <1>1, <1>2
  <1>4. /\ Entering \in Int /\ boundary <= Entering /\ Coming <= Entering
        /\ Entering = boundary \/ Entering = Coming
    BY <1>1, <1>3 DEF Entering, Greatest
  <1>5. First \in Int /\ First = IF drop.n = 0 THEN Entering - Len(q) ELSE drop.from
    BY <1>1, <1>4 DEF First
  <1> QED BY <1>1, <1>2, <1>3, <1>4, <1>5

\* The same record is the next to enter, and the queue is what it was.
LEMMA SameQueue ==
  ASSUME Types, Types', Coming' = Coming, UNCHANGED <<stage, boundary, backlog, q, drop, lastSeq, rec>>
  PROVE  /\ Queue => Queue'
         /\ First' = First
  <1>1. Entering' = Entering
    BY DEF Entering, Greatest
  <1>2. First' = First
    BY <1>1 DEF First
  <1> QED BY <1>1, <1>2 DEF Queue

LEMMA SameKnown ==
  ASSUME UNCHANGED <<stage, since, boundary, backlog, rec, out>>, First' = First \/ stage \notin {"get"}
  PROVE  Known => Known'
  BY SameFrames DEF Known

LEMMA InitStream ==
  ASSUME Init
  PROVE  StreamInv
  <1>1. /\ next = 0 /\ since = 0 /\ loop = <<>> /\ q = <<>> /\ out = <<>> /\ stage = "idle"
        /\ pushing = [b \in Appenders |-> None] /\ subscribed = FALSE /\ drop = NoDrop
    BY DEF Init
  <1>2. Pending = {} /\ Low = 0
    BY <1>1 DEF Pending, Low, LeastOf
  <1>3. Pipe
    BY <1>1, <1>2 DEF Pipe, Coming
  <1>4. Queue /\ Known
    BY <1>1 DEF Queue, Known
  <1>5. \A k : Numbers(k) = {}
    BY <1>1 DEF Numbers
  <1> QED BY <1>3, <1>4, <1>5 DEF StreamInv, NoSilentLoss, GapsHonest

\* A new record is the last to come, or nobody listens.
LEMMA AppendKeepsStream ==
  ASSUME LogInv, LogInv', StreamInv, NEW a \in Appenders, RingAppend(a)
  PROVE  StreamInv'
  <1>1. /\ next \in Nat /\ next' = next + 1 /\ pushing[a] = None /\ pushing \in [Appenders -> Int]
        /\ pushing' = [pushing EXCEPT ![a] = IF subscribed THEN next ELSE None]
        /\ UNCHANGED <<subscribed, loop, readVars, out>>
    BY DEF RingAppend, LogInv, Types
  <1>2. /\ UNCHANGED <<stage, since, boundary, backlog, q, drop, lastSeq, rec>>
        /\ Len(loop) \in Nat
    BY <1>1 DEF readVars, LogInv, Types
  <1>3. /\ pushing'[a] = IF subscribed THEN next ELSE None
        /\ \A b \in Appenders : b # a => pushing'[b] = pushing[b]
    BY <1>1
  <1>4. CASE stage = "idle"
    <2>1. ~subscribed /\ loop = <<>> /\ Pending = {}
      BY <1>4 DEF StreamInv, Pipe
    <2>2. pushing' = pushing
      BY <1>1, <2>1
    <2>3. Pending' = {} /\ Low' = next'
      BY <2>1, <2>2 DEF Pending, Low, LeastOf
    <2>4. Pipe'
      <3>1. \A b, c \in Appenders : pushing'[b] = pushing'[c] /\ pushing'[b] # None => b = c
        BY <2>2 DEF StreamInv, Pipe
      <3>2. next' \in 0..next' /\ next'..(next' - 1) = {} /\ Coming' = next'
        BY <1>1, <1>2, <2>1, <2>3 DEF Coming
      <3>3. (subscribed <=> stage # "idle") /\ q = <<>> /\ drop = NoDrop
        BY <1>4 DEF StreamInv, Pipe
      <3> QED BY <1>1, <1>2, <1>4, <2>1, <2>3, <3>1, <3>2, <3>3 DEF Pipe
    <2>5. Queue' /\ Known'
      BY <1>1, <1>2, <1>4, SameKnown DEF StreamInv, Queue
    <2> QED BY <1>1, <2>4, <2>5, SameFrames DEF StreamInv
  <1>5. CASE stage # "idle"
    <2>1. subscribed /\ pushing'[a] = next
      BY <1>3, <1>5 DEF StreamInv, Pipe
    <2>2. Low \in 0..next /\ Pending = Low..(next - 1)
      BY DEF StreamInv, Pipe
    <2>3. Pending' = Pending \cup {next}
      BY <1>1, <1>3, <2>1 DEF Pending, None
    <2>4. Pending' = Low..next
      BY <1>1, <2>2, <2>3
    <2>5. Low' = Low
      <3>1. PICK l \in 0..(next + 1) : l = Low /\ l \in 0..next
        BY <1>1, <2>2
      <3>2. Pending' = l..((next + 1) - 1)
        BY <1>1, <2>4, <3>1
      <3>3. Low' = LeastOf(l..((next + 1) - 1), next + 1)
        BY <1>1, <3>2 DEF Low
      <3>4. LeastOf(l..((next + 1) - 1), next + 1) = l
        BY <1>1, LowOf
      <3> QED BY <3>1, <3>3, <3>4
    <2>6. Coming' = Coming
      BY <1>1, <2>5 DEF Coming
    <2>7. \A b, c \in Appenders : pushing'[b] = pushing'[c] /\ pushing'[b] # None => b = c
      <3>1. ASSUME NEW b \in Appenders
            PROVE  pushing[b] < next
        <4>1. pushing[b] \in -1..(next - 1) /\ next \in Nat
          BY DEF LogInv, Types
        <4> QED BY <4>1
      <3>2. \A b, c \in Appenders : pushing[b] = pushing[c] /\ pushing[b] # None => b = c
        BY DEF StreamInv, Pipe
      <3> QED BY <1>1, <1>3, <2>1, <3>1, <3>2
    <2>8. Pipe'
      <3>1. Low' \in 0..next' /\ Pending' = Low'..(next' - 1)
        BY <1>1, <2>2, <2>4, <2>5
      <3>2. \A i \in 1..Len(loop') : loop'[i] = Coming' + i - 1
        BY <1>1, <2>6 DEF StreamInv, Pipe
      <3> QED BY <1>1, <1>2, <1>5, <2>6, <2>7, <3>1, <3>2 DEF StreamInv, Pipe
    <2>9. Queue' /\ Known'
      BY <1>1, <1>2, <2>6, SameQueue, SameKnown DEF StreamInv, LogInv
    <2> QED BY <1>1, <2>8, <2>9, SameFrames DEF StreamInv
  <1> QED BY <1>4, <1>5

\* The record pushed has the least of the numbers pending: it is the next to come.
LEMMA PushKeepsStream ==
  ASSUME LogInv, LogInv', StreamInv, NEW a \in Appenders, Push(a), ~Overtakes(a)
  PROVE  StreamInv'
  <1>1. /\ next \in Nat /\ pushing \in [Appenders -> Int] /\ pushing[a] \in Pending
        /\ loop \in Seq(Nat) /\ loop' = Append(loop, pushing[a])
        /\ pushing' = [pushing EXCEPT ![a] = None]
        /\ UNCHANGED <<next, subscribed, readVars, out>>
    BY DEF Push, Pending, LogInv, Types
  <1>2. UNCHANGED <<stage, since, boundary, backlog, q, drop, lastSeq, rec>>
    BY <1>1 DEF readVars
  <1>3. Low \in 0..next /\ Pending = Low..(next - 1)
    BY DEF StreamInv, Pipe
  <1>4. pushing[a] = Low /\ Low \in Nat /\ Low < next
    <2>1. pushing[a] \in Low..(next - 1) /\ Low \in Nat
      BY <1>1, <1>3
    <2>2. Low \in Pending
      BY <1>1, <1>3, <2>1
    <2>3. PICK b \in Appenders : pushing[b] = Low /\ pushing[b] # None
      BY <2>2 DEF Pending
    <2>4. ~(Low < pushing[a])
      BY <2>3 DEF Overtakes
    <2> QED BY <1>1, <2>1, <2>4
  <1>5. /\ pushing'[a] = None
        /\ \A b \in Appenders : b # a => pushing'[b] = pushing[b]
    BY <1>1
  <1>6. \A b, c \in Appenders : pushing[b] = pushing[c] /\ pushing[b] # None => b = c
    BY DEF StreamInv, Pipe
  <1>7. Pending' = Pending \ {Low}
    <2>1. Low # None
      BY <1>4 DEF None
    <2>2. \A b \in Appenders : pushing[b] = Low => b = a
      BY <1>4, <1>6, <2>1
    <2>3. Pending' = {pushing'[b] : b \in Appenders} \ {None}
      BY DEF Pending
    <2>4. ASSUME NEW x
          PROVE  x \in Pending' <=> x \in Pending \ {Low}
      <3>1. ASSUME x \in Pending'
            PROVE  x \in Pending \ {Low}
        <4>1. PICK b \in Appenders : x = pushing'[b] /\ x # None
          BY <2>3, <3>1
        <4>2. b # a /\ x = pushing[b]
          BY <1>5, <4>1
        <4> QED BY <2>2, <4>1, <4>2 DEF Pending
      <3>2. ASSUME x \in Pending, x # Low
            PROVE  x \in Pending'
        <4>1. PICK b \in Appenders : x = pushing[b] /\ x # None
          BY <3>2 DEF Pending
        <4>2. b # a
          BY <1>4, <3>2, <4>1
        <4> QED BY <1>5, <2>3, <4>1, <4>2
      <3> QED BY <3>1, <3>2
    <2> QED BY <2>4
  <1>8. Pending' = (Low + 1)..(next - 1)
    BY <1>1, <1>3, <1>4, <1>7
  <1>9. Low' = Low + 1
    <2>1. PICK l \in 0..next : l = Low + 1
      BY <1>1, <1>4
    <2>2. Low' = LeastOf(l..(next - 1), next)
      BY <1>1, <1>8, <2>1 DEF Low
    <2>3. LeastOf(l..(next - 1), next) = l
      BY <1>1, LowOf
    <2> QED BY <2>1, <2>2, <2>3
  <1>10. /\ Len(loop) \in Nat /\ Len(loop') = Len(loop) + 1 /\ loop'[Len(loop) + 1] = Low
         /\ \A i \in 1..Len(loop) : loop'[i] = loop[i]
    BY <1>1, <1>4
  <1>11. Coming' = Coming /\ Coming \in Nat /\ Coming + Len(loop) = Low
    BY <1>4, <1>9, <1>10 DEF StreamInv, Pipe, Coming
  <1>12. \A i \in 1..Len(loop') : loop'[i] = Coming + i - 1
    BY <1>10, <1>11 DEF StreamInv, Pipe
  <1>13. stage # "idle"
    BY <1>1 DEF StreamInv, Pipe
  <1>14. Pipe'
    <2>1. Low' \in 0..next' /\ Pending' = Low'..(next' - 1)
      BY <1>1, <1>4, <1>8, <1>9
    <2>2. \A b, c \in Appenders : pushing'[b] = pushing'[c] /\ pushing'[b] # None => b = c
      BY <1>5, <1>6
    <2> QED BY <1>1, <1>2, <1>11, <1>12, <1>13, <2>1, <2>2 DEF StreamInv, Pipe
  <1>15. Queue' /\ Known'
    BY <1>1, <1>2, <1>11, SameQueue, SameKnown DEF StreamInv, LogInv
  <1> QED BY <1>1, <1>14, <1>15, SameFrames DEF StreamInv

LEMMA SubscribeKeepsStream ==
  ASSUME LogInv, LogInv', StreamInv, Subscribe
  PROVE  StreamInv'
  <1>1. /\ stage = "idle" /\ stage' = "half" /\ subscribed'
        /\ UNCHANGED <<next, pushing, loop, since, boundary, backlog, q, drop, lastSeq, rec, out>>
    BY DEF Subscribe, Order
  <1>2. Pending' = Pending /\ Low' = Low /\ Coming' = Coming
    BY <1>1 DEF Pending, Low, Coming
  <1>3. Pipe'
    BY <1>1, <1>2 DEF StreamInv, Pipe
  <1>4. Queue'
    BY <1>1 DEF Queue
  <1>5. Known'
    BY <1>1, SameFrames DEF StreamInv, Known
  <1> QED BY <1>1, <1>3, <1>4, <1>5, SameFrames DEF StreamInv

\* The backlog has every record up to the boundary, or names those it lost.
LEMMA SnapshotKeepsStream ==
  ASSUME LogAssumption, LogInv, LogInv', StreamInv, Snapshot
  PROVE  StreamInv'
  <1>1. /\ stage = "half" /\ stage' = "replay" /\ boundary' = next
        /\ UNCHANGED <<next, pushing, subscribed, loop, since, q, drop, rec, out>>
    BY DEF Snapshot, Order, ringVars
  <1>2. Pending' = Pending /\ Low' = Low /\ Coming' = Coming /\ Coming \in Nat
    BY <1>1 DEF Pending, Low, Coming, StreamInv, Pipe
  <1>3. Pipe'
    BY <1>1, <1>2 DEF StreamInv, Pipe
  <1>4. Queue'
    <2>1. q' = <<>> /\ drop' = NoDrop
      BY <1>1 DEF StreamInv, Pipe
    <2>2. Coming <= next /\ next \in Nat
      BY StreamNumbers DEF StreamInv, LogInv
    <2>3. Entering' = next
      BY <1>1, <1>2, <2>2 DEF Entering, Greatest
    <2>4. First' = next
      BY <2>1, <2>2, <2>3 DEF First, NoDrop
    <2> QED BY <1>1, <2>1, <2>2, <2>3, <2>4 DEF Queue, NoDrop
  <1>5. Known'
    <2>1. PICK first \in since..next, p \in {0, 1} :
             /\ p = IF first > since THEN 1 ELSE 0
             /\ backlog' \in Seq(Frames) /\ Len(backlog') = p + next - first
             /\ p = 1 => backlog'[1] = GapFrame(since, first - 1)
             /\ \A k \in 1..(next - first) : backlog'[p + k] = Frame(first + k - 1)
      BY BacklogShape DEF LogInv
    <2>2. next \in Nat /\ since \in Nat /\ first \in Nat
      BY StreamNumbers, <2>1 DEF StreamInv, LogInv
    <2>3. ASSUME NEW s \in 0..(next - 1)
          PROVE  Told(s) \/ \E k \in 1..Len(backlog') : Covers(backlog'[k], s)
      <3>1. CASE s < since
        BY <3>1, <2>2 DEF StreamInv, Known
      <3>2. CASE since <= s /\ s < first
        <4>1. p = 1 /\ 1 \in 1..Len(backlog')
          BY <2>1, <2>2, <3>2
        <4>2. Covers(backlog'[1], s)
          BY <2>1, <2>2, <3>2, <4>1 DEF Covers, GapFrame
        <4> QED BY <4>1, <4>2
      <3>3. CASE first <= s
        <4>1. s - first + 1 \in 1..(next - first) /\ p + (s - first + 1) \in 1..Len(backlog')
          BY <2>1, <2>2, <3>3
        <4>2. backlog'[p + (s - first + 1)] = Frame(first + (s - first + 1) - 1)
          BY <2>1, <4>1
        <4>3. Covers(backlog'[p + (s - first + 1)], s)
          BY <2>2, <4>2 DEF Covers, Frame
        <4> QED BY <4>1, <4>3
      <3> QED BY <2>2, <3>1, <3>2, <3>3
    <2> QED BY <1>1, <2>3, SameFrames DEF StreamInv, Known
  <1> QED BY <1>1, <1>3, <1>4, <1>5, SameFrames DEF StreamInv

\* The next record enters the queue, at most one falls out of it; or the backlog has it.
LEMMA PutKeepsQueue ==
  ASSUME LogAssumption, LogInv, LogInv', Pipe, Queue, Put
  PROVE  Pipe' /\ Queue' /\ First' = First
  <1>1. /\ Head(loop) = loop[1] /\ Len(loop) \in Nat /\ Len(loop) > 0 /\ loop' = Tail(loop)
        /\ Len(loop') = Len(loop) - 1 /\ \A i \in 1..Len(loop') : loop'[i] = loop[i + 1]
        /\ stage # "half"
        /\ UNCHANGED <<next, pushing, subscribed, stage, since, boundary, backlog, lastSeq, rec, out>>
    BY HeadGoes DEF Put, LogInv, Types, ringVars
  <1>2. stage \in {"replay", "get", "send"}
    BY <1>1 DEF Pipe, LogInv, Types, Stages
  <1>3. Coming \in Nat /\ loop[1] = Coming
    BY <1>1 DEF Pipe
  <1>4. Pending' = Pending /\ Low' = Low /\ Coming' = Coming + 1
    BY <1>1, StreamNumbers DEF Pending, Low, Coming, LogInv
  <1>5. Pipe'
    <2>1. \A i \in 1..Len(loop') : i + 1 \in 1..Len(loop) /\ loop'[i] = loop[i + 1]
      BY <1>1
    <2>2. \A i \in 1..Len(loop') : loop'[i] = Coming' + i - 1
      BY <1>3, <1>4, <2>1 DEF Pipe
    <2>3. \A b, c \in Appenders : pushing'[b] = pushing'[c] /\ pushing'[b] # None => b = c
      BY <1>1 DEF Pipe
    <2> QED BY <1>1, <1>2, <1>3, <1>4, <2>2, <2>3 DEF Pipe
  <1>6. CASE Coming < boundary
    <2>1. UNCHANGED <<q, drop>>
      BY <1>1, <1>3, <1>6 DEF Put, Covered
    <2>2. Entering' = Entering
      BY <1>1, <1>3, <1>4, <1>6, StreamNumbers DEF Entering, Greatest, LogInv
    <2>3. First' = First
      BY <2>1, <2>2 DEF First
    <2> QED BY <1>1, <1>5, <2>1, <2>2, <2>3 DEF Queue
  <1>7. CASE ~(Coming < boundary)
    <2>1. q' = Queued(Coming).q /\ drop' = Queued(Coming).drop
      BY <1>1, <1>3, <1>7 DEF Put, Covered
    <2>2. Entering = Coming /\ Entering' = Coming + 1 /\ boundary \in Nat
      BY <1>1, <1>3, <1>4, <1>7, StreamNumbers DEF Entering, Greatest, LogInv
    <2>3. /\ q \in Seq(Nat) /\ Len(q) \in Nat /\ Len(q) <= Coming - boundary
          /\ \A i \in 1..Len(q) : q[i] = Coming - Len(q) + i - 1
      BY <1>2, <2>2 DEF Queue, LogInv, Types
    <2>4. /\ drop.n \in Nat /\ drop.from \in Int /\ drop.to \in Int
          /\ drop.n = 0 => drop = NoDrop
          /\ drop.n > 0 => boundary <= drop.from /\ drop.from <= drop.to /\ drop.to = Coming - Len(q) - 1
      BY <1>2, <2>2, StreamNumbers DEF Queue, LogInv
    <2>5. CASE Len(q) # QueueMax
      <3>1. q' = Append(q, Coming) /\ drop' = drop
        BY <2>1, <2>5 DEF Queued
      <3>2. /\ Len(q') = Len(q) + 1 /\ q'[Len(q) + 1] = Coming
            /\ \A i \in 1..Len(q) : q'[i] = q[i]
        BY <1>3, <2>3, <3>1
      <3>3. \A i \in 1..Len(q') : q'[i] = Coming + 1 - Len(q') + i - 1
        BY <1>3, <2>3, <3>2
      <3>4. First' = First
        BY <1>3, <2>2, <2>3, <3>1, <3>2 DEF First
      <3>5. Len(q') <= Coming + 1 - boundary /\ Coming + 1 - Len(q') - 1 = Coming - Len(q) - 1
        BY <1>3, <2>2, <2>3, <3>2
      <3>6. /\ drop'.n = 0 => drop' = NoDrop
            /\ drop'.n > 0 =>
                 boundary <= drop'.from /\ drop'.from <= drop'.to /\ drop'.to = Coming + 1 - Len(q') - 1
        BY <2>4, <3>1, <3>5
      <3> QED BY <1>1, <1>2, <1>3, <1>5, <2>2, <2>3, <3>2, <3>3, <3>4, <3>5, <3>6 DEF Queue
    <2>6. CASE Len(q) = QueueMax
      <3>1. q # <<>>
        BY <2>6 DEF LogAssumption
      <3>2. /\ Head(q) = q[1] /\ q[1] = Coming - Len(q) /\ Tail(q) \in Seq(Nat) /\ Len(q) > 0
            /\ Len(Tail(q)) = Len(q) - 1 /\ \A i \in 1..Len(Tail(q)) : Tail(q)[i] = q[i + 1]
        BY <1>3, <2>3, <3>1, HeadGoes
      <3>3. /\ q' = Append(Tail(q), Coming)
            /\ drop' = [n |-> drop.n + 1, from |-> IF drop.from = None THEN Head(q) ELSE drop.from, to |-> Head(q)]
        BY <2>1, <2>6 DEF Queued
      <3>4. /\ Len(q') = Len(q)
            /\ \A i \in 1..(Len(q) - 1) : q'[i] = q[i + 1]
            /\ q'[Len(q)] = Coming
        BY <1>3, <2>3, <3>2, <3>3
      <3>5. ASSUME NEW i \in 1..Len(q')
            PROVE  q'[i] = Coming + 1 - Len(q') + i - 1
        <4>1. CASE i = Len(q)
          BY <1>3, <2>3, <3>4, <4>1
        <4>2. CASE i # Len(q)
          <5>1. i \in 1..(Len(q) - 1) /\ i + 1 \in 1..Len(q)
            BY <2>3, <3>4, <4>2
          <5>2. q'[i] = q[i + 1] /\ q[i + 1] = Coming - Len(q) + (i + 1) - 1
            BY <2>3, <3>4, <5>1
          <5> QED BY <1>3, <2>3, <3>4, <5>1, <5>2
        <4> QED BY <4>1, <4>2
      <3>6. CASE drop.n = 0
        <4>1. drop'.n = 1 /\ drop'.from = Coming - Len(q) /\ drop'.to = Coming - Len(q)
          BY <2>4, <3>2, <3>3, <3>6 DEF NoDrop
        <4>2. First' = First
          BY <2>2, <3>6, <4>1 DEF First
        <4>3. boundary <= drop'.from /\ drop'.from <= drop'.to /\ drop'.to = Coming + 1 - Len(q') - 1
          BY <1>3, <2>2, <2>3, <3>4, <4>1
        <4> QED BY <1>1, <1>2, <1>3, <1>5, <2>2, <2>3, <3>4, <3>5, <4>1, <4>2, <4>3 DEF Queue
      <3>7. CASE drop.n > 0
        <4>1. drop.from # None
          BY <2>2, <2>4, <3>7 DEF None
        <4>2. drop'.n = drop.n + 1 /\ drop'.from = drop.from /\ drop'.to = Coming - Len(q)
          BY <3>2, <3>3, <4>1
        <4>3. First' = First /\ drop'.n > 0
          BY <2>4, <3>7, <4>2 DEF First
        <4>4. boundary <= drop'.from /\ drop'.from <= drop'.to /\ drop'.to = Coming + 1 - Len(q') - 1
          BY <1>3, <2>3, <2>4, <3>4, <3>7, <4>2
        <4> QED BY <1>1, <1>2, <1>3, <1>5, <2>2, <2>3, <3>4, <3>5, <4>3, <4>4 DEF Queue
      <3> QED BY <2>4, <3>6, <3>7
    <2> QED BY <2>5, <2>6
  <1> QED BY <1>3, <1>6, <1>7, StreamNumbers DEF LogInv

LEMMA PutKeepsStream ==
  ASSUME LogAssumption, LogInv, LogInv', StreamInv, Put
  PROVE  StreamInv'
  <1>1. Pipe' /\ Queue' /\ First' = First
    BY PutKeepsQueue DEF StreamInv
  <1>2. UNCHANGED <<stage, since, boundary, backlog, rec, out>>
    BY DEF Put
  <1>3. Known'
    BY <1>1, <1>2, SameKnown DEF StreamInv
  <1> QED BY <1>1, <1>2, <1>3, SameFrames DEF StreamInv

LEMMA ReplayKeepsStream ==
  ASSUME LogInv, LogInv', StreamInv, Replay
  PROVE  StreamInv'
  <1>1. /\ stage = "replay" /\ stage' \in {"replay", "get"}
        /\ UNCHANGED <<next, pushing, subscribed, loop, since, boundary, q, drop, lastSeq, rec>>
    BY DEF Replay, ringVars
  <1>2. Pending' = Pending /\ Low' = Low /\ Coming' = Coming /\ Entering' = Entering /\ First' = First
    BY <1>1 DEF Pending, Low, Coming, Entering, First, Greatest
  <1>3. Pipe'
    BY <1>1, <1>2 DEF StreamInv, Pipe
  <1>4. First = boundary /\ lastSeq = boundary - 1 /\ boundary \in Nat
    BY <1>1, StreamNumbers DEF StreamInv, Queue, LogInv, Replayed
  <1>5. Queue'
    BY <1>1, <1>2, <1>4 DEF StreamInv, Queue
  <1>6. CASE backlog = <<>>
    <2>1. stage' = "get" /\ out' = out
      BY <1>6 DEF Replay
    <2>2. \A s \in 0..(First - 1) : Told(s)
      BY <1>1, <1>4, <1>6 DEF StreamInv, Known
    <2>3. Known'
      BY <1>1, <1>2, <2>1, <2>2, SameFrames DEF StreamInv, Known
    <2> QED BY <1>3, <1>5, <2>1, <2>3, SameFrames DEF StreamInv
  <1>7. CASE backlog # <<>>
    <2> DEFINE f == backlog[1]
    <2>1. /\ Head(backlog) = f /\ f \in Frames /\ Len(backlog) \in Nat /\ Len(backlog) > 0
          /\ backlog' = Tail(backlog) /\ Len(backlog') = Len(backlog) - 1
          /\ \A k \in 1..Len(backlog') : backlog'[k] = backlog[k + 1]
      <3>1. backlog' = Tail(backlog)
        BY <1>7 DEF Replay
      <3>2. backlog \in Seq(Frames)
        BY DEF LogInv, Types
      <3> QED BY <1>7, <3>1, <3>2, HeadGoes
    <2>2. stage' = "replay" /\ out' = Append(out, f)
      BY <1>7, <2>1 DEF Replay
    <2>3. Sends(f)
      BY <2>1, <2>2, AppendSends DEF LogInv
    <2>4. /\ f.from \in Nat /\ f.from <= f.to /\ f.to \in Int /\ f.to < boundary
          /\ f.kind = "rec" => f.from = f.to
      BY <1>1, <2>1 DEF LogInv, Replayed, Frames
    <2>5. ASSUME NEW k \in 1..Len(backlog), k # 1
          PROVE  f.to < backlog[k].from
      BY <1>1, <2>1, <2>5 DEF LogInv, Replayed
    <2>6. ASSUME NEW s \in 0..(boundary - 1)
          PROVE  \/ Told(s) \/ Covers(f, s)
                 \/ \E k \in 1..Len(backlog) : k # 1 /\ Covers(backlog[k], s)
      BY <1>1, <2>6 DEF StreamInv, Known
    <2>7. \A i \in Numbers("rec") : out[i].to < f.from
      BY <1>1, <2>1 DEF LogInv, Behind
    <2>8. \A k \in 1..Len(backlog) : backlog[k].from \in Int
      BY <1>1 DEF LogInv, Replayed
    <2> HIDE DEF f
    <2>9. ASSUME NEW s \in 0..f.to
          PROVE  Told(s) \/ Covers(f, s)
      <3>1. s \in 0..(boundary - 1)
        BY <1>4, <2>4
      <3>2. ASSUME NEW k \in 1..Len(backlog), k # 1, Covers(backlog[k], s)
            PROVE  FALSE
        <4>1. f.to < backlog[k].from /\ backlog[k].from <= s
          BY <2>5, <3>2 DEF Covers
        <4> QED BY <2>4, <2>8, <4>1
      <3> QED BY <2>6, <3>1, <3>2
    <2>10. NoSilentLoss' /\ GapsHonest'
      BY <2>1, <2>3, <2>7, <2>9, HonestFrame DEF StreamInv
    <2>11. Known'
      <3>1. \A s \in 0..(since - 1) : Told(s)'
        BY <2>3, MoreTold DEF StreamInv, Known
      <3>2. ASSUME NEW s \in 0..(boundary - 1)
            PROVE  Told(s)' \/ \E k \in 1..Len(backlog') : Covers(backlog'[k], s)
        <4>1. CASE Told(s) \/ Covers(f, s)
          BY <2>3, <4>1, MoreTold
        <4>2. ASSUME NEW k \in 1..Len(backlog), k # 1, Covers(backlog[k], s)
              PROVE  \E l \in 1..Len(backlog') : Covers(backlog'[l], s)
          <5>1. k - 1 \in 1..Len(backlog') /\ (k - 1) + 1 = k
            BY <2>1, <4>2
          <5>2. backlog'[k - 1] = backlog[k]
            BY <2>1, <5>1
          <5> QED BY <4>2, <5>1, <5>2
        <4> QED BY <2>6, <4>1, <4>2
      <3> QED BY <1>1, <2>2, <3>1, <3>2 DEF Known
    <2> QED BY <1>3, <1>5, <2>10, <2>11 DEF StreamInv
  <1> QED BY <1>6, <1>7

\* What the reader takes is next in order; what fell out before it is told by the gap.
LEMMA GetKeepsStream ==
  ASSUME LogInv, LogInv', StreamInv, Get
  PROVE  StreamInv'
  <1>1. /\ Head(q) = q[1] /\ Len(q) \in Nat /\ Len(q) > 0 /\ q' = Tail(q)
        /\ Len(q') = Len(q) - 1 /\ \A i \in 1..Len(q') : q'[i] = q[i + 1]
        /\ stage = "get"
        /\ UNCHANGED <<next, pushing, subscribed, loop, since, boundary, backlog, lastSeq>>
    BY HeadGoes DEF Get, LogInv, Types, ringVars
  <1>2. Pending' = Pending /\ Low' = Low /\ Coming' = Coming /\ Entering' = Entering /\ Entering \in Int /\ boundary \in Nat
    BY <1>1, StreamNumbers DEF StreamInv, Pending, Low, Coming, Entering, Greatest, LogInv
  <1>3. /\ q[1] = Entering - Len(q) /\ Len(q) <= Entering - boundary
        /\ \A i \in 1..Len(q) : q[i] = Entering - Len(q) + i - 1
        /\ drop.n > 0 => boundary <= drop.from /\ drop.from <= drop.to /\ drop.to = q[1] - 1
        /\ lastSeq < First /\ lastSeq \in Int /\ First \in Int /\ First <= q[1]
        /\ First = IF drop.n = 0 THEN q[1] ELSE drop.from
    <2>1. /\ \A i \in 1..Len(q) : q[i] = Entering - Len(q) + i - 1
          /\ Len(q) <= Entering - boundary
          /\ drop.n > 0 => boundary <= drop.from /\ drop.from <= drop.to /\ drop.to = Entering - Len(q) - 1
          /\ lastSeq < First
      BY <1>1 DEF StreamInv, Queue
    <2>2. q[1] = Entering - Len(q)
      BY <1>1, <1>2, <2>1
    <2>3. /\ lastSeq \in Int /\ First \in Int /\ drop.n \in Nat /\ drop.from \in Int /\ drop.to \in Int
          /\ First = IF drop.n = 0 THEN Entering - Len(q) ELSE drop.from
      BY StreamNumbers DEF StreamInv, LogInv
    <2> QED BY <1>1, <1>2, <2>1, <2>2, <2>3
  <1>4. /\ stage' = "send" /\ rec' = q[1] /\ drop' = NoDrop
        /\ out' = IF drop.n > 0 THEN Append(out, GapFrame(drop.from, drop.to)) ELSE out
    <2>1. ~(q[1] <= lastSeq)
      BY <1>1, <1>2, <1>3
    <2> QED BY <1>1, <2>1 DEF Get, Stale
  <1>5. Pipe'
    BY <1>1, <1>2, <1>4 DEF StreamInv, Pipe
  <1>6. Queue'
    <2>1. Len(q) \in Nat /\ Len(q') = Len(q) - 1
      BY <1>1
    <2>2. ASSUME NEW i \in 1..Len(q')
          PROVE  q'[i] = Entering - Len(q') + i - 1
      <3>1. i + 1 \in 1..Len(q) /\ q'[i] = q[i + 1]
        BY <1>1
      <3>2. q[i + 1] = Entering - Len(q) + (i + 1) - 1
        BY <1>3, <3>1
      <3> QED BY <1>2, <2>1, <3>1, <3>2
    <2>3. First' = q[1] + 1
      BY <1>1, <1>2, <1>3, <1>4 DEF First, NoDrop
    <2>4. Len(q') <= Entering - boundary
      BY <1>1, <1>2, <1>3
    <2>5. /\ stage' = "send" /\ rec' + 1 = First' /\ Entering' = Entering /\ boundary' = boundary
          /\ drop' = NoDrop /\ drop'.n = 0
      BY <1>1, <1>2, <1>4, <2>3 DEF NoDrop
    <2> QED BY <2>2, <2>4, <2>5 DEF Queue
  <1>7. \A s \in 0..(First - 1) : Told(s)
    BY <1>1 DEF StreamInv, Known
  <1>8. Known' /\ NoSilentLoss' /\ GapsHonest'
    <2>1. CASE drop.n = 0
      <3>1. out' = out /\ First = q[1]
        BY <1>3, <1>4, <2>1
      <3>2. \A s \in 0..(rec' - 1) : Told(s)'
        BY <1>4, <1>7, <3>1, SameFrames
      <3>3. \A s \in 0..(since' - 1) : Told(s)'
        BY <1>1, <3>1, SameFrames DEF StreamInv, Known
      <3> QED BY <1>4, <3>1, <3>2, <3>3, SameFrames DEF StreamInv, Known
    <2>2. CASE drop.n > 0
      <3> DEFINE g == GapFrame(drop.from, drop.to)
      <3>1. drop.from \in Int /\ drop.to \in Int /\ drop.from = First /\ drop.to = q[1] - 1 /\ q[1] \in Int
        BY <1>1, <1>2, <1>3, <2>2, StreamNumbers DEF StreamInv, LogInv
      <3>2. g \in Frames /\ out' = Append(out, g)
        BY <1>4, <2>2, <3>1, FrameTypes
      <3>3. Sends(g)
        BY <3>2, AppendSends DEF LogInv
      <3>4. g.kind = "gap" /\ g.from = First /\ g.to = q[1] - 1
        BY <3>1 DEF GapFrame
      <3> HIDE DEF g
      <3>5. ASSUME NEW j \in Numbers("rec")
            PROVE  out[j].to < First
        BY <1>1, <1>3 DEF LogInv, Behind, Sent
      <3>6. NoSilentLoss' /\ GapsHonest'
        BY <3>2, <3>3, <3>4, <3>5, HonestFrame DEF StreamInv
      <3>7. ASSUME NEW s \in 0..(q[1] - 1)
            PROVE  Told(s)'
        <4>1. CASE s < First
          BY <1>3, <1>7, <3>3, <4>1, MoreTold
        <4>2. CASE ~(s < First)
          <5>1. Covers(g, s)
            BY <1>3, <3>1, <3>4, <4>2 DEF Covers
          <5> QED BY <3>3, <5>1, MoreTold
        <4> QED BY <4>1, <4>2
      <3>8. \A s \in 0..(since - 1) : Told(s)'
        BY <3>3, MoreTold DEF StreamInv, Known
      <3>9. Known'
        BY <1>1, <1>4, <3>7, <3>8 DEF Known
      <3> QED BY <3>6, <3>9
    <2> QED BY <2>1, <2>2, StreamNumbers DEF StreamInv, LogInv
  <1> QED BY <1>5, <1>6, <1>8 DEF StreamInv

LEMMA SendKeepsStream ==
  ASSUME LogInv, LogInv', StreamInv, Send
  PROVE  StreamInv'
  <1>1. /\ stage = "send" /\ stage' = "get" /\ lastSeq' = rec
        /\ UNCHANGED <<next, pushing, subscribed, loop, since, boundary, backlog, q, drop>>
    BY DEF Send, ringVars
  <1>2. Pending' = Pending /\ Low' = Low /\ Coming' = Coming /\ Entering' = Entering /\ First' = First
    BY <1>1 DEF Pending, Low, Coming, Entering, First, Greatest
  <1>3. rec + 1 = First /\ rec \in Int /\ First \in Int
    BY <1>1, StreamNumbers DEF StreamInv, Queue, LogInv
  <1>4. Frame(rec) \in Frames /\ Sends(Frame(rec))
    BY <1>3, FrameTypes, AppendSends DEF Send, LogInv
  <1>5. Pipe'
    BY <1>1, <1>2 DEF StreamInv, Pipe
  <1>6. Queue'
    <2>1. lastSeq' < First'
      BY <1>1, <1>2, <1>3
    <2> QED BY <1>1, <1>2, <2>1 DEF StreamInv, Queue
  <1>7. ASSUME NEW s \in 0..rec
        PROVE  Told(s) \/ Covers(Frame(rec), s)
    <2>1. CASE s = rec
      BY <1>3, <2>1 DEF Covers, Frame
    <2>2. CASE s # rec
      <3>1. s \in 0..(rec - 1)
        BY <1>3, <2>2
      <3> QED BY <1>1, <3>1 DEF StreamInv, Known
    <2> QED BY <2>1, <2>2
  <1>8. Known'
    <2>1. \A s \in 0..(First - 1) : Told(s)'
      BY <1>3, <1>4, <1>7, MoreTold
    <2>2. \A s \in 0..(since - 1) : Told(s)'
      BY <1>4, MoreTold DEF StreamInv, Known
    <2> QED BY <1>1, <1>2, <2>1, <2>2 DEF Known
  <1>9. NoSilentLoss' /\ GapsHonest'
    <2>1. Frame(rec).kind = "rec" /\ Frame(rec).to = rec
      BY DEF Frame
    <2> QED BY <1>4, <1>7, <2>1, HonestFrame DEF StreamInv
  <1> QED BY <1>5, <1>6, <1>8, <1>9 DEF StreamInv

\* The client comes back for the record after the last it saw: all before it are told of.
LEMMA DisconnectKeepsStream ==
  ASSUME LogInv, LogInv', StreamInv, Disconnect
  PROVE  StreamInv'
  <1>1. /\ stage' = "idle" /\ ~subscribed' /\ boundary' = 0 /\ backlog' = <<>> /\ q' = <<>> /\ drop' = NoDrop
        /\ loop' = <<>> /\ pushing' = [b \in Appenders |-> None]
        /\ UNCHANGED <<next, out>>
        /\ since' = IF LastId = None THEN since ELSE LastId + 1
    BY DEF Disconnect, Resume
  <1>2. Pending' = {} /\ Low' = next /\ next \in Nat
    BY <1>1 DEF Pending, Low, LeastOf, LogInv, Types
  <1>3. Pipe'
    BY <1>1, <1>2 DEF Pipe, Coming
  <1>4. Queue'
    BY <1>1 DEF Queue
  <1>5. Known'
    <2>1. CASE LastId = None
      BY <1>1, <2>1, SameFrames DEF StreamInv, Known
    <2>2. CASE LastId # None
      <3>1. PICK m \in Numbers("rec") : LastId = out[m].to
        BY <2>2, LastSeen DEF LogInv
      <3>2. m \in 1..Len(out) /\ Len(out) \in Nat
        BY <3>1 DEF Numbers, LogInv, Types
      <3>3. ASSUME NEW s \in 0..out[m].to
            PROVE  Told(s)
        <4>1. PICK j \in 1..m : out[j].from <= s /\ s <= out[j].to
          BY <3>1 DEF StreamInv, NoSilentLoss
        <4>2. j \in 1..Len(out)
          BY <3>2
        <4> QED BY <4>1, <4>2 DEF Told, Covers
      <3>4. since' = out[m].to + 1 /\ out[m].to \in Int
        BY <1>1, <2>2, <3>1 DEF LogInv, Sent
      <3>5. \A s \in 0..(since' - 1) : Told(s)'
        BY <1>1, <3>3, <3>4, SameFrames
      <3> QED BY <1>1, <3>5 DEF Known
    <2> QED BY <2>1, <2>2
  <1> QED BY <1>1, <1>3, <1>4, <1>5, SameFrames DEF StreamInv

\* Every step keeps it, but a push that overtakes another.
LEMMA StepStream ==
  ASSUME LogAssumption, LogInv, LogInv', StreamInv, [Next]_vars, [InTurn]_vars
  PROVE  StreamInv'
  <1>1. CASE \E b \in Appenders : RingAppend(b) \/ Push(b)
    <2>1. PICK b \in Appenders : RingAppend(b) \/ Push(b)
      BY <1>1
    <2>2. CASE RingAppend(b)
      BY <2>2, AppendKeepsStream
    <2>3. CASE Push(b)
      <3>1. pushing \in [Appenders -> Int] /\ pushing[b] # None /\ pushing'[b] = None
        BY <2>3 DEF Push, LogInv, Types
      <3>2. vars' # vars
        BY <3>1 DEF vars, ringVars
      <3>3. ~Overtakes(b)
        BY <2>3, <3>2 DEF InTurn
      <3> QED BY <2>3, <3>3, PushKeepsStream
    <2> QED BY <2>1, <2>2, <2>3
  <1>2. CASE Reader
    BY <1>2, SubscribeKeepsStream, SnapshotKeepsStream, ReplayKeepsStream, GetKeepsStream,
       SendKeepsStream DEF Reader
  <1>3. CASE Put \/ Disconnect
    BY <1>3, PutKeepsStream, DisconnectKeepsStream
  <1>4. CASE UNCHANGED vars
    <2>1. UNCHANGED <<next, pushing, subscribed, loop, stage, since, boundary, backlog, q, drop, lastSeq, rec, out>>
      BY <1>4 DEF vars, ringVars, readVars
    <2>2. Pending' = Pending /\ Low' = Low /\ Coming' = Coming
      BY <2>1 DEF Pending, Low, Coming
    <2>3. Pipe'
      BY <2>1, <2>2 DEF StreamInv, Pipe
    <2>4. Queue' /\ Known'
      BY <2>1, <2>2, SameQueue, SameKnown DEF StreamInv, LogInv
    <2> QED BY <2>1, <2>3, <2>4, SameFrames DEF StreamInv
  <1> QED BY <1>1, <1>2, <1>3, <1>4 DEF Next

\* "no gap" and "keeps the gap counters honest" of daemon/app.py's log stream, whoever
\* appends: when a record is sent, every earlier one has been sent or lies in a gap the
\* client was told of, and no gap names a record it was sent.  Only a push that overtakes
\* an earlier record's, outside the ring's lock, can make it false: the queue's bound, its
\* drop-oldest and the ring's eviction lose records, and each loss is reported.
THEOREM NothingIsLostSilently ==
  LogAssumption => (Spec /\ [][InTurn]_vars => [](NoSilentLoss /\ GapsHonest))
  <1> SUFFICES ASSUME LogAssumption
               PROVE  Spec /\ [][InTurn]_vars => [](NoSilentLoss /\ GapsHonest)
    OBVIOUS
  <1>1. Init => LogInv /\ StreamInv
    BY InitLog, InitStream
  <1>2. LogInv /\ StreamInv /\ [Next]_vars /\ [InTurn]_vars => LogInv' /\ StreamInv'
    BY StepLog, StepStream
  <1>3. LogInv /\ StreamInv => NoSilentLoss /\ GapsHonest
    BY DEF StreamInv
  <1> QED BY <1>1, <1>2, <1>3, PTL DEF Spec

\* daemon/app.py's log stream, as long as no push overtakes another: each record once, in
\* order, or a gap that names it.
THEOREM LogAlwaysHonest ==
  LogAssumption => (Spec /\ [][InTurn]_vars => []LogIsHonest)
  <1> SUFFICES ASSUME LogAssumption PROVE Spec /\ [][InTurn]_vars => []LogIsHonest
    OBVIOUS
  <1>1. NoDuplicate /\ (NoSilentLoss /\ GapsHonest) => LogIsHonest
    BY DEF LogIsHonest
  <1>2. Spec => []NoDuplicate
    BY RecordsNeverRepeat
  <1>3. Spec /\ [][InTurn]_vars => [](NoSilentLoss /\ GapsHonest)
    BY NothingIsLostSilently
  <1> QED BY <1>1, <1>2, <1>3, PTL
=============================================================================
