-------------------------- MODULE Frontend_proofs --------------------------
(***************************************************************************)
(* Theorems about the API server front end, for any number of requests,    *)
(* tokens, stops and rebuilds, with one or several tokenizer workers, and  *)
(* whatever dies, raises or interrupts:                                    *)
(*   BusyAlwaysInflight       the drain of a stop waits for every request  *)
(*                            the backend may still work on                *)
(*   StreamsAlwaysWhole       a stream that ended has every token          *)
(*   AckMapAlwaysBounded      no entry outlives its request                *)
(*   StopNeverACrash          workers that shutdown() ends are not latched *)
(*                            as crashed                                   *)
(*   TokensAlwaysCounted      every token made is counted or in the queue  *)
(*   SealedAlwaysFinal        the sealed totals are those of the backend,  *)
(*                            and stay so while the gate stays shut        *)
(*   GateNeverReopens         the only steps that open a shut gate         *)
(*   DeathIsLatched           the only steps that open it after a death    *)
(***************************************************************************)
EXTENDS Frontend, TLAPS, FiniteSetTheorems, SequenceTheorems

-----------------------------------------------------------------------------
(* The inductive invariants. *)

Kinds    == Counted \cup Terminal
Stations == {"none", "waiting", "yield", "gone", "closed", "done", "error"}
Replies  == [t : Kinds, uid : Uids] \cup [t : {"rebuilt"}, uid : Nat, ok : BOOLEAN]
Messages == [t : {"gen", "abort"}, uid : Uids] \cup [t : {"rebuild"}, uid : Nat]

Types ==
  /\ to \in Seq(Messages) /\ from \in Seq(Replies)
  /\ eng \in [Uids -> {"out", "queued", "decode"}] /\ tomb \subseteq Uids
  /\ work \in [Uids -> Nat] /\ got \in [Uids -> Nat]
  /\ client \in [Uids -> Stations]
  /\ Mapped \subseteq Uids /\ ack \in [Mapped -> Seq(Kinds)]
  /\ batch \in [Uids -> Seq(Kinds)] /\ total \in Nat
  /\ inflight \subseteq Uids /\ sleeping \subseteq Uids /\ todo \subseteq Uids
  /\ rebuilds \in Nat
  /\ \A u \in Uids : /\ client[u] = "yield" => batch[u] # <<>>
                     /\ client[u] = "waiting" => batch[u] = <<>>

\* A message of kind k for u is on its way to the backend.
Sent(k, u) == \E j \in 1..Len(to) : to[j].t = k /\ to[j].uid = u

\* The backend has nothing of u, is told nothing of u and has said nothing of u.
Silent(u) ==
  /\ eng[u] = "out" /\ ~Sent("gen", u) /\ ~Sent("abort", u)
  /\ \A i \in 1..Len(from) : from[i].t \in Kinds => from[i].uid # u

\* Before its request a uid is nowhere.
Fresh(u) ==
  client[u] = "none" =>
    /\ Silent(u) /\ work[u] = 0 /\ got[u] = 0 /\ batch[u] = <<>>
    /\ u \notin Mapped \cup inflight \cup sleeping \cup todo

\* The backend will send no token of u any more.
Over(u) == eng[u] = "out" /\ (Sent("gen", u) => u \in tomb)

\* The requests on their way to the backend are of different uids.
Distinct ==
  \A j, k \in 1..Len(to) :
    to[j].t = "gen" /\ to[k].t = "gen" /\ to[j].uid = to[k].uid => j = k

\* A request is sent once, and is in the backend only after that.
SentOnce ==
  /\ Distinct
  /\ \A u \in Uids : Sent("gen", u) => eng[u] = "out"

\* A reply with a token is of a request in flight; nothing but the answer to an abort
\* follows the last reply of a request.
RepliesInOrder ==
  /\ \A i \in 1..Len(from) : from[i].t \in Counted => from[i].uid \in inflight
  /\ \A i \in 1..Len(from), u \in Uids : from[i].t \in Terminal /\ from[i].uid = u => Over(u)
  /\ \A i, j \in 1..Len(from) :
        i < j /\ from[i].t \in Terminal /\ from[i].uid = from[j].uid => from[j].t \notin Counted

\* A request that is not in flight is over.
IdleIsOver == \A u \in Uids : u \notin inflight => Over(u)

BackInv == Types /\ SentOnce /\ RepliesInOrder /\ IdleIsOver /\ \A u \in Uids : Fresh(u)

\* An entry of ack_map has a handler, or a request that could not be sent.
Entries ==
  \A u \in Mapped :
    \/ client[u] \in {"waiting", "yield", "gone"}
    \/ client[u] = "error" /\ Silent(u) /\ u \in inflight

\* How many elements of s are in S.
Marks(s, S) == {i \in 1..Len(s) : s[i] \in S}
Count(s, S) == Cardinality(Marks(s, S))

TokensOf(u) == {m \in Replies : m.t \in Counted /\ m.uid = u}
TokenReplies == {m \in Replies : m.t \in Counted}

\* What the client has, what its handler holds, what ack_map holds and what is on its
\* way is what the backend sent.
Whole(u) ==
  client[u] \in {"waiting", "yield"} /\ u \in Mapped =>
    got[u] + Count(batch[u], Counted) + Count(ack[u], Counted) + Count(from, TokensOf(u)) = work[u]

\* Behind a last reply in ack_map there is nothing.
LastQueued(u) ==
  client[u] \in {"waiting", "yield"} /\ u \in Mapped =>
    \A i \in 1..Len(ack[u]) : ack[u][i] \in Terminal =>
      /\ Over(u) /\ \A j \in 1..Len(ack[u]) : i < j => ack[u][j] \notin Counted
      /\ \A j \in 1..Len(from) : from[j].t \in Counted => from[j].uid # u

\* A handler that holds a last reply holds all that is left.
LastHeld(u) ==
  client[u] = "yield" =>
    \A i \in 1..Len(batch[u]) : batch[u][i] \in Terminal =>
      /\ Over(u) /\ \A j \in 1..Len(batch[u]) : i < j => batch[u][j] \notin Counted
      /\ got[u] + Count(batch[u], Counted) = work[u]

Ended(u) == client[u] = "done" => Over(u) /\ got[u] = work[u]

Stream(u) == Whole(u) /\ LastQueued(u) /\ LastHeld(u) /\ Ended(u)

StreamInv == Entries /\ \A u \in Uids : Stream(u)

\* What was counted and what is on its way to be counted is what the backend sent.
Accounts == total + Count(from, TokenReplies) = Produced

-----------------------------------------------------------------------------
(* The gate. *)

\* Queue s holds a message of kind k; it holds one at most.
Has(s, k)  == \E i \in 1..Len(s) : s[i].t = k
Solo(s, k) == \A i, j \in 1..Len(s) : s[i].t = k /\ s[j].t = k => i = j

\* What an interrupted callback is about to store; it would open a shut gate only where
\* a worker died while it ran, or where it is a rollback after a death.
Interrupted ==
  /\ pend \in {None, "serving", "failed", "rebuilding", "stopping"} /\ (pend # None => Preempts)
  /\ pend \in {"serving", "rebuilding"} /\ gate \in {"stopping", "failed"} =>
       fatal /\ (gate = "stopping" => SendFails)

\* While the backend loads there is no rebuild, and only a stop has touched the gate.
Loading ==
  /\ sup = "ready" => Preempts
  /\ sup \in {"drain", "ready"} =>
       /\ gate \in {"loading", "stopping"} /\ pend \in {None, "stopping"} /\ rb = "idle"
       /\ ~Has(to, "rebuild") /\ ~Has(from, "rebuilt")

\* At most one rebuild is under way, and the gate says so, until a worker died.
OneRebuild ==
  ~fatal =>
    /\ rb = "sending" => /\ ~Has(to, "rebuild") /\ ~Has(from, "rebuilt")
                         /\ pend = "rebuilding" \/ (pend = None /\ gate = "rebuilding")
    /\ Has(to, "rebuild") => ~Has(from, "rebuilt")
    /\ Has(to, "rebuild") \/ Has(from, "rebuilt") => pend = None /\ gate = "rebuilding"
    /\ Solo(to, "rebuild") /\ Solo(from, "rebuilt")

GateKept == Interrupted /\ Loading /\ OneRebuild

\* What was sealed is all there is.
Final ==
  sealed # <<>> =>
    /\ sealed = <<total>> /\ \A i \in 1..Len(from) : from[i].t \notin Counted
    /\ \A u \in Uids : Over(u)

-----------------------------------------------------------------------------
(* Counting in a queue. *)

LEMMA CountType ==
  ASSUME NEW X, NEW s \in Seq(X), NEW S
  PROVE  IsFiniteSet(Marks(s, S)) /\ Count(s, S) \in Nat
  <1>1. Len(s) \in Nat /\ IsFiniteSet(1..Len(s))
    BY FS_Interval
  <1>2. IsFiniteSet(Marks(s, S))
    BY <1>1, FS_Subset DEF Marks
  <1> QED BY <1>2, FS_CardinalityType DEF Count

LEMMA CountNone ==
  ASSUME NEW s, NEW S, \A i \in 1..Len(s) : s[i] \notin S
  PROVE  Count(s, S) = 0
  <1>1. Marks(s, S) = {}
    BY DEF Marks
  <1> QED BY <1>1, FS_EmptySet DEF Count

LEMMA CountAppend ==
  ASSUME NEW X, NEW s \in Seq(X), NEW x \in X, NEW S
  PROVE  Count(Append(s, x), S) = Count(s, S) + (IF x \in S THEN 1 ELSE 0)
  <1> DEFINE t == Append(s, x)
             n == Len(s) + 1
  <1>1. Len(s) \in Nat /\ Len(t) = n /\ t[n] = x /\ \A i \in 1..Len(s) : t[i] = s[i]
    OBVIOUS
  <1>2. 1..n = 1..Len(s) \cup {n} /\ n \notin 1..Len(s)
    BY <1>1
  <1>3. IsFiniteSet(Marks(s, S)) /\ Count(s, S) \in Nat
    BY CountType
  <1> HIDE DEF t, n
  <1>4. CASE x \in S
    <2>1. Marks(t, S) = Marks(s, S) \cup {n} /\ n \notin Marks(s, S)
      BY <1>1, <1>2, <1>4 DEF Marks
    <2>2. Cardinality(Marks(s, S) \cup {n}) = Cardinality(Marks(s, S)) + 1
      BY <1>3, <2>1, FS_AddElement
    <2> QED BY <1>4, <2>1, <2>2 DEF Count, t
  <1>5. CASE x \notin S
    <2>1. Marks(t, S) = Marks(s, S)
      BY <1>1, <1>2, <1>5 DEF Marks
    <2> QED BY <1>3, <1>5, <2>1 DEF Count, t
  <1> QED BY <1>4, <1>5

LEMMA CountTail ==
  ASSUME NEW X, NEW s \in Seq(X), s # <<>>, NEW S
  PROVE  Count(s, S) = Count(Tail(s), S) + (IF s[1] \in S THEN 1 ELSE 0)
  <1> DEFINE t == Tail(s)
             M == Marks(t, S)
             N == {i \in 2..Len(s) : s[i] \in S}
             f == [i \in M |-> i + 1]
  <1>1. /\ t \in Seq(X) /\ Len(s) \in Nat /\ Len(s) > 0 /\ Len(t) = Len(s) - 1
        /\ \A i \in 1..Len(t) : t[i] = s[i + 1]
    OBVIOUS
  <1>2. IsFiniteSet(M) /\ IsFiniteSet(Marks(s, S)) /\ Count(t, S) \in Nat
    BY <1>1, CountType
  <1> HIDE DEF t
  <1>3. \A i \in M : i \in Nat /\ i + 1 \in N
    BY <1>1 DEF Marks
  <1>4. \A j \in N : j \in Nat /\ j - 1 \in M
    <2> SUFFICES ASSUME NEW j \in N PROVE j \in Nat /\ j - 1 \in M
      OBVIOUS
    <2>1. j \in 2..Len(s) /\ s[j] \in S /\ j - 1 \in 1..Len(t)
      BY <1>1
    <2>2. t[j - 1] = s[j]
      BY <1>1, <2>1
    <2> QED BY <2>1, <2>2 DEF Marks
  <1>5. f \in Bijection(M, N)
    <2>1. f \in [M -> N]
      BY <1>3
    <2>2. \A i, j \in M : f[i] = f[j] => i = j
      BY <1>3
    <2>3. \A j \in N : \E i \in M : f[i] = j
      <3> SUFFICES ASSUME NEW j \in N PROVE \E i \in M : f[i] = j
        OBVIOUS
      <3>1. j - 1 \in M /\ f[j - 1] = j
        BY <1>4
      <3> QED BY <3>1
    <2> HIDE DEF f, M, N
    <2> QED BY <2>1, <2>2, <2>3 DEF Bijection, Injection, Surjection, IsInjective
  <1>6. Cardinality(M) = Cardinality(N) /\ IsFiniteSet(N)
    <2>1. ExistsBijection(M, N)
      BY <1>5 DEF ExistsBijection
    <2> HIDE DEF M, N
    <2> QED BY <1>2, <2>1, FS_Bijection
  <1>7. CASE s[1] \in S
    <2>1. Marks(s, S) = N \cup {1} /\ 1 \notin N
      BY <1>1, <1>7 DEF Marks
    <2>2. Cardinality(N \cup {1}) = Cardinality(N) + 1
      BY <1>6, <2>1, FS_AddElement
    <2> QED BY <1>6, <1>7, <2>1, <2>2 DEF Count, t
  <1>8. CASE s[1] \notin S
    <2>1. Marks(s, S) = N
      BY <1>1, <1>8 DEF Marks
    <2> QED BY <1>2, <1>6, <1>8, <2>1 DEF Count, t
  <1> QED BY <1>7, <1>8

-----------------------------------------------------------------------------
(* What a step does to the two queues. *)

\* Message m is on its way to the backend besides.
Sends(m) ==
  /\ to' \in Seq(Messages)
  /\ \A k, u : Sent(k, u)' <=> Sent(k, u) \/ (m.t = k /\ m.uid = u)
  /\ Distinct /\ (m.t = "gen" => ~Sent("gen", m.uid)) => Distinct'

\* Message m has been taken.
Takes(m) ==
  /\ to' \in Seq(Messages) /\ m \in Messages /\ Sent(m.t, m.uid)
  /\ \A k, u : Sent(k, u)' => Sent(k, u)
  /\ \A k, u : Sent(k, u) => Sent(k, u)' \/ (m.t = k /\ m.uid = u)
  /\ Distinct => Distinct' /\ (m.t = "gen" => ~Sent("gen", m.uid)')

\* Reply m is on its way to the clients besides.
Answers(m) ==
  /\ from' \in Seq(Replies) /\ m \in Replies
  /\ Len(from) \in Nat /\ Len(from') = Len(from) + 1
  /\ \A i \in 1..Len(from) : from'[i] = from[i]
  /\ from'[Len(from) + 1] = m
  /\ \A S : Count(from, S) \in Nat /\ Count(from', S) = Count(from, S) + (IF m \in S THEN 1 ELSE 0)

\* The first reply, m, has been read.
Reads(m) ==
  /\ from' \in Seq(Replies) /\ m \in Replies
  /\ Len(from) \in Nat /\ Len(from) > 0 /\ Len(from') = Len(from) - 1 /\ from[1] = m
  /\ \A i \in 1..Len(from') : from'[i] = from[i + 1]
  /\ \A S : Count(from', S) \in Nat /\ Count(from, S) = Count(from', S) + (IF m \in S THEN 1 ELSE 0)

LEMMA AppendSends ==
  ASSUME Types, NEW m \in Messages, to' = Append(to, m)
  PROVE  Sends(m)
  <1> DEFINE n == Len(to) + 1
  <1>1. /\ to' \in Seq(Messages) /\ Len(to) \in Nat /\ Len(to') = n /\ to'[n] = m
        /\ \A i \in 1..Len(to) : to'[i] = to[i]
    BY DEF Types
  <1>2. 1..n = 1..Len(to) \cup {n} /\ n \notin 1..Len(to)
    BY <1>1
  <1> HIDE DEF n
  <1>3. ASSUME NEW k, NEW u
        PROVE  Sent(k, u)' <=> Sent(k, u) \/ (m.t = k /\ m.uid = u)
    <2>1. Sent(k, u)' <=> \E j \in 1..n : to'[j].t = k /\ to'[j].uid = u
      BY <1>1 DEF Sent
    <2>2. (\E j \in 1..n : to'[j].t = k /\ to'[j].uid = u)
            <=> (\E j \in 1..Len(to) : to'[j].t = k /\ to'[j].uid = u) \/ (m.t = k /\ m.uid = u)
      BY <1>1, <1>2, Zenon
    <2>3. (\E j \in 1..Len(to) : to'[j].t = k /\ to'[j].uid = u) <=> Sent(k, u)
      BY <1>1 DEF Sent
    <2> QED BY <2>1, <2>2, <2>3
  <1>4. ASSUME Distinct, m.t = "gen" => ~Sent("gen", m.uid)
        PROVE  Distinct'
    <2> SUFFICES ASSUME NEW j \in 1..n, NEW k \in 1..n,
                        to'[j].t = "gen", to'[k].t = "gen", to'[j].uid = to'[k].uid
                 PROVE  j = k
      BY <1>1 DEF Distinct
    <2>1. CASE j # n /\ k # n
      <3>1. j \in 1..Len(to) /\ k \in 1..Len(to)
        BY <1>2, <2>1
      <3>2. to'[j] = to[j] /\ to'[k] = to[k]
        BY <1>1, <3>1
      <3> QED BY <1>4, <3>1, <3>2 DEF Distinct
    <2>2. CASE j = n /\ k # n
      <3>1. k \in 1..Len(to) /\ to[k].t = "gen" /\ to[k].uid = m.uid /\ m.t = "gen"
        BY <1>1, <1>2, <2>2
      <3> QED BY <1>4, <3>1 DEF Sent
    <2>3. CASE k = n /\ j # n
      <3>1. j \in 1..Len(to) /\ to[j].t = "gen" /\ to[j].uid = m.uid /\ m.t = "gen"
        BY <1>1, <1>2, <2>3
      <3> QED BY <1>4, <3>1 DEF Sent
    <2> QED BY <2>1, <2>2, <2>3
  <1> QED BY <1>1, <1>3, <1>4 DEF Sends

\* RemoveAt leaves the others in their order.
LEMMA Removed ==
  ASSUME NEW X, NEW s \in Seq(X), NEW i \in 1..Len(s)
  PROVE  /\ RemoveAt(s, i) \in Seq(X) /\ Len(RemoveAt(s, i)) = Len(s) - 1
         /\ \A j \in 1..(Len(s) - 1) : RemoveAt(s, i)[j] = IF j < i THEN s[j] ELSE s[j + 1]
  <1> DEFINE a == SubSeq(s, 1, i - 1)
             b == SubSeq(s, i + 1, Len(s))
  <1>1. Len(s) \in Nat /\ i \in Nat /\ 1 <= i /\ i <= Len(s)
    OBVIOUS
  <1>2. a \in Seq(X) /\ Len(a) = i - 1 /\ \A j \in 1..(i - 1) : a[j] = s[j]
    BY <1>1
  <1>3. b \in Seq(X) /\ Len(b) = Len(s) - i /\ \A j \in 1..(Len(s) - i) : b[j] = s[j + i]
    BY <1>1
  <1> HIDE DEF a, b
  <1>4. a \o b \in Seq(X) /\ Len(a \o b) = Len(s) - 1
    <2>1. a \in Seq(X) /\ b \in Seq(X) /\ Len(a) = i - 1 /\ Len(b) = Len(s) - i
      BY <1>2, <1>3
    <2>2. a \o b \in Seq(X) /\ Len(a \o b) = Len(a) + Len(b)
      BY <2>1
    <2> QED BY <1>1, <2>1, <2>2
  <1>5. ASSUME NEW j \in 1..(Len(s) - 1)
        PROVE  (a \o b)[j] = IF j < i THEN s[j] ELSE s[j + 1]
    <2>1. CASE j < i
      BY <1>1, <1>2, <1>3, <2>1
    <2>2. CASE ~(j < i)
      <3>1. j - Len(a) \in 1..(Len(s) - i) /\ (j - Len(a)) + i = j + 1
        BY <1>1, <1>2, <2>2
      <3>2. (a \o b)[j] = b[j - Len(a)]
        BY <1>1, <1>2, <1>3, <2>2
      <3> QED BY <1>3, <2>2, <3>1, <3>2
    <2> QED BY <2>1, <2>2
  <1> QED BY <1>4, <1>5 DEF RemoveAt, a, b

LEMMA RemoveTakes ==
  ASSUME Types, NEW i \in 1..Len(to), NEW m, m = to[i], to' = RemoveAt(to, i)
  PROVE  Takes(m)
  <1> DEFINE n == Len(to)
  <1>0. n \in Nat /\ i \in 1..n /\ m \in Messages /\ to \in Seq(Messages)
    BY DEF Types
  <1>1. /\ to' \in Seq(Messages) /\ Len(to') = n - 1
        /\ \A j \in 1..(n - 1) : to'[j] = IF j < i THEN to[j] ELSE to[j + 1]
    BY <1>0, Removed
  <1>2. \A j \in 1..(n - 1) : \E l \in 1..n \ {i} :
           to'[j] = to[l] /\ l = IF j < i THEN j ELSE j + 1
    <2> SUFFICES ASSUME NEW j \in 1..(n - 1)
                 PROVE  \E l \in 1..n \ {i} : to'[j] = to[l] /\ l = IF j < i THEN j ELSE j + 1
      OBVIOUS
    <2> DEFINE l == IF j < i THEN j ELSE j + 1
    <2>1. l \in 1..n \ {i}
      BY <1>0
    <2>2. to'[j] = to[l]
      BY <1>1
    <2> QED BY <2>1, <2>2
  <1>3. \A l \in 1..n \ {i} : \E j \in 1..(n - 1) : to'[j] = to[l]
    <2> SUFFICES ASSUME NEW l \in 1..n \ {i} PROVE \E j \in 1..(n - 1) : to'[j] = to[l]
      OBVIOUS
    <2>1. CASE l < i
      <3>1. l \in 1..(n - 1) /\ to'[l] = to[l]
        BY <1>0, <1>1, <2>1
      <3> QED BY <3>1
    <2>2. CASE ~(l < i)
      <3>1. l - 1 \in 1..(n - 1) /\ ~(l - 1 < i) /\ (l - 1) + 1 = l
        BY <1>0, <2>2
      <3>2. to'[l - 1] = to[l]
        BY <1>1, <3>1
      <3> QED BY <3>1, <3>2
    <2> QED BY <2>1, <2>2
  <1>4. Len(to') = n - 1 /\ to[i] = m /\ to' \in Seq(Messages)
    BY <1>1
  <1>5. ASSUME NEW k, NEW u PROVE Sent(k, u)' <=> \E j \in 1..(n - 1) : to'[j].t = k /\ to'[j].uid = u
    BY <1>4 DEF Sent
  <1>6. ASSUME NEW k, NEW u PROVE Sent(k, u) <=> \E l \in 1..n : to[l].t = k /\ to[l].uid = u
    BY DEF Sent
  <1> HIDE DEF n
  <1>7. ASSUME NEW k, NEW u, Sent(k, u)' PROVE Sent(k, u)
    BY <1>2, <1>5, <1>6, <1>7
  <1>8. ASSUME NEW k, NEW u, Sent(k, u) PROVE Sent(k, u)' \/ (m.t = k /\ m.uid = u)
    <2>1. PICK l \in 1..n : to[l].t = k /\ to[l].uid = u
      BY <1>6, <1>8
    <2>2. CASE l = i
      BY <1>4, <2>1, <2>2
    <2>3. CASE l # i
      BY <1>3, <1>5, <2>1, <2>3
    <2> QED BY <2>2, <2>3
  <1>9. ASSUME Distinct PROVE Distinct' /\ (m.t = "gen" => ~Sent("gen", m.uid)')
    <2>1. \A j, k \in 1..n : to[j].t = "gen" /\ to[k].t = "gen" /\ to[j].uid = to[k].uid => j = k
      BY <1>9 DEF Distinct, n
    <2>2. ASSUME NEW j \in 1..(n - 1), NEW k \in 1..(n - 1),
                 to'[j].t = "gen", to'[k].t = "gen", to'[j].uid = to'[k].uid
          PROVE  j = k
      <3>1. (IF j < i THEN j ELSE j + 1) = (IF k < i THEN k ELSE k + 1)
        BY <1>2, <2>1, <2>2
      <3> QED BY <1>0, <3>1
    <2>3. ASSUME m.t = "gen", Sent("gen", m.uid)' PROVE FALSE
      <3>1. PICK j \in 1..(n - 1) : to'[j].t = "gen" /\ to'[j].uid = m.uid
        BY <1>5, <2>3
      <3>2. PICK l \in 1..n \ {i} : to'[j] = to[l]
        BY <1>2
      <3> QED BY <1>0, <1>4, <2>1, <2>3, <3>1, <3>2
    <2> QED BY <1>4, <2>2, <2>3 DEF Distinct
  <1>10. m \in Messages /\ Sent(m.t, m.uid)
    BY <1>0, <1>4, <1>6
  <1> QED BY <1>4, <1>7, <1>8, <1>9, <1>10 DEF Takes

LEMMA AppendAnswers ==
  ASSUME Types, NEW m \in Replies, from' = Append(from, m)
  PROVE  Answers(m)
  <1>1. from \in Seq(Replies)
    BY DEF Types
  <1>2. \A S : Count(from, S) \in Nat /\ Count(Append(from, m), S) = Count(from, S) + (IF m \in S THEN 1 ELSE 0)
    BY <1>1, CountType, CountAppend
  <1>3. /\ from' \in Seq(Replies) /\ Len(from) \in Nat /\ Len(from') = Len(from) + 1
        /\ \A i \in 1..Len(from) : from'[i] = from[i]
        /\ from'[Len(from) + 1] = m
    BY <1>1
  <1> QED BY <1>2, <1>3 DEF Answers

LEMMA TailReads ==
  ASSUME Types, from # <<>>, from' = Tail(from), NEW m, m = Head(from)
  PROVE  Reads(m)
  <1>1. from \in Seq(Replies)
    BY DEF Types
  <1>2. /\ from' \in Seq(Replies) /\ Len(from) \in Nat /\ Len(from) > 0
        /\ Len(from') = Len(from) - 1 /\ m \in Replies /\ from[1] = m
        /\ \A i \in 1..Len(from') : from'[i] = from[i + 1]
    BY <1>1
  <1>3. \A S : /\ Count(from', S) \in Nat
               /\ Count(from, S) = Count(Tail(from), S) + (IF m \in S THEN 1 ELSE 0)
    <2>1. \A S : Count(from, S) = Count(Tail(from), S) + (IF m \in S THEN 1 ELSE 0)
      BY <1>1, <1>2, CountTail
    <2>2. \A S : Count(from', S) \in Nat
      BY <1>2, CountType
    <2> QED BY <2>1, <2>2
  <1> QED BY <1>2, <1>3 DEF Reads

-----------------------------------------------------------------------------
(* Steps that are not about a request: of the gate, the stop, a rebuild,   *)
(* the supervisor, the shutdown.                                           *)

\* No reply of a request is new.
Passed ==
  \E d \in {0, 1} : \A i \in 1..Len(from') :
    from'[i].t = "rebuilt" \/ (i + d \in 1..Len(from) /\ from'[i] = from[i + d])

NoRequestMoves ==
  /\ to' \in Seq(Messages) /\ from' \in Seq(Replies) /\ Passed
  /\ \A k \in {"gen", "abort"} : \A u : Sent(k, u)' <=> Sent(k, u)
  /\ Distinct => Distinct'
  /\ \A S : (\A m \in S : m.t # "rebuilt") => Count(from', S) = Count(from, S)

Bystander ==
  /\ UNCHANGED <<engineVars, client, batch, got, statsVars, ack, sleeping>>
  /\ todo' \subseteq todo \cup inflight /\ rebuilds' \in Nat
  /\ NoRequestMoves

LEMMA ToStays ==
  ASSUME Types, UNCHANGED to
  PROVE  /\ to' \in Seq(Messages) /\ \A k, u : Sent(k, u)' <=> Sent(k, u)
         /\ Distinct => Distinct'
  BY DEF Types, Sent, Distinct

LEMMA FromStays ==
  ASSUME Types, UNCHANGED from
  PROVE  /\ from' \in Seq(Replies) /\ Passed
         /\ \A S : Count(from', S) = Count(from, S)
  <1>1. Len(from) \in Nat /\ from' \in Seq(Replies)
    BY DEF Types
  <1>2. \A i \in 1..Len(from') : i + 0 \in 1..Len(from) /\ from'[i] = from[i + 0]
    BY <1>1
  <1> QED BY <1>1, <1>2 DEF Passed

LEMMA ReadsPasses ==
  ASSUME NEW m, Reads(m)
  PROVE  Passed
  <1>1. \A i \in 1..Len(from') : i + 1 \in 1..Len(from) /\ from'[i] = from[i + 1]
    BY DEF Reads
  <1> QED BY <1>1 DEF Passed

\* What is on its way was on its way, in the same order.
LEMMA PassedReplies ==
  ASSUME Passed, Len(from) \in Nat, Len(from') \in Nat
  PROVE  /\ \A i \in 1..Len(from') : from'[i].t \in Kinds => \E k \in 1..Len(from) : from'[i] = from[k]
         /\ \A i, j \in 1..Len(from') : i < j /\ from'[i].t \in Kinds /\ from'[j].t \in Kinds =>
              \E k, l \in 1..Len(from) : k < l /\ from'[i] = from[k] /\ from'[j] = from[l]
  <1>1. PICK d \in {0, 1} : \A i \in 1..Len(from') :
          from'[i].t = "rebuilt" \/ (i + d \in 1..Len(from) /\ from'[i] = from[i + d])
    BY DEF Passed
  <1>2. "rebuilt" \notin Kinds
    BY DEF Kinds, Counted, Terminal
  <1>3. ASSUME NEW i \in 1..Len(from'), NEW j \in 1..Len(from'), i < j,
               from'[i].t \in Kinds, from'[j].t \in Kinds
        PROVE  \E k, l \in 1..Len(from) : k < l /\ from'[i] = from[k] /\ from'[j] = from[l]
    <2>1. i + d \in 1..Len(from) /\ j + d \in 1..Len(from) /\ i + d < j + d
      BY <1>1, <1>2, <1>3
    <2>2. from'[i] = from[i + d] /\ from'[j] = from[j + d]
      BY <1>1, <1>2, <1>3
    <2> QED BY <2>1, <2>2
  <1>4. ASSUME NEW i \in 1..Len(from'), from'[i].t \in Kinds
        PROVE  \E k \in 1..Len(from) : from'[i] = from[k]
    BY <1>1, <1>2, <1>4
  <1> QED BY <1>3, <1>4

\* A step that leaves both queues alone.
LEMMA QueuesStay ==
  ASSUME Types, UNCHANGED <<to, from>>
  PROVE  NoRequestMoves
  BY ToStays, FromStays DEF NoRequestMoves

LEMMA Bystanders ==
  ASSUME Types,
         \/ StoreGate \/ PrepareStop \/ Seal \/ DrainTimeout \/ SettleTimeout
         \/ Rebuild \/ RebuildSent \/ RebuildNotSent \/ RebuildAnswered \/ RebuildTimeout
         \/ ResolveRebuild \/ ResolveAll \/ Supervisor
         \/ Sigterm \/ GroupSignal \/ ExitTimer \/ ShutdownFlag \/ ShutdownKill \/ Loaded \/ Crash
         \/ UNCHANGED vars
  PROVE  Bystander
  <1> USE DEF gateVars, threadVars, lifeVars, engineVars, clientVars, statsVars, stopVars, rebuildVars, vars
  <1>0. rebuilds \in Nat /\ todo \subseteq todo \cup inflight
    BY DEF Types
  <1>1. CASE UNCHANGED <<to, from, todo, rebuilds>>
    <2>1. NoRequestMoves
      BY <1>1, QueuesStay
    <2>2. UNCHANGED <<engineVars, client, batch, got, statsVars, ack, sleeping>>
      BY <1>1 DEF StoreGate, PrepareStop, Seal, DrainTimeout, SettleTimeout, Rebuild, RebuildSent, RebuildNotSent,
           RebuildAnswered, RebuildTimeout, ResolveRebuild, ResolveAll, Supervisor, SupervisorReady,
           SupervisorOpens, SupervisorSeesDeath, SupervisorDecides, SupervisorLatches,
           Sigterm, GroupSignal, ExitTimer, ShutdownFlag, ShutdownKill, Loaded, Crash
    <2> QED BY <1>0, <1>1, <2>1, <2>2 DEF Bystander
  <1>2. CASE DrainTimeout
    <2>1. NoRequestMoves
      BY <1>2, QueuesStay DEF DrainTimeout
    <2> QED BY <1>0, <1>2, <2>1 DEF DrainTimeout, Bystander
  <1>3. CASE Rebuild
    <2>1. NoRequestMoves
      BY <1>3, QueuesStay DEF Rebuild
    <2> QED BY <1>0, <1>3, <2>1 DEF Rebuild, Bystander
  <1>4. CASE RebuildSent
    <2>1. PICK m : m = [t |-> "rebuild", uid |-> rebuilds]
      OBVIOUS
    <2>2. m \in Messages /\ m.t = "rebuild"
      BY <1>0, <2>1 DEF Messages
    <2>3. to' = Append(to, m) /\ UNCHANGED <<from, todo, rebuilds>>
      BY <1>4, <2>1 DEF RebuildSent
    <2>4. Sends(m)
      BY <2>2, <2>3, AppendSends
    <2>5. /\ to' \in Seq(Messages) /\ (Distinct => Distinct')
          /\ \A k \in {"gen", "abort"} : \A u : Sent(k, u)' <=> Sent(k, u)
      BY <2>2, <2>4 DEF Sends
    <2>6. from' \in Seq(Replies) /\ Passed /\ \A S : Count(from', S) = Count(from, S)
      BY <2>3, FromStays
    <2>7. NoRequestMoves
      BY <2>5, <2>6 DEF NoRequestMoves
    <2> QED BY <1>0, <1>4, <2>7 DEF RebuildSent, Bystander
  <1>5. CASE ResolveRebuild
    <2>1. PICK m : m = Head(from)
      OBVIOUS
    <2>2. Reads(m) /\ m.t = "rebuilt"
      BY <1>5, <2>1, TailReads DEF ResolveRebuild
    <2>3. from' \in Seq(Replies) /\ Passed
      BY <2>2, ReadsPasses DEF Reads
    <2>4. ASSUME NEW S, \A n \in S : n.t # "rebuilt" PROVE Count(from', S) = Count(from, S)
      BY <2>2, <2>4 DEF Reads
    <2>5. to' \in Seq(Messages) /\ (\A k, u : Sent(k, u)' <=> Sent(k, u)) /\ (Distinct => Distinct')
      BY <1>5, ToStays DEF ResolveRebuild
    <2>6. NoRequestMoves
      BY <2>3, <2>4, <2>5 DEF NoRequestMoves
    <2> QED BY <1>0, <1>5, <2>6 DEF ResolveRebuild, Bystander
  <1> QED
    BY <1>1, <1>2, <1>3, <1>4, <1>5
    DEF StoreGate, PrepareStop, Seal, SettleTimeout, RebuildNotSent, RebuildAnswered, RebuildTimeout,
        ResolveAll, Supervisor, SupervisorReady, SupervisorOpens, SupervisorSeesDeath,
        SupervisorDecides, SupervisorLatches, Sigterm, GroupSignal, ExitTimer, ShutdownFlag, ShutdownKill, Loaded, Crash

\* The backend answers a rebuild.
TakesRebuild(i) ==
  /\ i \in 1..Len(to) /\ to[i].t = "rebuild" /\ to' = RemoveAt(to, i)
  /\ \E ok \in BOOLEAN : TakeRebuild(to[i].uid, ok)
  /\ UNCHANGED <<gateVars, threadVars, lifeVars, work, clientVars, statsVars, stopVars, rebuildVars, ack, sleeping>>

LEMMA RebuildTaken ==
  ASSUME Types, NEW i, TakesRebuild(i)
  PROVE  Bystander
  <1>0. PICK m : m = to[i]
    OBVIOUS
  <1>1. PICK ok \in BOOLEAN : m = to[i] /\ TakeRebuild(m.uid, ok)
    BY <1>0 DEF TakesRebuild, TakeRebuild
  <1>2. Takes(m) /\ m.t = "rebuild"
    BY <1>1, RemoveTakes DEF TakesRebuild
  <1>3. PICK a : a = [t |-> "rebuilt", uid |-> m.uid, ok |-> ok]
    OBVIOUS
  <1>4. m.uid \in Nat
    BY <1>2 DEF Takes, Messages
  <1>5. a \in Replies /\ a.t = "rebuilt"
    BY <1>3, <1>4 DEF Replies
  <1>6. Answers(a)
    BY <1>1, <1>3, <1>5, AppendAnswers DEF TakeRebuild
  <1>7. Passed
    <2>1. \A j \in 1..Len(from') : from'[j].t = "rebuilt" \/ (j + 0 \in 1..Len(from) /\ from'[j] = from[j + 0])
      BY <1>5, <1>6 DEF Answers
    <2> QED BY <2>1 DEF Passed
  <1>8. ASSUME NEW S, \A n \in S : n.t # "rebuilt" PROVE Count(from', S) = Count(from, S)
    BY <1>5, <1>6, <1>8 DEF Answers
  <1>9. /\ to' \in Seq(Messages) /\ from' \in Seq(Replies) /\ (Distinct => Distinct')
        /\ \A k \in {"gen", "abort"} : \A u : Sent(k, u)' <=> Sent(k, u)
    BY <1>2, <1>6 DEF Takes, Answers
  <1>10. NoRequestMoves
    BY <1>7, <1>8, <1>9 DEF NoRequestMoves
  <1>11. /\ UNCHANGED <<engineVars, client, batch, got, statsVars, ack, sleeping>>
         /\ todo' = todo /\ rebuilds' = rebuilds
    BY <1>1 DEF TakesRebuild, TakeRebuild, clientVars, stopVars, rebuildVars, engineVars, statsVars
  <1> QED BY <1>10, <1>11 DEF Bystander, Types

-----------------------------------------------------------------------------
(* Every step keeps BackInv. *)

LEMMA Lengths ==
  ASSUME Types
  PROVE  Len(from) \in Nat /\ Len(to) \in Nat
  BY DEF Types

LEMMA RequestReplies ==
  ASSUME Types
  PROVE  /\ \A i \in 1..Len(from) : from[i] \in Replies
         /\ \A m \in Replies : m.t \in Kinds => m.uid \in Uids
         /\ Counted \subseteq Kinds /\ Terminal \subseteq Kinds /\ "rebuilt" \notin Kinds
  <1>1. Counted \subseteq Kinds /\ Terminal \subseteq Kinds /\ "rebuilt" \notin Kinds
    BY DEF Kinds, Counted, Terminal
  <1>2. \A m \in Replies : m.t \in Kinds => m.uid \in Uids
    BY <1>1 DEF Replies
  <1> QED BY <1>1, <1>2 DEF Types

\* A step after which nothing of u is new.
LEMMA SilentStays ==
  ASSUME Types, Types', Passed, NEW u, Silent(u), eng'[u] = "out",
         \A k \in {"gen", "abort"} : Sent(k, u)' => Sent(k, u)
  PROVE  Silent(u)'
  <1>1. \A i \in 1..Len(from') : from'[i].t \in Kinds => \E k \in 1..Len(from) : from'[i] = from[k]
    BY Lengths, PassedReplies DEF Types
  <1>2. \A i \in 1..Len(from') : from'[i].t \in Kinds => from'[i].uid # u
    BY <1>1 DEF Silent
  <1> QED BY <1>2 DEF Silent

LEMMA OrderPassed ==
  ASSUME Types, Types', RepliesInOrder, Passed,
         \A u \in Uids : Over(u) => Over(u)',
         \A i \in 1..Len(from') : from'[i].t \in Counted => from'[i].uid \in inflight'
  PROVE  RepliesInOrder'
  <1>1. /\ \A i \in 1..Len(from') : from'[i].t \in Kinds => \E k \in 1..Len(from) : from'[i] = from[k]
        /\ \A i, j \in 1..Len(from') : i < j /\ from'[i].t \in Kinds /\ from'[j].t \in Kinds =>
             \E k, l \in 1..Len(from) : k < l /\ from'[i] = from[k] /\ from'[j] = from[l]
    BY Lengths, PassedReplies DEF Types
  <1>2. ASSUME NEW i \in 1..Len(from'), NEW u \in Uids, from'[i].t \in Terminal, from'[i].uid = u
        PROVE  Over(u)'
    <2>1. PICK k \in 1..Len(from) : from'[i] = from[k]
      BY <1>1, <1>2, RequestReplies
    <2>2. Over(u)
      BY <1>2, <2>1 DEF RepliesInOrder
    <2> QED BY <2>2
  <1>3. ASSUME NEW i \in 1..Len(from'), NEW j \in 1..Len(from'),
               i < j, from'[i].t \in Terminal, from'[i].uid = from'[j].uid, from'[j].t \in Counted
        PROVE  FALSE
    <2>1. from'[i].t \in Kinds /\ from'[j].t \in Kinds
      BY <1>3, RequestReplies
    <2>2. PICK k \in 1..Len(from), l \in 1..Len(from) :
            k < l /\ from'[i] = from[k] /\ from'[j] = from[l]
      BY <1>1, <1>3, <2>1
    <2> QED BY <1>3, <2>2 DEF RepliesInOrder
  <1> QED BY <1>2, <1>3 DEF RepliesInOrder

LEMMA OrderAnswered ==
  ASSUME Types, Types', RepliesInOrder, NEW m, Answers(m), m.t \in Kinds,
         \A u \in Uids : Over(u) => Over(u)',
         inflight' = inflight,
         m.t \in Counted => /\ m.uid \in inflight
                            /\ \A i \in 1..Len(from) : from[i].uid = m.uid => from[i].t \notin Terminal,
         \A u \in Uids : m.t \in Terminal /\ m.uid = u => Over(u)'
  PROVE  RepliesInOrder'
  <1>1. /\ Len(from) \in Nat /\ Len(from') = Len(from) + 1 /\ from'[Len(from) + 1] = m
        /\ \A i \in 1..Len(from) : from'[i] = from[i]
    BY DEF Answers
  <1>2. \A i \in 1..Len(from') : i \in 1..Len(from) \/ (i = Len(from) + 1 /\ from'[i] = m)
    BY <1>1
  <1>3. ASSUME NEW i \in 1..Len(from'), from'[i].t \in Counted
        PROVE  from'[i].uid \in inflight'
    BY <1>1, <1>2, <1>3 DEF RepliesInOrder
  <1>4. ASSUME NEW i \in 1..Len(from'), NEW u \in Uids, from'[i].t \in Terminal, from'[i].uid = u
        PROVE  Over(u)'
    <2>1. CASE i \in 1..Len(from)
      <3>1. Over(u)
        BY <1>1, <1>4, <2>1 DEF RepliesInOrder
      <3> QED BY <3>1
    <2>2. CASE from'[i] = m
      BY <1>4, <2>2
    <2> QED BY <1>2, <2>1, <2>2
  <1>5. ASSUME NEW i \in 1..Len(from'), NEW j \in 1..Len(from'),
               i < j, from'[i].t \in Terminal, from'[i].uid = from'[j].uid, from'[j].t \in Counted
        PROVE  FALSE
    <2>1. i \in 1..Len(from) /\ from'[i] = from[i]
      BY <1>1, <1>5
    <2>2. CASE j \in 1..Len(from)
      BY <1>1, <1>5, <2>1, <2>2 DEF RepliesInOrder
    <2>3. CASE from'[j] = m
      BY <1>5, <2>1, <2>3
    <2> QED BY <1>2, <2>2, <2>3
  <1> QED BY <1>3, <1>4, <1>5 DEF RepliesInOrder

LEMMA BystanderKeeps ==
  ASSUME BackInv, Bystander
  PROVE  /\ BackInv' /\ \A u \in Uids : (Over(u) => Over(u)') /\ (Silent(u) => Silent(u)')
  <1>0. UNCHANGED <<eng, tomb, work, client, batch, got, inflight, total, ack, sleeping>>
    BY DEF Bystander, engineVars, statsVars
  <1>1. Types /\ NoRequestMoves
    BY DEF BackInv, Bystander
  <1>2. Types'
    BY <1>0, <1>1 DEF Types, Bystander, NoRequestMoves, Mapped
  <1>3. \A u \in Uids : Over(u) => Over(u)'
    BY <1>0, <1>1 DEF Over, NoRequestMoves
  <1>4. \A u \in Uids : Silent(u) => Silent(u)'
    BY <1>0, <1>1, <1>2, SilentStays DEF NoRequestMoves, Silent
  <1>5. SentOnce'
    BY <1>0, <1>1 DEF BackInv, SentOnce, NoRequestMoves
  <1>6. RepliesInOrder'
    <2>1. \A i \in 1..Len(from') : from'[i].t \in Counted => from'[i].uid \in inflight'
      <3>1. \A i \in 1..Len(from') : from'[i].t \in Kinds => \E k \in 1..Len(from) : from'[i] = from[k]
        BY <1>1, <1>2, Lengths, PassedReplies DEF Types, NoRequestMoves
      <3> QED BY <1>0, <1>1, <3>1, RequestReplies DEF BackInv, RepliesInOrder
    <2> QED BY <1>1, <1>2, <1>3, <2>1, OrderPassed DEF BackInv, NoRequestMoves
  <1>7. IdleIsOver'
    BY <1>0, <1>3 DEF BackInv, IdleIsOver
  <1>8. \A u \in Uids : Fresh(u)'
    <2> SUFFICES ASSUME NEW u \in Uids, client[u] = "none"
                 PROVE  /\ Silent(u)' /\ work[u] = 0 /\ got[u] = 0 /\ batch[u] = <<>>
                        /\ u \notin (Mapped \cup inflight \cup sleeping \cup todo)'
      BY <1>0 DEF Fresh
    <2>1. /\ Silent(u) /\ work[u] = 0 /\ got[u] = 0 /\ batch[u] = <<>>
          /\ u \notin Mapped \cup inflight \cup sleeping \cup todo
      BY DEF BackInv, Fresh
    <2> QED BY <1>0, <1>4, <2>1 DEF Bystander, Mapped
  <1> QED BY <1>2, <1>3, <1>4, <1>5, <1>6, <1>7, <1>8 DEF BackInv

\* Only u changes, at the front end.
Elsewhere(u) ==
  \A v \in Uids \ {u} :
    /\ client'[v] = client[v] /\ batch'[v] = batch[v] /\ got'[v] = got[v]
    /\ v \in Mapped' <=> v \in Mapped
    /\ v \in Mapped => ack'[v] = ack[v]

LEMMA AckWithout ==
  ASSUME Types, NEW u \in Uids, ack' = Without(u)
  PROVE  /\ Mapped' = Mapped \ {u} /\ Mapped' \subseteq Uids /\ ack' \in [Mapped' -> Seq(Kinds)]
         /\ \A v \in Mapped \ {u} : ack'[v] = ack[v]
  BY DEF Types, Without, Mapped

\* A step of the handler of u.
Handles(u) ==
  /\ client[u] # "none" /\ client'[u] # "none" /\ Elsewhere(u)
  /\ sleeping' \subseteq sleeping \cup {u}
  /\ UNCHANGED <<to, from, eng, tomb, work, inflight, total, todo, rebuilds>>
  /\ client' \in [Uids -> Stations] /\ batch' \in [Uids -> Seq(Kinds)] /\ got' \in [Uids -> Nat]
  /\ Mapped' \subseteq Uids /\ ack' \in [Mapped' -> Seq(Kinds)]
  /\ client'[u] = "yield" => batch'[u] # <<>>
  /\ client'[u] = "waiting" => batch'[u] = <<>>

LEMMA HandlerKeeps ==
  ASSUME BackInv, NEW u \in Uids, Handles(u)
  PROVE  /\ BackInv' /\ \A v \in Uids : (Over(v) <=> Over(v)') /\ (Silent(v) <=> Silent(v)')
  <1>1. Types /\ UNCHANGED <<to, from, eng, tomb, work, inflight, total, todo, rebuilds>>
    BY DEF BackInv, Handles
  <1>2. Types'
    <2>1. /\ sleeping' \subseteq Uids
          /\ \A v \in Uids : /\ client'[v] = "yield" => batch'[v] # <<>>
                             /\ client'[v] = "waiting" => batch'[v] = <<>>
      BY <1>1 DEF Handles, Types, Elsewhere
    <2>2. /\ client' \in [Uids -> Stations] /\ batch' \in [Uids -> Seq(Kinds)] /\ got' \in [Uids -> Nat]
          /\ Mapped' \subseteq Uids /\ ack' \in [Mapped' -> Seq(Kinds)]
      BY DEF Handles
    <2>3. /\ to' \in Seq(Messages) /\ from' \in Seq(Replies)
          /\ eng' \in [Uids -> {"out", "queued", "decode"}] /\ tomb' \subseteq Uids
          /\ work' \in [Uids -> Nat] /\ total' \in Nat
          /\ inflight' \subseteq Uids /\ todo' \subseteq Uids /\ rebuilds' \in Nat
      BY <1>1 DEF Types
    <2> QED BY <2>1, <2>2, <2>3 DEF Types
  <1>3. \A v \in Uids : (Over(v) <=> Over(v)') /\ (Silent(v) <=> Silent(v)')
    BY <1>1 DEF Over, Silent, Sent
  <1>4. SentOnce' /\ RepliesInOrder' /\ IdleIsOver'
    BY <1>1 DEF BackInv, SentOnce, Distinct, Sent, RepliesInOrder, IdleIsOver, Over
  <1>5. \A v \in Uids : Fresh(v)'
    <2> SUFFICES ASSUME NEW v \in Uids, client'[v] = "none" PROVE Fresh(v)'
      BY DEF Fresh
    <2>1. v # u /\ client[v] = "none"
      BY DEF Handles, Elsewhere
    <2>2. /\ Silent(v) /\ work[v] = 0 /\ got[v] = 0 /\ batch[v] = <<>>
          /\ v \notin Mapped \cup inflight \cup sleeping \cup todo
      BY <2>1 DEF BackInv, Fresh
    <2>3. Silent(v)'
      BY <1>3, <2>2
    <2> QED BY <1>1, <2>1, <2>2, <2>3 DEF Fresh, Handles, Elsewhere
  <1> QED BY <1>2, <1>3, <1>4, <1>5 DEF BackInv

LEMMA OneLeft ==
  ASSUME NEW X, NEW s \in Seq(X), s # <<>>
  PROVE  Tail(s) = <<>> <=> Len(s) = 1
  <1>1. Tail(s) \in Seq(X) /\ Len(Tail(s)) = Len(s) - 1 /\ Len(s) \in Nat
    OBVIOUS
  <1> DEFINE t == Tail(s)
  <1>2. t \in Seq(X) /\ Len(t) = Len(s) - 1
    BY <1>1
  <1> HIDE DEF t
  <1>3. t = <<>> <=> Len(t) = 0
    BY <1>2, EmptySeq
  <1> QED BY <1>1, <1>2, <1>3 DEF t

\* What wait_for_ack, the stream and its end do is a step of the handler.
LEMMA Handlers ==
  ASSUME BackInv, NEW u \in Uids, Wake(u) \/ Yield(u) \/ Disconnect(u) \/ CloseGenerator(u)
  PROVE  Handles(u)
  <1> USE DEF gateVars, threadVars, lifeVars, engineVars, clientVars, statsVars, stopVars, rebuildVars
  <1>0. /\ Types /\ client \in [Uids -> Stations] /\ batch \in [Uids -> Seq(Kinds)] /\ got \in [Uids -> Nat]
        /\ Mapped \subseteq Uids /\ ack \in [Mapped -> Seq(Kinds)]
        /\ client[u] = "yield" => batch[u] # <<>>
        /\ client[u] = "waiting" => batch[u] = <<>>
    BY DEF BackInv, Types
  <1>1. CASE Wake(u)
    <2>1. /\ client[u] = "waiting" /\ batch[u] = <<>>
          /\ UNCHANGED <<to, from, eng, tomb, work, inflight, total, todo, rebuilds, sleeping, got>>
      BY <1>0, <1>1 DEF Wake
    <2>2. CASE u \in Mapped
      <3>1. /\ batch' = [batch EXCEPT ![u] = ack[u]] /\ ack' = [ack EXCEPT ![u] = <<>>]
            /\ client' = [client EXCEPT ![u] = IF ack[u] = <<>> THEN "waiting" ELSE "yield"]
        BY <1>1, <2>2 DEF Wake
      <3>2. ack[u] \in Seq(Kinds)
        BY <1>0, <2>2
      <3>3. Mapped' = Mapped /\ ack' \in [Mapped -> Seq(Kinds)]
        BY <1>0, <2>2, <3>1 DEF Mapped
      <3>4. /\ batch' \in [Uids -> Seq(Kinds)] /\ client' \in [Uids -> Stations]
            /\ client'[u] # "none" /\ (client'[u] = "yield" => batch'[u] # <<>>)
            /\ client'[u] = "waiting" => batch'[u] = <<>>
        BY <1>0, <3>1, <3>2 DEF Stations
      <3>5. Elsewhere(u)
        BY <1>0, <2>1, <3>1, <3>3 DEF Elsewhere
      <3> QED BY <1>0, <2>1, <3>3, <3>4, <3>5 DEF Handles
    <2>3. CASE u \notin Mapped
      <3>1. client' = [client EXCEPT ![u] = "error"] /\ UNCHANGED <<batch, ack>>
        BY <1>1, <2>3 DEF Wake
      <3>2. Elsewhere(u) /\ Mapped' = Mapped
        BY <1>0, <2>1, <3>1 DEF Elsewhere, Mapped
      <3> QED BY <1>0, <2>1, <3>1, <3>2 DEF Handles, Stations
    <2> QED BY <2>2, <2>3
  <1>2. CASE Yield(u)
    <2>1. PICK t : t = Head(batch[u])
      OBVIOUS
    <2>2. /\ client[u] = "yield" /\ batch[u] # <<>> /\ batch[u] \in Seq(Kinds)
          /\ got' = [got EXCEPT ![u] = @ + (IF t \in Counted THEN 1 ELSE 0)]
          /\ client' = [client EXCEPT ![u] = IF t \in Terminal THEN "done" ELSE IF Len(batch[u]) = 1 THEN "waiting" ELSE "yield"]
          /\ batch' = [batch EXCEPT ![u] = Tail(@)]
          /\ ack' = AckAfter(u, t)
          /\ UNCHANGED <<to, from, eng, tomb, work, inflight, total, todo, rebuilds, sleeping>>
      BY <1>0, <1>2, <2>1 DEF Yield
    <2>3. Mapped' \subseteq Uids /\ ack' \in [Mapped' -> Seq(Kinds)]
          /\ \A v \in Uids \ {u} : (v \in Mapped' <=> v \in Mapped) /\ (v \in Mapped => ack'[v] = ack[v])
      BY <1>0, <2>2, AckWithout DEF AckAfter, Mapped
    <2>4. got' \in [Uids -> Nat] /\ batch' \in [Uids -> Seq(Kinds)]
      BY <1>0, <2>2
    <2>5. client' \in [Uids -> Stations] /\ client'[u] # "none"
      BY <1>0, <2>2 DEF Stations
    <2>6. Elsewhere(u)
      BY <1>0, <2>2, <2>3 DEF Elsewhere
    <2>7. /\ client'[u] = "yield" => batch'[u] # <<>>
          /\ client'[u] = "waiting" => batch'[u] = <<>>
      <3>1. PICK b : b = batch[u]
        OBVIOUS
      <3>2. b \in Seq(Kinds) /\ b # <<>>
        BY <2>2, <3>1
      <3>4. Tail(b) = <<>> <=> Len(b) = 1
        BY <3>2, OneLeft
      <3>3. batch'[u] = Tail(b)
        BY <1>0, <2>2, <3>1
      <3> QED BY <1>0, <2>2, <3>1, <3>3, <3>4
    <2> QED BY <2>2, <2>3, <2>4, <2>5, <2>6, <2>7 DEF Handles
  <1>3. CASE Disconnect(u)
    <2>1. /\ client[u] # "none" /\ client' = [client EXCEPT ![u] = "gone"]
          /\ batch' = [batch EXCEPT ![u] = <<>>] /\ sleeping' = sleeping \cup {u}
          /\ UNCHANGED <<to, from, eng, tomb, work, inflight, total, todo, rebuilds, got, ack>>
      BY <1>3 DEF Disconnect, Connected
    <2>2. Elsewhere(u) /\ Mapped' = Mapped
      BY <1>0, <2>1 DEF Elsewhere, Mapped
    <2> QED BY <1>0, <2>1, <2>2 DEF Handles, Stations
  <1>4. CASE CloseGenerator(u)
    <2>1. /\ client[u] = "gone" /\ client' = [client EXCEPT ![u] = "closed"] /\ ack' = Without(u)
          /\ UNCHANGED <<to, from, eng, tomb, work, inflight, total, todo, rebuilds, got, batch, sleeping>>
      BY <1>4 DEF CloseGenerator
    <2>2. Elsewhere(u) /\ Mapped' \subseteq Uids /\ ack' \in [Mapped' -> Seq(Kinds)]
      BY <1>0, <2>1, AckWithout DEF Elsewhere
    <2> QED BY <1>0, <2>1, <2>2 DEF Handles, Stations
  <1> QED BY <1>1, <1>2, <1>3, <1>4

\* A request arrives.
LEMMA GenerateKeeps ==
  ASSUME BackInv, NEW u \in Uids, NEW sent \in BOOLEAN, Generate(u, sent)
  PROVE  /\ BackInv'
         /\ \A v \in Uids \ {u} : (Over(v) => Over(v)') /\ (Silent(v) => Silent(v)')
         /\ ~sent => Silent(u)'
         /\ Silent(u) /\ Mapped' = Mapped \cup {u} /\ ack'[u] = <<>>
         /\ \A v \in Mapped \ {u} : ack'[v] = ack[v]
  <1> USE DEF gateVars, threadVars, lifeVars, engineVars, clientVars, statsVars, stopVars, rebuildVars
  <1>1. /\ client[u] = "none" /\ Types
        /\ ack' = With(u) /\ inflight' = inflight \cup {u}
        /\ client' = [client EXCEPT ![u] = IF sent THEN "waiting" ELSE "error"]
        /\ UNCHANGED <<from, eng, tomb, work, batch, got, total, sleeping, todo, rebuilds>>
    BY DEF Generate, NewUser, BackInv
  <1>2. /\ Silent(u) /\ work[u] = 0 /\ got[u] = 0 /\ batch[u] = <<>>
        /\ u \notin Mapped \cup inflight \cup sleeping \cup todo
    BY <1>1 DEF BackInv, Fresh
  <1>3. /\ Mapped' = Mapped \cup {u} /\ ack' \in [Mapped' -> Seq(Kinds)] /\ ack'[u] = <<>>
        /\ \A v \in Mapped \ {u} : ack'[v] = ack[v]
    BY <1>1 DEF Types, With, Mapped
  <1>4. PICK m : m = [t |-> "gen", uid |-> u]
    OBVIOUS
  <1>5. m \in Messages /\ m.t = "gen" /\ m.uid = u
    BY <1>4 DEF Messages
  <1>6. /\ to' \in Seq(Messages) /\ (Distinct => Distinct')
        /\ \A k, v : Sent(k, v)' <=> Sent(k, v) \/ (sent /\ k = "gen" /\ v = u)
    <2>1. CASE sent
      <3>1. to' = Append(to, m)
        BY <1>4, <2>1 DEF Generate
      <3>2. Sends(m)
        BY <1>1, <1>5, <3>1, AppendSends
      <3> QED BY <1>2, <1>5, <2>1, <3>2 DEF Sends, Silent
    <2>2. CASE ~sent
      BY <1>1, <2>2, ToStays DEF Generate
    <2> QED BY <2>1, <2>2
  <1>7. Types'
    <2>1. client' \in [Uids -> Stations] /\ inflight' \subseteq Uids /\ Mapped' \subseteq Uids
      BY <1>1, <1>3 DEF Types, Stations
    <2>2. \A v \in Uids : /\ client'[v] = "yield" => batch'[v] # <<>>
                          /\ client'[v] = "waiting" => batch'[v] = <<>>
      BY <1>1, <1>2 DEF Types
    <2> QED BY <1>1, <1>3, <1>6, <2>1, <2>2 DEF Types
  <1>8. \A v \in Uids \ {u} : (Over(v) => Over(v)') /\ (Silent(v) => Silent(v)')
    BY <1>1, <1>6 DEF Over, Silent
  <1>9. SentOnce'
    BY <1>1, <1>2, <1>6 DEF BackInv, SentOnce, Silent
  <1>10. \A i \in 1..Len(from) : from[i].t \in Kinds => from[i].uid # u
    BY <1>2 DEF Silent
  <1>11. RepliesInOrder'
    <2>1. \A i \in 1..Len(from), v \in Uids : from[i].t \in Terminal /\ from[i].uid = v => v # u /\ Over(v)
      BY <1>1, <1>10, RequestReplies DEF BackInv, RepliesInOrder
    <2>2. \A i \in 1..Len(from), v \in Uids : from[i].t \in Terminal /\ from[i].uid = v => Over(v)'
      BY <1>8, <2>1
    <2> QED BY <1>1, <2>2 DEF BackInv, RepliesInOrder
  <1>12. IdleIsOver'
    BY <1>1, <1>8 DEF BackInv, IdleIsOver
  <1>13. \A v \in Uids : Fresh(v)'
    <2> SUFFICES ASSUME NEW v \in Uids, client'[v] = "none" PROVE Fresh(v)'
      BY DEF Fresh
    <2>1. v # u /\ client[v] = "none"
      BY <1>1 DEF Types
    <2> QED BY <1>1, <1>3, <1>8, <2>1 DEF BackInv, Fresh
  <1>14. ~sent => Silent(u)'
    BY <1>1, <1>2, <1>6 DEF Silent
  <1> QED BY <1>2, <1>3, <1>7, <1>8, <1>9, <1>11, <1>12, <1>13, <1>14 DEF BackInv

\* A reply arrives.
LEMMA DeliverKeeps ==
  ASSUME BackInv, Deliver
  PROVE  BackInv' /\ \A u \in Uids : (Over(u) => Over(u)') /\ (Silent(u) => Silent(u)')
  <1> USE DEF gateVars, threadVars, lifeVars, engineVars, clientVars, statsVars, stopVars, rebuildVars
  <1>1. PICK m : m = Head(from)
    OBVIOUS
  <1>2. /\ Types /\ m.t # "rebuilt"
        /\ total' = total + (IF m.t \in Counted THEN 1 ELSE 0)
        /\ inflight' = IF m.t \in Terminal THEN inflight \ {m.uid} ELSE inflight
        /\ ack' = IF m.uid \in Mapped THEN [ack EXCEPT ![m.uid] = Append(@, m.t)] ELSE ack
        /\ UNCHANGED <<to, eng, tomb, work, client, batch, got, sleeping, todo, rebuilds>>
    BY <1>1 DEF BackInv, Deliver, Observe
  <1>3. Reads(m)
    BY <1>1, <1>2, TailReads DEF Deliver
  <1>4. Passed /\ from[1] = m /\ m \in Replies /\ from' \in Seq(Replies) /\ 1 \in 1..Len(from)
    BY <1>3, ReadsPasses DEF Reads
  <1>5. m.t \in Kinds /\ m.uid \in Uids
    BY <1>2, <1>4 DEF Replies
  <1>6. Mapped' = Mapped /\ ack' \in [Mapped -> Seq(Kinds)]
    BY <1>2, <1>5 DEF Types, Mapped
  <1>7. Types'
    BY <1>2, <1>4, <1>6 DEF Types
  <1>8. \A u \in Uids : (Over(u) <=> Over(u)')
    BY <1>2 DEF Over, Sent
  <1>9. \A k, u : Sent(k, u)' <=> Sent(k, u)
    BY <1>2 DEF Sent
  <1>10. \A u \in Uids : Silent(u) => Silent(u)'
    BY <1>2, <1>4, <1>7, <1>9, SilentStays DEF Silent
  <1>11. SentOnce'
    BY <1>2 DEF BackInv, SentOnce, Distinct, Sent
  <1>12. RepliesInOrder'
    <2>1. ASSUME NEW i \in 1..Len(from'), from'[i].t \in Counted
          PROVE  from'[i].uid \in inflight'
      <3>1. i + 1 \in 1..Len(from) /\ from'[i] = from[i + 1] /\ 1 < i + 1
        BY <1>3 DEF Reads
      <3>2. from[i + 1].uid \in inflight
        BY <2>1, <3>1 DEF BackInv, RepliesInOrder
      <3>3. m.t \in Terminal => from[i + 1].uid # m.uid
        BY <1>4, <2>1, <3>1 DEF BackInv, RepliesInOrder
      <3> QED BY <1>2, <3>1, <3>2, <3>3
    <2> QED BY <1>2, <1>4, <1>7, <1>8, <2>1, OrderPassed DEF BackInv
  <1>13. IdleIsOver'
    <2>1. m.t \in Terminal => Over(m.uid)
      BY <1>4, <1>5 DEF BackInv, RepliesInOrder
    <2> QED BY <1>2, <1>8, <2>1 DEF BackInv, IdleIsOver
  <1>14. \A u \in Uids : Fresh(u)'
    <2> SUFFICES ASSUME NEW u \in Uids, client[u] = "none" PROVE Fresh(u)'
      BY <1>2 DEF Fresh
    <2>1. /\ Silent(u) /\ work[u] = 0 /\ got[u] = 0 /\ batch[u] = <<>>
          /\ u \notin Mapped \cup inflight \cup sleeping \cup todo
      BY DEF BackInv, Fresh
    <2> QED BY <1>2, <1>6, <1>10, <2>1 DEF Fresh
  <1> QED BY <1>7, <1>8, <1>10, <1>11, <1>12, <1>13, <1>14 DEF BackInv

\* An abort of u is sent, by a disconnect or by a stop.
Aborts(u) == \E sent \in BOOLEAN : AbortTask(u, sent) \/ AbortForStop(u, sent)

LEMMA AbortKeeps ==
  ASSUME BackInv, NEW u \in Uids, Aborts(u)
  PROVE  /\ BackInv' /\ \A v \in Uids : Over(v) => Over(v)'
         /\ \A v \in Uids \ {u} : Silent(v) => Silent(v)'
         /\ client[u] # "none" /\ Mapped' = Mapped \ {u} /\ \A v \in Mapped \ {u} : ack'[v] = ack[v]
         /\ UNCHANGED <<from, eng, tomb, work, client, batch, got, inflight, total>>
  <1> USE DEF gateVars, threadVars, lifeVars, engineVars, clientVars, statsVars, stopVars, rebuildVars
  <1>1. PICK sent \in BOOLEAN : AbortTask(u, sent) \/ AbortForStop(u, sent)
    BY DEF Aborts
  <1>2. /\ Types /\ ack' = Without(u)
        /\ to' = IF sent THEN Append(to, [t |-> "abort", uid |-> u]) ELSE to
        /\ UNCHANGED <<from, eng, tomb, work, client, batch, got, inflight, total, rebuilds>>
        /\ u \in sleeping \cup todo /\ sleeping' \subseteq sleeping \cup todo /\ todo' \subseteq todo
    BY <1>1 DEF BackInv, AbortTask, AbortForStop, AbortUser
  <1>3. /\ Mapped' = Mapped \ {u} /\ Mapped' \subseteq Uids /\ ack' \in [Mapped' -> Seq(Kinds)]
        /\ \A v \in Mapped \ {u} : ack'[v] = ack[v]
    BY <1>2, AckWithout
  <1>4. client[u] # "none"
    BY <1>2 DEF BackInv, Fresh
  <1>5. PICK m : m = [t |-> "abort", uid |-> u]
    OBVIOUS
  <1>6. m \in Messages /\ m.t = "abort" /\ m.uid = u
    BY <1>5 DEF Messages
  <1>7. /\ to' \in Seq(Messages) /\ (Distinct => Distinct')
        /\ \A k, v : Sent(k, v)' <=> Sent(k, v) \/ (sent /\ k = "abort" /\ v = u)
    <2>1. CASE sent
      <3>1. Sends(m)
        BY <1>2, <1>5, <1>6, <2>1, AppendSends
      <3> QED BY <1>6, <2>1, <3>1 DEF Sends
    <2>2. CASE ~sent
      BY <1>2, <2>2, ToStays
    <2> QED BY <2>1, <2>2
  <1>8. Types'
    BY <1>2, <1>3, <1>7 DEF Types
  <1>9. \A v \in Uids : Over(v) <=> Over(v)'
    BY <1>2, <1>7 DEF Over
  <1>10. \A v \in Uids \ {u} : Silent(v) => Silent(v)'
    BY <1>2, <1>7 DEF Silent
  <1>11. SentOnce' /\ RepliesInOrder' /\ IdleIsOver'
    BY <1>2, <1>7, <1>9 DEF BackInv, SentOnce, RepliesInOrder, IdleIsOver
  <1>12. \A v \in Uids : Fresh(v)'
    <2> SUFFICES ASSUME NEW v \in Uids, client[v] = "none" PROVE Fresh(v)'
      BY <1>2 DEF Fresh
    <2>1. /\ Silent(v) /\ work[v] = 0 /\ got[v] = 0 /\ batch[v] = <<>>
          /\ v \notin Mapped \cup inflight \cup sleeping \cup todo
      BY DEF BackInv, Fresh
    <2> QED BY <1>2, <1>3, <1>4, <1>10, <2>1 DEF Fresh
  <1> QED BY <1>2, <1>3, <1>4, <1>8, <1>9, <1>10, <1>11, <1>12 DEF BackInv


\* The backend changes nothing at the front end.
LEMMA FrontStays ==
  ASSUME BackInv, Types', SentOnce', RepliesInOrder',
         UNCHANGED <<client, batch, got, ack, inflight, total, sleeping, todo, rebuilds>>,
         \A u \in Uids : Over(u) => Over(u)',
         \A u \in Uids : Silent(u) => Silent(u)' /\ work'[u] = work[u]
  PROVE  BackInv'
  <1>1. IdleIsOver'
    BY DEF BackInv, IdleIsOver
  <1>2. \A u \in Uids : Fresh(u)'
    <2> SUFFICES ASSUME NEW u \in Uids, client[u] = "none" PROVE Fresh(u)'
      BY DEF Fresh
    <2>1. /\ Silent(u) /\ work[u] = 0 /\ got[u] = 0 /\ batch[u] = <<>>
          /\ u \notin Mapped \cup inflight \cup sleeping \cup todo
      BY DEF BackInv, Fresh
    <2>2. Mapped' = Mapped
      BY DEF Mapped
    <2> QED BY <2>1, <2>2 DEF Fresh
  <1> QED BY <1>1, <1>2 DEF BackInv

\* A step of the backend that samples nothing.
Settles ==
  /\ BackInv' /\ \A u \in Uids : (Over(u) => Over(u)') /\ (Silent(u) => Silent(u)')
  /\ UNCHANGED <<work, client, batch, got, ack, inflight, total, sleeping, todo, rebuilds>>
  /\ \A i \in 1..Len(from') : from'[i].t \in Counted => \E k \in 1..Len(from) : from'[i] = from[k]
  /\ \A S : (\A m \in S : m.t \in Counted) => Count(from', S) = Count(from, S)

\* The backend says that u is over, and it is.
LEMMA EndSettles ==
  ASSUME BackInv, NEW u \in Uids, NEW m, Takes(m), m.uid = u, m.t \in {"gen", "abort"},
         from' = Append(from, [t |-> "end", uid |-> u]),
         eng' \in [Uids -> {"out", "queued", "decode"}], tomb' \subseteq Uids,
         \A v \in Uids \ {u} : eng'[v] = eng[v] /\ (v \in tomb' <=> v \in tomb),
         eng'[u] = "out", u \in tomb => u \in tomb', Over(u)',
         UNCHANGED <<work, client, batch, got, ack, inflight, total, sleeping, todo, rebuilds>>
  PROVE  Settles
  <1>1. PICK a : a = [t |-> "end", uid |-> u]
    OBVIOUS
  <1>2. a \in Replies /\ a.t = "end" /\ a.uid = u /\ a.t \in Kinds /\ a.t \in Terminal /\ a.t \notin Counted
    BY <1>1 DEF Replies, Kinds, Counted, Terminal
  <1>3. Types /\ Answers(a)
    BY <1>1, <1>2, AppendAnswers DEF BackInv
  <1>4. /\ to' \in Seq(Messages) /\ Sent(m.t, u) /\ (Distinct => Distinct')
        /\ \A k, v : Sent(k, v)' => Sent(k, v)
    BY DEF Takes
  <1>5. Types'
    <2>1. from' \in Seq(Replies)
      BY <1>3 DEF Answers
    <2> QED BY <1>3, <1>4, <2>1 DEF Types, Mapped
  <1>6. \A v \in Uids : Over(v) => Over(v)'
    <2> SUFFICES ASSUME NEW v \in Uids, v # u, Over(v) PROVE Over(v)'
      OBVIOUS
    <2> QED BY <1>4 DEF Over
  <1>7. /\ Len(from) \in Nat /\ Len(from') = Len(from) + 1 /\ from'[Len(from) + 1] = a
        /\ \A i \in 1..Len(from) : from'[i] = from[i]
    BY <1>3 DEF Answers
  <1>8. \A i \in 1..Len(from') : i \in 1..Len(from) \/ from'[i] = a
    BY <1>7
  <1>9. ASSUME NEW v \in Uids, Silent(v) PROVE Silent(v)'
    <2>1. v # u
      BY <1>4, <1>9 DEF Silent
    <2>2. \A i \in 1..Len(from') : from'[i].t \in Kinds => from'[i].uid # v
      BY <1>2, <1>7, <1>8, <1>9, <2>1 DEF Silent
    <2>3. eng'[v] = "out" /\ ~Sent("gen", v)' /\ ~Sent("abort", v)'
      BY <1>4, <1>9, <2>1 DEF Silent
    <2> QED BY <2>2, <2>3 DEF Silent
  <1>10. SentOnce'
    <2>1. \A v \in Uids : Sent("gen", v)' => eng'[v] = "out"
      BY <1>4 DEF BackInv, SentOnce
    <2> QED BY <1>4, <2>1 DEF BackInv, SentOnce
  <1>11. RepliesInOrder'
    <2>1. \A v \in Uids : a.t \in Terminal /\ a.uid = v => Over(v)'
      BY <1>2
    <2> QED BY <1>2, <1>3, <1>5, <1>6, <2>1, OrderAnswered DEF BackInv
  <1>12. BackInv'
    BY <1>5, <1>6, <1>9, <1>10, <1>11, FrontStays
  <1>13. \A i \in 1..Len(from') : from'[i].t \in Counted => \E k \in 1..Len(from) : from'[i] = from[k]
    BY <1>2, <1>7, <1>8
  <1>14. \A S : (\A n \in S : n.t \in Counted) => Count(from', S) = Count(from, S)
    BY <1>2, <1>3 DEF Answers
  <1> QED BY <1>6, <1>9, <1>12, <1>13, <1>14 DEF Settles

\* The backend queues u, or drops it: its abort came first.
LEMMA QueueSettles ==
  ASSUME BackInv, NEW u \in Uids, NEW m, Takes(m), m.uid = u, m.t = "gen",
         UNCHANGED from,
         eng' = IF Overtaken(u) THEN eng ELSE [eng EXCEPT ![u] = "queued"],
         tomb' = tomb \ {u},
         UNCHANGED <<work, client, batch, got, ack, inflight, total, sleeping, todo, rebuilds>>
  PROVE  Settles
  <1>1. /\ to' \in Seq(Messages) /\ Sent("gen", u)
        /\ \A k, v : Sent(k, v)' => Sent(k, v)
        /\ Distinct' /\ ~Sent("gen", u)'
    BY DEF Takes, BackInv, SentOnce
  <1>2. Types
    BY DEF BackInv
  <1>3. /\ eng' \in [Uids -> {"out", "queued", "decode"}] /\ tomb' \subseteq Uids
        /\ \A v \in Uids \ {u} : eng'[v] = eng[v] /\ (v \in tomb' <=> v \in tomb)
        /\ u \in tomb => eng'[u] = eng[u]
    BY <1>2 DEF Types, Overtaken
  <1>4. Types'
    BY <1>1, <1>2, <1>3 DEF Types, Mapped
  <1>5. from' \in Seq(Replies) /\ Passed /\ \A S : Count(from', S) = Count(from, S)
    BY <1>2, FromStays
  <1>6. ASSUME NEW v \in Uids, Over(v) PROVE Over(v)'
    <2>1. CASE v = u
      <3>1. eng[u] = "out" /\ u \in tomb
        BY <1>1, <1>6, <2>1 DEF Over
      <3> QED BY <1>1, <1>3, <2>1, <3>1 DEF Over
    <2>2. CASE v # u
      BY <1>1, <1>3, <1>6, <2>2 DEF Over
    <2> QED BY <2>1, <2>2
  <1>7. ASSUME NEW v \in Uids, Silent(v) PROVE Silent(v)'
    <2>1. v # u
      BY <1>1, <1>7 DEF Silent
    <2>2. eng'[v] = "out" /\ ~Sent("gen", v)' /\ ~Sent("abort", v)'
      BY <1>1, <1>3, <1>7, <2>1 DEF Silent
    <2> QED BY <1>7, <2>2 DEF Silent
  <1>8. SentOnce'
    <2>1. \A v \in Uids : Sent("gen", v)' => eng'[v] = "out"
      BY <1>1, <1>3 DEF BackInv, SentOnce
    <2> QED BY <1>1, <2>1 DEF SentOnce
  <1>9. RepliesInOrder'
    <2>1. \A i \in 1..Len(from') : from'[i].t \in Counted => from'[i].uid \in inflight'
      BY DEF BackInv, RepliesInOrder
    <2> QED BY <1>2, <1>4, <1>5, <1>6, <2>1, OrderPassed DEF BackInv
  <1>10. BackInv'
    BY <1>4, <1>6, <1>7, <1>8, <1>9, FrontStays
  <1> QED BY <1>5, <1>6, <1>7, <1>10 DEF Settles

\* The backend takes a message.
LEMMA TakeKeeps ==
  ASSUME BackInv, NEW i \in 1..Len(to), Take(i)
  PROVE  Settles
  <1> USE DEF gateVars, threadVars, lifeVars, engineVars, clientVars, statsVars, stopVars, rebuildVars
  <1>1. PICK m : m = to[i]
    OBVIOUS
  <1>2. /\ Types /\ to' = RemoveAt(to, i)
        /\ \/ m.t = "gen" /\ TakeRequest(m.uid)
           \/ m.t = "abort" /\ TakeAbort(m.uid)
           \/ m.t = "rebuild" /\ \E ok \in BOOLEAN : TakeRebuild(m.uid, ok)
        /\ UNCHANGED <<work, client, batch, got, ack, inflight, total, sleeping, todo, rebuilds>>
    BY <1>1 DEF BackInv, Take
  <1>3. Takes(m)
    BY <1>1, <1>2, RemoveTakes
  <1>4. m \in Messages /\ Distinct /\ (m.t = "gen" => ~Sent("gen", m.uid)') /\ Sent(m.t, m.uid)
    BY <1>3 DEF Takes, BackInv, SentOnce
  <1>5. m.t \in {"gen", "abort"} => m.uid \in Uids
    BY <1>4 DEF Messages
  <1>6. eng \in [Uids -> {"out", "queued", "decode"}] /\ tomb \subseteq Uids
    BY <1>2 DEF Types
  <1>7. CASE m.t = "gen" /\ TakeRequest(m.uid)
    <2>1. PICK u \in Uids : u = m.uid
      BY <1>5, <1>7
    <2>2. eng[u] = "out" /\ ~Sent("gen", u)'
      BY <1>4, <1>7, <2>1 DEF BackInv, SentOnce
    <2>3. CASE from' = Append(from, [t |-> "end", uid |-> u]) /\ UNCHANGED <<eng, tomb>>
      <3>1. Over(u)'
        BY <2>2, <2>3 DEF Over
      <3>2. eng' = eng /\ tomb' = tomb /\ from' = Append(from, [t |-> "end", uid |-> u])
        BY <2>3
      <3> QED BY <1>2, <1>3, <1>6, <1>7, <2>1, <2>2, <3>1, <3>2, EndSettles
    <2>4. CASE /\ eng' = IF Overtaken(u) THEN eng ELSE [eng EXCEPT ![u] = "queued"]
               /\ tomb' = tomb \ {u} /\ UNCHANGED from
      BY <1>2, <1>3, <1>7, <2>1, <2>4, QueueSettles
    <2> QED BY <1>7, <2>1, <2>3, <2>4 DEF TakeRequest
  <1>8. CASE m.t = "abort" /\ TakeAbort(m.uid)
    <2>1. PICK u \in Uids : u = m.uid
      BY <1>5, <1>8
    <2>2. /\ eng' = [eng EXCEPT ![u] = "out"] /\ tomb' = tomb \cup {u}
          /\ from' = Append(from, [t |-> "end", uid |-> u])
      BY <1>8, <2>1 DEF TakeAbort
    <2>3. /\ eng' \in [Uids -> {"out", "queued", "decode"}] /\ tomb' \subseteq Uids
          /\ eng'[u] = "out" /\ u \in tomb'
          /\ \A v \in Uids \ {u} : eng'[v] = eng[v] /\ (v \in tomb' <=> v \in tomb)
      BY <1>6, <2>2
    <2>4. Over(u)'
      BY <2>3 DEF Over
    <2> QED BY <1>2, <1>3, <1>8, <2>1, <2>2, <2>3, <2>4, EndSettles
  <1>9. CASE m.t = "rebuild" /\ \E ok \in BOOLEAN : TakeRebuild(m.uid, ok)
    <2>1. TakesRebuild(i)
      BY <1>1, <1>2, <1>9 DEF TakesRebuild, Take, TakeRebuild
    <2>2. Bystander
      BY <1>2, <2>1, RebuildTaken
    <2>3. BackInv' /\ \A u \in Uids : (Over(u) => Over(u)') /\ (Silent(u) => Silent(u)')
      BY <2>2, BystanderKeeps
    <2>4. \A j \in 1..Len(from') : from'[j].t \in Kinds => \E k \in 1..Len(from) : from'[j] = from[k]
      BY <1>2, <2>2, <2>3, Lengths, PassedReplies DEF BackInv, Types, Bystander, NoRequestMoves
    <2>5. \A j \in 1..Len(from') : from'[j].t \in Counted => \E k \in 1..Len(from) : from'[j] = from[k]
      BY <2>4, <1>2, RequestReplies
    <2>6. \A S : (\A n \in S : n.t \in Counted) => Count(from', S) = Count(from, S)
      <3> SUFFICES ASSUME NEW S, \A n \in S : n.t \in Counted PROVE Count(from', S) = Count(from, S)
        OBVIOUS
      <3>1. \A n \in S : n.t # "rebuilt"
        BY DEF Counted
      <3> QED BY <2>2, <3>1 DEF Bystander, NoRequestMoves
    <2> QED BY <1>2, <2>3, <2>5, <2>6 DEF Settles
  <1> QED BY <1>2, <1>7, <1>8, <1>9

\* The backend samples a token of u.
Samples(u, m) ==
  /\ BackInv' /\ \A v \in Uids : Over(v) => Over(v)'
  /\ \A v \in Uids : Silent(v) => Silent(v)'
  /\ backend = "alive" /\ ~Over(u) /\ m.t \in Counted /\ m.uid = u /\ Answers(m)
  /\ work' = [work EXCEPT ![u] = @ + 1]
  /\ UNCHANGED <<client, batch, got, ack, inflight, total, sleeping, todo, rebuilds>>

LEMMA ReplyKeeps ==
  ASSUME BackInv, NEW u \in Uids, Admit(u) \/ Sample(u)
  PROVE  \E m \in Replies : Samples(u, m)
  <1> USE DEF gateVars, threadVars, lifeVars, engineVars, clientVars, statsVars, stopVars, rebuildVars
  <1>1. PICK t \in Counted, next \in {"out", "decode"} :
          Reply(u, t, next) /\ eng[u] # "out" /\ (t \in Terminal => next = "out")
    BY DEF Admit, Sample, Counted, Terminal
  <1>2. PICK m : m = [t |-> t, uid |-> u]
    OBVIOUS
  <1>3. m \in Replies /\ m.t \in Kinds /\ m.t \in Counted /\ m.uid = u /\ m.t = t
    BY <1>2 DEF Replies, Kinds
  <1>4. /\ Types /\ backend = "alive" /\ from' = Append(from, m) /\ eng' = [eng EXCEPT ![u] = next]
        /\ work' = [work EXCEPT ![u] = @ + 1]
        /\ UNCHANGED <<to, tomb, client, batch, got, ack, inflight, total, sleeping, todo, rebuilds>>
    BY <1>1, <1>2 DEF BackInv, Reply
  <1>5. Answers(m)
    BY <1>3, <1>4, AppendAnswers
  <1>6. ~Over(u) /\ u \in inflight /\ ~Sent("gen", u)
    BY <1>1 DEF Over, BackInv, IdleIsOver, SentOnce
  <1>7. /\ eng' \in [Uids -> {"out", "queued", "decode"}] /\ work' \in [Uids -> Nat] /\ eng'[u] = next
        /\ \A v \in Uids \ {u} : eng'[v] = eng[v] /\ work'[v] = work[v]
    BY <1>4 DEF Types
  <1>8. Types'
    <2>1. from' \in Seq(Replies)
      BY <1>5 DEF Answers
    <2> QED BY <1>4, <1>7, <2>1 DEF Types, Mapped
  <1>9. \A k, v : Sent(k, v)' <=> Sent(k, v)
    BY <1>4, ToStays
  <1>10. \A v \in Uids : Over(v) => Over(v)'
    <2> SUFFICES ASSUME NEW v \in Uids, v # u, Over(v) PROVE Over(v)'
      BY <1>6
    <2> QED BY <1>4, <1>7, <1>9 DEF Over
  <1>11. ASSUME NEW v \in Uids, Silent(v) PROVE Silent(v)' /\ work'[v] = work[v]
    <2>1. v # u
      BY <1>1, <1>11 DEF Silent
    <2>2. /\ Len(from) \in Nat /\ Len(from') = Len(from) + 1 /\ from'[Len(from) + 1] = m
          /\ \A i \in 1..Len(from) : from'[i] = from[i]
      BY <1>5 DEF Answers
    <2>3. \A i \in 1..Len(from') : i \in 1..Len(from) \/ from'[i] = m
      BY <2>2
    <2>4. \A i \in 1..Len(from') : from'[i].t \in Kinds => from'[i].uid # v
      BY <1>3, <1>11, <2>1, <2>2, <2>3 DEF Silent
    <2>5. eng'[v] = "out" /\ ~Sent("gen", v)' /\ ~Sent("abort", v)'
      BY <1>7, <1>9, <1>11, <2>1 DEF Silent
    <2> QED BY <1>7, <2>1, <2>4, <2>5 DEF Silent
  <1>12. SentOnce'
    <2>1. \A v \in Uids : Sent("gen", v)' => eng'[v] = "out"
      BY <1>6, <1>7, <1>9 DEF BackInv, SentOnce
    <2>2. Distinct'
      BY <1>4, ToStays DEF BackInv, SentOnce
    <2> QED BY <2>1, <2>2 DEF SentOnce
  <1>13. RepliesInOrder'
    <2>1. \A v \in Uids : m.t \in Terminal /\ m.uid = v => Over(v)'
      <3> SUFFICES ASSUME m.t \in Terminal PROVE Over(u)'
        BY <1>3
      <3> QED BY <1>1, <1>3, <1>6, <1>7, <1>9 DEF Over
    <2>2. \A i \in 1..Len(from) : from[i].uid = u => from[i].t \notin Terminal
      BY <1>6 DEF BackInv, RepliesInOrder
    <2> QED BY <1>3, <1>4, <1>5, <1>6, <1>8, <1>10, <2>1, <2>2, OrderAnswered DEF BackInv
  <1>14. BackInv'
    BY <1>4, <1>8, <1>10, <1>11, <1>12, <1>13, FrontStays
  <1> QED BY <1>3, <1>4, <1>5, <1>6, <1>10, <1>11, <1>14 DEF Samples

-----------------------------------------------------------------------------
(* A step is one of these. *)

Kinds_of_step ==
  \/ Bystander
  \/ \E u \in Uids, sent \in BOOLEAN : Generate(u, sent)
  \/ Deliver
  \/ \E u \in Uids : Wake(u) \/ Yield(u) \/ Disconnect(u) \/ CloseGenerator(u)
  \/ \E u \in Uids : Aborts(u)
  \/ Settles
  \/ \E u \in Uids, m \in Replies : Samples(u, m)

LEMMA Classes ==
  ASSUME BackInv, [Next]_vars
  PROVE  Kinds_of_step
  <1>0. Types
    BY DEF BackInv
  <1>1. CASE \/ StoreGate \/ PrepareStop \/ Seal \/ DrainTimeout \/ SettleTimeout
             \/ Rebuild \/ RebuildSent \/ RebuildNotSent \/ RebuildAnswered \/ RebuildTimeout
             \/ ResolveRebuild \/ ResolveAll \/ Supervisor
             \/ Sigterm \/ GroupSignal \/ ExitTimer \/ ShutdownFlag \/ ShutdownKill \/ Loaded \/ Crash
             \/ UNCHANGED vars
    BY <1>0, <1>1, Bystanders DEF Kinds_of_step
  <1>2. CASE \E u \in Uids, sent \in BOOLEAN : Generate(u, sent)
    BY <1>2 DEF Kinds_of_step
  <1>3. CASE \E u \in Uids : Handler(u) \/ Disconnect(u)
    BY <1>3 DEF Handler, Aborts, Kinds_of_step
  <1>4. CASE \E i \in 1..Len(to) : Take(i)
    BY <1>4, TakeKeeps DEF Kinds_of_step
  <1>5. CASE \E u \in Uids : Admit(u) \/ Sample(u)
    BY <1>5, ReplyKeeps DEF Kinds_of_step
  <1>6. CASE Deliver
    BY <1>6 DEF Kinds_of_step
  <1> QED BY <1>1, <1>2, <1>3, <1>4, <1>5, <1>6 DEF Next, Backend

LEMMA InitBack == Init => BackInv
  <1> SUFFICES ASSUME Init PROVE BackInv
    OBVIOUS
  <1>1. /\ to = <<>> /\ from = <<>> /\ Len(to) = 0 /\ Len(from) = 0
        /\ Mapped = {} /\ ack \in [Mapped -> Seq(Kinds)]
    BY DEF Init, Mapped
  <1>2. Types
    BY <1>1 DEF Init, Types, Stations
  <1>3. \A k, u : ~Sent(k, u)
    BY <1>1 DEF Sent
  <1>4. SentOnce /\ RepliesInOrder
    BY <1>1, <1>3 DEF SentOnce, Distinct, RepliesInOrder
  <1>5. \A u \in Uids : Over(u) /\ Silent(u)
    BY <1>1, <1>3 DEF Init, Over, Silent
  <1>6. IdleIsOver /\ \A u \in Uids : Fresh(u)
    BY <1>1, <1>5 DEF Init, IdleIsOver, Fresh
  <1> QED BY <1>2, <1>4, <1>6 DEF BackInv

LEMMA StepBack == BackInv /\ [Next]_vars => BackInv'
  <1> SUFFICES ASSUME BackInv, [Next]_vars PROVE BackInv'
    OBVIOUS
  <1>1. Kinds_of_step
    BY Classes
  <1> QED
    BY <1>1, BystanderKeeps, GenerateKeeps, DeliverKeeps, Handlers, HandlerKeeps, AbortKeeps
    DEF Kinds_of_step, Settles, Samples

LEMMA BackAlways == Spec => []BackInv
  BY InitBack, StepBack, PTL DEF Spec

-----------------------------------------------------------------------------
(* Every step keeps StreamInv. *)

\* Nothing about the requests moves, but for what makes one over.
Quiet ==
  /\ UNCHANGED <<work, client, batch, got, ack>> /\ inflight' = inflight
  /\ \A u \in Uids : (Over(u) => Over(u)') /\ (Silent(u) => Silent(u)')
  /\ \A i \in 1..Len(from') : from'[i].t \in Counted => \E k \in 1..Len(from) : from'[i] = from[k]
  /\ \A S : (\A m \in S : m.t \in Counted) => Count(from', S) = Count(from, S)

LEMMA BystanderIsQuiet ==
  ASSUME BackInv, Bystander
  PROVE  Quiet /\ total' = total
  <1>1. /\ Types /\ Types'
        /\ \A u \in Uids : (Over(u) => Over(u)') /\ (Silent(u) => Silent(u)')
    BY BystanderKeeps DEF BackInv
  <1>2. /\ Passed /\ \A S : (\A m \in S : m.t # "rebuilt") => Count(from', S) = Count(from, S)
        /\ UNCHANGED <<work, client, batch, got, ack, inflight, total>>
    BY DEF Bystander, NoRequestMoves, engineVars, statsVars
  <1>3. \A i \in 1..Len(from') : from'[i].t \in Kinds => \E k \in 1..Len(from) : from'[i] = from[k]
    BY <1>1, <1>2, Lengths, PassedReplies DEF Types
  <1>4. \A i \in 1..Len(from') : from'[i].t \in Counted => \E k \in 1..Len(from) : from'[i] = from[k]
    BY <1>1, <1>3, RequestReplies
  <1>5. \A S : (\A n \in S : n.t \in Counted) => Count(from', S) = Count(from, S)
    <2> SUFFICES ASSUME NEW S, \A n \in S : n.t \in Counted PROVE Count(from', S) = Count(from, S)
      OBVIOUS
    <2>1. \A n \in S : n.t # "rebuilt"
      BY DEF Counted
    <2> QED BY <1>2, <2>1
  <1> QED BY <1>1, <1>2, <1>4, <1>5 DEF Quiet

LEMMA QuietKeeps ==
  ASSUME BackInv, StreamInv, Quiet
  PROVE  StreamInv'
  <1>1. /\ UNCHANGED <<work, client, batch, got, ack, inflight>> /\ Mapped' = Mapped
        /\ \A u \in Uids : (Over(u) => Over(u)') /\ (Silent(u) => Silent(u)')
    BY DEF Quiet, Mapped
  <1>2. Entries'
    BY <1>1 DEF StreamInv, Entries, BackInv, Types
  <1>3. ASSUME NEW u \in Uids PROVE Stream(u)'
    <2>1. Count(from', TokensOf(u)) = Count(from, TokensOf(u))
      BY DEF Quiet, TokensOf
    <2>2. Whole(u)'
      BY <1>1, <2>1 DEF StreamInv, Stream, Whole
    <2>3. LastQueued(u)'
      BY <1>1 DEF StreamInv, Stream, LastQueued, Quiet
    <2>4. LastHeld(u)'
      BY <1>1 DEF StreamInv, Stream, LastHeld
    <2>5. Ended(u)'
      BY <1>1 DEF StreamInv, Stream, Ended
    <2> QED BY <2>2, <2>3, <2>4, <2>5 DEF Stream
  <1> QED BY <1>2, <1>3 DEF StreamInv

\* Where a step leaves u alone, it leaves its stream alone.
LEMMA StreamStays ==
  ASSUME BackInv, NEW u \in Uids, Stream(u),
         client'[u] = client[u], batch'[u] = batch[u], got'[u] = got[u], work'[u] = work[u],
         u \in Mapped' => u \in Mapped /\ ack'[u] = ack[u],
         Over(u) => Over(u)',
         Count(from', TokensOf(u)) = Count(from, TokensOf(u)),
         \A i \in 1..Len(from') : from'[i].t \in Counted /\ from'[i].uid = u =>
           \E k \in 1..Len(from) : from'[i] = from[k]
  PROVE  Stream(u)'
  <1>1. Whole(u)'
    BY DEF Stream, Whole
  <1>2. LastQueued(u)'
    <2> SUFFICES ASSUME client[u] \in {"waiting", "yield"}, u \in Mapped'
                 PROVE  LastQueued(u)'
      BY DEF LastQueued
    <2>1. u \in Mapped /\ ack'[u] = ack[u]
      OBVIOUS
    <2>2. \A i \in 1..Len(ack[u]) : ack[u][i] \in Terminal =>
            /\ Over(u) /\ \A j \in 1..Len(ack[u]) : i < j => ack[u][j] \notin Counted
            /\ \A j \in 1..Len(from) : from[j].t \in Counted => from[j].uid # u
      BY <2>1 DEF Stream, LastQueued
    <2>3. \A i \in 1..Len(ack[u]) : ack[u][i] \in Terminal =>
            \A j \in 1..Len(from') : from'[j].t \in Counted => from'[j].uid # u
      BY <2>2
    <2> QED BY <2>1, <2>2, <2>3 DEF LastQueued
  <1>3. LastHeld(u)' /\ Ended(u)'
    BY DEF Stream, LastHeld, Ended
  <1> QED BY <1>1, <1>2, <1>3 DEF Stream

LEMMA StreamNumbers ==
  ASSUME Types, NEW u \in Uids
  PROVE  /\ got[u] \in Nat /\ work[u] \in Nat /\ batch[u] \in Seq(Kinds)
         /\ Count(batch[u], Counted) \in Nat /\ Count(from, TokensOf(u)) \in Nat
         /\ u \in Mapped => ack[u] \in Seq(Kinds) /\ Count(ack[u], Counted) \in Nat
         /\ Count(<<>>, Counted) = 0
  <1>1. /\ got[u] \in Nat /\ work[u] \in Nat /\ batch[u] \in Seq(Kinds) /\ from \in Seq(Replies)
        /\ u \in Mapped => ack[u] \in Seq(Kinds)
    BY DEF Types
  <1>2. Count(<<>>, Counted) = 0
    BY CountNone
  <1> QED BY <1>1, <1>2, CountType

LEMMA GenerateStreams ==
  ASSUME BackInv, StreamInv, NEW u \in Uids, NEW sent \in BOOLEAN, Generate(u, sent)
  PROVE  StreamInv'
  <1>1. /\ Types /\ BackInv'
        /\ \A v \in Uids \ {u} : (Over(v) => Over(v)') /\ (Silent(v) => Silent(v)')
        /\ ~sent => Silent(u)'
        /\ Silent(u) /\ Mapped' = Mapped \cup {u} /\ ack'[u] = <<>>
        /\ \A v \in Mapped \ {u} : ack'[v] = ack[v]
    BY GenerateKeeps DEF BackInv
  <1>2. /\ client[u] = "none" /\ inflight' = inflight \cup {u}
        /\ client' = [client EXCEPT ![u] = IF sent THEN "waiting" ELSE "error"]
        /\ UNCHANGED <<from, work, batch, got>>
    BY DEF Generate, NewUser, clientVars, engineVars
  <1>3. /\ client'[u] = IF sent THEN "waiting" ELSE "error"
        /\ \A v \in Uids \ {u} : client'[v] = client[v]
    BY <1>1, <1>2 DEF Types
  <1>4. work[u] = 0 /\ got[u] = 0 /\ batch[u] = <<>>
    BY <1>2 DEF BackInv, Fresh
  <1>5. Entries'
    <2> SUFFICES ASSUME NEW v \in Mapped'
                 PROVE  \/ client'[v] \in {"waiting", "yield", "gone"}
                        \/ client'[v] = "error" /\ Silent(v)' /\ v \in inflight'
      BY DEF Entries
    <2>1. CASE v = u
      BY <1>1, <1>2, <1>3, <2>1
    <2>2. CASE v # u
      BY <1>1, <1>2, <1>3, <2>2 DEF StreamInv, Entries, Types
    <2> QED BY <2>1, <2>2
  <1>6. \A v \in Uids \ {u} : Stream(v)'
    BY <1>1, <1>2, <1>3, StreamStays DEF StreamInv
  <1>7. Stream(u)'
    <2>1. Count(from, TokensOf(u)) = 0
      <3>1. \A i \in 1..Len(from) : from[i] \notin TokensOf(u)
        BY <1>1, RequestReplies DEF Silent, TokensOf
      <3> QED BY <3>1, CountNone
    <2>2. Count(<<>>, Counted) = 0 /\ Len(<<>>) = 0
      BY CountNone
    <2>3. Whole(u)'
      <3>1. /\ got'[u] = 0 /\ work'[u] = 0 /\ batch'[u] = <<>> /\ ack'[u] = <<>>
            /\ Count(from', TokensOf(u)) = 0
        BY <1>1, <1>2, <1>4, <2>1
      <3> QED BY <2>2, <3>1 DEF Whole
    <2>4. LastQueued(u)'
      BY <1>1, <2>2 DEF LastQueued
    <2>5. LastHeld(u)' /\ Ended(u)'
      BY <1>3 DEF LastHeld, Ended
    <2> QED BY <2>3, <2>4, <2>5 DEF Stream
  <1> QED BY <1>5, <1>6, <1>7 DEF StreamInv

LEMMA DeliverStreams ==
  ASSUME BackInv, StreamInv, Deliver
  PROVE  StreamInv'
  <1>1. /\ Types /\ BackInv' /\ \A u \in Uids : (Over(u) => Over(u)') /\ (Silent(u) => Silent(u)')
    BY DeliverKeeps DEF BackInv
  <1>2. PICK m : m = Head(from)
    OBVIOUS
  <1>3. /\ m.t # "rebuilt"
        /\ inflight' = IF m.t \in Terminal THEN inflight \ {m.uid} ELSE inflight
        /\ ack' = IF m.uid \in Mapped THEN [ack EXCEPT ![m.uid] = Append(@, m.t)] ELSE ack
        /\ UNCHANGED <<to, eng, tomb, work, client, batch, got>>
    BY <1>2 DEF Deliver, Observe, engineVars, clientVars
  <1>4. Reads(m)
    BY <1>1, <1>2, TailReads DEF Deliver
  <1>5. /\ from[1] = m /\ m \in Replies /\ 1 \in 1..Len(from)
        /\ \A i \in 1..Len(from') : i + 1 \in 1..Len(from) /\ from'[i] = from[i + 1] /\ 1 < i + 1
        /\ \A S : Count(from', S) \in Nat /\ Count(from, S) = Count(from', S) + (IF m \in S THEN 1 ELSE 0)
    BY <1>4 DEF Reads
  <1>6. m.t \in Kinds /\ m.uid \in Uids
    BY <1>3, <1>5 DEF Replies
  <1>7. Mapped' = Mapped
    BY <1>3 DEF Mapped
  <1>8. Entries'
    <2>1. \A u \in Uids : Silent(u) => u # m.uid
      BY <1>5, <1>6 DEF Silent
    <2> QED BY <1>1, <1>3, <1>7, <2>1 DEF StreamInv, Entries, Types
  <1>9. \A i \in 1..Len(from') : \E k \in 1..Len(from) : from'[i] = from[k]
    BY <1>5
  <1>10. ASSUME NEW u \in Uids, u # m.uid \/ u \notin Mapped PROVE Stream(u)'
    <2>1. CASE u # m.uid
      <3>1. Count(from', TokensOf(u)) = Count(from, TokensOf(u))
        BY <1>5, <2>1 DEF TokensOf
      <3>2. u \in Mapped => ack'[u] = ack[u]
        BY <1>1, <1>3, <2>1 DEF Types
      <3> QED BY <1>1, <1>3, <1>7, <1>9, <3>1, <3>2, StreamStays DEF StreamInv
    <2>2. CASE u \notin Mapped
      <3>1. Whole(u)' /\ LastQueued(u)'
        BY <1>7, <2>2 DEF Whole, LastQueued
      <3>2. LastHeld(u)' /\ Ended(u)'
        BY <1>1, <1>3 DEF StreamInv, Stream, LastHeld, Ended
      <3> QED BY <3>1, <3>2 DEF Stream
    <2> QED BY <1>10, <2>1, <2>2
  <1>11. ASSUME NEW u \in Uids, u = m.uid, u \in Mapped PROVE Stream(u)'
    <2> DEFINE a == ack[u]
               n == Len(a) + 1
    <2>1. a \in Seq(Kinds) /\ ack'[u] = Append(a, m.t)
      BY <1>1, <1>3, <1>11 DEF Types
    <2>2. /\ Len(a) \in Nat /\ Len(ack'[u]) = n /\ ack'[u][n] = m.t
          /\ \A i \in 1..Len(a) : ack'[u][i] = a[i]
          /\ \A i \in 1..n : i \in 1..Len(a) \/ i = n
      BY <2>1
    <2>3. Count(ack'[u], Counted) = Count(a, Counted) + (IF m.t \in Counted THEN 1 ELSE 0)
      BY <1>6, <2>1, CountAppend
    <2>4. m \in TokensOf(u) <=> m.t \in Counted
      BY <1>5, <1>11 DEF TokensOf
    <2>5. Count(from, TokensOf(u)) = Count(from', TokensOf(u)) + (IF m.t \in Counted THEN 1 ELSE 0)
      BY <1>5, <2>4
    <2>6. Count(a, Counted) \in Nat /\ Count(from', TokensOf(u)) \in Nat
      BY <1>5, <2>1, CountType
    <2> HIDE DEF a, n
    <2>7. Whole(u)'
      <3> SUFFICES ASSUME client[u] \in {"waiting", "yield"}
                   PROVE  got'[u] + Count(batch'[u], Counted) + Count(ack'[u], Counted)
                            + Count(from', TokensOf(u)) = work'[u]
        BY <1>3 DEF Whole
      <3>1. got[u] + Count(batch[u], Counted) + Count(a, Counted) + Count(from, TokensOf(u)) = work[u]
        BY <1>11 DEF StreamInv, Stream, Whole, a
      <3>2. got[u] \in Nat /\ Count(batch[u], Counted) \in Nat
        BY <1>1, StreamNumbers
      <3>3. got'[u] = got[u] /\ batch'[u] = batch[u] /\ work'[u] = work[u]
        BY <1>3
      <3> DEFINE g == got[u]
                 b == Count(batch[u], Counted)
                 c == Count(a, Counted)
                 f == Count(from', TokensOf(u))
                 d == IF m.t \in Counted THEN 1 ELSE 0
      <3>4. g \in Nat /\ b \in Nat /\ c \in Nat /\ f \in Nat /\ d \in Nat /\ g + b + c + (f + d) = work[u]
        BY <2>5, <2>6, <3>1, <3>2
      <3> HIDE DEF g, b, c, f, d
      <3>5. g + b + (c + d) + f = work[u]
        BY <3>4
      <3> QED BY <2>3, <3>3, <3>5 DEF g, b, c, f, d
    <2>8. LastQueued(u)'
      <3> SUFFICES ASSUME client[u] \in {"waiting", "yield"}, NEW i \in 1..n, ack'[u][i] \in Terminal
                   PROVE  /\ Over(u)' /\ \A j \in 1..n : i < j => ack'[u][j] \notin Counted
                          /\ \A j \in 1..Len(from') : from'[j].t \in Counted => from'[j].uid # u
        BY <1>3, <2>2 DEF LastQueued
      <3>1. CASE i \in 1..Len(a)
        <4>1. a[i] \in Terminal
          BY <2>2, <3>1
        <4>2. /\ Over(u) /\ \A j \in 1..Len(a) : i < j => a[j] \notin Counted
              /\ \A j \in 1..Len(from) : from[j].t \in Counted => from[j].uid # u
          BY <1>11, <3>1, <4>1 DEF StreamInv, Stream, LastQueued, a
        <4>3. m.t \notin Counted
          BY <1>5, <1>11, <4>2
        <4>4. \A j \in 1..n : i < j => ack'[u][j] \notin Counted
          BY <2>2, <4>2, <4>3
        <4> QED BY <1>1, <1>9, <4>2, <4>4
      <3>2. CASE i = n
        <4>1. m.t \in Terminal
          BY <2>2, <3>2
        <4>2. Over(u)
          BY <1>5, <1>11, <4>1 DEF BackInv, RepliesInOrder
        <4>3. \A j \in 1..n : ~(i < j)
          BY <2>2, <3>2 DEF n
        <4>4. \A j \in 1..Len(from') : from'[j].t \in Counted => from'[j].uid # u
          <5> SUFFICES ASSUME NEW j \in 1..Len(from'), from'[j].t \in Counted, from'[j].uid = u
                       PROVE  FALSE
            OBVIOUS
          <5>1. j + 1 \in 1..Len(from) /\ from'[j] = from[j + 1] /\ 1 < j + 1
            BY <1>5
          <5> QED BY <1>5, <1>11, <4>1, <5>1 DEF BackInv, RepliesInOrder
        <4> QED BY <1>1, <4>2, <4>3, <4>4
      <3> QED BY <2>2, <3>1, <3>2
    <2>9. LastHeld(u)' /\ Ended(u)'
      BY <1>1, <1>3 DEF StreamInv, Stream, LastHeld, Ended
    <2> QED BY <2>7, <2>8, <2>9 DEF Stream
  <1> QED BY <1>8, <1>10, <1>11 DEF StreamInv

LEMMA WakeStreams ==
  ASSUME BackInv, StreamInv, NEW u \in Uids, Wake(u)
  PROVE  StreamInv'
  <1>1. /\ Types /\ Handles(u) /\ Elsewhere(u)
        /\ \A v \in Uids : (Over(v) => Over(v)') /\ (Silent(v) => Silent(v)')
    BY Handlers, HandlerKeeps DEF BackInv, Handles
  <1>2. /\ client[u] = "waiting" /\ batch[u] = <<>>
        /\ UNCHANGED <<to, from, work, got, inflight>>
    BY <1>1 DEF Wake, Types, Handles, clientVars, engineVars
  <1>3. \A v \in Uids \ {u} : Stream(v)'
    BY <1>1, <1>2, StreamStays DEF StreamInv, Elsewhere
  <1>4. CASE u \notin Mapped
    <2>1. client' = [client EXCEPT ![u] = "error"] /\ UNCHANGED <<batch, ack>>
      BY <1>4 DEF Wake
    <2>2. client'[u] = "error" /\ Mapped' = Mapped
      BY <1>1, <2>1 DEF Types, Mapped
    <2>3. Stream(u)'
      BY <2>2 DEF Stream, Whole, LastQueued, LastHeld, Ended
    <2>4. Entries'
      BY <1>1, <1>2, <1>4, <2>2 DEF StreamInv, Entries, Elsewhere, Types
    <2> QED BY <1>3, <2>3, <2>4 DEF StreamInv
  <1>5. CASE u \in Mapped
    <2>1. /\ batch' = [batch EXCEPT ![u] = ack[u]] /\ ack' = [ack EXCEPT ![u] = <<>>]
          /\ client' = [client EXCEPT ![u] = IF ack[u] = <<>> THEN "waiting" ELSE "yield"]
      BY <1>5 DEF Wake
    <2>2. /\ batch'[u] = ack[u] /\ ack'[u] = <<>> /\ Mapped' = Mapped
          /\ client'[u] \in {"waiting", "yield"} /\ got'[u] = got[u] /\ work'[u] = work[u]
      BY <1>1, <1>2, <1>5, <2>1 DEF Types, Mapped
    <2>3. Entries'
      BY <1>1, <1>2, <2>2 DEF StreamInv, Entries, Elsewhere, Types
    <2>4. /\ got[u] + Count(batch[u], Counted) + Count(ack[u], Counted) + Count(from, TokensOf(u)) = work[u]
          /\ Count(batch[u], Counted) = 0 /\ Count(<<>>, Counted) = 0
          /\ got[u] \in Nat /\ Count(ack[u], Counted) \in Nat /\ Count(from, TokensOf(u)) \in Nat
      BY <1>1, <1>2, <1>5, StreamNumbers DEF StreamInv, Stream, Whole
    <2>5. got[u] + Count(ack[u], Counted) + Count(from, TokensOf(u)) = work[u]
      <3> DEFINE g == got[u]
                 c == Count(ack[u], Counted)
                 f == Count(from, TokensOf(u))
                 b == Count(batch[u], Counted)
      <3>1. g \in Nat /\ c \in Nat /\ f \in Nat /\ b = 0 /\ g + b + c + f = work[u]
        BY <2>4
      <3> HIDE DEF g, c, f, b
      <3>2. g + c + f = work[u]
        BY <3>1
      <3> QED BY <3>2 DEF g, c, f
    <2>6. Whole(u)'
      <3> DEFINE g == got[u]
                 c == Count(ack[u], Counted)
                 f == Count(from, TokensOf(u))
                 e == Count(<<>>, Counted)
      <3>1. g \in Nat /\ c \in Nat /\ f \in Nat /\ e = 0 /\ g + c + f = work[u]
        BY <2>4, <2>5
      <3> HIDE DEF g, c, f, e
      <3>2. g + c + e + f = work[u]
        BY <3>1
      <3> QED BY <1>2, <2>2, <3>2 DEF Whole, g, c, e, f
    <2>7. LastQueued(u)'
      BY <2>2 DEF LastQueued
    <2>8. LastHeld(u)'
      <3> SUFFICES ASSUME NEW i \in 1..Len(ack[u]), ack[u][i] \in Terminal
                   PROVE  /\ Over(u)' /\ \A j \in 1..Len(ack[u]) : i < j => ack[u][j] \notin Counted
                          /\ got[u] + Count(ack[u], Counted) = work[u]
        BY <2>2 DEF LastHeld
      <3>1. /\ Over(u) /\ \A j \in 1..Len(ack[u]) : i < j => ack[u][j] \notin Counted
            /\ \A j \in 1..Len(from) : from[j].t \in Counted => from[j].uid # u
        BY <1>2, <1>5 DEF StreamInv, Stream, LastQueued
      <3>2. Count(from, TokensOf(u)) = 0
        <4>1. \A j \in 1..Len(from) : from[j] \notin TokensOf(u)
          BY <3>1 DEF TokensOf
        <4> QED BY <4>1, CountNone
      <3>3. got[u] + Count(ack[u], Counted) = work[u]
        BY <2>4, <2>5, <3>2
      <3> QED BY <1>1, <3>1, <3>3
    <2>9. Ended(u)'
      BY <2>2 DEF Ended
    <2> QED BY <1>3, <2>3, <2>6, <2>7, <2>8, <2>9 DEF StreamInv, Stream
  <1> QED BY <1>4, <1>5

LEMMA YieldStreams ==
  ASSUME BackInv, StreamInv, NEW u \in Uids, Yield(u)
  PROVE  StreamInv'
  <1>1. /\ Types /\ Handles(u) /\ Elsewhere(u)
        /\ \A v \in Uids : (Over(v) => Over(v)') /\ (Silent(v) => Silent(v)')
    BY Handlers, HandlerKeeps DEF BackInv, Handles
  <1>2. PICK b, t : b = batch[u] /\ t = Head(b)
    OBVIOUS
  <1>3. /\ client[u] = "yield" /\ b # <<>> /\ b \in Seq(Kinds) /\ t = b[1]
        /\ got'[u] = got[u] + (IF t \in Counted THEN 1 ELSE 0)
        /\ client'[u] = IF t \in Terminal THEN "done" ELSE IF Len(b) = 1 THEN "waiting" ELSE "yield"
        /\ batch'[u] = Tail(b) /\ ack' = AckAfter(u, t)
        /\ UNCHANGED <<to, from, work, inflight>>
    BY <1>1, <1>2 DEF Yield, Types, Handles
  <1>4. /\ Tail(b) \in Seq(Kinds) /\ Len(b) \in Nat /\ Len(b) > 0 /\ Len(Tail(b)) = Len(b) - 1
        /\ \A i \in 1..Len(Tail(b)) : Tail(b)[i] = b[i + 1]
    BY <1>3
  <1>5. /\ Count(b, Counted) = Count(Tail(b), Counted) + (IF t \in Counted THEN 1 ELSE 0)
        /\ Count(Tail(b), Counted) \in Nat /\ got[u] \in Nat /\ work[u] \in Nat
    BY <1>1, <1>3, <1>4, CountTail, CountType, StreamNumbers
  <1>6. \A v \in Uids \ {u} : Stream(v)'
    BY <1>1, <1>3, StreamStays DEF StreamInv, Elsewhere
  <1>7. \A i \in 1..Len(b) : b[i] \in Terminal =>
          /\ Over(u) /\ \A j \in 1..Len(b) : i < j => b[j] \notin Counted
          /\ got[u] + Count(b, Counted) = work[u]
    BY <1>2, <1>3 DEF StreamInv, Stream, LastHeld
  <1>8. CASE t \in Terminal
    <2>1. client'[u] = "done" /\ ack' = Without(u)
      BY <1>3, <1>8 DEF AckAfter
    <2>2. Mapped' = Mapped \ {u} /\ Mapped \subseteq Uids
      BY <1>1, <2>1, AckWithout DEF Types
    <2>3. Entries'
      BY <1>1, <1>3, <2>2 DEF StreamInv, Entries, Elsewhere
    <2>4. /\ Over(u) /\ \A j \in 1..Len(b) : 1 < j => b[j] \notin Counted
          /\ got[u] + Count(b, Counted) = work[u]
      BY <1>3, <1>4, <1>7, <1>8
    <2>5. Count(Tail(b), Counted) = 0
      <3>1. \A i \in 1..Len(Tail(b)) : i + 1 \in 1..Len(b) /\ 1 < i + 1
        BY <1>4
      <3>2. \A i \in 1..Len(Tail(b)) : Tail(b)[i] \notin Counted
        BY <1>4, <2>4, <3>1
      <3> QED BY <3>2, CountNone
    <2>6. got'[u] = work'[u] /\ Over(u)'
      BY <1>1, <1>3, <1>5, <2>4, <2>5
    <2>7. Stream(u)'
      BY <2>1, <2>6 DEF Stream, Whole, LastQueued, LastHeld, Ended
    <2> QED BY <1>6, <2>3, <2>7 DEF StreamInv
  <1>9. CASE t \notin Terminal
    <2>1. client'[u] \in {"waiting", "yield"} /\ ack' = ack /\ Mapped' = Mapped
      BY <1>3, <1>9 DEF AckAfter, Mapped
    <2>2. Entries'
      BY <1>1, <1>3, <2>1 DEF StreamInv, Entries, Elsewhere, Types
    <2> DEFINE d == IF t \in Counted THEN 1 ELSE 0
    <2>3. got'[u] + Count(batch'[u], Counted) = got[u] + Count(b, Counted)
      <3>1. d \in Nat
        OBVIOUS
      <3> HIDE DEF d
      <3>2. (got[u] + d) + Count(Tail(b), Counted) = got[u] + (Count(Tail(b), Counted) + d)
        BY <1>5, <3>1
      <3> QED BY <1>3, <1>5, <3>2 DEF d
    <2>4. Whole(u)'
      BY <1>2, <1>3, <2>1, <2>3 DEF StreamInv, Stream, Whole
    <2>5. LastQueued(u)'
      BY <1>1, <1>3, <2>1 DEF StreamInv, Stream, LastQueued
    <2>6. LastHeld(u)'
      <3> SUFFICES ASSUME NEW i \in 1..Len(Tail(b)), Tail(b)[i] \in Terminal
                   PROVE  /\ Over(u)' /\ \A j \in 1..Len(Tail(b)) : i < j => Tail(b)[j] \notin Counted
                          /\ got'[u] + Count(Tail(b), Counted) = work'[u]
        BY <1>3 DEF LastHeld
      <3>1. i + 1 \in 1..Len(b) /\ b[i + 1] \in Terminal
        BY <1>4
      <3>2. /\ Over(u) /\ \A j \in 1..Len(b) : i + 1 < j => b[j] \notin Counted
            /\ got[u] + Count(b, Counted) = work[u]
        BY <1>7, <3>1
      <3>3. \A j \in 1..Len(Tail(b)) : i < j => j + 1 \in 1..Len(b) /\ i + 1 < j + 1
        BY <1>4
      <3>4. \A j \in 1..Len(Tail(b)) : i < j => Tail(b)[j] \notin Counted
        BY <1>4, <3>2, <3>3
      <3> QED BY <1>1, <1>3, <2>3, <3>2, <3>4
    <2>7. Ended(u)'
      BY <2>1 DEF Ended
    <2> QED BY <1>6, <2>2, <2>4, <2>5, <2>6, <2>7 DEF StreamInv, Stream
  <1> QED BY <1>8, <1>9

\* The client is gone, or an abort takes its entry away.
LEMMA LeaveStreams ==
  ASSUME BackInv, StreamInv, NEW u \in Uids, Disconnect(u) \/ CloseGenerator(u)
  PROVE  StreamInv'
  <1>1. /\ Types /\ Handles(u) /\ Elsewhere(u)
        /\ \A v \in Uids : (Over(v) => Over(v)') /\ (Silent(v) => Silent(v)')
        /\ UNCHANGED <<to, from, work, inflight>>
    BY Handlers, HandlerKeeps DEF BackInv, Handles
  <1>2. \A v \in Uids \ {u} : Stream(v)'
    BY <1>1, StreamStays DEF StreamInv, Elsewhere
  <1>3. client'[u] \in {"gone", "closed"} /\ (client'[u] = "closed" => u \notin Mapped')
    <2>1. CASE Disconnect(u)
      BY <1>1, <2>1 DEF Disconnect, Types
    <2>2. CASE CloseGenerator(u)
      BY <1>1, <2>2, AckWithout DEF CloseGenerator, Types
    <2> QED BY <2>1, <2>2
  <1>4. Stream(u)'
    BY <1>3 DEF Stream, Whole, LastQueued, LastHeld, Ended
  <1>5. Entries'
    BY <1>1, <1>3 DEF StreamInv, Entries, Elsewhere, Handles
  <1> QED BY <1>2, <1>4, <1>5 DEF StreamInv

LEMMA AbortStreams ==
  ASSUME BackInv, StreamInv, NEW u \in Uids, Aborts(u)
  PROVE  StreamInv'
  <1>1. /\ Types /\ \A v \in Uids : Over(v) => Over(v)'
        /\ \A v \in Uids \ {u} : Silent(v) => Silent(v)'
        /\ Mapped' = Mapped \ {u} /\ \A v \in Mapped \ {u} : ack'[v] = ack[v]
        /\ UNCHANGED <<from, eng, tomb, work, client, batch, got, inflight, total>>
    BY AbortKeeps DEF BackInv
  <1>2. Entries'
    BY <1>1 DEF StreamInv, Entries, Types
  <1>3. \A v \in Uids : Stream(v)'
    BY <1>1, StreamStays DEF StreamInv
  <1> QED BY <1>2, <1>3 DEF StreamInv

LEMMA SampleStreams ==
  ASSUME BackInv, StreamInv, NEW u \in Uids, NEW m \in Replies, Samples(u, m)
  PROVE  StreamInv'
  <1>1. /\ Types /\ \A v \in Uids : (Over(v) => Over(v)') /\ (Silent(v) => Silent(v)')
        /\ ~Over(u) /\ m.t \in Counted /\ m.uid = u
        /\ UNCHANGED <<client, batch, got, ack, inflight, total>>
        /\ work'[u] = work[u] + 1 /\ \A v \in Uids \ {u} : work'[v] = work[v]
    BY DEF BackInv, Samples, Types
  <1>2. /\ Len(from) \in Nat /\ Len(from') = Len(from) + 1 /\ from'[Len(from) + 1] = m
        /\ \A i \in 1..Len(from) : from'[i] = from[i]
        /\ \A S : Count(from, S) \in Nat /\ Count(from', S) = Count(from, S) + (IF m \in S THEN 1 ELSE 0)
    BY DEF Samples, Answers
  <1>3. \A i \in 1..Len(from') : i \in 1..Len(from) \/ from'[i] = m
    BY <1>2
  <1>4. Mapped' = Mapped
    BY <1>1 DEF Mapped
  <1>5. Entries'
    BY <1>1, <1>4 DEF StreamInv, Entries, Types
  <1>6. ASSUME NEW v \in Uids \ {u} PROVE Stream(v)'
    <2>1. Count(from', TokensOf(v)) = Count(from, TokensOf(v))
      BY <1>1, <1>2 DEF TokensOf
    <2>2. \A i \in 1..Len(from') : from'[i].t \in Counted /\ from'[i].uid = v =>
            \E k \in 1..Len(from) : from'[i] = from[k]
      BY <1>1, <1>2, <1>3
    <2> QED BY <1>1, <1>4, <2>1, <2>2, StreamStays DEF StreamInv
  <1>7. Stream(u)'
    <2>1. Count(from', TokensOf(u)) = Count(from, TokensOf(u)) + 1
      BY <1>1, <1>2 DEF TokensOf
    <2>2. Whole(u)'
      <3> SUFFICES ASSUME client[u] \in {"waiting", "yield"}, u \in Mapped
                   PROVE  got'[u] + Count(batch'[u], Counted) + Count(ack'[u], Counted)
                            + Count(from', TokensOf(u)) = work'[u]
        BY <1>1, <1>4 DEF Whole
      <3> DEFINE g == got[u]
                 b == Count(batch[u], Counted)
                 c == Count(ack[u], Counted)
                 f == Count(from, TokensOf(u))
      <3>1. g \in Nat /\ b \in Nat /\ c \in Nat /\ f \in Nat /\ g + b + c + f = work[u]
        BY <1>1, StreamNumbers DEF StreamInv, Stream, Whole
      <3> HIDE DEF g, b, c, f
      <3>2. g + b + c + (f + 1) = work[u] + 1
        BY <3>1
      <3> QED BY <1>1, <2>1, <3>2 DEF g, b, c, f
    <2>3. LastQueued(u)'
      BY <1>1, <1>4 DEF StreamInv, Stream, LastQueued
    <2>4. LastHeld(u)' /\ Ended(u)'
      BY <1>1 DEF StreamInv, Stream, LastHeld, Ended
    <2> QED BY <2>2, <2>3, <2>4 DEF Stream
  <1> QED BY <1>5, <1>6, <1>7 DEF StreamInv

LEMMA InitStream == Init => StreamInv
  <1> SUFFICES ASSUME Init PROVE StreamInv
    OBVIOUS
  <1>1. Mapped = {} /\ \A u \in Uids : client[u] = "none"
    BY DEF Init, Mapped
  <1> QED BY <1>1 DEF StreamInv, Entries, Stream, Whole, LastQueued, LastHeld, Ended

LEMMA StepStream == BackInv /\ StreamInv /\ [Next]_vars => StreamInv'
  <1> SUFFICES ASSUME BackInv, StreamInv, [Next]_vars PROVE StreamInv'
    OBVIOUS
  <1>1. Kinds_of_step
    BY Classes
  <1>2. CASE Bystander
    BY <1>2, BystanderIsQuiet, QuietKeeps
  <1>3. CASE Settles
    <2>1. Quiet
      BY <1>3 DEF Settles, Quiet
    <2> QED BY <2>1, QuietKeeps
  <1> QED
    BY <1>1, <1>2, <1>3, GenerateStreams, DeliverStreams, WakeStreams, YieldStreams, LeaveStreams,
       AbortStreams, SampleStreams
    DEF Kinds_of_step

LEMMA StreamAlways == Spec => []StreamInv
  BY BackAlways, InitStream, StepStream, PTL DEF Spec

-----------------------------------------------------------------------------
(* The first four theorems. *)

(* A request the scheduler may hold (queued or decoding) is one the drain  *)
(* of prepare_stop_accounting waits for: the stats listener drops a uid on *)
(* its terminal reply only, and nothing of it runs after that.             *)
THEOREM BusyAlwaysInflight == Spec => []BusyIsInflight
  <1>1. BackInv => BusyIsInflight
    BY DEF BackInv, IdleIsOver, Over, BusyIsInflight
  <1> QED BY <1>1, BackAlways, PTL

(* wait_for_ack loses no ack and stops at the terminal one: a client that  *)
(* saw the end of its stream was sent every token the scheduler produced,  *)
(* whatever arrived while an earlier ack was being written.                *)
THEOREM StreamsAlwaysWhole == Spec => []StreamComplete
  <1>1. BackInv /\ StreamInv => StreamComplete
    BY DEF StreamInv, Stream, Ended, StreamComplete
  <1> QED BY <1>1, BackAlways, StreamAlways, PTL

(* Each entry of ack_map and event_map has an owner that will remove it: a *)
(* handler, an abort on its way, or a request still to be answered.        *)
THEOREM AckMapAlwaysBounded == Spec => []AckMapBounded
  <1>1. BackInv /\ StreamInv => AckMapBounded
    <2> SUFFICES ASSUME BackInv, StreamInv, NEW u \in Mapped
                 PROVE  u \in Connected \cup inflight \cup sleeping \cup {v \in Uids : client[v] = "gone"}
      BY DEF AckMapBounded
    <2>1. u \in Uids
      BY DEF BackInv, Types
    <2> QED BY <2>1 DEF StreamInv, Entries, Connected
  <1> QED BY <1>1, BackAlways, StreamAlways, PTL

-----------------------------------------------------------------------------
(* The supervisor thread. *)

\* The supervisor acts on a death it saw; shutdown() ends workers after its flag.
Deaths ==
  /\ sup \in {"dead", "latch"} => backend \in Gone
  /\ backend = "terminated" => down
  /\ fatal => backend \in {"crashed", "signalled"} /\ sup \in {"latch", "gone"}
  /\ sup = "latch" => fatal
  /\ fatal \in BOOLEAN

LEMMA InitDeaths == Init => Deaths
  BY DEF Init, Deaths

LEMMA StepDeaths == BackInv /\ Deaths /\ [Next]_vars => Deaths'
  <1> SUFFICES ASSUME BackInv, Deaths, [Next]_vars PROVE Deaths'
    OBVIOUS
  <1> USE DEF Deaths, Gone, gateVars, threadVars, lifeVars, engineVars, clientVars, statsVars, stopVars, rebuildVars
  <1>1. CASE UNCHANGED <<sup, backend, down, fatal>>
    BY <1>1
  <1>2. CASE SupervisorReady \/ SupervisorOpens
    BY <1>2 DEF SupervisorReady, SupervisorOpens
  <1>3. CASE SupervisorSeesDeath
    BY <1>3 DEF SupervisorSeesDeath
  <1>4. CASE SupervisorDecides
    BY <1>4 DEF SupervisorDecides
  <1>5. CASE SupervisorLatches
    BY <1>5 DEF SupervisorLatches
  <1>6. CASE ShutdownFlag
    BY <1>6 DEF ShutdownFlag
  <1>7. CASE ShutdownKill
    BY <1>7 DEF ShutdownKill, Flagged
  <1>8. CASE Loaded
    BY <1>8 DEF Loaded
  <1>9. CASE Crash \/ GroupSignal
    BY <1>9 DEF Crash, GroupSignal
  <1>10. CASE \/ StoreGate \/ PrepareStop \/ Seal \/ DrainTimeout \/ SettleTimeout
              \/ Rebuild \/ RebuildSent \/ RebuildNotSent \/ RebuildAnswered \/ RebuildTimeout
              \/ ResolveRebuild \/ ResolveAll \/ Sigterm \/ ExitTimer \/ UNCHANGED vars
    <2>1. UNCHANGED <<sup, backend, down, fatal>>
      BY <1>10 DEF StoreGate, PrepareStop, Seal, DrainTimeout, SettleTimeout, Rebuild, RebuildSent,
           RebuildNotSent, RebuildAnswered, RebuildTimeout, ResolveRebuild, ResolveAll, Sigterm, ExitTimer, vars
    <2> QED BY <1>1, <2>1
  <1>11. CASE Deliver \/ \E u \in Uids : \/ \E sent \in BOOLEAN : Generate(u, sent)
                                         \/ Handler(u) \/ Disconnect(u)
    <2>1. UNCHANGED <<sup, backend, down, fatal>>
      BY <1>11 DEF Deliver, Generate, Handler, Wake, Yield, CloseGenerator, AbortTask, AbortForStop, Disconnect
    <2> QED BY <1>1, <2>1
  <1>12. CASE Backend
    <2>1. UNCHANGED <<sup, backend, down, fatal>>
      BY <1>12 DEF Backend, Take, Admit, Sample, Reply
    <2> QED BY <1>1, <2>1
  <1> QED
    BY <1>2, <1>3, <1>4, <1>5, <1>6, <1>7, <1>8, <1>9, <1>10, <1>11, <1>12 DEF Next, Supervisor

LEMMA DeathsAlways == Spec => []Deaths
  BY BackAlways, InitDeaths, StepDeaths, PTL DEF Spec

(* Workers that shutdown() ends are never latched as a crash: the flag is  *)
(* raised before they are told to go, and the supervisor looks at it after *)
(* it saw them gone.  Those that die before, from the same signal, may be. *)
THEOREM StopNeverACrash == Spec => []StopIsNotACrash
  <1>1. Deaths => StopIsNotACrash
    BY DEF Deaths, StopIsNotACrash
  <1> QED BY <1>1, DeathsAlways, PTL

-----------------------------------------------------------------------------
(* Every step keeps Accounts. *)

LEMMA Produce ==
  ASSUME Types
  PROVE  /\ Produced \in Nat
         /\ \A u \in Uids : work' = [work EXCEPT ![u] = @ + 1] => Produced' = Produced + 1
  <1> DEFINE P == UNION {{v} \X (1..work[v]) : v \in Uids}
             f == [v \in Uids |-> {v} \X (1..work[v])]
             T == {f[v] : v \in Uids}
  <1>1. ASSUME NEW v \in Uids
        PROVE  work[v] \in Nat /\ IsFiniteSet({v} \X (1..work[v]))
    <2>1. work[v] \in Nat
      BY DEF Types
    <2>2. IsFiniteSet(1..work[v])
      BY <2>1, FS_Interval
    <2>3. IsFiniteSet({v})
      BY FS_Singleton, Zenon
    <2>4. IsFiniteSet({v} \X (1..work[v]))
      BY <2>2, <2>3, FS_Product
    <2> QED BY <2>1, <2>4
  <1>2. IsFiniteSet(T)
    <2>1. f \in Surjection(Uids, T)
      BY DEF Surjection
    <2>2. IsFiniteSet(Uids)
      BY FrontendAssumption
    <2> HIDE DEF f, T
    <2> QED BY <2>1, <2>2, FS_Surjection
  <1>3. IsFiniteSet(P)
    <2>1. \A t \in T : IsFiniteSet(t)
      BY <1>1
    <2>2. P = UNION T
      OBVIOUS
    <2> HIDE DEF f, T, P
    <2> QED BY <1>2, <2>1, <2>2, FS_UNION
  <1>4. Produced \in Nat
    BY <1>3, FS_CardinalityType DEF Produced
  <1>5. ASSUME NEW u \in Uids, work' = [work EXCEPT ![u] = @ + 1]
        PROVE  Produced' = Produced + 1
    <2> DEFINE n == work[u] + 1
               Q == UNION {{v} \X (1..work'[v]) : v \in Uids}
    <2>1. /\ work[u] \in Nat /\ work'[u] = n /\ 1..n = 1..work[u] \cup {n} /\ n \notin 1..work[u]
          /\ \A v \in Uids \ {u} : work'[v] = work[v]
      BY <1>1, <1>5 DEF Types
    <2> HIDE DEF n
    <2>2. Q = P \cup {<<u, n>>}
      <3>1. \A x : x \in P <=> \E v \in Uids : x \in {v} \X (1..work[v])
        OBVIOUS
      <3>2. \A x : x \in Q <=> \E v \in Uids : x \in {v} \X (1..work'[v])
        OBVIOUS
      <3> HIDE DEF P, Q
      <3>3. \A x : x \in {u} \X (1..work'[u]) <=> x \in {u} \X (1..work[u]) \/ x = <<u, n>>
        <4>1. 1..work'[u] = 1..work[u] \cup {n}
          BY <2>1
        <4> QED BY <4>1
      <3>4. \A x : x \in Q <=> x \in P \/ x = <<u, n>>
        BY <2>1, <3>1, <3>2, <3>3
      <3> QED BY <3>4
    <2>3. <<u, n>> \notin P
      BY <2>1
    <2>4. Cardinality(P \cup {<<u, n>>}) = Cardinality(P) + 1
      <3> HIDE DEF P
      <3> QED BY <1>3, <2>3, FS_AddElement
    <2>5. Produced' = Cardinality(Q)
      BY DEF Produced
    <2> QED BY <2>2, <2>4, <2>5 DEF Produced
  <1> QED BY <1>4, <1>5

LEMMA InitAccounts == Init => Accounts
  <1> SUFFICES ASSUME Init PROVE Accounts
    OBVIOUS
  <1>1. total = 0 /\ from = <<>> /\ Len(from) = 0 /\ \A u \in Uids : work[u] = 0
    BY DEF Init
  <1>2. Count(from, TokenReplies) = 0
    BY <1>1, CountNone
  <1>3. UNION {{v} \X (1..work[v]) : v \in Uids} = {}
    BY <1>1
  <1>4. Produced = 0
    BY <1>3, FS_EmptySet DEF Produced
  <1> QED BY <1>1, <1>2, <1>4 DEF Accounts

LEMMA StepAccounts == BackInv /\ Accounts /\ [Next]_vars => Accounts'
  <1> SUFFICES ASSUME BackInv, Accounts, [Next]_vars PROVE Accounts'
    OBVIOUS
  <1>0. Types /\ Kinds_of_step
    BY Classes DEF BackInv
  <1>1. ASSUME UNCHANGED <<work, total>>, Count(from', TokenReplies) = Count(from, TokenReplies)
        PROVE  Accounts'
    BY <1>1 DEF Accounts, Produced
  <1>2. CASE Bystander
    <2>1. Quiet /\ total' = total
      BY <1>2, BystanderIsQuiet
    <2>2. Count(from', TokenReplies) = Count(from, TokenReplies)
      BY <2>1 DEF Quiet, TokenReplies
    <2> QED BY <1>1, <2>1, <2>2 DEF Quiet
  <1>3. CASE Settles
    <2>1. Count(from', TokenReplies) = Count(from, TokenReplies)
      BY <1>3 DEF Settles, TokenReplies
    <2> QED BY <1>1, <1>3, <2>1 DEF Settles
  <1>4. CASE \E u \in Uids, sent \in BOOLEAN : Generate(u, sent)
    BY <1>1, <1>4 DEF Generate, engineVars
  <1>5. CASE \E u \in Uids : Wake(u) \/ Yield(u) \/ Disconnect(u) \/ CloseGenerator(u)
    <2>1. PICK u \in Uids : Handles(u)
      BY <1>5, Handlers
    <2> QED BY <1>1, <2>1 DEF Handles
  <1>6. CASE \E u \in Uids : Aborts(u)
    <2>1. UNCHANGED <<from, work, total>>
      BY <1>6, AbortKeeps
    <2> QED BY <1>1, <2>1
  <1>7. CASE Deliver
    <2>1. PICK m : m = Head(from)
      OBVIOUS
    <2>2. UNCHANGED work /\ total' = total + (IF m.t \in Counted THEN 1 ELSE 0) /\ Reads(m)
      BY <1>0, <1>7, <2>1, TailReads DEF Deliver, Observe, engineVars
    <2>3. /\ m \in TokenReplies <=> m.t \in Counted
          /\ Count(from', TokenReplies) \in Nat
          /\ Count(from, TokenReplies) = Count(from', TokenReplies) + (IF m.t \in Counted THEN 1 ELSE 0)
      BY <2>2 DEF Reads, TokenReplies
    <2>4. Produced' = Produced
      BY <2>2 DEF Produced
    <2>5. total \in Nat
      BY <1>0 DEF Types
    <2> DEFINE d == IF m.t \in Counted THEN 1 ELSE 0
               c == Count(from', TokenReplies)
    <2>6. d \in Nat /\ c \in Nat /\ total + (c + d) = Produced
      BY <2>3 DEF Accounts
    <2> HIDE DEF d, c
    <2>7. (total + d) + c = Produced
      BY <2>5, <2>6
    <2> QED BY <2>2, <2>4, <2>7 DEF Accounts, d, c
  <1>8. CASE \E u \in Uids, m \in Replies : Samples(u, m)
    <2>1. PICK u \in Uids, m \in Replies : Samples(u, m)
      BY <1>8
    <2>2. Produced' = Produced + 1 /\ total' = total
      BY <1>0, <2>1, Produce DEF Samples
    <2>3. /\ Count(from, TokenReplies) \in Nat
          /\ Count(from', TokenReplies) = Count(from, TokenReplies) + 1
      BY <2>1 DEF Samples, Answers, TokenReplies
    <2>4. total \in Nat
      BY <1>0 DEF Types
    <2> DEFINE c == Count(from, TokenReplies)
    <2>5. c \in Nat /\ total + c = Produced
      BY <2>3 DEF Accounts
    <2> HIDE DEF c
    <2>6. total + (c + 1) = Produced + 1
      BY <2>4, <2>5
    <2> QED BY <2>2, <2>3, <2>6 DEF Accounts, c
  <1> QED BY <1>0, <1>2, <1>3, <1>4, <1>5, <1>6, <1>7, <1>8 DEF Kinds_of_step

(* No token is lost on the way to the totals of /v1/stats: what was added  *)
(* and what is still in the queue is what the scheduler sent.              *)
THEOREM TokensAlwaysCounted == Spec => []Accounts
  BY BackAlways, InitAccounts, StepAccounts, PTL DEF Spec

-----------------------------------------------------------------------------
(* The gate: the rebuild's messages. *)

LEMMA SoloAppend ==
  ASSUME NEW X, NEW s \in Seq(X), NEW m \in X, NEW k
  PROVE  /\ Has(Append(s, m), k) <=> Has(s, k) \/ m.t = k
         /\ Solo(s, k) /\ (m.t = k => ~Has(s, k)) => Solo(Append(s, m), k)
  <1> DEFINE a == Append(s, m)
             n == Len(s) + 1
  <1>1. /\ Len(s) \in Nat /\ Len(a) = n /\ a[n] = m /\ \A i \in 1..Len(s) : a[i] = s[i]
    OBVIOUS
  <1>2. 1..n = 1..Len(s) \cup {n} /\ n \notin 1..Len(s)
    BY <1>1
  <1> HIDE DEF a, n
  <1>3. Has(a, k) <=> Has(s, k) \/ m.t = k
    <2>1. Has(a, k) <=> \E i \in 1..n : a[i].t = k
      BY <1>1 DEF Has
    <2>2. (\E i \in 1..n : a[i].t = k) <=> (\E i \in 1..Len(s) : a[i].t = k) \/ m.t = k
      BY <1>1, <1>2
    <2> QED BY <1>1, <2>1, <2>2 DEF Has
  <1>4. ASSUME Solo(s, k), m.t = k => ~Has(s, k) PROVE Solo(a, k)
    <2> SUFFICES ASSUME NEW i \in 1..n, NEW j \in 1..n, a[i].t = k, a[j].t = k PROVE i = j
      BY <1>1 DEF Solo
    <2>1. CASE i # n /\ j # n
      <3>1. i \in 1..Len(s) /\ j \in 1..Len(s)
        BY <1>2, <2>1
      <3> QED BY <1>1, <1>4, <3>1 DEF Solo
    <2>2. CASE i = n /\ j # n
      <3>1. j \in 1..Len(s) /\ s[j].t = k /\ m.t = k
        BY <1>1, <1>2, <2>2
      <3> QED BY <1>4, <3>1 DEF Has
    <2>3. CASE j = n /\ i # n
      <3>1. i \in 1..Len(s) /\ s[i].t = k /\ m.t = k
        BY <1>1, <1>2, <2>3
      <3> QED BY <1>4, <3>1 DEF Has
    <2> QED BY <2>1, <2>2, <2>3
  <1> QED BY <1>3, <1>4 DEF a

LEMMA SoloTail ==
  ASSUME NEW X, NEW s \in Seq(X), s # <<>>, NEW k
  PROVE  /\ Has(Tail(s), k) => Has(s, k)
         /\ Solo(s, k) => Solo(Tail(s), k) /\ (Head(s).t = k => ~Has(Tail(s), k))
         /\ Head(s).t = k => Has(s, k)
  <1>1. /\ Len(s) \in Nat /\ Len(s) > 0 /\ Len(Tail(s)) = Len(s) - 1 /\ Head(s) = s[1]
        /\ 1 \in 1..Len(s)
        /\ \A i \in 1..Len(Tail(s)) : i + 1 \in 1..Len(s) /\ i + 1 # 1 /\ Tail(s)[i] = s[i + 1]
    OBVIOUS
  <1>2. Has(Tail(s), k) => Has(s, k)
    BY <1>1 DEF Has
  <1>3. Head(s).t = k => Has(s, k)
    BY <1>1 DEF Has
  <1>4. ASSUME Solo(s, k) PROVE Solo(Tail(s), k) /\ (Head(s).t = k => ~Has(Tail(s), k))
    <2>1. ASSUME NEW i \in 1..Len(Tail(s)), NEW j \in 1..Len(Tail(s)), Tail(s)[i].t = k, Tail(s)[j].t = k
          PROVE  i = j
      <3>1. i + 1 = j + 1
        BY <1>1, <1>4, <2>1 DEF Solo
      <3> QED BY <3>1
    <2>2. ASSUME Head(s).t = k, NEW i \in 1..Len(Tail(s)), Tail(s)[i].t = k PROVE FALSE
      BY <1>1, <1>4, <2>2 DEF Solo
    <2> QED BY <2>1, <2>2 DEF Solo, Has
  <1> QED BY <1>2, <1>3, <1>4

LEMMA SoloRemove ==
  ASSUME NEW X, NEW s \in Seq(X), NEW l \in 1..Len(s), NEW k
  PROVE  /\ Has(RemoveAt(s, l), k) => Has(s, k)
         /\ Solo(s, k) => Solo(RemoveAt(s, l), k) /\ (s[l].t = k => ~Has(RemoveAt(s, l), k))
         /\ s[l].t = k => Has(s, k)
  <1> DEFINE r == RemoveAt(s, l)
             n == Len(s)
             at(j) == IF j < l THEN j ELSE j + 1
  <1>0. /\ Len(RemoveAt(s, l)) = Len(s) - 1
        /\ \A j \in 1..(Len(s) - 1) : RemoveAt(s, l)[j] = IF j < l THEN s[j] ELSE s[j + 1]
    BY Removed
  <1>1. n \in Nat /\ l \in 1..n /\ Len(r) = n - 1 /\ \A j \in 1..(n - 1) : r[j] = s[at(j)]
    BY <1>0
  <1>2. /\ \A j \in 1..(n - 1) : at(j) \in 1..n /\ at(j) # l
        /\ \A i, j \in 1..(n - 1) : at(i) = at(j) => i = j
    BY <1>1
  <1>3. s[l].t = k => Has(s, k)
    BY DEF Has
  <1> HIDE DEF r, at
  <1>4. Has(r, k) => Has(s, k)
    BY <1>1, <1>2 DEF Has
  <1>5. ASSUME Solo(s, k) PROVE Solo(r, k) /\ (s[l].t = k => ~Has(r, k))
    <2>1. ASSUME NEW i \in 1..(n - 1), NEW j \in 1..(n - 1), r[i].t = k, r[j].t = k PROVE i = j
      <3>1. at(i) = at(j)
        BY <1>1, <1>2, <1>5, <2>1 DEF Solo
      <3> QED BY <1>2, <3>1
    <2>2. ASSUME s[l].t = k, NEW j \in 1..(n - 1), r[j].t = k PROVE FALSE
      BY <1>1, <1>2, <1>5, <2>2 DEF Solo
    <2> QED BY <1>1, <2>1, <2>2 DEF Solo, Has
  <1> QED BY <1>3, <1>4, <1>5 DEF r

\* No message of a rebuild is new.
RebuildsStay ==
  /\ Has(to', "rebuild") => Has(to, "rebuild")
  /\ Has(from', "rebuilt") => Has(from, "rebuilt")
  /\ Solo(to, "rebuild") => Solo(to', "rebuild")
  /\ Solo(from, "rebuilt") => Solo(from', "rebuilt")

\* What the handlers, the aborts, the replies and the samples do to the queues.
LEMMA RequestsStay ==
  ASSUME Types,
         \/ UNCHANGED to \/ \E m \in Messages : m.t # "rebuild" /\ to' = Append(to, m),
         \/ UNCHANGED from \/ (\E m \in Replies : m.t # "rebuilt" /\ from' = Append(from, m))
         \/ from # <<>> /\ from' = Tail(from)
  PROVE  RebuildsStay
  <1>1. to \in Seq(Messages) /\ from \in Seq(Replies)
    BY DEF Types
  <1>2. (Has(to', "rebuild") => Has(to, "rebuild")) /\ (Solo(to, "rebuild") => Solo(to', "rebuild"))
    BY <1>1, SoloAppend
  <1>3. (Has(from', "rebuilt") => Has(from, "rebuilt")) /\ (Solo(from, "rebuilt") => Solo(from', "rebuilt"))
    <2>1. CASE \E m \in Replies : m.t # "rebuilt" /\ from' = Append(from, m)
      BY <1>1, <2>1, SoloAppend
    <2>2. CASE from # <<>> /\ from' = Tail(from)
      BY <1>1, <2>2, SoloTail
    <2> QED BY <2>1, <2>2
  <1> QED BY <1>2, <1>3 DEF RebuildsStay

\* The message of the rebuild is taken, and answered.
RebuildDone ==
  /\ Has(to, "rebuild") /\ (Solo(to, "rebuild") => ~Has(to', "rebuild") /\ Solo(to', "rebuild"))
  /\ Solo(from, "rebuilt") /\ ~Has(from, "rebuilt") => Solo(from', "rebuilt")

\* A message taken: of a request, or the rebuild's.
LEMMA TakeRebuilds ==
  ASSUME Types, NEW i \in 1..Len(to), Take(i)
  PROVE  RebuildsStay \/ RebuildDone
  <1>1. PICK m : m = to[i]
    OBVIOUS
  <1>2. to \in Seq(Messages) /\ from \in Seq(Replies) /\ to' = RemoveAt(to, i) /\ m \in Messages
    BY <1>1 DEF Types, Take
  <1>3. /\ Has(to', "rebuild") => Has(to, "rebuild")
        /\ Solo(to, "rebuild") => Solo(to', "rebuild") /\ (m.t = "rebuild" => ~Has(to', "rebuild"))
        /\ m.t = "rebuild" => Has(to, "rebuild")
    BY <1>1, <1>2, SoloRemove
  <1>4. \/ m.t = "gen" /\ TakeRequest(m.uid)
        \/ m.t = "abort" /\ TakeAbort(m.uid)
        \/ m.t = "rebuild" /\ \E ok \in BOOLEAN : TakeRebuild(m.uid, ok)
    BY <1>1 DEF Take
  <1>5. CASE m.t # "rebuild"
    <2>1. m.uid \in Uids
      BY <1>2, <1>5 DEF Messages
    <2>2. PICK a : a = [t |-> "end", uid |-> m.uid]
      OBVIOUS
    <2>3. a \in Replies /\ a.t = "end"
      BY <2>1, <2>2 DEF Replies, Kinds, Terminal
    <2>4. from' = from \/ from' = Append(from, a)
      BY <1>4, <1>5, <2>2 DEF TakeRequest, TakeAbort
    <2>5. (Has(from', "rebuilt") => Has(from, "rebuilt")) /\ (Solo(from, "rebuilt") => Solo(from', "rebuilt"))
      BY <1>2, <2>3, <2>4, SoloAppend
    <2> QED BY <1>3, <2>5 DEF RebuildsStay
  <1>6. CASE m.t = "rebuild"
    <2>1. PICK ok \in BOOLEAN : TakeRebuild(m.uid, ok)
      BY <1>4, <1>6
    <2>2. PICK a : a = [t |-> "rebuilt", uid |-> m.uid, ok |-> ok]
      OBVIOUS
    <2>3. a \in Replies
      BY <1>2, <1>6, <2>2 DEF Replies, Messages
    <2>4. from' = Append(from, a)
      BY <2>1, <2>2 DEF TakeRebuild
    <2>5. Solo(from, "rebuilt") /\ ~Has(from, "rebuilt") => Solo(from', "rebuilt")
      BY <1>2, <2>3, <2>4, SoloAppend
    <2> QED BY <1>3, <1>6, <2>5 DEF RebuildDone
  <1> QED BY <1>5, <1>6

-----------------------------------------------------------------------------
(* The gate: every step keeps GateKept.                                    *)

gates == <<gate, pend, fatal, sup, stop, todo, sealed, rb, backend>>

\* The request steps leave the gate, the stop, the rebuild and the supervisor alone.
LEMMA RequestGates ==
  ASSUME BackInv,
         Deliver \/ \E u \in Uids : \/ \E sent \in BOOLEAN : Generate(u, sent) \/ AbortTask(u, sent)
                                    \/ Wake(u) \/ Yield(u) \/ CloseGenerator(u) \/ Disconnect(u)
                                    \/ Admit(u) \/ Sample(u)
  PROVE  UNCHANGED gates /\ RebuildsStay /\ UNCHANGED sealed
  <1> USE DEF gates, gateVars, threadVars, lifeVars, stopVars, rebuildVars
  <1>0. Types
    BY DEF BackInv
  <1>1. CASE Deliver
    <2>1. UNCHANGED gates /\ UNCHANGED to /\ from # <<>> /\ from' = Tail(from)
      BY <1>1 DEF Deliver
    <2> QED BY <1>0, <2>1, RequestsStay
  <1>2. ASSUME NEW u \in Uids, NEW sent \in BOOLEAN, Generate(u, sent) \/ AbortTask(u, sent)
        PROVE  UNCHANGED gates /\ RebuildsStay
    <2>1. PICK t \in {"gen", "abort"} : to' = IF sent THEN Append(to, [t |-> t, uid |-> u]) ELSE to
      BY <1>2 DEF Generate, AbortTask, AbortUser
    <2>2. [t |-> t, uid |-> u] \in Messages /\ [t |-> t, uid |-> u].t # "rebuild"
      BY DEF Messages
    <2>3. UNCHANGED to \/ \E m \in Messages : m.t # "rebuild" /\ to' = Append(to, m)
      BY <2>1, <2>2
    <2>4. UNCHANGED from /\ UNCHANGED gates
      BY <1>2 DEF Generate, AbortTask
    <2> QED BY <1>0, <2>3, <2>4, RequestsStay
  <1>3. ASSUME NEW u \in Uids, Wake(u) \/ Yield(u) \/ CloseGenerator(u) \/ Disconnect(u)
        PROVE  UNCHANGED gates /\ RebuildsStay
    <2>1. UNCHANGED <<to, from>> /\ UNCHANGED gates
      BY <1>3 DEF Wake, Yield, CloseGenerator, Disconnect
    <2> QED BY <1>0, <2>1, RequestsStay
  <1>4. ASSUME NEW u \in Uids, Admit(u) \/ Sample(u)
        PROVE  UNCHANGED gates /\ RebuildsStay
    <2>1. PICK t \in Counted, next \in {"out", "decode"} : Reply(u, t, next)
      BY <1>4 DEF Admit, Sample, Counted
    <2>2. [t |-> t, uid |-> u] \in Replies /\ [t |-> t, uid |-> u].t # "rebuilt"
      BY DEF Replies, Kinds, Counted
    <2>3. UNCHANGED to /\ UNCHANGED gates /\ from' = Append(from, [t |-> t, uid |-> u])
      BY <2>1 DEF Reply
    <2> QED BY <1>0, <2>2, <2>3, RequestsStay
  <1>5. UNCHANGED gates => UNCHANGED sealed
    OBVIOUS
  <1> QED BY <1>1, <1>2, <1>3, <1>4, <1>5

LEMMA StepGate == BackInv /\ Deaths /\ GateKept /\ [Next]_vars => GateKept'
  <1> SUFFICES ASSUME BackInv, Deaths, GateKept, [Next]_vars PROVE GateKept'
    OBVIOUS
  <1> USE DEF gateVars, threadVars, lifeVars, engineVars, clientVars, statsVars, stopVars, rebuildVars
  <1>0. /\ Types /\ fatal \in BOOLEAN /\ (fatal => sup \in {"latch", "gone"})
        /\ Interrupted /\ Loading /\ OneRebuild
    BY DEF BackInv, GateKept, Deaths
  <1>1. ASSUME RebuildsStay, UNCHANGED <<gate, pend, fatal, sup, rb>> PROVE GateKept'
    <2>1. Interrupted'
      BY <1>0, <1>1 DEF Interrupted
    <2>2. Loading'
      BY <1>0, <1>1 DEF Loading, RebuildsStay
    <2>3. OneRebuild'
      BY <1>0, <1>1 DEF OneRebuild, RebuildsStay
    <2> QED BY <2>1, <2>2, <2>3 DEF GateKept
  <1>2. ASSUME UNCHANGED <<to, from>> PROVE RebuildsStay
    BY <1>2 DEF RebuildsStay
  <1>3. CASE Deliver \/ \E u \in Uids : \/ \E sent \in BOOLEAN : Generate(u, sent) \/ AbortTask(u, sent)
                                        \/ Wake(u) \/ Yield(u) \/ CloseGenerator(u) \/ Disconnect(u)
                                        \/ Admit(u) \/ Sample(u)
    BY <1>1, <1>3, RequestGates DEF gates
  <1>4. CASE \E i \in 1..Len(to) : Take(i)
    <2>1. PICK i \in 1..Len(to) : Take(i)
      BY <1>4
    <2>2. UNCHANGED <<gate, pend, fatal, sup, rb>>
      BY <2>1 DEF Take
    <2>3. CASE RebuildsStay
      BY <1>1, <2>2, <2>3
    <2>4. CASE RebuildDone
      <3>1. Interrupted'
        BY <1>0, <2>2 DEF Interrupted
      <3>2. Loading'
        BY <1>0, <2>2, <2>4 DEF Loading, RebuildDone
      <3>3. OneRebuild'
        BY <1>0, <2>2, <2>4 DEF OneRebuild, RebuildDone
      <3> QED BY <3>1, <3>2, <3>3 DEF GateKept
    <2> QED BY <1>0, <2>1, <2>3, <2>4, TakeRebuilds
  <1>5. CASE \E u \in Uids, sent \in BOOLEAN : AbortForStop(u, sent)
    <2>1. PICK u \in Uids, sent \in BOOLEAN : AbortForStop(u, sent)
      BY <1>5
    <2>2. /\ UNCHANGED <<gate, pend, fatal, sup, rb, from>>
          /\ to' = IF sent THEN Append(to, [t |-> "abort", uid |-> u]) ELSE to
      BY <2>1 DEF AbortForStop, AbortUser
    <2>3. [t |-> "abort", uid |-> u] \in Messages /\ [t |-> "abort", uid |-> u].t # "rebuild"
      BY DEF Messages
    <2>4. UNCHANGED to \/ \E m \in Messages : m.t # "rebuild" /\ to' = Append(to, m)
      BY <2>2, <2>3
    <2> QED BY <1>0, <1>1, <2>2, <2>4, RequestsStay
  <1>6. CASE \/ Seal \/ DrainTimeout \/ SettleTimeout \/ ResolveAll \/ Sigterm \/ GroupSignal \/ ExitTimer
             \/ ShutdownFlag \/ ShutdownKill \/ Loaded \/ Crash \/ UNCHANGED vars
    <2>1. UNCHANGED <<gate, pend, fatal, sup, rb, to, from>>
      BY <1>6 DEF Seal, DrainTimeout, SettleTimeout, ResolveAll, Sigterm, GroupSignal, ExitTimer, ShutdownFlag,
         ShutdownKill, Loaded, Crash, vars
    <2> QED BY <1>1, <1>2, <2>1
  <1>7. CASE PrepareStop
    <2>1. UNCHANGED <<fatal, sup, rb, to, from>> /\ pend = None
      BY <1>7 DEF PrepareStop, LoopFree
    <2>2. \/ UNCHANGED <<gate, pend>>
          \/ gate # "rebuilding" /\ gate' = "stopping" /\ pend' = None
          \/ gate # "rebuilding" /\ pend' = "stopping" /\ gate' = gate /\ Preempts
      BY <1>7, <2>1 DEF PrepareStop, Rebuilding, SetGate
    <2>3. Interrupted'
      BY <1>0, <2>1, <2>2 DEF Interrupted, None
    <2>4. Loading'
      BY <1>0, <2>1, <2>2 DEF Loading, None
    <2>5. OneRebuild'
      BY <1>0, <2>1, <2>2 DEF OneRebuild, None
    <2> QED BY <2>3, <2>4, <2>5 DEF GateKept
  <1>8. CASE Rebuild
    <2>1. UNCHANGED <<fatal, sup, to, from>> /\ pend = None /\ gate = "serving" /\ rb' = "sending"
      BY <1>8 DEF Rebuild, LoopFree
    <2>2. \/ gate' = "rebuilding" /\ pend' = None
          \/ gate' = gate /\ pend' = "rebuilding" /\ Preempts
      BY <1>8, <2>1 DEF Rebuild, SetGate
    <2>3. Interrupted'
      BY <1>0, <2>1, <2>2 DEF Interrupted, None
    <2>4. Loading'
      BY <1>0, <2>1, <2>2 DEF Loading, None
    <2>5. OneRebuild'
      BY <1>0, <2>1, <2>2 DEF OneRebuild, None
    <2> QED BY <2>3, <2>4, <2>5 DEF GateKept
  <1>9. CASE RebuildSent
    <2>1. PICK m : m = [t |-> "rebuild", uid |-> rebuilds]
      OBVIOUS
    <2>2. /\ UNCHANGED <<gate, pend, fatal, sup, from>> /\ pend = None /\ rb = "sending" /\ rb' = "waiting"
          /\ to' = Append(to, m) /\ m \in Messages /\ m.t = "rebuild"
      BY <1>0, <1>9, <2>1 DEF RebuildSent, LoopFree, Types, Messages
    <2>3. ~Has(to, "rebuild") /\ Solo(to, "rebuild") => Solo(to', "rebuild")
      BY <1>0, <2>2, SoloAppend DEF Types
    <2>4. Interrupted'
      BY <1>0, <2>2 DEF Interrupted
    <2>5. Loading'
      BY <1>0, <2>2 DEF Loading
    <2>6. OneRebuild'
      BY <1>0, <2>2, <2>3 DEF OneRebuild, None
    <2> QED BY <2>4, <2>5, <2>6 DEF GateKept
  <1>10. CASE RebuildNotSent
    <2>1. /\ UNCHANGED <<fatal, sup, to, from>> /\ SendFails
          /\ pend = None /\ rb = "sending" /\ rb' = "idle"
      BY <1>10 DEF RebuildNotSent, LoopFree
    <2>2. \/ gate' = "serving" /\ pend' = None
          \/ gate' = gate /\ pend' = "serving" /\ Preempts
      BY <1>10, <2>1 DEF RebuildNotSent, SetGate
    <2>3. ~fatal => gate = "rebuilding"
      BY <1>0, <2>1 DEF OneRebuild, None
    <2>4. Interrupted'
      BY <1>0, <2>1, <2>2, <2>3 DEF Interrupted, None
    <2>5. Loading'
      BY <1>0, <2>1, <2>2 DEF Loading, None
    <2>6. OneRebuild'
      BY <1>0, <2>1, <2>2 DEF OneRebuild, None
    <2> QED BY <2>4, <2>5, <2>6 DEF GateKept
  <1>11. CASE RebuildAnswered \/ RebuildTimeout
    <2>1. UNCHANGED <<gate, pend, fatal, sup, to, from>> /\ rb = "waiting" /\ rb' = "idle"
      BY <1>11 DEF RebuildAnswered, RebuildTimeout
    <2>2. Interrupted' /\ Loading'
      BY <1>0, <2>1 DEF Interrupted, Loading
    <2>3. OneRebuild'
      BY <1>0, <2>1 DEF OneRebuild
    <2> QED BY <2>2, <2>3 DEF GateKept
  <1>12. CASE ResolveRebuild
    <2>1. /\ UNCHANGED <<fatal, sup, rb, to>> /\ pend = None /\ from # <<>> /\ Head(from).t = "rebuilt"
          /\ from' = Tail(from)
      BY <1>12 DEF ResolveRebuild, LoopFree
    <2>2. PICK v : v = Resolved(Head(from))
      OBVIOUS
    <2>3. /\ v \in {"failed", "serving"} /\ (fatal => v = "failed")
          /\ (gate' = v /\ pend' = None) \/ (gate' = gate /\ pend' = v /\ Preempts)
      BY <1>12, <2>1, <2>2 DEF ResolveRebuild, SetGate, Resolved
    <2>4. /\ Has(from, "rebuilt")
          /\ Solo(from, "rebuilt") => ~Has(from', "rebuilt") /\ Solo(from', "rebuilt")
      BY <1>0, <2>1, SoloTail DEF Types
    <2>5. ~fatal => gate = "rebuilding" /\ rb # "sending" /\ ~Has(to, "rebuild") /\ Solo(to, "rebuild")
                    /\ ~Has(from', "rebuilt") /\ Solo(from', "rebuilt")
      BY <1>0, <2>4 DEF OneRebuild
    <2>6. Interrupted'
      BY <1>0, <2>1, <2>3, <2>5 DEF Interrupted, None
    <2>7. Loading'
      BY <1>0, <2>1, <2>4 DEF Loading
    <2>8. OneRebuild'
      BY <2>1, <2>5 DEF OneRebuild
    <2> QED BY <2>6, <2>7, <2>8 DEF GateKept
  <1>13. CASE SupervisorReady \/ SupervisorOpens
    <2>1. /\ UNCHANGED <<pend, fatal, rb, to, from>> /\ sup \in {"drain", "ready"}
          /\ \/ sup' = "ready" /\ Preempts /\ gate' = gate
             \/ sup' = "watch" /\ gate' \in {"serving", gate}
      BY <1>13 DEF SupervisorReady, SupervisorOpens, Opened
    <2>2. ~fatal /\ pend \in {None, "stopping"} /\ rb = "idle" /\ ~Has(to, "rebuild") /\ ~Has(from, "rebuilt")
      BY <1>0, <2>1 DEF Loading
    <2>3. Interrupted'
      BY <1>0, <2>1, <2>2 DEF Interrupted, None
    <2>4. Loading'
      BY <1>0, <2>1 DEF Loading
    <2>5. OneRebuild'
      BY <1>0, <2>1, <2>2 DEF OneRebuild
    <2> QED BY <2>3, <2>4, <2>5 DEF GateKept
  <1>14. CASE SupervisorSeesDeath \/ SupervisorDecides \/ SupervisorLatches
    <2>1. /\ UNCHANGED <<pend, rb, to, from>> /\ sup' \in {"dead", "latch", "gone"}
          /\ \/ UNCHANGED <<gate, fatal>>
             \/ fatal' /\ gate' = gate
             \/ fatal' /\ gate' = "failed"
      BY <1>0, <1>14 DEF SupervisorSeesDeath, SupervisorDecides, SupervisorLatches, Deaths
    <2>2. Interrupted'
      BY <1>0, <2>1 DEF Interrupted
    <2>3. Loading'
      BY <2>1 DEF Loading
    <2>4. OneRebuild'
      BY <1>0, <2>1 DEF OneRebuild
    <2> QED BY <2>2, <2>3, <2>4 DEF GateKept
  <1>15. CASE StoreGate
    <2>1. UNCHANGED <<fatal, sup, rb, to, from>> /\ pend # None /\ gate' = pend /\ pend' = None
      BY <1>15 DEF StoreGate
    <2>2. Interrupted'
      BY <1>0, <2>1 DEF Interrupted, None
    <2>3. Loading'
      BY <1>0, <2>1 DEF Loading, None
    <2>4. OneRebuild'
      BY <1>0, <2>1 DEF OneRebuild
    <2> QED BY <2>2, <2>3, <2>4 DEF GateKept
  <1> QED
    BY <1>3, <1>4, <1>5, <1>6, <1>7, <1>8, <1>9, <1>10, <1>11, <1>12, <1>13, <1>14, <1>15
    DEF Next, Supervisor, Backend, Handler

LEMMA InitGate == Init => GateKept
  <1> SUFFICES ASSUME Init PROVE GateKept
    OBVIOUS
  <1>1. /\ Len(to) = 0 /\ Len(from) = 0 /\ rb = "idle" /\ ~fatal
        /\ gate = "loading" /\ pend = None /\ sup = "drain"
    BY DEF Init
  <1> QED BY <1>1 DEF GateKept, Interrupted, Loading, OneRebuild, Has, Solo, None

LEMMA GateAlways == Spec => [](BackInv /\ Deaths /\ GateKept)
  BY BackAlways, DeathsAlways, InitGate, StepGate, PTL DEF Spec

(* Only these steps open a gate that a stop, a failed rebuild or a death   *)
(* has shut, whatever dies, raises or interrupts: the unlocked             *)
(* test-and-store of _on_ready, the rollback of dispatch_rebuild, and the  *)
(* store of a callback that a death interrupted.  Where the threads do not *)
(* switch inside a callback and no put raises, none does.                  *)
THEOREM GateNeverReopens == Spec => GateStaysShut
  <1>1. BackInv /\ Deaths /\ GateKept /\ [Next]_vars => [StaysShut]_vars
    <2> SUFFICES ASSUME BackInv, Deaths, GateKept, [Next]_vars, gate \in {"stopping", "failed"}
                 PROVE  gate' \in {"stopping", "failed"} \/ Reopens
      BY DEF StaysShut
    <2> USE DEF gateVars, threadVars, lifeVars, engineVars, clientVars, statsVars, stopVars, rebuildVars
    <2>0. Types /\ fatal \in BOOLEAN /\ (fatal => sup \in {"latch", "gone"})
          /\ Interrupted /\ Loading /\ OneRebuild
      BY DEF BackInv, GateKept, Deaths
    <2>1. CASE UNCHANGED gate
      BY <2>1
    <2>2. CASE PrepareStop \/ Rebuild
      BY <2>2 DEF PrepareStop, Rebuild, SetGate
    <2>3. CASE RebuildNotSent
      <3>1. fatal
        BY <2>0, <2>3 DEF RebuildNotSent, LoopFree, OneRebuild, None
      <3> QED BY <2>3, <3>1 DEF Reopens
    <2>4. CASE ResolveRebuild
      <3>1. Has(from, "rebuilt")
        BY <2>0, <2>4, SoloTail DEF ResolveRebuild, Types
      <3>2. fatal
        BY <2>0, <3>1 DEF OneRebuild
      <3> QED BY <2>4, <3>2 DEF ResolveRebuild, SetGate, Resolved
    <2>5. CASE SupervisorReady \/ SupervisorSeesDeath \/ SupervisorDecides \/ SupervisorLatches
      BY <2>5 DEF SupervisorReady, SupervisorSeesDeath, SupervisorDecides, SupervisorLatches, Opened
    <2>6. CASE SupervisorOpens
      BY <2>0, <2>6 DEF SupervisorOpens, Loading, Reopens
    <2>7. CASE StoreGate
      <3>1. CASE pend \in {"stopping", "failed"}
        BY <2>7, <3>1 DEF StoreGate
      <3>2. CASE pend \in {"serving", "rebuilding"}
        BY <2>0, <2>7, <3>2 DEF Interrupted, Reopens, None
      <3> QED BY <2>0, <2>7, <3>1, <3>2 DEF Interrupted, StoreGate
    <2>8. CASE \/ Deliver
               \/ \E u \in Uids : \/ \E sent \in BOOLEAN : Generate(u, sent) \/ AbortTask(u, sent)
                                  \/ Wake(u) \/ Yield(u) \/ CloseGenerator(u) \/ Disconnect(u)
                                  \/ Admit(u) \/ Sample(u)
      BY <2>1, <2>8, RequestGates DEF gates
    <2>9. CASE \/ (\E i \in 1..Len(to) : Take(i)) \/ (\E u \in Uids, sent \in BOOLEAN : AbortForStop(u, sent))
               \/ Seal \/ DrainTimeout \/ SettleTimeout \/ RebuildSent \/ RebuildAnswered \/ RebuildTimeout
               \/ ResolveAll \/ Sigterm \/ GroupSignal \/ ExitTimer \/ ShutdownFlag \/ ShutdownKill
               \/ Loaded \/ Crash \/ UNCHANGED vars
      BY <2>1, <2>9 DEF Take, AbortForStop, Seal, DrainTimeout, SettleTimeout, RebuildSent, RebuildAnswered,
         RebuildTimeout, ResolveAll, Sigterm, GroupSignal, ExitTimer, ShutdownFlag, ShutdownKill, Loaded,
         Crash, vars
    <2> QED
      BY <2>2, <2>3, <2>4, <2>5, <2>6, <2>7, <2>8, <2>9 DEF Next, Supervisor, Backend, Handler
  <1> QED BY <1>1, GateAlways, PTL DEF Spec, GateStaysShut

(* A worker's death outranks every transition that begins after it was     *)
(* noted: no rebuild's answer and no handshake opens the gate, only a      *)
(* store that was under way and the rollback of dispatch_rebuild.          *)
THEOREM DeathIsLatched == Spec => DeathOutranks
  <1>1. BackInv /\ Deaths /\ GateKept /\ [Next]_vars => [StaysDead]_vars
    <2> SUFFICES ASSUME BackInv, Deaths, GateKept, [Next]_vars, fatal
                 PROVE  /\ gate' = "serving" => "serving" \in {gate, pend} \/ RebuildNotSent
                        /\ pend' = "serving" => pend = "serving" \/ RebuildNotSent
      BY DEF StaysDead
    <2> USE DEF gateVars, threadVars, lifeVars, engineVars, clientVars, statsVars, stopVars, rebuildVars
    <2>0. sup \in {"latch", "gone"}
      BY DEF Deaths
    <2>1. CASE UNCHANGED <<gate, pend>>
      BY <2>1
    <2>2. CASE PrepareStop \/ Rebuild \/ RebuildNotSent
      BY <2>2 DEF PrepareStop, Rebuild, SetGate
    <2>3. CASE ResolveRebuild
      BY <2>3 DEF ResolveRebuild, SetGate, Resolved
    <2>4. CASE Supervisor
      BY <2>0, <2>4 DEF Supervisor, SupervisorReady, SupervisorOpens, SupervisorSeesDeath, SupervisorDecides,
         SupervisorLatches
    <2>5. CASE StoreGate
      BY <2>5 DEF StoreGate, None
    <2>6. CASE \/ Deliver
               \/ \E u \in Uids : \/ \E sent \in BOOLEAN : Generate(u, sent) \/ AbortTask(u, sent)
                                  \/ Wake(u) \/ Yield(u) \/ CloseGenerator(u) \/ Disconnect(u)
                                  \/ Admit(u) \/ Sample(u)
      BY <2>1, <2>6, RequestGates DEF gates
    <2>7. CASE \/ (\E i \in 1..Len(to) : Take(i)) \/ (\E u \in Uids, sent \in BOOLEAN : AbortForStop(u, sent))
               \/ Seal \/ DrainTimeout \/ SettleTimeout \/ RebuildSent \/ RebuildAnswered \/ RebuildTimeout
               \/ ResolveAll \/ Sigterm \/ GroupSignal \/ ExitTimer \/ ShutdownFlag \/ ShutdownKill
               \/ Loaded \/ Crash \/ UNCHANGED vars
      BY <2>1, <2>7 DEF Take, AbortForStop, Seal, DrainTimeout, SettleTimeout, RebuildSent, RebuildAnswered,
         RebuildTimeout, ResolveAll, Sigterm, GroupSignal, ExitTimer, ShutdownFlag, ShutdownKill, Loaded,
         Crash, vars
    <2> QED BY <2>2, <2>3, <2>4, <2>5, <2>6, <2>7 DEF Next, Backend, Handler
  <1> QED BY <1>1, GateAlways, PTL DEF Spec, DeathOutranks

-----------------------------------------------------------------------------
(* What prepare_stop_accounting seals. *)

\* Only prepare_stop_accounting seals.
LEMMA OnlySealSeals ==
  ASSUME [Next]_vars
  PROVE  Seal \/ UNCHANGED sealed
  <1> USE DEF gateVars, threadVars, lifeVars, engineVars, clientVars, statsVars, stopVars, rebuildVars
  <1>1. ASSUME NEW u \in Uids, NEW sent \in BOOLEAN,
               \/ Generate(u, sent) \/ AbortTask(u, sent) \/ AbortForStop(u, sent)
               \/ Wake(u) \/ Yield(u) \/ CloseGenerator(u) \/ Disconnect(u)
        PROVE  UNCHANGED sealed
    BY <1>1 DEF Generate, AbortTask, AbortForStop, Wake, Yield, CloseGenerator, Disconnect
  <1>2. CASE Backend
    BY <1>2 DEF Backend, Take, Admit, Sample, Reply
  <1>3. CASE \/ StoreGate \/ Deliver \/ ResolveRebuild \/ ResolveAll \/ PrepareStop \/ DrainTimeout
             \/ SettleTimeout \/ Rebuild \/ RebuildSent \/ RebuildNotSent \/ RebuildAnswered \/ RebuildTimeout
             \/ Sigterm \/ GroupSignal \/ ExitTimer \/ ShutdownFlag \/ ShutdownKill \/ Loaded \/ Crash \/ UNCHANGED vars
    BY <1>3 DEF StoreGate, Deliver, ResolveRebuild, ResolveAll, PrepareStop, DrainTimeout,
       SettleTimeout, Rebuild, RebuildSent, RebuildNotSent, RebuildAnswered, RebuildTimeout,
       Sigterm, GroupSignal, ExitTimer, ShutdownFlag, ShutdownKill, Loaded, Crash, vars
  <1>4. CASE Supervisor
    BY <1>4 DEF Supervisor, SupervisorReady, SupervisorOpens, SupervisorSeesDeath, SupervisorDecides,
       SupervisorLatches
  <1>5. CASE \E u \in Uids : \/ \E sent \in BOOLEAN : Generate(u, sent)
                             \/ Handler(u) \/ Disconnect(u)
    BY <1>1, <1>5 DEF Handler
  <1> QED BY <1>2, <1>3, <1>4, <1>5 DEF Next

\* Where the gate is shut no request is admitted behind the snapshot.
LEMMA StepFinal == BackInv /\ SealedMeansShut /\ Final /\ [Next]_vars => Final'
  <1> SUFFICES ASSUME BackInv, SealedMeansShut, Final, [Next]_vars PROVE Final'
    OBVIOUS
  <1> USE DEF gateVars, threadVars, lifeVars, engineVars, clientVars, statsVars, stopVars, rebuildVars
  <1>0. BackInv /\ Types /\ Kinds_of_step
    BY Classes DEF BackInv
  <1>1. CASE Seal
    <2>1. sealed' = <<total>> /\ inflight = {} /\ UNCHANGED <<total, from, to, eng, tomb>>
      BY <1>1 DEF Seal, Idle
    <2>2. \A i \in 1..Len(from) : from[i].t \notin Counted
      BY <1>0, <2>1 DEF BackInv, RepliesInOrder
    <2>3. \A u \in Uids : Over(u)
      BY <1>0, <2>1 DEF BackInv, IdleIsOver
    <2>4. \A u \in Uids : Over(u)'
      BY <2>1, <2>3 DEF Over, Sent
    <2> QED BY <2>1, <2>2, <2>4 DEF Final
  <1>2. CASE UNCHANGED sealed /\ sealed # <<>>
    <2>1. /\ sealed = <<total>> /\ \A i \in 1..Len(from) : from[i].t \notin Counted
          /\ \A u \in Uids : Over(u)
      BY <1>2 DEF Final
    <2>2. ASSUME total' = total, \A u \in Uids : Over(u) => Over(u)',
                 \A i \in 1..Len(from') : from'[i].t \in Counted => \E k \in 1..Len(from) : from'[i] = from[k]
          PROVE  Final'
      <3>1. \A i \in 1..Len(from') : from'[i].t \notin Counted
        BY <2>1, <2>2
      <3>2. \A u \in Uids : Over(u)'
        BY <2>1, <2>2
      <3> QED BY <1>2, <2>1, <2>2, <3>1, <3>2 DEF Final
    <2>3. CASE Bystander
      BY <1>0, <2>2, <2>3, BystanderIsQuiet DEF Quiet
    <2>4. CASE Settles
      BY <2>2, <2>4 DEF Settles
    <2>5. CASE \E u \in Uids : Wake(u) \/ Yield(u) \/ Disconnect(u) \/ CloseGenerator(u)
      <3>1. PICK u \in Uids : Handles(u)
        BY <1>0, <2>5, Handlers
      <3>2. \A v \in Uids : Over(v) => Over(v)'
        BY <1>0, <3>1, HandlerKeeps
      <3> QED BY <2>2, <3>1, <3>2 DEF Handles
    <2>6. CASE \E u \in Uids : Aborts(u)
      <3>1. UNCHANGED <<from, total>> /\ \A v \in Uids : Over(v) => Over(v)'
        BY <1>0, <2>6, AbortKeeps
      <3> QED BY <2>2, <3>1
    <2>7. CASE Deliver
      <3>1. PICK m : m = Head(from)
        OBVIOUS
      <3>2. Reads(m) /\ total' = total + (IF m.t \in Counted THEN 1 ELSE 0)
        BY <1>0, <2>7, <3>1, TailReads DEF Deliver, Observe
      <3>3. m.t \notin Counted /\ total \in Nat
        BY <1>0, <2>1, <3>2 DEF Reads, Types
      <3>4. \A i \in 1..Len(from') : \E k \in 1..Len(from) : from'[i] = from[k]
        <4>1. \A i \in 1..Len(from') : i + 1 \in 1..Len(from) /\ from'[i] = from[i + 1]
          BY <3>2 DEF Reads
        <4> QED BY <4>1
      <3>5. \A u \in Uids : Over(u) => Over(u)'
        BY <1>0, <2>7, DeliverKeeps
      <3> QED BY <2>2, <3>2, <3>3, <3>4, <3>5
    <2>8. CASE \E u \in Uids, m \in Replies : Samples(u, m)
      BY <2>1, <2>8 DEF Samples
    <2>9. CASE \E u \in Uids, sent \in BOOLEAN : Generate(u, sent)
      BY <1>2, <2>9 DEF Generate, NewUser, SealedMeansShut
    <2> QED BY <1>0, <2>3, <2>4, <2>5, <2>6, <2>7, <2>8, <2>9 DEF Kinds_of_step
  <1>3. CASE UNCHANGED sealed /\ sealed = <<>>
    BY <1>3 DEF Final
  <1> QED BY <1>1, <1>2, <1>3, OnlySealSeals

\* Nothing in flight: every token is counted and no request can make another.
LEMMA SealIsWhole ==
  ASSUME BackInv, Accounts, inflight = {}
  PROVE  total = Produced
  <1>1. \A i \in 1..Len(from) : from[i] \notin TokenReplies
    BY DEF BackInv, RepliesInOrder, TokenReplies
  <1>2. Count(from, TokenReplies) = 0
    BY <1>1, CountNone
  <1> QED BY <1>2 DEF Accounts, BackInv, Types

(* The totals prepare_stop_accounting seals are every token the backend    *)
(* admitted or sampled until then, whatever ran, was aborted, refused or   *)
(* overtaken, and whatever became of the gate meanwhile; and none follows  *)
(* as long as nothing opens the gate again (see GateNeverReopens).         *)
THEOREM SealedAlwaysFinal == Spec => SealsWhole /\ ([]SealedMeansShut => []SealedIsFinal)
  <1>1. BackInv /\ Accounts /\ [Next]_vars => [sealed' # sealed => sealed' = <<Produced>>]_vars
    <2> SUFFICES ASSUME BackInv, Accounts, Seal PROVE sealed' = <<Produced>>
      BY OnlySealSeals
    <2>1. sealed' = <<total>> /\ inflight = {}
      BY DEF Seal, Idle
    <2> QED BY <2>1, SealIsWhole
  <1>2. Init => Final
    BY DEF Init, Final
  <1>3. Accounts /\ BackInv /\ Final => SealedIsFinal
    <2> SUFFICES ASSUME Accounts, BackInv, Final, sealed # <<>> PROVE sealed = <<Produced>>
      BY DEF SealedIsFinal
    <2>1. sealed = <<total>> /\ \A i \in 1..Len(from) : from[i].t \notin Counted
      BY DEF Final
    <2>2. Count(from, TokenReplies) = 0
      BY <2>1, CountNone DEF TokenReplies
    <2>3. total \in Nat /\ total + Count(from, TokenReplies) = Produced
      BY DEF Accounts, BackInv, Types
    <2> QED BY <2>1, <2>2, <2>3
  <1> QED BY <1>1, <1>2, <1>3, StepFinal, BackAlways, TokensAlwaysCounted, PTL DEF Spec, SealsWhole
=============================================================================
