--------------------------- MODULE KVCache_proofs ---------------------------
(***************************************************************************)
(* The prefix cache, its pages and what they hold, for every set of        *)
(* requests, pages, pool sizes, prompts and every page size.               *)
(*                                                                         *)
(* Counts and owners: lock_handle and unlock stay paired across            *)
(* admissions, commits, aborts, evictions, splits and rebuilds; the free   *)
(* list, the prefix cache and the requests' own slots partition the pool,  *)
(* and the page table of a request reads its shared prefix in the tree.    *)
(*                                                                         *)
(* Content: the two size counters of the prefix cache agree with its tree, *)
(* evictable_size pages can be evicted, and what is called available is    *)
(* what no request reads; a request reads the KV of its own tokens through *)
(* its row, and the prefix cache serves the KV of the tokens it is asked   *)
(* for.                                                                    *)
(***************************************************************************)
EXTENDS KVCache, RadixTree_proofs

\* The handle of every request: idle ones hold the root.
Handles == [r \in Reqs |-> HandleKey(r)]

\* Every handle names a node of a well-formed tree whose counts are exact.
TreeInv == /\ WellFormed(tree, Tokens)
           /\ RefsMatch(tree, Reqs, Handles)
           /\ HandlesIn(tree, Reqs, Handles)

\* A handle is a prefix of its request's tokens; idle and multimodal requests
\* hold the root.
ReqsInv == /\ stage \in [Reqs -> Stages]
           /\ ids \in [Reqs -> Seq(Tokens)]
           /\ hit \in [Reqs -> Nat]
           /\ cached \in [Reqs -> Nat]
           /\ \A r \in Reqs : /\ cached[r] <= Len(ids[r])
                              /\ hit[r] * PageSize <= Len(ids[r])
                              /\ stage[r] = "idle" => hit[r] = 0
                              /\ ~Shared(r) => hit[r] = 0

\* The inductive invariant.  RefsCountHandles is not inductive by itself: a
\* split copies ref_count onto a new node, and is right to only because every
\* handle names a node (HandlesIn) of a tree where a stored page belongs to
\* exactly one segment (WellFormed).
IInv == TreeInv /\ ReqsInv

-----------------------------------------------------------------------------
\* The first n tokens of a sequence.
LEMMA FirstTokens ==
  ASSUME NEW V, NEW s \in Seq(V), NEW n \in Nat, n <= Len(s)
  PROVE  /\ SubSeq(s, 1, n) \in Seq(V)
         /\ Len(SubSeq(s, 1, n)) = n
         /\ \A j \in 1..n : SubSeq(s, 1, n)[j] = s[j]
<1>1. \A j \in 1..n : s[j] \in V
  OBVIOUS
<1> QED BY <1>1, SubSeqProperties

\* A key reads only the tokens it covers.
LEMMA KeyOfPrefix ==
  ASSUME NEW V, NEW s \in Seq(V), NEW n \in Nat, n <= Len(s),
         NEW i \in Nat, i * PageSize <= n
  PROVE  /\ SubSeq(s, 1, n) \in Seq(V)
         /\ Len(SubSeq(s, 1, n)) = n
         /\ Key(SubSeq(s, 1, n), i) = Key(s, i)
<1> DEFINE p == SubSeq(s, 1, n)
<1>2. /\ p \in Seq(V) /\ Len(p) = n
      /\ \A j \in 1..n : p[j] = s[j]
  BY FirstTokens
<1>3. i * PageSize \in Nat /\ i * PageSize <= Len(s)
  BY PageArithmetic
<1> HIDE DEF p
<1>4. /\ Key(p, i) \in Seq(V) /\ Len(Key(p, i)) = i * PageSize
      /\ \A j \in 1..(i * PageSize) : Key(p, i)[j] = p[j]
  BY <1>2, KeyIsPrefix
<1>5. /\ Key(s, i) \in Seq(V) /\ Len(Key(s, i)) = i * PageSize
      /\ \A j \in 1..(i * PageSize) : Key(s, i)[j] = s[j]
  BY <1>3, KeyIsPrefix
<1>6. \A j \in 1..(i * PageSize) : Key(p, i)[j] = Key(s, i)[j]
  BY <1>2, <1>3, <1>4, <1>5
<1>7. Key(p, i) = Key(s, i)
  BY <1>3, <1>4, <1>5, <1>6, SeqEqual
<1> QED BY <1>2, <1>7 DEF p

\* Appending a sampled token does not move the handle.
LEMMA KeyOfAppend ==
  ASSUME NEW V, NEW s \in Seq(V), NEW x \in V, NEW i \in Nat, i * PageSize <= Len(s)
  PROVE  Key(Append(s, x), i) = Key(s, i)
<1>1. /\ Append(s, x) \in Seq(V) /\ Len(Append(s, x)) = Len(s) + 1
      /\ \A j \in 1..Len(s) : Append(s, x)[j] = s[j]
  BY AppendProperties
<1>2. i * PageSize \in Nat /\ i * PageSize <= Len(Append(s, x))
  BY <1>1, PageArithmetic
<1>3. /\ Key(s, i) \in Seq(V) /\ Len(Key(s, i)) = i * PageSize
      /\ \A j \in 1..(i * PageSize) : Key(s, i)[j] = s[j]
  BY KeyIsPrefix
<1>4. /\ Key(Append(s, x), i) \in Seq(V) /\ Len(Key(Append(s, x), i)) = i * PageSize
      /\ \A j \in 1..(i * PageSize) : Key(Append(s, x), i)[j] = Append(s, x)[j]
  BY <1>1, <1>2, KeyIsPrefix
<1>5. \A j \in 1..(i * PageSize) : Key(Append(s, x), i)[j] = Key(s, i)[j]
  BY <1>1, <1>2, <1>3, <1>4
<1> QED BY <1>2, <1>3, <1>4, <1>5, SeqEqual

\* The prefix match_req matches is a prefix of the prompt.
LEMMA MatchIdsFacts ==
  ASSUME NEW r \in Reqs, NEW s \in Prompts
  PROVE  LET q == MatchIds(r, s)
             m == Matched(tree, q) IN
         /\ s \in Seq(Tokens) /\ q \in Seq(Tokens)
         /\ m \in Nat /\ m * PageSize <= Len(s)
         /\ Key(q, m) = Key(s, m)
         /\ ~Shared(r) => m = 0
<1> DEFINE q == MatchIds(r, s)
           m == Matched(tree, q)
<1>1. s \in Seq(Tokens) /\ Len(s) \in Nat \ {0}
  BY KVCacheAssumption
<1>2. Len(s) - 1 \in Nat /\ 0 * PageSize = 0
  BY <1>1, PageSizeAssumption
<1>3. CASE Shared(r)
  <2>1. q = SubSeq(s, 1, Len(s) - 1)
    BY <1>3 DEF MatchIds
  <2>2. q \in Seq(Tokens) /\ Len(q) = Len(s) - 1
    <3>1. Len(s) - 1 \in Nat /\ Len(s) - 1 <= Len(s)
      BY <1>1
    <3>2. /\ SubSeq(s, 1, Len(s) - 1) \in Seq(Tokens)
          /\ Len(SubSeq(s, 1, Len(s) - 1)) = Len(s) - 1
      <4> HIDE DEF q
      <4> QED BY <1>1, <3>1, FirstTokens
    <3> QED BY <2>1, <3>2
  <2> HIDE DEF q
  <2>3. m \in 0..FullPages(Len(q)) /\ FullPages(Len(q)) \in Nat
        /\ FullPages(Len(q)) * PageSize <= Len(q)
    <3>1. FullPages(Len(q)) \in Nat /\ FullPages(Len(q)) * PageSize <= Len(q)
      BY <1>2, <2>2, PageArithmetic
    <3>2. m \in 0..FullPages(Len(q))
      BY <2>2, MatchedSpec
    <3> QED BY <3>1, <3>2
  <2>4. m \in Nat /\ m * PageSize <= Len(s) - 1
    <3>1. m \in Nat /\ m * PageSize <= FullPages(Len(q)) * PageSize
      BY <2>3, PageArithmetic
    <3>2. m * PageSize \in Nat /\ FullPages(Len(q)) * PageSize \in Nat
      BY <2>3, <3>1, PageArithmetic
    <3> QED BY <1>1, <2>2, <2>3, <3>1, <3>2
  <2> HIDE DEF m
  <2>5. Key(q, m) = Key(s, m)
    BY <1>1, <1>2, <2>1, <2>4, KeyOfPrefix
  <2>6. m * PageSize <= Len(s)
    BY <1>1, <2>4, PageArithmetic
  <2> QED BY <1>1, <1>3, <2>2, <2>4, <2>5, <2>6 DEF q, m
<1>4. CASE ~Shared(r)
  <2>1. q = Root /\ q \in Seq(Tokens) /\ Len(q) = 0
    BY <1>4, EmptySeq DEF MatchIds, Root
  <2> HIDE DEF q
  <2>2. FullPages(0) \in Nat /\ FullPages(0) * PageSize <= 0
    BY PageArithmetic
  <2>3. FullPages(0) = 0
    BY <2>2, PageSizeAssumption DEF FullPages
  <2>4. m = 0
    <3>1. m \in 0..FullPages(Len(q))
      BY <2>1, MatchedSpec
    <3> QED BY <2>1, <2>3, <3>1
  <2> HIDE DEF m
  <2>5. Key(q, m) = Root /\ Key(s, m) = Root
    BY <2>4, KeyZero
  <2> QED BY <1>1, <1>2, <2>1, <2>4, <2>5 DEF q, m
<1> QED BY <1>3, <1>4

\* What a request commits is a prefix of its tokens.
LEMMA ComputedFacts ==
  ASSUME IInv, NEW r \in Reqs
  PROVE  LET n == FullPages(cached[r]) IN
         /\ Computed(r) \in Seq(Tokens) /\ Len(Computed(r)) = cached[r]
         /\ n \in Nat /\ n * PageSize <= Len(ids[r])
         /\ Key(Computed(r), n) = Key(ids[r], n)
<1> DEFINE n == FullPages(cached[r])
<1>1. ids[r] \in Seq(Tokens) /\ cached[r] \in Nat /\ cached[r] <= Len(ids[r])
  BY DEF IInv, TreeInv, ReqsInv
<1>2. n \in Nat /\ n * PageSize <= cached[r]
  BY <1>1, PageArithmetic
<1>3. n * PageSize \in Nat
  BY <1>2, PageArithmetic
<1> HIDE DEF n
<1>4. /\ SubSeq(ids[r], 1, cached[r]) \in Seq(Tokens)
      /\ Len(SubSeq(ids[r], 1, cached[r])) = cached[r]
      /\ Key(SubSeq(ids[r], 1, cached[r]), n) = Key(ids[r], n)
  BY <1>1, <1>2, KeyOfPrefix
<1> QED BY <1>1, <1>2, <1>3, <1>4 DEF Computed, n

\* The scheduler serves finitely many requests, so holders can be counted.
LEMMA FiniteReqs == IsFiniteSet(Reqs)
  BY KVCacheAssumption

\* A commit publishes the computed prefix and takes the request off its old path.
LEMMA PublishedKeeps ==
  ASSUME IInv, NEW r \in Reqs, NEW g,
         \A q \in Reqs : g[q] = IF q = r THEN Root ELSE Handles[q]
  PROVE  /\ WellFormed(Published(r), Tokens)
         /\ RefsMatch(Published(r), Reqs, g)
         /\ HandlesIn(Published(r), Reqs, g)
         /\ Key(ids[r], FullPages(cached[r])) \in Nodes(Published(r)) \cup {Root}
<1> DEFINE u == Insert(tree, Computed(r), row[r])
           n == FullPages(cached[r])
<1>1. /\ WellFormed(tree, Tokens) /\ RefsMatch(tree, Reqs, Handles)
      /\ HandlesIn(tree, Reqs, Handles)
  BY DEF IInv, TreeInv, ReqsInv
<1>2. /\ Computed(r) \in Seq(Tokens) /\ Len(Computed(r)) = cached[r]
      /\ Key(Computed(r), n) = Key(ids[r], n)
  BY ComputedFacts
<1>3. /\ WellFormed(u, Tokens) /\ RefsMatch(u, Reqs, Handles) /\ HandlesIn(u, Reqs, Handles)
      /\ Key(ids[r], n) \in Nodes(u) \cup {Root}
  BY <1>1, <1>2, InsertKeeps
<1>4. Handles[r] = HandleKey(r)
  BY DEF Handles
<1> HIDE DEF u, n
<1>5. LET p == Unlock(u, HandleKey(r)) IN
      /\ WellFormed(p, Tokens) /\ RefsMatch(p, Reqs, g) /\ HandlesIn(p, Reqs, g)
      /\ Nodes(p) = Nodes(u)
  BY <1>3, <1>4, FiniteReqs, UnlockKeeps
<1>6. Published(r) = Unlock(u, HandleKey(r))
  BY DEF Published, u
<1> QED BY <1>3, <1>5, <1>6 DEF n

\* A multimodal request holds the root: unlocking it changes no count.
LEMMA UnlockUnshared ==
  ASSUME IInv, NEW r \in Reqs, ~Shared(r)
  PROVE  /\ WellFormed(Unlock(tree, HandleKey(r)), Tokens)
         /\ RefsMatch(Unlock(tree, HandleKey(r)), Reqs, Handles)
         /\ HandlesIn(Unlock(tree, HandleKey(r)), Reqs, Handles)
         /\ HandleKey(r) = Root
<1>1. HandleKey(r) = Root
  <2>1. hit[r] = 0
    BY DEF IInv, TreeInv, ReqsInv
  <2> QED BY <2>1, KeyZero DEF HandleKey
<1>2. Handles[r] = HandleKey(r) /\ \A q \in Reqs : Handles[q] = IF q = r THEN Root ELSE Handles[q]
  BY <1>1 DEF Handles
<1> QED BY <1>1, <1>2, FiniteReqs, UnlockKeeps DEF IInv, TreeInv, ReqsInv

-----------------------------------------------------------------------------
(* One lemma per operation. *)

\* At the start the tree is empty and every request holds the root.
LEMMA InitIInv == Init => IInv
<1> SUFFICES ASSUME Init PROVE IInv
  OBVIOUS
<1>1. /\ Nodes(tree) = {} /\ Stored(tree) = {}
      /\ tree = [page |-> tree.page, ref |-> tree.ref,
                 evictable |-> tree.evictable, protected |-> tree.protected]
  BY DEF Init, EmptyTree, Nodes, Stored
<1>2. \A r \in Reqs : ids[r] = << >> /\ hit[r] = 0 /\ cached[r] = 0
  BY DEF Init
<1>3. ReqsInv
  <2>1. << >> \in Seq(Tokens) /\ Len(<< >>) = 0 /\ 0 * PageSize = 0
    BY PageSizeAssumption
  <2> QED BY <1>2, <2>1 DEF Init, ReqsInv, Stages
<1>4. \A r \in Reqs : Handles[r] = Root
  BY <1>2, KeyZero DEF Handles, HandleKey
<1>5. TreeInv
  BY <1>1, <1>4 DEF TreeInv, WellFormed, RefsMatch, HandlesIn
<1> QED BY <1>3, <1>5 DEF IInv

\* Admit: the walk splits at most one segment, and the lock counts the new holder.
LEMMA AdmitIInv ==
  ASSUME IInv, NEW r \in Reqs, Admit(r)
  PROVE  IInv'
<1>1. PICK s \in Prompts : AdmitReq(r, s)
  BY DEF Admit
<1> DEFINE q == MatchIds(r, s)
           m == Matched(tree, q)
           w == Walk(tree, q)
<1>2. /\ s \in Seq(Tokens) /\ q \in Seq(Tokens)
      /\ m \in Nat /\ m * PageSize <= Len(s)
      /\ Key(q, m) = Key(s, m)
      /\ ~Shared(r) => m = 0
  BY MatchIdsFacts
<1>3. /\ WellFormed(w, Tokens) /\ RefsMatch(w, Reqs, Handles)
      /\ HandlesIn(w, Reqs, Handles) /\ Key(s, m) \in Nodes(w) \cup {Root}
  BY <1>2, WalkKeeps DEF IInv, TreeInv
<1>4. /\ tree' = Lock(w, Key(s, m))
      /\ ids' = [ids EXCEPT ![r] = s]
      /\ hit' = [hit EXCEPT ![r] = m]
      /\ cached' = [cached EXCEPT ![r] = m * PageSize]
      /\ stage[r] = "idle" /\ stage' = [stage EXCEPT ![r] = "prefill"]
  BY <1>1 DEF AdmitReq, Admit
<1> HIDE DEF q, m, w
<1>5. Handles[r] = Root
  BY KeyZero, <1>4 DEF IInv, ReqsInv, Handles, HandleKey
<1>6. \A p \in Reqs : Handles'[p] = IF p = r THEN Key(s, m) ELSE Handles[p]
  BY <1>4 DEF IInv, ReqsInv, Handles, HandleKey
<1>7. TreeInv'
  BY <1>3, <1>4, <1>5, <1>6, FiniteReqs, LockKeeps DEF TreeInv
<1>8. ReqsInv'
  <2>1. m * PageSize \in Nat
    BY <1>2, PageArithmetic
  <2> QED BY <1>2, <1>4, <2>1 DEF IInv, ReqsInv, Stages, Shared
<1> QED BY <1>7, <1>8 DEF IInv

\* Refuse: the walk may split a segment, and no handle is taken.
LEMMA RefuseIInv ==
  ASSUME IInv, NEW r \in Reqs, Refuse(r)
  PROVE  IInv'
<1>1. PICK s \in Prompts : tree' = Walk(tree, MatchIds(r, s))
  BY DEF Refuse
<1>2. UNCHANGED reqVars
  BY DEF Refuse
<1>3. MatchIds(r, s) \in Seq(Tokens)
  BY MatchIdsFacts
<1>4. /\ WellFormed(tree', Tokens) /\ RefsMatch(tree', Reqs, Handles)
      /\ HandlesIn(tree', Reqs, Handles)
  BY <1>1, <1>3, WalkKeeps DEF IInv, TreeInv
<1>5. Handles' = Handles
  BY <1>2 DEF Handles, HandleKey, reqVars
<1> QED BY <1>2, <1>4, <1>5 DEF IInv, TreeInv, ReqsInv, reqVars, Shared

\* Commit (cache_req of a running request): the reference moves from the
\* old handle to the new one, which names a node of the tree.
LEMMA CommitIInv ==
  ASSUME IInv, NEW r \in Reqs, Commit(r)
  PROVE  IInv'
<1> DEFINE n == FullPages(cached[r])
           p == Published(r)
           k == Key(ids[r], n)
<1>1. /\ ids' = ids /\ cached' = cached
      /\ stage' = [stage EXCEPT ![r] = "decode"]
      /\ stage[r] # "idle"
  BY DEF Commit
<1>2. CASE Shared(r) /\ tree' = Lock(p, k) /\ hit' = [hit EXCEPT ![r] = n]
  <2> DEFINE g == [q \in Reqs |-> IF q = r THEN Root ELSE Handles[q]]
  <2>1. g[r] = Root /\ \A q \in Reqs : g[q] = IF q = r THEN Root ELSE Handles[q]
    OBVIOUS
  <2> HIDE DEF g
  <2>2. /\ WellFormed(p, Tokens) /\ RefsMatch(p, Reqs, g) /\ HandlesIn(p, Reqs, g)
        /\ k \in Nodes(p) \cup {Root}
    BY <2>1, PublishedKeeps
  <2>3. n \in Nat /\ n * PageSize <= Len(ids[r])
    BY ComputedFacts
  <2> HIDE DEF n, p
  <2>4. \A q \in Reqs : Handles'[q] = IF q = r THEN k ELSE g[q]
    BY <1>1, <1>2, <2>1 DEF IInv, ReqsInv, Handles, HandleKey
  <2> HIDE DEF k
  <2>5. TreeInv'
    BY <1>2, <2>1, <2>2, <2>4, FiniteReqs, LockKeeps DEF TreeInv
  <2>6. ReqsInv'
    BY <1>1, <1>2, <2>3 DEF IInv, ReqsInv, Stages, Shared
  <2> QED BY <2>5, <2>6 DEF IInv
<1>3. CASE ~Shared(r) /\ tree' = Unlock(tree, HandleKey(r)) /\ hit' = hit
  <2>1. Handles' = Handles
    BY <1>1, <1>3 DEF Handles, HandleKey
  <2>2. TreeInv'
    BY <1>3, <2>1, UnlockUnshared DEF TreeInv
  <2>3. ReqsInv'
    BY <1>1, <1>3 DEF IInv, ReqsInv, Stages, Shared
  <2> QED BY <2>2, <2>3 DEF IInv
<1> QED BY <1>2, <1>3 DEF Commit, CacheReqUnfinished

\* Finish (cache_req with finished): the request gives its handle back.
LEMMA FinishIInv ==
  ASSUME IInv, NEW r \in Reqs, Finish(r)
  PROVE  IInv'
<1>1. /\ ids' = [ids EXCEPT ![r] = << >>]
      /\ hit' = [hit EXCEPT ![r] = 0]
      /\ cached' = [cached EXCEPT ![r] = 0]
      /\ stage' = [stage EXCEPT ![r] = "idle"]
  BY DEF Finish, CacheReqFinished
<1>2. \A q \in Reqs : Handles'[q] = IF q = r THEN Root ELSE Handles[q]
  BY <1>1, KeyZero DEF IInv, ReqsInv, Handles, HandleKey
<1>3. ReqsInv'
  <2>1. << >> \in Seq(Tokens) /\ Len(<< >>) = 0 /\ 0 * PageSize = 0
    BY PageSizeAssumption
  <2> QED BY <1>1, <2>1 DEF IInv, ReqsInv, Stages, Shared
<1>4. CASE tree' = Published(r)
  <2>1. TreeInv'
    BY <1>2, <1>4, PublishedKeeps DEF TreeInv
  <2> QED BY <1>3, <2>1 DEF IInv
<1>5. CASE ~Shared(r) /\ tree' = Unlock(tree, HandleKey(r))
  <2>1. Handles[r] = HandleKey(r)
    BY DEF Handles
  <2>2. TreeInv'
    BY <1>2, <1>5, <2>1, FiniteReqs, UnlockKeeps DEF IInv, TreeInv
  <2> QED BY <1>3, <2>2 DEF IInv
<1> QED BY <1>4, <1>5 DEF Finish, CacheReqFinished

\* Extend: the evicted leaves have no holder, so every handle stays a node.
LEMMA ExtendIInv ==
  ASSUME IInv, NEW B \in SUBSET CanForward, Extend(B)
  PROVE  IInv'
<1>1. PICK dev \in ForwardLens(B), tok \in [B -> Tokens] :
        /\ ExtendTo(dev, tok)
        /\ stage' = [r \in Reqs |-> IF r \in B THEN AfterForward(r, dev[r] = Len(ids[r]))
                                               ELSE stage[r]]
  BY DEF Extend
<1>2. /\ DOMAIN dev = B /\ B \subseteq Active /\ B \subseteq Reqs
      /\ \A r \in B : dev[r] \in Nat /\ dev[r] <= Len(ids[r])
  BY DEF ForwardLens, CanForward, Active
<1>3. /\ cached' = [r \in Reqs |-> IF r \in B THEN dev[r] ELSE cached[r]]
      /\ ids' = [r \in Reqs |-> IF r \in B /\ dev[r] = Len(ids[r])
                                THEN Append(ids[r], tok[r]) ELSE ids[r]]
  BY <1>1, <1>2 DEF ExtendTo
<1>4. PICK E \in EvictionChoices(tree, Shortage(dev)) :
        tree' = IF E = {} THEN tree ELSE RemoveNodes(tree, E)
  BY <1>1 DEF ExtendTo, AllocatePaged
<1>5. hit' = hit
  BY <1>1 DEF ExtendTo, AllocatePaged
<1>6. Handles' = Handles
  <2>1. ASSUME NEW r \in Reqs PROVE Key(ids'[r], hit[r]) = Key(ids[r], hit[r])
    <3>1. CASE r \in B /\ dev[r] = Len(ids[r])
      <4>1. ids'[r] = Append(ids[r], tok[r]) /\ tok[r] \in Tokens
        BY <1>3, <3>1
      <4> QED BY <4>1, KeyOfAppend DEF IInv, ReqsInv
    <3>2. CASE ~(r \in B /\ dev[r] = Len(ids[r]))
      BY <1>3, <3>2
    <3> QED BY <3>1, <3>2
  <2> QED BY <1>5, <2>1 DEF Handles, HandleKey
<1>7. TreeInv'
  <2>1. CASE E = {}
    BY <1>4, <1>6, <2>1 DEF IInv, TreeInv
  <2>2. CASE E # {}
    <3>1. E \in SUBSET Unlocked(tree) /\ LeafFirst(tree, E)
      BY <1>4, <2>2 DEF EvictionChoices
    <3>2. E \in SUBSET Nodes(tree) /\ E \subseteq Unlocked(tree)
      BY <3>1 DEF Unlocked
    <3> QED BY <1>4, <1>6, <2>2, <3>1, <3>2, FiniteReqs, RemoveKeeps DEF IInv, TreeInv
  <2> QED BY <2>1, <2>2
<1>8. ReqsInv'
  <2>1. stage' \in [Reqs -> Stages]
    BY <1>1 DEF IInv, ReqsInv, AfterForward, Stages
  <2>2. \A r \in Reqs : stage'[r] = "idle" => stage[r] = "idle"
    BY <1>1 DEF AfterForward
  <2>3. ASSUME NEW r \in Reqs
        PROVE  /\ ids'[r] \in Seq(Tokens) /\ cached'[r] \in Nat
               /\ cached'[r] <= Len(ids'[r]) /\ Len(ids[r]) <= Len(ids'[r])
    <3>1. ids[r] \in Seq(Tokens) /\ cached[r] \in Nat /\ cached[r] <= Len(ids[r])
      BY DEF IInv, ReqsInv
    <3>2. CASE r \in B /\ dev[r] = Len(ids[r])
      <4>1. ids'[r] = Append(ids[r], tok[r]) /\ tok[r] \in Tokens /\ cached'[r] = dev[r]
        BY <1>3, <3>2
      <4>2. ids'[r] \in Seq(Tokens) /\ Len(ids'[r]) = Len(ids[r]) + 1
        BY <3>1, <4>1, AppendProperties
      <4> QED BY <3>1, <3>2, <4>1, <4>2
    <3>3. CASE ~(r \in B /\ dev[r] = Len(ids[r]))
      BY <1>2, <1>3, <3>1, <3>3
    <3> QED BY <3>2, <3>3
  <2>4. ASSUME NEW r \in Reqs PROVE hit[r] * PageSize <= Len(ids'[r])
    <3>1. hit[r] * PageSize \in Nat
      BY PageArithmetic DEF IInv, ReqsInv
    <3>2. ids[r] \in Seq(Tokens) /\ hit[r] * PageSize <= Len(ids[r])
      BY DEF IInv, ReqsInv
    <3>3. Len(ids[r]) \in Nat /\ Len(ids'[r]) \in Nat
      BY <2>3, <3>2
    <3> QED BY <2>3, <3>1, <3>2, <3>3
  <2>5. ids' \in [Reqs -> Seq(Tokens)] /\ cached' \in [Reqs -> Nat]
    BY <1>3, <2>3
  <2> QED BY <1>5, <2>1, <2>2, <2>3, <2>4, <2>5 DEF IInv, ReqsInv, Shared
<1> QED BY <1>7, <1>8 DEF IInv

\* Rebuild: no request is running, and the new tree has no holders.
LEMMA RebuildIInv ==
  ASSUME IInv, Rebuild
  PROVE  IInv'
<1>1. tree' = EmptyTree /\ UNCHANGED reqVars
  BY DEF Rebuild, Reset, RebuiltTree, reqVars
<1>2. /\ Nodes(tree') = {} /\ Stored(tree') = {}
      /\ tree' = [page |-> tree'.page, ref |-> tree'.ref,
                  evictable |-> tree'.evictable, protected |-> tree'.protected]
  BY <1>1 DEF EmptyTree, Nodes, Stored
<1>3. \A r \in Reqs : Handles'[r] = Root
  <2>1. \A r \in Reqs : hit[r] = 0
    BY DEF Rebuild, Active, IInv, ReqsInv
  <2> QED BY <1>1, <2>1, KeyZero DEF Handles, HandleKey, reqVars
<1>4. TreeInv'
  BY <1>2, <1>3 DEF TreeInv, WellFormed, RefsMatch, HandlesIn
<1> QED BY <1>1, <1>4 DEF IInv, ReqsInv, reqVars, Shared

-----------------------------------------------------------------------------
\* Every action of the cache manager keeps handles and counts in step.
LEMMA StepIInv == IInv /\ [Next]_vars => IInv'
<1> SUFFICES ASSUME IInv, [Next]_vars PROVE IInv'
  OBVIOUS
<1>1. ASSUME NEW r \in Reqs, Admit(r) PROVE IInv'
  BY <1>1, AdmitIInv
<1>2. ASSUME NEW r \in Reqs, Refuse(r) PROVE IInv'
  BY <1>2, RefuseIInv
<1>3. ASSUME NEW r \in Reqs, Commit(r) PROVE IInv'
  BY <1>3, CommitIInv
<1>4. ASSUME NEW r \in Reqs, Finish(r) PROVE IInv'
  BY <1>4, FinishIInv
<1>5. ASSUME NEW B \in (SUBSET CanForward) \ {{}}, Extend(B) PROVE IInv'
  BY <1>5, ExtendIInv
<1>6. CASE Rebuild
  BY <1>6, RebuildIInv
<1>7. CASE UNCHANGED vars
  BY <1>7 DEF vars, poolVars, reqVars, IInv, TreeInv, ReqsInv, Handles, HandleKey, Shared
<1> QED BY <1>1, <1>2, <1>3, <1>4, <1>5, <1>6, <1>7 DEF Next

\* The invariant counts the handles of the requests that are not idle.
LEMMA IInvCounts == IInv => RefsCountHandles
<1> SUFFICES ASSUME IInv, NEW e \in Nodes(tree)
             PROVE  tree.ref[e] = Cardinality({r \in Active : StartsWith(HandleKey(r), e)})
  BY DEF RefsCountHandles
<1>1. e \in Seq(Tokens) /\ e # Root
  BY PrefixesAreSequences DEF IInv, TreeInv
<1>2. ASSUME NEW r \in Reqs, r \notin Active PROVE ~StartsWith(HandleKey(r), e)
  <2>1. HandleKey(r) = Root
    BY <1>2, KeyZero DEF IInv, ReqsInv, Active, HandleKey
  <2> QED BY <1>1, <2>1, RootStartsWithNothing
<1>3. Holders(Reqs, Handles, e) = {r \in Active : StartsWith(HandleKey(r), e)}
  BY <1>2 DEF Holders, Handles, Active
<1> QED BY <1>3 DEF IInv, TreeInv, RefsMatch

\* The reference counts of the prefix cache are exact in every reachable state:
\* lock_handle and its unlock stay paired whatever happens to the tree between
\* them, so a node in use is never evicted and an unused one never leaks.
THEOREM RefsAlwaysCountHandles == Spec => []RefsCountHandles
<1>1. Spec => []IInv
  BY InitIInv, StepIInv, PTL DEF Spec
<1> QED BY <1>1, IInvCounts, PTL

-----------------------------------------------------------------------------
(* Slices of lists of pages. *)

\* The pages at positions a+1..b of a list, and that they are all different.
Slice(w, a, b)    == {w[i] : i \in (a + 1)..b}
OneToOne(w, a, b) == \A i, j \in (a + 1)..b : w[i] = w[j] => i = j

\* A slice depends on its own positions only: the rest of a row may be
\* re-pointed or extended.
LEMMA SliceSame ==
  ASSUME NEW v, NEW w, NEW a, NEW b, \A i \in (a + 1)..b : v[i] = w[i]
  PROVE  /\ Slice(v, a, b) = Slice(w, a, b)
         /\ OneToOne(v, a, b) <=> OneToOne(w, a, b)
  BY DEF Slice, OneToOne

\* Cutting a slice in two, as a commit cuts a row.
LEMMA SliceCut ==
  ASSUME NEW w, NEW a \in Nat, NEW b \in Nat, NEW c \in Nat, a <= b, b <= c
  PROVE  /\ Slice(w, a, c) = Slice(w, a, b) \cup Slice(w, b, c)
         /\ OneToOne(w, a, c) <=> /\ OneToOne(w, a, b) /\ OneToOne(w, b, c)
                                  /\ Slice(w, a, b) \cap Slice(w, b, c) = {}
<1>1. (a + 1)..c = ((a + 1)..b) \cup ((b + 1)..c) /\ ((a + 1)..b) \cap ((b + 1)..c) = {}
  OBVIOUS
<1>2. Slice(w, a, c) = Slice(w, a, b) \cup Slice(w, b, c)
  BY <1>1 DEF Slice
<1>3. OneToOne(w, a, c) <=> /\ OneToOne(w, a, b) /\ OneToOne(w, b, c)
                            /\ Slice(w, a, b) \cap Slice(w, b, c) = {}
  BY <1>1 DEF OneToOne, Slice
<1> QED BY <1>2, <1>3

\* The positions of a slice that an interval inside it takes.
LEMMA SliceWithin ==
  ASSUME NEW w, NEW a \in Nat, NEW b \in Nat, NEW c \in Nat, NEW d \in Nat,
         a <= b, c <= d
  PROVE  /\ Slice(w, b, c) \subseteq Slice(w, a, d)
         /\ OneToOne(w, a, d) => OneToOne(w, b, c)
<1>1. (b + 1)..c \subseteq (a + 1)..d
  OBVIOUS
<1> QED BY <1>1 DEF OneToOne, Slice

\* An empty slice.
LEMMA SliceEmpty ==
  ASSUME NEW w, NEW a \in Nat
  PROVE  Slice(w, a, a) = {} /\ OneToOne(w, a, a)
<1>1. (a + 1)..a = {}
  OBVIOUS
<1> QED BY <1>1 DEF Slice, OneToOne

\* SubSeq, which takes free_slots and rows apart.
LEMMA SubSeqSlice ==
  ASSUME NEW S, NEW w \in Seq(S), NEW a \in Nat, NEW b \in Nat, a <= b, b <= Len(w)
  PROVE  LET s == SubSeq(w, a + 1, b) IN
         /\ s \in Seq(S) /\ Len(s) = b - a
         /\ Slice(s, 0, Len(s)) = Slice(w, a, b)
         /\ OneToOne(s, 0, Len(s)) <=> OneToOne(w, a, b)
<1> DEFINE s == SubSeq(w, a + 1, b)
<1>1. \A i \in (a + 1)..b : w[i] \in S
  <2>1. Len(w) \in Nat /\ w \in [1..Len(w) -> S]
    BY LenProperties
  <2>2. \A i \in (a + 1)..b : i \in 1..Len(w)
    BY <2>1
  <2> QED BY <2>1, <2>2
<1>2. /\ s \in Seq(S) /\ Len(s) = (IF a + 1 <= b THEN b - (a + 1) + 1 ELSE 0)
      /\ \A i \in 1..(b - (a + 1) + 1) : s[i] = w[(a + 1) + i - 1]
  <2>1. a + 1 \in Int /\ b \in Int
    OBVIOUS
  <2> HIDE DEF s
  <2> QED BY <1>1, <2>1, SubSeqProperties DEF s
<1> HIDE DEF s
<1>3. Len(s) = b - a /\ \A i \in 1..(b - a) : s[i] = w[a + i]
  BY <1>2
<1>4. /\ \A i \in 1..(b - a) : a + i \in (a + 1)..b
      /\ \A j \in (a + 1)..b : j - a \in 1..(b - a) /\ a + (j - a) = j
  OBVIOUS
<1>5. Slice(s, 0, b - a) = Slice(w, a, b)
  <2>1. (0 + 1)..(b - a) = 1..(b - a)
    OBVIOUS
  <2>2. ASSUME NEW i \in 1..(b - a) PROVE s[i] \in Slice(w, a, b)
    BY <1>3, <1>4 DEF Slice
  <2>3. ASSUME NEW j \in (a + 1)..b PROVE w[j] \in Slice(s, 0, b - a)
    <3>1. w[j] = s[j - a] /\ j - a \in 1..(b - a)
      BY <1>3, <1>4
    <3> QED BY <2>1, <3>1 DEF Slice
  <2> QED BY <2>1, <2>2, <2>3 DEF Slice
<1>6. OneToOne(s, 0, b - a) <=> OneToOne(w, a, b)
  <2>1. ASSUME OneToOne(w, a, b), NEW i \in 1..(b - a), NEW j \in 1..(b - a), s[i] = s[j]
        PROVE  i = j
    <3>1. a + i \in (a + 1)..b /\ a + j \in (a + 1)..b
      BY <1>4
    <3>2. w[a + i] = w[a + j]
      BY <1>3, <2>1
    <3>3. a + i = a + j
      BY <2>1, <3>1, <3>2 DEF OneToOne
    <3> QED BY <3>3
  <2>2. ASSUME \A i, j \in 1..(b - a) : s[i] = s[j] => i = j,
               NEW i \in (a + 1)..b, NEW j \in (a + 1)..b, w[i] = w[j]
        PROVE  i = j
    <3>1. s[i - a] = w[i] /\ s[j - a] = w[j]
      BY <1>3, <1>4
    <3>2. i - a = j - a
      BY <1>4, <2>2, <3>1
    <3> QED BY <3>2
  <2>3. OneToOne(s, 0, b - a) <=> \A i, j \in 1..(b - a) : s[i] = s[j] => i = j
    BY DEF OneToOne
  <2>4. OneToOne(w, a, b) <=> \A i, j \in (a + 1)..b : w[i] = w[j] => i = j
    BY DEF OneToOne
  <2> QED BY <2>1, <2>2, <2>3, <2>4
<1> QED BY <1>2, <1>3, <1>5, <1>6 DEF s

\* Concatenation, which appends freed pages to free_slots and allocated pages
\* to rows.
LEMMA ConcatSlice ==
  ASSUME NEW S, NEW v \in Seq(S), NEW w \in Seq(S), NEW a \in Nat, a <= Len(v)
  PROVE  LET c == v \o w IN
         /\ c \in Seq(S) /\ Len(c) = Len(v) + Len(w)
         /\ \A i \in 1..Len(v) : c[i] = v[i]
         /\ Slice(c, a, Len(c)) = Slice(v, a, Len(v)) \cup Slice(w, 0, Len(w))
         /\ OneToOne(c, a, Len(c)) <=> /\ OneToOne(v, a, Len(v)) /\ OneToOne(w, 0, Len(w))
                                       /\ Slice(v, a, Len(v)) \cap Slice(w, 0, Len(w)) = {}
<1> DEFINE c == v \o w
<1>1. /\ c \in Seq(S) /\ Len(c) = Len(v) + Len(w)
      /\ \A i \in 1..Len(v) + Len(w) : c[i] = IF i <= Len(v) THEN v[i] ELSE w[i - Len(v)]
  BY ConcatProperties
<1>2. Len(v) \in Nat /\ Len(w) \in Nat
  OBVIOUS
<1> HIDE DEF c
<1>3. \A i \in 1..Len(v) : c[i] = v[i]
  BY <1>1, <1>2
<1>4. Slice(c, a, Len(v)) = Slice(v, a, Len(v)) /\ (OneToOne(c, a, Len(v)) <=> OneToOne(v, a, Len(v)))
  <2>1. \A i \in (a + 1)..Len(v) : c[i] = v[i]
    BY <1>2, <1>3
  <2> QED BY <2>1, SliceSame
<1>5. ASSUME NEW j \in 1..Len(w)
      PROVE  Len(v) + j \in (Len(v) + 1)..Len(c) /\ c[Len(v) + j] = w[j]
  <2>1. /\ Len(v) + j \in 1..Len(v) + Len(w) /\ ~(Len(v) + j <= Len(v))
        /\ (Len(v) + j) - Len(v) = j /\ Len(v) + j \in (Len(v) + 1)..Len(c)
    BY <1>1, <1>2
  <2> QED BY <1>1, <2>1
<1>6. ASSUME NEW i \in (Len(v) + 1)..Len(c)
      PROVE  i - Len(v) \in 1..Len(w) /\ c[i] = w[i - Len(v)]
  <2>1. i \in 1..Len(v) + Len(w) /\ ~(i <= Len(v)) /\ i - Len(v) \in 1..Len(w)
    BY <1>1, <1>2
  <2> QED BY <1>1, <2>1
<1>7. (0 + 1)..Len(w) = 1..Len(w)
  OBVIOUS
<1>8. Slice(c, Len(v), Len(c)) = Slice(w, 0, Len(w))
  BY <1>5, <1>6, <1>7 DEF Slice
<1>9. OneToOne(c, Len(v), Len(c)) <=> OneToOne(w, 0, Len(w))
  <2>1. ASSUME OneToOne(w, 0, Len(w)),
               NEW i \in (Len(v) + 1)..Len(c), NEW j \in (Len(v) + 1)..Len(c), c[i] = c[j]
        PROVE  i = j
    <3>1. i - Len(v) = j - Len(v)
      BY <1>6, <1>7, <2>1 DEF OneToOne
    <3> QED BY <1>2, <3>1
  <2>2. ASSUME OneToOne(c, Len(v), Len(c)),
               NEW i \in 1..Len(w), NEW j \in 1..Len(w), w[i] = w[j]
        PROVE  i = j
    <3>1. Len(v) + i = Len(v) + j
      BY <1>5, <2>2 DEF OneToOne
    <3> QED BY <1>2, <3>1
  <2> QED BY <1>7, <2>1, <2>2 DEF OneToOne
<1>10. Len(c) \in Nat /\ a <= Len(v) /\ Len(v) <= Len(c)
  BY <1>1, <1>2
<1>11. /\ Slice(c, a, Len(c)) = Slice(c, a, Len(v)) \cup Slice(c, Len(v), Len(c))
       /\ OneToOne(c, a, Len(c)) <=> /\ OneToOne(c, a, Len(v)) /\ OneToOne(c, Len(v), Len(c))
                                     /\ Slice(c, a, Len(v)) \cap Slice(c, Len(v), Len(c)) = {}
  BY <1>2, <1>10, SliceCut
<1> QED BY <1>1, <1>3, <1>4, <1>8, <1>9, <1>11 DEF c

\* A slice of the whole list is what ToSet sees.
LEMMA SliceAll ==
  ASSUME NEW S, NEW w \in Seq(S)
  PROVE  Slice(w, 0, Len(w)) = ToSet(w) /\ Slice(w, 0, Len(w)) \subseteq S
<1>1. DOMAIN w = 1..Len(w) /\ (0 + 1)..Len(w) = 1..Len(w) /\ \A i \in 1..Len(w) : w[i] \in S
  BY LenProperties
<1> QED BY <1>1 DEF Slice, ToSet

\* The evicted pages, and the pages of a new pool, are listed once each.
LEMMA ListOfSet ==
  ASSUME NEW S, IsFiniteSet(S)
  PROVE  LET w == SetToSeq(S) IN
         /\ w \in Seq(S) /\ Len(w) = Cardinality(S)
         /\ OneToOne(w, 0, Len(w)) /\ Slice(w, 0, Len(w)) = S
<1> DEFINE n == Cardinality(S)
           w == SetToSeq(S)
<1>1. n \in Nat /\ ExistsBijection(1..n, S)
  BY FS_CardinalityType
<1>2. \E f \in [1..n -> S] : IsInjective(f)
  BY <1>1 DEF ExistsBijection, Bijection, Injection, IsInjective
<1>3. w \in [1..n -> S] /\ IsInjective(w)
  BY <1>2 DEF SetToSeq
<1> HIDE DEF w
<1>4. w \in Seq(S) /\ Len(w) = n
  <2> HIDE DEF n
  <2> QED BY <1>1, <1>3, SeqDef
<1>5. w \in Injection(1..n, S)
  BY <1>3 DEF Injection, IsInjective
<1>6. w \in Surjection(1..n, S)
  <2>1. Cardinality(1..n) = n
    <3> HIDE DEF n
    <3>1. 1 \in Int /\ n \in Int
      BY <1>1
    <3>2. Cardinality(1..n) = IF 1 > n THEN 0 ELSE n - 1 + 1
      BY <3>1, FS_Interval
    <3> QED BY <1>1, <3>2
  <2> QED BY <1>5, <2>1, FS_Injection DEF n
<1> HIDE DEF n
<1>7. (0 + 1)..n = 1..n
  OBVIOUS
<1>8. OneToOne(w, 0, n) /\ Slice(w, 0, n) = S
  <2>1. OneToOne(w, 0, n)
    BY <1>3, <1>7 DEF OneToOne, IsInjective
  <2>2. Slice(w, 0, n) = S
    BY <1>3, <1>6, <1>7 DEF Slice, Surjection
  <2> QED BY <2>1, <2>2
<1> QED BY <1>4, <1>8 DEF w, n

-----------------------------------------------------------------------------
(* allocate_paged deals the pages of a batch out request by request. *)

\* The slots of requests before x, and of x itself.
Before(W, x) == Cardinality({s \in W : s[1] < x})
Dealt(W, x)  == Cardinality({s \in W : s[1] = x})
UpTo(W, x)   == {s \in W : s[1] <= x}

\* Every request's share follows the shares of the requests before it.
LEMMA Shares ==
  ASSUME NEW W, IsFiniteSet(W), \A s \in W : s[1] \in Nat, NEW x \in Nat
  PROVE  /\ Before(W, x) \in Nat /\ Dealt(W, x) \in Nat
         /\ Before(W, x) + Dealt(W, x) = Cardinality(UpTo(W, x))
         /\ Cardinality(UpTo(W, x)) <= Cardinality(W)
         /\ IsFiniteSet(UpTo(W, x)) /\ UpTo(W, x) \subseteq W
         /\ \A y \in Nat : x < y => Before(W, x) + Dealt(W, x) <= Before(W, y)
<1> DEFINE L == {s \in W : s[1] < x}
           D == {s \in W : s[1] = x}
<1>1. L \subseteq W /\ D \subseteq W /\ L \cap D = {} /\ UpTo(W, x) = L \cup D /\ UpTo(W, x) \subseteq W
  <2>1. L \cap D = {}
    OBVIOUS
  <2>2. UpTo(W, x) = L \cup D
    BY DEF UpTo
  <2> QED BY <2>1, <2>2
<1>2. Before(W, x) = Cardinality(L) /\ Dealt(W, x) = Cardinality(D)
  BY DEF Before, Dealt
<1>3. ASSUME NEW y \in Nat, x < y
      PROVE  Cardinality(UpTo(W, x)) <= Before(W, y)
  <2> DEFINE M == {s \in W : s[1] < y}
  <2>1. M \subseteq W /\ UpTo(W, x) \subseteq M
    BY <1>3 DEF UpTo
  <2>2. IsFiniteSet(M)
    BY <2>1, FS_Subset
  <2>3. Cardinality(UpTo(W, x)) <= Cardinality(M)
    BY <2>1, <2>2, FS_Subset
  <2> QED BY <2>3 DEF Before
<1> HIDE DEF L, D
<1>4. IsFiniteSet(L) /\ IsFiniteSet(D) /\ IsFiniteSet(UpTo(W, x))
  BY <1>1, FS_Subset
<1>5. /\ Cardinality(L) \in Nat /\ Cardinality(D) \in Nat
      /\ Cardinality(UpTo(W, x)) = Cardinality(L) + Cardinality(D)
  BY <1>1, <1>4, CountApart
<1>6. Cardinality(UpTo(W, x)) <= Cardinality(W)
  BY <1>1, FS_Subset
<1> QED BY <1>1, <1>2, <1>3, <1>4, <1>5, <1>6

\* Every page dealt out goes to a request: there are no gaps between the shares.
LEMMA SharesCover ==
  ASSUME NEW W, IsFiniteSet(W), \A s \in W : s[1] \in Nat,
         NEW j \in Nat \ {0}, j <= Cardinality(W)
  PROVE  \E s \in W : Before(W, s[1]) < j /\ j <= Before(W, s[1]) + Dealt(W, s[1])
<1> DEFINE X == {s[1] : s \in W}
           Z == {x \in X : Before(W, x) < j}
           Rest(x) == Cardinality(W) - Cardinality(UpTo(W, x))
           T == {Rest(x) : x \in Z}
<1>1. Cardinality(W) \in Nat /\ W # {}
  <2>1. Cardinality(W) \in Nat
    BY FS_CardinalityType
  <2> QED BY <2>1, FS_EmptySet
<1>2. X \in SUBSET Nat /\ X # {}
  BY <1>1
<1>3. ASSUME NEW x \in X
      PROVE  /\ x \in Nat /\ Before(W, x) \in Nat /\ Dealt(W, x) \in Nat
             /\ Before(W, x) + Dealt(W, x) = Cardinality(UpTo(W, x))
             /\ Cardinality(UpTo(W, x)) <= Cardinality(W) /\ IsFiniteSet(UpTo(W, x))
  BY <1>2, Shares
<1>4. Z # {}
  <2> HIDE DEF X
  <2>1. PICK x \in X : \A y \in X : x <= y
    BY <1>2, LeastElement
  <2>2. {s \in W : s[1] < x} = {}
    <3>1. \A s \in W : s[1] \in X /\ x <= s[1] /\ s[1] \in Nat /\ x \in Nat
      BY <1>3, <2>1 DEF X
    <3> QED BY <3>1
  <2>3. Before(W, x) = 0
    BY <2>2, FS_EmptySet DEF Before
  <2> QED BY <2>1, <2>3
<1>5. T \in SUBSET Nat /\ T # {}
  <2>1. ASSUME NEW x \in Z PROVE Rest(x) \in Nat
    <3> HIDE DEF X
    <3>1. Cardinality(UpTo(W, x)) \in Nat /\ Cardinality(UpTo(W, x)) <= Cardinality(W)
      BY <1>3
    <3> QED BY <1>1, <3>1
  <2> HIDE DEF Z, Rest
  <2> QED BY <1>4, <2>1
<1> HIDE DEF T
<1>6. PICK m \in T : \A y \in T : m <= y
  BY <1>5, LeastElement
<1> HIDE DEF X
<1>7. PICK x \in Z : \A y \in Z : Rest(x) <= Rest(y)
  <2> HIDE DEF Z, Rest
  <2> QED BY <1>6 DEF T
<1>8. j <= Cardinality(UpTo(W, x))
  <2> SUFFICES ASSUME ~(j <= Cardinality(UpTo(W, x))) PROVE FALSE
    OBVIOUS
  <2> DEFINE U == UpTo(W, x)
             H == {y \in X : x < y}
  <2>1. IsFiniteSet(U) /\ Cardinality(U) \in Nat /\ U \subseteq W /\ Cardinality(U) < j
    <3>1. IsFiniteSet(U) /\ U \subseteq W /\ Cardinality(U) \in Nat
      BY <1>3, FS_CardinalityType DEF UpTo
    <3> QED BY <3>1
  <2>2. H # {}
    <3> SUFFICES ASSUME H = {} PROVE FALSE
      OBVIOUS
    <3>1. \A s \in W : s[1] \in X /\ s[1] \in Nat /\ x \in Nat
      BY <1>3 DEF X
    <3>2. \A s \in W : s[1] <= x
      BY <3>1
    <3>3. U = W
      BY <3>2 DEF UpTo
    <3> QED BY <2>1, <3>3
  <2>3. H \in SUBSET Nat
    BY <1>3
  <2> HIDE DEF H
  <2>4. PICK y \in H : \A z \in H : y <= z
    BY <2>2, <2>3, LeastElement
  <2>5. y \in X /\ x < y /\ y \in Nat /\ x \in Nat
    BY <1>3, <2>4 DEF H
  <2>6. {s \in W : s[1] < y} = U
    <3>1. ASSUME NEW s \in W PROVE s[1] < y <=> s[1] <= x
      <4>1. s[1] \in X /\ s[1] \in Nat
        BY <1>3 DEF X
      <4>2. x < s[1] => y <= s[1]
        BY <2>4, <4>1 DEF H
      <4> QED BY <2>5, <4>1, <4>2
    <3> QED BY <3>1 DEF UpTo
  <2>7. Before(W, y) = Cardinality(U)
    BY <2>6 DEF Before
  <2>8. y \in Z
    BY <2>1, <2>5, <2>7
  <2>9. Cardinality(UpTo(W, y)) > Cardinality(U)
    <3>1. PICK s \in W : s[1] = y
      BY <2>5 DEF X
    <3>2. s \in UpTo(W, y) /\ s \notin U
      BY <2>5, <3>1 DEF UpTo
    <3>3. U \subseteq UpTo(W, y)
      <4>1. \A q \in W : q[1] \in Nat
        OBVIOUS
      <4> QED BY <2>5, <4>1 DEF UpTo
    <3>4. IsFiniteSet(UpTo(W, y))
      BY <1>3, <2>5
    <3>5. Cardinality(U) <= Cardinality(UpTo(W, y)) /\ Cardinality(U) # Cardinality(UpTo(W, y))
      BY <3>2, <3>3, <3>4, FS_Subset
    <3>6. Cardinality(UpTo(W, y)) \in Nat
      BY <3>4, FS_CardinalityType
    <3> QED BY <2>1, <3>5, <3>6
  <2>10. Rest(x) <= Rest(y)
    BY <1>7, <2>8
  <2>11. Cardinality(UpTo(W, y)) \in Nat
    BY <1>3, <2>5
  <2> QED BY <1>1, <2>1, <2>9, <2>10, <2>11
<1>9. PICK s \in W : s[1] = x
  BY DEF X
<1>10. x \in X /\ Before(W, x) < j
  OBVIOUS
<1>11. j <= Before(W, x) + Dealt(W, x)
  BY <1>3, <1>8, <1>10
<1> QED BY <1>9, <1>10, <1>11

-----------------------------------------------------------------------------
(* The inductive invariant. *)

\* The three kinds of owner: the free list, the tree, and the slots of a row
\* past the request's handle.
FreePages == Slice(free, 0, Len(free))
TreePages == {tree.page[k] : k \in Stored(tree)}
OwnPages  == [r \in Reqs |-> Slice(row[r], hit[r], Len(row[r]))]

PoolInv == /\ pool \subseteq Pages
           /\ free \in Seq(pool)
           /\ tree.page = [k \in Stored(tree) |-> tree.page[k]]
           /\ \A k \in Stored(tree) : tree.page[k] \in pool
           /\ row \in [Reqs -> Seq(pool)]

\* A row has a page for every started page of computed tokens, and its shared
\* prefix is read in the tree.
RowsInv == \A r \in Reqs :
    /\ Len(row[r]) = PagesFor(cached[r])
    /\ hit[r] <= FullPages(cached[r])
    /\ Len(ids[r]) <= MaxLen
    /\ stage[r] = "idle" => cached[r] = 0
    /\ \A i \in 1..hit[r] : row[r][i] = tree.page[Key(ids[r], i)]

\* No owner holds a page twice.
OnceInv == /\ OneToOne(free, 0, Len(free))
           /\ \A k, l \in Stored(tree) : tree.page[k] = tree.page[l] => k = l
           /\ \A r \in Reqs : OneToOne(row[r], hit[r], Len(row[r]))

\* No two owners hold the same page.
Apart(F, T, O) ==
    /\ F \cap T = {}
    /\ \A r \in Reqs : O[r] \cap F = {} /\ O[r] \cap T = {}
    /\ \A r, q \in Reqs : r # q => O[r] \cap O[q] = {}

\* Every page of P has an owner.
Covered(P, F, T, O) == \A p \in P : p \in F \/ p \in T \/ \E r \in Reqs : p \in O[r]

\* PagesConserved is not inductive by itself: a commit frees the pages between
\* the handle and the match because the tree has them already, which is right
\* only because the row reads its first hit pages in the tree (RowsInv), and an
\* eviction gives back different pages only because the tree maps prefixes to
\* different pages (OnceInv).
PagesInv == /\ IInv /\ PoolInv /\ RowsInv /\ OnceInv
            /\ Apart(FreePages, TreePages, OwnPages)
            /\ Covered(pool, FreePages, TreePages, OwnPages)

-----------------------------------------------------------------------------
\* A request hands D to the free list and N to the tree, and keeps K.
LEMMA Handover ==
  ASSUME PagesInv, pool' = pool,
         NEW r \in Reqs, NEW D, NEW N, NEW K,
         OwnPages[r] = (D \cup N) \cup K, D \cap N = {}, D \cap K = {}, N \cap K = {},
         FreePages' = FreePages \cup D, TreePages' = TreePages \cup N,
         \A q \in Reqs : OwnPages'[q] = IF q = r THEN K ELSE OwnPages[q]
  PROVE  /\ Apart(FreePages, TreePages, OwnPages)'
         /\ Covered(pool, FreePages, TreePages, OwnPages)'
<1>1. /\ FreePages \cap TreePages = {}
      /\ \A q \in Reqs : OwnPages[q] \cap FreePages = {} /\ OwnPages[q] \cap TreePages = {}
      /\ \A p, q \in Reqs : p # q => OwnPages[p] \cap OwnPages[q] = {}
      /\ \A x \in pool : \/ x \in FreePages \/ x \in TreePages
                         \/ \E q \in Reqs : x \in OwnPages[q]
  BY DEF PagesInv, Apart, Covered
<1>2. FreePages' \cap TreePages' = {}
  BY <1>1
<1>3. ASSUME NEW q \in Reqs
      PROVE  /\ OwnPages'[q] \cap FreePages' = {} /\ OwnPages'[q] \cap TreePages' = {}
             /\ OwnPages'[q] \subseteq OwnPages[q]
  <2>1. CASE q = r
    BY <1>1, <2>1
  <2>2. CASE q # r
    BY <1>1, <2>2
  <2> QED BY <2>1, <2>2
<1>4. ASSUME NEW p \in Reqs, NEW q \in Reqs, p # q PROVE OwnPages'[p] \cap OwnPages'[q] = {}
  BY <1>1, <1>3, <1>4
<1>5. ASSUME NEW x \in pool'
      PROVE  x \in FreePages' \/ x \in TreePages' \/ \E q \in Reqs : x \in OwnPages'[q]
  <2>1. CASE x \in FreePages \/ x \in TreePages
    BY <2>1
  <2>2. CASE \E q \in Reqs : x \in OwnPages[q]
    <3>1. PICK q \in Reqs : x \in OwnPages[q]
      BY <2>2
    <3>2. CASE q = r
      BY <3>1, <3>2
    <3>3. CASE q # r
      BY <3>1, <3>3
    <3> QED BY <3>2, <3>3
  <2> QED BY <1>1, <2>1, <2>2
<1>6. Apart(FreePages, TreePages, OwnPages)'
  BY <1>2, <1>3, <1>4 DEF Apart
<1>7. Covered(pool, FreePages, TreePages, OwnPages)'
  BY <1>5 DEF Covered
<1> QED BY <1>6, <1>7

\* The pages under a handle are in the tree.
LEMMA HandleStored ==
  ASSUME IInv, NEW r \in Reqs, NEW i \in 1..hit[r]
  PROVE  /\ Key(ids[r], i) \in Stored(tree)
         /\ ids[r] \in Seq(Tokens) /\ i <= FullPages(Len(ids[r]))
<1>1. /\ WellFormed(tree, Tokens) /\ HandlesIn(tree, Reqs, Handles)
      /\ ids[r] \in Seq(Tokens) /\ hit[r] \in Nat /\ hit[r] * PageSize <= Len(ids[r])
      /\ Len(ids[r]) \in Nat
  BY DEF IInv, TreeInv, ReqsInv
<1>2. hit[r] <= FullPages(Len(ids[r]))
  <2>1. /\ FullPages(Len(ids[r])) \in Nat
        /\ Len(ids[r]) < (FullPages(Len(ids[r])) + 1) * PageSize
    BY <1>1, PageBounds
  <2>2. hit[r] < FullPages(Len(ids[r])) + 1
    BY <1>1, <2>1, PageSizeAssumption
  <2> QED BY <1>1, <2>1, <2>2
<1>3. i \in Nat \ {0} /\ i <= hit[r] /\ hit[r] \in Nat \ {0}
  BY <1>1
<1>4. i <= FullPages(Len(ids[r])) /\ FullPages(Len(ids[r])) \in Nat
  <2>1. FullPages(Len(ids[r])) \in Nat
    BY <1>1, PageArithmetic
  <2> QED BY <1>2, <1>3, <2>1
<1>5. Key(ids[r], hit[r]) \in Whole(Tokens) /\ Key(ids[r], i) \in Whole(Tokens)
  BY <1>1, <1>2, <1>3, <1>4, KeyIsWhole
<1>6. Key(ids[r], hit[r]) \in Stored(tree)
  <2>1. Handles[r] = Key(ids[r], hit[r]) /\ Handles[r] \in Nodes(tree) \cup {Root}
    BY <1>1 DEF HandlesIn, Handles, HandleKey
  <2> QED BY <1>1, <1>5, <2>1 DEF Whole, WellFormed
<1>7. StartsWith(Key(ids[r], hit[r]), Key(ids[r], i))
  BY <1>1, <1>3, KeysAreNested
<1> QED BY <1>1, <1>4, <1>5, <1>6, <1>7 DEF WellFormed

HandlesStored == \A r \in Reqs : \A i \in 1..hit[r] : Key(ids[r], i) \in Stored(tree)

\* So they are after every step that keeps the invariant of the handles.
LEMMA HandlesStayStored == IInv' => HandlesStored'
<1>1. IInv => HandlesStored
  BY HandleStored DEF HandlesStored
<1> QED BY <1>1, PTL

\* The match of a commit goes at least as far as the handle: the locked prefix
\* is still in the tree.
LEMMA MatchPastHandle ==
  ASSUME IInv, RowsInv, NEW r \in Reqs
  PROVE  LET m == Matched(tree, Computed(r))
             n == FullPages(cached[r]) IN
         /\ m \in Nat /\ n \in Nat /\ hit[r] \in Nat
         /\ hit[r] <= m /\ m <= n /\ n <= Len(row[r]) /\ Len(row[r]) \in Nat
         /\ n <= FullPages(Len(ids[r]))
         /\ \A i \in 1..n : Key(Computed(r), i) = Key(ids[r], i)
         /\ \A i \in 1..m : Key(ids[r], i) \in Stored(tree)
<1> DEFINE m == Matched(tree, Computed(r))
           n == FullPages(cached[r])
<1>1. /\ ids[r] \in Seq(Tokens) /\ cached[r] \in Nat /\ cached[r] <= Len(ids[r])
      /\ Len(ids[r]) \in Nat /\ hit[r] \in Nat /\ hit[r] <= n /\ Len(row[r]) = PagesFor(cached[r])
  BY DEF IInv, ReqsInv, RowsInv
<1>2. Computed(r) \in Seq(Tokens) /\ Len(Computed(r)) = cached[r]
  BY ComputedFacts
<1>3. /\ n \in Nat /\ PagesFor(cached[r]) \in Nat /\ n <= PagesFor(cached[r])
      /\ n * PageSize <= cached[r]
  BY <1>1, PageBounds
<1>4. n <= FullPages(Len(ids[r]))
  BY <1>1, PagesMonotone
<1>5. /\ m \in 0..n
      /\ \A i \in 1..m : Key(Computed(r), i) \in Stored(tree)
      /\ m < n => Key(Computed(r), m + 1) \notin Stored(tree)
  BY <1>2, MatchedSpec
<1>6. ASSUME NEW i \in 1..n PROVE Key(Computed(r), i) = Key(ids[r], i)
  <2>1. i \in Nat /\ i <= n
    BY <1>3
  <2>2. i * PageSize <= cached[r]
    <3>1. i * PageSize <= n * PageSize /\ i * PageSize \in Nat /\ n * PageSize \in Nat
      BY <1>3, <2>1, PageArithmetic
    <3> QED BY <1>1, <1>3, <3>1
  <2> QED BY <1>1, <2>1, <2>2, KeyOfPrefix DEF Computed
<1> HIDE DEF m, n
<1>7. hit[r] <= m
  <2> SUFFICES ASSUME m < hit[r] PROVE FALSE
    BY <1>1, <1>3, <1>5
  <2>1. m + 1 \in 1..hit[r] /\ m + 1 \in 1..n /\ m < n
    BY <1>1, <1>3, <1>5
  <2> QED BY <1>5, <1>6, <2>1, HandleStored
<1>8. \A i \in 1..m : Key(ids[r], i) \in Stored(tree)
  <2>1. \A i \in 1..m : i \in 1..n
    BY <1>3, <1>5
  <2> QED BY <1>5, <1>6, <2>1
<1>9. m \in Nat /\ m <= n
  BY <1>3, <1>5
<1> QED BY <1>1, <1>3, <1>4, <1>6, <1>7, <1>8, <1>9 DEF m, n

\* The request's own slots are what a commit frees as duplicates, publishes, and
\* leaves to the request, in that order.
LEMMA OwnParts ==
  ASSUME PagesInv, NEW r \in Reqs
  PROVE  LET m == Matched(tree, Computed(r))
             n == FullPages(cached[r])
             D == Slice(row[r], hit[r], m)
             N == Slice(row[r], m, n)
             K == Slice(row[r], n, Len(row[r])) IN
         /\ OwnPages[r] = (D \cup N) \cup K
         /\ D \cap N = {} /\ D \cap K = {} /\ N \cap K = {}
         /\ OneToOne(row[r], hit[r], m) /\ OneToOne(row[r], m, n)
         /\ OneToOne(row[r], n, Len(row[r]))
<1> DEFINE m == Matched(tree, Computed(r))
           n == FullPages(cached[r])
           L == Len(row[r])
<1>1. /\ m \in Nat /\ n \in Nat /\ hit[r] \in Nat /\ L \in Nat
      /\ hit[r] <= m /\ m <= n /\ n <= L
  BY MatchPastHandle DEF PagesInv
<1>2. OneToOne(row[r], hit[r], L) /\ OwnPages[r] = Slice(row[r], hit[r], L)
  BY DEF PagesInv, OnceInv, OwnPages
<1> HIDE DEF m, n, L
<1>3. /\ Slice(row[r], hit[r], L) = Slice(row[r], hit[r], n) \cup Slice(row[r], n, L)
      /\ OneToOne(row[r], hit[r], n) /\ OneToOne(row[r], n, L)
      /\ Slice(row[r], hit[r], n) \cap Slice(row[r], n, L) = {}
  <2>1. hit[r] <= n
    BY <1>1
  <2> QED BY <1>1, <1>2, <2>1, SliceCut
<1>4. /\ Slice(row[r], hit[r], n) = Slice(row[r], hit[r], m) \cup Slice(row[r], m, n)
      /\ OneToOne(row[r], hit[r], m) /\ OneToOne(row[r], m, n)
      /\ Slice(row[r], hit[r], m) \cap Slice(row[r], m, n) = {}
  BY <1>1, <1>3, SliceCut
<1>5. /\ Slice(row[r], hit[r], m) \cap Slice(row[r], n, L) = {}
      /\ Slice(row[r], m, n) \cap Slice(row[r], n, L) = {}
  BY <1>3, <1>4
<1> QED BY <1>2, <1>3, <1>4, <1>5 DEF m, n, L

\* What the tree maps after a commit has published a request's pages.
LEMMA PublishedPages ==
  ASSUME PagesInv, NEW r \in Reqs
  PROVE  LET p == Published(r)
             m == Matched(tree, Computed(r))
             n == FullPages(cached[r]) IN
         /\ WellFormed(p, Tokens)
         /\ \A k \in Stored(tree) : k \in Stored(p) /\ p.page[k] = tree.page[k]
         /\ \A i \in (m + 1)..n : p.page[Key(ids[r], i)] = row[r][i]
         /\ \A k \in Stored(p) : k \in Stored(tree) \/ \E i \in (m + 1)..n : k = Key(ids[r], i)
         /\ p.page = [k \in Stored(p) |-> p.page[k]]
         /\ {p.page[k] : k \in Stored(p)} = TreePages \cup Slice(row[r], m, n)
         /\ \A k, l \in Stored(p) : p.page[k] = p.page[l] => k = l
<1> DEFINE s == Computed(r)
           u == Insert(tree, s, row[r])
           p == Published(r)
           m == Matched(tree, s)
           n == FullPages(cached[r])
<1>1. s \in Seq(Tokens) /\ Len(s) = cached[r] /\ WellFormed(tree, Tokens)
  BY ComputedFacts DEF PagesInv, IInv, TreeInv
<1>2. /\ m \in Nat /\ n \in Nat /\ m <= n /\ hit[r] \in Nat /\ hit[r] <= m
      /\ \A i \in 1..n : Key(s, i) = Key(ids[r], i)
  BY MatchPastHandle DEF PagesInv
<1>3. WellFormed(u, Tokens) /\ WellFormed(p, Tokens)
  <2>1. WellFormed(u, Tokens)
    BY <1>1, InsertKeeps DEF PagesInv, IInv, TreeInv
  <2> DEFINE g == [q \in Reqs |-> IF q = r THEN Root ELSE Handles[q]]
  <2>2. \A q \in Reqs : g[q] = IF q = r THEN Root ELSE Handles[q]
    OBVIOUS
  <2> HIDE DEF g
  <2>3. WellFormed(p, Tokens)
    BY <2>2, PublishedKeeps DEF PagesInv
  <2> QED BY <2>1, <2>3
<1>4. /\ Stored(u) = Stored(tree) \cup {Key(s, i) : i \in (m + 1)..n}
      /\ \A k \in Stored(tree) : u.page[k] = tree.page[k]
      /\ \A i \in (m + 1)..n : u.page[Key(s, i)] = row[r][i]
  <2> HIDE DEF s
  <2> QED BY <1>1, InsertPages
<1>5. u.page = [k \in Stored(u) |-> u.page[k]]
  <2> HIDE DEF s
  <2>1. tree.page = [k \in Stored(tree) |-> tree.page[k]]
    BY DEF PagesInv, PoolInv
  <2> QED BY <1>1, <2>1, InsertMaps
<1>6. p.page = u.page /\ Stored(p) = Stored(u)
  <2>1. p = Unlock(u, HandleKey(r))
    BY DEF Published
  <2> HIDE DEF u, p
  <2> QED BY <1>3, <2>1, LockPages
<1> HIDE DEF u, p, m, n, s
<1>7. \A i \in (m + 1)..n : i \in 1..n /\ Key(s, i) = Key(ids[r], i)
  BY <1>2
<1>8. \A i \in (m + 1)..n : p.page[Key(ids[r], i)] = row[r][i]
  BY <1>4, <1>6, <1>7
<1>11. \A k \in Stored(p) : k \in Stored(tree) \/ \E i \in (m + 1)..n : k = Key(ids[r], i)
  BY <1>4, <1>6, <1>7
<1>9. {p.page[k] : k \in Stored(p)} = TreePages \cup Slice(row[r], m, n)
  <2>1. \A k \in Stored(tree) : k \in Stored(p) /\ p.page[k] = tree.page[k]
    BY <1>4, <1>6
  <2>2. \A i \in (m + 1)..n : Key(s, i) \in Stored(p) /\ p.page[Key(s, i)] = row[r][i]
    BY <1>4, <1>6
  <2>3. \A k \in Stored(p) : k \in Stored(tree) \/ \E i \in (m + 1)..n : k = Key(s, i)
    BY <1>4, <1>6
  <2> QED BY <2>1, <2>2, <2>3 DEF TreePages, Slice
<1>10. ASSUME NEW k \in Stored(p), NEW l \in Stored(p), p.page[k] = p.page[l] PROVE k = l
  <2>1. OneToOne(row[r], m, n) /\ Slice(row[r], m, n) \subseteq OwnPages[r]
    BY OwnParts DEF m, n, s
  <2>2. \A i \in (m + 1)..n : row[r][i] \notin TreePages
    BY <2>1 DEF PagesInv, Apart, Slice
  <2>3. \A x \in Stored(tree) : p.page[x] \in TreePages /\ p.page[x] = tree.page[x]
    BY <1>4, <1>6 DEF TreePages
  <2>4. \A x \in Stored(p) : x \in Stored(tree) \/ \E i \in (m + 1)..n : x = Key(s, i) /\ p.page[x] = row[r][i]
    BY <1>4, <1>6
  <2>5. CASE k \in Stored(tree) /\ l \in Stored(tree)
    BY <1>10, <2>3, <2>5 DEF PagesInv, OnceInv
  <2>6. CASE k \in Stored(tree) /\ l \notin Stored(tree)
    BY <1>10, <2>2, <2>3, <2>4, <2>6
  <2>7. CASE k \notin Stored(tree) /\ l \in Stored(tree)
    BY <1>10, <2>2, <2>3, <2>4, <2>7
  <2>8. CASE k \notin Stored(tree) /\ l \notin Stored(tree)
    <3>1. PICK i \in (m + 1)..n : k = Key(s, i) /\ p.page[k] = row[r][i]
      BY <2>4, <2>8
    <3>2. PICK j \in (m + 1)..n : l = Key(s, j) /\ p.page[l] = row[r][j]
      BY <2>4, <2>8
    <3> QED BY <1>10, <2>1, <3>1, <3>2 DEF OneToOne
  <2> QED BY <2>5, <2>6, <2>7, <2>8
<1> QED BY <1>3, <1>4, <1>5, <1>6, <1>8, <1>9, <1>10, <1>11 DEF p, m, n, s

-----------------------------------------------------------------------------
(* One lemma per operation. *)

\* A new pool is all free.
LEMMA AllFree ==
  ASSUME NEW P \in SUBSET Pages
  PROVE  /\ SetToSeq(P) \in Seq(P)
         /\ OneToOne(SetToSeq(P), 0, Len(SetToSeq(P)))
         /\ Slice(SetToSeq(P), 0, Len(SetToSeq(P))) = P
  BY KVCacheAssumption, FS_Subset, ListOfSet

\* Nothing is cached in an empty tree.
LEMMA EmptyTreePages ==
  /\ Stored(EmptyTree) = {}
  /\ EmptyTree.page = [k \in Stored(EmptyTree) |-> EmptyTree.page[k]]
  BY DEF EmptyTree, Stored

\* At the start every page is on the free list and no request has a row.
LEMMA InitPages == Init => PagesInv
<1> SUFFICES ASSUME Init PROVE PagesInv
  OBVIOUS
<1>1. pool \in SUBSET Pages /\ free = SetToSeq(pool) /\ tree = EmptyTree
  BY DEF Init
<1>2. free \in Seq(pool) /\ OneToOne(free, 0, Len(free)) /\ FreePages = pool
  BY <1>1, AllFree DEF FreePages
<1>3. ASSUME NEW r \in Reqs
      PROVE  /\ ids[r] = << >> /\ hit[r] = 0 /\ row[r] = << >> /\ cached[r] = 0
             /\ row[r] \in Seq(pool) /\ Len(row[r]) = 0 /\ Len(ids[r]) = 0
             /\ PagesFor(0) = 0 /\ FullPages(0) = 0
  <2>1. PagesFor(0) = 0 /\ FullPages(0) = 0
    BY PageSizeAssumption DEF PagesFor, FullPages
  <2> QED BY <2>1, EmptySeq DEF Init
<1>4. PoolInv
  BY <1>1, <1>2, <1>3, EmptyTreePages DEF PoolInv, Init
<1>5. RowsInv
  <2>1. ASSUME NEW r \in Reqs
        PROVE  /\ Len(row[r]) = PagesFor(cached[r]) /\ hit[r] <= FullPages(cached[r])
               /\ cached[r] = 0 /\ Len(ids[r]) <= MaxLen /\ 1..hit[r] = {}
    <3>1. 1..0 = {} /\ 0 <= 0 /\ 0 <= MaxLen
      BY KVCacheAssumption
    <3> QED BY <1>3, <3>1
  <2> QED BY <2>1 DEF RowsInv
<1>6. OwnPages = [r \in Reqs |-> {}] /\ TreePages = {}
  <2>1. \A r \in Reqs : Slice(row[r], hit[r], Len(row[r])) = {}
    BY <1>3, SliceEmpty
  <2> QED BY <1>1, <2>1, EmptyTreePages DEF OwnPages, TreePages
<1>7. OnceInv
  <2>1. \A r \in Reqs : OneToOne(row[r], hit[r], Len(row[r]))
    BY <1>3, SliceEmpty
  <2> QED BY <1>1, <1>2, <2>1, EmptyTreePages DEF OnceInv
<1>8. Apart(FreePages, TreePages, OwnPages) /\ Covered(pool, FreePages, TreePages, OwnPages)
  BY <1>2, <1>6 DEF Apart, Covered
<1> QED BY <1>4, <1>5, <1>7, <1>8, InitIInv DEF PagesInv

\* Admit takes no page: the new row reads the pages its handle names, and the
\* walk of match_req may split a node but moves no page.
LEMMA AdmitPages ==
  ASSUME PagesInv, NEW r \in Reqs, Admit(r), IInv'
  PROVE  PagesInv'
<1>1. PICK s \in Prompts : AdmitReq(r, s)
  BY DEF Admit
<1> DEFINE q == MatchIds(r, s)
           m == Matched(tree, q)
           w == Walk(tree, q)
<1>2. /\ s \in Seq(Tokens) /\ q \in Seq(Tokens) /\ m \in Nat /\ Len(s) <= MaxLen
  <2>1. Len(s) \in 1..(MaxLen - 1) /\ MaxLen \in Nat
    BY KVCacheAssumption
  <2>2. Len(s) <= MaxLen
    BY <2>1
  <2> QED BY <2>2, MatchIdsFacts
<1>3. /\ tree' = Lock(w, Key(s, m))
      /\ ids' = [ids EXCEPT ![r] = s]
      /\ hit' = [hit EXCEPT ![r] = m]
      /\ row' = [row EXCEPT ![r] = [i \in 1..m |-> tree.page[Key(s, i)]]]
      /\ cached' = [cached EXCEPT ![r] = m * PageSize]
      /\ pool' = pool /\ free' = free
      /\ stage[r] = "idle" /\ stage' = [stage EXCEPT ![r] = "prefill"]
  BY <1>1 DEF AdmitReq, Admit
<1>4. tree'.page = tree.page /\ Stored(tree') = Stored(tree)
  <2>1. WellFormed(w, Tokens) /\ w.page = tree.page /\ Stored(w) = Stored(tree)
    BY <1>2, WalkFields DEF PagesInv, IInv, TreeInv
  <2> HIDE DEF w, m
  <2> QED BY <1>3, <2>1, LockPages
<1> HIDE DEF q, m, w
<1>5. /\ ids' \in [Reqs -> Seq(Tokens)] /\ hit \in [Reqs -> Nat]
      /\ ids \in [Reqs -> Seq(Tokens)] /\ cached \in [Reqs -> Nat] /\ stage \in [Reqs -> Stages]
      /\ row \in [Reqs -> Seq(pool)] /\ hit[r] = 0
  BY <1>3 DEF PagesInv, IInv, ReqsInv, PoolInv
<1>6. hit'[r] = m /\ ids'[r] = s
  BY <1>3, <1>5
<1>7. \A i \in 1..m : Key(s, i) \in Stored(tree)
  BY <1>4, <1>6, HandlesStayStored DEF HandlesStored
<1>8. row'[r] \in Seq(pool) /\ Len(row'[r]) = m /\ \A i \in 1..m : row'[r][i] = tree.page[Key(s, i)]
  <2>1. row'[r] = [i \in 1..m |-> tree.page[Key(s, i)]]
    BY <1>3, <1>5
  <2>2. \A i \in 1..m : tree.page[Key(s, i)] \in pool
    BY <1>7 DEF PagesInv, PoolInv
  <2> QED BY <1>2, <2>1, <2>2
<1>9. \A p \in Reqs : p # r => /\ row'[p] = row[p] /\ hit'[p] = hit[p] /\ ids'[p] = ids[p]
                               /\ cached'[p] = cached[p] /\ stage'[p] = stage[p]
  BY <1>3, <1>5
<1>10. cached'[r] = m * PageSize /\ stage'[r] = "prefill"
  BY <1>3, <1>5
<1>11. PagesFor(m * PageSize) = m /\ FullPages(m * PageSize) = m
  BY <1>2, PagesOfWhole
<1>12. OwnPages' = OwnPages
  <2>1. ASSUME NEW p \in Reqs
        PROVE  Slice(row'[p], hit'[p], Len(row'[p])) = Slice(row[p], hit[p], Len(row[p]))
    <3>1. CASE p # r
      BY <1>9, <3>1
    <3>2. CASE p = r
      <4>1. Len(row[r]) = 0
        <5>1. cached[r] = 0 /\ Len(row[r]) = PagesFor(cached[r])
          BY <1>3 DEF PagesInv, RowsInv
        <5> QED BY <5>1, PageSizeAssumption DEF PagesFor
      <4> QED BY <1>2, <1>5, <1>6, <1>8, <3>2, <4>1, SliceEmpty
    <3> QED BY <3>1, <3>2
  <2> QED BY <2>1 DEF OwnPages
<1>13. FreePages' = FreePages /\ TreePages' = TreePages
  BY <1>3, <1>4 DEF FreePages, TreePages
<1>14. PoolInv'
  <2>1. row' \in [Reqs -> Seq(pool)]
    BY <1>3, <1>5, <1>8
  <2> QED BY <1>3, <1>4, <2>1 DEF PagesInv, PoolInv
<1>15. RowsInv'
  <2> SUFFICES ASSUME NEW p \in Reqs
      PROVE  /\ Len(row'[p]) = PagesFor(cached'[p])
             /\ hit'[p] <= FullPages(cached'[p])
             /\ Len(ids'[p]) <= MaxLen
             /\ stage'[p] = "idle" => cached'[p] = 0
             /\ \A i \in 1..hit'[p] : row'[p][i] = tree'.page[Key(ids'[p], i)]
    BY DEF RowsInv
  <2>1. CASE p = r
    BY <1>2, <1>4, <1>6, <1>8, <1>10, <1>11, <2>1
  <2>2. CASE p # r
    BY <1>4, <1>9, <2>2 DEF PagesInv, RowsInv
  <2> QED BY <2>1, <2>2
<1>16. OnceInv'
  <2>1. ASSUME NEW p \in Reqs PROVE OneToOne(row'[p], hit'[p], Len(row'[p]))
    <3>1. CASE p # r
      BY <1>9, <3>1 DEF PagesInv, OnceInv
    <3>2. CASE p = r
      BY <1>2, <1>6, <1>8, <3>2, SliceEmpty
    <3> QED BY <3>1, <3>2
  <2> QED BY <1>3, <1>4, <2>1 DEF PagesInv, OnceInv
<1> QED BY <1>3, <1>12, <1>13, <1>14, <1>15, <1>16 DEF PagesInv

\* Refuse leaves only the split of its walk behind.
LEMMA RefusePages ==
  ASSUME PagesInv, NEW r \in Reqs, Refuse(r), IInv'
  PROVE  PagesInv'
<1>1. PICK s \in Prompts : tree' = Walk(tree, MatchIds(r, s))
  BY DEF Refuse
<1>2. UNCHANGED <<pool, free, reqVars>>
  BY DEF Refuse
<1>3. tree'.page = tree.page /\ Stored(tree') = Stored(tree)
  BY <1>1, MatchIdsFacts, WalkFields DEF PagesInv, IInv, TreeInv
<1>4. /\ pool' = pool /\ free' = free /\ stage' = stage /\ ids' = ids /\ hit' = hit
      /\ row' = row /\ cached' = cached
  BY <1>2 DEF reqVars
<1>5. FreePages' = FreePages /\ TreePages' = TreePages /\ OwnPages' = OwnPages
  BY <1>3, <1>4 DEF FreePages, TreePages, OwnPages
<1> QED BY <1>3, <1>4, <1>5 DEF PagesInv, PoolInv, RowsInv, OnceInv

\* The variables are functions on Reqs.
LEMMA ReqTypes ==
  ASSUME PagesInv
  PROVE  /\ ids \in [Reqs -> Seq(Tokens)] /\ hit \in [Reqs -> Nat]
         /\ cached \in [Reqs -> Nat] /\ stage \in [Reqs -> Stages]
         /\ row \in [Reqs -> Seq(pool)] /\ free \in Seq(pool)
  BY DEF PagesInv, IInv, ReqsInv, PoolInv

\* A row re-pointed at the tree's pages keeps its length and its own pages.
LEMMA RepointedRow ==
  ASSUME PagesInv, NEW r \in Reqs
  PROVE  LET m == Matched(tree, Computed(r))
             n == FullPages(cached[r])
             p == Published(r)
             w == Repointed(r, m, p) IN
         /\ w \in Seq(pool) /\ Len(w) = Len(row[r])
         /\ \A i \in 1..n : w[i] = p.page[Key(ids[r], i)]
         /\ \A i \in 1..hit[r] : w[i] = row[r][i]
         /\ \A i \in (n + 1)..Len(row[r]) : w[i] = row[r][i]
<1> DEFINE m == Matched(tree, Computed(r))
           n == FullPages(cached[r])
           p == Published(r)
           w == Repointed(r, m, p)
           L == Len(row[r])
<1>1. /\ m \in Nat /\ n \in Nat /\ hit[r] \in Nat /\ L \in Nat
      /\ hit[r] <= m /\ m <= n /\ n <= L
      /\ \A i \in 1..m : Key(ids[r], i) \in Stored(tree)
  BY MatchPastHandle DEF PagesInv
<1>2. /\ \A k \in Stored(tree) : p.page[k] = tree.page[k] /\ tree.page[k] \in pool
      /\ \A i \in (m + 1)..n : p.page[Key(ids[r], i)] = row[r][i]
  BY PublishedPages DEF PagesInv, PoolInv
<1>3. \A i \in 1..hit[r] : row[r][i] = tree.page[Key(ids[r], i)]
  BY DEF PagesInv, RowsInv
<1>4. row[r] \in Seq(pool) /\ DOMAIN row[r] = 1..L /\ \A i \in 1..L : row[r][i] \in pool
  BY ReqTypes, LenProperties
<1>5. w = [i \in 1..L |-> IF i \in (hit[r] + 1)..m THEN p.page[Key(ids[r], i)] ELSE row[r][i]]
  BY <1>4 DEF Repointed
<1> HIDE DEF w, m, n, p, L
<1>6. w \in Seq(pool) /\ Len(w) = L
  <2>1. ASSUME NEW i \in 1..L
        PROVE  (IF i \in (hit[r] + 1)..m THEN p.page[Key(ids[r], i)] ELSE row[r][i]) \in pool
    <3>1. i \in (hit[r] + 1)..m => i \in 1..m
      BY <1>1
    <3> QED BY <1>1, <1>2, <1>4, <3>1
  <2> QED BY <1>1, <1>5, <2>1
<1>7. ASSUME NEW i \in 1..n PROVE w[i] = p.page[Key(ids[r], i)]
  <2>1. i \in 1..L
    BY <1>1
  <2>2. CASE i \in 1..hit[r]
    <3>1. i \notin (hit[r] + 1)..m /\ i \in 1..m
      BY <1>1, <2>2
    <3> QED BY <1>1, <1>2, <1>3, <1>5, <2>1, <2>2, <3>1
  <2>3. CASE i \in (hit[r] + 1)..m
    BY <1>5, <2>1, <2>3
  <2>4. CASE i \in (m + 1)..n
    <3>1. i \notin (hit[r] + 1)..m
      BY <1>1, <2>4
    <3> QED BY <1>2, <1>5, <2>1, <2>4, <3>1
  <2>5. i \in 1..hit[r] \/ i \in (hit[r] + 1)..m \/ i \in (m + 1)..n
    BY <1>1
  <2> QED BY <2>2, <2>3, <2>4, <2>5
<1>8. ASSUME NEW i \in (n + 1)..L PROVE w[i] = row[r][i]
  <2>1. i \in 1..L /\ i \notin (hit[r] + 1)..m
    BY <1>1
  <2> QED BY <1>5, <2>1
<1>9. ASSUME NEW i \in 1..hit[r] PROVE w[i] = row[r][i]
  <2>1. i \in 1..L /\ i \notin (hit[r] + 1)..m
    BY <1>1
  <2> QED BY <1>5, <2>1
<1> QED BY <1>6, <1>7, <1>8, <1>9 DEF w, m, n, p, L

\* Freed pages are appended to the free list.
LEMMA FreedPages ==
  ASSUME PagesInv, NEW r \in Reqs, NEW w \in Seq(pool), OneToOne(w, 0, Len(w)),
         Slice(w, 0, Len(w)) \subseteq OwnPages[r], free' = free \o w
  PROVE  /\ free' \in Seq(pool) /\ OneToOne(free', 0, Len(free'))
         /\ FreePages' = FreePages \cup Slice(w, 0, Len(w))
<1>1. free \in Seq(pool) /\ OneToOne(free, 0, Len(free)) /\ 0 <= Len(free) /\ 0 \in Nat
  BY ReqTypes DEF PagesInv, OnceInv
<1>2. Slice(free, 0, Len(free)) \cap Slice(w, 0, Len(w)) = {}
  BY DEF PagesInv, Apart, FreePages
<1> QED BY <1>1, <1>2, ConcatSlice DEF FreePages

\* Commit of a text request: the row's whole pages that the tree did not have move
\* into the tree, the duplicates go back to the free list, and the row is
\* re-pointed to the tree's own pages before anything else can read it.
LEMMA CommitSharedPages ==
  ASSUME PagesInv, NEW r \in Reqs, Commit(r), Shared(r), IInv'
  PROVE  PagesInv'
<1> DEFINE m == Matched(tree, Computed(r))
           n == FullPages(cached[r])
           p == Published(r)
           w == Repointed(r, m, p)
           L == Len(row[r])
           D == Slice(row[r], hit[r], m)
           N == Slice(row[r], m, n)
           K == Slice(row[r], n, L)
<1>1. /\ m \in Nat /\ n \in Nat /\ hit[r] \in Nat /\ L \in Nat
      /\ hit[r] <= m /\ m <= n /\ n <= L
  BY MatchPastHandle DEF PagesInv
<1>2. /\ OwnPages[r] = (D \cup N) \cup K
      /\ D \cap N = {} /\ D \cap K = {} /\ N \cap K = {}
      /\ OneToOne(row[r], hit[r], m) /\ OneToOne(row[r], n, L)
  BY OwnParts
<1>3. /\ WellFormed(p, Tokens)
      /\ \A k \in Stored(tree) : k \in Stored(p) /\ p.page[k] = tree.page[k]
      /\ p.page = [k \in Stored(p) |-> p.page[k]]
      /\ {p.page[k] : k \in Stored(p)} = TreePages \cup N
      /\ \A k, l \in Stored(p) : p.page[k] = p.page[l] => k = l
  BY PublishedPages
<1>4. /\ w \in Seq(pool) /\ Len(w) = L
      /\ \A i \in 1..n : w[i] = p.page[Key(ids[r], i)]
      /\ \A i \in (n + 1)..L : w[i] = row[r][i]
  BY RepointedRow
<1>5. /\ ids' = ids /\ cached' = cached /\ pool' = pool
      /\ stage' = [stage EXCEPT ![r] = "decode"]
      /\ free' = free \o Duplicates(r, m) /\ tree' = Lock(p, Key(ids[r], n))
      /\ row' = [row EXCEPT ![r] = w] /\ hit' = [hit EXCEPT ![r] = n]
  BY DEF Commit, CacheReqUnfinished
<1>6. free' \in Seq(pool) /\ OneToOne(free', 0, Len(free')) /\ FreePages' = FreePages \cup D
  <2> DEFINE d == Duplicates(r, m)
  <2>1. row[r] \in Seq(pool) /\ m <= Len(row[r])
    BY <1>1, ReqTypes
  <2> HIDE DEF m
  <2>2. /\ d \in Seq(pool) /\ Slice(d, 0, Len(d)) = Slice(row[r], hit[r], m)
        /\ OneToOne(d, 0, Len(d)) <=> OneToOne(row[r], hit[r], m)
    BY <1>1, <2>1, SubSeqSlice, ZenonT(30) DEF Duplicates
  <2> HIDE DEF d, N, K, n
  <2>3. Slice(d, 0, Len(d)) \subseteq OwnPages[r] /\ OneToOne(d, 0, Len(d))
    BY <1>2, <2>2
  <2>4. free' = free \o d
    BY <1>5 DEF d
  <2> QED BY <2>2, <2>3, <2>4, FreedPages
<1> HIDE DEF m, n, p, w, L, D, N, K
<1>7. tree'.page = p.page /\ Stored(tree') = Stored(p)
  BY <1>3, <1>5, LockPages
<1>8. TreePages' = TreePages \cup N
  <2>1. \A k \in Stored(p) : tree'.page[k] = p.page[k]
    BY <1>7
  <2>2. {tree'.page[k] : k \in Stored(tree')} = {p.page[k] : k \in Stored(p)}
    BY <1>7, <2>1
  <2> QED BY <1>3, <2>2 DEF TreePages
<1>9. /\ row'[r] = w /\ hit'[r] = n
      /\ \A q \in Reqs : q # r => row'[q] = row[q] /\ hit'[q] = hit[q]
      /\ \A q \in Reqs : stage'[q] = "idle" => stage[q] = "idle"
      /\ row' \in [Reqs -> Seq(pool)]
  BY <1>4, <1>5, ReqTypes
<1>10. Slice(w, n, L) = K /\ OneToOne(w, n, L)
  BY <1>2, <1>4, SliceSame DEF K
<1>11. \A q \in Reqs : OwnPages'[q] = IF q = r THEN K ELSE OwnPages[q]
  BY <1>4, <1>9, <1>10 DEF OwnPages
<1>12. /\ Apart(FreePages, TreePages, OwnPages)'
       /\ Covered(pool, FreePages, TreePages, OwnPages)'
  BY <1>2, <1>5, <1>6, <1>8, <1>11, Handover
<1>13. PoolInv'
  <2>1. \A k \in Stored(tree') : tree'.page[k] \in pool
    <3>1. N \subseteq OwnPages[r] /\ OwnPages[r] \subseteq pool
      <4>1. row[r] \in Seq(pool) /\ hit[r] \in Nat
        BY ReqTypes
      <4>2. \A i \in (hit[r] + 1)..Len(row[r]) : row[r][i] \in pool
        <5>1. \A i \in (hit[r] + 1)..Len(row[r]) : i \in 1..Len(row[r])
          BY <4>1
        <5> QED BY <4>1, <5>1
      <4> QED BY <1>2, <4>2 DEF OwnPages, Slice
    <3>2. TreePages \subseteq pool
      BY DEF PagesInv, PoolInv, TreePages
    <3>3. \A k \in Stored(p) : p.page[k] \in TreePages \cup N
      BY <1>3
    <3> QED BY <1>7, <3>1, <3>2, <3>3
  <2> QED BY <1>3, <1>5, <1>6, <1>7, <1>9, <2>1 DEF PagesInv, PoolInv
<1>14. RowsInv'
  <2> SUFFICES ASSUME NEW q \in Reqs
      PROVE  /\ Len(row'[q]) = PagesFor(cached[q])
             /\ hit'[q] <= FullPages(cached[q])
             /\ Len(ids[q]) <= MaxLen
             /\ stage'[q] = "idle" => cached[q] = 0
             /\ \A i \in 1..hit'[q] : row'[q][i] = tree'.page[Key(ids[q], i)]
    BY <1>5 DEF RowsInv
  <2>1. /\ Len(row[q]) = PagesFor(cached[q]) /\ hit[q] <= FullPages(cached[q])
        /\ Len(ids[q]) <= MaxLen
        /\ stage[q] = "idle" => cached[q] = 0
        /\ \A i \in 1..hit[q] : row[q][i] = tree.page[Key(ids[q], i)]
    BY DEF PagesInv, RowsInv
  <2>2. stage'[q] = "idle" => cached[q] = 0
    BY <1>9, <2>1
  <2>3. CASE q = r
    <3>1. hit'[q] = n /\ row'[q] = w /\ Len(w) = PagesFor(cached[q]) /\ n <= FullPages(cached[q])
      BY <1>1, <1>4, <1>9, <2>1, <2>3 DEF L, n
    <3>2. \A i \in 1..n : w[i] = tree'.page[Key(ids[q], i)]
      BY <1>4, <1>7, <2>3
    <3> QED BY <2>1, <2>2, <3>1, <3>2
  <2>4. CASE q # r
    <3>1. \A i \in 1..hit[q] : Key(ids[q], i) \in Stored(tree)
      BY HandleStored DEF PagesInv
    <3>2. hit'[q] = hit[q] /\ row'[q] = row[q]
      BY <1>9, <2>4
    <3>3. \A i \in 1..hit[q] : row[q][i] = tree'.page[Key(ids[q], i)]
      BY <1>3, <1>7, <2>1, <3>1
    <3> QED BY <2>1, <2>2, <3>2, <3>3
  <2> QED BY <2>3, <2>4
<1>15. OnceInv'
  <2>1. ASSUME NEW q \in Reqs PROVE OneToOne(row'[q], hit'[q], Len(row'[q]))
    <3>1. CASE q # r
      BY <1>9, <3>1 DEF PagesInv, OnceInv
    <3>2. CASE q = r
      BY <1>4, <1>9, <1>10, <3>2
    <3> QED BY <3>1, <3>2
  <2> QED BY <1>3, <1>6, <1>7, <2>1 DEF PagesInv, OnceInv
<1> QED BY <1>5, <1>12, <1>13, <1>14, <1>15 DEF PagesInv

\* A multimodal request holds the root: its commit moves no page.
LEMMA CommitPages ==
  ASSUME PagesInv, NEW r \in Reqs, Commit(r), IInv'
  PROVE  PagesInv'
<1>1. CASE Shared(r)
  BY <1>1, CommitSharedPages
<1>2. CASE ~Shared(r)
  <2>1. /\ tree' = Unlock(tree, HandleKey(r)) /\ pool' = pool /\ free' = free
        /\ row' = row /\ hit' = hit /\ ids' = ids /\ cached' = cached
        /\ stage' = [stage EXCEPT ![r] = "decode"]
    BY <1>2 DEF Commit, CacheReqUnfinished
  <2>2. tree'.page = tree.page /\ Stored(tree') = Stored(tree)
    BY <2>1, LockPages DEF PagesInv, IInv, TreeInv
  <2>3. FreePages' = FreePages /\ TreePages' = TreePages /\ OwnPages' = OwnPages
    BY <2>1, <2>2 DEF FreePages, TreePages, OwnPages
  <2>4. \A q \in Reqs : stage'[q] = "idle" => stage[q] = "idle"
    BY <2>1, ReqTypes
  <2>5. RowsInv'
    BY <2>1, <2>2, <2>4 DEF PagesInv, RowsInv
  <2> QED BY <2>1, <2>2, <2>3, <2>5 DEF PagesInv, PoolInv, OnceInv
<1> QED BY <1>1, <1>2

\* The release of a row, whatever it gave back before.
LEMMA ReleasedRow ==
  ASSUME PagesInv, NEW r \in Reqs, Finish(r)
  PROVE  /\ pool' = pool
         /\ row' \in [Reqs -> Seq(pool)] /\ row'[r] = << >> /\ hit'[r] = 0
         /\ Len(row'[r]) = 0
         /\ \A q \in Reqs : q # r => /\ row'[q] = row[q] /\ hit'[q] = hit[q]
                                     /\ ids'[q] = ids[q] /\ cached'[q] = cached[q]
                                     /\ stage'[q] = stage[q]
         /\ \A q \in Reqs : OwnPages'[q] = IF q = r THEN {} ELSE OwnPages[q]
         /\ \A q \in Reqs : OneToOne(row'[q], hit'[q], Len(row'[q]))
         /\ \A q \in Reqs : /\ Len(row'[q]) = PagesFor(cached'[q])
                            /\ hit'[q] <= FullPages(cached'[q])
                            /\ Len(ids'[q]) <= MaxLen
                            /\ stage'[q] = "idle" => cached'[q] = 0
<1>1. /\ pool' = pool
      /\ row' = [row EXCEPT ![r] = << >>] /\ hit' = [hit EXCEPT ![r] = 0]
      /\ ids' = [ids EXCEPT ![r] = << >>] /\ cached' = [cached EXCEPT ![r] = 0]
      /\ stage' = [stage EXCEPT ![r] = "idle"]
  BY DEF Finish, CacheReqFinished
<1>2. << >> \in Seq(pool) /\ Len(<< >>) = 0
  BY EmptySeq
<1>3. row' \in [Reqs -> Seq(pool)] /\ row'[r] = << >> /\ hit'[r] = 0 /\ cached'[r] = 0
      /\ ids'[r] = << >> /\ Len(row'[r]) = 0 /\ Len(ids'[r]) = 0
  BY <1>1, <1>2, ReqTypes
<1>4. \A q \in Reqs : q # r => /\ row'[q] = row[q] /\ hit'[q] = hit[q] /\ ids'[q] = ids[q]
                               /\ cached'[q] = cached[q] /\ stage'[q] = stage[q]
  BY <1>1, ReqTypes
<1>5. ASSUME NEW q \in Reqs
      PROVE  /\ OwnPages'[q] = IF q = r THEN {} ELSE OwnPages[q]
             /\ OneToOne(row'[q], hit'[q], Len(row'[q]))
  <2>1. OwnPages'[q] = Slice(row'[q], hit'[q], Len(row'[q]))
    BY DEF OwnPages
  <2>2. CASE q = r
    BY <1>3, <2>1, <2>2, SliceEmpty
  <2>3. CASE q # r
    BY <1>4, <2>1, <2>3 DEF OwnPages, PagesInv, OnceInv
  <2> QED BY <2>2, <2>3
<1>6. ASSUME NEW q \in Reqs
      PROVE  /\ Len(row'[q]) = PagesFor(cached'[q])
             /\ hit'[q] <= FullPages(cached'[q])
             /\ Len(ids'[q]) <= MaxLen
             /\ stage'[q] = "idle" => cached'[q] = 0
  <2>1. PagesFor(0) = 0 /\ FullPages(0) = 0 /\ 0 <= MaxLen
    BY PageSizeAssumption, KVCacheAssumption DEF PagesFor, FullPages
  <2>2. CASE q = r
    BY <1>3, <2>1, <2>2
  <2>3. CASE q # r
    BY <1>4, <2>3 DEF PagesInv, RowsInv
  <2> QED BY <2>2, <2>3
<1> QED BY <1>1, <1>3, <1>4, <1>5, <1>6

\* Finish of a text request: as a commit, and the unaligned tail is freed too; each
\* page of the row goes to exactly one of the tree and the free list.
LEMMA FinishSharedPages ==
  ASSUME PagesInv, NEW r \in Reqs, Finish(r), Shared(r), IInv'
  PROVE  PagesInv'
<1> DEFINE m == Matched(tree, Computed(r))
           n == FullPages(cached[r])
           p == Published(r)
           L == Len(row[r])
           D == Slice(row[r], hit[r], m)
           N == Slice(row[r], m, n)
           K == Slice(row[r], n, L)
           d == Duplicates(r, m)
           e == PaddedTail(r, n)
<1>1. /\ m \in Nat /\ n \in Nat /\ hit[r] \in Nat /\ L \in Nat
      /\ hit[r] <= m /\ m <= n /\ n <= L
  BY MatchPastHandle DEF PagesInv
<1>2. /\ OwnPages[r] = (D \cup N) \cup K
      /\ D \cap N = {} /\ D \cap K = {} /\ N \cap K = {}
      /\ OneToOne(row[r], hit[r], m) /\ OneToOne(row[r], n, L)
  BY OwnParts
<1>3. /\ WellFormed(p, Tokens)
      /\ \A k \in Stored(tree) : k \in Stored(p) /\ p.page[k] = tree.page[k]
      /\ p.page = [k \in Stored(p) |-> p.page[k]]
      /\ {p.page[k] : k \in Stored(p)} = TreePages \cup N
      /\ \A k, l \in Stored(p) : p.page[k] = p.page[l] => k = l
  BY PublishedPages
<1>4. /\ free' = (free \o d) \o e /\ tree' = p
  BY DEF Finish, CacheReqFinished
<1>5. /\ row' \in [Reqs -> Seq(pool)] /\ hit'[r] = 0 /\ pool' = pool
      /\ \A q \in Reqs : q # r => row'[q] = row[q] /\ hit'[q] = hit[q] /\ ids'[q] = ids[q]
      /\ \A q \in Reqs : OwnPages'[q] = IF q = r THEN {} ELSE OwnPages[q]
      /\ \A q \in Reqs : OneToOne(row'[q], hit'[q], Len(row'[q]))
  BY ReleasedRow
<1>6. /\ d \in Seq(pool) /\ Slice(d, 0, Len(d)) = D /\ OneToOne(d, 0, Len(d))
  <2>1. row[r] \in Seq(pool) /\ m <= Len(row[r])
    BY <1>1, ReqTypes
  <2> HIDE DEF m, d, N, K, n
  <2>2. /\ d \in Seq(pool) /\ Slice(d, 0, Len(d)) = Slice(row[r], hit[r], m)
        /\ OneToOne(d, 0, Len(d)) <=> OneToOne(row[r], hit[r], m)
    BY <1>1, <2>1, SubSeqSlice DEF Duplicates, d
  <2> QED BY <1>2, <2>2
<1>7. /\ e \in Seq(pool) /\ Slice(e, 0, Len(e)) = K /\ OneToOne(e, 0, Len(e))
  <2>1. row[r] \in Seq(pool) /\ L = PagesFor(cached[r])
    BY ReqTypes DEF PagesInv, RowsInv
  <2> HIDE DEF m, e, D, N, n, L
  <2>2. e = SubSeq(row[r], n + 1, L) /\ L <= Len(row[r])
    BY <1>1, <2>1 DEF PaddedTail, e, L
  <2>3. /\ e \in Seq(pool) /\ Slice(e, 0, Len(e)) = Slice(row[r], n, L)
        /\ OneToOne(e, 0, Len(e)) <=> OneToOne(row[r], n, L)
    BY <1>1, <2>1, <2>2, SubSeqSlice
  <2> QED BY <1>2, <2>3
<1> HIDE DEF m, n, p, L, D, N, K, d, e
<1>8. /\ d \o e \in Seq(pool) /\ OneToOne(d \o e, 0, Len(d \o e))
      /\ Slice(d \o e, 0, Len(d \o e)) = D \cup K
  <2>1. 0 \in Nat /\ 0 <= Len(d)
    BY <1>6
  <2> QED BY <1>2, <1>6, <1>7, <2>1, ConcatSlice
<1>9. free' = free \o (d \o e)
  <2>1. free \in Seq(pool)
    BY ReqTypes
  <2> QED BY <1>4, <1>6, <1>7, <2>1, ConcatAssociative
<1>10. free' \in Seq(pool) /\ OneToOne(free', 0, Len(free')) /\ FreePages' = FreePages \cup (D \cup K)
  <2> DEFINE f == d \o e
  <2>1. /\ f \in Seq(pool) /\ OneToOne(f, 0, Len(f)) /\ Slice(f, 0, Len(f)) = D \cup K
        /\ free' = free \o f /\ D \cup K \subseteq OwnPages[r]
    BY <1>2, <1>8, <1>9
  <2> HIDE DEF f
  <2> QED BY <2>1, FreedPages
<1>11. TreePages' = TreePages \cup N
  <2>1. TreePages' = {tree'.page[k] : k \in Stored(tree')}
    BY DEF TreePages
  <2> QED BY <1>3, <1>4, <2>1
<1>12. /\ Apart(FreePages, TreePages, OwnPages)'
       /\ Covered(pool, FreePages, TreePages, OwnPages)'
  <2> DEFINE X == D \cup K
  <2>1. /\ OwnPages[r] = (X \cup N) \cup {} /\ X \cap N = {} /\ X \cap {} = {} /\ N \cap {} = {}
        /\ FreePages' = FreePages \cup X
    BY <1>2, <1>10
  <2> HIDE DEF X
  <2> QED BY <1>5, <1>11, <2>1, Handover
<1>13. PoolInv'
  <2>1. \A k \in Stored(tree') : tree'.page[k] \in pool
    <3>1. N \subseteq OwnPages[r] /\ OwnPages[r] \subseteq pool
      <4>1. row[r] \in Seq(pool) /\ hit[r] \in Nat
        BY ReqTypes
      <4>2. \A i \in (hit[r] + 1)..Len(row[r]) : row[r][i] \in pool
        <5>1. \A i \in (hit[r] + 1)..Len(row[r]) : i \in 1..Len(row[r])
          BY <4>1
        <5> QED BY <4>1, <5>1
      <4> QED BY <1>2, <4>2 DEF OwnPages, Slice
    <3>2. TreePages \subseteq pool
      BY DEF PagesInv, PoolInv, TreePages
    <3>3. \A k \in Stored(p) : p.page[k] \in TreePages \cup N
      BY <1>3
    <3> QED BY <1>4, <3>1, <3>2, <3>3
  <2> QED BY <1>3, <1>4, <1>5, <1>10, <2>1 DEF PagesInv, PoolInv
<1>14. ASSUME NEW q \in Reqs, NEW i \in 1..hit'[q]
       PROVE  row'[q][i] = tree'.page[Key(ids'[q], i)]
  <2>1. q # r
    BY <1>5
  <2>2. row'[q] = row[q] /\ hit'[q] = hit[q] /\ ids'[q] = ids[q]
    BY <1>5, <2>1
  <2>3. Key(ids[q], i) \in Stored(tree)
    BY <2>2, HandleStored DEF PagesInv
  <2>4. row[q][i] = tree.page[Key(ids[q], i)]
    BY <2>2 DEF PagesInv, RowsInv
  <2> QED BY <1>3, <1>4, <2>2, <2>3, <2>4
<1>15. RowsInv'
  BY <1>14, ReleasedRow DEF RowsInv
<1>16. OnceInv'
  BY <1>3, <1>4, <1>5, <1>10 DEF OnceInv
<1> QED BY <1>12, <1>13, <1>15, <1>16 DEF PagesInv

\* Finish of a request with images: it owns its whole row, and all of it goes back
\* to the free list.
LEMMA FinishUnsharedPages ==
  ASSUME PagesInv, NEW r \in Reqs, Finish(r), ~Shared(r), IInv'
  PROVE  PagesInv'
<1> DEFINE L == Len(row[r])
           D == Slice(row[r], hit[r], L)
           d == PaddedTail(r, hit[r])
<1>1. /\ tree' = Unlock(tree, HandleKey(r)) /\ free' = free \o d
  BY DEF Finish, CacheReqFinished
<1>2. tree'.page = tree.page /\ Stored(tree') = Stored(tree)
  BY <1>1, LockPages DEF PagesInv, IInv, TreeInv
<1>3. TreePages' = TreePages
  BY <1>2 DEF TreePages
<1>4. /\ row' \in [Reqs -> Seq(pool)] /\ hit'[r] = 0 /\ pool' = pool
      /\ \A q \in Reqs : q # r => row'[q] = row[q] /\ hit'[q] = hit[q] /\ ids'[q] = ids[q]
      /\ \A q \in Reqs : OwnPages'[q] = IF q = r THEN {} ELSE OwnPages[q]
      /\ \A q \in Reqs : OneToOne(row'[q], hit'[q], Len(row'[q]))
  BY ReleasedRow
<1>5. OwnPages[r] = D /\ OneToOne(row[r], hit[r], L)
  BY DEF OwnPages, PagesInv, OnceInv
<1>6. d \in Seq(pool) /\ Slice(d, 0, Len(d)) = D /\ OneToOne(d, 0, Len(d))
  <2>1. /\ row[r] \in Seq(pool) /\ L = PagesFor(cached[r]) /\ hit[r] \in Nat /\ L \in Nat
        /\ hit[r] <= FullPages(cached[r]) /\ cached[r] \in Nat
    BY ReqTypes DEF PagesInv, RowsInv
  <2>2. /\ FullPages(cached[r]) \in Nat /\ PagesFor(cached[r]) \in Nat
        /\ FullPages(cached[r]) <= PagesFor(cached[r])
    BY <2>1, PageBounds
  <2> HIDE DEF L
  <2>3. hit[r] <= L
    BY <2>1, <2>2
  <2>4. d = SubSeq(row[r], hit[r] + 1, L) /\ L <= Len(row[r])
    BY <2>1 DEF PaddedTail, L
  <2> HIDE DEF d
  <2>5. /\ d \in Seq(pool) /\ Slice(d, 0, Len(d)) = Slice(row[r], hit[r], L)
        /\ OneToOne(d, 0, Len(d)) <=> OneToOne(row[r], hit[r], L)
    <3> DEFINE a == hit[r]
    <3>1. row[r] \in Seq(pool) /\ a \in Nat /\ L \in Nat /\ a <= L /\ L <= Len(row[r])
      BY <2>1, <2>3, <2>4
    <3>2. d = SubSeq(row[r], a + 1, L)
      BY <2>4
    <3> HIDE DEF a
    <3>3. /\ d \in Seq(pool) /\ Slice(d, 0, Len(d)) = Slice(row[r], a, L)
          /\ OneToOne(d, 0, Len(d)) <=> OneToOne(row[r], a, L)
      BY <3>1, <3>2, SubSeqSlice
    <3> QED BY <3>3 DEF a
  <2> QED BY <1>5, <2>5
<1> HIDE DEF L, D, d
<1>7. free' \in Seq(pool) /\ OneToOne(free', 0, Len(free')) /\ FreePages' = FreePages \cup D
  BY <1>1, <1>5, <1>6, FreedPages
<1>8. /\ Apart(FreePages, TreePages, OwnPages)'
      /\ Covered(pool, FreePages, TreePages, OwnPages)'
  <2>1. /\ OwnPages[r] = (D \cup {}) \cup {} /\ TreePages' = TreePages \cup {}
        /\ D \cap {} = {} /\ {} \cap {} = {}
    BY <1>3, <1>5
  <2> QED BY <1>4, <1>7, <2>1, Handover
<1>9. PoolInv'
  BY <1>2, <1>4, <1>7 DEF PagesInv, PoolInv
<1>10. ASSUME NEW q \in Reqs, NEW i \in 1..hit'[q]
       PROVE  row'[q][i] = tree'.page[Key(ids'[q], i)]
  <2>1. q # r
    BY <1>4
  <2>2. row'[q] = row[q] /\ hit'[q] = hit[q] /\ ids'[q] = ids[q]
    BY <1>4, <2>1
  <2> QED BY <1>2, <2>2 DEF PagesInv, RowsInv
<1>11. RowsInv'
  BY <1>10, ReleasedRow DEF RowsInv
<1>12. OnceInv'
  BY <1>2, <1>4, <1>7 DEF PagesInv, OnceInv
<1> QED BY <1>8, <1>9, <1>11, <1>12 DEF PagesInv

\* The slots a batch needs: for every request of the batch, as many as its
\* device_len adds to the pages of its row.
LEMMA BatchSlots ==
  ASSUME PagesInv, NEW B \in SUBSET CanForward, NEW dev \in ForwardLens(B)
  PROVE  LET W == NewSlots(dev) IN
         /\ B \subseteq Reqs /\ DOMAIN dev = B /\ Reqs \subseteq Nat
         /\ IsFiniteSet(W) /\ \A s \in W : s[1] \in B /\ s[1] \in Nat
         /\ \A r \in B : /\ dev[r] \in Nat /\ cached[r] < dev[r] /\ dev[r] <= Len(ids[r])
                         /\ PagesFor(cached[r]) \in Nat /\ PagesFor(dev[r]) \in Nat
                         /\ Dealt(W, r) = PagesFor(dev[r]) - PagesFor(cached[r])
                         /\ PagesFor(cached[r]) <= PagesFor(dev[r])
<1> DEFINE W == NewSlots(dev)
           J(r) == (PagesFor(cached[r]) + 1)..PagesFor(dev[r])
<1>1. B \subseteq Reqs /\ Reqs \subseteq Nat /\ DOMAIN dev = B /\ MaxLen \in Nat
  BY KVCacheAssumption DEF CanForward, Active, ForwardLens
<1>2. ASSUME NEW r \in B
      PROVE  /\ dev[r] \in Nat /\ cached[r] < dev[r] /\ dev[r] <= Len(ids[r]) /\ dev[r] <= MaxLen
             /\ cached[r] \in Nat
  BY <1>1, ReqTypes DEF ForwardLens
<1>3. ASSUME NEW r \in B
      PROVE  /\ PagesFor(cached[r]) \in Nat /\ PagesFor(dev[r]) \in Nat /\ PagesFor(MaxLen) \in Nat
             /\ PagesFor(cached[r]) <= PagesFor(dev[r]) /\ PagesFor(dev[r]) <= PagesFor(MaxLen)
  <2>1. cached[r] <= dev[r]
    BY <1>2
  <2> QED BY <1>1, <1>2, <2>1, PageBounds, PagesMonotone
<1>4. \A s \in W : s[1] \in B /\ s[2] \in J(s[1]) /\ s = <<s[1], s[2]>>
  BY <1>1 DEF NewSlots
<1>5. \A r \in B : {s \in W : s[1] = r} = {r} \X J(r)
  BY <1>1 DEF NewSlots
<1> HIDE DEF W
<1>6. IsFiniteSet(W)
  <2>1. PagesFor(MaxLen) \in Nat
    BY <1>1, PageBounds
  <2> DEFINE M == PagesFor(MaxLen)
  <2>2. W \subseteq Reqs \X (1..M)
    <3>1. ASSUME NEW s \in W PROVE s \in Reqs \X (1..M)
      <4>1. s[1] \in B /\ s[2] \in J(s[1]) /\ s = <<s[1], s[2]>>
        BY <1>4
      <4>2. s[2] \in 1..M
        BY <1>3, <4>1
      <4> QED BY <1>1, <4>1, <4>2
    <3> QED BY <3>1
  <2>3. IsFiniteSet(1..M)
    <3> HIDE DEF M
    <3>1. 1 \in Int /\ M \in Int
      BY <2>1 DEF M
    <3> QED BY <3>1, FS_Interval
  <2> HIDE DEF M
  <2>4. IsFiniteSet(Reqs \X (1..M))
    BY <2>3, FiniteReqs, FS_Product
  <2> QED BY <2>2, <2>4, FS_Subset
<1>7. ASSUME NEW r \in B PROVE Dealt(W, r) = PagesFor(dev[r]) - PagesFor(cached[r])
  <2> DEFINE a == PagesFor(cached[r])
             b == PagesFor(dev[r])
  <2>1. a \in Nat /\ b \in Nat /\ a <= b
    BY <1>3
  <2>2. Dealt(W, r) = Cardinality({r} \X ((a + 1)..b))
    BY <1>5 DEF Dealt
  <2> HIDE DEF a, b
  <2>3. a + 1 \in Int /\ b \in Int
    BY <2>1
  <2>4. IsFiniteSet((a + 1)..b) /\ Cardinality((a + 1)..b) = IF a + 1 > b THEN 0 ELSE b - (a + 1) + 1
    BY <2>3, FS_Interval
  <2>5. Cardinality((a + 1)..b) = b - a
    BY <2>1, <2>4
  <2>6. IsFiniteSet({r}) /\ Cardinality({r}) = 1
    BY FS_Singleton
  <2>7. Cardinality({r} \X ((a + 1)..b)) = 1 * (b - a)
    BY <2>4, <2>5, <2>6, FS_Product, ZenonT(30)
  <2> QED BY <2>1, <2>2, <2>7 DEF a, b
<1>8. \A s \in W : s[1] \in B /\ s[1] \in Nat
  BY <1>1, <1>4
<1> QED BY <1>1, <1>2, <1>3, <1>6, <1>7, <1>8 DEF W

\* The free list after evict: the pages of the removed nodes are behind the free
\* ones, and there are enough for the batch.
LEMMA EvictedPages ==
  ASSUME PagesInv, NEW n \in Nat, NEW E \in EvictionChoices(tree, n - Len(free))
  PROVE  LET gone == PrefixesOf(tree, E)
             G == {tree.page[k] : k \in gone}
             list == free \o SetToSeq(G) IN
         /\ list \in Seq(pool) /\ Len(list) \in Nat /\ n <= Len(list)
         /\ OneToOne(list, 0, Len(list))
         /\ Slice(list, 0, Len(list)) = FreePages \cup G
         /\ G \subseteq TreePages
         /\ {tree.page[k] : k \in Stored(tree) \ gone} = TreePages \ G
<1> DEFINE gone == PrefixesOf(tree, E)
           G == {tree.page[k] : k \in gone}
           e == SetToSeq(G)
<1>1. gone \subseteq Stored(tree)
  BY DEF PrefixesOf
<1>2. /\ \A k \in Stored(tree) : tree.page[k] \in pool
      /\ \A k, l \in Stored(tree) : tree.page[k] = tree.page[l] => k = l
      /\ free \in Seq(pool) /\ OneToOne(free, 0, Len(free)) /\ pool \subseteq Pages
      /\ FreePages \cap TreePages = {}
  BY DEF PagesInv, PoolInv, OnceInv, Apart
<1> HIDE DEF gone
<1>3. G \subseteq TreePages /\ G \subseteq pool
  BY <1>1, <1>2 DEF TreePages
<1>4. {tree.page[k] : k \in Stored(tree) \ gone} = TreePages \ G
  BY <1>1, <1>2 DEF TreePages
<1>5. IsFiniteSet(G)
  <2>1. IsFiniteSet(Pages) /\ G \subseteq Pages
    BY <1>2, <1>3, KVCacheAssumption
  <2> HIDE DEF G
  <2> QED BY <2>1, FS_Subset
<1>6. IsFiniteSet(gone) /\ Cardinality(G) = Cardinality(gone)
  <2> DEFINE f == [k \in gone |-> tree.page[k]]
  <2>1. f \in [gone -> G] /\ \A k, l \in gone : f[k] = f[l] => k = l
    BY <1>1, <1>2
  <2>2. \A p \in G : \E k \in gone : f[k] = p
    OBVIOUS
  <2> HIDE DEF f, G
  <2>3. f \in Injection(gone, G)
    BY <2>1 DEF Injection, IsInjective
  <2>4. f \in Surjection(gone, G)
    BY <2>1, <2>2 DEF Surjection
  <2> QED BY <1>5, <2>3, <2>4, FS_Injection
<1>7. /\ e \in Seq(G) /\ Len(e) = Cardinality(G)
      /\ OneToOne(e, 0, Len(e)) /\ Slice(e, 0, Len(e)) = G
  BY <1>5, ListOfSet
<1>8. e \in Seq(pool)
  <2> HIDE DEF e, G
  <2> QED BY <1>3, <1>7, SeqMonotonic
<1>9. Len(free) \in Nat /\ Cardinality(G) \in Nat
  BY <1>2, <1>5, FS_CardinalityType
<1>10. n <= Len(free) + Cardinality(G)
  <2>1. CASE n - Len(free) <= 0
    BY <1>9, <2>1
  <2>2. CASE ~(n - Len(free) <= 0)
    <3>1. Cardinality(gone) >= n - Len(free)
      BY <2>2 DEF EvictionChoices, gone
    <3> QED BY <1>6, <1>9, <3>1
  <2> QED BY <2>1, <2>2
<1> HIDE DEF e, G
<1>11. LET list == free \o e IN
       /\ list \in Seq(pool) /\ Len(list) = Len(free) + Len(e)
       /\ OneToOne(list, 0, Len(list)) /\ Slice(list, 0, Len(list)) = FreePages \cup G
  <2>1. 0 \in Nat /\ 0 <= Len(free) /\ Slice(free, 0, Len(free)) \cap Slice(e, 0, Len(e)) = {}
    BY <1>2, <1>3, <1>7, <1>9 DEF FreePages
  <2> QED BY <1>2, <1>7, <1>8, <2>1, ConcatSlice DEF FreePages
<1>12. LET list == free \o e IN Len(list) \in Nat /\ n <= Len(list)
  BY <1>7, <1>9, <1>10, <1>11
<1> QED BY <1>3, <1>4, <1>11, <1>12 DEF e, G, gone

\* The tree an eviction leaves.
LEMMA EvictedTree ==
  ASSUME PagesInv, NEW n, NEW E \in EvictionChoices(tree, n),
         tree' = IF E = {} THEN tree ELSE RemoveNodes(tree, E)
  PROVE  /\ Stored(tree') = Stored(tree) \ PrefixesOf(tree, E)
         /\ \A k \in Stored(tree') : tree'.page[k] = tree.page[k]
         /\ tree'.page = [k \in Stored(tree') |-> tree'.page[k]]
<1>1. CASE E = {}
  <2>1. PrefixesOf(tree, E) = {} /\ tree' = tree
    BY <1>1 DEF PrefixesOf
  <2> QED BY <2>1 DEF PagesInv, PoolInv
<1>2. CASE E # {}
  <2>1. tree' = RemoveNodes(tree, E) /\ WellFormed(tree, Tokens)
    BY <1>2 DEF PagesInv, IInv, TreeInv
  <2> QED BY <2>1, RemovePages, RemoveMaps
<1> QED BY <1>1, <1>2

\* The positions of the list that request r is dealt.
Share(list, W, r) == Slice(list, Before(W, r), Before(W, r) + Dealt(W, r))

\* The first c pages of a list of L are dealt to the requests of B.
DealtOut(list, W, B, c, L) ==
  /\ Slice(list, 0, L) = Slice(list, 0, c) \cup Slice(list, c, L)
  /\ Slice(list, 0, c) \cap Slice(list, c, L) = {}
  /\ OneToOne(list, c, L)
  /\ \A r \in B : /\ Before(W, r) \in Nat /\ Dealt(W, r) \in Nat
                  /\ Before(W, r) + Dealt(W, r) <= c
                  /\ Share(list, W, r) \subseteq Slice(list, 0, c)
                  /\ OneToOne(list, Before(W, r), Before(W, r) + Dealt(W, r))
  /\ \A r, q \in B : r # q => Share(list, W, r) \cap Share(list, W, q) = {}
  /\ \A p \in Slice(list, 0, c) : \E r \in B : p \in Share(list, W, r)

\* A batch deals them so: no share leaves them, no two shares meet, and every
\* one of them is in a share.
LEMMA Deal ==
  ASSUME NEW list, NEW W, IsFiniteSet(W), NEW B \in SUBSET Nat, \A s \in W : s[1] \in B,
         NEW c \in Nat, c = Cardinality(W), NEW L \in Nat, c <= L, OneToOne(list, 0, L)
  PROVE  DealtOut(list, W, B, c, L)
<1> DEFINE a(r) == Before(W, r)
           b(r) == Before(W, r) + Dealt(W, r)
<1>1. c \in Nat /\ L \in Nat /\ c <= L /\ 0 \in Nat /\ 0 <= c
  OBVIOUS
<1>2. \A s \in W : s[1] \in Nat
  OBVIOUS
<1>3. ASSUME NEW r \in B
      PROVE  /\ Before(W, r) \in Nat /\ Dealt(W, r) \in Nat
             /\ Before(W, r) + Dealt(W, r) <= c
             /\ \A q \in B : r < q => b(r) <= a(q)
  <2>1. r \in Nat
    OBVIOUS
  <2> QED BY <1>2, <2>1, Shares
<1>4. /\ Slice(list, 0, L) = Slice(list, 0, c) \cup Slice(list, c, L)
      /\ Slice(list, 0, c) \cap Slice(list, c, L) = {}
      /\ OneToOne(list, c, L) /\ OneToOne(list, 0, c)
  BY <1>1, SliceCut
<1>5. ASSUME NEW r \in B
      PROVE  Share(list, W, r) \subseteq Slice(list, 0, c) /\ OneToOne(list, a(r), b(r))
  <2>1. a(r) \in Nat /\ b(r) \in Nat /\ 0 <= a(r) /\ b(r) <= c
    BY <1>3
  <2> HIDE DEF a, b
  <2>2. Slice(list, a(r), b(r)) \subseteq Slice(list, 0, c) /\ OneToOne(list, a(r), b(r))
    BY <1>1, <1>4, <2>1, SliceWithin
  <2> QED BY <2>2 DEF Share, a, b
<1>6. ASSUME NEW r \in B, NEW q \in B, r < q
      PROVE  Share(list, W, r) \cap Share(list, W, q) = {}
  <2>1. /\ a(r) \in Nat /\ b(r) \in Nat /\ a(q) \in Nat /\ b(q) \in Nat
        /\ b(r) <= a(q) /\ a(q) <= b(q) /\ b(r) <= c /\ b(q) <= c /\ a(r) <= b(r)
    BY <1>3, <1>6
  <2> HIDE DEF a, b
  <2>2. \A i \in (a(r) + 1)..b(r), j \in (a(q) + 1)..b(q) :
            i \in (0 + 1)..c /\ j \in (0 + 1)..c /\ i # j
    BY <1>1, <2>1
  <2>3. Slice(list, a(r), b(r)) \cap Slice(list, a(q), b(q)) = {}
    BY <1>4, <2>2 DEF Slice, OneToOne
  <2> QED BY <2>3 DEF Share, a, b
<1>7. ASSUME NEW r \in B, NEW q \in B, r # q
      PROVE  Share(list, W, r) \cap Share(list, W, q) = {}
  <2>1. r \in Nat /\ q \in Nat
    OBVIOUS
  <2>2. r < q \/ q < r
    BY <1>7, <2>1
  <2> QED BY <1>6, <2>2
<1>8. ASSUME NEW p \in Slice(list, 0, c)
      PROVE  \E r \in B : p \in Share(list, W, r)
  <2>1. PICK j \in (0 + 1)..c : p = list[j]
    BY DEF Slice
  <2>2. j \in Nat \ {0} /\ j <= Cardinality(W)
    BY <1>1, <2>1
  <2>3. PICK s \in W : Before(W, s[1]) < j /\ j <= Before(W, s[1]) + Dealt(W, s[1])
    BY <1>2, <2>2, SharesCover
  <2>4. s[1] \in B /\ a(s[1]) \in Nat /\ b(s[1]) \in Nat
    <3>1. s[1] \in B
      OBVIOUS
    <3>2. Before(W, s[1]) \in Nat /\ Dealt(W, s[1]) \in Nat
      BY <1>3, <3>1
    <3> QED BY <3>1, <3>2
  <2>5. j \in (a(s[1]) + 1)..b(s[1])
    BY <2>2, <2>3, <2>4
  <2> QED BY <2>1, <2>4, <2>5 DEF Share, Slice
<1> QED BY <1>1, <1>3, <1>4, <1>5, <1>7, <1>8 DEF DealtOut

\* A batch: evict what is missing, and give every request of the batch its share.
LEMMA ExtendPages ==
  ASSUME PagesInv, NEW B \in SUBSET CanForward, Extend(B), IInv'
  PROVE  PagesInv' /\ \A r \in Reqs : \A i \in 1..Len(row[r]) : row'[r][i] = row[r][i]
<1>1. PICK dev \in ForwardLens(B), tok \in [B -> Tokens] :
        /\ ExtendTo(dev, tok)
        /\ stage' = [r \in Reqs |-> IF r \in B THEN AfterForward(r, dev[r] = Len(ids[r]))
                                               ELSE stage[r]]
  BY DEF Extend
<1> DEFINE W == NewSlots(dev)
           c == Cardinality(W)
<1>2. /\ B \subseteq Reqs /\ DOMAIN dev = B /\ B \subseteq Nat
      /\ IsFiniteSet(W) /\ \A s \in W : s[1] \in B
      /\ \A r \in B : /\ dev[r] \in Nat /\ cached[r] < dev[r] /\ dev[r] <= Len(ids[r])
                      /\ PagesFor(cached[r]) \in Nat /\ PagesFor(dev[r]) \in Nat
                      /\ Dealt(W, r) = PagesFor(dev[r]) - PagesFor(cached[r])
                      /\ PagesFor(cached[r]) <= PagesFor(dev[r])
  BY BatchSlots
<1>3. PICK E \in EvictionChoices(tree, c - Len(free)) :
        LET list == free \o SetToSeq({tree.page[k] : k \in PrefixesOf(tree, E)}) IN
        /\ tree' = IF E = {} THEN tree ELSE RemoveNodes(tree, E)
        /\ free' = SubSeq(list, c + 1, Len(list))
        /\ row' = [r \in Reqs |->
                     IF r \in B
                     THEN row[r] \o SubSeq(list, Before(W, r) + 1, Before(W, r) + Dealt(W, r))
                     ELSE row[r]]
        /\ pool' = pool /\ hit' = hit
  BY <1>1, <1>2, ZenonT(30) DEF ExtendTo, AllocatePaged, Shortage, Before, Dealt
<1> DEFINE gone == PrefixesOf(tree, E)
           G == {tree.page[k] : k \in gone}
           list == free \o SetToSeq(G)
           L == Len(list)
           F == Slice(list, c, L)
           X(r) == Share(list, W, r)
           a(r) == Before(W, r)
           b(r) == Before(W, r) + Dealt(W, r)
<1>4. c \in Nat
  BY <1>2, FS_CardinalityType
<1>5. /\ list \in Seq(pool) /\ L \in Nat /\ c <= L
      /\ OneToOne(list, 0, L) /\ Slice(list, 0, L) = FreePages \cup G /\ G \subseteq TreePages
      /\ {tree.page[k] : k \in Stored(tree) \ gone} = TreePages \ G
  <2> HIDE DEF c
  <2> QED BY <1>3, <1>4, EvictedPages
<1>6. /\ Stored(tree') = Stored(tree) \ gone
      /\ \A k \in Stored(tree') : tree'.page[k] = tree.page[k]
      /\ tree'.page = [k \in Stored(tree') |-> tree'.page[k]]
  <2> HIDE DEF c
  <2> QED BY <1>3, EvictedTree
<1>7. /\ free' = SubSeq(list, c + 1, L)
      /\ row' = [r \in Reqs |-> IF r \in B THEN row[r] \o SubSeq(list, a(r) + 1, b(r)) ELSE row[r]]
      /\ pool' = pool /\ hit' = hit
  BY <1>3
<1>8. /\ cached' = [r \in Reqs |-> IF r \in B THEN dev[r] ELSE cached[r]]
      /\ ids' = [r \in Reqs |-> IF r \in B /\ dev[r] = Len(ids[r])
                                THEN Append(ids[r], tok[r]) ELSE ids[r]]
  BY <1>1, <1>2 DEF ExtendTo
<1> HIDE DEF W, gone, G, list
<1>9. /\ Slice(list, 0, L) = Slice(list, 0, c) \cup F
      /\ Slice(list, 0, c) \cap F = {} /\ OneToOne(list, c, L)
      /\ \A r \in B : /\ a(r) \in Nat /\ Dealt(W, r) \in Nat /\ b(r) \in Nat /\ b(r) <= c
                      /\ X(r) \subseteq Slice(list, 0, c) /\ OneToOne(list, a(r), b(r))
      /\ \A r, q \in B : r # q => X(r) \cap X(q) = {}
      /\ \A p \in Slice(list, 0, c) : \E r \in B : p \in X(r)
  <2>1. /\ IsFiniteSet(W) /\ B \in SUBSET Nat /\ \A s \in W : s[1] \in B
        /\ c = Cardinality(W) /\ L = Len(list) /\ L \in Nat /\ c <= L /\ OneToOne(list, 0, L)
    BY <1>2, <1>5
  <2>2. DealtOut(list, W, B, c, L)
    <3> HIDE DEF c, L, F, X, a, b
    <3> QED BY <1>4, <2>1, Deal
  <2>3. \A r \in B : Before(W, r) + Dealt(W, r) \in Nat
    BY <2>2 DEF DealtOut
  <2> QED BY <2>2, <2>3 DEF DealtOut
<1> HIDE DEF c, L, F, X, a, b
<1>10. free' \in Seq(pool) /\ OneToOne(free', 0, Len(free')) /\ FreePages' = F
  BY <1>4, <1>5, <1>7, <1>9, SubSeqSlice DEF FreePages, F, L
<1>11. TreePages' = TreePages \ G
  <2>1. TreePages' = {tree'.page[k] : k \in Stored(tree')}
    BY DEF TreePages
  <2>2. {tree'.page[k] : k \in Stored(tree')} = {tree.page[k] : k \in Stored(tree) \ gone}
    BY <1>6
  <2> QED BY <1>5, <2>1, <2>2
<1>12. ASSUME NEW r \in B
       PROVE  /\ row'[r] \in Seq(pool) /\ Len(row'[r]) = PagesFor(dev[r])
              /\ \A i \in 1..Len(row[r]) : row'[r][i] = row[r][i]
              /\ OneToOne(row'[r], hit[r], Len(row'[r]))
              /\ OwnPages'[r] = OwnPages[r] \cup X(r)
  <2> DEFINE x == SubSeq(list, a(r) + 1, b(r))
  <2>1. /\ a(r) \in Nat /\ b(r) \in Nat /\ Dealt(W, r) \in Nat /\ b(r) = a(r) + Dealt(W, r)
        /\ b(r) <= c /\ OneToOne(list, a(r), b(r)) /\ X(r) = Slice(list, a(r), b(r))
    BY <1>9 DEF a, b, X, Share
  <2>2. a(r) <= b(r) /\ b(r) <= Len(list)
    BY <1>4, <1>5, <2>1 DEF L
  <2>3. /\ x \in Seq(pool) /\ Len(x) = b(r) - a(r)
        /\ Slice(x, 0, Len(x)) = X(r) /\ OneToOne(x, 0, Len(x))
    <3>1. /\ x \in Seq(pool) /\ Len(x) = b(r) - a(r)
          /\ Slice(x, 0, Len(x)) = Slice(list, a(r), b(r))
          /\ OneToOne(x, 0, Len(x)) <=> OneToOne(list, a(r), b(r))
      BY <1>5, <2>1, <2>2, SubSeqSlice
    <3> QED BY <2>1, <3>1
  <2>4. row'[r] = row[r] \o x
    BY <1>2, <1>7
  <2> HIDE DEF x
  <2>5. /\ row[r] \in Seq(pool) /\ hit[r] \in Nat /\ Len(row[r]) \in Nat
        /\ Len(row[r]) = PagesFor(cached[r]) /\ hit[r] <= Len(row[r])
        /\ OneToOne(row[r], hit[r], Len(row[r]))
        /\ OwnPages[r] = Slice(row[r], hit[r], Len(row[r]))
    <3>1. /\ row[r] \in Seq(pool) /\ hit[r] \in Nat /\ cached[r] \in Nat
          /\ Len(row[r]) = PagesFor(cached[r]) /\ hit[r] <= FullPages(cached[r])
          /\ OneToOne(row[r], hit[r], Len(row[r]))
          /\ OwnPages[r] = Slice(row[r], hit[r], Len(row[r]))
      BY <1>2, ReqTypes DEF PagesInv, RowsInv, OnceInv, OwnPages
    <3>2. /\ FullPages(cached[r]) \in Nat /\ PagesFor(cached[r]) \in Nat
          /\ FullPages(cached[r]) <= PagesFor(cached[r])
      BY <3>1, PageBounds
    <3>3. hit[r] <= Len(row[r]) /\ Len(row[r]) \in Nat
      BY <3>1, <3>2
    <3> QED BY <3>1, <3>3
  <2>6. OwnPages[r] \cap X(r) = {}
    <3>1. X(r) \subseteq FreePages \cup TreePages
      BY <1>5, <1>9
    <3> QED BY <1>2, <3>1 DEF PagesInv, Apart
  <2>7. /\ row'[r] \in Seq(pool) /\ Len(row'[r]) = Len(row[r]) + Len(x)
        /\ \A i \in 1..Len(row[r]) : row'[r][i] = row[r][i]
        /\ Slice(row'[r], hit[r], Len(row'[r])) = OwnPages[r] \cup X(r)
        /\ OneToOne(row'[r], hit[r], Len(row'[r]))
    <3> DEFINE v == row[r]
               h == hit[r]
    <3>1. v \in Seq(pool) /\ x \in Seq(pool) /\ h \in Nat /\ h <= Len(v)
      BY <2>3, <2>5
    <3>2. /\ OneToOne(v, h, Len(v)) /\ OneToOne(x, 0, Len(x))
          /\ Slice(v, h, Len(v)) = OwnPages[r] /\ Slice(x, 0, Len(x)) = X(r)
      BY <2>3, <2>5
    <3>3. row'[r] = v \o x
      BY <2>4
    <3> HIDE DEF v, h
    <3>4. /\ v \o x \in Seq(pool) /\ Len(v \o x) = Len(v) + Len(x)
          /\ \A i \in 1..Len(v) : (v \o x)[i] = v[i]
          /\ Slice(v \o x, h, Len(v \o x)) = Slice(v, h, Len(v)) \cup Slice(x, 0, Len(x))
          /\ OneToOne(v \o x, h, Len(v \o x)) <=>
                 /\ OneToOne(v, h, Len(v)) /\ OneToOne(x, 0, Len(x))
                 /\ Slice(v, h, Len(v)) \cap Slice(x, 0, Len(x)) = {}
      BY <3>1, ConcatSlice
    <3>5. /\ row'[r] \in Seq(pool) /\ Len(row'[r]) = Len(v) + Len(x)
          /\ \A i \in 1..Len(v) : row'[r][i] = v[i]
          /\ Slice(row'[r], h, Len(row'[r])) = OwnPages[r] \cup X(r)
          /\ OneToOne(row'[r], h, Len(row'[r]))
      BY <2>6, <3>2, <3>3, <3>4
    <3> QED BY <3>5 DEF v, h
  <2>8. Len(row'[r]) = PagesFor(dev[r])
    BY <1>2, <2>1, <2>3, <2>5, <2>7
  <2>9. OwnPages'[r] = Slice(row'[r], hit[r], Len(row'[r]))
    BY <1>2, <1>7 DEF OwnPages
  <2> QED BY <2>7, <2>8, <2>9
<1>13. \A r \in Reqs : r \notin B => /\ row'[r] = row[r] /\ OwnPages'[r] = OwnPages[r]
  BY <1>7 DEF OwnPages
<1>14. Apart(FreePages, TreePages, OwnPages)'
  <2>1. F \cap (TreePages \ G) = {}
    BY <1>5, <1>9 DEF PagesInv, Apart
  <2>2. ASSUME NEW r \in Reqs
        PROVE  OwnPages'[r] \cap F = {} /\ OwnPages'[r] \cap (TreePages \ G) = {}
    <3>1. OwnPages[r] \cap FreePages = {} /\ OwnPages[r] \cap TreePages = {}
      BY DEF PagesInv, Apart
    <3>2. OwnPages[r] \cap F = {}
      BY <1>5, <1>9, <3>1
    <3>3. CASE r \in B
      <4>1. X(r) \cap F = {} /\ X(r) \subseteq FreePages \cup G /\ FreePages \cap TreePages = {}
        BY <1>5, <1>9, <3>3 DEF PagesInv, Apart
      <4> QED BY <1>12, <3>1, <3>2, <3>3, <4>1
    <3>4. CASE r \notin B
      BY <1>13, <3>1, <3>2, <3>4
    <3> QED BY <3>3, <3>4
  <2>3. ASSUME NEW r \in Reqs, NEW q \in Reqs, r # q PROVE OwnPages'[r] \cap OwnPages'[q] = {}
    <3>1. /\ OwnPages[r] \cap OwnPages[q] = {}
          /\ OwnPages[r] \cap FreePages = {} /\ OwnPages[r] \cap TreePages = {}
          /\ OwnPages[q] \cap FreePages = {} /\ OwnPages[q] \cap TreePages = {}
      BY <2>3 DEF PagesInv, Apart
    <3>2. \A p \in B : X(p) \subseteq FreePages \cup TreePages
      BY <1>5, <1>9
    <3>3. CASE r \in B /\ q \in B
      <4>1. X(r) \cap X(q) = {}
        BY <1>9, <2>3, <3>3
      <4> QED BY <1>12, <3>1, <3>2, <3>3, <4>1
    <3>4. CASE r \in B /\ q \notin B
      BY <1>12, <1>13, <3>1, <3>2, <3>4
    <3>5. CASE r \notin B /\ q \in B
      BY <1>12, <1>13, <3>1, <3>2, <3>5
    <3>6. CASE r \notin B /\ q \notin B
      BY <1>13, <3>1, <3>6
    <3> QED BY <3>3, <3>4, <3>5, <3>6
  <2> QED BY <1>10, <1>11, <2>1, <2>2, <2>3 DEF Apart
<1>15. Covered(pool, FreePages, TreePages, OwnPages)'
  <2> SUFFICES ASSUME NEW p \in pool
      PROVE  p \in F \/ p \in TreePages \ G \/ \E r \in Reqs : p \in OwnPages'[r]
    BY <1>7, <1>10, <1>11 DEF Covered
  <2>1. CASE p \in FreePages \cup G
    <3>1. p \in F \/ \E r \in B : p \in X(r)
      BY <1>5, <1>9, <2>1
    <3> QED BY <1>2, <1>12, <3>1
  <2>2. CASE p \in TreePages \ G
    BY <2>2
  <2>3. CASE \E r \in Reqs : p \in OwnPages[r]
    <3>1. PICK r \in Reqs : p \in OwnPages[r]
      BY <2>3
    <3>2. p \in OwnPages'[r]
      BY <1>12, <1>13, <3>1
    <3> QED BY <3>2
  <2> QED BY <2>1, <2>2, <2>3 DEF PagesInv, Covered
<1>16. PoolInv'
  <2>1. row' \in [Reqs -> Seq(pool)]
    <3>1. \A r \in Reqs : row'[r] \in Seq(pool)
      BY <1>12, <1>13, ReqTypes
    <3> QED BY <1>7, <3>1
  <2>2. \A k \in Stored(tree') : tree'.page[k] \in pool
    BY <1>6 DEF PagesInv, PoolInv
  <2> QED BY <1>6, <1>7, <1>10, <2>1, <2>2 DEF PagesInv, PoolInv
<1>17. ASSUME NEW r \in Reqs
       PROVE  /\ Len(row'[r]) = PagesFor(cached'[r])
              /\ hit'[r] <= FullPages(cached'[r])
              /\ Len(ids'[r]) <= MaxLen
              /\ stage'[r] = "idle" => cached'[r] = 0
  <2>1. /\ Len(row[r]) = PagesFor(cached[r])
        /\ hit[r] <= FullPages(cached[r])
        /\ Len(ids[r]) <= MaxLen
        /\ stage[r] = "idle" => cached[r] = 0
        /\ hit[r] \in Nat /\ cached[r] \in Nat /\ hit'[r] = hit[r]
    BY <1>7, ReqTypes DEF PagesInv, RowsInv
  <2>2. CASE r \notin B
    BY <1>1, <1>8, <1>13, <2>1, <2>2
  <2>3. CASE r \in B
    <3>1. cached'[r] = dev[r] /\ Len(row'[r]) = PagesFor(dev[r])
      BY <1>2, <1>8, <1>12, <2>3
    <3>2. hit'[r] <= FullPages(dev[r])
      <4>1. /\ FullPages(cached[r]) <= FullPages(dev[r])
            /\ FullPages(cached[r]) \in Nat /\ FullPages(dev[r]) \in Nat
        <5>1. dev[r] \in Nat /\ cached[r] <= dev[r]
          BY <1>2, <2>1, <2>3
        <5> QED BY <2>1, <5>1, PagesMonotone, PageArithmetic
      <4> QED BY <2>1, <4>1
    <3>3. Len(ids'[r]) <= MaxLen
      <4>1. ids[r] \in Seq(Tokens) /\ Len(ids[r]) \in Nat /\ MaxLen \in Nat
        BY ReqTypes, KVCacheAssumption
      <4>2. Len(ids[r]) < MaxLen
        BY <2>3 DEF CanForward
      <4>3. CASE dev[r] = Len(ids[r])
        <5>1. ids'[r] = Append(ids[r], tok[r]) /\ tok[r] \in Tokens
          BY <1>8, <2>3, <4>3
        <5>2. Len(ids'[r]) = Len(ids[r]) + 1
          BY <4>1, <5>1, AppendProperties
        <5> QED BY <4>1, <4>2, <5>2
      <4>4. CASE dev[r] # Len(ids[r])
        BY <1>8, <2>1, <4>4
      <4> QED BY <4>3, <4>4
    <3>4. stage'[r] # "idle"
      BY <1>1, <2>3 DEF AfterForward
    <3> QED BY <3>1, <3>2, <3>3, <3>4
  <2> QED BY <2>2, <2>3
<1>18. ASSUME NEW r \in Reqs, NEW i \in 1..hit'[r]
       PROVE  row'[r][i] = tree'.page[Key(ids'[r], i)]
  <2>1. /\ hit'[r] = hit[r] /\ hit[r] \in Nat /\ i \in Nat /\ i \in 1..hit[r]
        /\ ids[r] \in Seq(Tokens) /\ i <= FullPages(Len(ids[r]))
        /\ row[r][i] = tree.page[Key(ids[r], i)]
    BY <1>7, ReqTypes, HandleStored DEF PagesInv, RowsInv
  <2>2. Key(ids'[r], i) = Key(ids[r], i)
    <3>1. CASE r \in B /\ dev[r] = Len(ids[r])
      <4>1. ids'[r] = Append(ids[r], tok[r]) /\ tok[r] \in Tokens
        BY <1>8, <3>1
      <4>2. i * PageSize <= Len(ids[r])
        BY <2>1, KeysApart
      <4> QED BY <2>1, <4>1, <4>2, KeyOfAppend
    <3>2. CASE ~(r \in B /\ dev[r] = Len(ids[r]))
      BY <1>8, <3>2
    <3> QED BY <3>1, <3>2
  <2>3. Key(ids[r], i) \in Stored(tree')
    BY <2>2, HandlesStayStored DEF HandlesStored
  <2>4. row'[r][i] = row[r][i]
    <3>1. CASE r \in B
      <4>1. i \in 1..Len(row[r])
        <5>1. /\ Len(row[r]) = PagesFor(cached[r]) /\ hit[r] <= FullPages(cached[r])
              /\ cached[r] \in Nat
          BY ReqTypes DEF PagesInv, RowsInv
        <5>2. /\ FullPages(cached[r]) \in Nat /\ PagesFor(cached[r]) \in Nat
              /\ FullPages(cached[r]) <= PagesFor(cached[r])
          BY <5>1, PageBounds
        <5> QED BY <2>1, <5>1, <5>2
      <4> QED BY <1>12, <3>1, <4>1
    <3>2. CASE r \notin B
      BY <1>13, <3>2
    <3> QED BY <3>1, <3>2
  <2> QED BY <1>6, <2>1, <2>2, <2>3, <2>4
<1>19. RowsInv'
  BY <1>17, <1>18 DEF RowsInv
<1>20. OnceInv'
  <2>1. \A k, l \in Stored(tree') : tree'.page[k] = tree'.page[l] => k = l
    BY <1>6 DEF PagesInv, OnceInv
  <2>2. ASSUME NEW r \in Reqs PROVE OneToOne(row'[r], hit'[r], Len(row'[r]))
    <3>1. CASE r \in B
      BY <1>7, <1>12, <3>1
    <3>2. CASE r \notin B
      BY <1>7, <1>13, <3>2 DEF PagesInv, OnceInv
    <3> QED BY <3>1, <3>2
  <2> QED BY <1>10, <2>1, <2>2 DEF OnceInv
<1>21. \A r \in Reqs : \A i \in 1..Len(row[r]) : row'[r][i] = row[r][i]
  BY <1>12, <1>13
<1>22. PagesInv'
  BY <1>14, <1>15, <1>16, <1>19, <1>20 DEF PagesInv
<1> QED BY <1>21, <1>22

\* Finish keeps the accounting of pages, whichever way cache_req releases the row.
LEMMA FinishPages ==
  ASSUME PagesInv, NEW r \in Reqs, Finish(r), IInv'
  PROVE  PagesInv'
  BY FinishSharedPages, FinishUnsharedPages

\* Rebuild: no request holds anything, and the new pool is all free.
LEMMA RebuildPages ==
  ASSUME PagesInv, Rebuild, IInv'
  PROVE  PagesInv'
<1>1. /\ pool' \in SUBSET Pages /\ free' = SetToSeq(pool') /\ tree' = EmptyTree
      /\ ids' = ids /\ hit' = hit /\ row' = row /\ cached' = cached /\ stage' = stage
  BY DEF Rebuild, Reset, RebuiltTree
<1>2. free' \in Seq(pool') /\ OneToOne(free', 0, Len(free')) /\ FreePages' = pool'
  BY <1>1, AllFree DEF FreePages
<1>3. ASSUME NEW r \in Reqs
      PROVE  /\ cached[r] = 0 /\ hit[r] = 0 /\ row[r] = << >>
             /\ row[r] \in Seq(pool') /\ Len(row[r]) = 0
  <2>1. /\ stage[r] = "idle" /\ row[r] \in Seq(pool) /\ Len(row[r]) = PagesFor(cached[r])
        /\ cached[r] = 0 /\ hit[r] = 0
    BY DEF Rebuild, Active, PagesInv, PoolInv, RowsInv, IInv, ReqsInv
  <2>2. PagesFor(0) = 0
    BY PageSizeAssumption DEF PagesFor
  <2>3. row[r] = << >>
    BY <2>1, <2>2, EmptySeq
  <2> QED BY <2>1, <2>2, <2>3, EmptySeq
<1>4. PoolInv'
  <2>1. row' \in [Reqs -> Seq(pool')]
    BY <1>1, <1>3, ReqTypes
  <2> QED BY <1>1, <1>2, <2>1, EmptyTreePages DEF PoolInv
<1>5. RowsInv'
  <2>1. 1..0 = {}
    OBVIOUS
  <2> QED BY <1>1, <1>3, <2>1 DEF RowsInv, PagesInv
<1>6. OwnPages' = [r \in Reqs |-> {}] /\ TreePages' = {}
  <2>1. \A r \in Reqs : Slice(row'[r], hit'[r], Len(row'[r])) = {}
    BY <1>1, <1>3, SliceEmpty
  <2> QED BY <1>1, <2>1, EmptyTreePages DEF OwnPages, TreePages
<1>7. OnceInv'
  <2>1. \A r \in Reqs : OneToOne(row'[r], hit'[r], Len(row'[r]))
    BY <1>1, <1>3, SliceEmpty
  <2> QED BY <1>1, <1>2, <2>1, EmptyTreePages DEF OnceInv
<1>8. Apart(FreePages, TreePages, OwnPages)' /\ Covered(pool, FreePages, TreePages, OwnPages)'
  BY <1>2, <1>6 DEF Apart, Covered
<1> QED BY <1>4, <1>5, <1>7, <1>8 DEF PagesInv

-----------------------------------------------------------------------------
\* The ownership of the pages is inductive.
LEMMA StepPages == PagesInv /\ [Next]_vars => PagesInv'
<1> SUFFICES ASSUME PagesInv, [Next]_vars PROVE PagesInv'
  OBVIOUS
<1>1. IInv'
  BY StepIInv DEF PagesInv
<1>2. ASSUME NEW r \in Reqs, Admit(r) PROVE PagesInv'
  BY <1>1, <1>2, AdmitPages
<1>3. ASSUME NEW r \in Reqs, Refuse(r) PROVE PagesInv'
  BY <1>1, <1>3, RefusePages
<1>4. ASSUME NEW r \in Reqs, Commit(r) PROVE PagesInv'
  BY <1>1, <1>4, CommitPages
<1>5. ASSUME NEW r \in Reqs, Finish(r) PROVE PagesInv'
  BY <1>1, <1>5, FinishPages
<1>6. ASSUME NEW B \in (SUBSET CanForward) \ {{}}, Extend(B) PROVE PagesInv'
  BY <1>1, <1>6, ExtendPages
<1>7. CASE Rebuild
  BY <1>1, <1>7, RebuildPages
<1>8. CASE UNCHANGED vars
  <2>1. /\ pool' = pool /\ free' = free /\ tree' = tree /\ stage' = stage /\ ids' = ids
        /\ hit' = hit /\ row' = row /\ cached' = cached
    BY <1>8 DEF vars, poolVars, reqVars
  <2>2. FreePages' = FreePages /\ TreePages' = TreePages /\ OwnPages' = OwnPages
    BY <2>1 DEF FreePages, TreePages, OwnPages
  <2> QED BY <1>1, <2>1, <2>2 DEF PagesInv, PoolInv, RowsInv, OnceInv
<1> QED BY <1>2, <1>3, <1>4, <1>5, <1>6, <1>7, <1>8 DEF Next

\* Every page has one owner and every row reads its prefix in the tree, always.
LEMMA PagesAlways == Spec => []PagesInv
  BY InitPages, StepPages, PTL DEF Spec

-----------------------------------------------------------------------------
\* Of the places that own a page, one is there and no other.
LEMMA OneOwner ==
  ASSUME PagesInv, NEW p
  PROVE  /\ p \in pool => \E o : Owners(p) = {o}
         /\ p \notin pool => Owners(p) = {}
<1> DEFINE F == {<<"free", i>> : i \in {i \in DOMAIN free : free[i] = p}}
           T == {<<"tree", k>> : k \in {k \in Stored(tree) : tree.page[k] = p}}
           R(r) == {<<"row", r, i>> : i \in {i \in DOMAIN row[r] : i > hit[r] /\ row[r][i] = p}}
<1>1. Owners(p) = (F \cup T) \cup UNION {R(r) : r \in Reqs}
  BY DEF Owners
<1>2. /\ p \in FreePages => \E o : F = {o}
      /\ p \notin FreePages => F = {}
      /\ p \in FreePages => p \in pool
  <2>1. DOMAIN free = (0 + 1)..Len(free) /\ FreePages \subseteq pool /\ OneToOne(free, 0, Len(free))
    BY SliceAll DEF PagesInv, PoolInv, OnceInv, FreePages
  <2> DEFINE I == {i \in DOMAIN free : free[i] = p}
  <2>2. I = {i \in (0 + 1)..Len(free) : free[i] = p}
    BY <2>1
  <2>3. ASSUME p \in FreePages PROVE \E i : I = {i}
    <3>1. PICK i \in (0 + 1)..Len(free) : free[i] = p
      BY <2>3 DEF FreePages, Slice
    <3>2. I = {i}
      BY <2>1, <2>2, <3>1 DEF OneToOne
    <3> QED BY <3>2
  <2>4. p \notin FreePages => I = {}
    BY <2>2 DEF FreePages, Slice
  <2> HIDE DEF I
  <2>5. F = {<<"free", i>> : i \in I}
    BY DEF I
  <2> HIDE DEF F
  <2>6. ASSUME NEW i, I = {i} PROVE F = {<<"free", i>>}
    BY <2>5, <2>6
  <2>7. I = {} => F = {}
    BY <2>5
  <2> QED BY <2>1, <2>3, <2>4, <2>6, <2>7
<1>3. /\ p \in TreePages => \E o : T = {o}
      /\ p \notin TreePages => T = {}
      /\ p \in TreePages => p \in pool
  <2>1. \A k \in Stored(tree) : tree.page[k] \in pool
    BY DEF PagesInv, PoolInv
  <2> DEFINE I == {k \in Stored(tree) : tree.page[k] = p}
  <2>2. ASSUME p \in TreePages PROVE p \in pool /\ \E k : I = {k}
    <3>1. PICK k \in Stored(tree) : tree.page[k] = p
      BY <2>2 DEF TreePages
    <3>2. I = {k}
      BY <3>1 DEF PagesInv, OnceInv
    <3> QED BY <2>1, <3>1, <3>2
  <2>3. p \notin TreePages => I = {}
    BY DEF TreePages
  <2> HIDE DEF I
  <2>4. T = {<<"tree", k>> : k \in I}
    BY DEF I
  <2> HIDE DEF T
  <2>5. ASSUME NEW i, I = {i} PROVE T = {<<"tree", i>>}
    BY <2>4, <2>5
  <2>6. I = {} => T = {}
    BY <2>4
  <2> QED BY <2>2, <2>3, <2>5, <2>6
<1>4. ASSUME NEW r \in Reqs
      PROVE  /\ p \in OwnPages[r] => \E o : R(r) = {o}
             /\ p \notin OwnPages[r] => R(r) = {}
             /\ p \in OwnPages[r] => p \in pool
  <2>1. /\ row[r] \in Seq(pool) /\ hit[r] \in Nat /\ OneToOne(row[r], hit[r], Len(row[r]))
        /\ OwnPages[r] = Slice(row[r], hit[r], Len(row[r]))
    BY ReqTypes DEF PagesInv, OnceInv, OwnPages
  <2>2. /\ DOMAIN row[r] = 1..Len(row[r]) /\ Len(row[r]) \in Nat
        /\ \A i \in 1..Len(row[r]) : row[r][i] \in pool
    BY <2>1
  <2>3. {i \in DOMAIN row[r] : i > hit[r]} = (hit[r] + 1)..Len(row[r])
    BY <2>1, <2>2
  <2>4. \A i \in (hit[r] + 1)..Len(row[r]) : i \in 1..Len(row[r])
    BY <2>1, <2>2
  <2> DEFINE I == {i \in DOMAIN row[r] : i > hit[r] /\ row[r][i] = p}
  <2>5. I = {i \in (hit[r] + 1)..Len(row[r]) : row[r][i] = p}
    BY <2>3
  <2>6. ASSUME p \in OwnPages[r] PROVE \E i : I = {i}
    <3>1. PICK i \in (hit[r] + 1)..Len(row[r]) : row[r][i] = p
      BY <2>1, <2>6 DEF Slice
    <3>2. I = {i}
      BY <2>1, <2>5, <3>1 DEF OneToOne
    <3> QED BY <3>2
  <2>7. p \notin OwnPages[r] => I = {}
    BY <2>1, <2>5 DEF Slice
  <2>8. p \in OwnPages[r] => p \in pool
    BY <2>1, <2>2, <2>4 DEF Slice
  <2> HIDE DEF I
  <2>9. R(r) = {<<"row", r, i>> : i \in I}
    BY DEF I
  <2> HIDE DEF R
  <2>10. ASSUME NEW i, I = {i} PROVE R(r) = {<<"row", r, i>>}
    BY <2>9, <2>10
  <2>11. I = {} => R(r) = {}
    BY <2>9
  <2> QED BY <2>6, <2>7, <2>8, <2>10, <2>11
<1> HIDE DEF F, T, R
<1>5. /\ FreePages \cap TreePages = {}
      /\ \A r \in Reqs : OwnPages[r] \cap FreePages = {} /\ OwnPages[r] \cap TreePages = {}
      /\ \A r, q \in Reqs : r # q => OwnPages[r] \cap OwnPages[q] = {}
      /\ p \in pool => p \in FreePages \/ p \in TreePages \/ \E r \in Reqs : p \in OwnPages[r]
  BY DEF PagesInv, Apart, Covered
<1>6. CASE p \in FreePages
  <2>1. T = {} /\ (\A r \in Reqs : R(r) = {}) /\ p \in pool /\ \E o : F = {o}
    BY <1>2, <1>3, <1>4, <1>5, <1>6
  <2>2. Owners(p) = F
    BY <1>1, <2>1
  <2> QED BY <2>1, <2>2
<1>7. CASE p \in TreePages
  <2>1. F = {} /\ (\A r \in Reqs : R(r) = {}) /\ p \in pool /\ \E o : T = {o}
    BY <1>2, <1>3, <1>4, <1>5, <1>7
  <2>2. Owners(p) = T
    BY <1>1, <2>1
  <2> QED BY <2>1, <2>2
<1>8. CASE \E r \in Reqs : p \in OwnPages[r]
  <2>1. PICK r \in Reqs : p \in OwnPages[r]
    BY <1>8
  <2>2. F = {} /\ T = {} /\ p \in pool /\ \E o : R(r) = {o}
    BY <1>2, <1>3, <1>4, <1>5, <2>1
  <2>3. \A q \in Reqs : q # r => R(q) = {}
    BY <1>4, <1>5, <2>1
  <2>4. Owners(p) = R(r)
    BY <1>1, <2>2, <2>3
  <2> QED BY <2>2, <2>4
<1>9. CASE p \notin FreePages /\ p \notin TreePages /\ \A r \in Reqs : p \notin OwnPages[r]
  <2>1. F = {} /\ T = {} /\ \A r \in Reqs : R(r) = {}
    BY <1>2, <1>3, <1>4, <1>9
  <2>2. Owners(p) = {}
    BY <1>1, <2>1
  <2> QED BY <1>5, <1>9, <2>2
<1> QED BY <1>6, <1>7, <1>8, <1>9

\* No page leaks and none is freed twice: in every reachable state each page of
\* the pool is in free_slots once, or under one prefix of the tree, or in one
\* slot of one request that has not published it.
THEOREM PagesAlwaysConserved == Spec => []PagesConserved
<1>1. PagesInv => PagesConserved
  <2> SUFFICES ASSUME PagesInv PROVE PagesConserved
    OBVIOUS
  <2>1. ASSUME NEW p \in pool PROVE Cardinality(Owners(p)) = 1
    <3>1. PICK o : Owners(p) = {o}
      BY OneOwner
    <3> QED BY <3>1, FS_Singleton
  <2> QED BY <2>1, OneOwner DEF PagesConserved
<1> QED BY <1>1, PagesAlways, PTL

-----------------------------------------------------------------------------
\* What a step leaves of the row of a request that stays active: its handle only
\* grows, and the pages and the tokens under it are where they were.
LEMMA PrefixKept ==
  ASSUME PagesInv, [Next]_vars, NEW r \in Active, stage'[r] # "idle", NEW i \in 1..hit[r]
  PROVE  hit[r] <= hit'[r] /\ row'[r][i] = row[r][i] /\ Key(ids'[r], i) = Key(ids[r], i)
<1>1. /\ r \in Reqs /\ stage[r] # "idle" /\ hit[r] \in Nat /\ i \in Nat /\ i <= hit[r]
      /\ hit[r] <= hit[r]
  BY ReqTypes DEF Active
<1>2. i \in 1..Len(row[r]) /\ i \in DOMAIN row[r]
  <2>1. /\ Len(row[r]) = PagesFor(cached[r]) /\ hit[r] <= FullPages(cached[r])
        /\ cached[r] \in Nat /\ row[r] \in Seq(pool)
    BY <1>1, ReqTypes DEF PagesInv, RowsInv
  <2>2. /\ FullPages(cached[r]) \in Nat /\ PagesFor(cached[r]) \in Nat
        /\ FullPages(cached[r]) <= PagesFor(cached[r])
    BY <2>1, PageBounds
  <2>3. i \in 1..Len(row[r])
    BY <1>1, <2>1, <2>2
  <2> QED BY <2>1, <2>3
<1>3. CASE hit'[r] = hit[r] /\ row'[r] = row[r] /\ ids'[r] = ids[r]
  BY <1>1, <1>3
<1>4. ASSUME NEW q \in Reqs, Admit(q) \/ Finish(q)
      PROVE  hit'[r] = hit[r] /\ row'[r] = row[r] /\ ids'[r] = ids[r]
  <2>1. q # r
    BY <1>1, <1>4, ReqTypes DEF Admit, Finish
  <2>2. CASE Admit(q)
    <3>1. PICK s \in Prompts : AdmitReq(q, s)
      BY <2>2 DEF Admit
    <3> QED BY <1>1, <2>1, <3>1, ReqTypes DEF AdmitReq
  <2>3. CASE Finish(q)
    BY <1>1, <2>1, <2>3, ReqTypes DEF Finish, CacheReqFinished
  <2> QED BY <1>4, <2>2, <2>3
<1>5. ASSUME NEW q \in Reqs, Refuse(q)
      PROVE  hit'[r] = hit[r] /\ row'[r] = row[r] /\ ids'[r] = ids[r]
  BY <1>5 DEF Refuse, reqVars
<1>6. ASSUME NEW q \in Reqs, Commit(q)
      PROVE  hit[r] <= hit'[r] /\ row'[r][i] = row[r][i] /\ Key(ids'[r], i) = Key(ids[r], i)
  <2>1. ids' = ids
    BY <1>6 DEF Commit
  <2>2. CASE q = r /\ Shared(q)
    <3>1. /\ hit' = [hit EXCEPT ![r] = FullPages(cached[r])]
          /\ row' = [row EXCEPT ![r] = Repointed(r, Matched(tree, Computed(r)), Published(r))]
      BY <1>6, <2>2 DEF Commit, CacheReqUnfinished
    <3>2. hit'[r] = FullPages(cached[r]) /\ hit[r] <= hit'[r]
      BY <1>1, <3>1, ReqTypes DEF PagesInv, RowsInv
    <3>3. row'[r] = Repointed(r, Matched(tree, Computed(r)), Published(r))
      BY <1>1, <3>1, ReqTypes
    <3>4. i \notin (hit[r] + 1)..Matched(tree, Computed(r))
      BY <1>1
    <3>5. row'[r][i] = row[r][i]
      BY <1>2, <3>3, <3>4 DEF Repointed
    <3> QED BY <2>1, <3>2, <3>5
  <2>3. CASE q # r /\ Shared(q)
    BY <1>1, <1>6, <2>1, <2>3, ReqTypes DEF Commit, CacheReqUnfinished
  <2>4. CASE ~Shared(q)
    BY <1>1, <1>6, <2>1, <2>4 DEF Commit, CacheReqUnfinished
  <2> QED BY <2>2, <2>3, <2>4
<1>7. ASSUME NEW B \in (SUBSET CanForward) \ {{}}, Extend(B)
      PROVE  hit[r] <= hit'[r] /\ row'[r][i] = row[r][i] /\ Key(ids'[r], i) = Key(ids[r], i)
  <2>1. PICK dev \in ForwardLens(B), tok \in [B -> Tokens] : ExtendTo(dev, tok)
    BY <1>7 DEF Extend
  <2>2. hit' = hit
    BY <2>1 DEF ExtendTo, AllocatePaged
  <2>3. ids'[r] = ids[r] \/ \E t \in Tokens : ids'[r] = Append(ids[r], t)
    <3>1. DOMAIN dev = B
      BY DEF ForwardLens
    <3> QED BY <1>1, <2>1, <3>1 DEF ExtendTo
  <2>4. /\ ids[r] \in Seq(Tokens) /\ i <= FullPages(Len(ids[r]))
        /\ i * PageSize <= Len(ids[r])
    <3>1. IInv
      BY DEF PagesInv
    <3>2. ids[r] \in Seq(Tokens) /\ i <= FullPages(Len(ids[r]))
      BY <1>1, <3>1, HandleStored
    <3> QED BY <1>1, <3>2, KeysApart
  <2>5. Key(ids'[r], i) = Key(ids[r], i)
    <3>1. ASSUME NEW t \in Tokens, ids'[r] = Append(ids[r], t) PROVE Key(ids'[r], i) = Key(ids[r], i)
      BY <1>1, <2>4, <3>1, KeyOfAppend
    <3> QED BY <2>3, <3>1
  <2>6. row'[r][i] = row[r][i]
    <3>1. IInv'
      BY StepIInv DEF PagesInv
    <3> QED BY <1>1, <1>2, <1>7, <3>1, ExtendPages
  <2> QED BY <1>1, <2>2, <2>5, <2>6
<1>8. CASE Rebuild
  BY <1>1, <1>8 DEF Rebuild, Active
<1>9. CASE UNCHANGED vars
  BY <1>1, <1>9 DEF vars, reqVars
<1> QED BY <1>3, <1>4, <1>5, <1>6, <1>7, <1>8, <1>9 DEF Next

\* A request reads its shared prefix in place: no eviction, commit, split or
\* admission of another request moves or drops a page under a handle that is
\* held, whatever the order of the calls.
THEOREM SharedPrefixAlwaysStays == Spec => SharedPrefixStays
<1>1. PagesInv /\ [Next]_vars =>
        [\A r \in Active :
            stage'[r] # "idle" =>
                \A i \in 1..hit[r] : /\ row'[r][i] = row[r][i]
                                    /\ Key(ids[r], i) \in DOMAIN tree'.page
                                    /\ tree'.page[Key(ids[r], i)] = row[r][i]]_vars
  <2> SUFFICES ASSUME PagesInv, [Next]_vars, NEW r \in Active, stage'[r] # "idle",
                      NEW i \in 1..hit[r]
               PROVE  /\ row'[r][i] = row[r][i]
                      /\ Key(ids[r], i) \in DOMAIN tree'.page
                      /\ tree'.page[Key(ids[r], i)] = row[r][i]
    OBVIOUS
  <2>1. hit[r] <= hit'[r] /\ row'[r][i] = row[r][i] /\ Key(ids'[r], i) = Key(ids[r], i)
    BY PrefixKept
  <2>2. PagesInv' /\ IInv' /\ r \in Reqs
    BY StepPages, StepIInv DEF PagesInv, Active
  <2>3. i \in 1..hit'[r]
    <3>1. hit[r] \in Nat /\ hit'[r] \in Nat
      BY <2>2, ReqTypes DEF IInv, ReqsInv
    <3> QED BY <2>1, <3>1
  <2>4. Key(ids'[r], i) \in Stored(tree')
    BY <2>2, <2>3, HandlesStayStored DEF HandlesStored
  <2>5. row'[r][i] = tree'.page[Key(ids'[r], i)]
    BY <2>2, <2>3 DEF PagesInv, RowsInv
  <2> QED BY <2>1, <2>4, <2>5 DEF Stored
<1> QED BY <1>1, PagesAlways, PTL DEF Spec, SharedPrefixStays

-----------------------------------------------------------------------------
(* The size counters. *)

\* The counters hold together with the exact reference counts: a lock moves the
\* pages of the nodes whose ref_count leaves 0.
SInv == IInv /\ SizesMatch(tree)

-----------------------------------------------------------------------------
\* A ref_count that counts handles is a natural number, and it is positive on
\* the path of every handle.
LEMMA RefsAreCounts ==
  ASSUME NEW t, NEW h, RefsMatch(t, Reqs, h)
  PROVE  /\ \A e \in Nodes(t) : t.ref[e] \in Nat
         /\ \A r \in Reqs : \A e \in OnPath(t, h[r]) : t.ref[e] > 0
<1>1. ASSUME NEW e \in Nodes(t)
      PROVE  IsFiniteSet(Holders(Reqs, h, e)) /\ t.ref[e] = Cardinality(Holders(Reqs, h, e))
  <2>1. Holders(Reqs, h, e) \subseteq Reqs
    BY DEF Holders
  <2> QED BY <2>1, FiniteReqs, FS_Subset DEF RefsMatch
<1>2. ASSUME NEW e \in Nodes(t) PROVE t.ref[e] \in Nat
  BY <1>1, FS_CardinalityType
<1>3. ASSUME NEW r \in Reqs, NEW e \in OnPath(t, h[r]) PROVE t.ref[e] > 0
  <2>1. e \in Nodes(t) /\ r \in Holders(Reqs, h, e)
    BY DEF OnPath, Holders
  <2>2. t.ref[e] # 0
    BY <1>1, <2>1, FS_EmptySet
  <2> QED BY <1>2, <2>1, <2>2
<1> QED BY <1>2, <1>3

\* insert_prefix and the unlock of the old handle keep the counters.
LEMMA PublishedSizes ==
  ASSUME SInv, NEW r \in Reqs
  PROVE  SizesMatch(Published(r))
<1> DEFINE u == Insert(tree, Computed(r), row[r])
<1>1. Computed(r) \in Seq(Tokens)
  BY ComputedFacts DEF SInv
<1>2. WellFormed(u, Tokens) /\ RefsMatch(u, Reqs, Handles)
  BY <1>1, InsertKeeps DEF SInv, IInv, TreeInv
<1>3. SizesMatch(u)
  BY <1>1, <1>2, InsertSizes DEF SInv, IInv, TreeInv
<1>4. Published(r) = Unlock(u, HandleKey(r)) /\ HandleKey(r) = Handles[r]
  BY DEF Published, Handles
<1> HIDE DEF u
<1> QED BY <1>2, <1>3, <1>4, RefsAreCounts, UnlockSizes

\* Unlocking a handle of the tree keeps the counters.
LEMMA UnlockedSizes ==
  ASSUME SInv, NEW r \in Reqs
  PROVE  SizesMatch(Unlock(tree, HandleKey(r)))
<1>1. HandleKey(r) = Handles[r]
  BY DEF Handles
<1> QED BY <1>1, RefsAreCounts, UnlockSizes DEF SInv, IInv, TreeInv

\* The empty tree has both sizes at zero.
LEMMA InitSizes == Init => SInv
<1> SUFFICES ASSUME Init PROVE SizesMatch(tree)
  BY InitIInv DEF SInv
<1>1. /\ tree.evictable = 0 /\ tree.protected = 0 /\ Stored(tree) = {} /\ Held(tree) = {}
  BY DEF Init, EmptyTree, Stored, Held
<1> QED BY <1>1, FS_EmptySet DEF SizesMatch

\* Admit locks the matched node: the sizes follow the pages on its path.
LEMMA AdmitSizes ==
  ASSUME SInv, NEW r \in Reqs, Admit(r)
  PROVE  SizesMatch(tree')
<1>1. PICK s \in Prompts : AdmitReq(r, s)
  BY DEF Admit
<1> DEFINE q == MatchIds(r, s)
           w == Walk(tree, q)
<1>2. q \in Seq(Tokens)
  BY MatchIdsFacts
<1>3. WellFormed(w, Tokens) /\ RefsMatch(w, Reqs, Handles)
  BY <1>2, WalkKeeps DEF SInv, IInv, TreeInv
<1>4. SizesMatch(w)
  BY <1>2, WalkSizes DEF SInv, IInv, TreeInv
<1>5. tree' = Lock(w, Key(s, Matched(tree, q)))
  BY <1>1 DEF AdmitReq
<1> HIDE DEF w
<1> QED BY <1>3, <1>4, <1>5, RefsAreCounts, LockSizes

\* Refuse changes the tree by a walk only.
LEMMA RefuseSizes ==
  ASSUME SInv, NEW r \in Reqs, Refuse(r)
  PROVE  SizesMatch(tree')
<1>1. PICK s \in Prompts : tree' = Walk(tree, MatchIds(r, s))
  BY DEF Refuse
<1> QED BY <1>1, MatchIdsFacts, WalkSizes DEF SInv, IInv, TreeInv

\* Commit inserts the computed prefix and moves the reference to it.
LEMMA CommitSizes ==
  ASSUME SInv, NEW r \in Reqs, Commit(r)
  PROVE  SizesMatch(tree')
<1> DEFINE p == Published(r)
           k == Key(ids[r], FullPages(cached[r]))
           g == [q \in Reqs |-> IF q = r THEN Root ELSE Handles[q]]
<1>1. CASE tree' = Lock(p, k)
  <2>1. \A q \in Reqs : g[q] = IF q = r THEN Root ELSE Handles[q]
    OBVIOUS
  <2>2. SizesMatch(p)
    BY PublishedSizes
  <2> HIDE DEF g
  <2>3. WellFormed(p, Tokens) /\ RefsMatch(p, Reqs, g)
    BY <2>1, PublishedKeeps DEF SInv
  <2> HIDE DEF p, k
  <2> QED BY <1>1, <2>2, <2>3, RefsAreCounts, LockSizes
<1>2. CASE tree' = Unlock(tree, HandleKey(r))
  BY <1>2, UnlockedSizes
<1> QED BY <1>1, <1>2 DEF Commit, CacheReqUnfinished

\* Finish unlocks the handle for good, after the insertion if there is one.
LEMMA FinishSizes ==
  ASSUME SInv, NEW r \in Reqs, Finish(r)
  PROVE  SizesMatch(tree')
<1>1. tree' = Published(r) \/ tree' = Unlock(tree, HandleKey(r))
  BY DEF Finish, CacheReqFinished
<1> QED BY <1>1, PublishedSizes, UnlockedSizes

\* allocate_paged evicts unlocked leaves: evictable_size loses their pages only.
LEMMA ExtendSizes ==
  ASSUME SInv, NEW B \in SUBSET CanForward, Extend(B)
  PROVE  SizesMatch(tree')
<1>1. PICK dev \in ForwardLens(B), tok \in [B -> Tokens] : ExtendTo(dev, tok)
  BY DEF Extend
<1>2. PICK E \in EvictionChoices(tree, Shortage(dev)) :
        tree' = IF E = {} THEN tree ELSE RemoveNodes(tree, E)
  BY <1>1 DEF ExtendTo, AllocatePaged
<1>3. CASE E = {}
  BY <1>2, <1>3 DEF SInv
<1>4. CASE E # {}
  <2>1. E \in SUBSET Unlocked(tree) /\ LeafFirst(tree, E)
    BY <1>2, <1>4 DEF EvictionChoices
  <2>2. E \in SUBSET Nodes(tree)
    BY <2>1 DEF Unlocked
  <2>3. WellFormed(RemoveNodes(tree, E), Tokens)
    BY <2>1, <2>2, FiniteReqs, RemoveKeeps DEF SInv, IInv, TreeInv
  <2> QED BY <1>2, <1>4, <2>1, <2>3, RemoveSizes DEF SInv, IInv, TreeInv
<1> QED BY <1>3, <1>4

\* Every action of the cache manager keeps the two sizes exact.
LEMMA StepSizes == SInv /\ [Next]_vars => SInv'
<1> SUFFICES ASSUME SInv, [Next]_vars PROVE SizesMatch(tree')
  BY StepIInv DEF SInv, SizesMatch
<1>1. ASSUME NEW r \in Reqs, Admit(r) PROVE SizesMatch(tree')
  BY <1>1, AdmitSizes
<1>2. ASSUME NEW r \in Reqs, Refuse(r) PROVE SizesMatch(tree')
  BY <1>2, RefuseSizes
<1>3. ASSUME NEW r \in Reqs, Commit(r) PROVE SizesMatch(tree')
  BY <1>3, CommitSizes
<1>4. ASSUME NEW r \in Reqs, Finish(r) PROVE SizesMatch(tree')
  BY <1>4, FinishSizes
<1>5. ASSUME NEW B \in (SUBSET CanForward) \ {{}}, Extend(B) PROVE SizesMatch(tree')
  BY <1>5, ExtendSizes
<1>6. CASE Rebuild
  <2>1. /\ tree'.evictable = 0 /\ tree'.protected = 0
        /\ Stored(tree') = {} /\ Held(tree') = {}
    BY <1>6 DEF Rebuild, Reset, RebuiltTree, EmptyTree, Stored, Held
  <2> QED BY <2>1, FS_EmptySet DEF SizesMatch
<1>7. CASE UNCHANGED vars
  BY <1>7 DEF vars, poolVars, SInv
<1> QED BY <1>1, <1>2, <1>3, <1>4, <1>5, <1>6, <1>7 DEF Next

\* evictable_size and protected_size count the unlocked and the locked pages in
\* every reachable state, whatever splits, locks and evictions came between.
THEOREM SizesAlwaysExact == Spec => []SizesExact
<1>1. Spec => []SInv
  BY InitSizes, StepSizes, PTL DEF Spec
<1>2. SInv => SizesExact
  <2> SUFFICES ASSUME SInv PROVE SizesExact
    OBVIOUS
  <2> DEFINE open == {k \in Stored(tree) : ~Locked(tree, k)}
  <2>1. open = Stored(tree) \ Held(tree) /\ Held(tree) = Stored(tree) \ open
    BY DEF Held
  <2> HIDE DEF open
  <2>2. tree.evictable = Cardinality(open) /\ tree.protected = Cardinality(Stored(tree) \ open)
    BY <2>1 DEF SInv, SizesMatch
  <2> QED BY <2>2 DEF SizesExact, open
<1> QED BY <1>1, <1>2, PTL

-----------------------------------------------------------------------------
(* Eviction delivers what evictable_size promises. *)

\* Every node below an unlocked one is unlocked: whoever holds it would hold
\* the upper one too.
LEMMA UnlockedBelow ==
  ASSUME SInv
  PROVE  LeafFirst(tree, Unlocked(tree))
<1> SUFFICES ASSUME NEW e \in Unlocked(tree), NEW f \in Nodes(tree), StartsWith(f, e)
             PROVE  f \in Unlocked(tree)
  BY DEF LeafFirst
<1>1. /\ WellFormed(tree, Tokens) /\ RefsMatch(tree, Reqs, Handles)
      /\ HandlesIn(tree, Reqs, Handles) /\ e \in Nodes(tree) /\ tree.ref[e] = 0
  BY DEF SInv, IInv, TreeInv, Unlocked
<1>2. Holders(Reqs, Handles, f) \subseteq Holders(Reqs, Handles, e)
  <2> SUFFICES ASSUME NEW r \in Reqs, StartsWith(Handles[r], f)
               PROVE  StartsWith(Handles[r], e)
    BY DEF Holders
  <2>1. e \in Seq(Tokens) /\ f \in Seq(Tokens)
    BY <1>1, PrefixesAreSequences
  <2>2. Handles[r] \in Seq(Tokens)
    BY <1>1, PrefixesAreSequences, EmptySeq DEF HandlesIn, Root
  <2> QED BY <2>1, <2>2, PrefixOrder
<1>3. Holders(Reqs, Handles, e) \subseteq Reqs
  BY DEF Holders
<1>4. Holders(Reqs, Handles, e) = {}
  <2>1. Cardinality(Holders(Reqs, Handles, e)) = 0
    BY <1>1 DEF RefsMatch
  <2> QED BY <1>3, <2>1, FiniteReqs, FS_Subset, FS_EmptySet
<1>5. tree.ref[f] = 0
  <2>1. Holders(Reqs, Handles, f) = {}
    BY <1>2, <1>4
  <2> QED BY <1>1, <2>1, FS_EmptySet DEF RefsMatch
<1> QED BY <1>5 DEF Unlocked

\* A non-empty set of nodes to evict has a shortest one.
LEMMA ShortestNode ==
  ASSUME NEW V, NEW E \in SUBSET Seq(V), E # {}
  PROVE  \E e \in E : \A f \in E : Len(e) <= Len(f)
<1> DEFINE L == {Len(e) : e \in E}
<1>1. L \in SUBSET Nat /\ L # {}
  <2>1. ASSUME NEW e \in E PROVE Len(e) \in Nat
    <3>1. e \in Seq(V)
      OBVIOUS
    <3> QED BY <3>1
  <2> QED BY <2>1
<1> HIDE DEF L
<1>2. PICK x \in L : \A y \in L : x <= y
  BY <1>1, LeastElement
<1> QED BY <1>2 DEF L

\* The last leaf of a set popped leaf by leaf is a shortest one: what is left of
\* the set can still be popped leaf by leaf.
LEMMA LastLeaf ==
  ASSUME SInv, NEW E \in SUBSET Nodes(tree), LeafFirst(tree, E), E # {}
  PROVE  \E last \in E : LeafFirst(tree, E \ {last})
<1>1. E \in SUBSET Seq(Tokens)
  BY PrefixesAreSequences DEF SInv, IInv, TreeInv
<1>2. PICK last \in E : \A f \in E : Len(last) <= Len(f)
  BY <1>1, ShortestNode
<1>3. ASSUME NEW e \in E \ {last}, StartsWith(last, e) PROVE FALSE
  <2>1. last \in Seq(Tokens) /\ e \in Seq(Tokens)
    BY <1>1
  <2>2. Len(e) <= Len(last) /\ Len(last) <= Len(e) /\ SubSeq(last, 1, Len(e)) = e
    BY <1>2, <1>3 DEF StartsWith
  <2>3. Len(e) = Len(last) /\ StartsWith(last, last) /\ SubSeq(last, 1, Len(last)) = last
    BY <2>1, <2>2, PrefixOrder DEF StartsWith
  <2> QED BY <2>2, <2>3
<1>4. LeafFirst(tree, E \ {last})
  BY <1>3 DEF LeafFirst
<1> QED BY <1>4

\* Every choice of nodes has a finite number of pages.
LEMMA GoneFinite ==
  ASSUME SInv, NEW E
  PROVE  /\ IsFiniteSet(PrefixesOf(tree, E)) /\ Cardinality(PrefixesOf(tree, E)) \in Nat
<1>1. PrefixesOf(tree, E) \subseteq Stored(tree) /\ IsFiniteSet(Stored(tree))
  BY DEF PrefixesOf, SInv, SizesMatch
<1> QED BY <1>1, FS_Subset, FS_CardinalityType

\* Of the sets of unlocked nodes that can be popped leaf by leaf and hold enough
\* pages, one with the fewest nodes is a choice of evict.
LEMMA EnoughIsChosen ==
  ASSUME SInv, NEW n \in 0..tree.evictable
  PROVE  EvictionChoices(tree, n) # {}
<1> DEFINE Gone(E) == Cardinality(PrefixesOf(tree, E))
           Enough == {E \in SUBSET Unlocked(tree) : LeafFirst(tree, E) /\ Gone(E) >= n}
<1>1. CASE n <= 0
  BY <1>1 DEF EvictionChoices
<1>2. CASE ~(n <= 0)
  <2>1. Unlocked(tree) \in Enough
    <3>1. PrefixesOf(tree, Unlocked(tree)) = Stored(tree) \ Held(tree)
      <4>1. ASSUME NEW k \in Stored(tree)
            PROVE  NodeOf(tree, k) \in Nodes(tree) /\ tree.ref[NodeOf(tree, k)] \in Nat
        BY NodeOfCovers, RefsAreCounts DEF SInv, IInv, TreeInv
      <4> QED BY <4>1 DEF PrefixesOf, Unlocked, Held, Locked
    <3>2. Gone(Unlocked(tree)) = tree.evictable
      BY <3>1 DEF SInv, SizesMatch
    <3>3. Gone(Unlocked(tree)) \in Nat
      BY GoneFinite
    <3>4. Gone(Unlocked(tree)) >= n
      BY <3>2, <3>3
    <3> QED BY <3>4, UnlockedBelow
  <2>2. IsFiniteSet(Unlocked(tree))
    <3>1. Unlocked(tree) \subseteq Stored(tree)
      BY PrefixesAreSequences DEF SInv, IInv, TreeInv, Unlocked
    <3> QED BY <3>1, FS_Subset DEF SInv, SizesMatch
  <2>3. \A E \in Enough : IsFiniteSet(E) /\ Cardinality(E) \in Nat
    BY <2>2, FS_Subset, FS_CardinalityType
  <2> DEFINE Sizes == {Cardinality(E) : E \in Enough}
  <2>4. Sizes \in SUBSET Nat /\ Sizes # {}
    BY <2>1, <2>3
  <2> HIDE DEF Sizes
  <2>5. PICK x \in Sizes : \A y \in Sizes : x <= y
    BY <2>4, LeastElement
  <2>6. PICK E \in Enough : \A F \in Enough : Cardinality(E) <= Cardinality(F)
    BY <2>5 DEF Sizes
  <2>7. E # {}
    <3> SUFFICES ASSUME E = {} PROVE FALSE
      OBVIOUS
    <3>1. PrefixesOf(tree, E) = {}
      BY DEF PrefixesOf
    <3>2. Gone(E) = 0
      BY <3>1, FS_EmptySet
    <3>3. Gone(E) >= n
      BY <2>6
    <3> QED BY <1>2, <3>2, <3>3
  <2>8. E \in SUBSET Nodes(tree) /\ E \in SUBSET Unlocked(tree) /\ LeafFirst(tree, E)
    BY <2>6 DEF Unlocked
  <2>9. PICK last \in E : LeafFirst(tree, E \ {last})
    BY <2>7, <2>8, LastLeaf
  <2>10. Gone(E \ {last}) < n
    <3> SUFFICES ASSUME ~(Gone(E \ {last}) < n) PROVE FALSE
      OBVIOUS
    <3>1. Gone(E \ {last}) \in Nat
      BY GoneFinite
    <3>2. E \ {last} \in Enough
      <4>1. Gone(E \ {last}) >= n
        BY <3>1
      <4> QED BY <2>8, <2>9, <4>1
    <3>3. IsFiniteSet(E) /\ Cardinality(E) \in Nat
      BY <2>3
    <3>4. Cardinality(E \ {last}) = Cardinality(E) - 1
      BY <3>3, FS_RemoveElement
    <3>5. Cardinality(E) <= Cardinality(E \ {last})
      BY <2>6, <3>2
    <3> QED BY <3>3, <3>4, <3>5
  <2>11. Gone(E) >= n
    BY <2>6
  <2>12. E \in EvictionChoices(tree, n)
    BY <1>2, <2>8, <2>9, <2>10, <2>11 DEF EvictionChoices
  <2> QED BY <2>12
<1> QED BY <1>1, <1>2

\* evict can always deliver the pages evictable_size promises: popping unlocked
\* leaves never runs out early ("Cannot evict enough cache" is never raised).
THEOREM EvictableAlwaysReachable == Spec => []EvictableIsReachable
<1>1. Spec => []SInv
  BY InitSizes, StepSizes, PTL DEF Spec
<1>2. SInv => EvictableIsReachable
  BY EnoughIsChosen DEF EvictableIsReachable
<1> QED BY <1>1, <1>2, PTL

-----------------------------------------------------------------------------
(* What available_size counts. *)

\* The pages that some request reads through its row.
UsedPages == UNION {ToSet(row[r]) : r \in Reqs}

\* available_size is the number of pages that no request uses: the admission control
\* can count on every page outside the rows, the cached ones included, and on no other.
AvailableIsUnused ==
    /\ IsFiniteSet(pool) /\ UsedPages \subseteq pool
    /\ Available(tree, free) = Cardinality(pool) - Cardinality(UsedPages)

\* A map that takes no value twice has as many values as arguments.
LEMMA AsManyValues ==
  ASSUME NEW S, IsFiniteSet(S), NEW f, \A x, y \in S : f[x] = f[y] => x = y
  PROVE  LET T == {f[x] : x \in S} IN IsFiniteSet(T) /\ Cardinality(T) = Cardinality(S)
<1> DEFINE T == {f[x] : x \in S}
           g == [x \in S |-> f[x]]
<1>1. g \in [S -> T]
  OBVIOUS
<1>2. g \in Injection(S, T)
  BY <1>1 DEF Injection, IsInjective
<1>3. g \in Surjection(S, T)
  BY <1>1 DEF Surjection
<1>4. ExistsBijection(S, T)
  BY <1>2, <1>3 DEF Bijection, ExistsBijection
<1> HIDE DEF T, g
<1>5. IsFiniteSet(T) /\ Cardinality(T) = Cardinality(S)
  BY <1>4, FS_Bijection
<1> QED BY <1>5 DEF T

\* A page of the tree is locked exactly when a request reads it in its prefix.
LEMMA LockedIsRead ==
  ASSUME PagesInv
  PROVE  {tree.page[k] : k \in Held(tree)} = UNION {Slice(row[r], 0, hit[r]) : r \in Reqs}
<1>1. /\ WellFormed(tree, Tokens) /\ HandlesIn(tree, Reqs, Handles)
      /\ RefsMatch(tree, Reqs, Handles)
      /\ ids \in [Reqs -> Seq(Tokens)] /\ hit \in [Reqs -> Nat]
  BY DEF PagesInv, IInv, TreeInv, ReqsInv
<1>2. ASSUME NEW k \in Held(tree)
      PROVE  \E r \in Reqs : tree.page[k] \in Slice(row[r], 0, hit[r])
  <2> DEFINE e == NodeOf(tree, k)
  <2>1. k \in Stored(tree) /\ tree.ref[e] > 0
    BY DEF Held, Locked
  <2>2. e \in Nodes(tree) /\ StartsWith(e, k)
    BY <1>1, <2>1, NodeOfCovers DEF Covers
  <2> HIDE DEF e
  <2>3. Holders(Reqs, Handles, e) # {}
    <3>1. tree.ref[e] = Cardinality(Holders(Reqs, Handles, e)) /\ tree.ref[e] # 0
      BY <1>1, <2>1, <2>2 DEF RefsMatch
    <3> QED BY <3>1, FS_EmptySet
  <2>4. PICK r \in Reqs : StartsWith(Handles[r], e)
    BY <2>3 DEF Holders
  <2> DEFINE s == ids[r]
             h == hit[r]
  <2>5. Handles[r] = Key(s, h) /\ s \in Seq(Tokens) /\ h \in Nat /\ Len(s) \in Nat
    BY <1>1 DEF Handles, HandleKey
  <2>6. h * PageSize <= Len(s) /\ h * PageSize \in Nat
    BY <2>5, PageArithmetic DEF PagesInv, IInv, ReqsInv
  <2> HIDE DEF s, h
  <2>7. /\ Key(s, h) \in Seq(Tokens) /\ Len(Key(s, h)) = h * PageSize
        /\ StartsWith(s, Key(s, h))
    BY <2>5, <2>6, KeyIsPrefix, KeysAreNested
  <2>8. k \in Whole(Tokens) /\ k \in Seq(Tokens) /\ e \in Seq(Tokens)
    BY <1>1, <2>1, <2>2, PrefixesAreSequences
  <2>9. StartsWith(Key(s, h), k) /\ StartsWith(s, k)
    BY <2>2, <2>4, <2>5, <2>7, <2>8, PrefixOrder
  <2>10. PICK j \in Nat \ {0} : j <= FullPages(Len(s)) /\ k = Key(s, j)
    BY <2>5, <2>8, <2>9, WholePrefixIsKey
  <2>11. Len(k) = j * PageSize /\ Len(k) <= h * PageSize
    BY <2>5, <2>7, <2>9, <2>10, KeysApart DEF StartsWith
  <2>12. j <= h
    BY <2>5, <2>11, PageArithmetic
  <2>13. j \in 1..hit[r] /\ j \in (0 + 1)..hit[r]
    BY <2>5, <2>12 DEF h
  <2>14. row[r][j] = tree.page[k]
    BY <2>10, <2>13 DEF s, PagesInv, RowsInv
  <2> QED BY <2>13, <2>14 DEF Slice
<1>3. ASSUME NEW r \in Reqs, NEW i \in 1..hit[r]
      PROVE  \E k \in Held(tree) : row[r][i] = tree.page[k]
  <2> DEFINE k == Key(ids[r], i)
             e == NodeOf(tree, k)
  <2>1. k \in Stored(tree) /\ row[r][i] = tree.page[k]
    BY HandleStored DEF PagesInv, RowsInv
  <2>2. e \in Nodes(tree) /\ \A f \in Nodes(tree) : StartsWith(f, k) => StartsWith(f, e)
    BY <1>1, <2>1, NodeOfCovers DEF Covers
  <2>3. StartsWith(Handles[r], k) /\ Handles[r] \in Nodes(tree)
    <3>1. /\ hit[r] \in Nat /\ i \in Nat /\ i <= hit[r] /\ hit[r] \in 1..hit[r]
          /\ hit[r] * PageSize <= Len(ids[r]) /\ ids[r] \in Seq(Tokens)
          /\ Handles[r] = Key(ids[r], hit[r])
      BY <1>1 DEF Handles, HandleKey, PagesInv, IInv, ReqsInv
    <3>2. StartsWith(Handles[r], k)
      BY <3>1, KeysAreNested
    <3>3. Handles[r] \in Stored(tree)
      BY <3>1, HandleStored DEF PagesInv
    <3>4. Handles[r] # Root
      BY <1>1, <3>3, PrefixesAreSequences
    <3> QED BY <1>1, <3>2, <3>4 DEF HandlesIn
  <2>4. e \in OnPath(tree, Handles[r])
    BY <2>2, <2>3 DEF OnPath
  <2> HIDE DEF e, k
  <2>5. tree.ref[e] > 0
    BY <1>1, <2>4, RefsAreCounts
  <2>6. k \in Held(tree)
    BY <2>1, <2>5 DEF e, Held, Locked
  <2> QED BY <2>1, <2>6
<1>4. \A r \in Reqs : (0 + 1)..hit[r] = 1..hit[r]
  BY <1>1
<1> QED BY <1>2, <1>3, <1>4 DEF Slice

\* A row is the prefix it reads in the tree and the request's own pages.
LEMMA RowParts ==
  ASSUME PagesInv, NEW r \in Reqs
  PROVE  /\ ToSet(row[r]) = Slice(row[r], 0, hit[r]) \cup OwnPages[r]
         /\ Slice(row[r], 0, hit[r]) \subseteq TreePages
<1>1. /\ hit[r] \in Nat /\ Len(row[r]) \in Nat /\ cached[r] \in Nat
      /\ Len(row[r]) = PagesFor(cached[r]) /\ hit[r] <= FullPages(cached[r])
  BY ReqTypes DEF PagesInv, RowsInv
<1>2. hit[r] <= Len(row[r])
  <2>1. /\ FullPages(cached[r]) \in Nat /\ PagesFor(cached[r]) \in Nat
        /\ FullPages(cached[r]) <= PagesFor(cached[r])
    BY <1>1, PageBounds
  <2> QED BY <1>1, <2>1
<1>3. Slice(row[r], 0, Len(row[r])) = Slice(row[r], 0, hit[r]) \cup OwnPages[r]
  <2>1. 0 \in Nat /\ 0 <= hit[r] /\ OwnPages[r] = Slice(row[r], hit[r], Len(row[r]))
    BY <1>1 DEF OwnPages
  <2> DEFINE w == row[r]
             b == hit[r]
             c == Len(w)
  <2>2. 0 \in Nat /\ b \in Nat /\ c \in Nat /\ 0 <= b /\ b <= c
    BY <1>1, <1>2, <2>1
  <2> HIDE DEF w, b, c
  <2>3. Slice(w, 0, c) = Slice(w, 0, b) \cup Slice(w, b, c)
    <3>1. (0 + 1)..c = ((0 + 1)..b) \cup ((b + 1)..c)
      BY <2>2
    <3> QED BY <3>1, Zenon DEF Slice
  <2> QED BY <2>1, <2>3 DEF w, b, c
<1>4. ToSet(row[r]) = Slice(row[r], 0, hit[r]) \cup OwnPages[r]
  BY <1>3, ReqTypes, SliceAll
<1>5. ASSUME NEW i \in 1..hit[r] PROVE row[r][i] \in TreePages
  <2>1. Key(ids[r], i) \in Stored(tree) /\ row[r][i] = tree.page[Key(ids[r], i)]
    BY HandleStored DEF PagesInv, RowsInv
  <2> QED BY <2>1 DEF TreePages
<1>6. (0 + 1)..hit[r] = 1..hit[r]
  BY <1>1
<1> QED BY <1>4, <1>5, <1>6 DEF Slice

\* The free list and the unlocked pages of the tree are the pages no row names.
LEMMA UnusedPages ==
  ASSUME PagesInv
  PROVE  LET open == {tree.page[k] : k \in Stored(tree) \ Held(tree)} IN
         /\ UsedPages \subseteq pool
         /\ pool \ UsedPages = FreePages \cup open
         /\ FreePages \cap open = {}
<1> DEFINE open   == {tree.page[k] : k \in Stored(tree) \ Held(tree)}
           locked == {tree.page[k] : k \in Held(tree)}
<1>1. /\ row \in [Reqs -> Seq(pool)] /\ hit \in [Reqs -> Nat] /\ free \in Seq(pool)
      /\ \A k \in Stored(tree) : tree.page[k] \in pool
      /\ \A k, l \in Stored(tree) : tree.page[k] = tree.page[l] => k = l
  BY DEF PagesInv, PoolInv, OnceInv, IInv, ReqsInv
<1>2. Held(tree) \subseteq Stored(tree)
  BY DEF Held
<1>3. TreePages = open \cup locked /\ open \cap locked = {} /\ open \subseteq pool
  BY <1>1, <1>2 DEF TreePages
<1>4. FreePages \subseteq pool
  BY <1>1, SliceAll DEF FreePages
<1>5. \A r \in Reqs : ToSet(row[r]) = Slice(row[r], 0, hit[r]) \cup OwnPages[r]
  BY RowParts
<1>6. UsedPages = locked \cup UNION {OwnPages[r] : r \in Reqs}
  <2>1. UNION {Slice(row[r], 0, hit[r]) : r \in Reqs} = locked
    BY LockedIsRead
  <2> HIDE DEF locked
  <2> QED BY <1>5, <2>1 DEF UsedPages
<1>7. UsedPages \subseteq pool
  <2>1. \A r \in Reqs : ToSet(row[r]) \subseteq pool
    BY <1>1, SliceAll
  <2> QED BY <2>1 DEF UsedPages
<1>8. Apart(FreePages, TreePages, OwnPages) /\ Covered(pool, FreePages, TreePages, OwnPages)
  BY DEF PagesInv
<1> HIDE DEF open, locked
<1>9. pool \ UsedPages = FreePages \cup open /\ FreePages \cap open = {}
  BY <1>3, <1>4, <1>6, <1>8 DEF Apart, Covered
<1> QED BY <1>7, <1>9 DEF open

\* Counting them: evictable_size counts the one part, the free list the other.
LEMMA AvailableCounts ==
  ASSUME PagesInv, SizesMatch(tree)
  PROVE  AvailableIsUnused
<1> DEFINE open == {tree.page[k] : k \in Stored(tree) \ Held(tree)}
<1>1. /\ UsedPages \subseteq pool /\ pool \ UsedPages = FreePages \cup open
      /\ FreePages \cap open = {}
  BY UnusedPages
<1>2. IsFiniteSet(pool)
  BY KVCacheAssumption, FS_Subset DEF PagesInv, PoolInv
<1>3. IsFiniteSet(FreePages) /\ Cardinality(FreePages) = Len(free)
  <2>1. /\ free \in Seq(pool) /\ Len(free) \in Nat /\ OneToOne(free, 0, Len(free))
    BY DEF PagesInv, PoolInv, OnceInv
  <2>2. (0 + 1)..Len(free) = 1..Len(free) /\ 1 \in Int /\ Len(free) \in Int
    BY <2>1
  <2>3. IsFiniteSet(1..Len(free)) /\ Cardinality(1..Len(free)) = Len(free)
    <3>1. /\ IsFiniteSet(1..Len(free))
          /\ Cardinality(1..Len(free)) = IF 1 > Len(free) THEN 0 ELSE Len(free) - 1 + 1
      BY <2>2, FS_Interval
    <3> QED BY <2>1, <3>1
  <2>4. \A x, y \in 1..Len(free) : free[x] = free[y] => x = y
    BY <2>1, <2>2 DEF OneToOne
  <2>5. FreePages = {free[x] : x \in 1..Len(free)}
    BY <2>2 DEF FreePages, Slice
  <2> QED BY <2>3, <2>4, <2>5, AsManyValues
<1>4. IsFiniteSet(open) /\ Cardinality(open) = tree.evictable
  <2> DEFINE S == Stored(tree) \ Held(tree)
             f == tree.page
  <2>1. IsFiniteSet(S) /\ Cardinality(S) = tree.evictable
    BY FS_Subset DEF SizesMatch
  <2>2. \A x, y \in S : f[x] = f[y] => x = y
    BY DEF PagesInv, OnceInv
  <2>3. open = {f[x] : x \in S}
    OBVIOUS
  <2> HIDE DEF S, f, open
  <2> QED BY <2>1, <2>2, <2>3, AsManyValues
<1> HIDE DEF open
<1>5. /\ Cardinality(FreePages \cup open) = Cardinality(FreePages) + Cardinality(open)
      /\ Cardinality(FreePages) \in Nat /\ Cardinality(open) \in Nat
  BY <1>1, <1>3, <1>4, CountApart
<1>6. IsFiniteSet(UsedPages) /\ IsFiniteSet(pool \ UsedPages)
  BY <1>1, <1>2, FS_Subset
<1>7. Cardinality(pool) = Cardinality(UsedPages) + Cardinality(pool \ UsedPages)
      /\ Cardinality(UsedPages) \in Nat
  <2>1. UsedPages \cap (pool \ UsedPages) = {} /\ UsedPages \cup (pool \ UsedPages) = pool
    BY <1>1
  <2> QED BY <1>6, <2>1, CountApart
<1>8. Cardinality(pool \ UsedPages) = Len(free) + tree.evictable
      /\ Len(free) \in Nat /\ tree.evictable \in Nat
  BY <1>1, <1>3, <1>4, <1>5
<1>9. Available(tree, free) = Cardinality(pool) - Cardinality(UsedPages)
  BY <1>7, <1>8 DEF Available
<1> QED BY <1>1, <1>2, <1>9 DEF AvailableIsUnused

\* available_size, which is only ever adjusted by differences, is in every reachable
\* state the number of pages that no request reads: what the admission control counts
\* on (PrefillAdder) is what the rows leave.
THEOREM AvailableAlwaysUnused == Spec => []AvailableIsUnused
<1>1. Spec => []SInv
  BY InitSizes, StepSizes, PTL DEF Spec
<1>2. PagesInv /\ SInv => AvailableIsUnused
  BY AvailableCounts DEF SInv
<1> QED BY <1>1, <1>2, PagesAlways, PTL

\* A cache that no request uses is whole again: every page is free or in the tree, and
\* nothing is locked (check_integrity in run_when_idle).
LEMMA UnusedIsWhole ==
  ASSUME PagesInv, SizesMatch(tree), Active = {}
  PROVE  Len(free) + Cardinality(Stored(tree)) = Cardinality(pool) /\ tree.protected = 0
<1>1. UsedPages = {}
  <2> SUFFICES ASSUME NEW r \in Reqs PROVE ToSet(row[r]) = {}
    BY DEF UsedPages
  <2>1. row[r] \in Seq(pool) /\ Len(row[r]) = PagesFor(cached[r]) /\ cached[r] = 0
    BY ReqTypes DEF PagesInv, RowsInv, Active
  <2>2. PagesFor(0) = 0
    BY PageSizeAssumption DEF PagesFor
  <2> QED BY <2>1, <2>2 DEF ToSet
<1>2. {tree.page[k] : k \in Held(tree)} = {}
  <2>1. \A r \in Reqs : hit[r] = 0 /\ (0 + 1)..0 = {}
    BY DEF Active, PagesInv, IInv, ReqsInv
  <2> QED BY <2>1, LockedIsRead DEF Slice
<1>3. Held(tree) = {}
  BY <1>2
<1>4. /\ IsFiniteSet(Stored(tree)) /\ tree.evictable = Cardinality(Stored(tree))
      /\ tree.protected = 0
  <2>1. Stored(tree) \ Held(tree) = Stored(tree)
    BY <1>3
  <2> QED BY <1>3, <2>1, FS_EmptySet DEF SizesMatch
<1>5. tree.evictable + Len(free) = Cardinality(pool) - 0 /\ Cardinality({}) = 0
  BY <1>1, AvailableCounts, FS_EmptySet DEF AvailableIsUnused, Available
<1>6. Cardinality(pool) \in Nat /\ Len(free) \in Nat /\ Cardinality(Stored(tree)) \in Nat
  BY <1>4, AvailableCounts, FS_CardinalityType, ReqTypes DEF AvailableIsUnused
<1> QED BY <1>4, <1>5, <1>6

\* A re-pointed row reads the tree's page where a duplicate was, and is the row elsewhere.
LEMMA RepointedPages ==
  ASSUME PagesInv, NEW r \in Reqs
  PROVE  LET m == Matched(tree, Computed(r))
             w == Repointed(r, m, Published(r)) IN
         /\ Len(w) = Len(row[r]) /\ w \in Seq(pool)
         /\ m \in Nat /\ hit[r] \in Nat /\ hit[r] <= m /\ m <= Len(row[r])
         /\ \A i \in 1..Len(row[r]) : i \notin (hit[r] + 1)..m => w[i] = row[r][i]
<1> DEFINE m == Matched(tree, Computed(r))
           p == Published(r)
           w == Repointed(r, m, p)
           L == Len(row[r])
<1>1. /\ m \in Nat /\ hit[r] \in Nat /\ L \in Nat /\ hit[r] <= m /\ m <= L
  <2>1. /\ m \in Nat /\ FullPages(cached[r]) \in Nat /\ hit[r] \in Nat /\ L \in Nat
        /\ hit[r] <= m /\ m <= FullPages(cached[r]) /\ FullPages(cached[r]) <= L
    BY MatchPastHandle DEF PagesInv
  <2> QED BY <2>1
<1>2. w \in Seq(pool) /\ Len(w) = L
  BY RepointedRow
<1>3. DOMAIN row[r] = 1..L
  BY ReqTypes, LenProperties
<1>4. w = [i \in 1..L |-> IF i \in (hit[r] + 1)..m THEN p.page[Key(ids[r], i)] ELSE row[r][i]]
  BY <1>3 DEF Repointed
<1> HIDE DEF m, p, w, L
<1>5. \A i \in 1..L : i \notin (hit[r] + 1)..m => w[i] = row[r][i]
  BY <1>4
<1> QED BY <1>1, <1>2, <1>5 DEF m, p, w, L

\* What is used is finite.
LEMMA UsedFinite ==
  ASSUME PagesInv
  PROVE  IsFiniteSet(UsedPages) /\ Cardinality(UsedPages) \in Nat
<1>1. UsedPages \subseteq pool
  BY UnusedPages
<1>2. IsFiniteSet(pool)
  BY KVCacheAssumption, FS_Subset DEF PagesInv, PoolInv
<1> QED BY <1>1, <1>2, FS_Subset, FS_CardinalityType

\* A commit uses no more pages than were used: each duplicate is exchanged for one page.
LEMMA CommitUses ==
  ASSUME PagesInv, NEW r \in Reqs, CacheReqUnfinished(r)
  PROVE  Cardinality(UsedPages') <= Cardinality(UsedPages)
<1>1. IsFiniteSet(UsedPages) /\ Cardinality(UsedPages) \in Nat
  BY UsedFinite
<1>2. CASE ~Shared(r)
  <2>1. UsedPages' = UsedPages
    BY <1>2 DEF CacheReqUnfinished, UsedPages
  <2> QED BY <1>1, <2>1
<1>3. CASE Shared(r)
  <2> DEFINE m == Matched(tree, Computed(r))
             w == Repointed(r, m, Published(r))
             h == hit[r]
             L == Len(row[r])
             D == Slice(row[r], h, m)
             at(x) == CHOOSE i \in (h + 1)..m : row[r][i] = x
             g == [x \in UsedPages |-> IF x \in D THEN w[at(x)] ELSE x]
  <2>1. /\ Len(w) = L /\ w \in Seq(pool)
        /\ m \in Nat /\ h \in Nat /\ L \in Nat /\ h <= m /\ m <= L
        /\ \A i \in 1..L : i \notin (h + 1)..m => w[i] = row[r][i]
    BY RepointedPages, ReqTypes
  <2>2. row' = [row EXCEPT ![r] = w]
    BY <1>3 DEF CacheReqUnfinished
  <2>3. /\ row'[r] = w /\ \A q \in Reqs : q # r => row'[q] = row[q]
    BY <2>2, ReqTypes
  <2>4. /\ ToSet(row[r]) = {row[r][i] : i \in 1..L} /\ ToSet(w) = {w[i] : i \in 1..L}
    BY <2>1, ReqTypes, LenProperties DEF ToSet
  <2>5. /\ OneToOne(row[r], h, L) /\ OneToOne(row[r], h, m)
        /\ D \subseteq OwnPages[r]
    <3>1. OneToOne(row[r], h, L)
      BY DEF PagesInv, OnceInv
    <3>2. OneToOne(row[r], h, m) /\ D \subseteq OwnPages[r]
      BY OwnParts
    <3> QED BY <3>1, <3>2
  <2>6. /\ \A q \in Reqs : q # r => D \cap ToSet(row[q]) = {}
        /\ \A i \in 1..h : row[r][i] \notin D
    <3>1. \A q \in Reqs : ToSet(row[q]) \subseteq TreePages \cup OwnPages[q]
      BY RowParts
    <3>2. \A i \in 1..h : row[r][i] \in TreePages
      <4>1. \A i \in 1..hit[r] : i \in (0 + 1)..hit[r]
        BY <2>1
      <4> QED BY <4>1, RowParts DEF Slice
    <3>3. Apart(FreePages, TreePages, OwnPages)
      BY DEF PagesInv
    <3> HIDE DEF D
    <3> QED BY <2>5, <3>1, <3>2, <3>3 DEF Apart
  <2>7. \A q \in Reqs : ToSet(row[q]) \subseteq UsedPages /\ ToSet(row'[q]) \subseteq UsedPages'
    BY DEF UsedPages
  <2>8. \A i \in (h + 1)..m : i \in 1..L /\ row[r][i] \in D
    BY <2>1 DEF Slice
  <2>9. \A i \in (h + 1)..m : at(row[r][i]) = i
    <3> SUFFICES ASSUME NEW i \in (h + 1)..m PROVE at(row[r][i]) = i
      OBVIOUS
    <3>1. at(row[r][i]) \in (h + 1)..m /\ row[r][at(row[r][i])] = row[r][i]
      OBVIOUS
    <3> QED BY <2>5, <3>1 DEF OneToOne
  <2>10. \A x \in D : \E i \in (h + 1)..m : x = row[r][i]
    BY DEF Slice
  <2> HIDE DEF m, w, h, L, D, at
  <2>11. g \in [UsedPages -> UsedPages']
    <3> SUFFICES ASSUME NEW x \in UsedPages
                 PROVE  (IF x \in D THEN w[at(x)] ELSE x) \in UsedPages'
      OBVIOUS
    <3>1. CASE x \in D
      <4>1. PICK i \in (h + 1)..m : x = row[r][i]
        BY <2>10, <3>1
      <4>2. at(x) = i /\ i \in 1..L
        BY <2>8, <2>9, <4>1
      <4> QED BY <2>3, <2>4, <2>7, <3>1, <4>2
    <3>2. CASE x \notin D
      <4>1. PICK q \in Reqs : x \in ToSet(row[q])
        BY DEF UsedPages
      <4>2. CASE q # r
        BY <2>3, <2>7, <3>2, <4>1, <4>2
      <4>3. CASE q = r
        <5>1. PICK i \in 1..L : x = row[r][i]
          BY <2>4, <4>1, <4>3
        <5>2. i \notin (h + 1)..m
          BY <2>8, <3>2, <5>1
        <5>3. w[i] = x
          BY <2>1, <5>1, <5>2
        <5> QED BY <2>3, <2>4, <2>7, <3>2, <5>3
      <4> QED BY <4>2, <4>3
    <3> QED BY <3>1, <3>2
  <2>12. ASSUME NEW y \in UsedPages' PROVE \E x \in UsedPages : g[x] = y
    <3>1. PICK q \in Reqs : y \in ToSet(row'[q])
      BY DEF UsedPages
    <3>2. CASE q # r
      <4>1. y \in ToSet(row[q]) /\ y \notin D /\ y \in UsedPages
        BY <2>3, <2>6, <2>7, <3>1, <3>2
      <4> QED BY <4>1
    <3>3. CASE q = r
      <4>1. PICK i \in 1..L : y = w[i]
        BY <2>3, <2>4, <3>1, <3>3
      <4>2. row[r][i] \in UsedPages
        BY <2>4, <2>7
      <4>3. CASE i \in (h + 1)..m
        BY <2>8, <2>9, <4>1, <4>2, <4>3
      <4>4. CASE i \notin (h + 1)..m
        <5>1. y = row[r][i]
          BY <2>1, <4>1, <4>4
        <5>2. y \notin D
          <6>1. CASE i \in 1..h
            BY <2>6, <5>1, <6>1
          <6>2. CASE i \notin 1..h
            <7>1. i \in (h + 1)..L
              BY <2>1, <6>2
            <7>2. \A j \in (h + 1)..m : j \in (h + 1)..L /\ j # i
              BY <2>1, <4>4
            <7>3. \A j \in (h + 1)..m : row[r][j] # row[r][i]
              BY <2>5, <7>1, <7>2 DEF OneToOne
            <7> QED BY <2>10, <5>1, <7>3
          <6> QED BY <6>1, <6>2
        <5> QED BY <4>2, <5>1, <5>2
      <4> QED BY <4>3, <4>4
    <3> QED BY <3>2, <3>3
  <2> HIDE DEF g
  <2>13. g \in Surjection(UsedPages, UsedPages')
    BY <2>11, <2>12 DEF Surjection
  <2> QED BY <1>1, <2>13, FS_Surjection
<1> QED BY <1>2, <1>3

\* The slots of the rows a batch fills.
Filled(B) == UNION {{r} \X ((PagesFor(cached[r]) + 1)..PagesFor(cached'[r])) : r \in B}

\* A batch uses at most one page more for each slot it fills.
LEMMA ExtendUses ==
  ASSUME PagesInv, NEW B \in SUBSET CanForward, Extend(B), IInv'
  PROVE  /\ IsFiniteSet(Filled(B))
         /\ Cardinality(UsedPages') <= Cardinality(UsedPages) + Cardinality(Filled(B))
<1>1. PICK dev \in ForwardLens(B), tok \in [B -> Tokens] : ExtendTo(dev, tok)
  BY DEF Extend
<1>2. PagesInv' /\ \A r \in Reqs : \A i \in 1..Len(row[r]) : row'[r][i] = row[r][i]
  BY ExtendPages
<1>3. DOMAIN dev = B /\ B \subseteq Reqs /\ IsFiniteSet(NewSlots(dev))
  BY BatchSlots
<1>4. cached' = [r \in Reqs |-> IF r \in B THEN dev[r] ELSE cached[r]]
  BY <1>1, <1>3 DEF ExtendTo
<1>5. NewSlots(dev) = Filled(B)
  <2>1. \A r \in B : cached'[r] = dev[r]
    BY <1>3, <1>4
  <2> QED BY <1>3, <2>1 DEF NewSlots, Filled
<1> DEFINE W == Filled(B)
           f == [s \in W |-> row'[s[1]][s[2]]]
           N == {f[s] : s \in W}
<1>6. IsFiniteSet(W)
  BY <1>3, <1>5
<1>7. UsedPages' \subseteq UsedPages \cup N
  <2> SUFFICES ASSUME NEW r \in Reqs, NEW p \in ToSet(row'[r]) PROVE p \in UsedPages \cup N
    BY DEF UsedPages
  <2>1. /\ row[r] \in Seq(pool) /\ row'[r] \in Seq(pool') /\ Len(row[r]) \in Nat
        /\ DOMAIN row[r] = 1..Len(row[r]) /\ DOMAIN row'[r] = 1..Len(row'[r])
    BY <1>2, LenProperties DEF PagesInv, PoolInv
  <2>2. Len(row[r]) = PagesFor(cached[r]) /\ Len(row'[r]) = PagesFor(cached'[r])
    BY <1>2 DEF PagesInv, RowsInv
  <2>3. PICK i \in 1..Len(row'[r]) : p = row'[r][i]
    BY <2>1 DEF ToSet
  <2>4. CASE i <= Len(row[r])
    <3>1. i \in 1..Len(row[r])
      BY <2>1, <2>4
    <3>2. p = row[r][i]
      BY <1>2, <2>3, <3>1
    <3> QED BY <2>1, <3>1, <3>2 DEF UsedPages, ToSet
  <2>5. CASE ~(i <= Len(row[r]))
    <3>1. i \in (PagesFor(cached[r]) + 1)..PagesFor(cached'[r])
      BY <2>1, <2>2, <2>5
    <3>2. r \in B
      <4>1. PagesFor(cached[r]) # PagesFor(cached'[r])
        BY <2>1, <2>2, <3>1
      <4> QED BY <1>4, <4>1
    <3>3. <<r, i>> \in W
      BY <3>1, <3>2 DEF Filled
    <3> HIDE DEF W
    <3>4. f[<<r, i>>] = p
      BY <2>3, <3>3
    <3> QED BY <3>3, <3>4
  <2> QED BY <2>4, <2>5
<1>8. IsFiniteSet(N) /\ Cardinality(N) <= Cardinality(W)
  <2> HIDE DEF W
  <2>1. f \in Surjection(W, N)
    BY DEF Surjection
  <2> QED BY <1>6, <2>1, FS_Surjection
<1> HIDE DEF N
<1>9. IsFiniteSet(UsedPages) /\ Cardinality(UsedPages) \in Nat /\ Cardinality(W) \in Nat
  BY <1>6, UsedFinite, FS_CardinalityType
<1>10. /\ IsFiniteSet(UsedPages \cup N)
       /\ Cardinality(UsedPages \cup N) <= Cardinality(UsedPages) + Cardinality(N)
  <2>1. IsFiniteSet(UsedPages \cap N) /\ Cardinality(UsedPages \cap N) \in Nat
    BY <1>8, FS_Subset, FS_CardinalityType
  <2>2. Cardinality(N) \in Nat
    BY <1>8, FS_CardinalityType
  <2>3. /\ IsFiniteSet(UsedPages \cup N)
        /\ Cardinality(UsedPages \cup N)
             = Cardinality(UsedPages) + Cardinality(N) - Cardinality(UsedPages \cap N)
    BY <1>8, <1>9, FS_Union
  <2> QED BY <1>9, <2>1, <2>2, <2>3
<1>11. /\ Cardinality(UsedPages') <= Cardinality(UsedPages \cup N)
       /\ Cardinality(UsedPages') \in Nat /\ Cardinality(UsedPages \cup N) \in Nat
       /\ Cardinality(N) \in Nat
  BY <1>7, <1>8, <1>10, FS_Subset, FS_CardinalityType
<1> QED BY <1>6, <1>8, <1>9, <1>10, <1>11

-----------------------------------------------------------------------------
(* The types. *)

\* ref_count is a map on the nodes.
CountsMap(t) == t.ref = [e \in Nodes(t) |-> t.ref[e]]

\* A walk keeps it one, whether it splits a node or not.
LEMMA WalkCounts ==
  ASSUME NEW V, NEW t, WellFormed(t, V), NEW s \in Seq(V), CountsMap(t)
  PROVE  CountsMap(Walk(t, s))
<1> DEFINE k == Key(s, Matched(t, s))
           g == [e \in Nodes(t) \cup {k} |-> IF e = k THEN InheritedRef(t, k) ELSE t.ref[e]]
<1>1. Walk(t, s) = IF k = Root \/ k \in Nodes(t) THEN t ELSE [t EXCEPT !.ref = g]
  BY DEF Walk, Split
<1>2. g = [e \in DOMAIN g |-> g[e]]
  OBVIOUS
<1> HIDE DEF k, g
<1>3. [t EXCEPT !.ref = g].ref = g
  BY DEF WellFormed
<1> QED BY <1>1, <1>2, <1>3 DEF CountsMap, Nodes

\* So does an insertion.
LEMMA InsertCounts ==
  ASSUME NEW V, NEW t, WellFormed(t, V), NEW s \in Seq(V), NEW v, CountsMap(t)
  PROVE  CountsMap(Insert(t, s, v))
<1> DEFINE w == Walk(t, s)
           n == FullPages(Len(s))
           fresh == {Key(s, i) : i \in (Matched(t, s) + 1)..n}
           pg == [k \in Stored(w) \cup fresh |->
                     IF k \in fresh THEN v[Len(k) \div PageSize] ELSE w.page[k]]
           rf == [e \in Nodes(w) \cup {Key(s, n)} |->
                     IF e = Key(s, n) THEN 0 ELSE w.ref[e]]
           ev == w.evictable + (n - Matched(t, s))
<1>1. CountsMap(w) /\ WellFormed(w, V)
  BY WalkCounts, WalkFields
<1>2. Insert(t, s, v) = IF Matched(t, s) = n THEN w
                        ELSE [w EXCEPT !.page = pg, !.ref = rf, !.evictable = ev]
  BY DEF Insert
<1>3. rf = [e \in DOMAIN rf |-> rf[e]]
  OBVIOUS
<1>4. w = [page |-> w.page, ref |-> w.ref,
           evictable |-> w.evictable, protected |-> w.protected]
  BY <1>1 DEF WellFormed
<1> HIDE DEF w, pg, rf, ev, n
<1>5. [w EXCEPT !.page = pg, !.ref = rf, !.evictable = ev].ref = rf
  BY <1>4
<1> QED BY <1>1, <1>2, <1>3, <1>5 DEF CountsMap, Nodes

\* Locks, unlocks and evictions build the map anew.
LEMMA CountedCounts ==
  ASSUME NEW V, NEW t, WellFormed(t, V), NEW k, NEW E
  PROVE  CountsMap(Lock(t, k)) /\ CountsMap(Unlock(t, k)) /\ CountsMap(RemoveNodes(t, E))
<1>1. /\ Lock(t, k).ref = Counted(t, k, 1) /\ Unlock(t, k).ref = Counted(t, k, -1)
      /\ RemoveNodes(t, E).ref = [e \in Nodes(t) \ E |-> t.ref[e]]
  BY DEF WellFormed, Lock, Unlock, RemoveNodes
<1>2. \A d \in Int : Counted(t, k, d) = [e \in DOMAIN Counted(t, k, d) |-> Counted(t, k, d)[e]]
  BY DEF Counted
<1>3. LET g == [e \in Nodes(t) \ E |-> t.ref[e]] IN g = [e \in DOMAIN g |-> g[e]]
  OBVIOUS
<1>4. 1 \in Int /\ -1 \in Int
  OBVIOUS
<1> QED BY <1>1, <1>2, <1>3, <1>4 DEF CountsMap, Nodes

\* The invariant that gives the type invariant: the pages and the rows, the
\* sizes, and the map of the counts.
TInv == PagesInv /\ SInv /\ CountsMap(tree)

\* At the start the tree is empty.
LEMMA InitTypes == Init => TInv
<1>1. Init => CountsMap(tree)
  BY DEF Init, EmptyTree, CountsMap, Nodes
<1> QED BY <1>1, InitPages, InitSizes DEF TInv

\* No operation leaves a tree whose counts are not a map on its nodes.
LEMMA StepTypes == TInv /\ [Next]_vars => TInv'
<1> SUFFICES ASSUME TInv, [Next]_vars PROVE CountsMap(tree')
  BY StepPages, StepSizes DEF TInv, CountsMap, Nodes
<1>2. WellFormed(tree, Tokens) /\ CountsMap(tree) /\ SInv /\ IInv
  BY DEF TInv, SInv, IInv, TreeInv
<1>3. ASSUME NEW r \in Reqs PROVE CountsMap(Published(r)) /\ WellFormed(Published(r), Tokens)
  <2>1. Computed(r) \in Seq(Tokens)
    BY <1>2, ComputedFacts
  <2>2. WellFormed(Insert(tree, Computed(r), row[r]), Tokens)
    BY <1>2, <2>1, InsertKeeps DEF IInv, TreeInv
  <2>3. WellFormed(Published(r), Tokens)
    <3> DEFINE g == [q \in Reqs |-> IF q = r THEN Root ELSE Handles[q]]
    <3>1. \A q \in Reqs : g[q] = IF q = r THEN Root ELSE Handles[q]
      OBVIOUS
    <3> HIDE DEF g
    <3> QED BY <1>2, <3>1, PublishedKeeps
  <2> QED BY <2>2, <2>3, CountedCounts DEF Published
<1>4. ASSUME NEW r \in Reqs, NEW s \in Prompts
      PROVE  CountsMap(Walk(tree, MatchIds(r, s))) /\ WellFormed(Walk(tree, MatchIds(r, s)), Tokens)
  BY <1>2, MatchIdsFacts, WalkCounts, WalkFields
<1>5. ASSUME NEW r \in Reqs, Admit(r) PROVE CountsMap(tree')
  <2>1. PICK s \in Prompts : AdmitReq(r, s)
    BY <1>5 DEF Admit
  <2>2. tree' = Lock(Walk(tree, MatchIds(r, s)), Key(s, Matched(tree, MatchIds(r, s))))
    BY <2>1 DEF AdmitReq
  <2> QED BY <1>4, <2>2, CountedCounts
<1>6. ASSUME NEW r \in Reqs, Refuse(r) PROVE CountsMap(tree')
  BY <1>4, <1>6 DEF Refuse
<1>7. ASSUME NEW r \in Reqs, Commit(r) PROVE CountsMap(tree')
  <2>1. \/ tree' = Lock(Published(r), Key(ids[r], FullPages(cached[r])))
        \/ tree' = Unlock(tree, HandleKey(r))
    BY <1>7 DEF Commit, CacheReqUnfinished
  <2> QED BY <1>2, <1>3, <2>1, CountedCounts
<1>8. ASSUME NEW r \in Reqs, Finish(r) PROVE CountsMap(tree')
  <2>1. tree' = Published(r) \/ tree' = Unlock(tree, HandleKey(r))
    BY <1>8 DEF Finish, CacheReqFinished
  <2> QED BY <1>2, <1>3, <2>1, CountedCounts
<1>9. ASSUME NEW B \in (SUBSET CanForward) \ {{}}, Extend(B) PROVE CountsMap(tree')
  <2>1. PICK dev \in ForwardLens(B), tok \in [B -> Tokens] : ExtendTo(dev, tok)
    BY <1>9 DEF Extend
  <2>2. \E E : tree' = IF E = {} THEN tree ELSE RemoveNodes(tree, E)
    BY <2>1 DEF ExtendTo, AllocatePaged
  <2> QED BY <1>2, <2>2, CountedCounts
<1>10. CASE Rebuild
  BY <1>10 DEF Rebuild, Reset, RebuiltTree, EmptyTree, CountsMap, Nodes
<1>11. CASE UNCHANGED vars
  BY <1>2, <1>11 DEF vars, poolVars
<1> QED BY <1>5, <1>6, <1>7, <1>8, <1>9, <1>10, <1>11 DEF Next

\* The variables keep their types, and a row always has a page for every started
\* page of computed tokens: no allocation, commit or release leaves a request
\* with a row that is too short, or the tree with a page outside the pool.
THEOREM TypeAlwaysOK == Spec => []TypeOK
<1>1. Spec => []TInv
  BY InitTypes, StepTypes, PTL DEF Spec
<1>2. TInv => TypeOK
  <2> SUFFICES ASSUME TInv PROVE TypeOK
    OBVIOUS
  <2>1. tree.ref \in [Nodes(tree) -> Nat]
    <3>1. \A e \in Nodes(tree) : tree.ref[e] \in Nat
      BY RefsAreCounts DEF TInv, SInv, IInv, TreeInv
    <3> QED BY <3>1 DEF TInv, CountsMap
  <2>2. tree.evictable \in Nat /\ tree.protected \in Nat
    <3>1. IsFiniteSet(Stored(tree) \ Held(tree)) /\ IsFiniteSet(Held(tree))
      BY FS_Subset DEF TInv, SInv, SizesMatch, Held
    <3> QED BY <3>1, FS_CardinalityType DEF TInv, SInv, SizesMatch
  <2>3. pool \subseteq Pages /\ free \in Seq(pool) /\ tree.page \in [Stored(tree) -> pool]
    BY DEF TInv, PagesInv, PoolInv
  <2>4. stage \in [Reqs -> Stages]
    BY ReqTypes DEF TInv
  <2>5. ASSUME NEW r \in Reqs
        PROVE  /\ ids[r] \in Seq(Tokens) /\ Len(ids[r]) <= MaxLen /\ row[r] \in Seq(pool)
               /\ Len(row[r]) = PagesFor(cached[r]) /\ cached[r] <= Len(ids[r])
               /\ hit[r] \in 0..FullPages(cached[r])
    <3>1. /\ hit[r] \in Nat /\ hit[r] <= FullPages(cached[r]) /\ cached[r] \in Nat
          /\ Len(row[r]) = PagesFor(cached[r]) /\ Len(ids[r]) <= MaxLen
          /\ row[r] \in Seq(pool) /\ ids[r] \in Seq(Tokens)
      BY ReqTypes DEF TInv, PagesInv, RowsInv
    <3>2. FullPages(cached[r]) \in Nat
      BY <3>1, PageArithmetic
    <3>3. cached[r] <= Len(ids[r])
      BY DEF TInv, PagesInv, IInv, ReqsInv
    <3>4. hit[r] \in 0..FullPages(cached[r])
      BY <3>1, <3>2
    <3> QED BY <3>1, <3>3, <3>4
  <2> QED BY <2>1, <2>2, <2>3, <2>4, <2>5 DEF TypeOK
<1> QED BY <1>1, <1>2, PTL

-----------------------------------------------------------------------------
(* What the inductive invariant adds to the ownership of the pages. *)

\* The KV a page of a row holds when the request has computed c of its tokens.
Written(r, s, i, c) == Content(r, SubSeq(s, 1, Min({i * PageSize, c})))

\* A request's own slots hold the KV of its tokens.
OwnKV == \A r \in Reqs : \A i \in (hit[r] + 1)..Len(row[r]) :
             kv[row[r][i]] = Written(r, ids[r], i, cached[r])

\* RowsHoldOwnKV is not inductive by itself: the shared part of a row is right
\* because the tree's pages are, and writing one page harms no other because
\* every page has one owner (PagesInv).
KVInv == PagesInv /\ TreeServesItsTokens /\ OwnKV

-----------------------------------------------------------------------------
\* The tokens a page covers end with the page, or where the computed ones end.
LEMMA MinOfTwo ==
  ASSUME NEW a \in Nat, NEW b \in Nat
  PROVE  Min({a, b}) = IF a <= b THEN a ELSE b
<1> DEFINE m == IF a <= b THEN a ELSE b
<1>1. m \in {a, b} /\ \A y \in {a, b} : m <= y
  OBVIOUS
<1>2. \A x \in {a, b} : (\A y \in {a, b} : x <= y) => x = m
  OBVIOUS
<1> HIDE DEF m
<1>3. Min({a, b}) = m
  BY <1>1, <1>2 DEF Min
<1> QED BY <1>3 DEF m

\* A page that is full of computed tokens holds the KV of a whole key.
LEMMA FullPageHoldsKey ==
  ASSUME NEW r, NEW s, NEW c \in Nat, NEW i \in Nat, i * PageSize <= c
  PROVE  Written(r, s, i, c) = Content(r, Key(s, i))
<1>1. i * PageSize \in Nat
  BY PageArithmetic
<1>2. Min({i * PageSize, c}) = i * PageSize
  BY <1>1, MinOfTwo
<1> QED BY <1>2 DEF Written, Key

\* The pages up to the last full one are full.
LEMMA FullPagesAreFull ==
  ASSUME NEW c \in Nat, NEW i \in Nat, i <= FullPages(c)
  PROVE  i * PageSize <= c
<1>1. /\ FullPages(c) \in Nat /\ FullPages(c) * PageSize <= c
      /\ i * PageSize <= FullPages(c) * PageSize
  BY PageArithmetic
<1>2. i * PageSize \in Nat /\ FullPages(c) * PageSize \in Nat
  BY <1>1, PageArithmetic
<1> QED BY <1>1, <1>2

\* What a request has written does not depend on the token sampled after it.
LEMMA WrittenBeforeAppend ==
  ASSUME NEW V, NEW r, NEW s \in Seq(V), NEW x \in V, NEW c \in Nat, c <= Len(s),
         NEW i \in Nat
  PROVE  Written(r, Append(s, x), i, c) = Written(r, s, i, c)
<1> DEFINE n == Min({i * PageSize, c})
<1>1. n \in Nat /\ n <= c
  <2>1. i * PageSize \in Nat
    BY PageArithmetic
  <2>2. n = IF i * PageSize <= c THEN i * PageSize ELSE c
    BY <2>1, MinOfTwo
  <2> HIDE DEF n
  <2> QED BY <2>1, <2>2
<1> HIDE DEF n
<1>2. /\ Append(s, x) \in Seq(V) /\ Len(Append(s, x)) = Len(s) + 1
      /\ \A j \in 1..Len(s) : Append(s, x)[j] = s[j]
  BY AppendProperties
<1>3. n <= Len(s) /\ n <= Len(Append(s, x)) /\ Len(s) \in Nat
  BY <1>1, <1>2
<1>4. /\ SubSeq(s, 1, n) \in Seq(V) /\ Len(SubSeq(s, 1, n)) = n
      /\ \A j \in 1..n : SubSeq(s, 1, n)[j] = s[j]
  BY <1>1, <1>3, FirstTokens
<1>5. /\ SubSeq(Append(s, x), 1, n) \in Seq(V) /\ Len(SubSeq(Append(s, x), 1, n)) = n
      /\ \A j \in 1..n : SubSeq(Append(s, x), 1, n)[j] = Append(s, x)[j]
  BY <1>1, <1>2, <1>3, FirstTokens
<1>6. \A j \in 1..n : j \in 1..Len(s)
  BY <1>1, <1>3
<1>7. SubSeq(Append(s, x), 1, n) = SubSeq(s, 1, n)
  BY <1>1, <1>2, <1>4, <1>5, <1>6, SeqEqual
<1> QED BY <1>7 DEF Written, n

-----------------------------------------------------------------------------
\* Every own slot is a page of its own, and neither it nor a page of the tree is
\* in the free list.
SlotsApart ==
    /\ \A r \in Reqs : \A i \in (hit[r] + 1)..Len(row[r]) :
          row[r][i] \in Pages /\ row[r][i] \notin ToSet(free) /\ row[r][i] \notin TreePages
    /\ \A r, q \in Reqs : \A i \in (hit[r] + 1)..Len(row[r]), j \in (hit[q] + 1)..Len(row[q]) :
          row[r][i] = row[q][j] => r = q /\ i = j
    /\ \A k \in Stored(tree) : /\ tree.page[k] \in Pages /\ tree.page[k] \notin ToSet(free)
                               /\ tree.page[k] \in TreePages

\* That is what the ownership of the pages says slot by slot.
LEMMA OwnedApart == PagesInv => SlotsApart
<1> SUFFICES ASSUME PagesInv PROVE SlotsApart
  OBVIOUS
<1>1. ToSet(free) = FreePages
  BY SliceAll, ReqTypes DEF FreePages
<1>2. ASSUME NEW r \in Reqs, NEW i \in (hit[r] + 1)..Len(row[r])
      PROVE  /\ row[r][i] \in Pages /\ row[r][i] \in OwnPages[r]
             /\ row[r][i] \notin FreePages /\ row[r][i] \notin TreePages
  <2>1. row[r] \in Seq(pool) /\ hit[r] \in Nat /\ pool \subseteq Pages
    BY ReqTypes DEF PagesInv, PoolInv
  <2>2. i \in 1..Len(row[r])
    BY <2>1
  <2>3. row[r][i] \in pool
    BY <2>1, <2>2
  <2>4. row[r][i] \in OwnPages[r]
    BY DEF OwnPages, Slice
  <2> QED BY <2>1, <2>3, <2>4 DEF PagesInv, Apart
<1>3. ASSUME NEW r \in Reqs, NEW q \in Reqs, NEW i \in (hit[r] + 1)..Len(row[r]),
             NEW j \in (hit[q] + 1)..Len(row[q]), row[r][i] = row[q][j]
      PROVE  r = q /\ i = j
  <2>1. r = q
    BY <1>2, <1>3 DEF PagesInv, Apart
  <2> QED BY <1>3, <2>1 DEF PagesInv, OnceInv, OneToOne
<1>4. ASSUME NEW k \in Stored(tree)
      PROVE  tree.page[k] \in Pages /\ tree.page[k] \in TreePages /\ tree.page[k] \notin FreePages
  <2>1. tree.page[k] \in pool /\ pool \subseteq Pages /\ tree.page[k] \in TreePages
    BY DEF PagesInv, PoolInv, TreePages
  <2> QED BY <2>1 DEF PagesInv, Apart
<1> QED BY <1>1, <1>2, <1>3, <1>4 DEF SlotsApart

\* After a step, too, the free list, the tree and the rows share no page that
\* is not shared by a handle.
LEMMA OwnedStayApart == PagesInv' => SlotsApart'
  BY OwnedApart, PTL

\* Forgetting what the freed pages held forgets nothing that is still owned.
LEMMA ForgetFreedKeeps ==
  ASSUME PagesInv', ForgetFreed
  PROVE  /\ \A k \in Stored(tree') : kv'[tree'.page[k]] = kv[tree'.page[k]]
         /\ \A r \in Reqs : \A i \in (hit'[r] + 1)..Len(row'[r]) :
               kv'[row'[r][i]] = kv[row'[r][i]]
<1>1. SlotsApart'
  BY OwnedStayApart
<1> QED BY <1>1 DEF SlotsApart, ForgetFreed

\* The pages a commit publishes hold the KV of the keys they are published under.
LEMMA PublishedKV ==
  ASSUME KVInv, NEW r \in Reqs, Shared(r), NEW k \in Stored(Published(r))
  PROVE  kv[Published(r).page[k]] = [images |-> {}, tokens |-> k]
<1> DEFINE p == Published(r)
           m == Matched(tree, Computed(r))
           n == FullPages(cached[r])
<1>1. /\ \A l \in Stored(tree) : l \in Stored(p) /\ p.page[l] = tree.page[l]
      /\ \A i \in (m + 1)..n : p.page[Key(ids[r], i)] = row[r][i]
      /\ k \in Stored(tree) \/ \E i \in (m + 1)..n : k = Key(ids[r], i)
  BY PublishedPages DEF KVInv
<1>2. /\ m \in Nat /\ n \in Nat /\ hit[r] \in Nat /\ hit[r] <= m /\ m <= n
      /\ n <= Len(row[r]) /\ Len(row[r]) \in Nat /\ cached[r] \in Nat
  BY MatchPastHandle, ReqTypes DEF KVInv, PagesInv
<1> HIDE DEF m, p
<1>3. CASE k \in Stored(tree)
  BY <1>1, <1>3 DEF KVInv, TreeServesItsTokens, p
<1>4. CASE \E i \in (m + 1)..n : k = Key(ids[r], i)
  <2>1. PICK i \in (m + 1)..n : k = Key(ids[r], i)
    BY <1>4
  <2>2. i \in (hit[r] + 1)..Len(row[r]) /\ i \in Nat /\ i <= n
    <3> HIDE DEF n
    <3> QED BY <1>2
  <2>3. i * PageSize <= cached[r]
    BY <1>2, <2>2, FullPagesAreFull
  <2>4. kv[row[r][i]] = Content(r, k)
    BY <1>2, <2>1, <2>2, <2>3, FullPageHoldsKey DEF KVInv, OwnKV
  <2>5. Content(r, k) = [images |-> {}, tokens |-> k]
    BY DEF Content, Shared
  <2> QED BY <1>1, <2>1, <2>4, <2>5 DEF p
<1> QED BY <1>1, <1>3, <1>4

-----------------------------------------------------------------------------
(* One lemma per operation. *)

\* Init: nothing is cached and no request has a page.
LEMMA InitKV == Init => KVInv
<1> SUFFICES ASSUME Init PROVE TreeServesItsTokens /\ OwnKV
  BY InitPages DEF KVInv
<1>1. Stored(tree) = {}
  BY EmptyTreePages DEF Init
<1>2. ASSUME NEW r \in Reqs PROVE (hit[r] + 1)..Len(row[r]) = {}
  <2>1. hit[r] = 0 /\ row[r] = << >> /\ Len(<< >>) = 0
    BY EmptySeq DEF Init
  <2> QED BY <2>1
<1> QED BY <1>1, <1>2 DEF TreeServesItsTokens, OwnKV

\* Admit: a match writes nothing, and the admitted row is all shared.
LEMMA AdmitKV ==
  ASSUME KVInv, NEW r \in Reqs, Admit(r)
  PROVE  TreeServesItsTokens' /\ OwnKV'
<1>1. PICK s \in Prompts : AdmitReq(r, s)
  BY DEF Admit
<1> DEFINE m == Matched(tree, MatchIds(r, s))
           w == Walk(tree, MatchIds(r, s))
<1>2. /\ tree' = Lock(w, Key(s, m))
      /\ ids' = [ids EXCEPT ![r] = s] /\ hit' = [hit EXCEPT ![r] = m]
      /\ row' = [row EXCEPT ![r] = [i \in 1..m |-> tree.page[Key(s, i)]]]
      /\ cached' = [cached EXCEPT ![r] = m * PageSize] /\ kv' = kv
  BY <1>1 DEF Admit, AdmitReq
<1>3. m \in Nat /\ MatchIds(r, s) \in Seq(Tokens)
  BY MatchIdsFacts
<1>4. tree'.page = tree.page /\ Stored(tree') = Stored(tree)
  <2>1. WellFormed(w, Tokens) /\ w.page = tree.page /\ Stored(w) = Stored(tree)
    BY <1>3, WalkFields DEF KVInv, PagesInv, IInv, TreeInv
  <2> HIDE DEF w, m
  <2> QED BY <1>2, <2>1, LockPages
<1> HIDE DEF m, w
<1>5. /\ hit'[r] = m /\ row'[r] = [i \in 1..m |-> tree.page[Key(s, i)]]
      /\ \A q \in Reqs : q # r => /\ row'[q] = row[q] /\ hit'[q] = hit[q]
                                  /\ ids'[q] = ids[q] /\ cached'[q] = cached[q]
  BY <1>2, ReqTypes DEF KVInv
<1>6. Len(row'[r]) = m /\ (m + 1)..m = {}
  BY <1>3, <1>5
<1>7. TreeServesItsTokens'
  BY <1>2, <1>4 DEF KVInv, TreeServesItsTokens
<1>8. OwnKV'
  <2> SUFFICES ASSUME NEW q \in Reqs, NEW i \in (hit'[q] + 1)..Len(row'[q])
               PROVE  kv'[row'[q][i]] = Written(q, ids'[q], i, cached'[q])
    BY DEF OwnKV, Written, Content
  <2>1. q # r
    BY <1>5, <1>6
  <2> QED BY <1>2, <1>5, <2>1 DEF KVInv, OwnKV
<1> QED BY <1>7, <1>8

\* Refuse: nor does a match that comes to nothing.
LEMMA RefuseKV ==
  ASSUME KVInv, NEW r \in Reqs, Refuse(r)
  PROVE  TreeServesItsTokens' /\ OwnKV'
<1>1. PICK s \in Prompts : tree' = Walk(tree, MatchIds(r, s))
  BY DEF Refuse
<1>2. tree'.page = tree.page /\ Stored(tree') = Stored(tree)
  BY <1>1, MatchIdsFacts, WalkFields DEF KVInv, PagesInv, IInv, TreeInv
<1>3. ids' = ids /\ hit' = hit /\ row' = row /\ cached' = cached /\ kv' = kv
  BY DEF Refuse, reqVars
<1> QED BY <1>2, <1>3 DEF KVInv, TreeServesItsTokens, OwnKV, Written, Content

\* Commit: the published pages hold the KV of their keys, and the re-pointed
\* slots are shared ones.
LEMMA CommitKV ==
  ASSUME KVInv, NEW r \in Reqs, Commit(r), PagesInv'
  PROVE  TreeServesItsTokens' /\ OwnKV'
<1> DEFINE m == Matched(tree, Computed(r))
           n == FullPages(cached[r])
           p == Published(r)
<1>1. ForgetFreed /\ ids' = ids /\ cached' = cached
  BY DEF Commit
<1>2. /\ \A k \in Stored(tree') : kv'[tree'.page[k]] = kv[tree'.page[k]]
      /\ \A q \in Reqs : \A i \in (hit'[q] + 1)..Len(row'[q]) :
            kv'[row'[q][i]] = kv[row'[q][i]]
  BY <1>1, ForgetFreedKeeps
<1>3. CASE Shared(r)
  <2>1. /\ tree' = Lock(p, Key(ids[r], n))
        /\ row' = [row EXCEPT ![r] = Repointed(r, m, p)] /\ hit' = [hit EXCEPT ![r] = n]
    BY <1>3 DEF Commit, CacheReqUnfinished
  <2>2. /\ WellFormed(p, Tokens)
        /\ \A k \in Stored(p) : kv[p.page[k]] = [images |-> {}, tokens |-> k]
    BY <1>3, PublishedKV, PublishedPages DEF KVInv
  <2>3. /\ n \in Nat /\ hit[r] \in Nat /\ hit[r] <= n /\ n <= Len(row[r]) /\ Len(row[r]) \in Nat
    BY MatchPastHandle, ReqTypes DEF KVInv, PagesInv, RowsInv
  <2>4. /\ Len(Repointed(r, m, p)) = Len(row[r])
        /\ \A i \in (n + 1)..Len(row[r]) : Repointed(r, m, p)[i] = row[r][i]
    BY RepointedRow DEF KVInv
  <2> HIDE DEF p, m, n
  <2>5. tree'.page = p.page /\ Stored(tree') = Stored(p)
    BY <2>1, <2>2, LockPages
  <2>6. TreeServesItsTokens'
    BY <1>2, <2>2, <2>5 DEF TreeServesItsTokens
  <2>7. /\ row'[r] = Repointed(r, m, p) /\ hit'[r] = n
        /\ \A q \in Reqs : q # r => row'[q] = row[q] /\ hit'[q] = hit[q]
    BY <2>1, ReqTypes DEF KVInv
  <2>8. OwnKV'
    <3> SUFFICES ASSUME NEW q \in Reqs, NEW i \in (hit'[q] + 1)..Len(row'[q])
                 PROVE  kv'[row'[q][i]] = Written(q, ids[q], i, cached[q])
      BY <1>1 DEF OwnKV, Written, Content
    <3>1. i \in (hit[q] + 1)..Len(row[q]) /\ row'[q][i] = row[q][i]
      <4>1. CASE q # r
        BY <2>7, <4>1
      <4>2. CASE q = r
        <5>1. i \in (n + 1)..Len(row[r])
          BY <2>4, <2>7, <4>2
        <5>2. i \in (hit[r] + 1)..Len(row[r])
          BY <2>3, <5>1
        <5> QED BY <2>4, <2>7, <4>2, <5>1, <5>2
      <4> QED BY <4>1, <4>2
    <3>2. kv[row[q][i]] = Written(q, ids[q], i, cached[q])
      BY <3>1 DEF KVInv, OwnKV
    <3> QED BY <1>2, <3>1, <3>2
  <2> QED BY <2>6, <2>8
<1>4. CASE ~Shared(r)
  <2>1. tree' = Unlock(tree, HandleKey(r)) /\ row' = row /\ hit' = hit
    BY <1>4 DEF Commit, CacheReqUnfinished
  <2>2. tree'.page = tree.page /\ Stored(tree') = Stored(tree)
    BY <2>1, LockPages DEF KVInv, PagesInv, IInv, TreeInv
  <2>3. TreeServesItsTokens'
    BY <1>2, <2>2, ZenonT(30) DEF KVInv, TreeServesItsTokens
  <2>4. OwnKV'
    BY <1>1, <1>2, <2>1 DEF KVInv, OwnKV, Written, Content
  <2> QED BY <2>3, <2>4
<1> QED BY <1>3, <1>4

\* Finish: the released row holds nothing, and the others are as they were.
LEMMA FinishKV ==
  ASSUME KVInv, NEW r \in Reqs, Finish(r), PagesInv'
  PROVE  TreeServesItsTokens' /\ OwnKV'
<1>1. ForgetFreed
  BY DEF Finish
<1>2. /\ \A k \in Stored(tree') : kv'[tree'.page[k]] = kv[tree'.page[k]]
      /\ \A q \in Reqs : \A i \in (hit'[q] + 1)..Len(row'[q]) :
            kv'[row'[q][i]] = kv[row'[q][i]]
  BY <1>1, ForgetFreedKeeps
<1>3. TreeServesItsTokens'
  <2>1. CASE Shared(r)
    <3>1. tree' = Published(r)
      BY <2>1 DEF Finish, CacheReqFinished
    <3>2. \A k \in Stored(Published(r)) : kv[Published(r).page[k]] = [images |-> {}, tokens |-> k]
      BY <2>1, PublishedKV
    <3> QED BY <1>2, <3>1, <3>2 DEF TreeServesItsTokens
  <2>2. CASE ~Shared(r)
    <3>1. tree' = Unlock(tree, HandleKey(r))
      BY <2>2 DEF Finish, CacheReqFinished
    <3>2. tree'.page = tree.page /\ Stored(tree') = Stored(tree)
      BY <3>1, LockPages DEF KVInv, PagesInv, IInv, TreeInv
    <3> QED BY <1>2, <3>2, ZenonT(30) DEF KVInv, TreeServesItsTokens
  <2> QED BY <2>1, <2>2
<1>4. /\ hit'[r] = 0 /\ Len(row'[r]) = 0 /\ (0 + 1)..0 = {}
      /\ \A q \in Reqs : q # r => /\ row'[q] = row[q] /\ hit'[q] = hit[q]
                                  /\ ids'[q] = ids[q] /\ cached'[q] = cached[q]
  BY ReleasedRow DEF KVInv
<1>5. OwnKV'
  <2> SUFFICES ASSUME NEW q \in Reqs, NEW i \in (hit'[q] + 1)..Len(row'[q])
               PROVE  kv'[row'[q][i]] = Written(q, ids'[q], i, cached'[q])
    BY DEF OwnKV, Written, Content
  <2>1. q # r
    BY <1>4
  <2>2. kv[row[q][i]] = Written(q, ids[q], i, cached[q])
    BY <1>4, <2>1 DEF KVInv, OwnKV
  <2> QED BY <1>2, <1>4, <2>1, <2>2
<1> QED BY <1>3, <1>5

\* Rebuild: the new tree is empty and the rows were.
LEMMA RebuildKV ==
  ASSUME KVInv, Rebuild
  PROVE  TreeServesItsTokens' /\ OwnKV'
<1>1. tree' = EmptyTree /\ row' = row /\ hit' = hit
  BY DEF Rebuild, Reset, RebuiltTree
<1>2. ASSUME NEW r \in Reqs PROVE (hit'[r] + 1)..Len(row'[r]) = {}
  <2>1. hit[r] = 0 /\ cached[r] = 0 /\ Len(row[r]) = PagesFor(cached[r])
    BY DEF Rebuild, Active, KVInv, PagesInv, RowsInv, IInv, ReqsInv
  <2>2. Len(row[r]) = 0
    BY <2>1, PageSizeAssumption DEF PagesFor
  <2> QED BY <1>1, <2>1, <2>2
<1> QED BY <1>1, <1>2, EmptyTreePages DEF TreeServesItsTokens, OwnKV

\* The forward pass of a batch computes into own slots of its requests.
InOwnSlots(B, dev) ==
    \A r \in B : \A i \in (FullPages(cached[r]) + 1)..PagesFor(dev[r]) :
        i \in (hit'[r] + 1)..Len(row'[r])

\* What it leaves in the pages: the tokens it computed, and nothing else changed
\* but what was freed.
WritesTokens(B, dev) ==
    /\ \A r \in B : \A i \in (FullPages(cached[r]) + 1)..PagesFor(dev[r]) :
          kv'[row'[r][i]] = Written(r, ids[r], i, dev[r])
    /\ \A p \in Pages :
          (/\ p \notin ToSet(free')
           /\ \A r \in B : \A i \in (FullPages(cached[r]) + 1)..PagesFor(dev[r]) :
                 row'[r][i] # p)
          => kv'[p] = kv[p]

\* Every page is written once, since every own slot is a page of its own.
LEMMA ForwardWrites ==
  ASSUME PagesInv', NEW B \in SUBSET Reqs, NEW dev, DOMAIN dev = B, Forward(dev),
         InOwnSlots(B, dev)
  PROVE  WritesTokens(B, dev)
<1> DEFINE I(r) == (FullPages(cached[r]) + 1)..PagesFor(dev[r])
           W == UNION {{r} \X I(r) : r \in DOMAIN dev}
<1>1. /\ \A s \in W : s[1] \in B /\ s[2] \in I(s[1]) /\ s = <<s[1], s[2]>>
      /\ \A r \in B : \A i \in I(r) : <<r, i>> \in W
  <2> HIDE DEF I
  <2> QED OBVIOUS
<1>2. \A p \in Pages :
        kv'[p] = IF \E s \in W : row'[s[1]][s[2]] = p
                 THEN LET s == CHOOSE s \in W : row'[s[1]][s[2]] = p
                      IN Written(s[1], ids[s[1]], s[2], dev[s[1]])
                 ELSE IF p \in ToSet(free') THEN NoKV ELSE kv[p]
  BY DEF Forward, Written
<1>3. SlotsApart'
  BY OwnedStayApart
<1>4. \A r \in B : \A i \in I(r) : r \in Reqs /\ i \in (hit'[r] + 1)..Len(row'[r])
  BY DEF InOwnSlots
<1> HIDE DEF W, I
<1>5. ASSUME NEW r \in B, NEW i \in I(r)
      PROVE  kv'[row'[r][i]] = Written(r, ids[r], i, dev[r])
  <2> DEFINE p == row'[r][i]
             P(s) == row'[s[1]][s[2]] = p
             c == CHOOSE s \in W : P(s)
  <2>1. p \in Pages
    BY <1>3, <1>4 DEF SlotsApart
  <2>2. <<r, i>> \in W /\ P(<<r, i>>)
    BY <1>1
  <2>3. ASSUME NEW s \in W, P(s) PROVE s = <<r, i>>
    <3>1. s[1] \in B /\ s[2] \in I(s[1]) /\ s = <<s[1], s[2]>>
      BY <1>1
    <3>2. s[1] = r /\ s[2] = i
      BY <1>3, <1>4, <2>3, <3>1 DEF SlotsApart
    <3> QED BY <3>1, <3>2
  <2>4. c \in W /\ P(c)
    <3> HIDE DEF P
    <3> QED BY <2>2
  <2>5. c = <<r, i>>
    <3> HIDE DEF P, c
    <3> QED BY <2>3, <2>4
  <2>6. c[1] = r /\ c[2] = i
    <3> HIDE DEF c
    <3> QED BY <2>5
  <2>7. kv'[p] = Written(c[1], ids[c[1]], c[2], dev[c[1]])
    BY <1>2, <2>1, <2>2
  <2> QED BY <2>6, <2>7
<1>6. ASSUME NEW p \in Pages, p \notin ToSet(free'),
             \A r \in B : \A i \in I(r) : row'[r][i] # p
      PROVE  kv'[p] = kv[p]
  <2>1. \A s \in W : row'[s[1]][s[2]] # p
    BY <1>1, <1>6
  <2> QED BY <1>2, <1>6, <2>1
<1> QED BY <1>5, <1>6 DEF I, WritesTokens

\* Extend: the forward pass of a batch writes the KV of every request's own
\* tokens into its own slots and touches no page of the tree or of another.
LEMMA ExtendKV ==
  ASSUME KVInv, NEW B \in SUBSET CanForward, Extend(B), IInv'
  PROVE  TreeServesItsTokens' /\ OwnKV'
<1>1. PICK dev \in ForwardLens(B), tok \in [B -> Tokens] : ExtendTo(dev, tok)
  BY DEF Extend
<1>2. /\ B \in SUBSET Reqs /\ DOMAIN dev = B
      /\ \A r \in B : dev[r] \in Nat /\ cached[r] < dev[r] /\ dev[r] <= Len(ids[r])
  BY BatchSlots DEF KVInv
<1>3. /\ Forward(dev)
      /\ cached' = [r \in Reqs |-> IF r \in B THEN dev[r] ELSE cached[r]]
      /\ ids' = [r \in Reqs |-> IF r \in B /\ dev[r] = Len(ids[r])
                                THEN Append(ids[r], tok[r]) ELSE ids[r]]
      /\ hit' = hit
  BY <1>1, <1>2 DEF ExtendTo, AllocatePaged
<1>4. PagesInv' /\ \A r \in Reqs : \A i \in 1..Len(row[r]) : row'[r][i] = row[r][i]
  BY ExtendPages DEF KVInv
<1>5. SlotsApart'
  BY <1>4, OwnedStayApart
<1>6. ASSUME NEW r \in Reqs
      PROVE  /\ hit[r] \in Nat /\ cached[r] \in Nat /\ FullPages(cached[r]) \in Nat
             /\ hit[r] <= FullPages(cached[r]) /\ FullPages(cached[r]) <= Len(row[r])
             /\ Len(row[r]) \in Nat /\ Len(row[r]) = PagesFor(cached[r])
             /\ Len(row'[r]) = PagesFor(cached'[r])
             /\ ids[r] \in Seq(Tokens) /\ cached[r] <= Len(ids[r])
  <2>1. /\ hit[r] \in Nat /\ cached[r] \in Nat /\ hit[r] <= FullPages(cached[r])
        /\ Len(row[r]) = PagesFor(cached[r]) /\ ids[r] \in Seq(Tokens) /\ cached[r] <= Len(ids[r])
    BY ReqTypes DEF KVInv, PagesInv, RowsInv, IInv, ReqsInv
  <2>2. FullPages(cached[r]) \in Nat /\ PagesFor(cached[r]) \in Nat
        /\ FullPages(cached[r]) <= PagesFor(cached[r])
    BY <2>1, PageBounds
  <2>3. Len(row'[r]) = PagesFor(cached'[r])
    BY <1>4 DEF PagesInv, RowsInv
  <2> QED BY <2>1, <2>2, <2>3
<1>7. ASSUME NEW r \in B
      PROVE  /\ cached'[r] = dev[r] /\ Len(row'[r]) = PagesFor(dev[r]) /\ hit'[r] = hit[r]
             /\ \A i \in (FullPages(cached[r]) + 1)..PagesFor(dev[r]) :
                   i \in (hit'[r] + 1)..Len(row'[r])
  <2>1. r \in Reqs /\ cached'[r] = dev[r] /\ hit'[r] = hit[r] /\ Len(row'[r]) = PagesFor(dev[r])
    BY <1>2, <1>3, <1>6
  <2>2. PagesFor(dev[r]) \in Nat
    BY <1>2, PageBounds
  <2>3. \A i \in (FullPages(cached[r]) + 1)..PagesFor(dev[r]) :
            i \in (hit[r] + 1)..PagesFor(dev[r])
    BY <1>6, <2>1, <2>2
  <2> QED BY <2>1, <2>3
<1>8. WritesTokens(B, dev)
  <2>1. InOwnSlots(B, dev)
    BY <1>7 DEF InOwnSlots
  <2> QED BY <1>2, <1>3, <1>4, <2>1, ForwardWrites
<1>9. TreeServesItsTokens'
  <2> SUFFICES ASSUME NEW k \in Stored(tree')
               PROVE  kv'[tree'.page[k]] = [images |-> {}, tokens |-> k]
    BY DEF TreeServesItsTokens
  <2>1. /\ tree'.page[k] \in Pages /\ tree'.page[k] \notin ToSet(free')
        /\ \A r \in B : \A i \in (FullPages(cached[r]) + 1)..PagesFor(dev[r]) :
              row'[r][i] # tree'.page[k]
    BY <1>2, <1>5, <1>7 DEF SlotsApart
  <2>2. kv'[tree'.page[k]] = kv[tree'.page[k]]
    BY <1>8, <2>1 DEF WritesTokens
  <2>3. k \in Stored(tree) /\ tree'.page[k] = tree.page[k]
    <3>1. PICK E \in EvictionChoices(tree, Shortage(dev)) :
            tree' = IF E = {} THEN tree ELSE RemoveNodes(tree, E)
      BY <1>1 DEF ExtendTo, AllocatePaged
    <3> QED BY <3>1, EvictedTree DEF KVInv
  <2> QED BY <2>2, <2>3 DEF KVInv, TreeServesItsTokens
<1>10. OwnKV'
  <2> SUFFICES ASSUME NEW q \in Reqs, NEW i \in (hit'[q] + 1)..Len(row'[q])
               PROVE  kv'[row'[q][i]] = Written(q, ids'[q], i, cached'[q])
    BY DEF OwnKV, Written, Content
  <2>1. i \in Nat /\ hit[q] < i /\ i <= Len(row'[q]) /\ hit'[q] = hit[q]
    BY <1>3, <1>6
  <2>2. /\ row'[q][i] \in Pages /\ row'[q][i] \notin ToSet(free')
        /\ \A r \in B : \A j \in (FullPages(cached[r]) + 1)..PagesFor(dev[r]) :
              row'[r][j] = row'[q][i] => r = q /\ j = i
    BY <1>2, <1>5, <1>7 DEF SlotsApart
  <2>3. CASE q \in B /\ FullPages(cached[q]) < i
    <3>1. i \in (FullPages(cached[q]) + 1)..PagesFor(dev[q])
      <4>1. PagesFor(dev[q]) \in Nat /\ i <= PagesFor(dev[q])
        BY <1>2, <1>7, <2>1, <2>3, PageBounds
      <4> QED BY <1>6, <2>1, <2>3, <4>1
    <3>2. kv'[row'[q][i]] = Written(q, ids[q], i, dev[q])
      BY <1>8, <2>3, <3>1 DEF WritesTokens
    <3>3. Written(q, ids'[q], i, dev[q]) = Written(q, ids[q], i, dev[q])
      <4>1. CASE dev[q] = Len(ids[q])
        <5>1. ids'[q] = Append(ids[q], tok[q]) /\ tok[q] \in Tokens
          BY <1>3, <2>3, <4>1
        <5> QED BY <1>2, <1>6, <2>1, <2>3, <5>1, WrittenBeforeAppend
      <4>2. CASE dev[q] # Len(ids[q])
        BY <1>3, <4>2
      <4> QED BY <4>1, <4>2
    <3> QED BY <1>7, <2>3, <3>2, <3>3
  <2>4. CASE q \in B /\ ~(FullPages(cached[q]) < i)
    <3>1. i <= FullPages(cached[q]) /\ i \in 1..Len(row[q]) /\ i \in (hit[q] + 1)..Len(row[q])
      BY <1>6, <2>1, <2>4
    <3>2. row'[q][i] = row[q][i]
      BY <1>4, <3>1
    <3>3. kv'[row'[q][i]] = kv[row'[q][i]]
      <4>1. \A r \in B : \A j \in (FullPages(cached[r]) + 1)..PagesFor(dev[r]) : row'[r][j] # row'[q][i]
        <5>1. \A j \in (FullPages(cached[q]) + 1)..PagesFor(dev[q]) : j # i
          BY <1>6, <2>1, <2>4
        <5> QED BY <2>2, <5>1
      <4> QED BY <1>8, <2>2, <4>1 DEF WritesTokens
    <3>4. kv[row[q][i]] = Written(q, ids[q], i, cached[q])
      BY <3>1 DEF KVInv, OwnKV
    <3>5. Written(q, ids[q], i, cached[q]) = Content(q, Key(ids[q], i))
      BY <1>6, <2>1, <3>1, FullPagesAreFull, FullPageHoldsKey
    <3>6. Written(q, ids'[q], i, dev[q]) = Content(q, Key(ids[q], i))
      <4>1. i * PageSize <= dev[q] /\ i * PageSize <= Len(ids[q]) /\ dev[q] \in Nat
        <5>1. i * PageSize <= cached[q] /\ i * PageSize \in Nat
          BY <1>6, <2>1, <3>1, FullPagesAreFull, PageArithmetic
        <5>2. cached[q] \in Nat /\ dev[q] \in Nat /\ Len(ids[q]) \in Nat
              /\ cached[q] < dev[q] /\ cached[q] <= Len(ids[q])
          BY <1>2, <1>6, <2>4
        <5> QED BY <5>1, <5>2
      <4>2. Written(q, ids'[q], i, dev[q]) = Content(q, Key(ids'[q], i))
        BY <2>1, <4>1, FullPageHoldsKey
      <4>3. Key(ids'[q], i) = Key(ids[q], i)
        <5>1. CASE dev[q] = Len(ids[q])
          <6>1. ids'[q] = Append(ids[q], tok[q]) /\ tok[q] \in Tokens
            BY <1>3, <2>4, <5>1
          <6> QED BY <1>6, <2>1, <4>1, <6>1, KeyOfAppend
        <5>2. CASE dev[q] # Len(ids[q])
          BY <1>3, <5>2
        <5> QED BY <5>1, <5>2
      <4> QED BY <4>2, <4>3
    <3> QED BY <1>7, <2>4, <3>2, <3>3, <3>4, <3>5, <3>6
  <2>5. CASE q \notin B
    <3>1. cached'[q] = cached[q] /\ ids'[q] = ids[q]
      BY <1>3, <2>5
    <3>2. i \in 1..Len(row[q]) /\ i \in (hit[q] + 1)..Len(row[q])
      BY <1>6, <2>1, <3>1
    <3>3. row'[q][i] = row[q][i]
      BY <1>4, <3>2
    <3>4. kv'[row'[q][i]] = kv[row'[q][i]]
      BY <1>8, <2>2, <2>5 DEF WritesTokens
    <3>5. kv[row[q][i]] = Written(q, ids[q], i, cached[q])
      BY <3>2 DEF KVInv, OwnKV
    <3> QED BY <3>1, <3>3, <3>4, <3>5
  <2> QED BY <2>3, <2>4, <2>5
<1> QED BY <1>9, <1>10

-----------------------------------------------------------------------------
\* What the pages hold is inductive.
LEMMA StepKV == KVInv /\ [Next]_vars => KVInv'
<1> SUFFICES ASSUME KVInv, [Next]_vars PROVE TreeServesItsTokens' /\ OwnKV'
  BY StepPages DEF KVInv
<1>1. PagesInv' /\ IInv'
  BY StepPages DEF KVInv, PagesInv
<1>2. ASSUME NEW r \in Reqs, Admit(r) PROVE TreeServesItsTokens' /\ OwnKV'
  BY <1>2, AdmitKV
<1>3. ASSUME NEW r \in Reqs, Refuse(r) PROVE TreeServesItsTokens' /\ OwnKV'
  BY <1>3, RefuseKV
<1>4. ASSUME NEW r \in Reqs, Commit(r) PROVE TreeServesItsTokens' /\ OwnKV'
  BY <1>1, <1>4, CommitKV
<1>5. ASSUME NEW r \in Reqs, Finish(r) PROVE TreeServesItsTokens' /\ OwnKV'
  BY <1>1, <1>5, FinishKV
<1>6. ASSUME NEW B \in (SUBSET CanForward) \ {{}}, Extend(B) PROVE TreeServesItsTokens' /\ OwnKV'
  BY <1>1, <1>6, ExtendKV
<1>7. CASE Rebuild
  BY <1>7, RebuildKV
<1>8. CASE UNCHANGED vars
  <2>1. tree' = tree /\ ids' = ids /\ hit' = hit /\ row' = row /\ cached' = cached /\ kv' = kv
    BY <1>8 DEF vars, poolVars, reqVars
  <2> QED BY <2>1 DEF KVInv, TreeServesItsTokens, OwnKV, Written, Content
<1> QED BY <1>2, <1>3, <1>4, <1>5, <1>6, <1>7, <1>8 DEF Next

\* Pages, tree and rows agree on what was computed, always.
LEMMA KVAlways == Spec => []KVInv
  BY InitKV, StepKV, PTL DEF Spec

\* The prefix cache serves the KV of the very tokens match_req asks for, and
\* never the KV of a prompt with images, in every reachable state.
THEOREM TreeAlwaysServesItsTokens == Spec => []TreeServesItsTokens
  BY KVAlways, PTL DEF KVInv

\* What the attention backends read through a row is the KV of the request's own
\* tokens: neither the sharing of match_req, nor the re-point of a commit, nor the
\* reuse of freed and evicted pages ever puts another prompt's KV in the row.
THEOREM RowsAlwaysHoldOwnKV == Spec => []RowsHoldOwnKV
<1>1. KVInv => RowsHoldOwnKV
  <2> SUFFICES ASSUME KVInv, NEW r \in Active, NEW i \in DOMAIN row[r]
               PROVE  kv[row[r][i]] = Written(r, ids[r], i, cached[r])
    BY DEF RowsHoldOwnKV, Written
  <2>1. /\ r \in Reqs /\ hit[r] \in Nat /\ cached[r] \in Nat /\ DOMAIN row[r] = 1..Len(row[r])
        /\ hit[r] <= FullPages(cached[r])
    BY ReqTypes DEF KVInv, PagesInv, RowsInv, Active
  <2>2. CASE hit[r] < i
    <3>1. i \in (hit[r] + 1)..Len(row[r])
      BY <2>1, <2>2
    <3> QED BY <2>1, <3>1 DEF KVInv, OwnKV
  <2>3. CASE ~(hit[r] < i)
    <3>1. i \in 1..hit[r] /\ i \in Nat /\ i <= hit[r] /\ hit[r] # 0
      BY <2>1, <2>3
    <3>2. Key(ids[r], i) \in Stored(tree) /\ row[r][i] = tree.page[Key(ids[r], i)]
      BY <2>1, <3>1, HandleStored DEF KVInv, PagesInv, RowsInv
    <3>3. kv[row[r][i]] = [images |-> {}, tokens |-> Key(ids[r], i)]
      BY <3>2 DEF KVInv, TreeServesItsTokens
    <3>4. Shared(r)
      BY <2>1, <3>1 DEF KVInv, PagesInv, IInv, ReqsInv
    <3>5. i <= FullPages(cached[r])
      <4>1. FullPages(cached[r]) \in Nat
        BY <2>1, PageArithmetic
      <4> QED BY <2>1, <3>1, <4>1
    <3>6. Written(r, ids[r], i, cached[r]) = Content(r, Key(ids[r], i))
      BY <2>1, <3>1, <3>5, FullPagesAreFull, FullPageHoldsKey
    <3> QED BY <3>3, <3>4, <3>6 DEF Content, Shared
  <2> QED BY <2>2, <2>3
<1> QED BY <1>1, KVAlways, PTL
=============================================================================
