-------------------------- MODULE RadixTree_proofs --------------------------
(***************************************************************************)
(* Lemmas about the radix tree, whatever the tree, the handles and the     *)
(* page size: what a walk, an insertion, a lock, an unlock and an eviction *)
(* do to a well-formed tree, to the reference counts of its nodes, to the  *)
(* pages it stores and to the two size counters.                           *)
(***************************************************************************)
EXTENDS RadixTree, TLAPS, FiniteSetTheorems, SequenceTheorems

-----------------------------------------------------------------------------
(* Arithmetic of pages. *)

\* align_down rounds a length down to whole pages, and whole pages compare as
\* their numbers do.
LEMMA PageArithmetic ==
  /\ \A i \in Nat : i * PageSize \in Nat
  /\ \A i, j \in Nat : i * PageSize <= j * PageSize <=> i <= j
  /\ \A n \in Nat : FullPages(n) \in Nat /\ FullPages(n) * PageSize <= n
<1>1. \A i \in Nat : i * PageSize \in Nat
  BY PageSizeAssumption
<1>2. ASSUME NEW i \in Nat, NEW j \in Nat
      PROVE  i * PageSize <= j * PageSize <=> i <= j
  BY PageSizeAssumption
<1>3. ASSUME NEW n \in Nat
      PROVE  FullPages(n) \in Nat /\ FullPages(n) * PageSize <= n
  BY PageSizeAssumption DEF FullPages
<1> QED BY <1>1, <1>2, <1>3

\* A key of whole pages that s is long enough for is a prefix of s.
LEMMA KeyIsPrefix ==
  ASSUME NEW V, NEW s \in Seq(V), NEW i \in Nat, i * PageSize <= Len(s)
  PROVE  /\ Key(s, i) \in Seq(V)
         /\ Len(Key(s, i)) = i * PageSize
         /\ \A j \in 1..(i * PageSize) : Key(s, i)[j] = s[j]
<1>1. i * PageSize \in Nat
  BY PageArithmetic
<1>2. \A j \in 1..(i * PageSize) : s[j] \in V
  BY <1>1
<1> QED BY <1>1, <1>2, SubSeqProperties DEF Key

-----------------------------------------------------------------------------
(* StartsWith is the prefix order. *)

\* A key starts with another when the tokens of the shorter one all agree
\* (fast_compare_key).
LEMMA StartsWithPointwise ==
  ASSUME NEW V, NEW s \in Seq(V), NEW k \in Seq(V)
  PROVE  StartsWith(s, k) <=> /\ Len(k) <= Len(s)
                              /\ \A j \in 1..Len(k) : s[j] = k[j]
<1> SUFFICES ASSUME Len(k) <= Len(s)
             PROVE  SubSeq(s, 1, Len(k)) = k <=> \A j \in 1..Len(k) : s[j] = k[j]
  BY DEF StartsWith
<1>1. Len(k) \in Nat /\ Len(s) \in Nat
  OBVIOUS
<1>2. \A j \in 1..Len(k) : s[j] \in V
  BY <1>1
<1>3. /\ SubSeq(s, 1, Len(k)) \in Seq(V)
      /\ Len(SubSeq(s, 1, Len(k))) = Len(k)
      /\ \A j \in 1..Len(k) : SubSeq(s, 1, Len(k))[j] = s[j]
  BY <1>1, <1>2, SubSeqProperties
<1> QED BY <1>3, SeqEqual

\* Prefixes of one key are ordered: the path from a node to the root is a chain.
LEMMA PrefixOrder ==
  ASSUME NEW V
  PROVE  /\ \A a \in Seq(V) : StartsWith(a, a)
         /\ \A a, b \in Seq(V) : StartsWith(a, b) /\ StartsWith(b, a) => a = b
         /\ \A a, b, c \in Seq(V) : StartsWith(a, b) /\ StartsWith(b, c) => StartsWith(a, c)
         /\ \A a, b, c \in Seq(V) : StartsWith(a, b) /\ StartsWith(a, c)
                                        => StartsWith(b, c) \/ StartsWith(c, b)
<1>1. ASSUME NEW a \in Seq(V) PROVE StartsWith(a, a)
  BY StartsWithPointwise
<1>2. ASSUME NEW a \in Seq(V), NEW b \in Seq(V), StartsWith(a, b), StartsWith(b, a)
      PROVE  a = b
  <2>1. Len(a) = Len(b) /\ \A j \in 1..Len(a) : a[j] = b[j]
    BY <1>2, StartsWithPointwise
  <2> QED BY <2>1, SeqEqual
<1>3. ASSUME NEW a \in Seq(V), NEW b \in Seq(V), NEW c \in Seq(V),
             StartsWith(a, b), StartsWith(b, c)
      PROVE  StartsWith(a, c)
  <2>1. Len(c) <= Len(b) /\ Len(b) <= Len(a)
    BY <1>3, StartsWithPointwise
  <2>2. \A j \in 1..Len(c) : b[j] = c[j] /\ a[j] = b[j]
    BY <1>3, <2>1, StartsWithPointwise
  <2> QED BY <2>1, <2>2, StartsWithPointwise
<1>4. ASSUME NEW a \in Seq(V), NEW b \in Seq(V), NEW c \in Seq(V),
             StartsWith(a, b), StartsWith(a, c)
      PROVE  StartsWith(b, c) \/ StartsWith(c, b)
  <2>1. /\ \A j \in 1..Len(b) : a[j] = b[j]
        /\ \A j \in 1..Len(c) : a[j] = c[j]
    BY <1>4, StartsWithPointwise
  <2>2. CASE Len(b) <= Len(c)
    BY <2>1, <2>2, StartsWithPointwise
  <2>3. CASE Len(c) <= Len(b)
    BY <2>1, <2>3, StartsWithPointwise
  <2> QED BY <2>2, <2>3
<1> QED BY <1>1, <1>2, <1>3, <1>4

\* Nothing begins with a node but what has tokens.
LEMMA RootStartsWithNothing ==
  ASSUME NEW V, NEW k \in Seq(V), k # Root
  PROVE  ~StartsWith(Root, k)
  BY EmptySeq DEF StartsWith, Root

\* The page-aligned prefixes of one key are prefixes of each other.
LEMMA KeysAreNested ==
  ASSUME NEW V, NEW s \in Seq(V), NEW i \in Nat, NEW j \in Nat,
         i <= j, j * PageSize <= Len(s)
  PROVE  /\ StartsWith(s, Key(s, j))
         /\ StartsWith(Key(s, j), Key(s, i))
<1>1. i * PageSize \in Nat /\ j * PageSize \in Nat /\ i * PageSize <= j * PageSize
  BY PageArithmetic
<1>2. i * PageSize <= Len(s)
  BY <1>1
<1> QED BY <1>1, <1>2, KeyIsPrefix, StartsWithPointwise

-----------------------------------------------------------------------------
(* Well-formed trees. *)

\* The token sequences of one or more whole pages.
Whole(V) == {k \in Seq(V) : k # Root /\ \E n \in Nat : Len(k) = n * PageSize}

\* Node e covers the prefix k: it is NodeOf(t, k).
Covers(t, e, k) ==
    /\ StartsWith(e, k)
    /\ \A f \in Nodes(t) : StartsWith(f, k) => StartsWith(f, e)

\* The shape insert_prefix, split_at and evict keep: a tree of whole pages, closed
\* under prefixes, where every stored page belongs to the segment of one node.
WellFormed(t, V) ==
    /\ t = [page |-> t.page, ref |-> t.ref,
            evictable |-> t.evictable, protected |-> t.protected]
    /\ Nodes(t) \subseteq Stored(t)
    /\ Stored(t) \subseteq Whole(V)
    /\ \A k \in Stored(t), p \in Whole(V) : StartsWith(k, p) => p \in Stored(t)
    /\ \A k \in Stored(t) : \E e \in Nodes(t) : Covers(t, e, k)

\* The requests of R whose handle, in h, is at or below the node e.
Holders(R, h, e) == {r \in R : StartsWith(h[r], e)}

\* Every node counts its holders.
RefsMatch(t, R, h) == \A e \in Nodes(t) : t.ref[e] = Cardinality(Holders(R, h, e))

\* Every handle is the root or a node of the tree.
HandlesIn(t, R, h) == \A r \in R : h[r] \in Nodes(t) \cup {Root}

\* The natural numbers are well ordered.
LEMMA LeastElement ==
  ASSUME NEW T \in SUBSET Nat, T # {}
  PROVE  \E x \in T : \A y \in T : x <= y
<1> DEFINE R == {ss \in Nat \X Nat : ss[1] < ss[2]}
<1>1. IsWellFoundedOn(R, Nat)
  BY NatLessThanWellFounded DEF OpToRel
<1> HIDE DEF R
<1>2. PICK x \in T : \A y \in T : ~ (<<y, x>> \in R)
  BY <1>1, WFMin
<1>3. \A a, b \in Nat : a < b => <<a, b>> \in R
  BY DEF R
<1>4. \A y \in T : ~(y < x)
  BY <1>2, <1>3
<1> QED BY <1>4

\* _tree_walk ends where the stored pages of s end.
LEMMA MatchedSpec ==
  ASSUME NEW V, NEW t, NEW s \in Seq(V)
  PROVE  /\ Matched(t, s) \in 0..FullPages(Len(s))
         /\ \A i \in 1..Matched(t, s) : Key(s, i) \in Stored(t)
         /\ Matched(t, s) < FullPages(Len(s))
                => Key(s, Matched(t, s) + 1) \notin Stored(t)
<1> DEFINE n == FullPages(Len(s))
           Ends(m) == /\ \A i \in 1..m : Key(s, i) \in Stored(t)
                      /\ m < n => Key(s, m + 1) \notin Stored(t)
           T == {i \in 1..n : Key(s, i) \notin Stored(t)}
<1>1. n \in Nat
  BY PageArithmetic
<1>2. \E m \in 0..n : Ends(m)
  <2>1. CASE T = {}
    BY <1>1, <2>1
  <2>2. CASE T # {}
    <3> T \in SUBSET Nat
      BY <1>1
    <3>1. PICK x \in T : \A y \in T : x <= y
      <4> HIDE DEF T
      <4> QED BY <2>2, LeastElement
    <3>2. x - 1 \in 0..n /\ x - 1 + 1 = x /\ x \in 1..n
      BY <1>1, <3>1
    <3>3. ASSUME NEW i \in 1..(x - 1) PROVE Key(s, i) \in Stored(t)
      <4>1. i \in 1..n /\ ~(x <= i)
        BY <1>1, <3>2
      <4> QED BY <3>1, <4>1
    <3>4. Ends(x - 1)
      BY <3>1, <3>2, <3>3
    <3> QED BY <3>2, <3>4
  <2> QED BY <2>1, <2>2
<1>3. Matched(t, s) = CHOOSE m \in 0..n : Ends(m)
  BY DEF Matched
<1> HIDE DEF Ends
<1>4. Matched(t, s) \in 0..n /\ Ends(Matched(t, s))
  BY <1>2, <1>3
<1> QED BY <1>4 DEF Ends

\* The whole pages of s are in Whole, and prefixes of one another.
LEMMA KeyIsWhole ==
  ASSUME NEW V, NEW s \in Seq(V), NEW i \in Nat \ {0}, i <= FullPages(Len(s))
  PROVE  Key(s, i) \in Whole(V) /\ StartsWith(s, Key(s, i))
<1>1. FullPages(Len(s)) \in Nat /\ FullPages(Len(s)) * PageSize <= Len(s)
  BY PageArithmetic
<1>2. /\ i * PageSize \in Nat /\ i * PageSize <= FullPages(Len(s)) * PageSize
      /\ FullPages(Len(s)) * PageSize \in Nat
  BY <1>1, PageArithmetic
<1>3. i * PageSize <= Len(s) /\ i * PageSize # 0
  BY <1>1, <1>2, PageSizeAssumption
<1>4. Key(s, i) \in Seq(V) /\ Len(Key(s, i)) = i * PageSize
  BY <1>3, KeyIsPrefix
<1>5. Key(s, i) # Root
  BY <1>3, <1>4 DEF Root
<1> QED BY <1>3, <1>4, <1>5, KeysAreNested DEF Whole

\* What begins with whole pages and s begins with is one of the keys of s.
LEMMA WholePrefixIsKey ==
  ASSUME NEW V, NEW s \in Seq(V), NEW p \in Whole(V), StartsWith(s, p)
  PROVE  \E j \in Nat \ {0} : j <= FullPages(Len(s)) /\ p = Key(s, j)
<1>1. PICK j \in Nat : Len(p) = j * PageSize
  BY DEF Whole
<1>2. p \in Seq(V) /\ Len(p) <= Len(s) /\ p # Root /\ SubSeq(s, 1, Len(p)) = p
  BY DEF Whole, StartsWith
<1>3. p = Key(s, j)
  BY <1>1, <1>2 DEF Key
<1>4. j # 0
  <2> SUFFICES ASSUME j = 0 PROVE FALSE
    OBVIOUS
  <2>1. Len(p) = 0
    BY <1>1, PageSizeAssumption
  <2> QED BY <1>2, <2>1, EmptySeq DEF Root
<1>5. j <= FullPages(Len(s))
  BY <1>1, <1>2, PageSizeAssumption DEF FullPages
<1> QED BY <1>3, <1>4, <1>5

\* The node NodeOf chooses covers its prefix.
LEMMA NodeOfCovers ==
  ASSUME NEW V, NEW t, WellFormed(t, V), NEW k \in Stored(t)
  PROVE  NodeOf(t, k) \in Nodes(t) /\ Covers(t, NodeOf(t, k), k)
<1>1. \E e \in Nodes(t) : Covers(t, e, k)
  BY DEF WellFormed
<1>2. NodeOf(t, k) = CHOOSE e \in Nodes(t) : Covers(t, e, k)
  BY DEF NodeOf, Covers
<1> QED BY <1>1, <1>2

\* The nodes and the stored prefixes of a well-formed tree are token sequences.
LEMMA PrefixesAreSequences ==
  ASSUME NEW V, NEW t, WellFormed(t, V)
  PROVE  /\ \A k \in Stored(t) : k \in Seq(V) /\ k # Root /\ k \in Whole(V)
         /\ \A e \in Nodes(t) : e \in Seq(V) /\ e # Root /\ e \in Stored(t)
  BY DEF WellFormed, Whole

-----------------------------------------------------------------------------
(* split_at. *)

\* The fields of a split tree.
LEMMA SplitFields ==
  ASSUME NEW V, NEW t, WellFormed(t, V), NEW k \in Stored(t)
  PROVE  LET u == Split(t, k) IN
         /\ u = [page |-> u.page, ref |-> u.ref,
                 evictable |-> u.evictable, protected |-> u.protected]
         /\ u.page = t.page /\ Stored(u) = Stored(t)
         /\ Nodes(u) = Nodes(t) \cup {k}
         /\ \A e \in Nodes(t) : u.ref[e] = t.ref[e]
         /\ k \notin Nodes(t) => u.ref[k] = t.ref[NodeOf(t, k)]
<1>1. k # Root
  BY PrefixesAreSequences
<1>2. t = [page |-> t.page, ref |-> t.ref,
           evictable |-> t.evictable, protected |-> t.protected]
  BY DEF WellFormed
<1>3. CASE k \in Nodes(t)
  BY <1>1, <1>2, <1>3 DEF Split
<1>4. CASE k \notin Nodes(t)
  <2> DEFINE g == [e \in Nodes(t) \cup {k} |->
                      IF e = k THEN InheritedRef(t, k) ELSE t.ref[e]]
  <2>1. Split(t, k) = [t EXCEPT !.ref = g]
    BY <1>1, <1>4 DEF Split
  <2> HIDE DEF g
  <2>2. Split(t, k) = [page |-> t.page, ref |-> g,
                       evictable |-> t.evictable, protected |-> t.protected]
    BY <1>2, <2>1
  <2> QED BY <1>4, <2>2 DEF g, Nodes, Stored, InheritedRef
<1> QED BY <1>3, <1>4

\* Splitting a segment keeps the tree well formed.
LEMMA SplitWellFormed ==
  ASSUME NEW V, NEW t, WellFormed(t, V), NEW k \in Stored(t)
  PROVE  WellFormed(Split(t, k), V)
<1> DEFINE u == Split(t, k)
<1>1. Stored(u) = Stored(t) /\ Nodes(u) = Nodes(t) \cup {k}
  BY SplitFields
<1>2. \A q \in Stored(t) : q \in Seq(V)
  BY PrefixesAreSequences
<1>3. \A e \in Nodes(t) : e \in Seq(V)
  BY PrefixesAreSequences
<1>4. ASSUME NEW q \in Stored(t)
      PROVE  \E e \in Nodes(u) : Covers(u, e, q)
  <2>1. PICK e \in Nodes(t) : Covers(t, e, q)
    BY DEF WellFormed
  <2>2. PICK d \in Nodes(t) : Covers(t, d, k)
    BY DEF WellFormed
  <2>3. CASE ~StartsWith(k, q) \/ StartsWith(k, e)
    <3>1. Covers(u, e, q)
      BY <1>1, <2>1, <2>3 DEF Covers
    <3> QED BY <1>1, <3>1
  <2>4. CASE StartsWith(k, q) /\ ~StartsWith(k, e)
    <3>1. StartsWith(d, k) /\ StartsWith(d, q)
      BY <1>2, <1>3, <2>2, <2>4, PrefixOrder DEF Covers
    <3>2. StartsWith(d, e)
      BY <2>1, <3>1 DEF Covers
    <3>3. StartsWith(e, k)
      BY <1>2, <1>3, <2>4, <3>1, <3>2, PrefixOrder
    <3>4. ASSUME NEW f \in Nodes(u), StartsWith(f, q) PROVE StartsWith(f, k)
      <4>1. CASE f = k
        BY <1>2, <4>1, PrefixOrder
      <4>2. CASE f \in Nodes(t)
        <5>1. StartsWith(f, e)
          BY <2>1, <3>4, <4>2 DEF Covers
        <5> QED BY <1>2, <1>3, <3>3, <4>2, <5>1, PrefixOrder
      <4> QED BY <1>1, <4>1, <4>2
    <3>5. Covers(u, k, q)
      BY <2>4, <3>4 DEF Covers
    <3> QED BY <1>1, <3>5
  <2> QED BY <2>3, <2>4
<1>5. u = [page |-> u.page, ref |-> u.ref,
           evictable |-> u.evictable, protected |-> u.protected]
  BY SplitFields
<1> HIDE DEF u
<1>6. WellFormed(u, V)
  BY <1>1, <1>4, <1>5 DEF WellFormed
<1> QED BY <1>6 DEF u

\* The new upper node has the holders of the node it was cut from: a handle that
\* was below its end is a node, so it was at or below the whole segment.
LEMMA SplitRefs ==
  ASSUME NEW V, NEW t, WellFormed(t, V), NEW k \in Stored(t),
         NEW R, NEW h, RefsMatch(t, R, h), HandlesIn(t, R, h)
  PROVE  RefsMatch(Split(t, k), R, h) /\ HandlesIn(Split(t, k), R, h)
<1> DEFINE u == Split(t, k)
           d == NodeOf(t, k)
<1>1. Nodes(u) = Nodes(t) \cup {k} /\ \A e \in Nodes(t) : u.ref[e] = t.ref[e]
  BY SplitFields
<1>2. ASSUME k \notin Nodes(t)
      PROVE  u.ref[k] = Cardinality(Holders(R, h, k))
  <2>1. u.ref[k] = t.ref[d] /\ d \in Nodes(t) /\ Covers(t, d, k)
    BY <1>2, SplitFields, NodeOfCovers
  <2>2. k \in Seq(V) /\ k # Root /\ d \in Seq(V)
    BY <2>1, PrefixesAreSequences
  <2>3. ASSUME NEW r \in R PROVE StartsWith(h[r], k) <=> StartsWith(h[r], d)
    <3>1. CASE h[r] = Root
      <4>1. ~StartsWith(Root, k)
        BY <2>2, RootStartsWithNothing
      <4>2. ~StartsWith(Root, d)
        BY <2>1, <2>2, PrefixesAreSequences, RootStartsWithNothing
      <4> QED BY <3>1, <4>1, <4>2
    <3>2. CASE h[r] \in Nodes(t)
      <4>1. h[r] \in Seq(V)
        BY <3>2, PrefixesAreSequences
      <4>2. StartsWith(h[r], k) => StartsWith(h[r], d)
        BY <2>1, <3>2 DEF Covers
      <4>3. StartsWith(h[r], d) => StartsWith(h[r], k)
        BY <2>1, <2>2, <4>1, PrefixOrder DEF Covers
      <4> QED BY <4>2, <4>3
    <3> QED BY <3>1, <3>2 DEF HandlesIn
  <2>4. Holders(R, h, k) = Holders(R, h, d)
    BY <2>3 DEF Holders
  <2> QED BY <2>1, <2>4 DEF RefsMatch
<1> HIDE DEF u
<1>3. RefsMatch(u, R, h)
  BY <1>1, <1>2 DEF RefsMatch
<1>4. HandlesIn(u, R, h)
  BY <1>1 DEF HandlesIn
<1> QED BY <1>3, <1>4 DEF u

-----------------------------------------------------------------------------
(* _tree_walk and insert_prefix. *)

\* Zero pages of any key are the root, which every walk starts from.
LEMMA KeyZero ==
  ASSUME NEW s
  PROVE  Key(s, 0) = Root
<1>1. 0 * PageSize = 0
  BY PageSizeAssumption
<1>2. SubSeq(s, 1, 0) = << >>
  BY SubSeqEmpty
<1> QED BY <1>1, <1>2 DEF Key, Root

\* A walk splits at most one segment, so that the prefix it matched is a node.
LEMMA WalkKeeps ==
  ASSUME NEW V, NEW t, WellFormed(t, V), NEW s \in Seq(V),
         NEW R, NEW h, RefsMatch(t, R, h), HandlesIn(t, R, h)
  PROVE  LET w == Walk(t, s) IN
         /\ WellFormed(w, V)
         /\ RefsMatch(w, R, h)
         /\ HandlesIn(w, R, h)
         /\ Stored(w) = Stored(t)
         /\ Key(s, Matched(t, s)) \in Nodes(w) \cup {Root}
<1> DEFINE m == Matched(t, s)
<1>1. m \in 0..FullPages(Len(s)) /\ FullPages(Len(s)) \in Nat
  <2>1. FullPages(Len(s)) \in Nat
    BY PageArithmetic
  <2>2. m \in 0..FullPages(Len(s))
    BY MatchedSpec
  <2> QED BY <2>1, <2>2
<1>2. CASE m = 0
  <2>1. Key(s, m) = Root
    BY <1>2, KeyZero
  <2>2. Walk(t, s) = t
    BY <2>1 DEF Walk, Split
  <2> QED BY <2>1, <2>2
<1>3. CASE m # 0
  <2>1. Key(s, m) \in Stored(t)
    <3>1. m \in 1..m
      BY <1>1, <1>3
    <3> QED BY <3>1, MatchedSpec
  <2>2. Walk(t, s) = Split(t, Key(s, m))
    BY DEF Walk
  <2> HIDE DEF m
  <2>3. Stored(Split(t, Key(s, m))) = Stored(t) /\ Key(s, m) \in Nodes(Split(t, Key(s, m)))
    BY <2>1, SplitFields
  <2> QED BY <2>1, <2>2, <2>3, SplitWellFormed, SplitRefs DEF m
<1> QED BY <1>2, <1>3

\* The fields of the tree an insertion of new pages leaves.
LEMMA InsertFields ==
  ASSUME NEW V, NEW t, NEW s \in Seq(V), NEW row,
         WellFormed(Walk(t, s), V), Matched(t, s) # FullPages(Len(s))
  PROVE  LET w == Walk(t, s)
             u == Insert(t, s, row)
             n == FullPages(Len(s)) IN
         /\ u = [page |-> u.page, ref |-> u.ref,
                 evictable |-> u.evictable, protected |-> u.protected]
         /\ Stored(u) = Stored(w) \cup {Key(s, i) : i \in (Matched(t, s) + 1)..n}
         /\ Nodes(u) = Nodes(w) \cup {Key(s, n)}
         /\ \A e \in Nodes(w) : e # Key(s, n) => u.ref[e] = w.ref[e]
         /\ u.ref[Key(s, n)] = 0
<1> DEFINE w == Walk(t, s)
           n == FullPages(Len(s))
           fresh == {Key(s, i) : i \in (Matched(t, s) + 1)..n}
           pg == [k \in Stored(w) \cup fresh |->
                     IF k \in fresh THEN row[Len(k) \div PageSize] ELSE w.page[k]]
           rf == [e \in Nodes(w) \cup {Key(s, n)} |->
                     IF e = Key(s, n) THEN 0 ELSE w.ref[e]]
           ev == w.evictable + (n - Matched(t, s))
<1>1. Insert(t, s, row) = [w EXCEPT !.page = pg, !.ref = rf, !.evictable = ev]
  BY DEF Insert
<1>2. w = [page |-> w.page, ref |-> w.ref,
           evictable |-> w.evictable, protected |-> w.protected]
  BY DEF WellFormed
<1> HIDE DEF w, pg, rf, ev
<1>3. Insert(t, s, row) = [page |-> pg, ref |-> rf,
                           evictable |-> ev, protected |-> w.protected]
  BY <1>1, <1>2
<1>4. DOMAIN pg = Stored(w) \cup fresh
  BY DEF pg
<1>5. /\ DOMAIN rf = Nodes(w) \cup {Key(s, n)}
      /\ \A e \in Nodes(w) : e # Key(s, n) => rf[e] = w.ref[e]
      /\ rf[Key(s, n)] = 0
  BY DEF rf
<1> HIDE DEF n, fresh
<1>6. LET u == Insert(t, s, row) IN
      /\ u = [page |-> u.page, ref |-> u.ref,
              evictable |-> u.evictable, protected |-> u.protected]
      /\ Stored(u) = Stored(w) \cup fresh
      /\ Nodes(u) = Nodes(w) \cup {Key(s, n)}
      /\ \A e \in Nodes(w) : e # Key(s, n) => u.ref[e] = w.ref[e]
      /\ u.ref[Key(s, n)] = 0
  BY <1>3, <1>4, <1>5 DEF Stored, Nodes
<1> QED BY <1>6 DEF w, n, fresh

\* What an insertion does: the pages past the match become one new leaf that no
\* handle is at or below, because none of its prefixes was stored.
LEMMA InsertKeeps ==
  ASSUME NEW V, NEW t, WellFormed(t, V), NEW s \in Seq(V), NEW row,
         NEW R, NEW h, RefsMatch(t, R, h), HandlesIn(t, R, h)
  PROVE  LET u == Insert(t, s, row) IN
         /\ WellFormed(u, V)
         /\ RefsMatch(u, R, h)
         /\ HandlesIn(u, R, h)
         /\ Key(s, FullPages(Len(s))) \in Nodes(u) \cup {Root}
<1> DEFINE m == Matched(t, s)
           n == FullPages(Len(s))
           w == Walk(t, s)
           u == Insert(t, s, row)
           N == Key(s, n)
<1>1. /\ m \in 0..n /\ n \in Nat
      /\ \A i \in 1..m : Key(s, i) \in Stored(t)
      /\ m < n => Key(s, m + 1) \notin Stored(t)
  <2>1. n \in Nat
    BY PageArithmetic
  <2>2. /\ m \in 0..n
        /\ \A i \in 1..m : Key(s, i) \in Stored(t)
        /\ m < n => Key(s, m + 1) \notin Stored(t)
    BY MatchedSpec
  <2> QED BY <2>1, <2>2
<1>2. /\ WellFormed(w, V) /\ RefsMatch(w, R, h) /\ HandlesIn(w, R, h)
      /\ Stored(w) = Stored(t) /\ Key(s, m) \in Nodes(w) \cup {Root}
  BY WalkKeeps
<1>3. CASE m = n
  <2>1. u = w
    BY <1>3 DEF Insert
  <2> QED BY <1>2, <1>3, <2>1
<1>4. CASE m < n
  <2> DEFINE fresh == {Key(s, i) : i \in (m + 1)..n}
  <2>1. /\ Stored(u) = Stored(w) \cup fresh
        /\ Nodes(u) = Nodes(w) \cup {N}
        /\ \A e \in Nodes(w) : e # N => u.ref[e] = w.ref[e]
        /\ u.ref[N] = 0
        /\ u = [page |-> u.page, ref |-> u.ref,
                evictable |-> u.evictable, protected |-> u.protected]
    BY <1>1, <1>2, <1>4, InsertFields
  <2>2. \A i \in 1..n : Key(s, i) \in Whole(V) /\ Key(s, i) \in Seq(V)
    BY <1>1, KeyIsWhole DEF Whole
  <2>3. ASSUME NEW i \in 1..n, NEW j \in 1..i
        PROVE  StartsWith(Key(s, i), Key(s, j))
    <3>1. i * PageSize <= n * PageSize /\ n * PageSize <= Len(s)
      BY <1>1, PageArithmetic
    <3>2. i * PageSize \in Nat /\ n * PageSize \in Nat
      BY <1>1, PageArithmetic
    <3>3. i * PageSize <= Len(s)
      BY <3>1, <3>2
    <3> QED BY <3>3, KeysAreNested
  <2>4. N \in fresh /\ N \in Whole(V) /\ N \in Seq(V)
    BY <1>1, <1>4, <2>2
  <2>5. \A k \in Stored(w) : k \in Seq(V) /\ k \in Whole(V)
    BY <1>2, PrefixesAreSequences
  <2>6. \A e \in Nodes(w) : e \in Seq(V) /\ e \in Stored(w)
    BY <1>2, PrefixesAreSequences
  <2>7. ASSUME NEW i \in (m + 1)..n, NEW k \in Stored(w)
        PROVE  ~StartsWith(k, Key(s, i))
    <3>1. SUFFICES ASSUME StartsWith(k, Key(s, i)) PROVE FALSE
      OBVIOUS
    <3>2. m + 1 \in 1..n /\ m + 1 \in 1..i /\ i \in 1..n
      BY <1>1, <1>4
    <3>3. StartsWith(Key(s, i), Key(s, m + 1))
      BY <2>3, <3>2
    <3>4. StartsWith(k, Key(s, m + 1))
      BY <2>2, <2>5, <3>1, <3>2, <3>3, PrefixOrder
    <3>5. Key(s, m + 1) \in Stored(w)
      BY <1>2, <2>2, <2>5, <3>2, <3>4 DEF WellFormed
    <3> QED BY <1>1, <1>2, <1>4, <3>5
  <2>8. N \notin Nodes(w)
    BY <1>1, <1>4, <2>4, <2>6, <2>7, PrefixOrder
  <2> HIDE DEF w, u
  <2>9. WellFormed(u, V)
    <3>1. Nodes(u) \subseteq Stored(u)
      BY <2>1, <2>4, <2>6
    <3>2. Stored(u) \subseteq Whole(V)
      <4>1. fresh \subseteq Whole(V)
        BY <1>1, <2>2
      <4> QED BY <2>1, <2>5, <4>1
    <3>3. ASSUME NEW k \in Stored(u), NEW p \in Whole(V), StartsWith(k, p)
          PROVE  p \in Stored(u)
      <4>1. CASE k \in Stored(w)
        BY <1>2, <2>1, <3>3, <4>1 DEF WellFormed
      <4>2. CASE k \in fresh
        <5>1. PICK i \in (m + 1)..n : k = Key(s, i)
          BY <4>2
        <5>2. StartsWith(s, k)
          BY <1>1, <5>1, KeyIsWhole
        <5>3. StartsWith(s, p)
          BY <1>1, <2>2, <3>3, <5>1, <5>2, PrefixOrder DEF Whole
        <5>4. PICK j \in Nat \ {0} : j <= n /\ p = Key(s, j)
          BY <5>3, WholePrefixIsKey
        <5>5. CASE j <= m
          BY <1>1, <1>2, <2>1, <5>4, <5>5
        <5>6. CASE j > m
          BY <1>1, <2>1, <5>4, <5>6
        <5> QED BY <1>1, <5>4, <5>5, <5>6
      <4> QED BY <2>1, <4>1, <4>2
    <3>4. ASSUME NEW k \in Stored(u) PROVE \E e \in Nodes(u) : Covers(u, e, k)
      <4>1. CASE k \in fresh
        <5>1. PICK i \in (m + 1)..n : k = Key(s, i)
          BY <4>1
        <5>2. StartsWith(N, k)
          <6>1. n \in 1..n /\ i \in 1..n
            BY <1>1, <1>4
          <6> QED BY <2>3, <5>1, <6>1
        <5>3. \A f \in Nodes(u) : StartsWith(f, k) => StartsWith(f, N)
          BY <2>1, <2>4, <2>6, <2>7, <5>1, PrefixOrder
        <5> QED BY <2>1, <5>2, <5>3 DEF Covers
      <4>2. CASE k \in Stored(w)
        <5>1. PICK e \in Nodes(w) : Covers(w, e, k)
          BY <1>2, <4>2 DEF WellFormed
        <5>2. ASSUME StartsWith(N, k) PROVE StartsWith(N, e)
          <6>1. StartsWith(s, N)
            BY <1>1, <1>4, KeyIsWhole
          <6>2. StartsWith(s, k)
            BY <2>4, <2>5, <4>2, <5>2, <6>1, PrefixOrder
          <6>3. PICK j \in Nat \ {0} : j <= n /\ k = Key(s, j)
            BY <2>5, <4>2, <6>2, WholePrefixIsKey
          <6>4. j <= m
            BY <1>1, <2>5, <2>7, <4>2, <6>3, PrefixOrder
          <6>5. m \in 1..n /\ j \in 1..m /\ n \in 1..n /\ m \in 1..n
            BY <1>1, <6>3, <6>4
          <6>6. StartsWith(Key(s, m), k) /\ StartsWith(N, Key(s, m))
            BY <2>3, <6>3, <6>5
          <6>7. Key(s, m) \in Nodes(w)
            BY <1>2, <2>2, <6>5 DEF Whole
          <6>8. StartsWith(Key(s, m), e)
            BY <5>1, <6>6, <6>7 DEF Covers
          <6> QED BY <2>2, <2>4, <2>6, <5>1, <6>5, <6>6, <6>8, PrefixOrder
        <5>3. Covers(u, e, k)
          BY <2>1, <5>1, <5>2 DEF Covers
        <5> QED BY <2>1, <5>1, <5>3
      <4> QED BY <2>1, <4>1, <4>2
    <3> QED BY <2>1, <3>1, <3>2, <3>3, <3>4 DEF WellFormed
  <2>10. Holders(R, h, N) = {}
    <3>1. ASSUME NEW r \in R PROVE ~StartsWith(h[r], N)
      <4>1. CASE h[r] = Root
        BY <2>4, <4>1, RootStartsWithNothing DEF Whole
      <4>2. CASE h[r] \in Nodes(w)
        <5>1. n \in (m + 1)..n /\ h[r] \in Stored(w)
          BY <1>1, <1>4, <2>6, <4>2
        <5> QED BY <2>7, <5>1
      <4> QED BY <1>2, <4>1, <4>2 DEF HandlesIn
    <3> QED BY <3>1 DEF Holders
  <2>11. RefsMatch(u, R, h)
    BY <1>2, <2>1, <2>8, <2>10, FS_EmptySet DEF RefsMatch
  <2>12. HandlesIn(u, R, h)
    BY <1>2, <2>1 DEF HandlesIn
  <2> QED BY <2>1, <2>9, <2>11, <2>12 DEF u
<1> QED BY <1>1, <1>3, <1>4

-----------------------------------------------------------------------------
(* lock_handle. *)

\* What lock_handle does, locking and unlocking.
Moved(t, k, d, ev, pr) ==
    [t EXCEPT !.ref = Counted(t, k, d), !.evictable = ev, !.protected = pr]

\* Locking and unlocking leave the shape of the tree alone.
LEMMA MovedFields ==
  ASSUME NEW V, NEW t, WellFormed(t, V), NEW k, NEW d, NEW ev, NEW pr
  PROVE  LET u == Moved(t, k, d, ev, pr) IN
         /\ WellFormed(u, V) /\ Nodes(u) = Nodes(t)
         /\ \A e \in Nodes(t) : u.ref[e] = IF StartsWith(k, e) THEN t.ref[e] + d
                                                               ELSE t.ref[e]
<1> DEFINE rf == [e \in Nodes(t) |-> IF e \in OnPath(t, k) THEN t.ref[e] + d
                                                         ELSE t.ref[e]]
           u == Moved(t, k, d, ev, pr)
<1>1. u = [t EXCEPT !.ref = rf, !.evictable = ev, !.protected = pr]
  BY DEF Moved, Counted
<1>2. t = [page |-> t.page, ref |-> t.ref,
           evictable |-> t.evictable, protected |-> t.protected]
  BY DEF WellFormed
<1>3. /\ DOMAIN rf = Nodes(t)
      /\ \A e \in Nodes(t) : rf[e] = IF StartsWith(k, e) THEN t.ref[e] + d ELSE t.ref[e]
  BY DEF OnPath
<1> HIDE DEF rf, u
<1>4. u = [page |-> t.page, ref |-> rf, evictable |-> ev, protected |-> pr]
  BY <1>1, <1>2
<1>5. Nodes(u) = Nodes(t) /\ Stored(u) = Stored(t) /\ u.ref = rf
  BY <1>3, <1>4 DEF Nodes, Stored
<1>6. u = [page |-> u.page, ref |-> u.ref,
           evictable |-> u.evictable, protected |-> u.protected]
  BY <1>4
<1>7. WellFormed(u, V)
  BY <1>5, <1>6 DEF WellFormed, Covers
<1> QED BY <1>3, <1>5, <1>7 DEF u

\* Locking the handle k for r, which held the root, counts r on the path of k.
LEMMA LockKeeps ==
  ASSUME NEW V, NEW t, WellFormed(t, V), NEW k \in Nodes(t) \cup {Root},
         NEW R, IsFiniteSet(R), NEW h, RefsMatch(t, R, h), HandlesIn(t, R, h),
         NEW r \in R, h[r] = Root,
         NEW g, \A q \in R : g[q] = IF q = r THEN k ELSE h[q]
  PROVE  /\ WellFormed(Lock(t, k), V)
         /\ RefsMatch(Lock(t, k), R, g)
         /\ HandlesIn(Lock(t, k), R, g)
<1> DEFINE u == Lock(t, k)
<1>1. /\ WellFormed(u, V) /\ Nodes(u) = Nodes(t)
      /\ \A e \in Nodes(t) : u.ref[e] = IF StartsWith(k, e) THEN t.ref[e] + 1
                                                            ELSE t.ref[e]
  <2> DEFINE ev == t.evictable - PagesAt(t, k, 0)
             pr == t.protected + PagesAt(t, k, 0)
  <2>1. u = Moved(t, k, 1, ev, pr)
    BY DEF Lock, Moved
  <2> HIDE DEF u, ev, pr
  <2> QED BY <2>1, MovedFields
<1>2. ASSUME NEW e \in Nodes(t)
      PROVE  u.ref[e] = Cardinality(Holders(R, g, e))
  <2>1. ~StartsWith(Root, e)
    BY PrefixesAreSequences, RootStartsWithNothing
  <2>2. r \notin Holders(R, h, e)
    BY <2>1 DEF Holders
  <2>3. IsFiniteSet(Holders(R, h, e))
    BY FS_Subset DEF Holders
  <2>4. t.ref[e] = Cardinality(Holders(R, h, e))
    BY DEF RefsMatch
  <2>5. CASE StartsWith(k, e)
    <3>1. Holders(R, g, e) = Holders(R, h, e) \cup {r}
      BY <2>5 DEF Holders
    <3> QED BY <1>1, <2>2, <2>3, <2>4, <2>5, <3>1, FS_AddElement
  <2>6. CASE ~StartsWith(k, e)
    <3>1. Holders(R, g, e) = Holders(R, h, e)
      BY <2>1, <2>6 DEF Holders
    <3> QED BY <1>1, <2>4, <2>6, <3>1
  <2> QED BY <2>5, <2>6
<1> HIDE DEF u
<1>3. RefsMatch(u, R, g)
  BY <1>1, <1>2 DEF RefsMatch
<1>4. HandlesIn(u, R, g)
  BY <1>1 DEF HandlesIn
<1> QED BY <1>1, <1>3, <1>4 DEF u

\* Unlocking the handle of r takes r off its path.
LEMMA UnlockKeeps ==
  ASSUME NEW V, NEW t, WellFormed(t, V), NEW k,
         NEW R, IsFiniteSet(R), NEW h, RefsMatch(t, R, h), HandlesIn(t, R, h),
         NEW r \in R, h[r] = k,
         NEW g, \A q \in R : g[q] = IF q = r THEN Root ELSE h[q]
  PROVE  /\ WellFormed(Unlock(t, k), V)
         /\ RefsMatch(Unlock(t, k), R, g)
         /\ HandlesIn(Unlock(t, k), R, g)
         /\ Nodes(Unlock(t, k)) = Nodes(t)
<1> DEFINE u == Unlock(t, k)
<1>1. /\ WellFormed(u, V) /\ Nodes(u) = Nodes(t)
      /\ \A e \in Nodes(t) : u.ref[e] = IF StartsWith(k, e) THEN t.ref[e] + (-1)
                                                            ELSE t.ref[e]
  <2> DEFINE ev == t.evictable + PagesAt(t, k, 1)
             pr == t.protected - PagesAt(t, k, 1)
  <2>1. u = Moved(t, k, -1, ev, pr)
    BY DEF Unlock, Moved
  <2> HIDE DEF u, ev, pr
  <2> QED BY <2>1, MovedFields
<1>2. ASSUME NEW e \in Nodes(t)
      PROVE  u.ref[e] = Cardinality(Holders(R, g, e))
  <2>1. ~StartsWith(Root, e)
    BY PrefixesAreSequences, RootStartsWithNothing
  <2>2. IsFiniteSet(Holders(R, h, e))
    BY FS_Subset DEF Holders
  <2>3. t.ref[e] = Cardinality(Holders(R, h, e)) /\ t.ref[e] \in Nat
    BY <2>2, FS_CardinalityType DEF RefsMatch
  <2>4. CASE StartsWith(k, e)
    <3>1. Holders(R, g, e) = Holders(R, h, e) \ {r} /\ r \in Holders(R, h, e)
      BY <2>1, <2>4 DEF Holders
    <3>2. Cardinality(Holders(R, g, e)) = Cardinality(Holders(R, h, e)) - 1
      BY <2>2, <3>1, FS_RemoveElement
    <3> QED BY <1>1, <2>3, <2>4, <3>2
  <2>5. CASE ~StartsWith(k, e)
    <3>1. Holders(R, g, e) = Holders(R, h, e)
      BY <2>1, <2>5 DEF Holders
    <3> QED BY <1>1, <2>3, <2>5, <3>1
  <2> QED BY <2>4, <2>5
<1> HIDE DEF u
<1>3. RefsMatch(u, R, g)
  BY <1>1, <1>2 DEF RefsMatch
<1>4. HandlesIn(u, R, g)
  BY <1>1 DEF HandlesIn
<1> QED BY <1>1, <1>3, <1>4 DEF u

-----------------------------------------------------------------------------
(* evict. *)

\* evict pops unlocked leaves: the tree stays closed under prefixes, and no
\* handle loses its node.
LEMMA RemoveKeeps ==
  ASSUME NEW V, NEW t, WellFormed(t, V),
         NEW E \in SUBSET Nodes(t), E \subseteq Unlocked(t), LeafFirst(t, E),
         NEW R, IsFiniteSet(R), NEW h, RefsMatch(t, R, h), HandlesIn(t, R, h)
  PROVE  /\ WellFormed(RemoveNodes(t, E), V)
         /\ RefsMatch(RemoveNodes(t, E), R, h)
         /\ HandlesIn(RemoveNodes(t, E), R, h)
<1> DEFINE u == RemoveNodes(t, E)
           gone == PrefixesOf(t, E)
           pg == [k \in Stored(t) \ gone |-> t.page[k]]
           rf == [e \in Nodes(t) \ E |-> t.ref[e]]
           ev == t.evictable - Cardinality(gone)
<1>1. /\ Stored(u) = Stored(t) \ gone
      /\ Nodes(u) = Nodes(t) \ E
      /\ \A e \in Nodes(u) : u.ref[e] = t.ref[e]
      /\ u = [page |-> u.page, ref |-> u.ref,
              evictable |-> u.evictable, protected |-> u.protected]
  <2>1. u = [t EXCEPT !.page = pg, !.ref = rf, !.evictable = ev]
    BY DEF RemoveNodes
  <2>2. t = [page |-> t.page, ref |-> t.ref,
             evictable |-> t.evictable, protected |-> t.protected]
    BY DEF WellFormed
  <2>3. DOMAIN pg = Stored(t) \ gone
    OBVIOUS
  <2>4. DOMAIN rf = Nodes(t) \ E /\ \A e \in Nodes(t) \ E : rf[e] = t.ref[e]
    OBVIOUS
  <2> HIDE DEF pg, rf, ev, u, gone
  <2>5. u = [page |-> pg, ref |-> rf, evictable |-> ev, protected |-> t.protected]
    BY <2>1, <2>2
  <2> QED BY <2>3, <2>4, <2>5 DEF Stored, Nodes
<1>2. /\ \A k \in Stored(t) : k \in Seq(V)
      /\ \A e \in Nodes(t) : e \in Seq(V) /\ e \in Stored(t) /\ e # Root
  BY PrefixesAreSequences
<1>3. \A k \in Stored(t) : NodeOf(t, k) \in Nodes(t) /\ Covers(t, NodeOf(t, k), k)
  BY NodeOfCovers
<1>4. \A k \in Stored(u) : k \in Stored(t) /\ NodeOf(t, k) \in Nodes(t) \ E
  BY <1>1, <1>3 DEF PrefixesOf
<1>5. \A e \in Nodes(t) : NodeOf(t, e) = e
  BY <1>2, <1>3, PrefixOrder DEF Covers
<1> HIDE DEF u
<1>6. Nodes(u) \subseteq Stored(u)
  BY <1>1, <1>2, <1>5 DEF PrefixesOf
<1>7. ASSUME NEW k \in Stored(u), NEW p \in Whole(V), StartsWith(k, p)
      PROVE  p \in Stored(u)
  <2>1. p \in Stored(t)
    BY <1>4, <1>7 DEF WellFormed
  <2>2. SUFFICES ASSUME NodeOf(t, p) \in E PROVE FALSE
    BY <1>1, <2>1 DEF PrefixesOf
  <2>3. StartsWith(NodeOf(t, k), k)
    BY <1>3, <1>4 DEF Covers
  <2>4. StartsWith(NodeOf(t, k), p)
    BY <1>2, <1>4, <1>7, <2>1, <2>3, PrefixOrder
  <2>5. StartsWith(NodeOf(t, k), NodeOf(t, p))
    BY <1>3, <1>4, <2>1, <2>4 DEF Covers
  <2> QED BY <1>4, <2>2, <2>5 DEF LeafFirst
<1>8. ASSUME NEW k \in Stored(u) PROVE \E e \in Nodes(u) : Covers(u, e, k)
  <2>1. Covers(u, NodeOf(t, k), k)
    BY <1>1, <1>3, <1>4 DEF Covers
  <2> QED BY <1>1, <1>4, <2>1
<1>9. WellFormed(u, V)
  <2>1. Stored(u) \subseteq Whole(V)
    BY <1>1 DEF WellFormed
  <2> QED BY <1>1, <1>6, <1>7, <1>8, <2>1 DEF WellFormed
<1>10. RefsMatch(u, R, h)
  BY <1>1 DEF RefsMatch
<1>11. ASSUME NEW r \in R, h[r] \in Nodes(t) PROVE h[r] \notin E
  <2>1. r \in Holders(R, h, h[r])
    BY <1>2, <1>11, PrefixOrder DEF Holders
  <2>2. IsFiniteSet(Holders(R, h, h[r]))
    BY FS_Subset DEF Holders
  <2>3. Cardinality(Holders(R, h, h[r])) # 0
    BY <2>1, <2>2, FS_EmptySet
  <2> QED BY <1>11, <2>3 DEF RefsMatch, Unlocked
<1>12. HandlesIn(u, R, h)
  BY <1>1, <1>11 DEF HandlesIn
<1> QED BY <1>9, <1>10, <1>12 DEF u

-----------------------------------------------------------------------------
(* More arithmetic of pages. *)

\* The quotient by the page size.
LEMMA PageQuotient ==
  ASSUME NEW n \in Nat, NEW q \in Nat, q * PageSize <= n, n < (q + 1) * PageSize
  PROVE  FullPages(n) = q
  BY PageSizeAssumption DEF FullPages

\* align_down and div_ceil miss a length by less than a page.
LEMMA PageBounds ==
  ASSUME NEW n \in Nat
  PROVE  /\ FullPages(n) \in Nat /\ PagesFor(n) \in Nat
         /\ FullPages(n) * PageSize <= n /\ n < (FullPages(n) + 1) * PageSize
         /\ n <= PagesFor(n) * PageSize /\ PagesFor(n) * PageSize < n + PageSize
         /\ FullPages(n) <= PagesFor(n) 
  BY PageSizeAssumption DEF FullPages, PagesFor

\* A length of whole pages is rounded neither down nor up.
LEMMA PagesOfWhole ==
  ASSUME NEW m \in Nat
  PROVE  FullPages(m * PageSize) = m /\ PagesFor(m * PageSize) = m
  BY PageSizeAssumption DEF FullPages, PagesFor

\* A longer length never takes fewer pages: a row only grows with cached_len.
LEMMA PagesMonotone ==
  ASSUME NEW n \in Nat, NEW k \in Nat, n <= k
  PROVE  FullPages(n) <= FullPages(k) /\ PagesFor(n) <= PagesFor(k)
  BY PageSizeAssumption DEF FullPages, PagesFor

\* The keys of s are its prefixes of whole pages, each of its own length.
LEMMA KeysApart ==
  ASSUME NEW V, NEW s \in Seq(V), NEW i \in Nat, i <= FullPages(Len(s))
  PROVE  /\ i * PageSize <= Len(s)
         /\ Key(s, i) \in Seq(V) /\ Len(Key(s, i)) = i * PageSize
         /\ Len(Key(s, i)) \div PageSize = i
         /\ \A j \in Nat : j <= FullPages(Len(s)) /\ Key(s, j) = Key(s, i) => j = i
<1>1. ASSUME NEW j \in Nat, j <= FullPages(Len(s))
      PROVE  /\ j * PageSize <= Len(s)
             /\ Key(s, j) \in Seq(V) /\ Len(Key(s, j)) = j * PageSize
             /\ Len(Key(s, j)) \div PageSize = j
  <2>1. Len(s) \in Nat /\ j * PageSize \in Nat
    <3>1. Len(s) \in Nat
      OBVIOUS
    <3> QED BY <3>1, PageArithmetic
  <2>2. /\ FullPages(Len(s)) \in Nat
        /\ j * PageSize <= FullPages(Len(s)) * PageSize
        /\ FullPages(Len(s)) * PageSize <= Len(s)
    BY <1>1, <2>1, PageArithmetic
  <2>3. j * PageSize <= Len(s)
    <3>1. FullPages(Len(s)) * PageSize \in Nat
      BY <2>2, PageArithmetic
    <3> QED BY <2>1, <2>2, <3>1
  <2>4. Key(s, j) \in Seq(V) /\ Len(Key(s, j)) = j * PageSize
    BY <2>3, KeyIsPrefix
  <2>5. (j * PageSize) \div PageSize = j
    BY PagesOfWhole DEF FullPages
  <2> QED BY <2>3, <2>4, <2>5
<1> QED BY <1>1

-----------------------------------------------------------------------------
(* The pages in the tree. *)

\* A walk stores nothing and forgets nothing; at most it splits a node.
LEMMA WalkFields ==
  ASSUME NEW V, NEW t, WellFormed(t, V), NEW s \in Seq(V)
  PROVE  LET w == Walk(t, s)
             k == Key(s, Matched(t, s)) IN
         /\ WellFormed(w, V)
         /\ w.page = t.page /\ Stored(w) = Stored(t)
         /\ w.evictable = t.evictable /\ w.protected = t.protected
         /\ w = t \/ (k \in Stored(t) /\ w = Split(t, k))
         /\ k \in Nodes(w) \cup {Root}
<1> DEFINE m == Matched(t, s)
           k == Key(s, m)
<1>1. m \in Nat /\ \A i \in 1..m : Key(s, i) \in Stored(t)
  <2>1. m \in 0..FullPages(Len(s)) /\ \A i \in 1..m : Key(s, i) \in Stored(t)
    BY MatchedSpec
  <2> QED BY <2>1, PageArithmetic
<1>2. Walk(t, s) = Split(t, k)
  BY DEF Walk
<1> HIDE DEF m
<1>3. CASE m = 0
  <2>1. k = Root
    BY <1>3, KeyZero
  <2>2. Walk(t, s) = t
    BY <1>2, <2>1 DEF Split
  <2> QED BY <2>1, <2>2 DEF m
<1>4. CASE m # 0
  <2>1. k \in Stored(t)
    <3>1. m \in 1..m
      BY <1>1, <1>4
    <3> QED BY <1>1, <3>1
  <2> HIDE DEF k
  <2>2. /\ Split(t, k).page = t.page /\ Stored(Split(t, k)) = Stored(t)
        /\ k \in Nodes(Split(t, k)) /\ WellFormed(Split(t, k), V)
    BY <2>1, SplitFields, SplitWellFormed
  <2>3. Split(t, k).evictable = t.evictable /\ Split(t, k).protected = t.protected
    BY DEF Split, WellFormed
  <2> QED BY <1>2, <2>1, <2>2, <2>3 DEF k, m
<1> QED BY <1>3, <1>4

\* What an insertion of new pages adds: the row's page for every key past the
\* match, as evictable pages.
LEMMA InsertRecord ==
  ASSUME NEW V, NEW t, NEW s \in Seq(V), NEW row,
         WellFormed(Walk(t, s), V), Matched(t, s) # FullPages(Len(s))
  PROVE  LET w == Walk(t, s)
             u == Insert(t, s, row)
             m == Matched(t, s)
             n == FullPages(Len(s))
             fresh == {Key(s, i) : i \in (m + 1)..n} IN
         /\ u.page = [k \in Stored(w) \cup fresh |->
                         IF k \in fresh THEN row[Len(k) \div PageSize] ELSE w.page[k]]
<1> DEFINE w == Walk(t, s)
           n == FullPages(Len(s))
           fresh == {Key(s, i) : i \in (Matched(t, s) + 1)..n}
           pg == [k \in Stored(w) \cup fresh |->
                     IF k \in fresh THEN row[Len(k) \div PageSize] ELSE w.page[k]]
           rf == [e \in Nodes(w) \cup {Key(s, n)} |->
                     IF e = Key(s, n) THEN 0 ELSE w.ref[e]]
           ev == w.evictable + (n - Matched(t, s))
<1>1. Insert(t, s, row) = [w EXCEPT !.page = pg, !.ref = rf, !.evictable = ev]
  BY DEF Insert
<1>2. w = [page |-> w.page, ref |-> w.ref,
           evictable |-> w.evictable, protected |-> w.protected]
  BY DEF WellFormed
<1> HIDE DEF w, pg, rf, ev
<1>3. Insert(t, s, row) = [page |-> pg, ref |-> rf,
                           evictable |-> ev, protected |-> w.protected]
  BY <1>1, <1>2
<1>4. Insert(t, s, row).page = pg
  BY <1>3
<1> QED BY <1>4 DEF w, pg

\* The counters after an insertion of new pages.
LEMMA InsertCounters ==
  ASSUME NEW V, NEW t, NEW s \in Seq(V), NEW row,
         WellFormed(Walk(t, s), V), Matched(t, s) # FullPages(Len(s))
  PROVE  /\ Insert(t, s, row).evictable
                = Walk(t, s).evictable + (FullPages(Len(s)) - Matched(t, s))
         /\ Insert(t, s, row).protected = Walk(t, s).protected
<1> DEFINE w == Walk(t, s)
           n == FullPages(Len(s))
           fresh == {Key(s, i) : i \in (Matched(t, s) + 1)..n}
           pg == [k \in Stored(w) \cup fresh |->
                     IF k \in fresh THEN row[Len(k) \div PageSize] ELSE w.page[k]]
           rf == [e \in Nodes(w) \cup {Key(s, n)} |->
                     IF e = Key(s, n) THEN 0 ELSE w.ref[e]]
           ev == w.evictable + (n - Matched(t, s))
<1>1. Insert(t, s, row) = [w EXCEPT !.page = pg, !.ref = rf, !.evictable = ev]
  BY DEF Insert
<1>2. w = [page |-> w.page, ref |-> w.ref,
           evictable |-> w.evictable, protected |-> w.protected]
  BY DEF WellFormed
<1> HIDE DEF w, pg, rf, ev
<1>3. Insert(t, s, row).evictable = ev /\ Insert(t, s, row).protected = w.protected
  BY <1>1, <1>2
<1> QED BY <1>3 DEF w, ev

\* The keys past the match are not in the tree, nor is anything below them.
LEMMA BeyondMatch ==
  ASSUME NEW V, NEW t, WellFormed(t, V), NEW s \in Seq(V),
         NEW i \in Nat, Matched(t, s) < i, i <= FullPages(Len(s))
  PROVE  /\ Key(s, i) \notin Stored(t)
         /\ \A k \in Stored(t) : ~StartsWith(k, Key(s, i))
<1> DEFINE m == Matched(t, s)
<1>1. m \in Nat /\ m < FullPages(Len(s)) /\ m + 1 <= i /\ FullPages(Len(s)) \in Nat
  <2>1. m \in 0..FullPages(Len(s))
    BY MatchedSpec
  <2>2. FullPages(Len(s)) \in Nat
    <3>1. Len(s) \in Nat
      OBVIOUS
    <3> QED BY <3>1, PageArithmetic
  <2> QED BY <2>1, <2>2
<1>2. Key(s, m + 1) \notin Stored(t)
  BY <1>1, MatchedSpec
<1> HIDE DEF m
<1>3. /\ Key(s, m + 1) \in Whole(V) /\ Key(s, i) \in Whole(V)
      /\ StartsWith(Key(s, i), Key(s, m + 1))
  <2>1. i * PageSize <= Len(s)
    BY KeysApart
  <2>2. m + 1 \in Nat \ {0} /\ m + 1 <= FullPages(Len(s)) /\ i \in Nat \ {0}
    BY <1>1
  <2> QED BY <1>1, <2>1, <2>2, KeyIsWhole, KeysAreNested
<1>4. ASSUME NEW k \in Stored(t), StartsWith(k, Key(s, i)) PROVE FALSE
  <2>1. Key(s, i) \in Stored(t)
    BY <1>3, <1>4 DEF WellFormed
  <2> QED BY <1>2, <1>3, <2>1 DEF WellFormed
<1>5. Key(s, i) \notin Stored(t)
  <2>1. StartsWith(Key(s, i), Key(s, i))
    BY <1>3, PrefixOrder DEF Whole
  <2> QED BY <1>4, <2>1
<1> QED BY <1>4, <1>5

\* What an insertion stores.
LEMMA InsertPages ==
  ASSUME NEW V, NEW t, WellFormed(t, V), NEW s \in Seq(V), NEW row
  PROVE  LET u == Insert(t, s, row)
             m == Matched(t, s)
             n == FullPages(Len(s)) IN
         /\ m \in Nat /\ n \in Nat /\ m <= n
         /\ Stored(u) = Stored(t) \cup {Key(s, i) : i \in (m + 1)..n}
         /\ \A k \in Stored(t) : u.page[k] = t.page[k]
         /\ \A i \in (m + 1)..n : u.page[Key(s, i)] = row[i]
<1> DEFINE u == Insert(t, s, row)
           m == Matched(t, s)
           n == FullPages(Len(s))
           w == Walk(t, s)
           fresh == {Key(s, i) : i \in (m + 1)..n}
<1>1. m \in Nat /\ n \in Nat /\ m <= n
  <2>1. m \in 0..n
    BY MatchedSpec
  <2>2. n \in Nat
    <3>1. Len(s) \in Nat
      OBVIOUS
    <3> QED BY <3>1, PageArithmetic
  <2> QED BY <2>1, <2>2
<1>2. WellFormed(w, V) /\ w.page = t.page /\ Stored(w) = Stored(t)
  BY WalkFields
<1>3. CASE m = n
  <2>1. u = w
    BY <1>3 DEF Insert
  <2>2. (m + 1)..n = {}
    BY <1>1, <1>3
  <2> QED BY <1>1, <1>2, <2>1, <2>2 DEF Stored
<1>4. CASE m # n
  <2>1. u.page = [k \in Stored(w) \cup fresh |->
                     IF k \in fresh THEN row[Len(k) \div PageSize] ELSE w.page[k]]
    BY <1>2, <1>4, InsertRecord
  <2>2. Stored(u) = Stored(t) \cup fresh
    BY <1>2, <2>1 DEF Stored
  <2>3. ASSUME NEW i \in (m + 1)..n
        PROVE  Key(s, i) \notin Stored(t) /\ Len(Key(s, i)) \div PageSize = i
    <3>1. i \in Nat /\ m < i /\ i <= n
      BY <1>1
    <3> QED BY <3>1, BeyondMatch, KeysApart
  <2>4. \A k \in Stored(t) : k \notin fresh
    BY <2>3
  <2>5. ASSUME NEW i \in (m + 1)..n PROVE u.page[Key(s, i)] = row[i]
    <3>1. Key(s, i) \in fresh
      OBVIOUS
    <3> HIDE DEF fresh, u
    <3> QED BY <2>1, <2>3, <3>1
  <2>6. \A k \in Stored(t) : u.page[k] = t.page[k]
    <3> HIDE DEF fresh, u
    <3> QED BY <1>2, <2>1, <2>4
  <2> QED BY <1>1, <2>2, <2>5, <2>6 DEF Stored
<1> QED BY <1>3, <1>4

\* The stored prefixes map to pages after an insertion as before it.
LEMMA InsertMaps ==
  ASSUME NEW V, NEW t, WellFormed(t, V), NEW s \in Seq(V), NEW row
  PROVE  LET u == Insert(t, s, row) IN
         t.page = [k \in Stored(t) |-> t.page[k]] => u.page = [k \in Stored(u) |-> u.page[k]]
<1> DEFINE u == Insert(t, s, row)
           m == Matched(t, s)
           n == FullPages(Len(s))
           w == Walk(t, s)
           fresh == {Key(s, i) : i \in (m + 1)..n}
<1>1. WellFormed(w, V) /\ w.page = t.page /\ Stored(w) = Stored(t)
  BY WalkFields
<1>2. CASE m = n
  <2>1. u = w
    BY <1>2 DEF Insert
  <2> QED BY <1>1, <2>1
<1>3. CASE m # n
  <2>1. u.page = [k \in Stored(w) \cup fresh |->
                     IF k \in fresh THEN row[Len(k) \div PageSize] ELSE w.page[k]]
    BY <1>1, <1>3, InsertRecord
  <2> HIDE DEF u, fresh
  <2>2. u.page = [k \in DOMAIN u.page |-> u.page[k]]
    BY <2>1
  <2> QED BY <2>2 DEF u, Stored
<1> QED BY <1>2, <1>3

\* Locking, unlocking and eviction leave the pages that stay where they are.
LEMMA LockPages ==
  ASSUME NEW V, NEW t, WellFormed(t, V), NEW k
  PROVE  /\ Lock(t, k).page = t.page /\ Stored(Lock(t, k)) = Stored(t)
         /\ Unlock(t, k).page = t.page /\ Stored(Unlock(t, k)) = Stored(t)
  BY DEF WellFormed, Lock, Unlock, Stored

\* evict: what is left keeps its pages and counts, and evictable_size loses
\* exactly the evicted pages.
LEMMA RemovePages ==
  ASSUME NEW V, NEW t, WellFormed(t, V), NEW E
  PROVE  LET u == RemoveNodes(t, E) IN
         /\ Stored(u) = Stored(t) \ PrefixesOf(t, E)
         /\ \A k \in Stored(u) : u.page[k] = t.page[k]
         /\ Nodes(u) = Nodes(t) \ E
         /\ \A e \in Nodes(u) : u.ref[e] = t.ref[e]
         /\ u.evictable = t.evictable - Cardinality(PrefixesOf(t, E))
         /\ u.protected = t.protected
  BY DEF WellFormed, RemoveNodes, Stored, Nodes

\* What is left after an eviction still maps to pages.
LEMMA RemoveMaps ==
  ASSUME NEW V, NEW t, WellFormed(t, V), NEW E
  PROVE  LET u == RemoveNodes(t, E) IN u.page = [k \in Stored(u) |-> u.page[k]]
<1> DEFINE u == RemoveNodes(t, E)
           P == Stored(t) \ PrefixesOf(t, E)
<1>1. u.page = [k \in P |-> t.page[k]]
  BY DEF WellFormed, RemoveNodes
<1> HIDE DEF u, P
<1>2. u.page = [k \in Stored(u) |-> u.page[k]]
  BY <1>1 DEF Stored
<1> QED BY <1>2 DEF u

-----------------------------------------------------------------------------
(* The size counters. *)

\* The pages in locked nodes.
Held(t) == {k \in Stored(t) : Locked(t, k)}

\* evictable_size and protected_size are the unlocked and the locked pages.
SizesMatch(t) == /\ IsFiniteSet(Stored(t))
                 /\ t.evictable = Cardinality(Stored(t) \ Held(t))
                 /\ t.protected = Cardinality(Held(t))

\* Only one node covers a stored page: the segments of the tree do not overlap.
LEMMA CoverUnique ==
  ASSUME NEW V, NEW t, WellFormed(t, V), NEW k \in Stored(t),
         NEW e \in Nodes(t), Covers(t, e, k)
  PROVE  NodeOf(t, k) = e
<1>1. NodeOf(t, k) \in Nodes(t) /\ Covers(t, NodeOf(t, k), k)
  BY NodeOfCovers
<1>2. StartsWith(e, NodeOf(t, k)) /\ StartsWith(NodeOf(t, k), e)
  BY <1>1 DEF Covers
<1>3. e \in Seq(V) /\ NodeOf(t, k) \in Seq(V)
  BY <1>1, PrefixesAreSequences
<1> QED BY <1>2, <1>3, PrefixOrder

\* Splitting a node changes the count of no page.
LEMMA SplitHeld ==
  ASSUME NEW V, NEW t, WellFormed(t, V), NEW k \in Stored(t)
  PROVE  Held(Split(t, k)) = Held(t)
<1> DEFINE u == Split(t, k)
<1>1. CASE k \in Nodes(t)
  BY <1>1 DEF Split
<1>2. CASE k \notin Nodes(t)
  <2>1. /\ Stored(u) = Stored(t) /\ Nodes(u) = Nodes(t) \cup {k}
        /\ \A e \in Nodes(t) : u.ref[e] = t.ref[e]
        /\ u.ref[k] = t.ref[NodeOf(t, k)]
    BY <1>2, SplitFields
  <2>2. WellFormed(u, V)
    BY SplitWellFormed
  <2> HIDE DEF u
  <2>3. ASSUME NEW q \in Stored(t)
        PROVE  u.ref[NodeOf(u, q)] = t.ref[NodeOf(t, q)]
    <3>1. NodeOf(u, q) \in Nodes(u) /\ Covers(u, NodeOf(u, q), q)
      BY <2>1, <2>2, NodeOfCovers
    <3>2. CASE NodeOf(u, q) \in Nodes(t)
      <4>1. Covers(t, NodeOf(u, q), q)
        BY <2>1, <3>1 DEF Covers
      <4>2. NodeOf(t, q) = NodeOf(u, q)
        BY <3>2, <4>1, CoverUnique
      <4> QED BY <2>1, <3>2, <4>2
    <3>3. CASE NodeOf(u, q) = k
      <4> DEFINE c == NodeOf(t, k)
      <4>1. c \in Nodes(t) /\ Covers(t, c, k)
        BY NodeOfCovers
      <4>2. c \in Seq(V) /\ k \in Seq(V) /\ q \in Seq(V)
        BY <4>1, PrefixesAreSequences
      <4> HIDE DEF c
      <4>3. StartsWith(c, q)
        BY <3>1, <3>3, <4>1, <4>2, PrefixOrder DEF Covers
      <4>4. ASSUME NEW f \in Nodes(t), StartsWith(f, q) PROVE StartsWith(f, c)
        <5>1. StartsWith(f, k)
          BY <2>1, <3>1, <3>3, <4>4 DEF Covers
        <5> QED BY <4>1, <5>1 DEF Covers
      <4>5. NodeOf(t, q) = c
        BY <4>1, <4>3, <4>4, CoverUnique DEF Covers
      <4> QED BY <2>1, <3>3, <4>5 DEF c
    <3> QED BY <2>1, <3>1, <3>2, <3>3
  <2> QED BY <2>1, <2>3 DEF Held, Locked, u
<1> QED BY <1>1, <1>2

\* A walk that splits a segment moves no page between the evictable and the
\* protected ones, so it may leave the two sizes alone, as split_at does.
LEMMA WalkSizes ==
  ASSUME NEW V, NEW t, WellFormed(t, V), NEW s \in Seq(V), SizesMatch(t)
  PROVE  Held(Walk(t, s)) = Held(t) /\ SizesMatch(Walk(t, s))
<1>1. Held(Walk(t, s)) = Held(t)
  BY WalkFields, SplitHeld
<1> QED BY <1>1, WalkFields, ZenonT(30) DEF SizesMatch

\* An interval of keys has as many elements as the interval.
LEMMA KeysCount ==
  ASSUME NEW V, NEW s \in Seq(V), NEW m \in Nat, m <= FullPages(Len(s))
  PROVE  LET n == FullPages(Len(s))
             fresh == {Key(s, i) : i \in (m + 1)..n} IN
         IsFiniteSet(fresh) /\ Cardinality(fresh) = n - m
<1> DEFINE n == FullPages(Len(s))
           fresh == {Key(s, i) : i \in (m + 1)..n}
           f == [i \in (m + 1)..n |-> Key(s, i)]
<1>1. n \in Nat
  <2>1. Len(s) \in Nat
    OBVIOUS
  <2> QED BY <2>1, PageArithmetic
<1>2. \A i, j \in (m + 1)..n : Key(s, i) = Key(s, j) => i = j
  BY <1>1, KeysApart
<1> HIDE DEF n
<1>3. f \in Bijection((m + 1)..n, fresh)
  <2>1. f \in [(m + 1)..n -> fresh]
    OBVIOUS
  <2>2. f \in Injection((m + 1)..n, fresh)
    BY <1>2, <2>1 DEF Injection, IsInjective
  <2>3. f \in Surjection((m + 1)..n, fresh)
    BY <2>1 DEF Surjection
  <2> QED BY <2>2, <2>3 DEF Bijection
<1>4. ExistsBijection((m + 1)..n, fresh)
  BY <1>3 DEF ExistsBijection
<1>5. IsFiniteSet((m + 1)..n) /\ Cardinality((m + 1)..n) = n - m
  <2>1. m + 1 \in Int /\ n \in Int /\ m <= n
    BY <1>1 DEF n
  <2>2. /\ IsFiniteSet((m + 1)..n)
        /\ Cardinality((m + 1)..n) = IF m + 1 > n THEN 0 ELSE n - (m + 1) + 1
    BY <2>1, FS_Interval
  <2> QED BY <1>1, <2>1, <2>2
<1>6. IsFiniteSet(fresh) /\ Cardinality(fresh) = n - m
  <2> HIDE DEF fresh, f
  <2> QED BY <1>4, <1>5, FS_Bijection
<1> QED BY <1>6 DEF n

\* Counting two sets that have nothing in common.
LEMMA CountApart ==
  ASSUME NEW S, IsFiniteSet(S), NEW T, IsFiniteSet(T), S \cap T = {}
  PROVE  /\ IsFiniteSet(S \cup T)
         /\ Cardinality(S \cup T) = Cardinality(S) + Cardinality(T)
         /\ Cardinality(S) \in Nat /\ Cardinality(T) \in Nat
<1>1. Cardinality(S \cup T) = Cardinality(S) + Cardinality(T) - Cardinality(S \cap T)
  BY FS_Union
<1>2. Cardinality(S \cap T) = 0
  BY FS_EmptySet
<1>3. Cardinality(S) \in Nat /\ Cardinality(T) \in Nat
  BY FS_CardinalityType
<1> QED BY <1>1, <1>2, <1>3, FS_Union

\* What is inserted is one unlocked node; it changes the count of no other page.
LEMMA InsertHeld ==
  ASSUME NEW V, NEW t, WellFormed(t, V), NEW s \in Seq(V), NEW row,
         WellFormed(Insert(t, s, row), V)
  PROVE  Held(Insert(t, s, row)) = Held(t)
<1> DEFINE u == Insert(t, s, row)
           m == Matched(t, s)
           n == FullPages(Len(s))
           w == Walk(t, s)
           N == Key(s, n)
<1>1. /\ WellFormed(w, V) /\ Stored(w) = Stored(t)
      /\ Held(w) = Held(t) /\ Key(s, m) \in Nodes(w) \cup {Root}
  <2>1. /\ WellFormed(w, V) /\ Stored(w) = Stored(t)
        /\ Key(s, m) \in Nodes(w) \cup {Root}
        /\ w = t \/ (Key(s, m) \in Stored(t) /\ w = Split(t, Key(s, m)))
    BY WalkFields
  <2> QED BY <2>1, SplitHeld
<1>2. m \in Nat /\ n \in Nat /\ m <= n
  BY InsertPages
<1>3. CASE m = n
  BY <1>1, <1>3 DEF Insert
<1>4. CASE m # n
  <2>1. /\ Stored(u) = Stored(w) \cup {Key(s, i) : i \in (m + 1)..n}
        /\ Nodes(u) = Nodes(w) \cup {N}
        /\ \A e \in Nodes(w) : e # N => u.ref[e] = w.ref[e]
        /\ u.ref[N] = 0
    BY <1>1, <1>4, InsertFields
  <2>2. ASSUME NEW i \in (m + 1)..n
        PROVE  /\ Key(s, i) \notin Stored(w)
               /\ \A k \in Stored(w) : ~StartsWith(k, Key(s, i))
    <3>1. i \in Nat /\ Matched(t, s) < i /\ i <= FullPages(Len(s))
      BY <1>2
    <3> QED BY <1>1, <3>1, BeyondMatch
  <2>3. N \notin Stored(w) /\ N \notin Nodes(w) /\ Nodes(w) \subseteq Stored(w)
    <3>1. n \in (m + 1)..n
      BY <1>2, <1>4
    <3> QED BY <1>1, <2>2, <3>1 DEF WellFormed
  <2>4. n * PageSize <= Len(s) /\ N \in Seq(V) /\ N \in Nodes(u)
    BY <1>2, <2>1, KeysApart
  <2>5. ASSUME NEW i \in (m + 1)..n PROVE NodeOf(u, Key(s, i)) = N
    <3>1. StartsWith(N, Key(s, i))
      BY <1>2, <2>4, KeysAreNested
    <3>2. ASSUME NEW f \in Nodes(u), StartsWith(f, Key(s, i)) PROVE StartsWith(f, N)
      <4>1. f = N
        BY <2>1, <2>2, <2>3, <3>2
      <4> QED BY <2>4, <4>1, PrefixOrder
    <3>3. Key(s, i) \in Stored(u)
      BY <2>1
    <3>4. Covers(u, N, Key(s, i))
      BY <3>1, <3>2 DEF Covers
    <3> HIDE DEF u, N
    <3> QED BY <2>4, <3>3, <3>4, CoverUnique DEF u
  <2>6. ASSUME NEW k \in Stored(w)
        PROVE  NodeOf(u, k) = NodeOf(w, k) /\ NodeOf(w, k) \in Nodes(w)
    <3> DEFINE e == NodeOf(w, k)
    <3>1. e \in Nodes(w) /\ Covers(w, e, k)
      BY <1>1, NodeOfCovers
    <3>2. /\ e \in Seq(V) /\ k \in Seq(V) /\ k \in Whole(V)
      BY <1>1, <3>1, PrefixesAreSequences
    <3> HIDE DEF e
    <3>3. ASSUME StartsWith(N, k) PROVE StartsWith(N, e)
      <4>1. StartsWith(s, N)
        BY <1>2, <2>4, KeysAreNested
      <4>2. StartsWith(s, k)
        BY <2>4, <3>2, <3>3, <4>1, PrefixOrder
      <4>3. PICK j \in Nat \ {0} : j <= n /\ k = Key(s, j)
        BY <3>2, <4>2, WholePrefixIsKey
      <4>4. j <= m
        <5>1. j \notin (m + 1)..n
          BY <2>2, <4>3
        <5> QED BY <1>2, <4>3, <5>1
      <4>5. StartsWith(Key(s, m), k) /\ StartsWith(N, Key(s, m)) /\ m * PageSize <= Len(s)
        <5>1. m * PageSize <= Len(s)
          BY <1>2, KeysApart
        <5> QED BY <1>2, <2>4, <4>3, <4>4, <5>1, KeysAreNested
      <4>6. Key(s, m) \in Seq(V)
        BY <1>2, KeysApart
      <4>7. Key(s, m) \in Nodes(w)
        <5>1. Key(s, m) # Root
          <6>1. k # Root
            BY <3>2 DEF Whole
          <6> QED BY <3>2, <4>5, <6>1, RootStartsWithNothing
        <5> QED BY <1>1, <5>1
      <4>8. StartsWith(Key(s, m), e)
        BY <3>1, <4>5, <4>7 DEF Covers
      <4> QED BY <2>4, <3>2, <4>5, <4>6, <4>8, PrefixOrder
    <3>4. Covers(u, e, k)
      BY <2>1, <3>1, <3>3 DEF Covers
    <3>5. k \in Stored(u) /\ e \in Nodes(u)
      BY <2>1, <3>1
    <3>6. NodeOf(u, k) = e
      <4> HIDE DEF u
      <4> QED BY <3>4, <3>5, CoverUnique DEF u
    <3> QED BY <3>1, <3>6 DEF e
  <2>7. \A k \in Stored(w) : u.ref[NodeOf(u, k)] = w.ref[NodeOf(w, k)]
    BY <2>1, <2>3, <2>6
  <2>8. \A i \in (m + 1)..n : u.ref[NodeOf(u, Key(s, i))] = 0
    BY <2>1, <2>5
  <2> HIDE DEF u, w, N
  <2>9. Held(u) = Held(w)
    BY <2>1, <2>7, <2>8 DEF Held, Locked
  <2> QED BY <1>1, <2>9 DEF u
<1> QED BY <1>3, <1>4

\* insert_prefix adds the pages of its new leaf, which nothing locks, to
\* evictable_size.
LEMMA InsertSizes ==
  ASSUME NEW V, NEW t, WellFormed(t, V), NEW s \in Seq(V), NEW row,
         WellFormed(Insert(t, s, row), V), SizesMatch(t)
  PROVE  SizesMatch(Insert(t, s, row))
<1> DEFINE u == Insert(t, s, row)
           m == Matched(t, s)
           n == FullPages(Len(s))
           w == Walk(t, s)
           fresh == {Key(s, i) : i \in (m + 1)..n}
<1>1. m \in Nat /\ n \in Nat /\ m <= n /\ Stored(u) = Stored(t) \cup fresh
  BY InsertPages
<1>2. Held(u) = Held(t)
  BY InsertHeld
<1>3. WellFormed(w, V) /\ SizesMatch(w) /\ Stored(w) = Stored(t) /\ Held(w) = Held(t)
  BY WalkFields, WalkSizes
<1>4. CASE m = n
  BY <1>3, <1>4 DEF Insert
<1>5. CASE m # n
  <2>1. u.evictable = w.evictable + (n - m) /\ u.protected = w.protected
    BY <1>3, <1>5, InsertCounters
  <2>2. IsFiniteSet(fresh) /\ Cardinality(fresh) = n - m
    BY <1>1, KeysCount
  <2>3. fresh \cap Stored(t) = {}
    <3>1. ASSUME NEW i \in (m + 1)..n PROVE Key(s, i) \notin Stored(t)
      <4>1. i \in Nat /\ Matched(t, s) < i /\ i <= FullPages(Len(s))
        BY <1>1
      <4> QED BY <4>1, BeyondMatch
    <3> QED BY <3>1
  <2> HIDE DEF fresh, u, w, m, n
  <2>4. Held(t) \subseteq Stored(t)
    BY DEF Held
  <2>5. Stored(u) \ Held(u) = (Stored(t) \ Held(t)) \cup fresh
    BY <1>1, <1>2, <2>3, <2>4
  <2>6. IsFiniteSet(Stored(t) \ Held(t)) /\ IsFiniteSet(Stored(u))
    BY <1>1, <2>2, FS_Difference, FS_Union DEF SizesMatch
  <2>7. Cardinality(Stored(u) \ Held(u)) = Cardinality(Stored(t) \ Held(t)) + (n - m)
    <3>1. (Stored(t) \ Held(t)) \cap fresh = {}
      BY <2>3
    <3> QED BY <2>2, <2>5, <2>6, <3>1, CountApart
  <2> QED BY <1>2, <1>3, <2>1, <2>6, <2>7 DEF SizesMatch, u
<1> QED BY <1>4, <1>5

\* lock_handle moves the pages it locks first from one counter to the other.
LEMMA LockSizes ==
  ASSUME NEW V, NEW t, WellFormed(t, V), NEW k, SizesMatch(t),
         \A e \in Nodes(t) : t.ref[e] \in Nat
  PROVE  SizesMatch(Lock(t, k))
<1> DEFINE u == Lock(t, k)
           P == {q \in Stored(t) : NodeOf(t, q) \in OnPath(t, k) /\ t.ref[NodeOf(t, q)] = 0}
<1>1. /\ Stored(u) = Stored(t) /\ Nodes(u) = Nodes(t)
      /\ \A e \in Nodes(t) : u.ref[e] = IF e \in OnPath(t, k) THEN t.ref[e] + 1 ELSE t.ref[e]
      /\ u.evictable = t.evictable - Cardinality(P)
      /\ u.protected = t.protected + Cardinality(P)
  <2>1. /\ u.page = t.page /\ u.ref = Counted(t, k, 1)
        /\ u.evictable = t.evictable - PagesAt(t, k, 0)
        /\ u.protected = t.protected + PagesAt(t, k, 0)
    BY DEF Lock, WellFormed
  <2> QED BY <2>1 DEF Counted, PagesAt, Stored, Nodes
<1> HIDE DEF u
<1>2. \A q \in Stored(t) : NodeOf(u, q) = NodeOf(t, q) /\ NodeOf(t, q) \in Nodes(t)
  BY <1>1, NodeOfCovers DEF NodeOf
<1>3. Held(u) = Held(t) \cup P
  BY <1>1, <1>2 DEF Held, Locked
<1>4. Held(t) \cap P = {} /\ P \subseteq Stored(t) /\ Held(t) \subseteq Stored(t)
  BY DEF Held, Locked
<1> HIDE DEF P
<1>5. IsFiniteSet(Held(t)) /\ IsFiniteSet(P) /\ IsFiniteSet(Stored(t) \ Held(u))
  BY <1>4, FS_Subset, FS_Difference DEF SizesMatch
<1>6. Cardinality(Held(u)) = Cardinality(Held(t)) + Cardinality(P)
  BY <1>3, <1>4, <1>5, CountApart
<1>7. Cardinality(Stored(t) \ Held(t)) = Cardinality(Stored(t) \ Held(u)) + Cardinality(P)
  <2>1. /\ Stored(t) \ Held(t) = (Stored(t) \ Held(u)) \cup P
        /\ (Stored(t) \ Held(u)) \cap P = {}
    BY <1>3, <1>4
  <2> QED BY <1>5, <2>1, CountApart
<1>8. /\ Cardinality(Stored(t) \ Held(u)) \in Nat /\ Cardinality(P) \in Nat
      /\ Cardinality(Held(t)) \in Nat
  BY <1>5, FS_CardinalityType
<1>9. SizesMatch(u)
  BY <1>1, <1>6, <1>7, <1>8 DEF SizesMatch
<1> QED BY <1>9 DEF u

\* Unlocking moves back the pages whose last reference it drops.
LEMMA UnlockSizes ==
  ASSUME NEW V, NEW t, WellFormed(t, V), NEW k, SizesMatch(t),
         \A e \in Nodes(t) : t.ref[e] \in Nat,
         \A e \in OnPath(t, k) : t.ref[e] > 0
  PROVE  SizesMatch(Unlock(t, k))
<1> DEFINE u == Unlock(t, k)
           P == {q \in Stored(t) : NodeOf(t, q) \in OnPath(t, k) /\ t.ref[NodeOf(t, q)] = 1}
<1>1. /\ Stored(u) = Stored(t) /\ Nodes(u) = Nodes(t)
      /\ \A e \in Nodes(t) : u.ref[e] = IF e \in OnPath(t, k) THEN t.ref[e] + -1 ELSE t.ref[e]
      /\ u.evictable = t.evictable + Cardinality(P)
      /\ u.protected = t.protected - Cardinality(P)
  <2>1. /\ u.page = t.page /\ u.ref = Counted(t, k, -1)
        /\ u.evictable = t.evictable + PagesAt(t, k, 1)
        /\ u.protected = t.protected - PagesAt(t, k, 1)
    BY DEF Unlock, WellFormed
  <2> QED BY <2>1 DEF Counted, PagesAt, Stored, Nodes
<1> HIDE DEF u
<1>2. \A q \in Stored(t) : NodeOf(u, q) = NodeOf(t, q) /\ NodeOf(t, q) \in Nodes(t)
  BY <1>1, NodeOfCovers DEF NodeOf
<1>3. Held(u) = Held(t) \ P
  BY <1>1, <1>2 DEF Held, Locked
<1>4. P \subseteq Held(t) /\ Held(t) \subseteq Stored(t)
  BY DEF Held, Locked
<1> HIDE DEF P
<1>5. IsFiniteSet(Held(u)) /\ IsFiniteSet(P) /\ IsFiniteSet(Stored(t) \ Held(t))
  <2>1. Held(u) \subseteq Stored(t) /\ P \subseteq Stored(t)
    BY <1>3, <1>4
  <2> QED BY <2>1, FS_Subset, FS_Difference DEF SizesMatch
<1>6. Cardinality(Held(t)) = Cardinality(Held(u)) + Cardinality(P)
  <2>1. Held(t) = Held(u) \cup P /\ Held(u) \cap P = {}
    BY <1>3, <1>4
  <2> QED BY <1>5, <2>1, CountApart
<1>7. Cardinality(Stored(t) \ Held(u)) = Cardinality(Stored(t) \ Held(t)) + Cardinality(P)
  <2>1. /\ Stored(t) \ Held(u) = (Stored(t) \ Held(t)) \cup P
        /\ (Stored(t) \ Held(t)) \cap P = {}
    BY <1>3, <1>4
  <2> QED BY <1>5, <2>1, CountApart
<1>8. /\ Cardinality(Stored(t) \ Held(t)) \in Nat /\ Cardinality(P) \in Nat
      /\ Cardinality(Held(u)) \in Nat
  BY <1>5, FS_CardinalityType
<1>9. SizesMatch(u)
  BY <1>1, <1>6, <1>7, <1>8 DEF SizesMatch
<1> QED BY <1>9 DEF u

\* An eviction takes unlocked pages only.
LEMMA RemoveSizes ==
  ASSUME NEW V, NEW t, WellFormed(t, V), NEW E \in SUBSET Unlocked(t),
         WellFormed(RemoveNodes(t, E), V), SizesMatch(t)
  PROVE  SizesMatch(RemoveNodes(t, E))
<1> DEFINE u == RemoveNodes(t, E)
           gone == PrefixesOf(t, E)
<1>1. /\ Stored(u) = Stored(t) \ gone /\ Nodes(u) = Nodes(t) \ E
      /\ \A e \in Nodes(u) : u.ref[e] = t.ref[e]
      /\ u.evictable = t.evictable - Cardinality(gone) /\ u.protected = t.protected
  BY RemovePages
<1>2. ASSUME NEW k \in Stored(u) PROVE NodeOf(u, k) = NodeOf(t, k) /\ NodeOf(t, k) \in Nodes(u)
  <2>1. k \in Stored(t) /\ NodeOf(t, k) \in Nodes(t) /\ Covers(t, NodeOf(t, k), k)
    BY <1>1, NodeOfCovers
  <2>2. NodeOf(t, k) \in Nodes(u)
    BY <1>1, <2>1 DEF PrefixesOf
  <2> HIDE DEF u, gone
  <2>3. Covers(u, NodeOf(t, k), k)
    BY <1>1, <2>1 DEF Covers
  <2> QED BY <1>2, <2>2, <2>3, CoverUnique DEF u
<1>3. Held(t) \cap gone = {}
  BY DEF Held, Locked, PrefixesOf, Unlocked
<1> HIDE DEF u
<1>4. Held(u) = Held(t)
  BY <1>1, <1>2, <1>3 DEF Held, Locked
<1>5. gone \subseteq Stored(t)
  BY DEF PrefixesOf
<1> HIDE DEF gone
<1>6. IsFiniteSet(Stored(u)) /\ IsFiniteSet(gone) /\ IsFiniteSet(Stored(u) \ Held(u))
  BY <1>1, <1>5, FS_Subset, FS_Difference DEF SizesMatch
<1>7. Cardinality(Stored(t) \ Held(t)) = Cardinality(Stored(u) \ Held(u)) + Cardinality(gone)
  <2>1. /\ Stored(t) \ Held(t) = (Stored(u) \ Held(u)) \cup gone
        /\ (Stored(u) \ Held(u)) \cap gone = {}
    BY <1>1, <1>3, <1>4, <1>5
  <2> QED BY <1>6, <2>1, CountApart
<1>8. Cardinality(Stored(u) \ Held(u)) \in Nat /\ Cardinality(gone) \in Nat
  BY <1>6, FS_CardinalityType
<1>9. SizesMatch(u)
  BY <1>1, <1>4, <1>6, <1>7, <1>8 DEF SizesMatch
<1> QED BY <1>9 DEF u
=============================================================================
