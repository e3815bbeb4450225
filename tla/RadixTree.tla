----------------------------- MODULE RadixTree -----------------------------
(***************************************************************************)
(* The page-granular radix tree of kvcache/radix_cache.py                  *)
(* (RadixPrefixCache), as pure operators on a tree value.                  *)
(*                                                                         *)
(* A tree maps token prefixes of whole pages to the page holding the KV of *)
(* their last page of tokens.  A RadixTreeNode is named by the path from   *)
(* the root to its end: split_at() creates the node of the shorter path    *)
(* and leaves the longer one its identity, so the end path is the stable   *)
(* name a RadixCacheHandle keeps.  A tree is a record                      *)
(*   page      : [stored prefix -> page]       (the nodes' _value tensors) *)
(*   ref       : [node -> ref_count]           (its domain is the nodes)   *)
(*   evictable, protected : the cache's two size counters, in pages.       *)
(* Timestamps are not kept: wherever the code evicts the least recently    *)
(* used unlocked leaf, the model may evict any unlocked leaf.              *)
(***************************************************************************)
EXTENDS Integers, Sequences, FiniteSets

CONSTANT PageSize   \* tokens per KV page (page_size)

ASSUME PageSizeAssumption == PageSize \in Nat \ {0}

-----------------------------------------------------------------------------
(* Prefixes, in whole pages. *)

\* The first i pages of the token sequence s.
Key(s, i) == SubSeq(s, 1, i * PageSize)

\* How many whole pages n tokens fill, and how many pages they occupy.
FullPages(n) == n \div PageSize
PagesFor(n)  == (n + PageSize - 1) \div PageSize

\* The token sequence s begins with the tokens of k.
StartsWith(s, k) == Len(k) <= Len(s) /\ SubSeq(s, 1, Len(k)) = k

Root == <<>>

-----------------------------------------------------------------------------
EmptyTree == [page |-> <<>>, ref |-> <<>>, evictable |-> 0, protected |-> 0]

Stored(t) == DOMAIN t.page
Nodes(t)  == DOMAIN t.ref

\* The node whose key segment covers the stored prefix k: of the nodes at or
\* below k, the one all the others are below.
NodeOf(t, k) == CHOOSE e \in Nodes(t) :
                    /\ StartsWith(e, k)
                    /\ \A f \in Nodes(t) : StartsWith(f, k) => StartsWith(f, e)

Locked(t, k) == t.ref[NodeOf(t, k)] > 0

\* _tree_walk: how many pages of s are stored, walking down from the root and
\* stopping at the first page that is not.
Matched(t, s) ==
    CHOOSE m \in 0..FullPages(Len(s)) :
        /\ \A i \in 1..m : Key(s, i) \in Stored(t)
        /\ m < FullPages(Len(s)) => Key(s, m + 1) \notin Stored(t)

\* Fault: split_at starts the new node unreferenced.
InheritedRef_zero(t, k) == 0

\* _tree_walk's side effect: a walk that ends inside a node splits it there,
\* and the new upper node takes over the node's ref_count.
InheritedRef(t, k) == t.ref[NodeOf(t, k)]

Split(t, k) ==
    IF k = Root \/ k \in Nodes(t) THEN t
    ELSE [t EXCEPT !.ref = [e \in Nodes(t) \cup {k} |->
                                IF e = k THEN InheritedRef(t, k) ELSE t.ref[e]]]

Walk(t, s) == Split(t, Key(s, Matched(t, s)))

\* Fault: lock_handle stops at the handle's node.
OnPath_nodeOnly(t, k) == Nodes(t) \cap {k}

\* lock_handle walks from the handle's node up to the root.
OnPath(t, k) == {e \in Nodes(t) : StartsWith(k, e)}

Counted(t, k, d) == [e \in Nodes(t) |-> IF e \in OnPath(t, k) THEN t.ref[e] + d
                                                              ELSE t.ref[e]]

\* The pages of the nodes on the path whose ref_count is n.
PagesAt(t, k, n) == Cardinality({q \in Stored(t) : NodeOf(t, q) \in OnPath(t, k)
                                                   /\ t.ref[NodeOf(t, q)] = n})

\* lock_handle: one reference more on every node of the path; the pages of the
\* nodes that were unlocked move from evictable to protected.
Lock(t, k) == [t EXCEPT !.ref = Counted(t, k, 1),
                        !.evictable = @ - PagesAt(t, k, 0),
                        !.protected = @ + PagesAt(t, k, 0)]

\* lock_handle(unlock=True).
Unlock(t, k) == [t EXCEPT !.ref = Counted(t, k, -1),
                          !.evictable = @ + PagesAt(t, k, 1),
                          !.protected = @ - PagesAt(t, k, 1)]

\* insert_prefix: store the whole pages of s, from the row's pages where the
\* tree does not have them yet, as one new unlocked leaf.
Insert(t, s, row) ==
    LET n == FullPages(Len(s))
        m == Matched(t, s)
        w == Walk(t, s)
        fresh == {Key(s, i) : i \in (m + 1)..n}
    IN IF m = n THEN w
       ELSE [w EXCEPT !.page = [k \in Stored(w) \cup fresh |->
                                    IF k \in fresh THEN row[Len(k) \div PageSize]
                                                   ELSE w.page[k]],
                      !.ref  = [e \in Nodes(w) \cup {Key(s, n)} |->
                                    IF e = Key(s, n) THEN 0 ELSE w.ref[e]],
                      !.evictable = @ + (n - m)]

-----------------------------------------------------------------------------
(* Eviction. *)

\* The stored prefixes of the nodes in E.
PrefixesOf(t, E) == {k \in Stored(t) : NodeOf(t, k) \in E}

\* Fault: evict takes a leaf without looking at its ref_count.
Unlocked_any(t) == Nodes(t)

\* The nodes evict may remove.
Unlocked(t) == {e \in Nodes(t) : t.ref[e] = 0}

\* E can be popped leaf by leaf: no node outside E is below one of E.
LeafFirst(t, E) == \A e \in E : \A f \in Nodes(t) \ E : ~StartsWith(f, e)

\* evict: the sets of nodes one call may remove.  Unlocked leaves are popped
\* until n pages are out, so without the last one popped there were fewer.
EvictionChoices(t, n) ==
    IF n <= 0 THEN {{}}
    ELSE {E \in SUBSET Unlocked(t) :
            /\ LeafFirst(t, E)
            /\ Cardinality(PrefixesOf(t, E)) >= n
            /\ \E last \in E : /\ LeafFirst(t, E \ {last})
                               /\ Cardinality(PrefixesOf(t, E \ {last})) < n}

RemoveNodes(t, E) ==
    LET gone == PrefixesOf(t, E)
    IN [t EXCEPT !.page = [k \in Stored(t) \ gone |-> t.page[k]],
                 !.ref  = [e \in Nodes(t) \ E |-> t.ref[e]],
                 !.evictable = @ - Cardinality(gone)]
=============================================================================
