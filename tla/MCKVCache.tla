----------------------------- MODULE MCKVCache -----------------------------
(***************************************************************************)
(* Small instances of KVCache for TLC.                                     *)
(***************************************************************************)
EXTENDS KVCache

\* A prompt that ends inside its second page, and one that continues it: what is
\* sampled decides whether they share that page or part inside it.
PagedPrompts == {<<1, 1, 1>>, <<1, 1, 1, 2, 1>>}

\* Any two requests are active together (CONSTRAINT).
TwoActive == Cardinality(Active) <= 2

\* Pages are interchangeable, on the free list too: a state is known by what each
\* page is used for and how many are used so.  (SYMMETRY would try every permutation.)
PageRole(p) ==
    <<p \in pool, Cardinality({i \in DOMAIN free : free[i] = p}),
      {k \in Stored(tree) : tree.page[k] = p},
      {x \in Reqs \X (1..MaxLen) : x[2] \in DOMAIN row[x[1]] /\ row[x[1]][x[2]] = p}, kv[p]>>

Uses == [u \in {PageRole(p) : p \in Pages} |-> Cardinality({p \in Pages : PageRole(p) = u})]

Shape == <<Uses, [tree EXCEPT !.page = DOMAIN @], stage, ids, hit, cached>>
=============================================================================
