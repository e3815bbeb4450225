---------------------------- MODULE MCScheduler ----------------------------
(***************************************************************************)
(* Small instances of Scheduler for TLC.                                   *)
(***************************************************************************)
EXTENDS Scheduler

\* One prompt is the beginning of the other.
SharedPrefix == {[prompt |-> <<1, 1, 2>>, output |-> 1],
                 [prompt |-> <<1, 1>>,    output |-> 2]}

\* A prompt cut in chunks of one token, behind which a decode request starves.
Starving == {[prompt |-> <<1, 2>>, output |-> 1],
             [prompt |-> <<1>>,    output |-> 2]}

\* With two tokens per page: prompts that part inside a page, chunks that end
\* there, and outputs that start a page.
PagedRequests == {[prompt |-> <<1, 1, 1, 2>>, output |-> 1],
                  [prompt |-> <<1, 1, 1>>,    output |-> 3],
                  [prompt |-> <<1>>,          output |-> 2]}

\* A prompt one token longer than a page of four.
FivePlusOne == {[prompt |-> <<1, 1, 1, 1, 1>>, output |-> 1],
                [prompt |-> <<2, 1, 1, 1, 1>>, output |-> 1]}

\* Pages are interchangeable, on the free list too: a state is known by what each
\* page is used for and how many are used so.  (SYMMETRY would try every permutation.)
PageRole(p) ==
    <<p \in pool, Cardinality({i \in DOMAIN free : free[i] = p}),
      {k \in DOMAIN tree.page : tree.page[k] = p},
      {x \in Reqs \X (1..MaxLen) : x[2] \in DOMAIN row[x[1]] /\ row[x[1]][x[2]] = p}, kv[p]>>

Uses == [u \in {PageRole(p) : p \in Pages} |-> Cardinality({p \in Pages : PageRole(p) = u})]

Shape == <<Uses, [tree EXCEPT !.page = DOMAIN @], ids, hit, cached, slotVars, msgVars,
           batchVars, pending, chunked, running, aborted, finished, newFinished, replies>>
=============================================================================
