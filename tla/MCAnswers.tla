----------------------------- MODULE MCAnswers -----------------------------
(***************************************************************************)
(* What the server must eventually do, one state space for TLC: a          *)
(* behaviour picks the scheduler or the front end and runs a small         *)
(* instance of it, under the fairness of its module (FairSpec, Fairness);  *)
(* the other stays in its initial state, in which nothing is owed to       *)
(* anyone.  A variable that two modules name alike is renamed in the       *)
(* second.                                                                 *)
(***************************************************************************)
EXTENDS Integers, Sequences, FiniteSets

VARIABLES
    instance,   \* what this behaviour runs
    \* Scheduler
    pool, free, tree, ids, hit, row, cached, kv, freeSlots, slot, request, pending,
    chunked, running, aborted, finished, tombstones, acks, rebuild, rebuilds,
    aborting, loop, plan, last, draining, newFinished, replies,
    \* Frontend
    gate, pend, fatal, sup, resolve, timer, term, down, backend, acked, to, from,
    eng, tomb, work, client, ack, event, batch, got, inflight, total, sleeping,
    stop, todo, stops, sealed, rb, front_rebuilds, futures

schedVars   == <<pool, free, tree, ids, hit, row, cached, kv, freeSlots, slot,
                 request, pending, chunked, running, aborted, finished, tombstones,
                 acks, rebuild, rebuilds, aborting, loop, plan, last, draining,
                 newFinished, replies>>
frontVars   == <<gate, pend, fatal, sup, resolve, timer, term, down, backend, acked,
                 to, from, eng, tomb, work, client, ack, event, batch, got,
                 inflight, total, sleeping, stop, todo, stops, sealed, rb,
                 front_rebuilds, futures>>
vars == <<instance, schedVars, frontVars>>

-----------------------------------------------------------------------------
\* Prompts that share a prefix, one of which may be aborted, and a rebuild.
SharedPrefix == {[prompt |-> <<1, 1, 2>>, output |-> 1], [prompt |-> <<1, 1>>, output |-> 2]}
Sched == INSTANCE Scheduler
            WITH Reqs <- 1..2, Pages <- 1..4, PoolSizes <- {4}, PageSize <- 1, Tokens <- {1, 2}, Generated <- {1},
                 MaxLen <- 4, ClientRequests <- SharedPrefix, TableSlots <- 2,
                 PrefillBudget <- 2, MaxTombstones <- 3, MaxRebuilds <- 1, MayAbort <- {1},
                 Overlap <- TRUE

\* A client, a rebuild and a prepare-stop; a worker may die.
Front == INSTANCE Frontend
            WITH Uids <- {1}, MaxTokens <- 1, MaxRebuilds <- 1, MaxStops <- 1,
                 MayCrash <- TRUE, Reorders <- FALSE, SendFails <- FALSE, Preempts <- FALSE,
                 rebuilds <- front_rebuilds

-----------------------------------------------------------------------------
Init ==
    /\ instance \in {"scheduler", "frontend"}
    /\ Sched!Init /\ Front!Init

(* Only the chosen component takes a step. *)
InSched(A) ==
    /\ instance = "scheduler" /\ A
    /\ UNCHANGED <<instance, frontVars>>
InFront(A) ==
    /\ instance = "frontend" /\ A
    /\ UNCHANGED <<instance, schedVars>>

(* A bound on the state space: a worker dies only where there is at most   *)
(* one of a rebuild and a prepare-stop.  No fair step is cut off by it.    *)
CrashBound == backend' \in {"crashed", "signalled"} => stops' + front_rebuilds' <= 1

Next == InSched(Sched!Next) \/ InFront(Front!Next /\ CrashBound)

(* The scheduler's loop is always scheduled. *)
SchedFair == WF_vars(InSched(Sched!Loop))

(* The callbacks of the event loop, the workers and the supervisor run;    *)
(* clients, crashes and signals come as they like, but a signal to the     *)
(* group reaches all of it (Frontend's Fairness).                          *)
FrontFair ==
    /\ WF_vars(InFront(Front!Deliver))
    /\ WF_vars(InFront(Front!ResolveRebuild)) /\ WF_vars(InFront(Front!ResolveAll))
    /\ WF_vars(InFront(Front!Seal \/ Front!DrainTimeout \/ Front!SettleTimeout))
    /\ WF_vars(InFront(Front!RebuildSent \/ Front!RebuildNotSent \/ Front!RebuildAnswered))
    /\ WF_vars(InFront(Front!Handler(1)))
    /\ WF_vars(InFront(Front!Admit(1) \/ Front!Sample(1)))
    /\ WF_vars(InFront(Front!Take(1))) /\ WF_vars(InFront(Front!Loaded))
    /\ WF_vars(InFront(Front!Supervisor))
    /\ WF_vars(InFront(backend = "signalled" /\ Front!Sigterm))

FairSpec == Init /\ [][Next]_vars /\ SchedFair /\ FrontFair

-----------------------------------------------------------------------------
(* Every request that waits, every abort and every queued rebuild is       *)
(* answered, whatever else arrives (scheduler.py: no branch of the loop    *)
(* sleeps on work, admission is not refused for ever).                     *)
MessagesAnswered ==
    Sched!RequestAnswered /\ Sched!AbortAnswered /\ Sched!RebuildAnswered

(* The callers of the front end are answered: a connected client's stream  *)
(* ends while the backend lives, a rebuild and a prepare-stop return       *)
(* whatever the backend does, and the gate leaves "rebuilding"             *)
(* (api_server.py, launch.py).                                             *)
CallersReturn ==
    Front!ClientAnswered /\ Front!RebuildReturns /\ Front!PrepareReturns /\ Front!GateDefinite
=============================================================================
