----------------------------- MODULE CpuMoePool -----------------------------
(***************************************************************************)
(* The worker pool of the CPU expert executor                              *)
(* (kernel/csrc/cpu_moe/cpu_moe_ext.cpp): one caller hands it one task at  *)
(* a time with submit() and waits in sync(); every worker takes part in    *)
(* every task.  A task runs in phases (gate/up projection, preparation of  *)
(* the intermediate rows, down projection); the workers draw the items of  *)
(* a phase from a shared counter and meet at a sense-reversing barrier     *)
(* between phases.  Both condition variables are modelled with the window  *)
(* between a failed predicate and the sleep, where a wake-up can be lost.  *)
(***************************************************************************)
EXTENDS Integers, FiniteSets, TLC

CONSTANTS
  Workers,    \* the pinned threads
  Items,      \* items of each phase, a tuple; two or three phases
  MaxTasks    \* bound: tasks submitted

PoolAssumption ==
  /\ IsFiniteSet(Workers) /\ Workers # {}
  /\ Items \in [1 .. 2 -> Nat] \cup [1 .. 3 -> Nat]

VARIABLES
  caller,                     \* where the submitting thread is
  cur_gen, submitted, completed,
  nextItem,                   \* p1_next, prt_next, p2_next
  done_count, bar_count, bar_sense,
  pc, my_gen, local_sense, phase, item,   \* per worker
  task_mtx, sync_mtx,         \* holder, or Nobody
  stop,
  ran                         \* ghost: how often each item of the task was run

workerVars == <<pc, my_gen, local_sense, phase, item>>
vars == <<caller, cur_gen, submitted, completed, nextItem, done_count, bar_count,
          bar_sense, workerVars, task_mtx, sync_mtx, stop, ran>>

Nobody == "nobody"
Phases == DOMAIN Items
LastPhase == Cardinality(Phases)
NumThreads == Cardinality(Workers)
Zeros == [p \in Phases |-> 0]
NoRuns == [p \in Phases |-> [i \in 0 .. Items[p] - 1 |-> 0]]

Init ==
  /\ caller = "idle"
  /\ cur_gen = 0 /\ submitted = 0 /\ completed = 0
  /\ nextItem = Zeros /\ done_count = 0 /\ bar_count = 0 /\ bar_sense = 0
  /\ pc = [w \in Workers |-> "check"] /\ my_gen = [w \in Workers |-> 0]
  /\ local_sense = [w \in Workers |-> 0] /\ phase = [w \in Workers |-> 1]
  /\ item = [w \in Workers |-> 0]
  /\ task_mtx = Nobody /\ sync_mtx = Nobody /\ stop = FALSE
  /\ ran = NoRuns

Goto(w, label) == pc' = [pc EXCEPT ![w] = label]

\* A cv.notify_all: whoever sleeps goes back to its predicate.
WakeWorkers == pc' = [w \in Workers |-> IF pc[w] = "asleep" THEN "check" ELSE pc[w]]

-----------------------------------------------------------------------------
(* The caller: coordinator thread or host callback. *)

\* submit, first part: the counters of the task are reset without a lock.
SubmitReset ==
  /\ caller = "idle" /\ ~stop /\ cur_gen < MaxTasks
  /\ nextItem' = Zeros /\ done_count' = 0 /\ bar_count' = 0 /\ bar_sense' = 0
  /\ ran' = NoRuns
  /\ caller' = "publish"
  /\ UNCHANGED <<cur_gen, submitted, completed, workerVars, task_mtx, sync_mtx, stop>>

\* submit, second part: the task is published under task_mtx.
SubmitPublish ==
  /\ caller = "publish" /\ task_mtx = Nobody
  /\ cur_gen' = cur_gen + 1 /\ submitted' = cur_gen + 1
  /\ caller' = "notify"
  /\ UNCHANGED <<completed, nextItem, done_count, bar_count, bar_sense, workerVars,
                 task_mtx, sync_mtx, stop, ran>>

SubmitNotify ==
  /\ caller = "notify"
  /\ WakeWorkers
  /\ caller' = "sync"
  /\ UNCHANGED <<cur_gen, submitted, completed, nextItem, done_count, bar_count, bar_sense,
                 my_gen, local_sense, phase, item, task_mtx, sync_mtx, stop, ran>>

\* sync: the predicate is evaluated holding sync_mtx.
SyncCheck ==
  /\ caller = "sync" /\ sync_mtx = Nobody
  /\ IF completed >= submitted
     THEN caller' = "idle" /\ UNCHANGED sync_mtx
     ELSE caller' = "falling" /\ sync_mtx' = "caller"
  /\ UNCHANGED <<cur_gen, submitted, completed, nextItem, done_count, bar_count, bar_sense,
                 workerVars, task_mtx, stop, ran>>

\* The wait releases the mutex and sleeps in one step.
SyncSleep ==
  /\ caller = "falling"
  /\ caller' = "asleep" /\ sync_mtx' = Nobody
  /\ UNCHANGED <<cur_gen, submitted, completed, nextItem, done_count, bar_count, bar_sense,
                 workerVars, task_mtx, stop, ran>>

\* The destructor, once nobody submits any more: stop is set under the lock,
\* then all are woken.
Stop ==
  /\ caller = "idle" /\ ~stop /\ task_mtx = Nobody
  /\ stop' = TRUE
  /\ caller' = "stopping"
  /\ UNCHANGED <<cur_gen, submitted, completed, nextItem, done_count, bar_count, bar_sense,
                 workerVars, task_mtx, sync_mtx, ran>>

StopNotify ==
  /\ caller = "stopping"
  /\ WakeWorkers
  /\ caller' = "joining"
  /\ UNCHANGED <<cur_gen, submitted, completed, nextItem, done_count, bar_count, bar_sense,
                 my_gen, local_sense, phase, item, task_mtx, sync_mtx, stop, ran>>

-----------------------------------------------------------------------------
(* worker_loop *)

\* task_cv.wait: stop, or a generation this worker has not run.
WorkerCheck(w) ==
  /\ pc[w] = "check" /\ task_mtx = Nobody
  /\ \/ stop /\ Goto(w, "exited") /\ UNCHANGED <<my_gen, local_sense, phase, task_mtx>>
     \/ /\ ~stop /\ cur_gen # my_gen[w]
        /\ my_gen' = [my_gen EXCEPT ![w] = cur_gen]
        /\ local_sense' = [local_sense EXCEPT ![w] = 0]
        /\ phase' = [phase EXCEPT ![w] = 1]
        /\ Goto(w, "draw") /\ UNCHANGED task_mtx
     \/ /\ ~stop /\ cur_gen = my_gen[w]
        /\ Goto(w, "falling") /\ task_mtx' = w
        /\ UNCHANGED <<my_gen, local_sense, phase>>
  /\ UNCHANGED <<caller, cur_gen, submitted, completed, nextItem, done_count, bar_count,
                 bar_sense, item, sync_mtx, stop, ran>>

WorkerSleep(w) ==
  /\ pc[w] = "falling"
  /\ Goto(w, "asleep") /\ task_mtx' = Nobody
  /\ UNCHANGED <<caller, cur_gen, submitted, completed, nextItem, done_count, bar_count,
                 bar_sense, my_gen, local_sense, phase, item, sync_mtx, stop, ran>>

\* The item a fetch_add on the phase's counter yields.
Drawn(p) == nextItem[p]

\* fetch_add on the phase's counter: an item, or the end of the phase.
Draw(w) ==
  /\ pc[w] = "draw"
  /\ LET p == phase[w]
     IN  /\ nextItem' = [nextItem EXCEPT ![p] = @ + 1]
         /\ item' = [item EXCEPT ![w] = Drawn(p)]
         /\ Goto(w, CASE Drawn(p) < Items[p] -> "work"
                      [] Drawn(p) >= Items[p] /\ p < LastPhase -> "arrive"
                      [] OTHER -> "finish")
  /\ UNCHANGED <<caller, cur_gen, submitted, completed, done_count, bar_count, bar_sense,
                 my_gen, local_sense, phase, task_mtx, sync_mtx, stop, ran>>

\* do_pass1 / prep_g_row / do_pass2 on one item.
Work(w) ==
  /\ pc[w] = "work"
  /\ ran' = [ran EXCEPT ![phase[w]][item[w]] = @ + 1]
  /\ Goto(w, "draw")
  /\ UNCHANGED <<caller, cur_gen, submitted, completed, nextItem, done_count, bar_count,
                 bar_sense, my_gen, local_sense, phase, item, task_mtx, sync_mtx, stop>>

\* Fault: the barrier opens one worker early.
LastArrival_early(n) == n + 2 = NumThreads

\* Whether an arrival as the (n+1)-th is the last one.
LastArrival(n) == n + 1 = NumThreads

\* barrier: fetch_add; the last arrival goes on to open it.
Arrive(w) ==
  /\ pc[w] = "arrive"
  /\ local_sense' = [local_sense EXCEPT ![w] = 1 - @]
  /\ bar_count' = bar_count + 1
  /\ Goto(w, IF LastArrival(bar_count) THEN "open" ELSE "spin")
  /\ UNCHANGED <<caller, cur_gen, submitted, completed, nextItem, done_count, bar_sense,
                 my_gen, phase, item, task_mtx, sync_mtx, stop, ran>>

\* The count is reset first, then the sense flips.
OpenFirst == "reset"

\* The last arrival resets the count and flips the sense, one store each.
Open(w) ==
  /\ pc[w] \in {"open", "open2"}
  /\ LET resets == (pc[w] = "open") <=> (OpenFirst = "reset")
     IN  /\ bar_count' = IF resets THEN 0 ELSE bar_count
         /\ bar_sense' = IF resets THEN bar_sense ELSE local_sense[w]
  /\ IF pc[w] = "open" THEN Goto(w, "open2") /\ UNCHANGED phase
     ELSE Goto(w, "draw") /\ phase' = [phase EXCEPT ![w] = @ + 1]
  /\ UNCHANGED <<caller, cur_gen, submitted, completed, nextItem, done_count, my_gen,
                 local_sense, item, task_mtx, sync_mtx, stop, ran>>

\* The others spin until the sense is theirs.
Spin(w) ==
  /\ pc[w] = "spin" /\ bar_sense = local_sense[w]
  /\ phase' = [phase EXCEPT ![w] = @ + 1]
  /\ Goto(w, "draw")
  /\ UNCHANGED <<caller, cur_gen, submitted, completed, nextItem, done_count, bar_count,
                 bar_sense, my_gen, local_sense, item, task_mtx, sync_mtx, stop, ran>>

\* done_count: the last worker to finish reports the generation.
Finish(w) ==
  /\ pc[w] = "finish"
  /\ done_count' = done_count + 1
  /\ Goto(w, IF LastArrival(done_count) THEN "store" ELSE "check")
  /\ UNCHANGED <<caller, cur_gen, submitted, completed, nextItem, bar_count, bar_sense,
                 my_gen, local_sense, phase, item, task_mtx, sync_mtx, stop, ran>>

\* After the store the notifier takes and drops sync_mtx.
AfterStore == "lock"

Store(w) ==
  /\ pc[w] = "store"
  /\ completed' = my_gen[w]
  /\ Goto(w, AfterStore)
  /\ UNCHANGED <<caller, cur_gen, submitted, nextItem, done_count, bar_count, bar_sense,
                 my_gen, local_sense, phase, item, task_mtx, sync_mtx, stop, ran>>

LockUnlock(w) ==
  /\ pc[w] = "lock" /\ sync_mtx = Nobody
  /\ Goto(w, "notify")
  /\ UNCHANGED <<caller, cur_gen, submitted, completed, nextItem, done_count, bar_count,
                 bar_sense, my_gen, local_sense, phase, item, task_mtx, sync_mtx, stop, ran>>

Notify(w) ==
  /\ pc[w] = "notify"
  /\ caller' = IF caller = "asleep" THEN "sync" ELSE caller
  /\ Goto(w, "check")
  /\ UNCHANGED <<cur_gen, submitted, completed, nextItem, done_count, bar_count, bar_sense,
                 my_gen, local_sense, phase, item, task_mtx, sync_mtx, stop, ran>>

Worker(w) ==
  \/ WorkerCheck(w) \/ WorkerSleep(w) \/ Draw(w) \/ Work(w) \/ Arrive(w) \/ Open(w)
  \/ Spin(w) \/ Finish(w) \/ Store(w) \/ LockUnlock(w) \/ Notify(w)

InCall == SubmitPublish \/ SubmitNotify \/ SyncCheck \/ SyncSleep \/ StopNotify

Next ==
  \/ SubmitReset \/ InCall \/ Stop
  \/ \E w \in Workers : Worker(w)

Spec == Init /\ [][Next]_vars

\* Every thread that can run is run by the operating system.
FairSpec == Spec /\ WF_vars(InCall) /\ \A w \in Workers : WF_vars(Worker(w))

Symmetry == Permutations(Workers)

-----------------------------------------------------------------------------
(* Properties *)

Labels == {"check", "falling", "asleep", "draw", "work", "arrive", "open", "open2", "spin",
           "finish", "store", "lock", "notify", "exited"}

\* Types.
TypeOK ==
  /\ caller \in {"idle", "publish", "notify", "sync", "falling", "asleep", "stopping", "joining"}
  /\ {cur_gen, submitted, completed} \subseteq 0 .. MaxTasks
  /\ nextItem \in [Phases -> Nat]
  /\ done_count \in 0 .. NumThreads /\ bar_count \in 0 .. NumThreads /\ bar_sense \in {0, 1}
  /\ pc \in [Workers -> Labels] /\ my_gen \in [Workers -> 0 .. MaxTasks]
  /\ local_sense \in [Workers -> {0, 1}] /\ phase \in [Workers -> Phases]
  /\ item \in [Workers -> Nat]
  /\ task_mtx \in Workers \cup {Nobody} /\ sync_mtx \in {"caller", Nobody}
  /\ stop \in BOOLEAN

InBody(w) == pc[w] \in {"draw", "work", "arrive", "open", "open2", "spin", "finish"}

\* A worker that works on a phase sees the results of all items of the phases
\* before it: no item of the down projection starts while an intermediate row is
\* unfinished, also when a fast worker meets the second barrier before a slow one
\* has left the first.
PhasesInOrder ==
  \A w \in Workers :
    pc[w] = "work" =>
      \A p \in Phases : p < phase[w] => \A i \in DOMAIN ran[p] : ran[p][i] = 1

\* When sync returns, every item of the task has run exactly once.
SyncMeansDone ==
  (caller = "idle" /\ cur_gen > 0) =>
    \A p \in Phases : \A i \in DOMAIN ran[p] : ran[p][i] = 1

\* The counters are reset for a task only when no worker is inside another
\* one: a worker in a task's body always runs the generation last published.
NobodyLeftBehind ==
  \A w \in Workers :
    InBody(w) => my_gen[w] = cur_gen /\ caller \in {"notify", "sync", "falling", "asleep"}

\* When sync returns every item of the task has run exactly once, no phase before the one
\* it needs was over, and no worker is left in a task that is gone.
TasksRunOnce == SyncMeansDone /\ PhasesInOrder /\ NobodyLeftBehind

\* No wake-up is lost: a submitted task is always synced ...
SyncReturns == (caller = "sync") ~> (caller = "idle")

\* ... and after the destructor has set stop, every worker can be joined.
WorkersJoin == stop ~> \A w \in Workers : pc[w] = "exited"
=============================================================================
