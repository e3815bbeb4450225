---------------------------- MODULE CpuMoeFlags -----------------------------
(***************************************************************************)
(* The handshake by which a GPU stream has a MoE layer computed on the CPU *)
(* (moe/cpu_executor.py and the coordinator of                             *)
(* kernel/csrc/cpu_moe/cpu_moe_ext.cpp) and the engine loop that uses the  *)
(* results (engine.forward_batch and the scheduler).                       *)
(*                                                                         *)
(* Per layer the stream copies the inputs into pinned memory, clears       *)
(* done[slot], raises ready[slot], waits for done[slot] >= 1 and copies    *)
(* the result back.  The coordinator thread consumes a raised flag, runs   *)
(* the task on the worker pool and sets done.  Layers beyond the flag      *)
(* capacity use two host callbacks on the stream instead.  A watchdog      *)
(* thread samples the flags every 2 s, ready before done, and then the     *)
(* served counts, slot by slot; a slot that stays pending for 10 s without *)
(* progress is condemned: err is raised and done is set so that the stream *)
(* goes on.  The engine reads err after it has enqueued a step.            *)
(*                                                                         *)
(* The pinned buffers are shared by all layers of a batch size; their      *)
(* contents are abstracted to the <<step, layer>> they belong to.          *)
(***************************************************************************)
EXTENDS Integers, FiniteSets

CONSTANTS
  NumLayers,     \* MoE layers decoded on the CPU
  FlagCapacity,  \* layers that have a flag slot; the others use callbacks
  MaxSteps,      \* bound: decode steps
  Ahead,         \* steps enqueued and not yet processed: 2 with overlap scheduling
  TickLimit,     \* watchdog rounds in 10 s
  MayDie         \* where the coordinator may stop for good: {} , "scan", "run"

FlagsAssumption ==
  /\ NumLayers \in Nat \ {0} /\ FlagCapacity \in 0 .. NumLayers
  /\ Ahead \in {1, 2} /\ TickLimit \in Nat \ {0}
  /\ MayDie \subseteq {"scan", "run"}

VARIABLES
  gpu,                       \* the stream: step, layer and operation it is at
  x, y,                      \* whose inputs and results the pinned buffers hold
  ready, done, err, served,  \* the flag arrays and the served counts
  coord,                     \* the coordinator: where, slot, whose inputs it took
  callback,                  \* the host callback's task, or None
  watch, suspects,           \* the watchdog
  host,                      \* "loop", "check" or "failed"
  enqueued, shipped,         \* steps given to the stream, steps processed
  stale,                     \* ghost: steps that copied back another task's result
  errAt                      \* ghost: steps enqueued when err was first raised

flagVars == <<ready, done, err, served>>
hostVars == <<host, enqueued, shipped>>
watchVars == <<watch, suspects>>
vars == <<gpu, x, y, flagVars, coord, callback, watchVars, hostVars, stale, errAt>>

Layers == 1 .. NumLayers
Slots == 1 .. FlagCapacity
Steps == 1 .. MaxSteps
Tags == Steps \X Layers
None == <<>>
Torn == <<0, 0>>
Never == -1

Init ==
  /\ gpu = [step |-> 1, layer |-> 1, at |-> "d2h"]
  /\ x = None /\ y = None
  /\ ready = [s \in Slots |-> 0] /\ done = [s \in Slots |-> 0]
  /\ err = [s \in Slots |-> 0] /\ served = [s \in Slots |-> 0]
  /\ coord = [at |-> "scan", slot |-> 0, tag |-> None]
  /\ callback = None
  /\ watch = [at |-> "asleep", slots |-> {}, condemned |-> {}]
  /\ suspects = [s \in Slots |-> None]
  /\ host = "loop" /\ enqueued = 0 /\ shipped = 0
  /\ stale = {} /\ errAt = Never

Finished == gpu.step - 1
Errors == \E s \in Slots : err[s] # 0
ByFlag(l) == l \in Slots

-----------------------------------------------------------------------------
(* The stream, operation by operation. *)

At(op) == gpu.step <= enqueued /\ gpu.at = op

\* decode_submit: the inputs are shipped to pinned memory.
CopyInputs ==
  /\ At("d2h")
  /\ x' = <<gpu.step, gpu.layer>>
  /\ gpu' = [gpu EXCEPT !.at = IF ByFlag(gpu.layer) THEN "first" ELSE "submit"]
  /\ UNCHANGED <<y, flagVars, coord, callback, watchVars, hostVars, stale, errAt>>

\* cumemop_submit writes done before ready.
FirstWrite == "done"

\* WRITE(done[slot] = 0).
DoneReset(s) == [done EXCEPT ![s] = 0]

\* The two front-end writes of cumemop_submit.
MemopWrite ==
  /\ At("first") \/ At("second")
  /\ LET clears == (gpu.at = "first") <=> (FirstWrite = "done")
         s == gpu.layer
     IN  /\ done' = IF clears THEN DoneReset(s) ELSE done
         /\ ready' = IF clears THEN ready ELSE [ready EXCEPT ![s] = 1]
  /\ gpu' = [gpu EXCEPT !.at = IF gpu.at = "first" THEN "second" ELSE "wait"]
  /\ UNCHANGED <<x, y, err, served, coord, callback, watchVars, hostVars, stale, errAt>>

\* cumemop_sync: WAIT(done[slot] >= 1).
MemopWait ==
  /\ At("wait") /\ done[gpu.layer] >= 1
  /\ gpu' = [gpu EXCEPT !.at = "h2d"]
  /\ UNCHANGED <<x, y, flagVars, coord, callback, watchVars, hostVars, stale, errAt>>

\* submit_cb: the callback thread hands the task to the pool.
SubmitCallback ==
  /\ At("submit")
  /\ callback' = x
  /\ gpu' = [gpu EXCEPT !.at = "sync"]
  /\ UNCHANGED <<x, y, flagVars, coord, watchVars, hostVars, stale, errAt>>

\* sync_cb: the pool has drained.
SyncCallback ==
  /\ At("sync")
  /\ y' = callback /\ callback' = None
  /\ gpu' = [gpu EXCEPT !.at = "h2d"]
  /\ UNCHANGED <<x, flagVars, coord, watchVars, hostVars, stale, errAt>>

\* decode_sync: the result is copied back; the next layer, or the next step.
CopyResult ==
  /\ At("h2d")
  /\ stale' = IF y = <<gpu.step, gpu.layer>> THEN stale ELSE stale \cup {gpu.step}
  /\ gpu' = IF gpu.layer = NumLayers
            THEN [step |-> gpu.step + 1, layer |-> 1, at |-> "d2h"]
            ELSE [gpu EXCEPT !.layer = @ + 1, !.at = "d2h"]
  /\ UNCHANGED <<x, y, flagVars, coord, callback, watchVars, hostVars, errAt>>

Stream ==
  CopyInputs \/ MemopWrite \/ MemopWait \/ SubmitCallback \/ SyncCallback \/ CopyResult

-----------------------------------------------------------------------------
(* The coordinator. *)

Coordinator(label) == coord.at = label
ToLabel(label) == coord' = [coord EXCEPT !.at = label]

\* A raised flag is consumed; the slot's task is submitted with what the
\* input buffer holds.
Consume ==
  /\ Coordinator("scan")
  /\ \E s \in Slots :
       /\ ready[s] # 0
       /\ ready' = [ready EXCEPT ![s] = 0]
       /\ coord' = [at |-> "run", slot |-> s, tag |-> x]
  /\ UNCHANGED <<gpu, x, y, done, err, served, callback, watchVars, hostVars, stale, errAt>>

\* submit and sync on the pool: the result is of the inputs it took, provided
\* they stayed in the buffer.
RunTask ==
  /\ Coordinator("run")
  /\ y' = IF x = coord.tag THEN coord.tag ELSE Torn
  /\ ToLabel("done")
  /\ UNCHANGED <<gpu, x, flagVars, callback, watchVars, hostVars, stale, errAt>>

SetDone ==
  /\ Coordinator("done")
  /\ done' = [done EXCEPT ![coord.slot] = 1]
  /\ ToLabel("count")
  /\ UNCHANGED <<gpu, x, y, ready, err, served, callback, watchVars, hostVars, stale, errAt>>

CountServed ==
  /\ Coordinator("count")
  /\ served' = [served EXCEPT ![coord.slot] = @ + 1]
  /\ ToLabel("scan")
  /\ UNCHANGED <<gpu, x, y, ready, done, err, callback, watchVars, hostVars, stale, errAt>>

\* The thread is killed or wedged for good.
Die ==
  /\ coord.at \in MayDie
  /\ ToLabel("dead")
  /\ UNCHANGED <<gpu, x, y, flagVars, callback, watchVars, hostVars, stale, errAt>>

Coord == Consume \/ RunTask \/ SetDone \/ CountServed

-----------------------------------------------------------------------------
(* The watchdog. *)

\* The stream stands at the slot's doorbell, which is unanswered.
Unanswered(s) == gpu.layer = s /\ gpu.at \in {"second", "wait"} /\ done[s] = 0

\* Ghost: the step of the first doorbell of the slot that was not answered yet.
Due(s) ==
  LET past == \/ gpu.layer > s
              \/ gpu.layer = s /\ gpu.at \in {"second", "wait"} /\ done[s] = 1
              \/ gpu.layer = s /\ gpu.at = "h2d"
  IN  IF past THEN gpu.step + 1 ELSE gpu.step

\* Ghost: the coordinator has answered the slot and not counted it.
OwesCount(s) == coord.at = "count" /\ coord.slot = s

\* No task of the slot was counted since it was first suspected.
SameServed(s) == suspects[s].served = served[s]

\* A pending slot is seen: a new suspect, one that made progress, an old one.
Seen(s) ==
  IF suspects[s] = None \/ ~SameServed(s)
  THEN [age |-> 0, served |-> served[s], due |-> Due(s)]
  ELSE [suspects[s] EXCEPT !.age = IF @ < TickLimit THEN @ + 1 ELSE @]

\* What a slot is condemned for.
Verdict(s) ==
  [slot |-> s, same |-> Seen(s).due = Due(s) /\ Unanswered(s), counting |-> OwesCount(s)]

\* The slots that may still be pending after a read of the round; the others are no
\* suspects any more, and without any the round is over.
Keep(slots, next) ==
  /\ watch' = [watch EXCEPT !.at = IF slots = {} THEN "asleep" ELSE next, !.slots = slots]
  /\ suspects' = [s \in Slots |-> IF s \in slots THEN suspects[s] ELSE None]
  /\ UNCHANGED <<gpu, x, y, flagVars, coord, callback, hostVars, stale, errAt>>

\* _watchdog_tick reads ready, and done after it.
ReadReady == watch.at = "asleep" /\ Keep({s \in Slots : ready[s] = 1}, "flags")
ReadDone  == watch.at = "flags" /\ Keep({s \in watch.slots : done[s] = 0}, "counts")

\* It reads the served count of a pending slot, which may have been answered since.
ReadCount ==
  /\ watch.at = "counts"
  /\ \E s \in watch.slots :
       LET left == watch.slots \ {s}
           dead == watch.condemned \cup (IF Seen(s).age = TickLimit THEN {Verdict(s)} ELSE {})
       IN  /\ suspects' = [suspects EXCEPT ![s] = Seen(s)]
           /\ watch' = [at |-> IF left # {} THEN "counts"
                               ELSE IF dead = {} THEN "asleep" ELSE "err",
                        slots |-> left, condemned |-> dead]
  /\ UNCHANGED <<gpu, x, y, flagVars, coord, callback, hostVars, stale, errAt>>

Condemned == {c.slot : c \in watch.condemned}

\* Fault: the stream is released before the error is raised.
FirstStore_done == "done"

\* err is raised before done is set.
FirstStore == "err"

\* The stores of a condemnation: err for every dead slot, then done.
Poison ==
  /\ watch.at \in {"err", "done"}
  /\ LET raises == (watch.at = "err") <=> (FirstStore = "err")
         set(f) == [s \in Slots |-> IF s \in Condemned THEN 1 ELSE f[s]]
     IN  /\ err' = IF raises THEN set(err) ELSE err
         /\ done' = IF raises THEN done ELSE set(done)
         /\ errAt' = IF raises /\ errAt = Never THEN enqueued ELSE errAt
  /\ IF watch.at = "err" THEN watch' = [watch EXCEPT !.at = "done"] /\ UNCHANGED suspects
     ELSE /\ watch' = [watch EXCEPT !.at = "asleep", !.condemned = {}]
          /\ suspects' = [s \in Slots |-> IF s \in Condemned THEN None ELSE suspects[s]]
  /\ UNCHANGED <<gpu, x, y, ready, served, coord, callback, hostVars, stale>>

Watchdog == ReadReady \/ ReadDone \/ ReadCount \/ Poison

-----------------------------------------------------------------------------
(* The engine loop. *)

\* forward_batch: the step is given to the stream, nothing is waited for.
Forward ==
  /\ host = "loop" /\ enqueued < MaxSteps /\ enqueued - shipped < Ahead
  /\ enqueued' = enqueued + 1
  /\ host' = "check"
  /\ UNCHANGED <<gpu, x, y, flagVars, coord, callback, watchVars, shipped, stale, errAt>>

\* What raise_if_unhealthy reads.
Unhealthy == Errors

\* raise_if_unhealthy.
CheckHealth ==
  /\ host = "check"
  /\ host' = IF Unhealthy THEN "failed" ELSE "loop"
  /\ UNCHANGED <<gpu, x, y, flagVars, coord, callback, watchVars, enqueued, shipped, stale,
                 errAt>>

\* The scheduler waits for a step's copy_done event and processes its tokens.
Process ==
  /\ host = "loop" /\ shipped < Finished
  /\ shipped' = shipped + 1
  /\ UNCHANGED <<gpu, x, y, flagVars, coord, callback, watchVars, host, enqueued, stale, errAt>>

Engine == Forward \/ CheckHealth \/ Process

Next == Stream \/ Coord \/ Die \/ Watchdog \/ Engine

Spec == Init /\ [][Next]_vars

\* The device, the threads and the engine loop are scheduled; a coordinator
\* that has died is not.
FairSpec ==
  Spec /\ WF_vars(Stream) /\ WF_vars(Coord) /\ WF_vars(Watchdog) /\ WF_vars(Engine)

-----------------------------------------------------------------------------
(* Properties *)

\* Types.
TypeOK ==
  /\ gpu.step \in 1 .. MaxSteps + 1 /\ gpu.layer \in Layers
  /\ gpu.at \in {"d2h", "first", "second", "wait", "submit", "sync", "h2d"}
  /\ x \in Tags \cup {None} /\ y \in Tags \cup {None, Torn}
  /\ {ready, done, err} \subseteq [Slots -> {0, 1}] /\ served \in [Slots -> 0 .. MaxSteps]
  /\ coord.at \in {"scan", "run", "done", "count", "dead"}
  /\ callback \in Tags \cup {None}
  /\ watch.at \in {"asleep", "flags", "counts", "err", "done"}
  /\ watch.slots \subseteq Slots /\ Condemned \subseteq Slots
  /\ host \in {"loop", "check", "failed"}
  /\ shipped <= enqueued /\ enqueued \in 0 .. MaxSteps
  /\ stale \subseteq Steps /\ errAt \in Steps \cup {0, Never}

\* A stream that goes on with a result that is not its own layer's does so only
\* after the watchdog has raised err: neither a slow coordinator, nor one that
\* dies, nor a poisoned flag that lands in a later step slips a wrong result past
\* the error check.
StaleIsFlagged == stale # {} => Errors

\* The pool has one caller at a time, as its counters require: while err is
\* down, a host callback and the coordinator are never both in it, and the
\* coordinator's inputs are not overwritten while it runs.
PoolHasOneCaller ==
  ~Errors => /\ callback # None => coord.at # "run"
             /\ coord.at = "run" => x = coord.tag

\* A step that is enqueued after err was raised never reaches a client.
NothingAfterError == errAt # Never => shipped <= errAt

\* "A coordinator that made progress in between is alive": when a slot is condemned, the
\* stream still stands at the very doorbell that was due when the count was first read -
\* though flags and count are read apart, and a step may be answered between them - save
\* when the coordinator stands between its done store and its count.
OneDoorbell == \A c \in watch.condemned : c.same \/ c.counting

\* A stream that goes on with a result that is not its own layer's does so only under a
\* raised err, whoever is slow, dies or is poisoned; no step enqueued after that reaches a
\* client.
StaleIsSeen == StaleIsFlagged /\ PoolHasOneCaller /\ NothingAfterError /\ OneDoorbell

\* The stream never stalls for good: every step it was given ends, with the
\* coordinator's answer or with the watchdog's.
StreamNeverStalls == (Finished < enqueued) ~> (Finished = enqueued)

\* A coordinator that dies while it polls is noticed: provided there are steps
\* left to run - the stalled one, those enqueued behind it and one more - the
\* engine ends in a loud error.
DeathIsLoud ==
  (coord.at = "dead" /\ enqueued + Ahead < MaxSteps) ~> (host = "failed")

\* No token of a step whose expert outputs are stale reaches a client.
StaleNeverShips == \A k \in stale : shipped < k
=============================================================================
