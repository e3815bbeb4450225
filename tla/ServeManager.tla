---------------------------- MODULE ServeManager ----------------------------
(***************************************************************************)
(* The supervisor of one "ft serve" child (daemon/serve_manager.py), its   *)
(* accounting outbox (daemon/accounting.py) and its state file             *)
(* (daemon/pidfile.py).                                                    *)
(*                                                                         *)
(* Threads: the transaction that holds _lifecycle (start, stop, switch,    *)
(* shutdown, or the start of an automatic restart), one monitor per child, *)
(* and the pollers of /engine/stats.  A step is a section under _cond, or  *)
(* one act outside it: a spawn, a signal, a file written or removed.       *)
(*                                                                         *)
(* A generation is one spawned process; its number stands for pid and start*)
(* time.  total is what its engine has sampled, a history that receipts are*)
(* compared with.  A receipt is known by its id: the same id is the same   *)
(* file.                                                                   *)
(***************************************************************************)
EXTENDS Integers, FiniteSets, TLC

CONSTANTS
    MaxGen,         \* spawns
    MaxTokens,      \* tokens of a generation
    MaxCalls,       \* client transactions
    Confs,          \* (model, port, args)
    AutoRestart,    \* auto_restart
    Legacy,         \* the engine has no prepare-stop endpoint
    DiskFails,      \* receipts may fail to be written
    SpawnFails,     \* a spawn may fail
    SaveFails,      \* the state file may fail to be written
    MaxAcks,        \* acknowledgements
    MaxBoots        \* times the daemon dies and is started again

ServeAssumption ==
    /\ {MaxGen, MaxTokens, MaxCalls, MaxAcks, MaxBoots} \subseteq Nat
    /\ {AutoRestart, Legacy, DiskFails, SpawnFails, SaveFails} \subseteq BOOLEAN
    /\ IsFiniteSet(Confs) /\ Confs # {}

Gens == 1..MaxGen
None == 0

VARIABLES
    proc, total, sealed, termed,   \* the processes; sealed: prepare-stop closed the engine
    up,                            \* the daemon runs
    child, conf, stopping, stopReq, shutReq,   \* state guarded by _cond
    reaped,                        \* child.reaped
    mon, wasStopping, isCurrent,   \* the monitors and their locals
    restart,                       \* automatic restarts decided and not yet run
    op,                            \* the transaction that holds _lifecycle
    durable, seen,                 \* _durable_accounting, _last_accounting
    cache,                         \* a stats document fetched and not yet observed
    pidfile,                       \* the generation in serve.json
    outbox, written,               \* receipts not yet acknowledged; all ever written
    gaveUp,                        \* stops that ended without the process
    promise,                       \* what the last transaction told the client
    calls, acks, boots

procVars == <<proc, total, sealed, termed>>
memVars  == <<child, conf, stopping, stopReq, shutReq, reaped>>
monVars  == <<mon, wasStopping, isCurrent, restart>>
accVars  == <<durable, seen, cache>>
diskVars == <<pidfile, outbox, written>>
histVars == <<gaveUp, promise, calls, acks, boots>>
vars == <<procVars, up, memVars, monVars, op, accVars, diskVars, histVars>>

NoDoc == [gen |-> None, total |-> 0]
NoReceipt == [id |-> <<"none", None, 0>>, gen |-> None, from |-> NoDoc, drained |-> FALSE]
NoOp == [kind |-> "none", at |-> "idle", conf |-> CHOOSE c \in Confs : TRUE,
         force |-> FALSE, gen |-> None, doc |-> NoReceipt]

Alive(g) == proc[g] = "alive"
Running == child # None /\ ~stopping

-----------------------------------------------------------------------------
(* Receipts. *)

\* _sealed_receipt, _best_effort_receipt, _degraded_receipt, _persist_crash_accounting.
Sealed(g) == [id |-> <<"instance", g, 0>>, gen |-> g, drained |-> TRUE,
              from |-> [gen |-> g, total |-> total[g]]]
Snapshot(g) == [id |-> <<"snapshot", g, total[g]>>, gen |-> g, drained |-> FALSE,
                from |-> [gen |-> g, total |-> total[g]]]
Degraded(g) == [id |-> <<"legacy", g, 0>>, gen |-> g, drained |-> FALSE, from |-> NoDoc]
Crash(g) == [id |-> <<"crash", g, 0>>, gen |-> g, drained |-> FALSE, from |-> seen[g]]

\* AccountingOutbox.persist: a receipt with the id is kept as it is.
Persist(r) ==
    LET same == {x \in outbox : x.id = r.id}
    IN /\ outbox' = IF same = {} THEN outbox \cup {r} ELSE outbox
       /\ written' = IF same = {} THEN written \cup {r} ELSE written

\* The receipt of g is durable: nothing more is written for it.
MarkDurable(g) ==
    /\ durable' = durable \cup {g}
    /\ seen' = [seen EXCEPT ![g] = NoDoc]

\* _accounting_guard: a stop holds it from before prepare-stop until the receipt is
\* written; every other use is within one step.
GuardFree == op.at # "persist"

-----------------------------------------------------------------------------
(* Transactions. *)

End(told) ==
    /\ op' = NoOp
    /\ promise' = told

\* A client call takes _lifecycle.  The promise of the last stop lasts until a client
\* asks for a serve.
Call ==
    /\ up /\ op.kind = "none" /\ calls < MaxCalls
    /\ \E k \in {"start", "stop", "switch", "shutdown"}, c \in Confs, f \in BOOLEAN :
         /\ k = "start" => ~f
         /\ k \in {"stop", "shutdown"} => c = NoOp.conf
         /\ op' = [NoOp EXCEPT !.kind = k, !.conf = c, !.force = f,
                               !.at = IF k = "start" THEN "start" ELSE "stop"]
         /\ promise' = IF k \in {"start", "switch"} THEN "none" ELSE promise
         /\ shutReq' = (shutReq \/ k = "shutdown")
    /\ calls' = calls + 1
    /\ UNCHANGED <<procVars, up, child, conf, stopping, stopReq, reaped, monVars, accVars, diskVars, gaveUp, acks, boots>>

\* The thread of an automatic restart takes _lifecycle.
AutoCall(g) ==
    /\ up /\ op.kind = "none" /\ restart[g] # {}
    /\ \E c \in restart[g] : op' = [NoOp EXCEPT !.kind = "auto", !.conf = c, !.at = "start"]
    /\ restart' = [restart EXCEPT ![g] = {}]
    /\ UNCHANGED <<procVars, up, memVars, mon, wasStopping, isCurrent, accVars, diskVars, histVars>>

\* Fault: the restart does not look at the latch again.
StartRefused_late == shutReq

\* The gate of _start.
StartRefused == shutReq \/ (op.kind = "auto" /\ stopReq)

\* _start up to the spawn: refused, already running (the same or a Conflict), or on.
StartChecks ==
    /\ op.at = "start"
    /\ stopReq' = (stopReq /\ (op.kind = "auto" \/ StartRefused))
    /\ \/ /\ StartRefused \/ Running
          /\ End(promise)
       \/ /\ ~StartRefused /\ ~Running
          /\ op' = [op EXCEPT !.at = "spawn"]
          /\ UNCHANGED promise
    /\ UNCHANGED <<procVars, up, child, conf, stopping, shutReq, reaped, monVars, accVars, diskVars, gaveUp, calls, acks, boots>>

\* spawn_serve, outside the lock; it may fail.
Spawn ==
    /\ op.at = "spawn"
    /\ \/ \E g \in Gens :
            /\ proc[g] = "none" /\ \A h \in 1..(g - 1) : proc[h] # "none"
            /\ proc' = [proc EXCEPT ![g] = "alive"]
            /\ op' = [op EXCEPT !.at = "install", !.gen = g]
            /\ UNCHANGED promise
       \/ /\ SpawnFails \/ \A g \in Gens : proc[g] # "none"
          /\ End(promise) /\ UNCHANGED proc
    /\ UNCHANGED <<total, sealed, termed, up, memVars, monVars, accVars, diskVars, gaveUp, calls, acks, boots>>

Install ==
    /\ op.at = "install"
    /\ child' = op.gen /\ conf' = op.conf /\ stopping' = FALSE
    /\ op' = [op EXCEPT !.at = "save"]
    /\ UNCHANGED <<procVars, up, stopReq, shutReq, reaped, monVars, accVars, diskVars, histVars>>

\* _persist: an error leaves _start at once.
Save ==
    /\ op.at = "save"
    /\ \/ /\ pidfile' = op.gen
          /\ op' = [op EXCEPT !.at = "watch"]
          /\ UNCHANGED promise
       \/ /\ SaveFails /\ End(promise)
          /\ UNCHANGED pidfile
    /\ UNCHANGED <<procVars, up, memVars, monVars, accVars, outbox, written, gaveUp, calls, acks, boots>>

\* _begin_watch, and the end of the transaction.
Watch ==
    /\ op.at = "watch"
    /\ mon' = [mon EXCEPT ![op.gen] = "wait"]
    /\ End(promise)
    /\ UNCHANGED <<procVars, up, memVars, wasStopping, isCurrent, restart, accVars, diskVars, gaveUp, calls, acks, boots>>

\* _stop, first section: nothing to stop, or on to prepare-stop.
StopBegin ==
    /\ op.at = "stop"
    /\ stopReq' = TRUE
    /\ IF child = None
       THEN /\ op' = IF op.kind = "switch" THEN [op EXCEPT !.at = "start"] ELSE NoOp
            /\ promise' = IF op.kind = "switch" THEN promise ELSE "already"
            /\ UNCHANGED stopping
       ELSE /\ stopping' = TRUE
            /\ op' = [op EXCEPT !.at = "prepare", !.gen = child]
            /\ UNCHANGED promise
    /\ UNCHANGED <<procVars, up, child, conf, shutReq, reaped, monVars, accVars, diskVars, gaveUp, calls, acks, boots>>

\* A failed stop keeps its child visible and retryable.
StoppingAfter == stopping /\ child # op.gen

\* An exception inside _stop; shutdown opens again.
StopFails ==
    /\ stopping' = StoppingAfter
    /\ shutReq' = (shutReq /\ op.kind # "shutdown")
    /\ End(promise)

\* What prepare-stop may come to: the receipts that may follow it.  {} is an error.
\* A dead engine answers neither prepare-stop nor stats.
Prepared(g) ==
    LET stats == (IF Alive(g) THEN {Snapshot(g)} ELSE {})
                 \cup (IF op.force THEN {Degraded(g)} ELSE {})
    IN (IF Alive(g) /\ ~Legacy THEN {Sealed(g)} ELSE {})
       \cup (IF Legacy \/ op.force THEN stats ELSE {})

\* A sealed receipt needs drain_complete: the engine samples no more.
Accepted(r) == r.drained => op.gen \in sealed'

\* The receipt comes before the signal.
AfterPrepare == "persist"

\* _prepare_and_persist_accounting, up to the answer.  The engine may be sealed though
\* the answer is lost.
Prepare ==
    /\ op.at = "prepare"
    /\ sealed' \in {sealed} \cup (IF Alive(op.gen) /\ ~Legacy THEN {sealed \cup {op.gen}} ELSE {})
    /\ \/ \E r \in Prepared(op.gen) :
            /\ op' = [op EXCEPT !.at = AfterPrepare, !.doc = r]
            /\ Accepted(r)
            /\ UNCHANGED <<stopping, shutReq, promise>>
       \/ StopFails
    /\ UNCHANGED <<proc, total, termed, up, child, conf, stopReq, reaped, monVars, accVars, diskVars, gaveUp, calls, acks, boots>>

PersistStop ==
    /\ op.at = "persist"
    /\ \/ /\ Persist(op.doc)
          /\ MarkDurable(op.gen)
          /\ op' = [op EXCEPT !.at = "signal", !.doc = NoReceipt]
          /\ UNCHANGED <<stopping, shutReq, promise>>
       \/ /\ DiskFails
          /\ StopFails
          /\ UNCHANGED <<outbox, written, durable, seen>>
    /\ UNCHANGED <<procVars, up, child, conf, stopReq, reaped, monVars, cache, pidfile, gaveUp, calls, acks, boots>>

Signal ==
    /\ op.at = "signal" /\ op.gen \notin reaped
    /\ termed' = termed \cup {op.gen}
    /\ op' = [op EXCEPT !.at = "grace"]
    /\ UNCHANGED <<proc, total, sealed, up, memVars, monVars, accVars, diskVars, histVars>>

\* Fault: stop waits for an engine that ignores SIGTERM.
GraceEnds_never == FALSE

\* The grace ends before the monitor has seen the exit.
GraceEnds == op.gen \notin reaped

Kill ==
    /\ op.at = "grace" /\ GraceEnds
    /\ proc' = [proc EXCEPT ![op.gen] = "dead"]
    /\ op' = [op EXCEPT !.at = "kill"]
    /\ UNCHANGED <<total, sealed, termed, up, memVars, monVars, accVars, diskVars, histVars>>

\* The monitor has not reaped the child in time after SIGKILL.
GiveUp ==
    /\ op.at = "kill" /\ op.gen \notin reaped
    /\ StopFails
    /\ gaveUp' = [gaveUp EXCEPT ![op.gen] = @ + 1]
    /\ UNCHANGED <<procVars, up, child, conf, stopReq, reaped, monVars, accVars, diskVars, calls, acks, boots>>

\* The child is reaped: the stop is over, or the start of a switch begins.
StopDone ==
    /\ op.at \in {"signal", "grace", "kill"} /\ op.gen \in reaped
    /\ IF op.kind = "switch"
       THEN op' = [op EXCEPT !.at = "start"] /\ UNCHANGED promise
       ELSE End("stopped")
    /\ UNCHANGED <<procVars, up, memVars, monVars, accVars, diskVars, gaveUp, calls, acks, boots>>

-----------------------------------------------------------------------------
(* The monitor: _monitor and _reap. *)

MonWake(g) ==
    /\ up /\ mon[g] = "wait" /\ proc[g] = "dead"
    /\ mon' = [mon EXCEPT ![g] = "seal"]
    /\ wasStopping' = [wasStopping EXCEPT ![g] = stopping \/ stopReq]
    /\ isCurrent' = [isCurrent EXCEPT ![g] = child = g]
    /\ UNCHANGED <<procVars, up, memVars, restart, op, accVars, diskVars, histVars>>

MaySeal == GuardFree

\* Fault: a second receipt is written for a generation that has one.
Uncounted_current(g) == isCurrent[g]

\* _persist_crash_accounting is for a current child without a durable receipt.
Uncounted(g) == isCurrent[g] /\ g \notin durable

MonSeal(g) ==
    /\ up /\ mon[g] = "seal" /\ MaySeal
    /\ mon' = [mon EXCEPT ![g] = "forget"]
    /\ \/ /\ Uncounted(g)
          /\ \/ Persist(Crash(g)) /\ MarkDurable(g) /\ UNCHANGED stopReq
             \/ DiskFails /\ stopReq' = TRUE /\ UNCHANGED <<outbox, written, durable, seen>>
       \/ ~Uncounted(g) /\ UNCHANGED <<outbox, written, durable, seen, stopReq>>
    /\ UNCHANGED <<procVars, up, child, conf, stopping, shutReq, reaped, wasStopping, isCurrent, restart,
                   op, cache, pidfile, histVars>>

Forgets(g) == child = g

MonForget(g) ==
    /\ up /\ mon[g] = "forget"
    /\ isCurrent' = [isCurrent EXCEPT ![g] = Forgets(g)]
    /\ child' = IF Forgets(g) THEN None ELSE child
    /\ stopping' = (stopping /\ ~Forgets(g))
    /\ mon' = [mon EXCEPT ![g] = "clear"]
    /\ UNCHANGED <<procVars, up, conf, stopReq, shutReq, reaped, wasStopping, restart, op, accVars, diskVars, histVars>>

\* The state file is removed, then stop() is woken.
AfterForget(g) ==
    \/ mon[g] = "clear" /\ pidfile' = (IF isCurrent[g] THEN None ELSE pidfile)
                        /\ mon' = [mon EXCEPT ![g] = "wake"] /\ UNCHANGED reaped
    \/ mon[g] = "wake" /\ reaped' = reaped \cup {g}
                       /\ mon' = [mon EXCEPT ![g] = "decide"] /\ UNCHANGED pidfile

MonClear(g) ==
    /\ up /\ AfterForget(g)
    /\ UNCHANGED <<procVars, up, child, conf, stopping, stopReq, shutReq, wasStopping, isCurrent, restart, op,
                   accVars, outbox, written, histVars>>

\* Only a crash is restarted, and never one the client has asked to stop.
Restarts(g) == isCurrent[g] /\ AutoRestart /\ ~wasStopping[g] /\ ~stopReq

\* _restart_async restarts the configuration that is current now.
RestartConf == conf

MonDecide(g) ==
    /\ up /\ mon[g] = "decide"
    /\ mon' = [mon EXCEPT ![g] = "done"]
    /\ restart' = IF Restarts(g) THEN [restart EXCEPT ![g] = {RestartConf}] ELSE restart
    /\ wasStopping' = [wasStopping EXCEPT ![g] = FALSE]
    /\ isCurrent' = [isCurrent EXCEPT ![g] = FALSE]
    /\ UNCHANGED <<procVars, up, memVars, op, accVars, diskVars, histVars>>

-----------------------------------------------------------------------------
(* Polls, acknowledgements, engines, and the daemon itself. *)

\* ServeProbe.stats of a running child; one poll is under way at a time.
PollFetch ==
    /\ up /\ Running /\ Alive(child) /\ cache = NoDoc
    /\ cache' = [gen |-> child, total |-> total[child]]
    /\ UNCHANGED <<procVars, up, memVars, monVars, op, durable, seen, diskVars, histVars>>

\* observe_accounting of a fetched or cached document, for the child that is current now.
Observe ==
    /\ up /\ cache # NoDoc /\ child # None /\ GuardFree
    /\ seen' = [seen EXCEPT ![child] = cache]
    /\ cache' = NoDoc
    /\ UNCHANGED <<procVars, up, memVars, monVars, op, durable, diskVars, histVars>>

Ack ==
    /\ up /\ acks < MaxAcks
    /\ acks' = acks + 1
    /\ \E r \in outbox : outbox' = outbox \ {r}
    /\ UNCHANGED <<procVars, up, memVars, monVars, op, accVars, pidfile, written, gaveUp, promise, calls, boots>>

\* The engine samples a token, until prepare-stop has sealed it.
Sample(g) ==
    /\ Alive(g) /\ g \notin sealed /\ total[g] < MaxTokens
    /\ total' = [total EXCEPT ![g] = @ + 1]
    /\ UNCHANGED <<proc, sealed, termed, up, memVars, monVars, op, accVars, diskVars, histVars>>

\* A process ends: by itself or by SIGTERM.
Exit(g) ==
    /\ Alive(g)
    /\ proc' = [proc EXCEPT ![g] = "dead"]
    /\ UNCHANGED <<total, sealed, termed, up, memVars, monVars, op, accVars, diskVars, histVars>>

\* The daemon dies or exits; the engine outlives it.
DaemonGone ==
    /\ up /\ boots < MaxBoots
    /\ up' = FALSE /\ boots' = boots + 1
    /\ child' = None /\ stopping' = FALSE /\ stopReq' = FALSE /\ shutReq' = FALSE
    /\ conf' = NoOp.conf /\ reaped' = {}
    /\ mon' = [g \in Gens |-> "none"] /\ restart' = [g \in Gens |-> {}]
    /\ wasStopping' = [g \in Gens |-> FALSE] /\ isCurrent' = [g \in Gens |-> FALSE]
    /\ durable' = {} /\ seen' = [g \in Gens |-> NoDoc] /\ cache' = NoDoc
    /\ op' = NoOp /\ promise' = "none"
    /\ UNCHANGED <<procVars, diskVars, gaveUp, calls, acks>>

\* is_ft_serve_on_port of the record.
Adoptable == pidfile # None /\ Alive(pidfile)

\* readopt: the recorded serve if it is alive, else the record is cleared.
Boot ==
    /\ ~up /\ up' = TRUE
    /\ \/ /\ Adoptable
          /\ child' = pidfile
          /\ conf' \in Confs
          /\ mon' = [mon EXCEPT ![pidfile] = "wait"]
          /\ UNCHANGED pidfile
       \/ /\ ~Adoptable
          /\ pidfile' = None
          /\ UNCHANGED <<child, conf, mon>>
    /\ UNCHANGED <<procVars, stopping, stopReq, shutReq, reaped, wasStopping, isCurrent, restart, op,
                   accVars, outbox, written, histVars>>

-----------------------------------------------------------------------------
Init ==
    /\ proc = [g \in Gens |-> "none"] /\ total = [g \in Gens |-> 0] /\ sealed = {} /\ termed = {}
    /\ up = TRUE
    /\ child = None /\ conf = NoOp.conf /\ stopping = FALSE /\ stopReq = FALSE /\ shutReq = FALSE
    /\ reaped = {}
    /\ mon = [g \in Gens |-> "none"] /\ restart = [g \in Gens |-> {}]
    /\ wasStopping = [g \in Gens |-> FALSE] /\ isCurrent = [g \in Gens |-> FALSE]
    /\ op = NoOp /\ durable = {} /\ seen = [g \in Gens |-> NoDoc] /\ cache = NoDoc
    /\ pidfile = None /\ outbox = {} /\ written = {}
    /\ gaveUp = [g \in Gens |-> 0] /\ promise = "none" /\ calls = 0 /\ acks = 0 /\ boots = 0

Transaction ==
    \/ StartChecks \/ Spawn \/ Install \/ Save \/ Watch
    \/ StopBegin \/ Prepare \/ PersistStop \/ Signal \/ Kill \/ GiveUp \/ StopDone

Monitor(g) == MonWake(g) \/ MonSeal(g) \/ MonForget(g) \/ MonClear(g) \/ MonDecide(g)

Next ==
    \/ Call \/ Transaction
    \/ \E g \in Gens : AutoCall(g) \/ Monitor(g) \/ Sample(g) \/ Exit(g)
    \/ PollFetch \/ Observe \/ Ack
    \/ DaemonGone \/ Boot

Spec == Init /\ [][Next]_vars

\* Threads are scheduled; nothing obliges an engine to exit or a client to call.
FairSpec ==
    /\ Spec
    /\ WF_vars(Transaction)
    /\ \A g \in Gens : WF_vars(Monitor(g)) /\ WF_vars(AutoCall(g))

-----------------------------------------------------------------------------
(* Properties. *)

Receipts(g) == {r \in written : r.gen = g}
Starting == op.at \in {"install", "save", "watch"}

\* Type invariant.
TypeOK ==
    /\ child \in Gens \cup {None} /\ pidfile \in Gens \cup {None}
    /\ op.gen \in Gens \cup {None} /\ op.conf \in Confs
    /\ reaped \subseteq Gens /\ durable \subseteq Gens
    /\ \A g \in Gens : /\ proc[g] \in {"none", "alive", "dead"}
                       /\ mon[g] # "none" => proc[g] # "none"
                       /\ restart[g] \subseteq Confs
    /\ outbox \subseteq written

\* Two engines never run at once, whatever starts, stops, crashes and restarts do.
OneServe == Cardinality({g \in Gens : Alive(g)}) <= 1

\* A stop signals an engine only after its receipt has reached the outbox.
ReceiptBeforeSignal == \A g \in termed : Receipts(g) # {}

\* "Keep the gap visible and suppress auto-restart rather than hiding it behind a fresh
\* generation": a generation that is restarted automatically has left a receipt.
NoHiddenGap == \A g \in Gens : restart[g] # {} => Receipts(g) # {}

\* A child is forgotten, and a stop told that it is gone, only with its receipt written.
ForgottenIsRecorded == \A g \in Gens : mon[g] \in {"clear", "wake", "decide", "done"} => Receipts(g) # {}

\* No generation is counted twice: a crash during a stop, a forced stop after a crash,
\* retries and acknowledgements add no second receipt with totals, unless a stop gave up
\* and was asked for again.
CountedOnce == \A g \in Gens : Cardinality({r \in Receipts(g) : r.from # NoDoc}) <= 1 + gaveUp[g]

\* A receipt that says it is drained has every token its engine will ever have sampled.
DrainedIsExact == \A r \in written : r.drained => r.from = [gen |-> r.gen, total |-> total[r.gen]]

\* "Remember the latest validated totals for the current child": the totals of a receipt
\* were sampled by its own generation.
ReceiptsOwnTotals == \A r \in written : r.from.gen \in {r.gen, None}

\* What a stop has told the client stays true until the client asks for a serve: no
\* automatic restart brings one back, and serve.json is empty.
StopHonoured ==
    /\ promise \in {"stopped", "already"} => \A g \in Gens : ~Alive(g)
    /\ promise = "stopped" => pidfile = None

\* From the moment a shutdown begins until it fails nothing is spawned, whatever client
\* calls and automatic restarts were waiting behind it.
SpawnsNothing == \A g \in Gens : proc[g] = "none" => proc'[g] = "none"
ShutdownFinal == [][shutReq => SpawnsNothing]_vars

\* "Exactly ONE reaper": a child outside a start has a monitor that has yet to forget it.
ChildIsWatched == child # None /\ ~Starting => mon[child] \in {"wait", "seal", "forget"}

\* serve.json names the running child outside a start, "so a restarted daemon can
\* re-adopt a still-running serve".
PidfileNamesChild == up /\ child # None /\ ~Starting => pidfile = child

\* "a daemon/Desktop crash cannot create an unrecorded gap": a generation the daemon has
\* stopped looking after has a receipt.
EveryDeathRecorded ==
    up => \A g \in Gens : proc[g] = "dead" /\ child # g /\ op.gen # g /\ mon[g] = "none" => Receipts(g) # {}

\* A child's death is noticed.
DeathNoticed == \A g \in Gens : (child = g /\ proc[g] = "dead" /\ mon[g] = "wait" ~> child # g)

\* Every lifecycle call returns.
CallsReturn == (op.kind # "none" ~> op.kind = "none")

\* A crash is followed by a new child, unless a stop or a shutdown has been asked for
\* or no further process can be spawned.
CrashRestarted ==
    \A g \in Gens :
        (child = g /\ proc[g] = "dead"
            ~> child \notin {g, None} \/ stopReq \/ shutReq \/ \A h \in Gens : proc[h] # "none")
=============================================================================
