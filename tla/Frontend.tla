------------------------------ MODULE Frontend ------------------------------
(***************************************************************************)
(* The API server front end (server/api_server.py, accounting.py,          *)
(* supervisor.py, stats.py): coroutines of one event loop interleaved at   *)
(* their awaits, the supervisor thread beside them, and the backend they   *)
(* talk to over two FIFO queues.                                           *)
(*                                                                         *)
(*   loop     request handlers (one consumer per uid), the listener, the   *)
(*            abort tasks, one cache-rebuild caller, one prepare-stop      *)
(*            caller (a lock serialises them) and the shutdown hook        *)
(*   thread   run_backend_supervisor with its three callbacks              *)
(*   backend  tokenizer workers and scheduler, as far as the front end     *)
(*            can tell: one terminal reply ends every request              *)
(***************************************************************************)
EXTENDS Naturals, Sequences, FiniteSets, SequencesExt, FiniteSetsExt

CONSTANTS Uids,        \* the requests that may arrive
          MaxTokens,   \* tokens sampled for one request
          MaxRebuilds, \* calls of POST /v1/cache/rebuild
          MaxStops,    \* calls of POST /v1/admin/prepare-stop
          MayCrash,    \* workers may die before shutdown() ends them
          Reorders,    \* several tokenizer workers: messages overtake
          SendFails,   \* the queue to the tokenizer may raise
          Preempts     \* the two threads may switch inside a callback

ASSUME FrontendAssumption ==
    /\ IsFiniteSet(Uids)
    /\ MaxTokens \in Nat \ {0}
    /\ MaxRebuilds \in Nat
    /\ MaxStops \in Nat
    /\ {MayCrash, Reorders, SendFails, Preempts} \subseteq BOOLEAN

None == "none"

VARIABLES
    gate,      \* maintenance_state
    pend,      \* the gate value the running loop callback is about to store
    fatal,     \* fatal_error is not None
    sup,       \* where the supervisor thread is
    resolve,   \* _resolve_all is scheduled on the loop
    timer,     \* _exit_after_backend_death is counting
    term,      \* SIGTERM reached uvicorn
    down,      \* _SHUTTING_DOWN; the loop has ended
    backend,   \* "loading", "alive"; or a worker is gone: by itself
               \* ("crashed"), from the signal of a stop ("signalled"),
               \* or ended by shutdown() ("terminated")
    acked,     \* every ready ack of the workers is in the ack queue
    to,        \* send_tokenizer: messages not yet handled
    from,      \* recv_tokenizer: replies not yet read
    eng,       \* a request in the backend: "out", "queued" or "decode"
    tomb,      \* _abort_tombstones
    work,      \* history: replies with a token the backend sent, per uid
    client,    \* the handler of a uid
    ack,       \* ack_map (and event_map, which has the same keys)
    event,     \* the uids whose asyncio.Event is set
    batch,     \* pending, the local list of wait_for_ack
    got,       \* history: replies with a token the client received
    inflight,  \* StatsTracker._inflight
    total,     \* prompt_tokens_total + completion_tokens_total
    sleeping,  \* abort_user tasks of disconnected clients
    stop,      \* where prepare_stop_accounting is
    todo,      \* its abort_user calls not yet made
    stops,     \* calls made
    sealed,    \* _sealed_accounting: the totals once there are any
    rb,        \* where the caller of dispatch_rebuild is
    rebuilds,  \* calls made; the request id of the last one
    futures    \* rebuild_futures

gateVars    == <<gate, pend, fatal>>
threadVars  == <<sup, resolve, timer>>
lifeVars    == <<term, down, backend, acked>>
engineVars  == <<eng, tomb, work>>
clientVars  == <<client, event, batch, got>>
statsVars   == <<inflight, total>>
stopVars    == <<stop, todo, stops, sealed>>
rebuildVars == <<rb, rebuilds, futures>>

vars == <<gateVars, threadVars, lifeVars, engineVars, clientVars, statsVars,
          stopVars, rebuildVars, to, from, ack, sleeping>>

Gates == {"loading", "serving", "rebuilding", "failed", "stopping"}

\* "admit" carries the prompt's tokens, "tok" and "last" one sampled token
Counted  == {"admit", "tok", "last"}
Terminal == {"last", "end"}

Gone == {"crashed", "signalled", "terminated"}

Connected == {u \in Uids : client[u] \in {"waiting", "yield"}}
Mapped    == DOMAIN ack

(* A callback of the loop runs to its next await before another one does. *)
LoopFree == pend = None /\ ~down

(* ack_map and event_map after pop(m) *)
Without(m) == [u \in Mapped \ {m} |-> ack[u]]

(* ... and after a new request u registered *)
With(u) == [v \in Mapped \cup {u} |-> IF v = u THEN <<>> ELSE ack[v]]

(***************************************************************************)
(* The gate.  The loop and the supervisor thread both read it and store    *)
(* it with no lock; a switch between the two is possible when Preempts.    *)
(***************************************************************************)
SetGate(v) == IF Preempts THEN pend' = v /\ UNCHANGED gate
                          ELSE gate' = v /\ UNCHANGED pend

StoreGate ==
    /\ pend # None
    /\ gate' = pend
    /\ pend' = None
    /\ UNCHANGED <<fatal, threadVars, lifeVars, engineVars, clientVars,
                   statsVars, stopVars, rebuildVars, to, from, ack, sleeping>>

-----------------------------------------------------------------------------
(***************************************************************************)
(* Generation requests                                                     *)
(***************************************************************************)

(* new_user refuses unless the gate is open, and registers the uid *)
NewUser(u) ==
    /\ gate = "serving"
    /\ ack' = With(u)
    /\ inflight' = inflight \cup {u}

(* generate / submit_generation: a new user, and the request goes to the   *)
(* tokenizer.  A put that raises leaves the uid registered and the handler *)
(* answers 500.                                                            *)
Generate(u, sent) ==
    /\ LoopFree /\ ~term
    /\ client[u] = "none"
    /\ NewUser(u)
    /\ sent \/ SendFails
    /\ client' = [client EXCEPT ![u] = IF sent THEN "waiting" ELSE "error"]
    /\ to' = IF sent THEN Append(to, [t |-> "gen", uid |-> u]) ELSE to
    /\ UNCHANGED <<gateVars, threadVars, lifeVars, engineVars, event, batch,
                   got, total, stopVars, rebuildVars, from, sleeping>>

\* Fault: only replies somebody waits for are counted.
Observe_live(m) ==
    /\ total' = total + (IF m.t \in Counted /\ m.uid \in Mapped THEN 1 ELSE 0)
    /\ inflight' = IF m.t \in Terminal THEN inflight \ {m.uid} ELSE inflight

(* StatsTracker.observe *)
Observe(m) ==
    /\ total' = total + (IF m.t \in Counted THEN 1 ELSE 0)
    /\ inflight' = IF m.t \in Terminal THEN inflight \ {m.uid} ELSE inflight

\* Fault: the signal is lost unless the handler waits at that moment.
Signalled_waiting(u) == IF client[u] = "waiting" THEN event \cup {u} ELSE event

(* event_map[uid].set() *)
Signalled(u) == event \cup {u}

(* listen, a reply: counted whoever waits for it, queued for a live request *)
Deliver ==
    /\ LoopFree
    /\ from # <<>>
    /\ LET m == Head(from) IN
         /\ m.t # "rebuilt"
         /\ Observe(m)
         /\ IF m.uid \in Mapped
              THEN /\ ack' = [ack EXCEPT ![m.uid] = Append(@, m.t)]
                   /\ event' = Signalled(m.uid)
              ELSE UNCHANGED <<ack, event>>
    /\ from' = Tail(from)
    /\ UNCHANGED <<gateVars, threadVars, lifeVars, engineVars, client, batch,
                   got, stopVars, rebuildVars, to, sleeping>>

(* wait_for_ack wakes up: it takes the list, or fails on ack_map[uid] when *)
(* an abort removed the key between the event and this step.               *)
Wake(u) ==
    /\ LoopFree
    /\ client[u] = "waiting"
    /\ u \in event
    /\ event' = event \ {u}
    /\ IF u \in Mapped
         THEN /\ batch' = [batch EXCEPT ![u] = ack[u]]
              /\ ack' = [ack EXCEPT ![u] = <<>>]
              /\ client' = [client EXCEPT ![u] =
                              IF ack[u] = <<>> THEN "waiting" ELSE "yield"]
         ELSE /\ client' = [client EXCEPT ![u] = "error"]
              /\ UNCHANGED <<batch, ack>>
    /\ UNCHANGED <<gateVars, threadVars, lifeVars, engineVars, got, statsVars,
                   stopVars, rebuildVars, to, from, sleeping>>

\* Fault: the list is emptied again once its acks are written.
AckAfter_reset(u, t) ==
    IF t \in Terminal THEN Without(u)
    ELSE IF Len(batch[u]) = 1 /\ u \in Mapped THEN [ack EXCEPT ![u] = <<>>] ELSE ack

AckAfter(u, t) == IF t \in Terminal THEN Without(u) ELSE ack

(* One ack is yielded and written to the client (an await); the terminal   *)
(* one ends the handler, and the finally block drops the uid's entries.    *)
Yield(u) ==
    /\ LoopFree
    /\ client[u] = "yield"
    /\ LET t == Head(batch[u]) IN
         /\ got' = [got EXCEPT ![u] = @ + (IF t \in Counted THEN 1 ELSE 0)]
         /\ client' = [client EXCEPT ![u] =
              IF t \in Terminal THEN "done" ELSE IF Len(batch[u]) = 1 THEN "waiting" ELSE "yield"]
         /\ ack' = AckAfter(u, t)
    /\ batch' = [batch EXCEPT ![u] = Tail(@)]
    /\ UNCHANGED <<gateVars, threadVars, lifeVars, engineVars, event, statsVars,
                   stopVars, rebuildVars, to, from, sleeping>>

(* stream_with_cancellation: the client went away, an abort task starts *)
Disconnect(u) ==
    /\ LoopFree
    /\ u \in Connected
    /\ client' = [client EXCEPT ![u] = "gone"]
    /\ batch' = [batch EXCEPT ![u] = <<>>]
    /\ sleeping' = sleeping \cup {u}
    /\ UNCHANGED <<gateVars, threadVars, lifeVars, engineVars, event, got,
                   statsVars, stopVars, rebuildVars, to, from, ack>>

(* The abandoned generator is closed some time later: its finally runs *)
CloseGenerator(u) ==
    /\ LoopFree
    /\ client[u] = "gone"
    /\ client' = [client EXCEPT ![u] = "closed"]
    /\ ack' = Without(u)
    /\ UNCHANGED <<gateVars, threadVars, lifeVars, engineVars, event, batch,
                   got, statsVars, stopVars, rebuildVars, to, from, sleeping>>

(* abort_user after its sleep: the entries go and the backend is told *)
AbortUser(u, sent) ==
    /\ ack' = Without(u)
    /\ sent \/ SendFails
    /\ to' = IF sent THEN Append(to, [t |-> "abort", uid |-> u]) ELSE to

AbortTask(u, sent) ==
    /\ LoopFree
    /\ u \in sleeping
    /\ AbortUser(u, sent)
    /\ sleeping' = sleeping \ {u}
    /\ UNCHANGED <<gateVars, threadVars, lifeVars, engineVars, clientVars,
                   statsVars, stopVars, rebuildVars, from>>

-----------------------------------------------------------------------------
(***************************************************************************)
(* prepare_stop_accounting                                                 *)
(***************************************************************************)

\* Fault: a stop does not look at the rebuild.
Rebuilding_ignored == FALSE

Rebuilding == gate = "rebuilding"

(* A sealed snapshot is returned again; a rebuild in progress refuses the  *)
(* stop; every other state closes the gate and starts the drain.           *)
PrepareStop ==
    /\ LoopFree /\ ~term
    /\ stop = "idle"
    /\ stops < MaxStops
    /\ stops' = stops + 1
    /\ IF sealed # <<>> \/ Rebuilding
         THEN UNCHANGED <<gate, pend, stop>>
         ELSE SetGate("stopping") /\ stop' = "drain"
    /\ UNCHANGED <<fatal, threadVars, lifeVars, engineVars, clientVars,
                   statsVars, todo, sealed, rebuildVars, to, from, ack,
                   sleeping>>

(* StatsTracker.active is zero *)
Idle == inflight = {}

(* _wait_for_idle came back with nothing active: the totals are final *)
Seal ==
    /\ LoopFree
    /\ stop \in {"drain", "settle"}
    /\ Idle
    /\ sealed' = <<total>>
    /\ stop' = "idle"
    /\ UNCHANGED <<gateVars, threadVars, lifeVars, engineVars, clientVars,
                   statsVars, todo, stops, rebuildVars, to, from, ack,
                   sleeping>>

(* _wait_for_idle gave up; everything still active is to be aborted *)
DrainTimeout ==
    /\ LoopFree
    /\ stop = "drain"
    /\ ~Idle
    /\ stop' = "abort"
    /\ todo' = inflight
    /\ UNCHANGED <<gateVars, threadVars, lifeVars, engineVars, clientVars,
                   statsVars, stops, sealed, rebuildVars, to, from, ack,
                   sleeping>>

(* One abort_user of the gather.  If its put raises, the stop is refused   *)
(* and the other calls go on as tasks of their own.                        *)
AbortForStop(u, sent) ==
    /\ LoopFree
    /\ u \in todo
    /\ AbortUser(u, sent)
    /\ IF sent THEN /\ todo' = todo \ {u}
                    /\ stop' = IF todo = {u} THEN "settle" ELSE stop
                    /\ UNCHANGED sleeping
               ELSE /\ todo' = {}
                    /\ stop' = "idle"
                    /\ sleeping' = sleeping \cup (todo \ {u})
    /\ UNCHANGED <<gateVars, threadVars, lifeVars, engineVars, clientVars,
                   statsVars, stops, sealed, rebuildVars, from>>

(* The second wait timed out: refused, and the gate stays shut *)
SettleTimeout ==
    /\ LoopFree
    /\ stop = "settle"
    /\ ~Idle
    /\ stop' = "idle"
    /\ UNCHANGED <<gateVars, threadVars, lifeVars, engineVars, clientVars,
                   statsVars, todo, stops, sealed, rebuildVars, to, from, ack,
                   sleeping>>

-----------------------------------------------------------------------------
(***************************************************************************)
(* cache_rebuild, dispatch_rebuild and _resolve_rebuild                    *)
(***************************************************************************)

Rebuild ==
    /\ LoopFree /\ ~term
    /\ rb = "idle"
    /\ gate = "serving"
    /\ rebuilds < MaxRebuilds
    /\ rebuilds' = rebuilds + 1
    /\ futures' = futures \cup {rebuilds + 1}
    /\ SetGate("rebuilding")
    /\ rb' = "sending"
    /\ UNCHANGED <<fatal, threadVars, lifeVars, engineVars, clientVars,
                   statsVars, stopVars, to, from, ack, sleeping>>

RebuildSent ==
    /\ LoopFree
    /\ rb = "sending"
    /\ rb' = "waiting"
    /\ to' = Append(to, [t |-> "rebuild", uid |-> rebuilds])
    /\ UNCHANGED <<gateVars, threadVars, lifeVars, engineVars, clientVars,
                   statsVars, stopVars, rebuilds, futures, from, ack, sleeping>>

(* The put raised: the gate is rolled back *)
RebuildNotSent ==
    /\ LoopFree
    /\ SendFails
    /\ rb = "sending"
    /\ rb' = "idle"
    /\ futures' = futures \ {rebuilds}
    /\ SetGate("serving")
    /\ UNCHANGED <<fatal, threadVars, lifeVars, engineVars, clientVars,
                   statsVars, stopVars, rebuilds, to, from, ack, sleeping>>

(* wait_for returns the result the future was given *)
RebuildAnswered ==
    /\ LoopFree
    /\ rb = "waiting"
    /\ rebuilds \notin futures
    /\ rb' = "idle"
    /\ UNCHANGED <<gateVars, threadVars, lifeVars, engineVars, clientVars,
                   statsVars, stopVars, rebuilds, futures, to, from, ack,
                   sleeping>>

(* wait_for times out: the gate is left to the late reply *)
RebuildTimeout ==
    /\ LoopFree
    /\ rb = "waiting"
    /\ rebuilds \in futures
    /\ rb' = "idle"
    /\ futures' = futures \ {rebuilds}
    /\ UNCHANGED <<gateVars, threadVars, lifeVars, engineVars, clientVars,
                   statsVars, stopVars, rebuilds, to, from, ack, sleeping>>

(* The gate after a rebuild's reply: a dead backend outranks it *)
Resolved(m) == IF fatal \/ ~m.ok THEN "failed" ELSE "serving"

(* listen, a rebuild's reply *)
ResolveRebuild ==
    /\ LoopFree
    /\ from # <<>>
    /\ Head(from).t = "rebuilt"
    /\ futures' = futures \ {Head(from).uid}
    /\ SetGate(Resolved(Head(from)))
    /\ from' = Tail(from)
    /\ UNCHANGED <<fatal, threadVars, lifeVars, engineVars, clientVars,
                   statsVars, stopVars, rb, rebuilds, to, ack, sleeping>>

(* The futures _resolve_all leaves *)
Unresolved == {}

(* _resolve_all, scheduled by fail_pending_rebuilds *)
ResolveAll ==
    /\ LoopFree
    /\ resolve
    /\ resolve' = FALSE
    /\ futures' = Unresolved
    /\ UNCHANGED <<gateVars, sup, timer, lifeVars, engineVars, clientVars,
                   statsVars, stopVars, rb, rebuilds, to, from, ack, sleeping>>

-----------------------------------------------------------------------------
(***************************************************************************)
(* The supervisor thread                                                   *)
(***************************************************************************)

(* The gate after _on_ready *)
Opened == IF gate = "loading" THEN "serving" ELSE gate

(* drain_ready has every ack; _on_ready reads the gate *)
SupervisorReady ==
    /\ sup = "drain"
    /\ acked
    /\ IF Preempts /\ gate = "loading"
         THEN sup' = "ready" /\ UNCHANGED gate
         ELSE /\ sup' = "watch"
              /\ gate' = Opened
    /\ UNCHANGED <<pend, fatal, resolve, timer, lifeVars, engineVars,
                   clientVars, statsVars, stopVars, rebuildVars, to, from, ack,
                   sleeping>>

(* ... and stores it *)
SupervisorOpens ==
    /\ sup = "ready"
    /\ sup' = "watch"
    /\ gate' = "serving"
    /\ UNCHANGED <<pend, fatal, resolve, timer, lifeVars, engineVars,
                   clientVars, statsVars, stopVars, rebuildVars, to, from, ack,
                   sleeping>>

(* _first_dead found an exited worker, while loading or while watching *)
SupervisorSeesDeath ==
    /\ \/ sup = "drain" /\ ~acked /\ backend \in Gone
       \/ sup = "watch" /\ backend \in Gone
    /\ sup' = "dead"
    /\ UNCHANGED <<gateVars, resolve, timer, lifeVars, engineVars, clientVars,
                   statsVars, stopVars, rebuildVars, to, from, ack, sleeping>>

(* _on_failure starts the exit timer *)
ExitArmed == TRUE

(* Quiet during an orderly stop, otherwise _on_failure *)
SupervisorDecides ==
    /\ sup = "dead"
    /\ IF down THEN sup' = "gone" /\ UNCHANGED <<gate, fatal, resolve, timer>>
               ELSE /\ fatal' = TRUE
                    /\ IF Preempts
                         THEN sup' = "latch" /\ UNCHANGED <<gate, resolve, timer>>
                         ELSE /\ sup' = "gone"
                              /\ gate' = "failed"
                              /\ resolve' = TRUE
                              /\ timer' = ExitArmed
    /\ UNCHANGED <<pend, lifeVars, engineVars, clientVars, statsVars, stopVars,
                   rebuildVars, to, from, ack, sleeping>>

SupervisorLatches ==
    /\ sup = "latch"
    /\ sup' = "gone"
    /\ gate' = "failed"
    /\ resolve' = TRUE
    /\ timer' = ExitArmed
    /\ UNCHANGED <<pend, fatal, lifeVars, engineVars, clientVars, statsVars,
                   stopVars, rebuildVars, to, from, ack, sleeping>>

-----------------------------------------------------------------------------
(***************************************************************************)
(* Shutdown                                                                *)
(***************************************************************************)

(* uvicorn handles a SIGTERM or ^C: it takes no more connections *)
Sigterm ==
    /\ ~term
    /\ term' = TRUE
    /\ UNCHANGED <<gateVars, threadVars, down, backend, acked, engineVars, clientVars,
                   statsVars, stopVars, rebuildVars, to, from, ack, sleeping>>

(* The signal goes to the whole process group (signal_group of the daemon, *)
(* ^C of the terminal): the workers may be gone before uvicorn handles it. *)
(* Those of a shell are in a group of their own.                           *)
GroupSignal ==
    /\ MayCrash
    /\ backend \in {"loading", "alive"}
    /\ backend' = "signalled"
    /\ UNCHANGED <<gateVars, threadVars, term, down, acked, engineVars, clientVars,
                   statsVars, stopVars, rebuildVars, to, from, ack, sleeping>>

(* The timer of _exit_after_backend_death signals the server alone *)

ExitTimer ==
    /\ timer
    /\ timer' = FALSE
    /\ term' = TRUE
    /\ UNCHANGED <<gateVars, sup, resolve, down, backend, acked,
                   engineVars, clientVars, statsVars, stopVars, rebuildVars, to, from, ack,
                   sleeping>>

(* uvicorn waits for the open connections, with no time limit, before the  *)
(* lifespan hook runs: first the flag ...                                  *)
ShutdownFlag ==
    /\ LoopFree
    /\ term
    /\ Connected = {} /\ stop = "idle" /\ rb = "idle"
    /\ down' = TRUE
    /\ UNCHANGED <<gateVars, threadVars, term, backend, acked, engineVars, clientVars,
                   statsVars, stopVars, rebuildVars, to, from, ack, sleeping>>

(* shutdown() runs after _SHUTTING_DOWN.set() *)
Flagged == down

(* ... then _terminate_backend_workers, for those still there *)
ShutdownKill ==
    /\ Flagged
    /\ backend \in {"loading", "alive"}
    /\ backend' = "terminated"
    /\ UNCHANGED <<gateVars, threadVars, term, down, acked, engineVars, clientVars,
                   statsVars, stopVars, rebuildVars, to, from, ack, sleeping>>

-----------------------------------------------------------------------------
(***************************************************************************)
(* The backend                                                             *)
(***************************************************************************)

Loaded ==
    /\ backend = "loading"
    /\ backend' = "alive"
    /\ acked' = TRUE
    /\ UNCHANGED <<gateVars, threadVars, term, down, engineVars, clientVars,
                   statsVars, stopVars, rebuildVars, to, from, ack, sleeping>>

Crash ==
    /\ MayCrash
    /\ backend \in {"loading", "alive"}
    /\ backend' = "crashed"
    /\ UNCHANGED <<gateVars, threadVars, term, down, acked, engineVars, clientVars,
                   statsVars, stopVars, rebuildVars, to, from, ack, sleeping>>

(* The request's abort was handled before it *)
Overtaken(u) == u \in tomb

(* A request: refused with a terminal error (not encodable, too long),     *)
(* dropped when its abort came first, or queued.                           *)
TakeRequest(u) ==
    \/ /\ from' = Append(from, [t |-> "end", uid |-> u])
       /\ UNCHANGED <<eng, tomb>>
    \/ /\ eng' = IF Overtaken(u) THEN eng ELSE [eng EXCEPT ![u] = "queued"]
       /\ tomb' = tomb \ {u}
       /\ UNCHANGED from

(* An abort: always acknowledged with a terminal reply *)
TakeAbort(u) ==
    /\ eng' = [eng EXCEPT ![u] = "out"]
    /\ tomb' = tomb \cup {u}
    /\ from' = Append(from, [t |-> "end", uid |-> u])

(* A rebuild: refused while requests run, else done, or failed for good *)
TakeRebuild(id, ok) ==
    /\ ok \/ \A u \in Uids : eng[u] = "out"
    /\ from' = Append(from, [t |-> "rebuilt", uid |-> id, ok |-> ok])
    /\ UNCHANGED <<eng, tomb>>

Take(i) ==
    /\ backend = "alive"
    /\ i \in 1..Len(to)
    /\ i = 1 \/ Reorders
    /\ LET m == to[i] IN
         \/ m.t = "gen" /\ TakeRequest(m.uid)
         \/ m.t = "abort" /\ TakeAbort(m.uid)
         \/ m.t = "rebuild" /\ \E ok \in BOOLEAN : TakeRebuild(m.uid, ok)
    /\ to' = RemoveAt(to, i)
    /\ UNCHANGED <<gateVars, threadVars, lifeVars, work, clientVars, statsVars,
                   stopVars, rebuildVars, ack, sleeping>>

(* One reply with tokens: the prompt's on admission, then one per sample *)
Reply(u, t, next) ==
    /\ backend = "alive"
    /\ from' = Append(from, [t |-> t, uid |-> u])
    /\ eng' = [eng EXCEPT ![u] = next]
    /\ work' = [work EXCEPT ![u] = @ + 1]
    /\ UNCHANGED <<gateVars, threadVars, lifeVars, tomb, clientVars, statsVars,
                   stopVars, rebuildVars, to, ack, sleeping>>

Admit(u) == eng[u] = "queued" /\ Reply(u, "admit", "decode")

Sample(u) ==
    /\ eng[u] = "decode"
    /\ \/ work[u] < MaxTokens /\ Reply(u, "tok", "decode")
       \/ Reply(u, "last", "out")

-----------------------------------------------------------------------------
Init ==
    /\ gate = "loading" /\ pend = None /\ fatal = FALSE
    /\ sup = "drain" /\ resolve = FALSE /\ timer = FALSE
    /\ term = FALSE /\ down = FALSE /\ backend = "loading" /\ acked = FALSE
    /\ to = <<>> /\ from = <<>>
    /\ eng = [u \in Uids |-> "out"] /\ tomb = {}
    /\ work = [u \in Uids |-> 0] /\ got = [u \in Uids |-> 0]
    /\ client = [u \in Uids |-> "none"]
    /\ ack = <<>> /\ event = {} /\ batch = [u \in Uids |-> <<>>]
    /\ inflight = {} /\ total = 0 /\ sleeping = {}
    /\ stop = "idle" /\ todo = {} /\ stops = 0 /\ sealed = <<>>
    /\ rb = "idle" /\ rebuilds = 0 /\ futures = {}

Handler(u) ==
    \/ Wake(u) \/ Yield(u) \/ CloseGenerator(u)
    \/ \E sent \in BOOLEAN : AbortTask(u, sent) \/ AbortForStop(u, sent)

Backend ==
    \/ \E i \in 1..Len(to) : Take(i)
    \/ \E u \in Uids : Admit(u) \/ Sample(u)

Supervisor ==
    \/ SupervisorReady \/ SupervisorOpens \/ SupervisorSeesDeath
    \/ SupervisorDecides \/ SupervisorLatches

Next ==
    \/ StoreGate
    \/ \E u \in Uids : \/ \E sent \in BOOLEAN : Generate(u, sent)
                       \/ Handler(u) \/ Disconnect(u)
    \/ Deliver \/ ResolveRebuild \/ ResolveAll
    \/ PrepareStop \/ Seal \/ DrainTimeout \/ SettleTimeout
    \/ Rebuild \/ RebuildSent \/ RebuildNotSent \/ RebuildAnswered
    \/ RebuildTimeout
    \/ Supervisor
    \/ Sigterm \/ GroupSignal \/ ExitTimer \/ ShutdownFlag \/ ShutdownKill
    \/ Loaded \/ Crash \/ Backend

Spec == Init /\ [][Next]_vars

(***************************************************************************)
(* Fairness: the event loop runs every ready callback, the supervisor      *)
(* thread is scheduled, timers fire, and the backend, while it lives,      *)
(* answers.  Clients, rebuild callers, the stop's caller and SIGTERM owe   *)
(* nothing, but a signal that reached the workers reaches uvicorn too; nor *)
(* does the timeout of a rebuild, which a good run never needs.            *)
(***************************************************************************)
Fairness ==
    /\ WF_vars(StoreGate) /\ WF_vars(Deliver) /\ WF_vars(ResolveRebuild)
    /\ WF_vars(ResolveAll)
    /\ WF_vars(Seal) /\ WF_vars(DrainTimeout) /\ WF_vars(SettleTimeout)
    /\ WF_vars(RebuildSent \/ RebuildNotSent) /\ WF_vars(RebuildAnswered)
    /\ \A u \in Uids : WF_vars(Handler(u)) /\ WF_vars(Admit(u) \/ Sample(u))
    /\ WF_vars(Take(1)) /\ WF_vars(Loaded)
    /\ WF_vars(Supervisor)
    /\ WF_vars(backend = "signalled" /\ Sigterm)
    /\ WF_vars(ExitTimer) /\ WF_vars(ShutdownFlag) /\ WF_vars(ShutdownKill)

FairSpec == Spec /\ Fairness

Symmetry == Permutations(Uids)

-----------------------------------------------------------------------------
TypeOK ==
    /\ gate \in Gates /\ pend \in Gates \cup {None} /\ fatal \in BOOLEAN
    /\ sup \in {"drain", "ready", "watch", "dead", "latch", "gone"}
    /\ {resolve, timer, term, down, acked} \subseteq BOOLEAN
    /\ backend \in {"loading", "alive"} \cup Gone
    /\ eng \in [Uids -> {"out", "queued", "decode"}] /\ tomb \subseteq Uids
    /\ client \in [Uids -> {"none", "waiting", "yield", "gone", "closed",
                            "done", "error"}]
    /\ Mapped \subseteq Uids /\ event \subseteq Uids
    /\ \A u \in Uids : client[u] = "yield" <=> batch[u] # <<>>
    /\ work \in [Uids -> 0..MaxTokens + 1] /\ got \in [Uids -> 0..MaxTokens + 1]
    /\ inflight \subseteq Uids /\ sleeping \subseteq Uids /\ todo \subseteq Uids
    /\ total \in 0..(MaxTokens + 1) * Cardinality(Uids)
    /\ stop \in {"idle", "drain", "abort", "settle"} /\ stops \in 0..MaxStops
    /\ rb \in {"idle", "sending", "waiting"}
    /\ futures \subseteq 1..rebuilds /\ rebuilds \in 0..MaxRebuilds

(* The replies with a token that the backend has put on the wire so far *)
Produced == Cardinality(UNION {{u} \X (1..work[u]) : u \in Uids})

(* The snapshot prepare-stop hands to the daemon is final: it holds every  *)
(* token the backend admitted or sampled, and none follows, whatever was   *)
(* running, aborted, refused or overtaken when the gate closed.            *)
(* (accounting.py: "process shutdown can no longer race the last sampled-  *)
(* token reply")                                                           *)
SealedIsFinal == sealed # <<>> => sealed = <<Produced>>

(* Once a snapshot is sealed no path reopens admission: not the ready      *)
(* handshake of a backend that was loading, not a rebuild's late reply or  *)
(* rollback.                                                               *)
SealedMeansShut == sealed # <<>> => gate \in {"stopping", "failed"}

(* A fatal worker death outranks every other transition of the gate: once  *)
(* the supervisor has latched it, nothing resurrects the dead backend.     *)
DeadNeverServes == fatal /\ sup = "gone" => gate # "serving"

(* Workers that shutdown() ends are never reported as crashed: the flag is *)
(* up before they go, and the supervisor looks at it after it saw them     *)
(* gone.  (Those that a group's signal ends may be: README, section 4.)    *)
StopIsNotACrash == fatal => backend # "terminated"

(* ack_map and event_map hold no entry of a request that is over: each     *)
(* entry has a handler that will drop it, an abort on its way, or a        *)
(* request the backend has yet to answer.                                  *)
AckMapBounded ==
    Mapped \subseteq Connected \cup inflight \cup sleeping \cup
                     {u \in Uids : client[u] = "gone"}

(* A client that saw the end of its stream saw all of it: every token the  *)
(* backend sent, those that arrived while it was being written to included *)
StreamComplete == \A u \in Uids : client[u] = "done" => got[u] = work[u]

(* A request the backend may still work on is one prepare-stop waits for *)
BusyIsInflight ==
    \A u \in Uids : eng[u] # "out" => u \in inflight

(* The only steps that open a shut gate again: the store of _on_ready, if  *)
(* it read "loading" before a stop shut the gate; the rollback of a        *)
(* rebuild that could not be sent, after a worker's death took the gate    *)
(* from it; and the store of a callback that the latch of a death came     *)
(* into (after "stopping", only if that callback was such a rollback).     *)
Reopens ==
    \/ Preempts /\ SupervisorOpens
    \/ fatal /\ RebuildNotSent
    \/ fatal /\ Preempts /\ StoreGate /\ (gate = "stopping" => SendFails)

(* A gate shut by a stop, a failed rebuild or a death is not opened again  *)
(* by the stop itself, a later rebuild, a late reply or the ready          *)
(* handshake, however the two threads interleave, but by those steps.      *)
StaysShut ==
    gate \in {"stopping", "failed"} => gate' \in {"stopping", "failed"} \/ Reopens

GateStaysShut == [][StaysShut]_vars

(* From the moment the supervisor sets fatal_error no callback that reads  *)
(* it opens the gate: only a store that was under way then does, or the    *)
(* rollback of a rebuild that could not be sent.                           *)
StaysDead ==
    fatal =>
      /\ gate' = "serving" => "serving" \in {gate, pend} \/ RebuildNotSent
      /\ pend' = "serving" => pend = "serving" \/ RebuildNotSent

DeathOutranks == [][StaysDead]_vars

(* The totals are every token the backend sent so far when prepare-stop    *)
(* seals them, whatever became of the gate while it drained.               *)
SealsWhole == [][sealed' # sealed => sealed' = <<Produced>>]_vars

(* A caller blocked in dispatch_rebuild is answered by the reply or by the *)
(* supervisor, without waiting for its timeout.                            *)
RebuildReturns == rb = "waiting" ~> (rb = "idle" \/ down)

(* A rebuild never wedges the server in "rebuilding" *)
GateDefinite == gate = "rebuilding" ~> (gate # "rebuilding" \/ down)

(* prepare-stop returns, sealed or refused, whatever the backend does *)
PrepareReturns == stop # "idle" ~> stop = "idle"

(* A connected client's stream ends while the backend lives, unless        *)
(* prepare-stop cut it (its entry is gone from ack_map).                   *)
ClientAnswered ==
    \A u \in Uids : u \in Connected ~>
        (u \notin Connected \/ u \notin Mapped \/ backend # "alive")

(* After a worker's death was latched the server exits if no client is     *)
(* connected then: only a client that waits can hold the exit back.        *)
ExitsWhenFree == (fatal /\ Connected = {}) ~> down

(* After a worker's death the server exits *)
ServeExits == backend = "crashed" ~> down
=============================================================================
