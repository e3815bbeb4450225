------------------------------ MODULE GpuJobs -------------------------------
(***************************************************************************)
(* The GPU's users as the daemon's routes see them: the serve, the         *)
(* checkpoint conversions (daemon/checkpoint.py) and the bandwidth bench   *)
(* (daemon/app.py).                                                        *)
(*                                                                         *)
(* The lifecycle pool has one worker, so manager and checkpoint calls run  *)
(* one at a time, but a route that makes two calls submits them one after  *)
(* the other and others may come between.  The serve is the abstract       *)
(* promise of ServeManager: a start runs it, a stop ends it or fails.  A   *)
(* process is a number; a job holds the process it was given.              *)
(***************************************************************************)
EXTENDS Integers, FiniteSets

CONSTANTS
    Clients,        \* requests to the daemon, one at a time each
    Ids,            \* job ids
    MaxProcs,       \* conversions spawned
    MaxCalls,       \* requests
    WithServe       \* /engine/start is among the requests

GpuAssumption ==
    /\ IsFiniteSet(Clients) /\ IsFiniteSet(Ids) /\ Ids # {}
    /\ MaxProcs \in Nat /\ MaxCalls \in Nat /\ WithServe \in BOOLEAN

Procs == 1..MaxProcs
None == 0

VARIABLES
    call,           \* client -> its request: kind, id and the pool call it waits for
    worker,         \* the client whose call the pool's worker runs, and where it is
    serve,          \* the engine runs
    bench,          \* clients whose bench process runs
    job, child,     \* _job and _child, under _lock
    proc,           \* conversion processes
    reaped,         \* child.reaped
    mon,            \* the monitors: where, and the id they watch
    calls

vars == <<call, worker, serve, bench, job, child, proc, reaped, mon, calls>>

Free == "free"
NoJob == [id |-> CHOOSE i \in Ids : TRUE, pid |-> None, state |-> "none", code |-> None]
NoCall == [kind |-> "none", id |-> NoJob.id, at |-> "idle"]
Idle == [who |-> Free, at |-> "idle", pid |-> None]

Converting == {p \in Procs : proc[p] = "alive"}

-----------------------------------------------------------------------------
(* Requests. *)

Request(c) ==
    /\ call[c].kind = "none" /\ calls < MaxCalls
    /\ \E k \in {"convert", "cancel", "bench"} \cup (IF WithServe THEN {"start"} ELSE {}), i \in Ids :
         /\ k \in {"bench", "start"} => i = NoJob.id
         /\ call' = [call EXCEPT ![c] = [kind |-> k, id |-> i, at |-> IF k \in {"convert", "bench"} THEN "stop" ELSE k]]
    /\ calls' = calls + 1
    /\ UNCHANGED <<worker, serve, bench, job, child, proc, reaped, mon>>

\* A pool call has come to its end; the route goes on with next, or answers.
Returns(c, next) ==
    /\ worker' = Idle
    /\ call' = [call EXCEPT ![c] = IF next = "answer" THEN NoCall ELSE [@ EXCEPT !.at = next]]

Runs(c, at) == worker = Idle /\ call[c].at = at

EngineStart(c) ==
    /\ Runs(c, "start")
    /\ serve' \in {serve, TRUE}
    /\ Returns(c, "answer")
    /\ UNCHANGED <<bench, job, child, proc, reaped, mon, calls>>

\* GPU exclusivity: manager.stop before the conversion or the bench; its error ends the
\* route.
EngineStop(c) ==
    /\ Runs(c, "stop")
    /\ \/ serve' = FALSE /\ Returns(c, call[c].kind)
       \/ serve /\ Returns(c, "answer") /\ UNCHANGED serve
    /\ UNCHANGED <<bench, job, child, proc, reaped, mon, calls>>

\* The bench process, outside the pool.
BenchRuns(c) ==
    /\ call[c].at = "bench"
    /\ \/ c \notin bench /\ bench' = bench \cup {c} /\ UNCHANGED call
       \/ bench' = bench \ {c} /\ call' = [call EXCEPT ![c] = NoCall]
    /\ UNCHANGED <<worker, serve, job, child, proc, reaped, mon, calls>>

-----------------------------------------------------------------------------
(* CheckpointManager. *)

\* The admission of start: a running job, or a child that has not been reaped.
Refused(i) ==
    \/ job.state = "running"
    \/ child # None /\ child \notin reaped

Reserve(c) ==
    /\ Runs(c, "convert")
    /\ IF Refused(call[c].id)
       THEN Returns(c, "answer") /\ UNCHANGED <<job, child>>
       ELSE /\ job' = [NoJob EXCEPT !.id = call[c].id, !.state = "running"]
            /\ child' = None
            /\ worker' = [Idle EXCEPT !.who = c, !.at = "spawn"]
            /\ UNCHANGED call
    /\ UNCHANGED <<serve, bench, proc, reaped, mon, calls>>

\* A failed spawn releases the reservation.
Released == NoJob

Spawn(c) ==
    /\ worker.who = c /\ worker.at = "spawn"
    /\ \/ \E p \in Procs :
            /\ proc[p] = "none" /\ \A q \in 1..(p - 1) : proc[q] # "none"
            /\ proc' = [proc EXCEPT ![p] = "alive"]
            /\ worker' = [worker EXCEPT !.at = "install", !.pid = p]
            /\ UNCHANGED <<call, job>>
       \/ /\ job' = Released
          /\ Returns(c, "answer")
          /\ UNCHANGED proc
    /\ UNCHANGED <<serve, bench, child, reaped, mon, calls>>

\* The child is installed and its monitor started.
Install(c) ==
    /\ worker.who = c /\ worker.at = "install"
    /\ child' = worker.pid
    /\ job' = [job EXCEPT !.pid = worker.pid]
    /\ mon' = [mon EXCEPT ![worker.pid] = [at |-> "wait", id |-> call[c].id]]
    /\ Returns(c, "answer")
    /\ UNCHANGED <<serve, bench, proc, reaped, calls>>

Cancel(c) ==
    /\ Runs(c, "cancel")
    /\ IF job.id = call[c].id /\ job.state = "running"
       THEN /\ job' = [job EXCEPT !.state = "cancelled"]
            /\ worker' = [who |-> c, at |-> "terminate", pid |-> child]
            /\ UNCHANGED call
       ELSE Returns(c, "answer") /\ UNCHANGED job
    /\ UNCHANGED <<serve, bench, child, proc, reaped, mon, calls>>

\* The grace is over and the child is not reaped: SIGKILL.
KillAfterGrace(p) == [proc EXCEPT ![p] = "dead"]

\* _terminate: SIGTERM, which the process may ignore, the grace, SIGKILL.
Terminate(c) ==
    /\ worker.who = c /\ worker.at = "terminate"
    /\ proc' = IF worker.pid \in reaped THEN proc ELSE KillAfterGrace(worker.pid)
    /\ Returns(c, "answer")
    /\ UNCHANGED <<serve, bench, job, child, reaped, mon, calls>>

Exit(p) ==
    /\ proc[p] = "alive"
    /\ proc' = [proc EXCEPT ![p] = "dead"]
    /\ UNCHANGED <<call, worker, serve, bench, job, child, reaped, mon, calls>>

Gone(p) == proc[p] = "dead"

\* _monitor: first the event, then the job, under the lock and by its id.
MonReap(p) ==
    /\ mon[p].at = "wait" /\ Gone(p)
    /\ reaped' = reaped \cup {p}
    /\ mon' = [mon EXCEPT ![p].at = "update"]
    /\ UNCHANGED <<call, worker, serve, bench, job, child, proc, calls>>

\* Fault: a job that was cancelled is marked done or failed by its exit.
EndState_exit(s) == s

\* A cancelled job keeps its state.
EndState(s) == IF job.state = "cancelled" THEN "cancelled" ELSE s

MonUpdate(p) ==
    /\ mon[p].at = "update"
    /\ \E s \in {"done", "failed"} :
         job' = IF job.state # "none" /\ job.id = mon[p].id
                THEN [job EXCEPT !.state = EndState(s), !.code = p] ELSE job
    /\ mon' = [mon EXCEPT ![p].at = "done"]
    /\ UNCHANGED <<call, worker, serve, bench, child, proc, reaped, calls>>

-----------------------------------------------------------------------------
Init ==
    /\ call = [c \in Clients |-> NoCall] /\ worker = Idle
    /\ serve \in (IF WithServe THEN BOOLEAN ELSE {FALSE})
    /\ bench = {} /\ job = NoJob /\ child = None
    /\ proc = [p \in Procs |-> "none"] /\ reaped = {}
    /\ mon = [p \in Procs |-> [at |-> "none", id |-> NoJob.id]]
    /\ calls = 0

PoolStep(c) ==
    EngineStart(c) \/ EngineStop(c) \/ Reserve(c) \/ Spawn(c) \/ Install(c) \/ Cancel(c) \/ Terminate(c)

Next ==
    \/ \E c \in Clients : Request(c) \/ PoolStep(c) \/ BenchRuns(c)
    \/ \E p \in Procs : Exit(p) \/ MonReap(p) \/ MonUpdate(p)

Spec == Init /\ [][Next]_vars

\* The pool's worker and the monitors are scheduled; a conversion may run for ever.
FairSpec ==
    /\ Spec
    /\ \A c \in Clients : WF_vars(PoolStep(c))
    /\ \A p \in Procs : WF_vars(MonReap(p) \/ MonUpdate(p))

-----------------------------------------------------------------------------
(* Properties. *)

\* Type invariant.
TypeOK ==
    /\ job.state \in {"none", "running", "done", "failed", "cancelled"} /\ job.id \in Ids
    /\ child \in Procs \cup {None} /\ worker.who \in Clients \cup {Free}
    /\ reaped \subseteq {p \in Procs : proc[p] = "dead"} /\ bench \subseteq Clients
    /\ \A p \in Procs : proc[p] \in {"none", "alive", "dead"}

\* "no two GPU conversions at once", whatever is started and cancelled.
OneConversion == Cardinality(Converting) <= 1

\* A conversion that runs has a job to be seen and cancelled by, or is being cancelled.
\* In particular the exit of an earlier job of the same id does not end it.
RunningIsCancellable == child # None /\ proc[child] = "alive" => job.state \in {"running", "cancelled"}

\* "GPU exclusivity [...] is enforced at the route layer": one user at a time.
GpuExclusive == Cardinality(Converting) + Cardinality(bench) + (IF serve THEN 1 ELSE 0) <= 1

\* What a cancel has answered stays: the job's exit does not turn it into done or failed.
CancelStays == [][job.state = "cancelled" => job'.state \notin {"done", "failed"}]_vars

\* A conversion that was cancelled ends though it ignores SIGTERM.
CancelEnds == \A p \in Procs : (job.state = "cancelled" /\ job.pid = p /\ p # None ~> proc[p] = "dead")

\* A slot that was taken is given back: no reservation outlives its process.
SlotReturns ==
    (job.state = "running" ~> job.state # "running" \/ \E p \in Procs : child = p /\ proc[p] = "alive")
=============================================================================
