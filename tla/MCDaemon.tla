------------------------------ MODULE MCDaemon ------------------------------
(***************************************************************************)
(* The parts of the daemon that share no state, one state space for TLC: a *)
(* behaviour picks an instance of one and runs it alone.  The variables of *)
(* the others stay Unused; those of the same name are shared.              *)
(***************************************************************************)
EXTENDS Integers, Sequences, FiniteSets

VARIABLES
    instance,                                     \* what this behaviour runs
    proc, child, reaped, mon, calls,              \* ServeManager's and GpuJobs's
    total, sealed, termed, up, conf, stopping, stopReq, shutReq, wasStopping, isCurrent,
    restart, op, durable, seen, cache, pidfile, outbox, written, gaveUp, promise, acks,
    boots,                                        \* ServeManager's
    call, worker, serve, bench, job,              \* GpuJobs's
    next, pushing, subscribed, loop, stage, since, boundary, backlog, q, drop, lastSeq, rec,
    out, reconnects                               \* LogStream's

childVars == <<proc, child, reaped, mon, calls>>
serveVars == <<total, sealed, termed, up, conf, stopping, stopReq, shutReq, wasStopping,
               isCurrent, restart, op, durable, seen, cache, pidfile, outbox, written, gaveUp,
               promise, acks, boots>>
jobVars   == <<call, worker, serve, bench, job>>
logVars   == <<next, pushing, subscribed, loop, stage, since, boundary, backlog, q, drop,
               lastSeq, rec, out, reconnects>>
vars      == <<instance, childVars, serveVars, jobVars, logVars>>

Unused == "unused"
NoChild == /\ proc = Unused /\ child = Unused /\ reaped = Unused /\ mon = Unused
           /\ calls = Unused
NoServe == /\ total = Unused /\ sealed = Unused /\ termed = Unused /\ up = Unused
           /\ conf = Unused /\ stopping = Unused /\ stopReq = Unused /\ shutReq = Unused
           /\ wasStopping = Unused /\ isCurrent = Unused /\ restart = Unused /\ op = Unused
           /\ durable = Unused /\ seen = Unused /\ cache = Unused /\ pidfile = Unused
           /\ outbox = Unused /\ written = Unused /\ gaveUp = Unused /\ promise = Unused
           /\ acks = Unused /\ boots = Unused
NoJob   == /\ call = Unused /\ worker = Unused /\ serve = Unused /\ bench = Unused
           /\ job = Unused
NoLog   == /\ next = Unused /\ pushing = Unused /\ subscribed = Unused /\ loop = Unused
           /\ stage = Unused /\ since = Unused /\ boundary = Unused /\ backlog = Unused
           /\ q = Unused /\ drop = Unused /\ lastSeq = Unused /\ rec = Unused
           /\ out = Unused /\ reconnects = Unused

-----------------------------------------------------------------------------
OneConf == {"a"}

\* Starts, stops, a shutdown, crashes and automatic restarts.
Crashes == INSTANCE ServeManager
              WITH Confs <- OneConf, MaxGen <- 2, MaxTokens <- 1, MaxCalls <- 2, MaxAcks <- 0,
                   MaxBoots <- 0, SpawnFails <- TRUE, SaveFails <- FALSE, AutoRestart <- TRUE,
                   Legacy <- FALSE, DiskFails <- FALSE

\* A disk that loses receipts.
Disk == INSTANCE ServeManager
           WITH Confs <- OneConf, MaxGen <- 2, MaxTokens <- 0, MaxCalls <- 3, MaxAcks <- 0,
                MaxBoots <- 0, SpawnFails <- TRUE, SaveFails <- FALSE, AutoRestart <- TRUE,
                Legacy <- FALSE, DiskFails <- TRUE

\* An engine without prepare-stop, whose receipts are acknowledged.
OldEngine == INSTANCE ServeManager
                WITH Confs <- OneConf, MaxGen <- 2, MaxTokens <- 1, MaxCalls <- 2, MaxAcks <- 1,
                     MaxBoots <- 0, SpawnFails <- TRUE, SaveFails <- FALSE,
                     AutoRestart <- TRUE, Legacy <- TRUE, DiskFails <- FALSE

\* A daemon that dies and comes back to a serve that still runs.
Reboot == INSTANCE ServeManager
             WITH Confs <- OneConf, MaxGen <- 2, MaxTokens <- 1, MaxCalls <- 2, MaxAcks <- 0,
                  MaxBoots <- 1, SpawnFails <- TRUE, SaveFails <- FALSE, AutoRestart <- TRUE,
                  Legacy <- FALSE, DiskFails <- FALSE

Jobs == INSTANCE GpuJobs
           WITH Clients <- {"c1", "c2"}, Ids <- {"i", "j"}, MaxProcs <- 3, MaxCalls <- 6,
                WithServe <- FALSE

\* One appending thread, and a reader that comes back once.
Tailed == INSTANCE LogStream
           WITH Appenders <- {"tailer"}, Capacity <- 2, QueueMax <- 2, MaxSeq <- 7,
                MaxReconnects <- 1

\* The serve's tailer and the manager append to one ring, in any order ("both") or with
\* no push that overtakes another ("turns").
Both == INSTANCE LogStream
           WITH Appenders <- {"tailer", "manager"}, Capacity <- 3, QueueMax <- 1, MaxSeq <- 4,
                MaxReconnects <- 1

ASSUME InstancesSound ==
    /\ Crashes!ServeAssumption /\ Disk!ServeAssumption /\ OldEngine!ServeAssumption
    /\ Reboot!ServeAssumption /\ Jobs!GpuAssumption
    /\ Tailed!LogAssumption /\ Both!LogAssumption

Init ==
    \/ /\ \/ instance = "crashes"    /\ Crashes!Init
          \/ instance = "disk"       /\ Disk!Init
          \/ instance = "old engine" /\ OldEngine!Init
          \/ instance = "reboot"     /\ Reboot!Init
       /\ NoJob /\ NoLog
    \/ instance = "jobs" /\ Jobs!Init /\ NoServe /\ NoLog
    \/ /\ \/ instance = "tail" /\ Tailed!Init
          \/ instance \in {"both", "turns"} /\ Both!Init
       /\ NoChild /\ NoServe /\ NoJob

NextServe ==
    /\ \/ instance = "crashes"    /\ Crashes!Next
       \/ instance = "disk"       /\ Disk!Next
       \/ instance = "old engine" /\ OldEngine!Next
       \/ instance = "reboot"     /\ Reboot!Next
    /\ UNCHANGED <<instance, jobVars, logVars>>

NextJobs == instance = "jobs" /\ Jobs!Next /\ UNCHANGED <<instance, serveVars, logVars>>

NextLog ==
    /\ \/ instance = "tail" /\ Tailed!Next
       \/ instance = "both" /\ Both!Next
       \/ instance = "turns" /\ Both!Next /\ Both!InTurn
    /\ UNCHANGED <<instance, childVars, serveVars, jobVars>>

Next == NextServe \/ NextJobs \/ NextLog

Spec == Init /\ [][Next]_vars

-----------------------------------------------------------------------------
(* An engine is signalled, forgotten or reported gone only with its        *)
(* receipt written; no generation is counted twice, whatever crashes       *)
(* during a stop, forced stops and retries add; and a receipt that says    *)
(* drained has every token (ReceiptBeforeSignal, ForgottenIsRecorded,      *)
(* CountedOnce, DrainedIsExact; not those a lost receipt or a restarted    *)
(* daemon breaks).                                                         *)
StopsAreRecorded ==
    /\ instance = "crashes" =>
         Crashes!ReceiptBeforeSignal /\ Crashes!ForgottenIsRecorded /\ Crashes!CountedOnce
           /\ Crashes!DrainedIsExact
    /\ instance = "disk" => Disk!ReceiptBeforeSignal /\ Disk!CountedOnce
    /\ instance = "old engine" =>
         OldEngine!ReceiptBeforeSignal /\ OldEngine!ForgottenIsRecorded /\ OldEngine!CountedOnce
    /\ instance = "reboot" => Reboot!ReceiptBeforeSignal /\ Reboot!DrainedIsExact

(* Two engines never run at once, each is watched by one monitor; what a   *)
(* stop has told the client stays true, no automatic restart brings the    *)
(* serve back, and nothing is spawned once a shutdown began (OneServe,     *)
(* ChildIsWatched, StopHonoured, ShutdownFinal).                           *)
OneServeWatched ==
    /\ [](/\ instance = "crashes" =>
               Crashes!OneServe /\ Crashes!ChildIsWatched /\ Crashes!StopHonoured
          /\ instance = "disk"   => Disk!OneServe /\ Disk!StopHonoured
          /\ instance = "reboot" => Reboot!ChildIsWatched)
    /\ [][instance = "crashes" /\ shutReq => Crashes!SpawnsNothing]_vars

(* Two conversions never run at once, and what a cancel has answered       *)
(* stays: the exit of the job it ended does not turn it into done or       *)
(* failed (OneConversion, CancelStays).                                    *)
CancelsHold ==
    /\ [](instance = "jobs" => Jobs!OneConversion)
    /\ [][instance = "jobs" /\ job.state = "cancelled" => job'.state \notin {"done", "failed"}]_vars

(* A client of the log stream gets every record once, in order, or is told *)
(* of the gap, across a reconnection and a slow reader                     *)
(* (LogStream.LogIsHonest), as long as no push overtakes another; and it   *)
(* never gets a record twice.                                              *)
LogIsHonest ==
    /\ instance = "tail"  => Tailed!LogIsHonest
    /\ instance = "turns" => Both!LogIsHonest
    /\ instance = "both"  => Both!NoDuplicate
=============================================================================
