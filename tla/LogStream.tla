----------------------------- MODULE LogStream ------------------------------
(***************************************************************************)
(* The daemon's log: a bounded ring (daemon/logring.py) that threads       *)
(* append to, and an SSE reader of it (_log_stream of daemon/app.py) that  *)
(* replays the backlog, follows the live records through its own bounded   *)
(* queue and reports what it lost.                                         *)
(*                                                                         *)
(* A record is its sequence number.  The ring's content is the interval    *)
(* lo..next-1.  The event loop runs the callbacks of call_soon_threadsafe  *)
(* in order, and only when no handler holds it.                            *)
(***************************************************************************)
EXTENDS Integers, Sequences

CONSTANTS
    Appenders,      \* threads that append: tailers, the manager
    Capacity,       \* records in the ring
    QueueMax,       \* maxsize of the reader's queue
    MaxSeq,         \* records appended
    MaxReconnects   \* times the reader comes back with Last-Event-ID

LogAssumption ==
    {Capacity, QueueMax} \subseteq Nat \ {0} /\ {MaxSeq, MaxReconnects} \subseteq Nat

VARIABLES
    next,           \* _next
    pushing,        \* appender -> the record it has stored and not yet pushed
    subscribed,     \* push is in _subs
    loop,           \* records whose _put is scheduled on the event loop
    stage,          \* the reader: idle, half, replay, get, send
    since, boundary, backlog, q, drop, lastSeq, rec,
    out,            \* frames sent to the client, over all its connections
    reconnects

ringVars == <<next, pushing, subscribed>>
readVars == <<stage, since, boundary, backlog, q, drop, lastSeq, rec>>
vars == <<ringVars, loop, readVars, out, reconnects>>

None == -1
NoDrop == [n |-> 0, from |-> None, to |-> None]
Frame(s) == [kind |-> "rec", from |-> s, to |-> s]
GapFrame(a, b) == [kind |-> "gap", from |-> a, to |-> b]

lo == IF next > Capacity THEN next - Capacity ELSE 0

-----------------------------------------------------------------------------
(* LogRing. *)

\* append, under the lock: the number, the buffer, and who is subscribed now.
RingAppend(a) ==
    /\ pushing[a] = None /\ next < MaxSeq
    /\ next' = next + 1
    /\ pushing' = [pushing EXCEPT ![a] = IF subscribed THEN next ELSE None]
    /\ UNCHANGED <<subscribed, loop, readVars, out, reconnects>>

\* append, outside the lock: push schedules _put on the event loop.
Push(a) ==
    /\ pushing[a] # None
    /\ loop' = Append(loop, pushing[a])
    /\ pushing' = [pushing EXCEPT ![a] = None]
    /\ UNCHANGED <<next, subscribed, readVars, out, reconnects>>

-----------------------------------------------------------------------------
(* The handler: subscribe, then the snapshot; the loop runs no callback between. *)

\* From which stage each goes to which.
Order == [subscribe |-> <<"idle", "half">>, snapshot |-> <<"half", "replay">>]

Subscribe ==
    /\ stage = Order.subscribe[1] /\ stage' = Order.subscribe[2]
    /\ subscribed' = TRUE
    /\ UNCHANGED <<next, pushing, loop, since, boundary, backlog, q, drop, lastSeq, rec, out, reconnects>>

Least(a, b) == IF a < b THEN a ELSE b
Greatest(a, b) == IF a > b THEN a ELSE b

\* The lost prefix: records at or after the client's cursor that the ring has evicted.
Prefix(oldest) == IF oldest > since THEN <<GapFrame(since, oldest - 1)>> ELSE <<>>

\* ring.since(since), and the frames the generator sends before the live ones.
Snapshot ==
    LET first == Least(next, Greatest(lo, since))
    IN /\ stage = Order.snapshot[1] /\ stage' = Order.snapshot[2]
       /\ boundary' = next
       /\ backlog' = Prefix(first) \o [i \in 1..(next - first) |-> Frame(first + i - 1)]
       /\ lastSeq' = next - 1
       /\ UNCHANGED <<ringVars, loop, since, q, drop, rec, out, reconnects>>

-----------------------------------------------------------------------------
(* The event loop: _put callbacks, and the generator between its yields. *)

\* Fault: records the backlog has are queued, and counted as lost when they fall out.
Covered_never(s) == FALSE

\* Already in the backlog.
Covered(s) == s < boundary

\* Drop-oldest, counted.
Queued(s) ==
    IF Len(q) = QueueMax
    THEN [q |-> Append(Tail(q), s),
          drop |-> [n |-> drop.n + 1, from |-> IF drop.from = None THEN Head(q) ELSE drop.from, to |-> Head(q)]]
    ELSE [q |-> Append(q, s), drop |-> drop]

Put ==
    /\ loop # <<>> /\ stage # "half"
    /\ loop' = Tail(loop)
    /\ IF Covered(Head(loop))
       THEN UNCHANGED <<q, drop>>
       ELSE q' = Queued(Head(loop)).q /\ drop' = Queued(Head(loop)).drop
    /\ UNCHANGED <<ringVars, stage, since, boundary, backlog, lastSeq, rec, out, reconnects>>

Replay ==
    /\ stage = "replay"
    /\ IF backlog = <<>>
       THEN stage' = "get" /\ UNCHANGED <<backlog, out>>
       ELSE out' = Append(out, Head(backlog)) /\ backlog' = Tail(backlog) /\ UNCHANGED stage
    /\ UNCHANGED <<ringVars, loop, since, boundary, q, drop, lastSeq, rec, reconnects>>

Stale(s) == s <= lastSeq

\* q.get() and what is decided before the next yield: skip, report a gap, or send.
Get ==
    /\ stage = "get" /\ q # <<>>
    /\ q' = Tail(q)
    /\ IF Stale(Head(q))
       THEN UNCHANGED <<stage, rec, drop, out>>
       ELSE /\ rec' = Head(q)
            /\ stage' = "send"
            /\ drop' = NoDrop
            /\ out' = IF drop.n > 0 THEN Append(out, GapFrame(drop.from, drop.to)) ELSE out
    /\ UNCHANGED <<ringVars, loop, since, boundary, backlog, lastSeq, reconnects>>

Send ==
    /\ stage = "send"
    /\ out' = Append(out, Frame(rec))
    /\ lastSeq' = rec
    /\ rec' = None /\ stage' = "get"
    /\ UNCHANGED <<ringVars, loop, since, boundary, backlog, q, drop, reconnects>>

\* The largest id the client has seen: its Last-Event-ID.
LastId == LET ids == {out[i].to : i \in {j \in 1..Len(out) : out[j].kind = "rec"}}
          IN IF ids = {} THEN None ELSE CHOOSE x \in ids : \A y \in ids : y <= x

\* Last-Event-ID is the last record seen; the cursor is the next one.
Resume == LastId + 1

\* The client goes away, between two frames; finally: unsubscribe.  It comes back later.
Disconnect ==
    /\ stage \in {"replay", "get", "send"} /\ reconnects < MaxReconnects
    /\ stage' = "idle" /\ subscribed' = FALSE
    /\ since' = IF LastId = None THEN since ELSE Resume
    /\ boundary' = 0 /\ backlog' = <<>> /\ q' = <<>> /\ drop' = NoDrop
    /\ lastSeq' = None /\ rec' = None
    /\ loop' = <<>> /\ pushing' = [a \in Appenders |-> None]
    /\ reconnects' = reconnects + 1
    /\ UNCHANGED <<next, out>>

-----------------------------------------------------------------------------
Init ==
    /\ next = 0 /\ pushing = [a \in Appenders |-> None] /\ subscribed = FALSE /\ loop = <<>>
    /\ stage = "idle" /\ since = 0 /\ boundary = 0 /\ backlog = <<>>
    /\ q = <<>> /\ drop = NoDrop /\ lastSeq = None /\ rec = None
    /\ out = <<>> /\ reconnects = 0

Reader == Subscribe \/ Snapshot \/ Replay \/ Get \/ Send

Next ==
    \/ \E a \in Appenders : RingAppend(a) \/ Push(a)
    \/ Reader \/ Put \/ Disconnect

Spec == Init /\ [][Next]_vars

\* The appending threads, the event loop and the reader are scheduled.
FairSpec ==
    /\ Spec
    /\ \A a \in Appenders : WF_vars(Push(a))
    /\ WF_vars(Put) /\ WF_vars(Reader)

-----------------------------------------------------------------------------
(* Properties. *)

\* Numbers are given under the lock and pushed outside it: a thread may push its record
\* before one that has an earlier number.
Overtakes(a) == \E b \in Appenders : pushing[b] # None /\ pushing[b] < pushing[a]

\* No push does; one appending thread never can.
InTurn == \A a \in Appenders : Push(a) => ~Overtakes(a)

Numbers(k) == {i \in 1..Len(out) : out[i].kind = k}

\* Type invariant.
TypeOK ==
    /\ next \in 0..MaxSeq /\ Len(q) <= QueueMax /\ Len(backlog) <= Capacity + 1
    /\ lastSeq \in -1..MaxSeq /\ drop.n \in Nat
    /\ \A a \in Appenders : pushing[a] \in -1..(next - 1)

\* "no duplicate across the replay->live boundary", nor across a reconnection: the records
\* a client sees have ever larger numbers.
NoDuplicate == \A i, j \in Numbers("rec") : i < j => out[i].to < out[j].to

\* "no gap": when a record is sent, every earlier one since the client's first connection
\* has been sent or lies in a gap the client was told of.
NoSilentLoss ==
    \A i \in Numbers("rec") : \A s \in 0..out[i].to :
        \E j \in 1..i : out[j].from <= s /\ s <= out[j].to

\* "Skipping them here keeps the gap counters honest": a gap frame of the live stream names
\* no record the client has been sent.
GapsHonest == \A i \in Numbers("gap"), j \in Numbers("rec") : i > j => ~(out[i].from <= out[j].to /\ out[j].to <= out[i].to)

\* A client of the log stream gets every record once, in order, or is told of the gap,
\* across a reconnection and a slow reader, as long as no push overtakes another.
LogIsHonest == NoDuplicate /\ NoSilentLoss /\ GapsHonest

\* A connected reader is told of every record, by a frame or a gap.
AllTold ==
    \A s \in 0..(MaxSeq - 1) :
        (next > s ~> stage = "idle" \/ \E j \in 1..Len(out) : out[j].from <= s /\ s <= out[j].to)
=============================================================================
