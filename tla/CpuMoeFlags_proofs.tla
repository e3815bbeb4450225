-------------------------- MODULE CpuMoeFlags_proofs --------------------------
(***************************************************************************)
(* A stream that goes on with a wrong expert output has been reported, no  *)
(* step enqueued after a report reaches a client, the pool has one caller, *)
(* and a slot is condemned for one doorbell only, though its flags and its  *)
(* count are read at different moments; for any number of                  *)
(* layers, flag slots, steps in flight and watchdog rounds, with a         *)
(* coordinator that may be slow or stop for good.                          *)
(***************************************************************************)
EXTENDS CpuMoeFlags, TLAPS

-----------------------------------------------------------------------------
(* The inductive invariants. *)

Places    == {"d2h", "first", "second", "wait", "submit", "sync", "h2d"}
CoordAt   == {"scan", "run", "done", "count", "dead"}
Bits      == {0, 1}
Tag       == <<gpu.step, gpu.layer>>
Labels    == (Nat \X Nat) \cup {None}
Suspicion == [age : Nat, served : Nat, due : Nat]
Verdicts  == [slot : Slots, same : BOOLEAN, counting : BOOLEAN]
WatchAt   == {"asleep", "flags", "counts", "err", "done"}

Types ==
  /\ gpu \in [step : Nat, layer : Layers, at : Places]
  /\ gpu.at \in {"first", "second", "wait"} => gpu.layer \in Slots
  /\ gpu.at \in {"submit", "sync"} => gpu.layer \notin Slots
  /\ x \in Labels /\ y \in Labels /\ callback \in Labels
  /\ ready \in [Slots -> Bits] /\ done \in [Slots -> Bits] /\ err \in [Slots -> Bits]
  /\ served \in [Slots -> Nat]
  /\ coord \in [at : CoordAt, slot : Slots \cup {0}, tag : Labels]
  /\ coord.at \in {"run", "done", "count"} => coord.slot \in Slots
  /\ watch \in [at : WatchAt, slots : SUBSET Slots, condemned : SUBSET Verdicts]
  /\ suspects \in [Slots -> Suspicion \cup {None}]
  /\ host \in {"loop", "check", "failed"}
  /\ enqueued \in Nat /\ shipped \in Nat /\ errAt \in Nat \cup {Never}

\* The doorbells that are up: only the layer the stream waits for has one.
Quiet == \A s \in Slots : ready[s] = 0
Idle  == coord.at \in {"scan", "count", "dead"}

\* While no error is up: what the buffers hold at every stage of the handshake.
Handshake ==
  /\ gpu.at \in {"d2h", "first", "second", "submit", "sync", "h2d"} => Quiet /\ Idle
  /\ gpu.at \notin {"d2h", "h2d"} => x = Tag
  /\ gpu.at = "second" => done[gpu.layer] = 0
  /\ gpu.at = "wait" =>
       /\ \A s \in Slots \ {gpu.layer} : ready[s] = 0
       /\ ready[gpu.layer] = 1 => done[gpu.layer] = 0 /\ Idle
       /\ coord.at = "run" => coord.slot = gpu.layer /\ coord.tag = Tag /\ done[gpu.layer] = 0
       /\ coord.at = "done" => coord.slot = gpu.layer /\ y = Tag /\ done[gpu.layer] = 0
       /\ done[gpu.layer] = 1 => y = Tag /\ ready[gpu.layer] = 0
  /\ gpu.at = "h2d" => y = Tag
  /\ IF gpu.at = "sync" THEN callback = Tag ELSE callback = None

\* The watchdog raises an error before it releases the stream.
Reports ==
  /\ watch.at \in {"asleep", "flags"} => watch.condemned = {}
  /\ watch.at \in {"err", "done"} => watch.condemned # {}
  /\ watch.at = "done" => Errors
  /\ errAt # Never => Errors

FlagsInv ==
  /\ Types /\ Reports
  /\ Errors \/ (Handshake /\ stale = {})

\* The engine loop stops at the first check after a report.
LoopInv ==
  /\ shipped <= Finished /\ Finished <= enqueued
  /\ errAt # Never => shipped <= errAt /\ (host = "loop" => enqueued = errAt)

\* A slot that was rung has its done down only while the stream stands at its doorbell:
\* so it is of every raised flag, and of those the watchdog has read.
Rung ==
  /\ \A s \in Slots : ready[s] = 1 /\ done[s] = 0 => Unanswered(s)
  /\ \A s \in watch.slots : done[s] = 0 => Unanswered(s)

\* A suspect's next doorbell is the one it was, or a task was answered since.
Suspected ==
  \A s \in Slots : suspects[s] # None =>
    /\ suspects[s].served <= served[s]
    /\ suspects[s].served < served[s] \/ OwesCount(s) \/ suspects[s].due = Due(s)

\* So it is with the doorbells read as pending in this round.
Read ==
  watch.at = "counts" =>
    \A s \in watch.slots : suspects[s] # None =>
      suspects[s].served < served[s] \/ OwesCount(s) \/ done[s] = 0

DoorInv == Rung /\ Suspected /\ Read /\ OneDoorbell

-----------------------------------------------------------------------------
(* Types. *)

LEMMA InitTypes ==
  ASSUME FlagsAssumption, Init
  PROVE  Types
  BY DEF FlagsAssumption, Init, Types, Places, Labels, Bits, CoordAt, WatchAt, Verdicts, None, Never, Layers, Slots

\* The steps of the stream.
LEMMA StreamTypes ==
  ASSUME FlagsAssumption, Types, Stream
  PROVE  Types'
  <1> USE DEF FlagsAssumption, flagVars, watchVars, hostVars
  <1>0. gpu.step \in Nat /\ gpu.layer \in Layers /\ gpu.layer \in Nat /\ gpu.at \in Places
    BY DEF Types, Layers
  <1>1. CASE CopyInputs
    <2>1. x' \in Labels
      BY <1>0, <1>1 DEF CopyInputs, Labels
    <2>2. gpu' \in [step : Nat, layer : Layers, at : Places] /\ (gpu'.at = "first" => gpu'.layer \in Slots)
          /\ (gpu'.at = "submit" => gpu'.layer \notin Slots) /\ gpu'.at \in {"first", "submit"}
      BY <1>1 DEF CopyInputs, Types, Places, ByFlag
    <2> QED BY <1>1, <2>1, <2>2 DEF CopyInputs, Types
  <1>2. CASE MemopWrite
    <2>1. done' \in [Slots -> Bits] /\ ready' \in [Slots -> Bits]
      BY <1>2 DEF MemopWrite, DoneReset, Types, Bits
    <2>2. gpu' \in [step : Nat, layer : Layers, at : Places] /\ gpu'.layer \in Slots
          /\ gpu'.at \in {"second", "wait"}
      BY <1>2 DEF MemopWrite, At, Types, Places
    <2> QED BY <1>2, <2>1, <2>2 DEF MemopWrite, Types
  <1>3. CASE MemopWait \/ SubmitCallback \/ SyncCallback
    <2>1. gpu' \in [step : Nat, layer : Layers, at : Places] /\ gpu'.at \in {"h2d", "sync"}
      BY <1>3 DEF MemopWait, SubmitCallback, SyncCallback, Types, Places
    <2>3. gpu'.at = "sync" => gpu'.layer \notin Slots
      BY <1>0, <1>3 DEF MemopWait, SubmitCallback, SyncCallback, At, Types, Places
    <2>2. y' \in Labels /\ callback' \in Labels
      BY <1>3 DEF MemopWait, SubmitCallback, SyncCallback, Types, Labels
    <2> QED BY <1>3, <2>1, <2>2, <2>3 DEF MemopWait, SubmitCallback, SyncCallback, Types
  <1>4. CASE CopyResult
    <2>1. gpu' \in [step : Nat, layer : Layers, at : Places] /\ gpu'.at = "d2h"
      <3>1. CASE gpu.layer = NumLayers
        BY <1>0, <1>4, <3>1 DEF CopyResult, Places, Layers
      <3>2. CASE gpu.layer # NumLayers
        <4>1. gpu.layer + 1 \in Layers
          BY <1>0, <3>2 DEF Layers
        <4>2. gpu' = [gpu EXCEPT !.layer = gpu.layer + 1, !.at = "d2h"]
          BY <1>4, <3>2 DEF CopyResult
        <4> QED BY <4>1, <4>2 DEF Types, Places
      <3> QED BY <3>1, <3>2
    <2> QED BY <1>4, <2>1 DEF CopyResult, Types
  <1> QED BY <1>1, <1>2, <1>3, <1>4 DEF Stream

\* The steps of the coordinator.
LEMMA CoordTypes ==
  ASSUME FlagsAssumption, Types, Coord \/ Die
  PROVE  Types'
  <1> USE DEF FlagsAssumption, flagVars, watchVars, hostVars, Coordinator, ToLabel
  <1>1. CASE Consume
    <2>1. ready' \in [Slots -> Bits] /\ coord' \in [at : CoordAt, slot : Slots \cup {0}, tag : Labels] /\ coord'.slot \in Slots
      BY <1>1 DEF Consume, Types, Bits, CoordAt
    <2> QED BY <1>1, <2>1 DEF Consume, Types
  <1>2. CASE RunTask
    <2>1. y' \in Labels
      BY <1>2 DEF RunTask, Types, Labels, Torn
    <2>2. coord' \in [at : CoordAt, slot : Slots \cup {0}, tag : Labels] /\ coord'.slot \in Slots
      BY <1>2 DEF RunTask, Types, CoordAt
    <2> QED BY <1>2, <2>1, <2>2 DEF RunTask, Types
  <1>3. CASE SetDone
    <2>1. done' \in [Slots -> Bits]
      BY <1>3 DEF SetDone, Types, Bits
    <2>2. coord' \in [at : CoordAt, slot : Slots \cup {0}, tag : Labels] /\ coord'.slot \in Slots
      BY <1>3 DEF SetDone, Types, CoordAt
    <2> QED BY <1>3, <2>1, <2>2 DEF SetDone, Types
  <1>4. CASE CountServed
    <2>1. served' \in [Slots -> Nat]
      BY <1>4 DEF CountServed, Types
    <2>2. coord' \in [at : CoordAt, slot : Slots \cup {0}, tag : Labels] /\ coord'.at = "scan"
      BY <1>4 DEF CountServed, Types, CoordAt
    <2> QED BY <1>4, <2>1, <2>2 DEF CountServed, Types
  <1>5. CASE Die
    <2>2. coord' \in [at : CoordAt, slot : Slots \cup {0}, tag : Labels] /\ coord'.at = "dead"
      BY <1>5 DEF Die, Types, CoordAt
    <2> QED BY <1>5, <2>2 DEF Die, Types
  <1> QED BY <1>1, <1>2, <1>3, <1>4, <1>5 DEF Coord

\* What the watchdog makes of a pending slot.
LEMMA SeenTypes ==
  ASSUME FlagsAssumption, Types, NEW s \in Slots
  PROVE  /\ Seen(s) \in Suspicion
         /\ Seen(s).served = served[s]
         /\ \/ Seen(s).due = Due(s)
            \/ suspects[s] # None /\ SameServed(s) /\ Seen(s).due = suspects[s].due
         /\ Seen(s).age = TickLimit => suspects[s] # None /\ SameServed(s)
         /\ Verdict(s) \in Verdicts
  <1>1. gpu.step \in Nat /\ served[s] \in Nat /\ suspects[s] \in Suspicion \cup {None}
        /\ TickLimit \in Nat \ {0}
    BY DEF Types, FlagsAssumption
  <1>2. Due(s) \in Nat
    BY <1>1 DEF Due
  <1>3. CASE suspects[s] = None \/ ~SameServed(s)
    BY <1>1, <1>2, <1>3 DEF Seen, Suspicion, Verdict, Verdicts, Unanswered, OwesCount
  <1>4. CASE suspects[s] # None /\ SameServed(s)
    BY <1>1, <1>4 DEF Seen, Suspicion, SameServed, Verdict, Verdicts, Unanswered, OwesCount
  <1> QED BY <1>3, <1>4

\* The reads of a round.
Round == ReadReady \/ ReadDone \/ ReadCount

\* A read of the flags keeps some of the slots.
LEMMA KeepFrame ==
  ASSUME NEW slots, NEW next, Types, Keep(slots, next), next \in {"flags", "counts"}
  PROVE  /\ watch' = [at |-> IF slots = {} THEN "asleep" ELSE next, slots |-> slots,
                      condemned |-> watch.condemned]
         /\ suspects' = [s \in Slots |-> IF s \in slots THEN suspects[s] ELSE None]
  BY DEF Keep, Types

\* The slots in the verdicts, and the steps of the watchdog.
LEMMA WatchTypes ==
  ASSUME FlagsAssumption, Types, Watchdog
  PROVE  Types'
  <1> USE DEF FlagsAssumption, flagVars, hostVars
  <1>1. CASE Round
    <2>1. UNCHANGED <<gpu, x, y, flagVars, coord, callback, hostVars, stale, errAt>>
      BY <1>1 DEF Round, ReadReady, ReadDone, ReadCount, Keep
    <2>2. suspects' \in [Slots -> Suspicion \cup {None}]
          /\ watch' \in [at : WatchAt, slots : SUBSET Slots, condemned : SUBSET Verdicts]
      <3>1. ASSUME NEW slots \in SUBSET Slots, NEW next \in {"flags", "counts"}, Keep(slots, next)
            PROVE  suspects' \in [Slots -> Suspicion \cup {None}]
                   /\ watch' \in [at : WatchAt, slots : SUBSET Slots, condemned : SUBSET Verdicts]
        BY <3>1, KeepFrame DEF Types, WatchAt
      <3>2. CASE ReadReady
        BY <3>1, <3>2 DEF ReadReady
      <3>3. CASE ReadDone
        <4>1. {s \in watch.slots : done[s] = 0} \in SUBSET Slots
          BY DEF Types
        <4> QED BY <3>1, <3>3, <4>1 DEF ReadDone
      <3>4. CASE ReadCount
        <4>1. PICK s \in watch.slots : \E dead \in {watch.condemned, watch.condemned \cup {Verdict(s)}} :
                /\ suspects' = [suspects EXCEPT ![s] = Seen(s)]
                /\ watch' = [at |-> IF watch.slots \ {s} # {} THEN "counts"
                                    ELSE IF dead = {} THEN "asleep" ELSE "err",
                             slots |-> watch.slots \ {s}, condemned |-> dead]
          <5>1. PICK s \in watch.slots : LET left == watch.slots \ {s}
                    dead == watch.condemned \cup (IF Seen(s).age = TickLimit THEN {Verdict(s)} ELSE {})
                IN  /\ suspects' = [suspects EXCEPT ![s] = Seen(s)]
                    /\ watch' = [at |-> IF left # {} THEN "counts"
                                        ELSE IF dead = {} THEN "asleep" ELSE "err",
                                 slots |-> left, condemned |-> dead]
            BY <3>4 DEF ReadCount
          <5>2. watch.condemned \cup (IF Seen(s).age = TickLimit THEN {Verdict(s)} ELSE {})
                  \in {watch.condemned, watch.condemned \cup {Verdict(s)}}
            OBVIOUS
          <5> QED BY <5>1, <5>2
        <4>2. s \in Slots /\ watch.condemned \subseteq Verdicts
          BY <4>1 DEF Types
        <4>3. Seen(s) \in Suspicion /\ Verdict(s) \in Verdicts
          BY <4>2, SeenTypes
        <4> QED BY <4>1, <4>2, <4>3 DEF Types, WatchAt
      <3> QED BY <1>1, <3>2, <3>3, <3>4 DEF Round
    <2> QED BY <2>1, <2>2 DEF Types
  <1>2. CASE Poison
    <2>1. err' \in [Slots -> Bits] /\ done' \in [Slots -> Bits]
      BY <1>2 DEF Poison, Types, Bits
    <2>2. errAt' \in Nat \cup {Never}
      BY <1>2 DEF Poison, Types
    <2>3. watch' \in [at : WatchAt, slots : SUBSET Slots, condemned : SUBSET Verdicts]
      BY <1>2 DEF Poison, Types, WatchAt
    <2>4. suspects' \in [Slots -> Suspicion \cup {None}]
      BY <1>2 DEF Poison, Types
    <2> QED BY <1>2, <2>1, <2>2, <2>3, <2>4 DEF Poison, Types
  <1> QED BY <1>1, <1>2 DEF Watchdog, Round

\* The steps of the engine loop.
LEMMA EngineTypes ==
  ASSUME Types, Engine
  PROVE  Types'
  BY DEF Types, Engine, Forward, CheckHealth, Process, flagVars, watchVars

LEMMA StepTypes ==
  ASSUME FlagsAssumption, Types, [Next]_vars
  PROVE  Types'
  <1>1. CASE UNCHANGED vars
    BY <1>1 DEF vars, flagVars, hostVars, watchVars, Types
  <1> QED BY <1>1, StreamTypes, CoordTypes, WatchTypes, EngineTypes DEF Next

-----------------------------------------------------------------------------
(* The handshake, while no error is up. *)

\* No step takes an error back.
LEMMA ErrorsStay ==
  ASSUME Types, [Next]_vars, Errors
  PROVE  Errors'
  <1>1. PICK s \in Slots : err[s] # 0
    BY DEF Errors
  <1>2. CASE Poison
    <2>1. err[s] = 1
      BY <1>1 DEF Types, Bits
    <2>2. err'[s] = 1
      BY <1>2, <2>1 DEF Poison, Types
    <2> QED BY <2>2 DEF Errors
  <1>3. CASE ~Poison
    <2>1. err' = err
      BY <1>3 DEF Next, vars, Stream, Coord, Watchdog, Engine, flagVars, CopyInputs, MemopWrite, MemopWait,
         SubmitCallback, SyncCallback, CopyResult, Consume, RunTask, SetDone, CountServed, Die,
         ReadReady, ReadDone, ReadCount, Keep, Forward, CheckHealth, Process
    <2> QED BY <1>1, <2>1 DEF Errors
  <1> QED BY <1>2, <1>3

\* The first store of a condemnation is err.
LEMMA ReportsStay ==
  ASSUME Types, Types', Reports, [Next]_vars
  PROVE  Reports'
  <1>1. CASE Round
    <2>1. errAt' = errAt /\ (Errors' <=> Errors)
      BY <1>1 DEF Round, ReadReady, ReadDone, ReadCount, Keep, flagVars, Errors
    <2>2. ASSUME NEW slots, NEW next \in {"flags", "counts"}, Keep(slots, next), watch.condemned = {}
          PROVE  watch'.condemned = {} /\ watch'.at \in {"asleep", "flags", "counts"}
      BY <2>2, KeepFrame
    <2>3. CASE ReadReady \/ ReadDone
      <3>1. watch.condemned = {}
        BY <2>3 DEF ReadReady, ReadDone, Reports
      <3> QED BY <2>1, <2>2, <2>3, <3>1 DEF ReadReady, ReadDone, Reports
    <2>4. CASE ReadCount
      BY <2>1, <2>4 DEF ReadCount, Reports
    <2> QED BY <1>1, <2>3, <2>4 DEF Round
  <1>2. CASE Poison
    <2>1. watch.condemned # {} /\ Condemned \subseteq Slots
      BY <1>2 DEF Poison, Reports, Types, Condemned, Verdicts
    <2>2. PICK s \in Slots : s \in Condemned
      BY <2>1 DEF Condemned
    <2>3. CASE watch.at = "err"
      <3>1. err' = [t \in Slots |-> IF t \in Condemned THEN 1 ELSE err[t]]
        BY <1>2, <2>3 DEF Poison, FirstStore
      <3>2. Errors'
        BY <2>2, <3>1 DEF Errors
      <3>3. watch'.at = "done" /\ watch'.condemned = watch.condemned
        BY <1>2, <2>3 DEF Poison, Types
      <3> QED BY <2>1, <3>2, <3>3 DEF Reports
    <2>4. CASE watch.at = "done"
      <3>1. Errors'
        BY <2>4, ErrorsStay DEF Reports
      <3>2. watch'.at = "asleep" /\ watch'.condemned = {}
        BY <1>2, <2>4 DEF Poison, Types
      <3> QED BY <3>1, <3>2 DEF Reports
    <2> QED BY <1>2, <2>3, <2>4 DEF Poison
  <1>3. CASE ~Round /\ ~Poison
    <2>1. UNCHANGED <<err, watch, errAt>>
      BY <1>3 DEF Next, vars, Stream, Coord, Watchdog, Engine, flagVars, watchVars, CopyInputs, MemopWrite,
         MemopWait, SubmitCallback, SyncCallback, CopyResult, Consume, RunTask, SetDone, CountServed, Die,
         Forward, CheckHealth, Process, Round
    <2> QED BY <2>1 DEF Reports, Errors
  <1> QED BY <1>1, <1>2, <1>3

\* The stream: inputs, doorbell, wait, result.
LEMMA StreamShakes ==
  ASSUME FlagsAssumption, Types, Types', Handshake, stale = {}, Stream
  PROVE  Handshake' /\ stale' = {}
  <1> USE DEF flagVars, watchVars, hostVars, At
  <1>0. gpu \in [step : Nat, layer : Layers, at : Places] /\ done \in [Slots -> Bits] /\ ready \in [Slots -> Bits]
    BY DEF Types
  <1>1. CASE CopyInputs
    <2>1. /\ gpu.at = "d2h" /\ x' = Tag /\ gpu'.step = gpu.step /\ gpu'.layer = gpu.layer
          /\ gpu'.at \in {"first", "submit"}
          /\ UNCHANGED <<y, ready, done, coord, callback, stale>>
      BY <1>0, <1>1 DEF CopyInputs, Tag
    <2> QED BY <2>1 DEF Handshake, Quiet, Idle, Tag
  <1>2. CASE MemopWrite /\ gpu.at = "first"
    <2>1. /\ done' = [done EXCEPT ![gpu.layer] = 0] /\ gpu.layer \in Slots
          /\ gpu'.step = gpu.step /\ gpu'.layer = gpu.layer /\ gpu'.at = "second"
          /\ UNCHANGED <<x, y, ready, coord, callback, stale>>
      BY <1>0, <1>2 DEF MemopWrite, FirstWrite, DoneReset, Types
    <2>2. done'[gpu.layer] = 0
      BY <1>0, <2>1
    <2> QED BY <1>2, <2>1, <2>2 DEF Handshake, Quiet, Idle, Tag
  <1>3. CASE MemopWrite /\ gpu.at = "second"
    <2>1. /\ ready' = [ready EXCEPT ![gpu.layer] = 1] /\ gpu.layer \in Slots
          /\ gpu'.step = gpu.step /\ gpu'.layer = gpu.layer /\ gpu'.at = "wait"
          /\ UNCHANGED <<x, y, done, coord, callback, stale>>
      BY <1>0, <1>3 DEF MemopWrite, FirstWrite, Types
    <2>2. ready'[gpu.layer] = 1 /\ \A s \in Slots \ {gpu.layer} : ready'[s] = ready[s]
      BY <1>0, <2>1
    <2>3. done[gpu.layer] = 0 /\ Quiet /\ Idle /\ x = Tag /\ callback = None
      BY <1>3 DEF Handshake
    <2> QED BY <2>1, <2>2, <2>3 DEF Handshake, Quiet, Idle, Tag
  <1>4. CASE MemopWait
    <2>1. /\ gpu.at = "wait" /\ done[gpu.layer] = 1 /\ gpu.layer \in Slots
          /\ gpu'.step = gpu.step /\ gpu'.layer = gpu.layer /\ gpu'.at = "h2d"
          /\ UNCHANGED <<x, y, ready, done, coord, callback, stale>>
      <3>1. gpu.at = "wait" /\ gpu.layer \in Slots /\ done[gpu.layer] >= 1
        BY <1>4 DEF MemopWait, Types
      <3>2. done[gpu.layer] = 1
        BY <1>0, <3>1 DEF Bits
      <3> QED BY <1>0, <1>4, <3>1, <3>2 DEF MemopWait
    <2>2. /\ y = Tag /\ ready[gpu.layer] = 0 /\ coord.at \notin {"run", "done"}
          /\ \A s \in Slots \ {gpu.layer} : ready[s] = 0
      BY <2>1 DEF Handshake
    <2>3. Quiet /\ Idle
      BY <2>2 DEF Quiet, Idle, Types, CoordAt
    <2> QED BY <2>1, <2>2, <2>3 DEF Handshake, Quiet, Idle, Tag
  <1>5. CASE SubmitCallback
    <2>1. /\ gpu.at = "submit" /\ callback' = x
          /\ gpu'.step = gpu.step /\ gpu'.layer = gpu.layer /\ gpu'.at = "sync"
          /\ UNCHANGED <<x, y, ready, done, coord, stale>>
      BY <1>0, <1>5 DEF SubmitCallback
    <2> QED BY <2>1 DEF Handshake, Quiet, Idle, Tag
  <1>6. CASE SyncCallback
    <2>1. /\ gpu.at = "sync" /\ y' = callback /\ callback' = None
          /\ gpu'.step = gpu.step /\ gpu'.layer = gpu.layer /\ gpu'.at = "h2d"
          /\ UNCHANGED <<x, ready, done, coord, stale>>
      BY <1>0, <1>6 DEF SyncCallback
    <2> QED BY <2>1 DEF Handshake, Quiet, Idle, Tag
  <1>7. CASE CopyResult
    <2>1. /\ gpu.at = "h2d" /\ gpu'.at = "d2h"
          /\ UNCHANGED <<x, y, ready, done, coord, callback>>
      BY <1>0, <1>7 DEF CopyResult
    <2>2. stale' = stale
      BY <1>7, <2>1 DEF CopyResult, Handshake, Tag
    <2> QED BY <2>1, <2>2 DEF Handshake, Quiet, Idle
  <1> QED BY <1>1, <1>2, <1>3, <1>4, <1>5, <1>6, <1>7 DEF Stream, MemopWrite

\* The coordinator answers the doorbell the stream waits at.
LEMMA CoordShakes ==
  ASSUME Types, Types', Handshake, Coord \/ Die
  PROVE  Handshake'
  <1> USE DEF flagVars, watchVars, hostVars, Coordinator, ToLabel
  <1>0. /\ done \in [Slots -> Bits] /\ ready \in [Slots -> Bits] /\ gpu.at \in Places
        /\ coord \in [at : CoordAt, slot : Slots \cup {0}, tag : Labels]
    BY DEF Types
  <1>1. CASE Consume
    <2>1. PICK s \in Slots : ready[s] # 0 /\ ready' = [ready EXCEPT ![s] = 0]
                             /\ coord' = [at |-> "run", slot |-> s, tag |-> x]
      BY <1>1 DEF Consume
    <2>2. UNCHANGED <<gpu, x, y, done, callback>> /\ coord.at = "scan"
      BY <1>1 DEF Consume
    <2>3. ~Quiet
      BY <2>1 DEF Quiet
    <2>4. gpu.at = "wait"
      BY <1>0, <2>3 DEF Handshake, Places
    <2>5. s = gpu.layer /\ ready[s] = 1 /\ done[s] = 0 /\ x = Tag /\ callback = None
          /\ \A t \in Slots \ {gpu.layer} : ready[t] = 0
      BY <1>0, <2>1, <2>4 DEF Handshake, Bits
    <2>6. ready'[s] = 0 /\ \A t \in Slots \ {s} : ready'[t] = ready[t]
      BY <1>0, <2>1
    <2> QED BY <2>1, <2>2, <2>4, <2>5, <2>6 DEF Handshake, Tag
  <1>2. CASE RunTask
    <2>1. /\ coord.at = "run" /\ coord'.at = "done" /\ coord'.slot = coord.slot /\ coord'.tag = coord.tag
          /\ UNCHANGED <<gpu, x, ready, done, callback>>
          /\ y' = IF x = coord.tag THEN coord.tag ELSE Torn
      BY <1>0, <1>2 DEF RunTask
    <2>2. gpu.at = "wait"
      BY <1>0, <2>1 DEF Handshake, Idle, Places
    <2>3. x = Tag /\ coord.tag = Tag /\ coord.slot = gpu.layer /\ done[gpu.layer] = 0 /\ ready[gpu.layer] # 1
          /\ callback = None /\ \A t \in Slots \ {gpu.layer} : ready[t] = 0
      BY <2>1, <2>2 DEF Handshake, Idle
    <2> QED BY <2>1, <2>2, <2>3 DEF Handshake, Tag
  <1>3. CASE SetDone
    <2>1. /\ coord.at = "done" /\ coord'.at = "count" /\ done' = [done EXCEPT ![coord.slot] = 1]
          /\ UNCHANGED <<gpu, x, y, ready, callback>>
      BY <1>0, <1>3 DEF SetDone
    <2>2. gpu.at = "wait"
      BY <1>0, <2>1 DEF Handshake, Idle, Places
    <2>3. x = Tag /\ y = Tag /\ coord.slot = gpu.layer /\ gpu.layer \in Slots /\ ready[gpu.layer] # 1
          /\ callback = None /\ \A t \in Slots \ {gpu.layer} : ready[t] = 0
      BY <2>1, <2>2 DEF Handshake, Idle, Types
    <2>4. ready[gpu.layer] = 0 /\ done'[gpu.layer] = 1
      BY <1>0, <2>1, <2>3 DEF Bits
    <2> QED BY <2>1, <2>2, <2>3, <2>4 DEF Handshake, Tag, Idle
  <1>4. CASE CountServed
    <2>1. /\ coord.at = "count" /\ coord'.at = "scan"
          /\ UNCHANGED <<gpu, x, y, ready, done, callback>>
      BY <1>0, <1>4 DEF CountServed
    <2> QED BY <2>1 DEF Handshake, Tag, Idle, Quiet
  <1>5. CASE Die
    <2>1. /\ coord'.at = "dead"
          /\ UNCHANGED <<gpu, x, y, ready, done, callback>>
      BY <1>0, <1>5 DEF Die
    <2> QED BY <2>1 DEF Handshake, Tag, Idle, Quiet
  <1> QED BY <1>1, <1>2, <1>3, <1>4, <1>5 DEF Coord

\* The watchdog sets done only under an error; the engine loop touches neither.
LEMMA OthersShake ==
  ASSUME Types, Reports, Handshake, stale = {}, ~Errors, ~Errors', Watchdog \/ Engine
  PROVE  Handshake' /\ stale' = {}
  <1>1. CASE Poison
    <2>1. CASE watch.at = "err"
      <3>1. watch.condemned # {} /\ Condemned \subseteq Slots
        BY <2>1 DEF Reports, Types, Condemned, Verdicts
      <3>2. PICK s \in Slots : s \in Condemned
        BY <3>1 DEF Condemned
      <3>3. err'[s] = 1
        BY <1>1, <2>1, <3>2 DEF Poison, FirstStore
      <3> QED BY <3>3 DEF Errors
    <2>2. CASE watch.at = "done"
      BY <2>2 DEF Reports
    <2> QED BY <1>1, <2>1, <2>2 DEF Poison
  <1>2. CASE Round \/ Engine
    <2>1. UNCHANGED <<gpu, x, y, ready, done, coord, callback, stale>>
      BY <1>2 DEF Round, ReadReady, ReadDone, ReadCount, Keep, Engine, Forward, CheckHealth, Process,
         flagVars, hostVars
    <2> QED BY <2>1 DEF Handshake, Tag, Idle, Quiet
  <1> QED BY <1>1, <1>2 DEF Watchdog, Round

LEMMA InitFlags ==
  ASSUME FlagsAssumption, Init
  PROVE  FlagsInv
  <1>1. Types
    BY InitTypes
  <1>2. Reports
    BY DEF Init, Reports
  <1>3. Handshake /\ stale = {}
    BY DEF Init, Handshake, Quiet, Idle
  <1> QED BY <1>1, <1>2, <1>3 DEF FlagsInv

LEMMA StepFlags ==
  ASSUME FlagsAssumption, FlagsInv, [Next]_vars
  PROVE  FlagsInv'
  <1>1. Types /\ Types' /\ Reports /\ Reports'
    BY StepTypes, ReportsStay DEF FlagsInv
  <1>2. CASE Errors
    BY <1>1, <1>2, ErrorsStay DEF FlagsInv
  <1>3. CASE ~Errors /\ ~Errors'
    <2>1. Handshake /\ stale = {}
      BY <1>3 DEF FlagsInv
    <2>2. CASE Stream
      BY <1>1, <2>1, <2>2, StreamShakes DEF FlagsInv
    <2>3. CASE Coord \/ Die
      <3>1. stale' = stale
        BY <2>3 DEF Coord, Die, Consume, RunTask, SetDone, CountServed
      <3> QED BY <1>1, <2>1, <2>3, <3>1, CoordShakes DEF FlagsInv
    <2>4. CASE Watchdog \/ Engine
      BY <1>1, <1>3, <2>1, <2>4, OthersShake DEF FlagsInv
    <2>5. CASE UNCHANGED vars
      BY <1>1, <2>1, <2>5 DEF vars, flagVars, hostVars, watchVars, FlagsInv, Handshake, Quiet, Idle, Tag
    <2> QED BY <2>2, <2>3, <2>4, <2>5 DEF Next
  <1> QED BY <1>1, <1>2, <1>3 DEF FlagsInv

LEMMA FlagsAlways == FlagsAssumption => (Spec => []FlagsInv)
  <1> SUFFICES ASSUME FlagsAssumption PROVE Spec => []FlagsInv
    OBVIOUS
  <1>1. Init => FlagsInv
    BY InitFlags
  <1>2. FlagsInv /\ [Next]_vars => FlagsInv'
    BY StepFlags
  <1> QED BY <1>1, <1>2, PTL DEF Spec

-----------------------------------------------------------------------------
(* The engine loop. *)

LEMMA InitLoop ==
  ASSUME Init
  PROVE  LoopInv
  BY DEF Init, LoopInv, Finished

\* A step the stream works on was enqueued; after a report the loop gets no further
\* than its next check.
LEMMA StepLoop ==
  ASSUME FlagsAssumption, FlagsInv, FlagsInv', LoopInv, [Next]_vars
  PROVE  LoopInv'
  <1> USE DEF flagVars, watchVars, hostVars
  <1>0. /\ Types /\ Reports /\ gpu.step \in Nat /\ enqueued \in Nat /\ shipped \in Nat /\ errAt \in Nat \cup {Never}
        /\ gpu \in [step : Nat, layer : Layers, at : Places]
    BY DEF FlagsInv, Types
  <1>1. CASE Stream
    <2>1. UNCHANGED <<host, enqueued, shipped, errAt>> /\ gpu.step <= enqueued
      BY <1>1 DEF Stream, CopyInputs, MemopWrite, MemopWait, SubmitCallback, SyncCallback, CopyResult, At
    <2>2. gpu'.step = gpu.step \/ gpu'.step = gpu.step + 1
      <3>1. CASE CopyResult
        <4>1. CASE gpu.layer = NumLayers
          BY <3>1, <4>1 DEF CopyResult
        <4>2. CASE gpu.layer # NumLayers
          BY <1>0, <3>1, <4>2 DEF CopyResult
        <4> QED BY <4>1, <4>2
      <3>2. CASE ~CopyResult
        BY <1>0, <1>1, <3>2 DEF Stream, CopyInputs, MemopWrite, MemopWait, SubmitCallback, SyncCallback
      <3> QED BY <3>1, <3>2
    <2> QED BY <1>0, <2>1, <2>2 DEF LoopInv, Finished
  <1>2. CASE Coord \/ Die \/ Round
    BY <1>2 DEF Coord, Die, Consume, RunTask, SetDone, CountServed, Round, ReadReady, ReadDone, ReadCount,
       Keep, LoopInv, Finished
  <1>3. CASE Poison
    <2>1. UNCHANGED <<host, enqueued, shipped, gpu>> /\ (errAt' = errAt \/ (errAt = Never /\ errAt' = enqueued))
      BY <1>3 DEF Poison
    <2> QED BY <1>0, <2>1 DEF LoopInv, Finished
  <1>4. CASE Forward
    <2>1. host = "loop" /\ host' = "check" /\ enqueued' = enqueued + 1 /\ UNCHANGED <<shipped, errAt, gpu>>
      BY <1>4 DEF Forward
    <2> QED BY <1>0, <2>1 DEF LoopInv, Finished
  <1>5. CASE CheckHealth
    <2>1. /\ host' = IF Errors THEN "failed" ELSE "loop"
          /\ UNCHANGED <<enqueued, shipped, errAt, gpu>>
      BY <1>5 DEF CheckHealth, Unhealthy
    <2>2. errAt # Never => Errors
      BY <1>0 DEF Reports
    <2> QED BY <2>1, <2>2 DEF LoopInv, Finished
  <1>6. CASE Process
    <2>1. host = "loop" /\ shipped < Finished /\ shipped' = shipped + 1 /\ UNCHANGED <<host, enqueued, errAt, gpu>>
      BY <1>6 DEF Process
    <2> QED BY <1>0, <2>1 DEF LoopInv, Finished
  <1>7. CASE UNCHANGED vars
    BY <1>7 DEF vars, LoopInv, Finished
  <1> QED BY <1>1, <1>2, <1>3, <1>4, <1>5, <1>6, <1>7 DEF Next, Watchdog, Round, Engine

-----------------------------------------------------------------------------
(* One doorbell. *)

LEMMA InitDoors ==
  ASSUME FlagsAssumption, Init
  PROVE  DoorInv
  BY DEF Init, DoorInv, Rung, Suspected, Read, OneDoorbell

\* The stream goes past a doorbell only when it was answered: the next one due is the same.
LEMMA StreamRings ==
  ASSUME FlagsAssumption, Types, DoorInv, Stream
  PROVE  DoorInv'
  <1> USE DEF flagVars, watchVars, hostVars, At
  <1>0. gpu \in [step : Nat, layer : Layers, at : Places] /\ done \in [Slots -> Bits] /\ ready \in [Slots -> Bits]
        /\ watch.slots \subseteq Slots
    BY DEF Types
  <1>1. OneDoorbell' /\ UNCHANGED <<suspects, served, coord, watch>>
    BY DEF Stream, CopyInputs, MemopWrite, MemopWait, SubmitCallback, SyncCallback, CopyResult, DoorInv, OneDoorbell
  <1>2. ASSUME NEW s \in Slots
        PROVE  Due(s)' = Due(s) /\ (done[s] = 0 => done'[s] = 0) /\ (Unanswered(s) => Unanswered(s)' \/ done'[s] # 0)
               /\ (ready'[s] = 1 /\ done'[s] = 0 => ready[s] = 1 \/ Unanswered(s)')
               /\ (done'[s] = 0 => done[s] = 0 \/ Unanswered(s)')
    <2>0. done[s] \in Bits /\ s \in Nat /\ NumLayers \in Nat /\ s <= NumLayers /\ gpu.layer \in Nat
          /\ gpu.layer <= NumLayers /\ s >= 1
      BY <1>0 DEF Slots, FlagsAssumption, Layers
    <2>1. CASE CopyInputs
      <3>1. gpu.at = "d2h" /\ gpu'.step = gpu.step /\ gpu'.layer = gpu.layer /\ gpu'.at \in {"first", "submit"}
            /\ UNCHANGED <<ready, done>>
        BY <1>0, <2>1 DEF CopyInputs
      <3> QED BY <3>1 DEF Due, Unanswered
    <2>2. CASE MemopWrite /\ gpu.at = "first"
      <3>1. /\ done' = [done EXCEPT ![gpu.layer] = 0] /\ gpu.layer \in Slots /\ ready' = ready
            /\ gpu'.step = gpu.step /\ gpu'.layer = gpu.layer /\ gpu'.at = "second"
        BY <1>0, <2>2 DEF MemopWrite, FirstWrite, DoneReset, Types
      <3>2. IF s = gpu.layer THEN done'[s] = 0 ELSE done'[s] = done[s]
        BY <1>0, <3>1
      <3> QED BY <2>0, <2>2, <3>1, <3>2 DEF Due, Unanswered
    <2>3. CASE MemopWrite /\ gpu.at = "second"
      <3>1. /\ ready' = [ready EXCEPT ![gpu.layer] = 1] /\ gpu.layer \in Slots /\ done' = done
            /\ gpu'.step = gpu.step /\ gpu'.layer = gpu.layer /\ gpu'.at = "wait"
        BY <1>0, <2>3 DEF MemopWrite, FirstWrite, Types
      <3>2. s # gpu.layer => ready'[s] = ready[s]
        BY <1>0, <3>1
      <3>3. s = gpu.layer => done[s] = 0 \/ done[s] = 1
        BY <2>0 DEF Bits
      <3>4. Due(s)' = Due(s)
        BY <2>0, <2>3, <3>1, <3>3 DEF Due
      <3> QED BY <2>0, <2>3, <3>1, <3>2, <3>4 DEF Unanswered
    <2>4. CASE MemopWait
      <3>1. /\ gpu.at = "wait" /\ done[gpu.layer] >= 1 /\ gpu.layer \in Slots /\ gpu'.at = "h2d"
            /\ gpu'.step = gpu.step /\ gpu'.layer = gpu.layer /\ UNCHANGED <<ready, done>>
        BY <1>0, <2>4 DEF MemopWait, Types
      <3>2. done[gpu.layer] = 1
        BY <1>0, <3>1 DEF Bits
      <3> QED BY <2>0, <3>1, <3>2 DEF Due, Unanswered
    <2>5. CASE SubmitCallback \/ SyncCallback
      <3>1. /\ gpu.at \in {"submit", "sync"} /\ gpu'.at \in {"sync", "h2d"}
            /\ gpu'.step = gpu.step /\ gpu'.layer = gpu.layer /\ UNCHANGED <<ready, done>>
        BY <1>0, <2>5 DEF SubmitCallback, SyncCallback
      <3>2. s # gpu.layer
        BY <3>1 DEF Types
      <3> QED BY <2>0, <3>1, <3>2 DEF Due, Unanswered
    <2>6. CASE CopyResult
      <3>1. gpu.at = "h2d" /\ gpu'.at = "d2h" /\ UNCHANGED <<ready, done>>
        BY <1>0, <2>6 DEF CopyResult
      <3>2. CASE gpu.layer = NumLayers
        <4>1. gpu'.step = gpu.step + 1 /\ gpu'.layer = 1
          BY <2>6, <3>2 DEF CopyResult
        <4> QED BY <2>0, <3>1, <3>2, <4>1 DEF Due, Unanswered
      <3>3. CASE gpu.layer # NumLayers
        <4>1. gpu'.step = gpu.step /\ gpu'.layer = gpu.layer + 1
          BY <1>0, <2>6, <3>3 DEF CopyResult
        <4> QED BY <2>0, <3>1, <3>3, <4>1 DEF Due, Unanswered
      <3> QED BY <3>2, <3>3
    <2> QED BY <2>1, <2>2, <2>3, <2>4, <2>5, <2>6 DEF Stream, MemopWrite
  <1>3. ASSUME NEW s \in Slots
        PROVE  OwesCount(s)' <=> OwesCount(s)
    BY <1>1 DEF OwesCount
  <1>4. Rung'
    <2>1. ASSUME NEW s \in Slots, ready'[s] = 1, done'[s] = 0
          PROVE  Unanswered(s)'
      BY <1>2, <2>1 DEF DoorInv, Rung
    <2>2. ASSUME NEW s \in watch.slots, done'[s] = 0
          PROVE  Unanswered(s)'
      BY <1>0, <1>2, <2>2 DEF DoorInv, Rung
    <2> QED BY <1>1, <2>1, <2>2 DEF Rung
  <1>5. Suspected'
    BY <1>1, <1>2, <1>3 DEF DoorInv, Suspected
  <1>6. Read'
    BY <1>0, <1>1, <1>2, <1>3 DEF DoorInv, Read
  <1> QED BY <1>1, <1>4, <1>5, <1>6 DEF DoorInv

\* An answer is counted before the coordinator takes another doorbell.
LEMMA CoordRings ==
  ASSUME FlagsAssumption, Types, DoorInv, Coord \/ Die
  PROVE  DoorInv'
  <1> USE DEF flagVars, watchVars, hostVars, Coordinator, ToLabel
  <1>0. /\ done \in [Slots -> Bits] /\ ready \in [Slots -> Bits] /\ served \in [Slots -> Nat]
        /\ coord \in [at : CoordAt, slot : Slots \cup {0}, tag : Labels]
        /\ suspects \in [Slots -> Suspicion \cup {None}] /\ watch.slots \subseteq Slots
    BY DEF Types
  <1>1. OneDoorbell' /\ UNCHANGED <<suspects, gpu, watch>>
    BY DEF Coord, Die, Consume, RunTask, SetDone, CountServed, DoorInv, OneDoorbell
  <1>2. CASE Consume \/ RunTask \/ Die
    <2>1. UNCHANGED <<done, served>> /\ coord.at # "count" /\ \A s \in Slots : ready'[s] = 1 => ready[s] = 1
      BY <1>0, <1>2 DEF Consume, RunTask, Die, FlagsAssumption
    <2>2. ASSUME NEW s \in Slots
          PROVE  (Due(s)' = Due(s)) /\ (Unanswered(s)' <=> Unanswered(s)) /\ ~OwesCount(s)
      BY <1>1, <2>1 DEF Due, Unanswered, OwesCount
    <2>3. Rung'
      BY <1>0, <1>1, <2>1, <2>2 DEF DoorInv, Rung
    <2>4. Suspected'
      BY <1>1, <2>1, <2>2 DEF DoorInv, Suspected
    <2>5. Read'
      BY <1>0, <1>1, <2>1, <2>2 DEF DoorInv, Read
    <2> QED BY <1>1, <2>3, <2>4, <2>5 DEF DoorInv
  <1>3. CASE SetDone
    <2>1. /\ coord.at = "done" /\ coord'.at = "count" /\ coord'.slot = coord.slot /\ coord.slot \in Slots
          /\ done' = [done EXCEPT ![coord.slot] = 1] /\ UNCHANGED <<ready, served>>
      BY <1>0, <1>3 DEF SetDone, Types
    <2>2. ASSUME NEW s \in Slots
          PROVE  IF s = coord.slot THEN done'[s] = 1 /\ OwesCount(s)'
                 ELSE /\ Due(s)' = Due(s) /\ done'[s] = done[s] /\ (Unanswered(s)' <=> Unanswered(s))
                      /\ ~OwesCount(s)
      BY <1>0, <1>1, <2>1 DEF Due, Unanswered, OwesCount
    <2>3. Rung'
      BY <1>0, <1>1, <2>1, <2>2 DEF DoorInv, Rung
    <2>4. Suspected'
      BY <1>1, <2>1, <2>2 DEF DoorInv, Suspected
    <2>5. Read'
      BY <1>0, <1>1, <2>1, <2>2 DEF DoorInv, Read
    <2> QED BY <1>1, <2>3, <2>4, <2>5 DEF DoorInv
  <1>4. CASE CountServed
    <2>1. /\ coord.at = "count" /\ coord.slot \in Slots
          /\ served' = [served EXCEPT ![coord.slot] = served[coord.slot] + 1] /\ UNCHANGED <<ready, done>>
      BY <1>0, <1>4 DEF CountServed, Types
    <2>2. ASSUME NEW s \in Slots
          PROVE  /\ served'[s] = IF s = coord.slot THEN served[s] + 1 ELSE served[s]
                 /\ Due(s)' = Due(s) /\ (Unanswered(s)' <=> Unanswered(s)) /\ (OwesCount(s) <=> s = coord.slot)
      BY <1>0, <1>1, <2>1 DEF Due, Unanswered, OwesCount
    <2>3. ASSUME NEW s \in Slots, suspects[s] # None
          PROVE  /\ suspects[s].served <= served'[s]
                 /\ s = coord.slot => suspects[s].served < served'[s]
                 /\ s # coord.slot => served'[s] = served[s]
      <3>1. suspects[s].served \in Nat /\ served[s] \in Nat
        BY <1>0, <2>3 DEF Suspicion
      <3>2. suspects[s].served <= served[s]
        BY <2>3 DEF DoorInv, Suspected
      <3> QED BY <2>2, <3>1, <3>2
    <2>4. Rung'
      BY <1>0, <1>1, <2>1, <2>2 DEF DoorInv, Rung
    <2>5. Suspected'
      BY <1>1, <2>2, <2>3 DEF DoorInv, Suspected
    <2>6. Read'
      BY <1>0, <1>1, <2>1, <2>2, <2>3 DEF DoorInv, Read
    <2> QED BY <1>1, <2>4, <2>5, <2>6 DEF DoorInv
  <1> QED BY <1>2, <1>3, <1>4 DEF Coord

\* A read of the flags: what is read as raised and, later, as not done stands unanswered.
LEMMA ReadRings ==
  ASSUME FlagsAssumption, Types, DoorInv, ReadReady \/ ReadDone
  PROVE  DoorInv'
  <1>0. UNCHANGED <<gpu, ready, done, served, coord>>
    BY DEF ReadReady, ReadDone, Keep, flagVars
  <1>1. PICK slots \in SUBSET Slots, next \in {"flags", "counts"} :
          /\ Keep(slots, next)
          /\ \A s \in slots : done[s] = 0 => Unanswered(s)
          /\ next = "counts" => \A s \in slots : done[s] = 0
    <2>1. CASE ReadReady
      <3> DEFINE raised == {s \in Slots : ready[s] = 1}
      <3>1. raised \in SUBSET Slots /\ \A s \in raised : done[s] = 0 => Unanswered(s)
        BY DEF DoorInv, Rung
      <3> QED BY <2>1, <3>1 DEF ReadReady
    <2>2. CASE ReadDone
      <3> DEFINE pending == {s \in watch.slots : done[s] = 0}
      <3>1. pending \in SUBSET Slots /\ \A s \in pending : done[s] = 0 /\ Unanswered(s)
        BY DEF DoorInv, Rung, Types
      <3> QED BY <2>2, <3>1 DEF ReadDone
    <2> QED BY <2>1, <2>2
  <1>2. /\ watch' = [at |-> IF slots = {} THEN "asleep" ELSE next, slots |-> slots,
                     condemned |-> watch.condemned]
        /\ suspects' = [s \in Slots |-> IF s \in slots THEN suspects[s] ELSE None]
    BY <1>1, KeepFrame
  <1>3. ASSUME NEW s \in Slots
        PROVE  /\ Due(s)' = Due(s) /\ (Unanswered(s)' <=> Unanswered(s)) /\ (OwesCount(s)' <=> OwesCount(s))
               /\ suspects'[s] # None => suspects'[s] = suspects[s]
    BY <1>0, <1>2 DEF Due, Unanswered, OwesCount
  <1>4. Rung'
    BY <1>0, <1>1, <1>2, <1>3 DEF DoorInv, Rung
  <1>5. Suspected'
    BY <1>0, <1>3 DEF DoorInv, Suspected
  <1>6. Read'
    <2>1. watch'.at = "counts" => \A s \in watch'.slots : done'[s] = 0
      BY <1>0, <1>1, <1>2
    <2> QED BY <2>1 DEF Read
  <1>7. OneDoorbell'
    BY <1>2 DEF DoorInv, OneDoorbell
  <1> QED BY <1>4, <1>5, <1>6, <1>7 DEF DoorInv

\* A count that has not moved: the suspect's doorbell is still the stream's.
LEMMA CountRings ==
  ASSUME FlagsAssumption, Types, DoorInv, ReadCount
  PROVE  DoorInv'
  <1>0. UNCHANGED <<gpu, ready, done, served, coord>> /\ watch.at = "counts"
    BY DEF ReadCount, flagVars
  <1>1. PICK s \in watch.slots : LET left == watch.slots \ {s}
             dead == watch.condemned \cup (IF Seen(s).age = TickLimit THEN {Verdict(s)} ELSE {})
         IN  /\ suspects' = [suspects EXCEPT ![s] = Seen(s)]
             /\ watch' = [at |-> IF left # {} THEN "counts"
                                 ELSE IF dead = {} THEN "asleep" ELSE "err",
                          slots |-> left, condemned |-> dead]
    BY DEF ReadCount
  <1>2. s \in Slots /\ served[s] \in Nat /\ suspects \in [Slots -> Suspicion \cup {None}]
        /\ watch.slots \subseteq Slots
    BY <1>1 DEF Types
  <1>3. /\ watch'.slots = watch.slots \ {s} /\ suspects'[s] = Seen(s)
        /\ \A t \in Slots \ {s} : suspects'[t] = suspects[t]
        /\ watch'.condemned = watch.condemned \cup (IF Seen(s).age = TickLimit THEN {Verdict(s)} ELSE {})
    BY <1>1, <1>2
  <1>4. ASSUME NEW t \in Slots
        PROVE  Due(t)' = Due(t) /\ (Unanswered(t)' <=> Unanswered(t)) /\ (OwesCount(t)' <=> OwesCount(t))
    BY <1>0 DEF Due, Unanswered, OwesCount
  <1>5. suspects[s] # None /\ SameServed(s) => ~(suspects[s].served < served[s])
    BY <1>2 DEF SameServed
  <1>6. Seen(s).served = served[s] /\ (Seen(s).due = Due(s) \/ OwesCount(s))
    BY <1>2, <1>5, SeenTypes DEF DoorInv, Suspected
  <1>7. Rung'
    BY <1>0, <1>2, <1>3, <1>4 DEF DoorInv, Rung
  <1>8. Suspected'
    <2>1. Seen(s).served <= served[s]
      BY <1>2, <1>6
    <2>2. ASSUME NEW t \in Slots, suspects'[t] # None
          PROVE  /\ suspects'[t].served <= served'[t]
                 /\ suspects'[t].served < served'[t] \/ OwesCount(t)' \/ suspects'[t].due = Due(t)'
      <3>1. CASE t = s
        BY <1>0, <1>2, <1>3, <1>4, <1>6, <2>1, <3>1
      <3>2. CASE t # s
        BY <1>0, <1>3, <1>4, <2>2, <3>2 DEF DoorInv, Suspected
      <3> QED BY <3>1, <3>2
    <2> QED BY <2>2 DEF Suspected
  <1>9. Read'
    <2>1. ASSUME NEW t \in watch.slots \ {s}, suspects[t] # None
          PROVE  suspects[t].served < served[t] \/ OwesCount(t) \/ done[t] = 0
      BY <1>0, <2>1 DEF DoorInv, Read
    <2> QED BY <1>0, <1>2, <1>3, <1>4, <2>1 DEF Read
  <1>10. OneDoorbell'
    <2>1. ASSUME Seen(s).age = TickLimit
          PROVE  Verdict(s).same \/ Verdict(s).counting
      <3>1. suspects[s] # None /\ SameServed(s)
        BY <1>2, <2>1, SeenTypes
      <3>2. OwesCount(s) \/ (Seen(s).due = Due(s) /\ done[s] = 0)
        BY <1>0, <1>1, <1>5, <1>6, <3>1 DEF DoorInv, Read
      <3>3. done[s] = 0 => Unanswered(s)
        BY <1>1 DEF DoorInv, Rung
      <3> QED BY <3>2, <3>3 DEF Verdict
    <2> QED BY <1>3, <2>1 DEF DoorInv, OneDoorbell
  <1> QED BY <1>7, <1>8, <1>9, <1>10 DEF DoorInv

\* A condemned slot is a suspect no more once it is released.
LEMMA PoisonRings ==
  ASSUME Types, Reports, DoorInv, Poison
  PROVE  DoorInv'
  <1> USE DEF flagVars, watchVars, hostVars
  <1>0. done \in [Slots -> Bits] /\ suspects \in [Slots -> Suspicion \cup {None}]
        /\ watch \in [at : WatchAt, slots : SUBSET Slots, condemned : SUBSET Verdicts]
    BY DEF Types
  <1>1. UNCHANGED <<gpu, ready, served, coord>> /\ watch.at \in {"err", "done"}
    BY DEF Poison
  <1>2. CASE watch.at = "err"
    <2>1. UNCHANGED <<done, suspects>> /\ watch' = [watch EXCEPT !.at = "done"]
      BY <1>2 DEF Poison, FirstStore
    <2>2. watch'.condemned = watch.condemned /\ watch'.slots = watch.slots /\ watch'.at = "done"
      BY <1>0, <2>1
    <2>3. ASSUME NEW s \in Slots
          PROVE  Due(s)' = Due(s) /\ (Unanswered(s)' <=> Unanswered(s)) /\ (OwesCount(s)' <=> OwesCount(s))
      BY <1>1, <2>1 DEF Due, Unanswered, OwesCount
    <2>4. Rung'
      BY <1>0, <1>1, <2>1, <2>2, <2>3 DEF DoorInv, Rung
    <2>5. Suspected'
      BY <1>1, <2>1, <2>3 DEF DoorInv, Suspected
    <2> QED BY <2>2, <2>4, <2>5 DEF DoorInv, Read, OneDoorbell
  <1>3. CASE watch.at = "done"
    <2>1. /\ done' = [s \in Slots |-> IF s \in Condemned THEN 1 ELSE done[s]]
          /\ suspects' = [s \in Slots |-> IF s \in Condemned THEN None ELSE suspects[s]]
          /\ watch'.condemned = {} /\ watch'.slots = watch.slots /\ watch'.at = "asleep"
      BY <1>0, <1>3 DEF Poison, FirstStore
    <2>2. ASSUME NEW s \in Slots
          PROVE  IF s \in Condemned THEN suspects'[s] = None /\ done'[s] = 1
                 ELSE /\ Due(s)' = Due(s) /\ (Unanswered(s)' <=> Unanswered(s)) /\ (OwesCount(s)' <=> OwesCount(s))
                      /\ done'[s] = done[s] /\ suspects'[s] = suspects[s]
      BY <1>1, <2>1 DEF Due, Unanswered, OwesCount
    <2>3. Rung'
      BY <1>0, <1>1, <2>1, <2>2 DEF DoorInv, Rung
    <2>4. Suspected'
      BY <1>1, <2>1, <2>2 DEF DoorInv, Suspected
    <2> QED BY <2>1, <2>3, <2>4 DEF DoorInv, Read, OneDoorbell
  <1> QED BY <1>1, <1>2, <1>3

LEMMA StepDoors ==
  ASSUME FlagsAssumption, Types, Reports, DoorInv, [Next]_vars
  PROVE  DoorInv'
  <1>1. CASE Engine \/ UNCHANGED vars
    BY <1>1 DEF Engine, Forward, CheckHealth, Process, vars, flagVars, watchVars, hostVars,
       DoorInv, Rung, Suspected, Read, OneDoorbell, Due, Unanswered, OwesCount
  <1> QED BY <1>1, StreamRings, CoordRings, ReadRings, CountRings, PoisonRings DEF Next, Watchdog

-----------------------------------------------------------------------------
(* The results. *)

\* A stream that goes on with a result that is not its own layer's does so under a raised
\* err (_watchdog_tick stores err before done), however slow the coordinator is, wherever
\* it dies, and though a poisoned flag may be answered in a later step.
THEOREM StaleAlwaysFlagged == FlagsAssumption => (Spec => []StaleIsFlagged)
  <1> SUFFICES ASSUME FlagsAssumption PROVE Spec => []StaleIsFlagged
    OBVIOUS
  <1>1. FlagsInv => StaleIsFlagged
    BY DEF FlagsInv, StaleIsFlagged
  <1> QED BY <1>1, FlagsAlways, PTL

\* While err is down the counters of the worker pool have one caller: a host callback and
\* the coordinator are never both in it, and the inputs of a task stay while it runs.
THEOREM OneCallerAlways == FlagsAssumption => (Spec => []PoolHasOneCaller)
  <1> SUFFICES ASSUME FlagsAssumption PROVE Spec => []PoolHasOneCaller
    OBVIOUS
  <1>1. FlagsInv => PoolHasOneCaller
    <2> SUFFICES ASSUME FlagsInv, ~Errors
                 PROVE  /\ callback # None => coord.at # "run"
                        /\ coord.at = "run" => x = coord.tag
      BY DEF PoolHasOneCaller
    <2>1. Handshake /\ gpu.at \in Places
      BY DEF FlagsInv, Types
    <2>2. coord.at = "run" => gpu.at = "wait"
      BY <2>1 DEF Handshake, Idle, Places
    <2> QED BY <2>1, <2>2 DEF Handshake
  <1> QED BY <1>1, FlagsAlways, PTL

\* raise_if_unhealthy runs after a step was enqueued and before the next: what is enqueued
\* after err was raised is never processed.
THEOREM NothingShipsAfterError == FlagsAssumption => (Spec => []NothingAfterError)
  <1> SUFFICES ASSUME FlagsAssumption PROVE Spec => []NothingAfterError
    OBVIOUS
  <1>1. Init => FlagsInv /\ LoopInv
    BY InitFlags, InitLoop
  <1>2. FlagsInv /\ LoopInv /\ [Next]_vars => FlagsInv' /\ LoopInv'
    BY StepFlags, StepLoop
  <1>3. LoopInv => NothingAfterError
    BY DEF LoopInv, NothingAfterError
  <1> QED BY <1>1, <1>2, <1>3, PTL DEF Spec

\* _watchdog_tick reads the flags and then, apart from them, the served counts; a step may
\* be answered between.  Still, when a slot is condemned the stream stands unanswered at the
\* very doorbell that was due when the count was first read, except between the
\* coordinator's done store and its count.
THEOREM CondemnedForOneDoorbell == FlagsAssumption => (Spec => []OneDoorbell)
  <1> SUFFICES ASSUME FlagsAssumption PROVE Spec => []OneDoorbell
    OBVIOUS
  <1>1. Init => FlagsInv /\ DoorInv
    BY InitFlags, InitDoors
  <1>2. FlagsInv /\ DoorInv /\ [Next]_vars => FlagsInv' /\ DoorInv'
    BY StepFlags, StepDoors DEF FlagsInv
  <1>3. DoorInv => OneDoorbell
    BY DEF DoorInv
  <1> QED BY <1>1, <1>2, <1>3, PTL DEF Spec

\* The handshake, the watchdog and raise_if_unhealthy together: a wrong output is never
\* processed unnoticed.
THEOREM StaleAlwaysSeen == FlagsAssumption => (Spec => []StaleIsSeen)
  <1>1. StaleIsFlagged /\ PoolHasOneCaller /\ NothingAfterError /\ OneDoorbell => StaleIsSeen
    BY DEF StaleIsSeen
  <1> QED BY <1>1, StaleAlwaysFlagged, OneCallerAlways, NothingShipsAfterError, CondemnedForOneDoorbell, PTL
=============================================================================
