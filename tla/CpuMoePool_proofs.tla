------------------------- MODULE CpuMoePool_proofs -------------------------
(***************************************************************************)
(* The worker pool runs every item of every phase of a task exactly once,  *)
(* in order of the phases, for every number of workers and items: what     *)
(* submit, the barrier and sync of cpu_moe_ext.cpp promise each other.     *)
(***************************************************************************)
EXTENDS CpuMoePool, TLAPS, FiniteSetTheorems

-----------------------------------------------------------------------------
(* The inductive invariant. *)

Outside == {"check", "falling", "asleep", "lock", "notify"}
Body    == {"draw", "work", "arrive", "open", "open2", "spin", "finish"}
Meeting == {"open", "open2", "spin"}
Opening == {"open", "open2"}

Waiting    == caller \in {"notify", "sync", "falling", "asleep"}
Started(w) == my_gen[w] = cur_gen
Arrived(K) == {w \in Workers : Started(w) /\ phase[w] = K /\ pc[w] \in Meeting}
Done       == {w \in Workers : Started(w) /\ pc[w] \notin Body}

Types ==
  /\ cur_gen \in Nat /\ completed \in Nat /\ done_count \in Nat /\ bar_count \in Nat
  /\ nextItem \in [Phases -> Nat]
  /\ pc \in [Workers -> Labels] /\ my_gen \in [Workers -> Nat]
  /\ local_sense \in [Workers -> {0, 1}] /\ phase \in [Workers -> Phases]
  /\ item \in [Workers -> Nat]
  /\ DOMAIN ran = Phases /\ \A p \in Phases : ran[p] \in [0 .. Items[p] - 1 -> Nat]

\* Phase K is the last one a barrier has let anyone into.  Whoever is behind is
\* still to notice that its barrier has opened; whoever has not started holds
\* everyone in the first phase.
Placed(K) ==
  \A w \in Workers :
    /\ ~Started(w) => pc[w] \in Outside /\ K = 1
    /\ Started(w) =>
         /\ phase[w] = K \/ (phase[w] + 1 = K /\ pc[w] = "spin")
         /\ pc[w] \in Meeting \cup {"arrive"} => phase[w] < LastPhase
         /\ pc[w] \notin Body \ {"finish"} => phase[w] = LastPhase
         /\ local_sense[w] = (IF pc[w] \in Meeting THEN phase[w] ELSE phase[w] + 1) % 2

\* The sense counts the barriers that have opened, the count the arrivals at the
\* next one; the last arrival opens it alone, after everyone has arrived.
Barrier(K) ==
  /\ bar_sense = (K + 1) % 2
  /\ \A w \in Workers : pc[w] \in Opening => Arrived(K) = Workers
  /\ \A w, v \in Workers : pc[w] \in Opening /\ pc[v] \in Opening => w = v
  /\ (\A w \in Workers : pc[w] \notin Opening) => Arrived(K) # Workers
  /\ (\E w \in Workers : pc[w] = "open2") => bar_count = 0
  /\ (\A w \in Workers : pc[w] # "open2") => bar_count = Cardinality(Arrived(K))

\* The items of a phase that were drawn have run, but for those being worked on;
\* the earlier phases are complete and the later ones untouched.
Counted(K) ==
  /\ \A p \in Phases : p < K =>
       nextItem[p] >= Items[p] /\ \A i \in 0 .. Items[p] - 1 : ran[p][i] = 1
  /\ \A p \in Phases : p > K =>
       nextItem[p] = 0 /\ \A i \in 0 .. Items[p] - 1 : ran[p][i] = 0
  /\ \A i \in 0 .. Items[K] - 1 :
       ran[K][i] = IF i < nextItem[K] /\ (\A w \in Workers : pc[w] = "work" => item[w] # i)
                   THEN 1 ELSE 0
  /\ \A w \in Workers : pc[w] = "work" => item[w] < nextItem[K] /\ item[w] < Items[K]
  /\ \A w, v \in Workers : pc[w] = "work" /\ pc[v] = "work" /\ item[w] = item[v] => w = v
  /\ \A w \in Workers : Started(w) /\ pc[w] \notin {"draw", "work"} =>
       nextItem[phase[w]] >= Items[phase[w]]

\* The last worker to finish, and no other, reports the generation.
Reported ==
  /\ done_count = Cardinality(Done)
  /\ \A w \in Workers : pc[w] = "store" => Done = Workers
  /\ \A w, v \in Workers : pc[w] = "store" /\ pc[v] = "store" => w = v
  /\ completed <= cur_gen
  /\ completed = cur_gen => Done = Workers /\ \A w \in Workers : pc[w] # "store"

Round(K) == Placed(K) /\ Barrier(K) /\ Counted(K) /\ Reported

\* Between two tasks everyone is out of the last one.
Quiet ==
  /\ completed = cur_gen
  /\ \A w \in Workers : Started(w) /\ pc[w] \in Outside \cup {"exited"}

AllRan == \A p \in Phases : \A i \in 0 .. Items[p] - 1 : ran[p][i] = 1

TasksInv ==
  /\ Types
  /\ submitted = cur_gen
  /\ stop => caller \in {"stopping", "joining"}
  /\ (\E w \in Workers : pc[w] = "exited") => stop
  /\ ~Waiting => Quiet
  /\ caller = "idle" /\ cur_gen > 0 => AllRan
  /\ caller = "publish" =>
       /\ nextItem = Zeros /\ done_count = 0 /\ bar_count = 0 /\ bar_sense = 0 /\ ran = NoRuns
  /\ Waiting => \E K \in Phases : Round(K)

-----------------------------------------------------------------------------
(* The phases, and the parts of Round a step may leave alone. *)

\* A task has two or three phases, numbered from 1, and there is a worker.
LEMMA PoolShape ==
  ASSUME PoolAssumption
  PROVE  /\ LastPhase \in {2, 3} /\ Phases = 1 .. LastPhase
         /\ \A p \in Phases : Items[p] \in Nat
         /\ IsFiniteSet(Workers) /\ Workers # {}
         /\ NumThreads \in Nat /\ NumThreads # 0
<1>1. Items \in [1 .. 2 -> Nat] \/ Items \in [1 .. 3 -> Nat]
  BY DEF PoolAssumption
<1>2. Cardinality(1 .. 2) = 2 /\ Cardinality(1 .. 3) = 3
  <2>1. 1 \in Int /\ 2 \in Int /\ 3 \in Int
    OBVIOUS
  <2>2. Cardinality(1 .. 2) = IF 1 > 2 THEN 0 ELSE 2 - 1 + 1
    BY <2>1, FS_Interval
  <2>3. Cardinality(1 .. 3) = IF 1 > 3 THEN 0 ELSE 3 - 1 + 1
    BY <2>1, FS_Interval
  <2> QED BY <2>2, <2>3
<1>3. IsFiniteSet(Workers) /\ Workers # {}
  BY DEF PoolAssumption
<1>4. NumThreads \in Nat /\ NumThreads # 0
  BY <1>3, FS_CardinalityType, FS_EmptySet DEF NumThreads
<1>5. CASE Items \in [1 .. 2 -> Nat]
  <2>1. Phases = 1 .. 2 /\ LastPhase = 2
    BY <1>2, <1>5 DEF Phases, LastPhase
  <2> QED BY <1>3, <1>4, <1>5, <2>1
<1>6. CASE Items \in [1 .. 3 -> Nat]
  <2>1. Phases = 1 .. 3 /\ LastPhase = 3
    BY <1>2, <1>6 DEF Phases, LastPhase
  <2> QED BY <1>3, <1>4, <1>6, <2>1
<1> QED BY <1>1, <1>5, <1>6

\* A step that draws no item and finishes none leaves the items as counted.
LEMMA CountedStays ==
  ASSUME NEW K, Counted(K), nextItem' = nextItem, ran' = ran, item' = item,
         \A v \in Workers : pc'[v] = "work" <=> pc[v] = "work",
         \A v \in Workers : Started(v)' /\ pc'[v] \notin {"draw", "work"} =>
           nextItem[phase'[v]] >= Items[phase'[v]]
  PROVE  Counted(K)'
  BY DEF Counted

\* A step in which nobody meets at the barrier leaves it as it is.
LEMMA BarrierStays ==
  ASSUME NEW K, Barrier(K), bar_count' = bar_count, bar_sense' = bar_sense,
         Arrived(K)' = Arrived(K),
         \A v \in Workers : pc'[v] \in Opening <=> pc[v] \in Opening,
         \A v \in Workers : pc'[v] = "open2" <=> pc[v] = "open2"
  PROVE  Barrier(K)'
  BY DEF Barrier

\* A step in which nobody finishes leaves the reports as they are.
LEMMA ReportedStays ==
  ASSUME Reported, done_count' = done_count, completed' = completed, cur_gen' = cur_gen,
         Done' = Done,
         \A v \in Workers : pc'[v] = "store" <=> pc[v] = "store"
  PROVE  Reported'
  BY DEF Reported

\* Going to sleep, waking up and notifying are no part of a task.
LEMMA OutsideMoves ==
  ASSUME NEW K, Round(K),
         UNCHANGED <<cur_gen, completed, nextItem, done_count, bar_count, bar_sense,
                     my_gen, local_sense, phase, item, ran>>,
         \A v \in Workers : pc'[v] = pc[v] \/ (pc[v] \in Outside /\ pc'[v] \in Outside)
  PROVE  Round(K)'
<1>1. \A v \in Workers : Started(v)' = Started(v)
  BY DEF Started
<1>2. Arrived(K)' = Arrived(K) /\ Done' = Done
  BY <1>1 DEF Arrived, Done, Outside, Body, Meeting
<1>3. Placed(K)'
  BY <1>1 DEF Round, Placed, Outside, Body, Meeting
<1>4. Barrier(K)'
  BY <1>2, BarrierStays DEF Round, Outside, Opening
<1>5. Counted(K)'
  <2>1. \A v \in Workers : Started(v)' /\ pc'[v] \notin {"draw", "work"} =>
          nextItem[phase'[v]] >= Items[phase'[v]]
    BY <1>1 DEF Round, Counted, Outside
  <2> QED BY <2>1, CountedStays DEF Round, Outside
<1>6. Reported'
  BY <1>2, ReportedStays DEF Round, Outside
<1> QED BY <1>3, <1>4, <1>5, <1>6 DEF Round

-----------------------------------------------------------------------------
(* The steps of a worker inside a task. *)

\* What a worker that starts, draws, works, waits or finishes does to its place.
LEMMA StartsRound ==
  ASSUME PoolAssumption, Types, NEW K \in Phases, Round(K), NEW w \in Workers,
         ~Started(w), pc[w] = "check",
         my_gen' = [my_gen EXCEPT ![w] = cur_gen],
         local_sense' = [local_sense EXCEPT ![w] = 0],
         phase' = [phase EXCEPT ![w] = 1],
         pc' = [pc EXCEPT ![w] = "draw"],
         UNCHANGED <<cur_gen, completed, nextItem, done_count, bar_count, bar_sense, item, ran>>
  PROVE  Round(K)'
<1>1. Started(w)' /\ \A v \in Workers \ {w} : Started(v)' = Started(v)
  BY DEF Started, Types
<1>2. K = 1 /\ 1 \in Phases
  BY DEF Round, Placed
<1>3. \A v \in Workers \ {w} : pc'[v] = pc[v] /\ phase'[v] = phase[v]
                               /\ local_sense'[v] = local_sense[v]
  BY DEF Types
<1>4. pc'[w] = "draw" /\ phase'[w] = 1 /\ local_sense'[w] = 0
  BY DEF Types
<1>5. Arrived(K)' = Arrived(K) /\ Done' = Done
  BY <1>1, <1>3, <1>4 DEF Arrived, Done, Meeting, Body
<1>6. Placed(K)'
  BY <1>1, <1>2, <1>3, <1>4 DEF Round, Placed, Body, Meeting
<1>7. Barrier(K)'
  BY <1>3, <1>4, <1>5, BarrierStays DEF Round, Opening
<1>8. Counted(K)'
  <2>1. \A v \in Workers : Started(v)' /\ pc'[v] \notin {"draw", "work"} =>
          nextItem[phase'[v]] >= Items[phase'[v]]
    BY <1>1, <1>3, <1>4 DEF Round, Counted
  <2> QED BY <1>3, <1>4, <2>1, CountedStays DEF Round
<1>9. Reported'
  BY <1>3, <1>4, <1>5, ReportedStays DEF Round
<1> QED BY <1>6, <1>7, <1>8, <1>9 DEF Round

\* A worker in the body of a task has started it, and but for those who are still
\* to leave a barrier it is in the current phase.
LEMMA InRound ==
  ASSUME Types, NEW K \in Phases, Round(K), NEW w \in Workers, pc[w] \in Body \cup {"store"}
  PROVE  /\ Started(w)
         /\ pc[w] # "spin" => phase[w] = K
  BY DEF Round, Placed, Body, Outside

\* A fetch_add hands out each item once, or the end of the phase.
LEMMA DrawRound ==
  ASSUME PoolAssumption, Types, NEW K \in Phases, Round(K), NEW w \in Workers, Draw(w)
  PROVE  Round(K)'
<1>1. /\ pc[w] = "draw" /\ Started(w) /\ phase[w] = K
  BY InRound DEF Draw, Body
<1>2. /\ UNCHANGED <<cur_gen, completed, done_count, bar_count, bar_sense, my_gen,
                     local_sense, phase, ran>>
      /\ nextItem' = [nextItem EXCEPT ![K] = nextItem[K] + 1]
      /\ item' = [item EXCEPT ![w] = nextItem[K]]
      /\ pc'[w] \in {"work", "arrive", "finish"}
      /\ pc'[w] = "work" <=> nextItem[K] < Items[K]
      /\ pc'[w] = "arrive" => K < LastPhase
      /\ pc'[w] = "finish" => K >= LastPhase
      /\ \A v \in Workers \ {w} : pc'[v] = pc[v]
  <2>1. /\ nextItem' = [nextItem EXCEPT ![K] = nextItem[K] + 1]
        /\ item' = [item EXCEPT ![w] = nextItem[K]]
        /\ pc' = [pc EXCEPT ![w] = CASE nextItem[K] < Items[K] -> "work"
                                     [] nextItem[K] >= Items[K] /\ K < LastPhase -> "arrive"
                                     [] OTHER -> "finish"]
    BY <1>1 DEF Draw, Drawn, Goto, Types
  <2>2. nextItem[K] \in Nat /\ Items[K] \in Nat /\ K \in Nat /\ LastPhase \in Nat
    BY PoolShape DEF Types
  <2>3. pc'[w] = CASE nextItem[K] < Items[K] -> "work"
                   [] nextItem[K] >= Items[K] /\ K < LastPhase -> "arrive"
                   [] OTHER -> "finish"
    BY <2>1 DEF Types
  <2>4. \A v \in Workers \ {w} : pc'[v] = pc[v]
    BY <2>1 DEF Types
  <2>5. /\ pc'[w] \in {"work", "arrive", "finish"}
        /\ pc'[w] = "work" <=> nextItem[K] < Items[K]
        /\ pc'[w] = "arrive" => K < LastPhase
        /\ pc'[w] = "finish" => K >= LastPhase
    BY <2>2, <2>3
  <2> QED BY <2>1, <2>4, <2>5 DEF Draw
<1>3. \A v \in Workers : Started(v)' = Started(v)
  BY <1>2 DEF Started
<1>4. Arrived(K)' = Arrived(K) /\ Done' = Done
  BY <1>1, <1>2, <1>3 DEF Arrived, Done, Meeting, Body
<1>5. Placed(K)'
  BY <1>1, <1>2, <1>3, PoolShape DEF Round, Placed, Body, Meeting
<1>6. Barrier(K)'
  BY <1>1, <1>2, <1>4, BarrierStays DEF Round, Opening
<1>7. Reported'
  BY <1>1, <1>2, <1>4, ReportedStays DEF Round
<1>8. Counted(K)'
  <2>1. /\ nextItem[K] \in Nat /\ nextItem'[K] = nextItem[K] + 1
        /\ \A p \in Phases \ {K} : nextItem'[p] = nextItem[p]
        /\ item'[w] = nextItem[K] /\ \A v \in Workers \ {w} : item'[v] = item[v]
    BY <1>2 DEF Types
  <2>2. \A v \in Workers : pc[v] = "work" => item[v] # nextItem[K]
    BY DEF Round, Counted, Types
  <2>3. \A i \in 0 .. Items[K] - 1 :
          ran'[K][i] = IF i < nextItem'[K] /\ (\A v \in Workers : pc'[v] = "work" => item'[v] # i)
                       THEN 1 ELSE 0
    <3> SUFFICES ASSUME NEW i \in 0 .. Items[K] - 1
                 PROVE  (i < nextItem'[K] /\ \A v \in Workers : pc'[v] = "work" => item'[v] # i)
                        <=> (i < nextItem[K] /\ \A v \in Workers : pc[v] = "work" => item[v] # i)
      BY <1>2 DEF Round, Counted
    <3>1. CASE i = nextItem[K]
      <4>1. i < Items[K]
        BY PoolShape
      <4> QED BY <1>2, <2>1, <3>1, <4>1
    <3>2. CASE i # nextItem[K]
      <4>1. i < nextItem'[K] <=> i < nextItem[K]
        BY <2>1, <3>2, PoolShape
      <4> QED BY <1>1, <1>2, <2>1, <3>2, <4>1
    <3> QED BY <3>1, <3>2
  <2>4. \A v \in Workers : Started(v)' /\ pc'[v] \notin {"draw", "work"} =>
          nextItem'[phase'[v]] >= Items[phase'[v]]
    <3> SUFFICES ASSUME NEW v \in Workers, Started(v), pc'[v] \notin {"draw", "work"}
                 PROVE  nextItem'[phase[v]] >= Items[phase[v]]
      BY <1>2, <1>3
    <3>1. phase[v] \in Phases /\ nextItem[phase[v]] \in Nat /\ Items[phase[v]] \in Nat
      BY PoolShape DEF Types
    <3>2. nextItem[phase[v]] >= Items[phase[v]]
      BY <1>1, <1>2, <2>1, <3>1 DEF Round, Counted
    <3> QED BY <2>1, <3>1, <3>2
  <2>5. \A p \in Phases : nextItem[p] \in Nat /\ Items[p] \in Nat
    BY PoolShape DEF Types
  <2>6. \A p \in Phases : p < K =>
          nextItem'[p] >= Items[p] /\ \A i \in 0 .. Items[p] - 1 : ran'[p][i] = 1
    BY <1>2, <2>1, PoolShape DEF Round, Counted
  <2>7. \A p \in Phases : p > K =>
          nextItem'[p] = 0 /\ \A i \in 0 .. Items[p] - 1 : ran'[p][i] = 0
    BY <1>2, <2>1, PoolShape DEF Round, Counted
  <2>8. \A v \in Workers : pc'[v] = "work" => item'[v] < nextItem'[K] /\ item'[v] < Items[K]
    <3>1. \A v \in Workers : item[v] \in Nat
      BY DEF Types
    <3> QED BY <1>2, <2>1, <2>5, <3>1 DEF Round, Counted
  <2>9. \A v, u \in Workers : pc'[v] = "work" /\ pc'[u] = "work" /\ item'[v] = item'[u] => v = u
    BY <1>2, <2>1, <2>2 DEF Round, Counted
  <2> QED BY <2>3, <2>4, <2>6, <2>7, <2>8, <2>9 DEF Counted
<1> QED BY <1>5, <1>6, <1>7, <1>8 DEF Round

\* The item a worker drew has not run and nobody else works on it: now it has run.
LEMMA WorkRound ==
  ASSUME PoolAssumption, Types, NEW K \in Phases, Round(K), NEW w \in Workers, Work(w)
  PROVE  Round(K)'
<1>1. /\ pc[w] = "work" /\ Started(w) /\ phase[w] = K
  BY InRound DEF Work, Body
<1>2. /\ UNCHANGED <<cur_gen, completed, nextItem, done_count, bar_count, bar_sense, my_gen,
                     local_sense, phase, item>>
      /\ ran' = [ran EXCEPT ![K][item[w]] = @ + 1]
      /\ pc'[w] = "draw"
      /\ \A v \in Workers \ {w} : pc'[v] = pc[v]
  BY <1>1 DEF Work, Goto, Types
<1>3. \A v \in Workers : Started(v)' = Started(v)
  BY <1>2 DEF Started
<1>4. Arrived(K)' = Arrived(K) /\ Done' = Done
  BY <1>1, <1>2, <1>3 DEF Arrived, Done, Meeting, Body
<1>5. Placed(K)'
  BY <1>1, <1>2, <1>3 DEF Round, Placed, Body, Meeting
<1>6. Barrier(K)'
  BY <1>1, <1>2, <1>4, BarrierStays DEF Round, Opening
<1>7. Reported'
  BY <1>1, <1>2, <1>4, ReportedStays DEF Round
<1>8. Counted(K)'
  <2>1. item[w] \in 0 .. Items[K] - 1 /\ item[w] < nextItem[K] /\ ran[K][item[w]] = 0
    <3>1. item[w] \in Nat /\ Items[K] \in Nat /\ item[w] < Items[K] /\ item[w] < nextItem[K]
      BY <1>1, PoolShape DEF Round, Counted, Types
    <3> QED BY <1>1, <3>1 DEF Round, Counted
  <2>2. /\ ran'[K][item[w]] = 1
        /\ \A i \in (0 .. Items[K] - 1) \ {item[w]} : ran'[K][i] = ran[K][i]
        /\ \A p \in Phases \ {K} : ran'[p] = ran[p]
    <3>1. ran[K] \in [0 .. Items[K] - 1 -> Nat]
      BY DEF Types
    <3>2. ran'[K] = [ran[K] EXCEPT ![item[w]] = @ + 1]
      BY <1>2 DEF Types
    <3>3. \A p \in Phases \ {K} : ran'[p] = ran[p]
      BY <1>2 DEF Types
    <3>4. ran'[K][item[w]] = ran[K][item[w]] + 1
      BY <2>1, <3>1, <3>2
    <3>5. ASSUME NEW i \in (0 .. Items[K] - 1) \ {item[w]} PROVE ran'[K][i] = ran[K][i]
      BY <3>1, <3>2
    <3> QED BY <2>1, <3>3, <3>4, <3>5
  <2>3. \A v \in Workers \ {w} : pc[v] = "work" => item[v] # item[w]
    BY <1>1 DEF Round, Counted
  <2>4. \A i \in 0 .. Items[K] - 1 :
          ran'[K][i] = IF i < nextItem'[K] /\ (\A v \in Workers : pc'[v] = "work" => item'[v] # i)
                       THEN 1 ELSE 0
    <3> SUFFICES ASSUME NEW i \in 0 .. Items[K] - 1
                 PROVE  ran'[K][i] =
                          IF i < nextItem[K] /\ (\A v \in Workers : pc'[v] = "work" => item[v] # i)
                          THEN 1 ELSE 0
      BY <1>2
    <3>1. CASE i = item[w]
      BY <1>2, <2>1, <2>2, <2>3, <3>1
    <3>2. CASE i # item[w]
      <4>1. (\A v \in Workers : pc'[v] = "work" => item[v] # i)
              <=> (\A v \in Workers : pc[v] = "work" => item[v] # i)
        BY <1>1, <1>2, <3>2
      <4> QED BY <2>2, <3>2, <4>1 DEF Round, Counted
    <3> QED BY <3>1, <3>2
  <2>5. \A p \in Phases : p < K \/ p > K => p \in Phases \ {K}
    BY PoolShape
  <2> QED BY <1>1, <1>2, <1>3, <2>2, <2>4, <2>5 DEF Round, Counted
<1> QED BY <1>5, <1>6, <1>7, <1>8 DEF Round

\* An arrival is counted once; the last one finds everyone there.
LEMMA ArriveRound ==
  ASSUME PoolAssumption, Types, NEW K \in Phases, Round(K), NEW w \in Workers, Arrive(w)
  PROVE  Round(K)'
<1>1. /\ pc[w] = "arrive" /\ Started(w) /\ phase[w] = K
  BY InRound DEF Arrive, Body
<1>2. /\ UNCHANGED <<cur_gen, completed, nextItem, done_count, bar_sense, my_gen, phase, item, ran>>
      /\ bar_count' = bar_count + 1
      /\ pc'[w] = IF bar_count + 1 = NumThreads THEN "open" ELSE "spin"
      /\ local_sense'[w] = 1 - local_sense[w]
      /\ \A v \in Workers \ {w} : pc'[v] = pc[v] /\ local_sense'[v] = local_sense[v]
  BY DEF Arrive, Goto, Types, LastArrival
<1>3. \A v \in Workers : Started(v)' = Started(v)
  BY <1>2 DEF Started
<1>4. w \notin Arrived(K) /\ Arrived(K)' = Arrived(K) \cup {w}
  BY <1>1, <1>2, <1>3 DEF Arrived, Meeting
<1>5. Done' = Done
  BY <1>1, <1>2, <1>3 DEF Done, Body
<1>6. /\ \A v \in Workers : pc[v] \notin Opening
      /\ bar_count = Cardinality(Arrived(K))
  BY <1>1, <1>4 DEF Round, Barrier, Opening
<1>7. Placed(K)'
  <2>1. K < LastPhase /\ local_sense[w] = (K + 1) % 2
    BY <1>1 DEF Round, Placed, Meeting
  <2>2. 1 - local_sense[w] = K % 2
    BY <2>1, PoolShape
  <2>3. ASSUME NEW v \in Workers \ {w}
        PROVE  /\ Started(v)' = Started(v) /\ phase'[v] = phase[v] /\ pc'[v] = pc[v]
               /\ local_sense'[v] = local_sense[v]
    BY <1>2, <1>3
  <2>4. /\ Started(w)' /\ phase'[w] = K /\ pc'[w] \in {"open", "spin"} /\ local_sense'[w] = K % 2
    BY <1>1, <1>2, <1>3, <2>2
  <2> QED BY <2>1, <2>3, <2>4 DEF Round, Placed, Body, Meeting
<1>8. Barrier(K)'
  <2>1. IsFiniteSet(Arrived(K)) /\ IsFiniteSet(Workers)
    BY FS_Subset, PoolShape DEF Arrived
  <2>2. Cardinality(Arrived(K)') = bar_count + 1 /\ Arrived(K)' \subseteq Workers
    BY <1>4, <1>6, <2>1, FS_AddElement DEF Arrived
  <2>3. bar_count + 1 = NumThreads <=> Arrived(K)' = Workers
    BY <2>1, <2>2, FS_Subset DEF NumThreads
  <2>4. \A v \in Workers : pc'[v] # "open2" /\ (pc'[v] \in Opening => v = w /\ Arrived(K)' = Workers)
    BY <1>2, <1>6, <2>3 DEF Opening
  <2>5. (\A v \in Workers : pc'[v] \notin Opening) => Arrived(K)' # Workers
    BY <1>2, <2>3 DEF Opening
  <2> QED BY <1>2, <2>2, <2>4, <2>5 DEF Round, Barrier
<1>9. Counted(K)'
  <2>1. \A v \in Workers : Started(v)' /\ pc'[v] \notin {"draw", "work"} =>
          nextItem[phase'[v]] >= Items[phase'[v]]
    BY <1>1, <1>2, <1>3 DEF Round, Counted
  <2> QED BY <1>1, <1>2, <2>1, CountedStays DEF Round
<1>10. Reported'
  BY <1>1, <1>2, <1>5, ReportedStays DEF Round
<1> QED BY <1>7, <1>8, <1>9, <1>10 DEF Round

\* The first store of the opening resets the count while everyone spins.
LEMMA OpenResetRound ==
  ASSUME PoolAssumption, Types, NEW K \in Phases, Round(K), NEW w \in Workers, Open(w),
         pc[w] = "open"
  PROVE  Round(K)'
<1>1. Started(w) /\ phase[w] = K
  BY InRound DEF Body
<1>2. /\ UNCHANGED <<cur_gen, completed, nextItem, done_count, bar_sense, my_gen, local_sense,
                     phase, item, ran>>
      /\ bar_count' = 0
      /\ pc'[w] = "open2"
      /\ \A v \in Workers \ {w} : pc'[v] = pc[v]
  BY DEF Open, OpenFirst, Goto, Types
<1>3. \A v \in Workers : Started(v)' = Started(v)
  BY <1>2 DEF Started
<1>4. Arrived(K)' = Arrived(K) /\ Done' = Done
  BY <1>1, <1>2, <1>3 DEF Arrived, Done, Meeting, Body
<1>5. Placed(K)'
  BY <1>1, <1>2, <1>3 DEF Round, Placed, Body, Meeting
<1>6. Barrier(K)'
  BY <1>2, <1>4 DEF Round, Barrier, Opening
<1>7. Counted(K)'
  <2>1. \A v \in Workers : Started(v)' /\ pc'[v] \notin {"draw", "work"} =>
          nextItem[phase'[v]] >= Items[phase'[v]]
    BY <1>1, <1>2, <1>3 DEF Round, Counted
  <2> QED BY <1>2, <2>1, CountedStays DEF Round
<1>8. Reported'
  BY <1>2, <1>4, ReportedStays DEF Round
<1> QED BY <1>5, <1>6, <1>7, <1>8 DEF Round

\* The second store lets everyone into the next phase: all have arrived, so that
\* nothing of the phase is left to do.
LEMMA OpenFlipRound ==
  ASSUME PoolAssumption, Types, NEW K \in Phases, Round(K), NEW w \in Workers, Open(w),
         pc[w] = "open2"
  PROVE  K + 1 \in Phases /\ Round(K + 1)'
<1>1. Started(w) /\ phase[w] = K
  BY InRound DEF Body
<1>2. /\ UNCHANGED <<cur_gen, completed, nextItem, done_count, bar_count, my_gen, local_sense,
                     item, ran>>
      /\ bar_sense' = local_sense[w]
      /\ pc'[w] = "draw" /\ phase'[w] = K + 1
      /\ \A v \in Workers \ {w} : pc'[v] = pc[v] /\ phase'[v] = phase[v]
  BY <1>1 DEF Open, OpenFirst, Goto, Types
<1>3. \A v \in Workers : Started(v)' = Started(v)
  BY <1>2 DEF Started
<1>4. /\ Arrived(K) = Workers /\ bar_count = 0
      /\ \A v \in Workers \ {w} : pc[v] \notin Opening
  BY DEF Round, Barrier, Opening
<1>5. /\ \A v \in Workers : Started(v) /\ phase[v] = K /\ pc[v] \in Meeting
      /\ \A v \in Workers \ {w} : pc[v] = "spin"
  BY <1>4 DEF Arrived, Meeting, Opening
<1>6. K < LastPhase /\ local_sense[w] = K % 2 /\ K \in Nat
  BY <1>1, PoolShape DEF Round, Placed, Meeting
<1>7. K + 1 \in Phases /\ K + 2 \in Nat /\ (K + 2) % 2 = K % 2
  BY <1>6, PoolShape
<1>8. Placed(K + 1)'
  <2>1. K + 1 <= LastPhase
    BY <1>6, PoolShape
  <2>2. ASSUME NEW v \in Workers \ {w}
        PROVE  /\ Started(v)' /\ phase'[v] = K /\ pc'[v] = "spin" /\ phase'[v] < LastPhase
               /\ local_sense'[v] = K % 2
    <3>1. local_sense[v] = K % 2
      BY <1>5 DEF Round, Placed, Meeting
    <3> QED BY <1>2, <1>3, <1>5, <1>6, <3>1
  <2>3. /\ Started(w)' /\ phase'[w] = K + 1 /\ pc'[w] = "draw"
        /\ local_sense'[w] = (K + 2) % 2
    BY <1>1, <1>2, <1>3, <1>6, <1>7
  <2>4. ASSUME NEW v \in Workers \ {w}
        PROVE  /\ phase'[v] + 1 = K + 1 /\ pc'[v] \in Meeting /\ pc'[v] \in Body \ {"finish"}
               /\ local_sense'[v] = phase'[v] % 2
    BY <1>6, <2>2 DEF Meeting, Body
  <2>5. /\ pc'[w] \notin Meeting \cup {"arrive"} /\ pc'[w] \in Body \ {"finish"}
        /\ local_sense'[w] = (phase'[w] + 1) % 2
    BY <1>6, <2>3 DEF Meeting, Body
  <2> QED BY <2>2, <2>3, <2>4, <2>5 DEF Placed
<1>9. Arrived(K + 1)' = {}
  BY <1>2, <1>3, <1>5, <1>6 DEF Arrived, Meeting
<1>10. Barrier(K + 1)'
  <2>1. bar_sense' = (K + 1 + 1) % 2
    BY <1>2, <1>6, <1>7
  <2>2. \A v \in Workers : pc'[v] \notin Opening /\ pc'[v] # "open2"
    BY <1>2, <1>4 DEF Opening
  <2>3. Arrived(K + 1)' # Workers /\ Cardinality(Arrived(K + 1)') = 0
    BY <1>9, PoolShape, FS_EmptySet
  <2> QED BY <1>2, <1>4, <2>1, <2>2, <2>3 DEF Barrier
<1>11. nextItem[K] >= Items[K] /\ \A i \in 0 .. Items[K] - 1 : ran[K][i] = 1
  <2>1. nextItem[K] >= Items[K]
    BY <1>1 DEF Round, Counted
  <2>2. nextItem[K] \in Nat /\ Items[K] \in Nat
    BY PoolShape DEF Types
  <2>3. \A v \in Workers : pc[v] # "work"
    BY <1>5 DEF Meeting
  <2> QED BY <2>1, <2>2, <2>3 DEF Round, Counted
<1>12. Counted(K + 1)'
  <2>1. \A p \in Phases : (p < K + 1 => p < K \/ p = K) /\ (p > K + 1 => p > K) /\ p \in Nat
    BY <1>6, PoolShape
  <2>2. \A p \in Phases : p < K + 1 =>
          nextItem'[p] >= Items[p] /\ \A i \in 0 .. Items[p] - 1 : ran'[p][i] = 1
    BY <1>2, <1>11, <2>1 DEF Round, Counted
  <2>3. \A p \in Phases : p > K + 1 =>
          nextItem'[p] = 0 /\ \A i \in 0 .. Items[p] - 1 : ran'[p][i] = 0
    BY <1>2, <2>1 DEF Round, Counted
  <2>4. \A v \in Workers : pc'[v] # "work"
    BY <1>2, <1>5 DEF Meeting
  <2>5. \A i \in 0 .. Items[K + 1] - 1 : ran'[K + 1][i] = 0 /\ ~(i < nextItem'[K + 1])
    BY <1>2, <1>6, <1>7 DEF Round, Counted
  <2>6. \A v \in Workers : Started(v)' /\ pc'[v] \notin {"draw", "work"} =>
          nextItem'[phase'[v]] >= Items[phase'[v]]
    BY <1>2, <1>5, <1>11
  <2> QED BY <2>2, <2>3, <2>4, <2>5, <2>6 DEF Counted
<1>13. Done' = Done
  BY <1>2, <1>3, <1>5 DEF Done, Meeting, Body
<1>14. Reported'
  BY <1>2, <1>13, ReportedStays DEF Round
<1> QED BY <1>7, <1>8, <1>10, <1>12, <1>14 DEF Round

\* Whoever leaves a barrier late finds its own sense, that of the last opening.
LEMMA SpinRound ==
  ASSUME PoolAssumption, Types, NEW K \in Phases, Round(K), NEW w \in Workers, Spin(w)
  PROVE  Round(K)'
<1>1. /\ pc[w] = "spin" /\ Started(w) /\ bar_sense = local_sense[w]
  BY InRound DEF Spin, Body
<1>2. phase[w] + 1 = K
  <2>1. local_sense[w] = phase[w] % 2 /\ bar_sense = (K + 1) % 2
    BY <1>1 DEF Round, Placed, Barrier, Meeting
  <2>2. phase[w] # K
    BY <1>1, <2>1, PoolShape
  <2> QED BY <1>1, <2>2 DEF Round, Placed
<1>3. /\ UNCHANGED <<cur_gen, completed, nextItem, done_count, bar_count, bar_sense, my_gen,
                     local_sense, item, ran>>
      /\ pc'[w] = "draw" /\ phase'[w] = K
      /\ \A v \in Workers \ {w} : pc'[v] = pc[v] /\ phase'[v] = phase[v]
  BY <1>2 DEF Spin, Goto, Types
<1>4. \A v \in Workers : Started(v)' = Started(v)
  BY <1>3 DEF Started
<1>5. Arrived(K)' = Arrived(K) /\ Done' = Done
  <2>1. phase[w] # K
    BY <1>2, PoolShape DEF Types
  <2> QED BY <1>1, <1>3, <1>4, <2>1 DEF Arrived, Done, Meeting, Body
<1>6. Placed(K)'
  <2>1. local_sense[w] = (phase[w]) % 2 /\ phase[w] \in Nat /\ local_sense[w] = (K + 1) % 2
    BY <1>1, <1>2, PoolShape DEF Round, Placed, Meeting, Types, Barrier
  <2>2. /\ Started(w)' /\ phase'[w] = K /\ pc'[w] = "draw" /\ local_sense'[w] = (K + 1) % 2
    BY <1>1, <1>3, <1>4, <2>1
  <2> QED BY <1>3, <1>4, <2>2 DEF Round, Placed, Meeting, Body
<1>7. Barrier(K)'
  BY <1>1, <1>3, <1>5, BarrierStays DEF Round, Opening
<1>8. Counted(K)'
  <2>1. \A v \in Workers : Started(v)' /\ pc'[v] \notin {"draw", "work"} =>
          nextItem[phase'[v]] >= Items[phase'[v]]
    BY <1>3, <1>4 DEF Round, Counted
  <2> QED BY <1>1, <1>3, <2>1, CountedStays DEF Round
<1>9. Reported'
  BY <1>1, <1>3, <1>5, ReportedStays DEF Round
<1> QED BY <1>6, <1>7, <1>8, <1>9 DEF Round

\* The last worker to finish is the one that finds everyone else done.
LEMMA FinishRound ==
  ASSUME PoolAssumption, Types, NEW K \in Phases, Round(K), NEW w \in Workers, Finish(w)
  PROVE  Round(K)'
<1>1. /\ pc[w] = "finish" /\ Started(w) /\ phase[w] = K
  BY InRound DEF Finish, Body
<1>2. /\ UNCHANGED <<cur_gen, completed, nextItem, bar_count, bar_sense, my_gen, local_sense,
                     phase, item, ran>>
      /\ done_count' = done_count + 1
      /\ pc'[w] = IF done_count + 1 = NumThreads THEN "store" ELSE "check"
      /\ \A v \in Workers \ {w} : pc'[v] = pc[v]
  BY DEF Finish, Goto, LastArrival, Types
<1>3. \A v \in Workers : Started(v)' = Started(v)
  BY <1>2 DEF Started
<1>4. Arrived(K)' = Arrived(K)
  BY <1>1, <1>2, <1>3 DEF Arrived, Meeting
<1>5. w \notin Done /\ Done' = Done \cup {w}
  BY <1>1, <1>2, <1>3 DEF Done, Body
<1>6. Placed(K)'
  BY <1>1, <1>2, <1>3 DEF Round, Placed, Body, Meeting
<1>7. Barrier(K)'
  BY <1>1, <1>2, <1>4, BarrierStays DEF Round, Opening
<1>8. Counted(K)'
  <2>1. \A v \in Workers : Started(v)' /\ pc'[v] \notin {"draw", "work"} =>
          nextItem[phase'[v]] >= Items[phase'[v]]
    BY <1>1, <1>2, <1>3 DEF Round, Counted
  <2> QED BY <1>1, <1>2, <2>1, CountedStays DEF Round
<1>9. Reported'
  <2>1. IsFiniteSet(Done) /\ IsFiniteSet(Workers)
    BY FS_Subset, PoolShape DEF Done
  <2>2. Cardinality(Done') = done_count + 1 /\ Done' \subseteq Workers
    BY <1>5, <2>1, FS_AddElement DEF Round, Reported, Done
  <2>3. done_count + 1 = NumThreads <=> Done' = Workers
    BY <2>1, <2>2, FS_Subset DEF NumThreads
  <2>4. /\ \A v \in Workers : pc[v] # "store"
        /\ completed # cur_gen /\ completed <= cur_gen
    BY <1>5 DEF Round, Reported
  <2> QED BY <1>2, <2>2, <2>3, <2>4 DEF Reported
<1> QED BY <1>6, <1>7, <1>8, <1>9 DEF Round

\* The generation is reported once, when everyone is done with it.
LEMMA StoreRound ==
  ASSUME PoolAssumption, Types, NEW K \in Phases, Round(K), NEW w \in Workers, Store(w)
  PROVE  Round(K)'
<1>1. /\ pc[w] = "store" /\ Started(w)
  BY InRound DEF Store
<1>2. /\ UNCHANGED <<cur_gen, nextItem, done_count, bar_count, bar_sense, my_gen, local_sense,
                     phase, item, ran>>
      /\ completed' = cur_gen
      /\ pc'[w] = "lock"
      /\ \A v \in Workers \ {w} : pc'[v] = pc[v]
  BY <1>1 DEF Store, AfterStore, Goto, Types, Started
<1>3. \A v \in Workers : Started(v)' = Started(v)
  BY <1>2 DEF Started
<1>4. Arrived(K)' = Arrived(K) /\ Done' = Done
  BY <1>1, <1>2, <1>3 DEF Arrived, Done, Meeting, Body
<1>5. Placed(K)'
  BY <1>1, <1>2, <1>3 DEF Round, Placed, Body, Meeting
<1>6. Barrier(K)'
  BY <1>1, <1>2, <1>4, BarrierStays DEF Round, Opening
<1>7. Counted(K)'
  <2>1. \A v \in Workers : Started(v)' /\ pc'[v] \notin {"draw", "work"} =>
          nextItem[phase'[v]] >= Items[phase'[v]]
    BY <1>1, <1>2, <1>3 DEF Round, Counted
  <2> QED BY <1>1, <1>2, <2>1, CountedStays DEF Round
<1>8. Reported'
  <2>1. Done = Workers /\ \A v \in Workers \ {w} : pc[v] # "store"
    BY <1>1 DEF Round, Reported
  <2>2. \A v \in Workers : pc'[v] # "store"
    BY <1>2, <2>1
  <2>3. completed' <= cur_gen' /\ done_count' = Cardinality(Done')
    BY <1>2, <1>4 DEF Round, Reported, Types
  <2> QED BY <1>4, <2>1, <2>2, <2>3 DEF Reported
<1> QED BY <1>5, <1>6, <1>7, <1>8 DEF Round

-----------------------------------------------------------------------------
(* The inductive step. *)

\* A draw leads to an item, to the barrier or to the end of the task.
LEMMA DrawGoes ==
  ASSUME PoolAssumption, Types, NEW w \in Workers, Draw(w)
  PROVE  pc'[w] \in {"work", "arrive", "finish"}
<1> DEFINE l == CASE Drawn(phase[w]) < Items[phase[w]] -> "work"
                  [] Drawn(phase[w]) >= Items[phase[w]] /\ phase[w] < LastPhase -> "arrive"
                  [] OTHER -> "finish"
<1>1. pc' = [pc EXCEPT ![w] = l]
  BY DEF Draw, Goto
<1>2. l \in {"work", "arrive", "finish"}
  <2>1. Drawn(phase[w]) \in Nat /\ Items[phase[w]] \in Nat
    BY PoolShape DEF Drawn, Types
  <2> QED BY <2>1
<1> HIDE DEF l
<1> QED BY <1>1, <1>2 DEF Types

\* Counters stay numbers and every worker stays at a line of worker_loop.
LEMMA StepTypes ==
  ASSUME PoolAssumption, TasksInv, [Next]_vars
  PROVE  Types'
<1>0. Types
  BY DEF TasksInv
<1>1. CASE SubmitReset
  <2>1. Zeros \in [Phases -> Nat] /\ \A p \in Phases : NoRuns[p] \in [0 .. Items[p] - 1 -> Nat]
    BY DEF Zeros, NoRuns
  <2> QED BY <1>0, <1>1, <2>1 DEF SubmitReset, Types, workerVars, NoRuns
<1>2. CASE InCall
  <2>1. CASE SubmitPublish
    BY <1>0, <2>1 DEF SubmitPublish, Types, workerVars
  <2>2. CASE SubmitNotify
    BY <1>0, <2>2 DEF SubmitNotify, WakeWorkers, Types, Labels
  <2>3. CASE SyncCheck
    BY <1>0, <2>3 DEF SyncCheck, Types, workerVars
  <2>4. CASE SyncSleep
    BY <1>0, <2>4 DEF SyncSleep, Types, workerVars
  <2>5. CASE StopNotify
    BY <1>0, <2>5 DEF StopNotify, WakeWorkers, Types, Labels
  <2> QED BY <1>2, <2>1, <2>2, <2>3, <2>4, <2>5 DEF InCall
<1>3. CASE Stop
  BY <1>0, <1>3 DEF Stop, Types, workerVars
<1>4. ASSUME NEW w \in Workers, WorkerCheck(w) PROVE Types'
  <2>1. 1 \in Phases
    BY PoolShape
  <2>2. my_gen' \in [Workers -> Nat] /\ phase' \in [Workers -> Phases]
    BY <1>0, <1>4, <2>1, ZenonT(30) DEF WorkerCheck, Types
  <2>3. local_sense' \in [Workers -> {0, 1}]
    BY <1>0, <1>4 DEF WorkerCheck, Types
  <2>4. pc' \in [Workers -> Labels]
    BY <1>0, <1>4 DEF WorkerCheck, Goto, Types, Labels
  <2> QED BY <1>0, <1>4, <2>2, <2>3, <2>4 DEF WorkerCheck, Types
<1>5. ASSUME NEW w \in Workers, WorkerSleep(w) PROVE Types'
  BY <1>0, <1>5 DEF WorkerSleep, Goto, Types, Labels
<1>6. ASSUME NEW w \in Workers, Draw(w) PROVE Types'
  <2>1. phase[w] \in Phases /\ nextItem[phase[w]] \in Nat
    BY <1>0 DEF Types
  <2>2. nextItem' \in [Phases -> Nat] /\ item' \in [Workers -> Nat]
    BY <1>0, <1>6, <2>1 DEF Draw, Drawn, Types
  <2>3. pc' \in [Workers -> Labels]
    <3>1. pc'[w] \in Labels
      BY <1>0, <1>6, DrawGoes DEF Labels
    <3> QED BY <1>0, <1>6, <3>1 DEF Draw, Goto, Types
  <2> QED BY <1>0, <1>6, <2>2, <2>3 DEF Draw, Types
<1>7. ASSUME NEW w \in Workers, Work(w) PROVE Types'
  <2>1. /\ phase[w] \in Phases /\ pc[w] = "work" /\ item[w] \in Nat
        /\ \A p \in Phases : ran[p] \in [0 .. Items[p] - 1 -> Nat]
    BY <1>0, <1>7 DEF Types, Work
  <2>2. \A p \in Phases : ran'[p] \in [0 .. Items[p] - 1 -> Nat]
    <3>1. \A p \in Phases \ {phase[w]} : ran'[p] = ran[p]
      BY <1>0, <1>7 DEF Work, Types
    <3>2. ran'[phase[w]] = [ran[phase[w]] EXCEPT ![item[w]] = @ + 1]
      BY <1>0, <1>7, <2>1 DEF Work, Types
    <3>3. ran[phase[w]] \in [0 .. Items[phase[w]] - 1 -> Nat]
      BY <2>1
    <3>4. ran'[phase[w]] \in [0 .. Items[phase[w]] - 1 -> Nat]
      <4> DEFINE f == ran[phase[w]]  I == 0 .. Items[phase[w]] - 1
      <4>1. f \in [I -> Nat] /\ ran'[phase[w]] = [f EXCEPT ![item[w]] = @ + 1]
        BY <3>2, <3>3
      <4> HIDE DEF f, I
      <4>2. [f EXCEPT ![item[w]] = @ + 1] \in [I -> Nat]
        <5>1. CASE item[w] \in I
          <6>1. f[item[w]] \in Nat
            BY <4>1, <5>1
          <6>2. f[item[w]] + 1 \in Nat
            BY <6>1
          <6> QED BY <4>1, <6>2
        <5>2. CASE item[w] \notin I
          BY <4>1, <5>2
        <5> QED BY <5>1, <5>2
      <4> QED BY <4>1, <4>2 DEF I
    <3> QED BY <2>1, <3>1, <3>4
  <2>3. DOMAIN ran' = Phases
    BY <1>0, <1>7 DEF Work, Types
  <2> QED BY <1>0, <1>7, <2>2, <2>3 DEF Work, Goto, Types, Labels
<1>8. ASSUME NEW w \in Workers, Arrive(w) PROVE Types'
  <2>1. local_sense' \in [Workers -> {0, 1}]
    <3>1. local_sense' = [local_sense EXCEPT ![w] = 1 - local_sense[w]]
      BY <1>8 DEF Arrive
    <3>2. local_sense[w] \in {0, 1} /\ 1 - local_sense[w] \in {0, 1}
      BY <1>0 DEF Types
    <3> QED BY <1>0, <3>1, <3>2 DEF Types
  <2> QED BY <1>0, <1>8, <2>1 DEF Arrive, Goto, Types, Labels
<1>9. ASSUME NEW w \in Workers, Open(w) PROVE Types'
  <2>1. CASE pc[w] = "open"
    <3>1. pc' = [pc EXCEPT ![w] = "open2"] /\ bar_count' = 0 /\ UNCHANGED <<bar_sense, phase>>
      BY <1>9, <2>1 DEF Open, OpenFirst, Goto
    <3> QED BY <1>0, <1>9, <3>1 DEF Open, Types, Labels
  <2>2. CASE pc[w] = "open2"
    <3>1. phase[w] + 1 \in Phases
      <4>1. PICK K \in Phases : Round(K)
        <5>1. pc[w] \notin Outside \cup {"exited"}
          BY <2>2 DEF Outside
        <5> QED BY <5>1 DEF TasksInv, Quiet
      <4>2. phase[w] = K /\ K + 1 \in Phases
        BY <1>0, <1>9, <2>2, <4>1, InRound, OpenFlipRound DEF Body
      <4> QED BY <4>2
    <3>2. /\ pc' = [pc EXCEPT ![w] = "draw"] /\ UNCHANGED bar_count
          /\ phase' = [phase EXCEPT ![w] = phase[w] + 1]
      BY <1>9, <2>2 DEF Open, OpenFirst, Goto
    <3> QED BY <1>0, <1>9, <3>1, <3>2 DEF Open, Types, Labels
  <2> QED BY <1>9, <2>1, <2>2 DEF Open
<1>10. ASSUME NEW w \in Workers, Spin(w) PROVE Types'
  <2>1. phase[w] + 1 \in Phases
    <3>1. pc[w] = "spin" /\ pc[w] \notin Outside \cup {"exited"}
      BY <1>10 DEF Spin, Outside
    <3>2. PICK K \in Phases : Round(K)
      BY <3>1 DEF TasksInv, Quiet
    <3>3. Started(w)
      BY <1>0, <3>1, <3>2, InRound DEF Body
    <3>4. phase[w] < LastPhase
      BY <3>1, <3>2, <3>3 DEF Round, Placed, Meeting
    <3> QED BY <1>0, <3>4, PoolShape DEF Types
  <2>2. phase' \in [Workers -> Phases]
    BY <1>0, <1>10, <2>1 DEF Spin, Types
  <2> QED BY <1>0, <1>10, <2>2 DEF Spin, Goto, Types, Labels
<1>11. ASSUME NEW w \in Workers, Finish(w) PROVE Types'
  BY <1>0, <1>11 DEF Finish, Goto, Types, Labels
<1>12. ASSUME NEW w \in Workers, Store(w) PROVE Types'
  BY <1>0, <1>12 DEF Store, AfterStore, Goto, Types, Labels
<1>13. ASSUME NEW w \in Workers, LockUnlock(w) PROVE Types'
  BY <1>0, <1>13 DEF LockUnlock, Goto, Types, Labels
<1>14. ASSUME NEW w \in Workers, Notify(w) PROVE Types'
  BY <1>0, <1>14 DEF Notify, Goto, Types, Labels
<1>15. CASE UNCHANGED vars
  BY <1>0, <1>15 DEF vars, workerVars, Types
<1> QED
  BY <1>1, <1>2, <1>3, <1>4, <1>5, <1>6, <1>7, <1>8, <1>9, <1>10, <1>11, <1>12, <1>13, <1>14, <1>15
     DEF Next, Worker

\* A worker that does not take part in a task leaves the rest of the pool alone.
QuietMoves ==
  /\ UNCHANGED <<caller, cur_gen, submitted, completed, nextItem, done_count, bar_count,
                 bar_sense, my_gen, local_sense, phase, item, stop, ran>>
  /\ \A v \in Workers : pc'[v] = pc[v] \/ (pc[v] \in Outside /\ pc'[v] \in Outside)

\* Claiming the submission, a lost notify or a late wake keeps every part of the
\* invariant, since none of its parts tells the labels of Outside apart.
LEMMA QuietMovesKeep ==
  ASSUME TasksInv, QuietMoves, Types'
  PROVE  TasksInv'
<1>1. \A v \in Workers : Started(v)' = Started(v)
  BY DEF QuietMoves, Started
<1>2. (Waiting /\ ~Waiting') => FALSE
  BY DEF QuietMoves, Waiting
<1>3. Waiting' => \E K \in Phases : Round(K)'
  BY OutsideMoves DEF QuietMoves, Waiting, TasksInv
<1>4. ~Waiting' => Quiet'
  BY <1>1 DEF QuietMoves, Waiting, TasksInv, Quiet
<1>5. AllRan' = AllRan
  BY DEF QuietMoves, AllRan
<1>6. (\E v \in Workers : pc'[v] = "exited") => stop'
  BY DEF QuietMoves, TasksInv, Outside
<1> QED BY <1>3, <1>4, <1>5, <1>6 DEF TasksInv, QuietMoves

\* Inside a task the caller waits, and only the workers move.
LEMMA BodyKeeps ==
  ASSUME TasksInv, NEW w \in Workers, pc[w] \in Body \cup {"store"},
         UNCHANGED <<caller, cur_gen, submitted, stop>>,
         \A v \in Workers \ {w} : pc'[v] = pc[v], pc'[w] # "exited",
         Types', \A K \in Phases : Round(K) => \E J \in Phases : Round(J)'
  PROVE  TasksInv'
<1>1. pc[w] \notin Outside \cup {"exited"}
  BY DEF Body, Outside
<1>2. Waiting /\ Waiting'
  BY <1>1 DEF TasksInv, Quiet, Waiting
<1>3. (\E v \in Workers : pc'[v] = "exited") => stop'
  BY DEF TasksInv
<1>4. caller' # "idle" /\ caller' # "publish"
  BY <1>2 DEF Waiting
<1> QED BY <1>2, <1>3, <1>4 DEF TasksInv

\* submit publishes a task that nobody has started, with everything to do.
LEMMA PublishKeeps ==
  ASSUME PoolAssumption, TasksInv, SubmitPublish, Types'
  PROVE  TasksInv'
<1>1. /\ Quiet /\ ~stop /\ cur_gen \in Nat /\ caller' = "notify" /\ UNCHANGED stop
      /\ nextItem' = Zeros /\ done_count' = 0 /\ bar_count' = 0 /\ bar_sense' = 0 /\ ran' = NoRuns
      /\ cur_gen' = cur_gen + 1 /\ submitted' = cur_gen' /\ completed' = completed
      /\ pc' = pc /\ my_gen' = my_gen
  BY DEF SubmitPublish, TasksInv, Types, Waiting, workerVars
<1>2. \A w \in Workers : ~Started(w)' /\ pc'[w] \in Outside
  BY <1>1 DEF TasksInv, Quiet, Started
<1>3. Arrived(1)' = {} /\ Done' = {}
  BY <1>2 DEF Arrived, Done
<1>4. 1 \in Phases /\ Workers # {} /\ Cardinality({}) = 0
  BY PoolShape, FS_EmptySet
<1>5. Placed(1)'
  BY <1>2 DEF Placed
<1>6. Barrier(1)'
  BY <1>1, <1>2, <1>3, <1>4 DEF Barrier, Opening, Outside
<1>7. Counted(1)'
  <2>1. \A p \in Phases : nextItem'[p] = 0 /\ ~(p < 1)
                          /\ \A i \in 0 .. Items[p] - 1 : ran'[p][i] = 0 /\ ~(i < 0)
    BY <1>1, PoolShape DEF Zeros, NoRuns
  <2>2. \A w \in Workers : pc'[w] # "work"
    BY <1>2 DEF Outside
  <2> QED BY <1>2, <1>4, <2>1, <2>2 DEF Counted
<1>8. Reported'
  <2>1. completed' <= cur_gen' /\ completed' # cur_gen'
    BY <1>1 DEF Quiet
  <2> QED BY <1>1, <1>2, <1>3, <1>4, <2>1 DEF Reported, Outside
<1>9. Round(1)'
  BY <1>5, <1>6, <1>7, <1>8 DEF Round
<1>10. \A v \in Workers : pc'[v] # "exited"
  BY <1>2 DEF Outside
<1> QED BY <1>1, <1>4, <1>9, <1>10 DEF TasksInv, Waiting

\* sync returns only when the generation was reported: everyone is done with it,
\* and everything of it has run.
LEMMA SyncKeeps ==
  ASSUME PoolAssumption, TasksInv, SyncCheck, Types'
  PROVE  TasksInv'
<1>1. /\ caller = "sync" /\ Waiting /\ ~stop /\ submitted = cur_gen
      /\ UNCHANGED <<cur_gen, submitted, completed, nextItem, done_count, bar_count, bar_sense,
                     pc, my_gen, local_sense, phase, item, stop, ran>>
  BY DEF SyncCheck, TasksInv, Waiting, workerVars
<1>2. PICK K \in Phases : Round(K)
  BY <1>1 DEF TasksInv
<1>3. Round(K)'
  BY <1>1, <1>2, OutsideMoves
<1>4. \A v \in Workers : pc'[v] # "exited"
  BY <1>1 DEF TasksInv
<1>5. CASE completed >= submitted
  <2>1. /\ completed = cur_gen /\ Done = Workers
        /\ \A w \in Workers : pc[w] # "store"
    BY <1>1, <1>2, <1>5 DEF Round, Reported, TasksInv, Types
  <2>2. \A w \in Workers : Started(w) /\ pc[w] \in Outside
    <3>1. \A w \in Workers : pc[w] \in Labels /\ pc[w] # "exited"
      BY <1>1, <1>4 DEF TasksInv, Types
    <3>2. Labels \subseteq Outside \cup Body \cup {"store", "exited"}
      BY DEF Labels, Outside, Body
    <3> QED BY <2>1, <3>1, <3>2 DEF Done
  <2>3. Quiet'
    BY <1>1, <2>1, <2>2 DEF Quiet, Started
  <2>4. caller' = "idle"
    BY <1>5 DEF SyncCheck
  <2>5. K = LastPhase /\ nextItem[K] >= Items[K]
    <3>1. PICK w \in Workers : TRUE
      BY PoolShape
    <3>2. pc[w] \notin Body /\ pc[w] \notin {"spin", "draw", "work"}
      BY <2>2 DEF Outside, Body
    <3>3. phase[w] = LastPhase /\ phase[w] = K
      BY <1>2, <2>2, <3>2 DEF Round, Placed
    <3>4. nextItem[phase[w]] >= Items[phase[w]]
      BY <1>2, <2>2, <3>2 DEF Round, Counted
    <3> QED BY <3>3, <3>4
  <2>6. AllRan'
    <3> SUFFICES ASSUME NEW p \in Phases, NEW i \in 0 .. Items[p] - 1
                 PROVE  ran[p][i] = 1
      BY <1>1 DEF AllRan
    <3>1. CASE p < K
      BY <1>2, <3>1 DEF Round, Counted
    <3>2. CASE p = K
      <4>1. i < nextItem[K]
        <5>1. nextItem[K] \in Nat /\ Items[K] \in Nat
          BY PoolShape DEF TasksInv, Types
        <5> QED BY <2>5, <3>2, <5>1
      <4>2. \A w \in Workers : pc[w] # "work"
        BY <2>2 DEF Outside
      <4> QED BY <1>2, <3>2, <4>1, <4>2 DEF Round, Counted
    <3> QED BY <2>5, <3>1, <3>2, PoolShape
  <2> QED BY <1>1, <1>4, <2>3, <2>4, <2>6 DEF TasksInv, Waiting
<1>6. CASE ~(completed >= submitted)
  <2>1. caller' = "falling"
    BY <1>6 DEF SyncCheck
  <2> QED BY <1>1, <1>3, <1>4, <2>1 DEF TasksInv, Waiting
<1> QED BY <1>5, <1>6

-----------------------------------------------------------------------------
\* Before the first task nothing was published and nobody runs.
LEMMA InitTasks ==
  ASSUME PoolAssumption, Init
  PROVE  TasksInv
<1>1. 1 \in Phases
  BY PoolShape
<1>2. Types
  BY <1>1 DEF Init, Types, Labels, Zeros, NoRuns
<1>3. Quiet
  BY DEF Init, Quiet, Started, Outside
<1> QED BY <1>2, <1>3 DEF Init, TasksInv, Waiting

\* Every step of the caller and of a worker keeps the pool's invariant.
LEMMA StepTasks ==
  ASSUME PoolAssumption, TasksInv, [Next]_vars
  PROVE  TasksInv'
<1>0. Types /\ Types'
  BY StepTypes DEF TasksInv
<1>1. CASE SubmitReset
  <2>1. Quiet' /\ caller' = "publish"
    BY <1>1 DEF SubmitReset, TasksInv, Waiting, Quiet, Started, workerVars
  <2> QED BY <1>0, <1>1, <2>1 DEF SubmitReset, TasksInv, Waiting, workerVars
<1>2. CASE InCall
  <2>1. CASE SubmitPublish
    BY <1>0, <2>1, PublishKeeps
  <2>2. CASE SubmitNotify
    <3>1. \A v \in Workers : pc'[v] = pc[v] \/ (pc[v] \in Outside /\ pc'[v] \in Outside)
      BY <2>2 DEF SubmitNotify, WakeWorkers, Outside
    <3>2. PICK K \in Phases : Round(K)
      BY <2>2 DEF SubmitNotify, TasksInv, Waiting
    <3>3. Round(K)'
      BY <2>2, <3>1, <3>2, OutsideMoves DEF SubmitNotify
    <3> QED BY <1>0, <2>2, <3>1, <3>3 DEF SubmitNotify, TasksInv, Waiting, Outside
  <2>3. CASE SyncCheck
    BY <1>0, <2>3, SyncKeeps
  <2>4. CASE SyncSleep
    <3>1. PICK K \in Phases : Round(K)
      BY <2>4 DEF SyncSleep, TasksInv, Waiting
    <3>2. Round(K)'
      BY <2>4, <3>1, OutsideMoves DEF SyncSleep, workerVars
    <3> QED BY <1>0, <2>4, <3>2 DEF SyncSleep, TasksInv, Waiting, workerVars
  <2>5. CASE StopNotify
    <3>1. \A v \in Workers : pc'[v] = pc[v] \/ (pc[v] \in Outside /\ pc'[v] \in Outside)
      BY <2>5 DEF StopNotify, WakeWorkers, Outside
    <3>2. Quiet'
      BY <2>5, <3>1 DEF StopNotify, TasksInv, Waiting, Quiet, Started
    <3> QED BY <1>0, <2>5, <3>1, <3>2 DEF StopNotify, TasksInv, Waiting, Outside
  <2> QED BY <1>2, <2>1, <2>2, <2>3, <2>4, <2>5 DEF InCall
<1>3. CASE Stop
  <2>1. Quiet'
    BY <1>3 DEF Stop, TasksInv, Waiting, Quiet, Started, workerVars
  <2> QED BY <1>0, <1>3, <2>1 DEF Stop, TasksInv, Waiting, workerVars
<1>4. ASSUME NEW w \in Workers, WorkerCheck(w) PROVE TasksInv'
  <2>1. CASE stop
    <3>1. /\ ~Waiting /\ ~Waiting' /\ caller' \in {"stopping", "joining"} /\ stop'
      BY <1>4, <2>1 DEF WorkerCheck, TasksInv, Waiting
    <3>2. \A v \in Workers : pc'[v] = pc[v] \/ pc'[v] = "exited"
      BY <1>0, <1>4, <2>1 DEF WorkerCheck, Goto, Types
    <3>3. UNCHANGED <<completed, cur_gen, my_gen, submitted>>
      BY <1>4, <2>1 DEF WorkerCheck
    <3>4. Quiet'
      BY <3>1, <3>2, <3>3 DEF TasksInv, Quiet, Started
    <3> QED BY <1>0, <3>1, <3>3, <3>4 DEF TasksInv
  <2>2. CASE ~stop /\ cur_gen = my_gen[w]
    <3>1. QuietMoves
      BY <1>0, <1>4, <2>2 DEF WorkerCheck, Goto, Types, QuietMoves, Outside
    <3> QED BY <1>0, <3>1, QuietMovesKeep
  <2>3. CASE ~stop /\ cur_gen # my_gen[w]
    <3>1. /\ ~Started(w) /\ pc[w] = "check"
          /\ my_gen' = [my_gen EXCEPT ![w] = cur_gen]
          /\ local_sense' = [local_sense EXCEPT ![w] = 0]
          /\ phase' = [phase EXCEPT ![w] = 1]
          /\ pc' = [pc EXCEPT ![w] = "draw"]
          /\ UNCHANGED <<caller, cur_gen, submitted, completed, nextItem, done_count, bar_count,
                         bar_sense, item, stop, ran>>
      BY <1>4, <2>3 DEF WorkerCheck, Goto, Started
    <3>2. Waiting /\ Waiting'
      BY <3>1 DEF TasksInv, Quiet, Waiting
    <3>3. PICK K \in Phases : Round(K)
      BY <3>2 DEF TasksInv
    <3>4. Round(K)'
      BY <1>0, <3>1, <3>3, StartsRound
    <3>5. \A v \in Workers : pc'[v] # "exited"
      BY <1>0, <2>3, <3>1 DEF TasksInv, Types
    <3> QED BY <1>0, <3>1, <3>2, <3>4, <3>5 DEF TasksInv, Waiting
  <2> QED BY <2>1, <2>2, <2>3
<1>5. ASSUME NEW w \in Workers, WorkerSleep(w) PROVE TasksInv'
  <2>1. QuietMoves
    BY <1>0, <1>5 DEF WorkerSleep, Goto, Types, QuietMoves, Outside
  <2> QED BY <1>0, <2>1, QuietMovesKeep
<1>6. ASSUME NEW w \in Workers, Draw(w) PROVE TasksInv'
  <2>1. \A K \in Phases : Round(K) => Round(K)'
    BY <1>0, <1>6, DrawRound
  <2>2. pc[w] \in Body /\ \A v \in Workers \ {w} : pc'[v] = pc[v]
    BY <1>0, <1>6 DEF Draw, Goto, Types, Body
  <2>3. pc'[w] # "exited"
    BY <1>0, <1>6, DrawGoes
  <2> QED BY <1>0, <1>6, <2>1, <2>2, <2>3, BodyKeeps DEF Draw
<1>7. ASSUME NEW w \in Workers, Work(w) PROVE TasksInv'
  <2>1. \A K \in Phases : Round(K) => Round(K)'
    BY <1>0, <1>7, WorkRound
  <2>2. pc[w] \in Body /\ pc'[w] # "exited" /\ \A v \in Workers \ {w} : pc'[v] = pc[v]
    BY <1>0, <1>7 DEF Work, Goto, Types, Body
  <2> QED BY <1>0, <1>7, <2>1, <2>2, BodyKeeps DEF Work
<1>8. ASSUME NEW w \in Workers, Arrive(w) PROVE TasksInv'
  <2>1. \A K \in Phases : Round(K) => Round(K)'
    BY <1>0, <1>8, ArriveRound
  <2>2. pc[w] \in Body /\ pc'[w] # "exited" /\ \A v \in Workers \ {w} : pc'[v] = pc[v]
    BY <1>0, <1>8 DEF Arrive, Goto, Types, Body
  <2> QED BY <1>0, <1>8, <2>1, <2>2, BodyKeeps DEF Arrive
<1>9. ASSUME NEW w \in Workers, Open(w) PROVE TasksInv'
  <2>1. \A K \in Phases : Round(K) => \E J \in Phases : Round(J)'
    BY <1>0, <1>9, OpenResetRound, OpenFlipRound DEF Open
  <2>2. pc[w] \in Body /\ pc'[w] # "exited" /\ \A v \in Workers \ {w} : pc'[v] = pc[v]
    BY <1>0, <1>9 DEF Open, Goto, Types, Body
  <2> QED BY <1>0, <1>9, <2>1, <2>2, BodyKeeps DEF Open
<1>10. ASSUME NEW w \in Workers, Spin(w) PROVE TasksInv'
  <2>1. \A K \in Phases : Round(K) => Round(K)'
    BY <1>0, <1>10, SpinRound
  <2>2. pc[w] \in Body /\ pc'[w] # "exited" /\ \A v \in Workers \ {w} : pc'[v] = pc[v]
    BY <1>0, <1>10 DEF Spin, Goto, Types, Body
  <2> QED BY <1>0, <1>10, <2>1, <2>2, BodyKeeps DEF Spin
<1>11. ASSUME NEW w \in Workers, Finish(w) PROVE TasksInv'
  <2>1. \A K \in Phases : Round(K) => Round(K)'
    BY <1>0, <1>11, FinishRound
  <2>2. pc[w] \in Body /\ pc'[w] # "exited" /\ \A v \in Workers \ {w} : pc'[v] = pc[v]
    BY <1>0, <1>11 DEF Finish, Goto, Types, Body
  <2> QED BY <1>0, <1>11, <2>1, <2>2, BodyKeeps DEF Finish
<1>12. ASSUME NEW w \in Workers, Store(w) PROVE TasksInv'
  <2>1. \A K \in Phases : Round(K) => Round(K)'
    BY <1>0, <1>12, StoreRound
  <2>2. pc[w] = "store" /\ pc'[w] # "exited" /\ \A v \in Workers \ {w} : pc'[v] = pc[v]
    BY <1>0, <1>12 DEF Store, AfterStore, Goto, Types
  <2> QED BY <1>0, <1>12, <2>1, <2>2, BodyKeeps DEF Store
<1>13. ASSUME NEW w \in Workers, LockUnlock(w) PROVE TasksInv'
  <2>1. QuietMoves
    BY <1>0, <1>13 DEF LockUnlock, Goto, Types, QuietMoves, Outside
  <2> QED BY <1>0, <2>1, QuietMovesKeep
<1>14. ASSUME NEW w \in Workers, Notify(w) PROVE TasksInv'
  <2>1. \A v \in Workers : pc'[v] = pc[v] \/ (pc[v] \in Outside /\ pc'[v] \in Outside)
    BY <1>0, <1>14 DEF Notify, Goto, Types, Outside
  <2>2. CASE caller # "asleep"
    <3>1. QuietMoves
      BY <1>14, <2>1, <2>2 DEF Notify, QuietMoves
    <3> QED BY <1>0, <3>1, QuietMovesKeep
  <2>3. CASE caller = "asleep"
    <3>1. PICK K \in Phases : Round(K)
      BY <2>3 DEF TasksInv, Waiting
    <3>2. Round(K)'
      BY <1>14, <2>1, <3>1, OutsideMoves DEF Notify
    <3>3. caller' = "sync" /\ UNCHANGED <<cur_gen, submitted, stop>>
      BY <1>14, <2>3 DEF Notify
    <3> QED BY <1>0, <2>1, <2>3, <3>2, <3>3 DEF TasksInv, Waiting, Outside
  <2> QED BY <2>2, <2>3
<1>15. CASE UNCHANGED vars
  <2>1. QuietMoves
    BY <1>15 DEF vars, workerVars, QuietMoves
  <2> QED BY <1>0, <2>1, QuietMovesKeep
<1> QED
  BY <1>1, <1>2, <1>3, <1>4, <1>5, <1>6, <1>7, <1>8, <1>9, <1>10, <1>11, <1>12, <1>13, <1>14, <1>15
     DEF Next, Worker

\* Every reachable state of the pool satisfies the invariant.
LEMMA TasksAlways == PoolAssumption => (Spec => []TasksInv)
<1> SUFFICES ASSUME PoolAssumption PROVE Spec => []TasksInv
  OBVIOUS
<1>1. Init => TasksInv
  BY InitTasks
<1>2. TasksInv /\ [Next]_vars => TasksInv'
  BY StepTasks
<1> QED BY <1>1, <1>2, PTL DEF Spec

-----------------------------------------------------------------------------
\* When sync returns, every item of the task has run exactly once, whatever the
\* workers' speeds: no item is drawn twice by the fetch_add, none is left with a
\* worker that missed the wake-up or the barrier, and none runs after the last
\* worker has reported the generation.
THEOREM EveryItemRunsOnce == PoolAssumption => (Spec => []SyncMeansDone)
<1> SUFFICES ASSUME PoolAssumption PROVE Spec => []SyncMeansDone
  OBVIOUS
<1>1. TasksInv => SyncMeansDone
  BY DEF TasksInv, Types, AllRan, SyncMeansDone
<1> QED BY <1>1, TasksAlways, PTL

\* No item of a phase runs before every item of the phases before it has: a
\* worker that passes two barriers before a slow one has left the first does not
\* let anyone through early, though count and sense are two separate stores.
THEOREM PhasesStayInOrder == PoolAssumption => (Spec => []PhasesInOrder)
<1> SUFFICES ASSUME PoolAssumption PROVE Spec => []PhasesInOrder
  OBVIOUS
<1>1. TasksInv => PhasesInOrder
  <2> SUFFICES ASSUME TasksInv, NEW w \in Workers, pc[w] = "work",
                      NEW p \in Phases, p < phase[w], NEW i \in DOMAIN ran[p]
               PROVE  ran[p][i] = 1
    BY DEF PhasesInOrder
  <2>1. PICK K \in Phases : Round(K)
    BY DEF TasksInv, Quiet, Outside
  <2>2. phase[w] = K
    BY <2>1, InRound DEF TasksInv, Body
  <2>3. i \in 0 .. Items[p] - 1
    BY DEF TasksInv, Types
  <2> QED BY <2>1, <2>2, <2>3 DEF Round, Counted
<1> QED BY <1>1, TasksAlways, PTL

\* submit resets the counters without a lock: nobody is inside a task then, and
\* whoever is inside one runs the generation that was published last.
THEOREM NobodyIsLeftBehind == PoolAssumption => (Spec => []NobodyLeftBehind)
<1> SUFFICES ASSUME PoolAssumption PROVE Spec => []NobodyLeftBehind
  OBVIOUS
<1>1. TasksInv => NobodyLeftBehind
  <2> SUFFICES ASSUME TasksInv, NEW w \in Workers, InBody(w)
               PROVE  my_gen[w] = cur_gen /\ caller \in {"notify", "sync", "falling", "asleep"}
    BY DEF NobodyLeftBehind
  <2>1. Waiting
    BY DEF TasksInv, Quiet, Outside, InBody
  <2>2. PICK K \in Phases : Round(K)
    BY <2>1 DEF TasksInv
  <2>3. Started(w)
    BY <2>2, InRound DEF TasksInv, InBody, Body
  <2> QED BY <2>1, <2>3 DEF Started, Waiting
<1> QED BY <1>1, TasksAlways, PTL

\* submit and sync together: a task that was synced ran every item once and in the order of
\* its phases, and left no worker behind.
THEOREM TasksAlwaysRunOnce == PoolAssumption => (Spec => []TasksRunOnce)
<1>1. SyncMeansDone /\ PhasesInOrder /\ NobodyLeftBehind => TasksRunOnce
  BY DEF TasksRunOnce
<1> QED BY <1>1, EveryItemRunsOnce, PhasesStayInOrder, NobodyIsLeftBehind, PTL
=============================================================================
