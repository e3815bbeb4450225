---------------------------- MODULE MCFrontend ----------------------------
(***************************************************************************)
(* Four instances of Frontend in one state space for TLC: a behaviour      *)
(* picks one and runs it alone.  "drain" has the constants of the          *)
(* configuration; the others have one request and differ as stated.        *)
(***************************************************************************)
EXTENDS Frontend

CONSTANTS u1, u2, u3
VARIABLE instance

\* Requests of "drain" are interchangeable; the other instances have u3.
DrainSymmetry == Permutations(Uids)

\* A stop that is refused and tried again, a backend that may die, a queue that raises.
Retry == INSTANCE Frontend
            WITH Uids <- {u3}, MaxTokens <- 2, MaxStops <- 2, MayCrash <- TRUE, SendFails <- TRUE

\* Rebuilds against stops and a death.
Rebuilder == INSTANCE Frontend
            WITH Uids <- {u3}, MaxRebuilds <- 2, MaxStops <- 2, MayCrash <- TRUE,
                 Reorders <- FALSE

\* The supervisor thread switches inside the callbacks of the loop.
Threads == INSTANCE Frontend
            WITH Uids <- {u3}, MaxRebuilds <- 1, MayCrash <- TRUE, Reorders <- FALSE,
                 SendFails <- TRUE, Preempts <- TRUE

OneInit ==
    \/ instance = "drain"      /\ Init
    \/ instance = "retry"      /\ Retry!Init
    \/ instance = "rebuilding" /\ Rebuilder!Init
    \/ instance = "threads"    /\ Threads!Init

OneNext ==
    /\ \/ instance = "drain"      /\ Next
       \/ instance = "retry"      /\ Retry!Next
       \/ instance = "rebuilding" /\ Rebuilder!Next
       \/ instance = "threads"    /\ Threads!Next
    /\ UNCHANGED instance

OneSpec == OneInit /\ [][OneNext]_<<vars, instance>>

-----------------------------------------------------------------------------
(* The snapshot that prepare-stop hands to the daemon holds every token    *)
(* the backend admitted or sampled and none follows; admission stays shut  *)
(* after it; what the backend may still work on is waited for              *)
(* (SealedIsFinal, SealedMeansShut, BusyIsInflight).                       *)
StopIsFinal ==
    /\ instance = "drain" => SealedIsFinal /\ SealedMeansShut /\ BusyIsInflight
    /\ instance = "retry" => Retry!SealedIsFinal /\ Retry!SealedMeansShut

(* A client that saw the end of its stream saw all the backend sent, and   *)
(* nothing of a request that is over stays in ack_map and event_map        *)
(* (StreamComplete, AckMapBounded).                                        *)
StreamsWhole ==
    /\ instance = "drain" => StreamComplete /\ AckMapBounded
    /\ instance = "retry" => Retry!StreamComplete /\ Retry!AckMapBounded

(* Workers that shutdown() ends are not latched as a crash; a shut gate is *)
(* opened by no step but a store or a rollback that was under way, though  *)
(* the threads switch inside their callbacks, and by none where they do    *)
(* not; a latched death outranks a rebuild's reply                         *)
(* (StopIsNotACrash, StaysShut, StaysDead, DeadNeverServes).               *)
GateHolds ==
    /\ [](instance = "rebuilding" => StopIsNotACrash /\ DeadNeverServes)
    /\ [](instance = "threads" => StopIsNotACrash)
    /\ [][/\ instance = "drain" => StaysShut /\ StaysDead
          /\ instance = "retry" => Retry!StaysShut /\ Retry!StaysDead
          /\ instance = "rebuilding" => Rebuilder!StaysShut /\ Rebuilder!StaysDead
          /\ instance = "threads" => Threads!StaysShut /\ Threads!StaysDead]_vars
=============================================================================
