------------------------------ MODULE RunLife ------------------------------
(***************************************************************************)
(* What a generation run promises to the screens that follow it            *)
(* (packages/pathgen/src/run/generation-run.ts:96-104, the handle): a run  *)
(* goes on, pauses and is taken up again any number of times, and ends     *)
(* once.  It is cancelled because somebody asked, and one that was asked to*)
(* stop neither completes nor fails.  Stages, pools, batches, answers and  *)
(* budgets are GenerationRun's.                                            *)
(***************************************************************************)
CONSTANT Runs

VARIABLE life       \* where each run is

Ended == {"completed", "failed", "cancelled"}
Going == {"going", "stopping"}
Lives == {"new", "paused"} \cup Going \cup Ended

Init == life = [r \in Runs |-> "new"]

Moves(r, from, to) ==
    /\ life[r] \in from
    /\ life' = [life EXCEPT ![r] = to]

(* start, resume and cancel, as the user asks for them.                    *)
Go(r) == Moves(r, {"new", "paused"}, "going")
AskToStop(r) == Moves(r, {"going"}, "stopping")
Close(r) == Moves(r, {"paused"}, "cancelled")

(* A pause on the budget may meet a cancellation, and win.                 *)
Pause(r) == Moves(r, Going, "paused")

Complete(r) == Moves(r, {"going"}, "completed")
Fail(r) == Moves(r, {"going"}, "failed")
Stop(r) == Moves(r, {"stopping"}, "cancelled")

(* The process dies: nothing goes on, and nothing that ended begins again. *)
Crash ==
    /\ life' \in [Runs -> Lives \ Going]
    /\ \A r \in Runs :
         IF life[r] \in Going THEN life'[r] \in {"new", "paused"}
         ELSE life'[r] = life[r]

Next ==
    \/ \E r \in Runs :
         \/ Go(r) \/ AskToStop(r) \/ Close(r) \/ Pause(r)
         \/ Complete(r) \/ Fail(r) \/ Stop(r)
    \/ Crash

Spec == Init /\ [][Next]_life
=============================================================================
