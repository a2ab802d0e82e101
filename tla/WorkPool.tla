------------------------------- MODULE WorkPool -------------------------------
(***************************************************************************)
(* What an asynchronous executor worker promises the rest of the program,  *)
(* with no requests, buffers, polls or callbacks in sight: units arrive,   *)
(* at most Slots of them run at a time, each runs once, and the pool       *)
(* closes, normally only when nothing is waiting or running.               *)
(***************************************************************************)
EXTENDS Integers, FiniteSets

CONSTANTS Units, Slots, Premature

VARIABLES status, closed

vars == <<status, closed>>

With(s) == {u \in Units : status[u] = s}

Init == status = [u \in Units |-> "fresh"] /\ closed = FALSE

\* Units in P arrive, and those in U move on to state s.
Step(P, U, s) ==
  /\ P \subseteq With("fresh")
  /\ status' = [u \in Units |-> IF u \in P THEN "waiting"
                                ELSE IF u \in U THEN s ELSE status[u]]

Arrive(P) == Step(P, {}, "waiting") /\ UNCHANGED closed

\* Running a unit may make others available.
Begin(u, P) ==
  /\ ~closed /\ u \in With("waiting")
  /\ Cardinality(With("running")) < Slots
  /\ Step(P, {u}, "running")
  /\ UNCHANGED closed

Finish(u, P) ==
  /\ ~closed /\ u \in With("running") \cup With("waiting")
  /\ Step(P, {u}, "done")
  /\ UNCHANGED closed

Close ==
  /\ ~closed
  /\ Premature \/ With("waiting") \cup With("running") = {}
  /\ Step({}, With("running"), "dropped")
  /\ closed' = TRUE

Next ==
  \/ \E P \in SUBSET Units : Arrive(P) \/ \E u \in Units : Begin(u, P) \/ Finish(u, P)
  \/ Close

Spec == Init /\ [][Next]_vars
=============================================================================
