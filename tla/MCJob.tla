-------------------------------- MODULE MCJob --------------------------------
(* Model-checking instance of Job: two tasks, one of which puts the other;   *)
(* jobs that reload checkpoints and jobs whose workers have services.        *)
EXTENDS Job

MCTypeOf == [t \in Tasks |-> IF t = "first" THEN WORK ELSE 1]
MCParentOf == [t \in Tasks |-> IF t = "first" THEN None ELSE "first"]
\* A service that obeys may take longer than anyone waits for it, and so do what one
\* that ignores the signal does.
MCAsked == {[reload |-> "bad", service |-> "none"], [reload |-> "good", service |-> "none"],
            [reload |-> "none", service |-> "obeys"]}
=============================================================================
