------------------------------ MODULE UpdateCell ------------------------------
(***************************************************************************)
(* What updateable variables promise: each update is applied to the cell   *)
(* in one indivisible step, once, while the cell is open; once it has been *)
(* closed its value is final and no update is outstanding.                 *)
(***************************************************************************)
EXTENDS Integers

CONSTANTS Updates, Empty, Start, Combine(_, _)

VARIABLES
  cell,     \* the value, Empty before initialisation
  applied,  \* updates that have taken effect
  wanted,   \* updates asked for
  open

Init == cell = Empty /\ applied = {} /\ wanted = {} /\ open = TRUE

Initialise ==
  /\ cell = Empty
  /\ cell' = Start
  /\ UNCHANGED <<applied, wanted, open>>

Ask(u) ==
  /\ open /\ u \notin wanted
  /\ wanted' = wanted \cup {u}
  /\ UNCHANGED <<cell, applied, open>>

Apply(u) ==
  /\ open /\ u \in wanted \ applied
  /\ cell' = Combine(u, cell)
  /\ applied' = applied \cup {u}
  /\ UNCHANGED <<wanted, open>>

Close ==
  /\ open /\ wanted = applied
  /\ open' = FALSE
  /\ UNCHANGED <<cell, applied, wanted>>

Next == Initialise \/ Close \/ \E u \in Updates : Ask(u) \/ Apply(u)

Spec == Init /\ [][Next]_<<cell, applied, wanted, open>>
=============================================================================
