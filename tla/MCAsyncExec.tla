----------------------------- MODULE MCAsyncExec -----------------------------
(* Model-checking instance of AsyncExec: the units are interchangeable. *)
EXTENDS AsyncExec, TLC

UnitSymmetry == Permutations(Units)
=============================================================================
