------------------------------- MODULE MCCache -------------------------------
(***************************************************************************)
(* Model-checking instance of Cache.                                       *)
(***************************************************************************)
EXTENDS Cache, TLC

MCLength == [v \in Values |-> IF v = "long" THEN 3 ELSE 1]

DataSymmetry == Permutations(Eager) \cup Permutations(Data \ Eager)
=============================================================================
