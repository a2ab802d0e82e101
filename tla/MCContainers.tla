---------------------------- MODULE MCContainers ----------------------------
(* Model-checking instance of Containers: several statements race for one  *)
(* nested array, another array is inserted whole, both are read.           *)
EXTENDS Containers

MCSubOf == [t \in Statements |-> IF t \in Plain \cup Checkers THEN "s2" ELSE "s1"]
=============================================================================
