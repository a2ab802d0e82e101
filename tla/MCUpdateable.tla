---------------------------- MODULE MCUpdateable ----------------------------
(* Model-checking instance of Updateable: two updates that do not commute *)
(* and one that may have nothing to store.                                *)
EXTENDS Updateable

MCOp == [u \in Updates |-> CASE u = "a" -> "incr" [] u = "b" -> "scale" [] OTHER -> "min"]
MCArg == [u \in Updates |-> CASE u = "a" -> 2 [] u = "b" -> 3 [] OTHER -> 4]
=============================================================================
