----------------------------- MODULE MCDeepWait -----------------------------
(* Model-checking instance of DeepWait: an array of arrays, a container of *)
(* values, a struct with a reference inside and a plain future.            *)
EXTENDS DeepWait, TLC

CONSTANTS Outer, Inner, Refs, Scalars, Structs, StructArrays, StructFields

MCNodes == UNION {Outer, Inner, Refs, Scalars, Structs, StructArrays, StructFields}

MCLevel ==
  [n \in MCNodes |-> CASE n \in Outer -> 2
                       [] n \in Inner \cup Scalars \cup StructArrays -> 1
                       [] OTHER -> 0]
MCBase ==
  [n \in MCNodes |-> CASE n \in Scalars -> "scalar"
                       [] n \in Structs \cup StructArrays -> "struct_ref"
                       [] OTHER -> "ref"]
MCField ==
  [n \in MCNodes |-> IF n \in Structs THEN CHOOSE f \in StructFields : TRUE ELSE None]

MemberSymmetry == Permutations(Inner) \cup Permutations(Refs \ Inputs)
=============================================================================
