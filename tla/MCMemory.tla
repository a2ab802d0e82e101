------------------------------ MODULE MCMemory ------------------------------
(***************************************************************************)
(* Model-checking instance of what a worker keeps in its own memory: the   *)
(* cache of values, and the blobs and the subscripts of handles.  The two  *)
(* share no variable and each property is about one of them, so it is      *)
(* enough to let them run one at a time.                                   *)
(***************************************************************************)
EXTENDS MCCache, MCCommands

MemoryInit == Init /\ CommandsInit

MemoryNext ==
  \/ CommandsInit /\ Next /\ UNCHANGED commandsVars
  \/ Init /\ CommandsNext /\ UNCHANGED vars

MemorySpec == MemoryInit /\ [][MemoryNext]_<<vars, commandsVars>>
=============================================================================
