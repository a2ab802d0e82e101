------------------------------- MODULE DeepWait -------------------------------
(***************************************************************************)
(* deeprule (code/lib/container.tcl): run an action once its inputs are    *)
(* closed together with everything they contain, at any depth.             *)
(*                                                                         *)
(* A container closes when nobody will insert into it any more; what it    *)
(* contains closes in its own time.  deeprule follows the contents with a  *)
(* rule for each container it meets, and passes the news upwards through   *)
(* void data, the signals: set by one rule, waited for by another, freed   *)
(* by the one that waited.  The rules are tasks on any rank and interleave *)
(* with each other and with the program that fills the containers.         *)
(*                                                                         *)
(* A signal is named here after the node it was allocated for, since no    *)
(* node is under two containers and no two signals for one node are alive  *)
(* together.  A closed container enumerates the same members every time,   *)
(* so the chunks it is read in are not told apart.                         *)
(***************************************************************************)
EXTENDS Integers, Sequences, FiniteSets, Functions

CONSTANTS
  Nodes,   \* the data: containers, structs and futures
  Level,   \* levels of containers from each node down; 0 for no container
  Base,    \* what is innermost: "ref", "struct_ref" or "scalar"
  Field,   \* of a struct with a reference inside: what it refers to
  Inputs,  \* what deeprule is called on
  None

Bases == {"ref", "struct_ref", "scalar"}

ASSUME NodesAssumption == IsFiniteSet(Nodes) /\ None \notin Nodes /\ Inputs \subseteq Nodes
ASSUME ShapeAssumption ==
  /\ Level \in [Nodes -> Nat] /\ Base \in [Nodes -> Bases]
  /\ Field \in [Nodes -> Nodes \cup {None}]
  /\ \A n \in Nodes : Level[n] = 0 /\ Base[n] = "struct_ref" => Field[n] # None
  /\ \A n \in Nodes : Field[n] # None => Level[Field[n]] = 0 /\ Base[Field[n]] = "ref"

VARIABLES
  members,  \* data store: members of each container, as it enumerates them
  closed,   \* data store: the data that are closed
  phase,    \* of the deeprule: "start", "wait", "run"
  stage,    \* the rule or the running body that looks after each node
  out,      \* the signal it is to set
  at,       \* container_deep_wait_iterate: progress
  rd, wr    \* reference counts of the signal of each node

tree == <<members, closed>>
vars == <<tree, phase, stage, out, at, rd, wr>>

Init ==
  /\ members = [n \in Nodes |-> << >>] /\ closed = {}
  /\ phase = "start"
  /\ stage = [n \in Nodes |-> "idle"] /\ out = [n \in Nodes |-> None]
  /\ at = [n \in Nodes |-> 0]
  /\ rd = [n \in Nodes |-> 0] /\ wr = [n \in Nodes |-> 0]

-----------------------------------------------------------------------------
(* Signals. *)

\* allocate void: one reference of each kind.
Allocate(S) ==
  /\ rd' = [n \in Nodes |-> IF n \in S THEN rd[n] + 1 ELSE rd[n]]
  /\ wr' = [n \in Nodes |-> IF n \in S THEN wr[n] + 1 ELSE wr[n]]

\* store_void
StoreVoid(s) == wr' = [wr EXCEPT ![s] = @ - 1]

\* deeprule_finish, free_allocated_signals: read_refcount_decr
Free(S) == rd' = [n \in Nodes |-> IF n \in S THEN rd[n] - 1 ELSE rd[n]]

SignalClosed(n) == wr[n] = 0

\* deeprule_basetype_signal allocates for a struct with references inside.
Allocated(n) == IF Level[n] = 0 /\ Base[n] # "struct_ref" THEN {} ELSE {n}

\* What a rule on node n waits for: the node itself or its signal.
Ready(n) ==
  \/ Level[n] = 0 /\ Base[n] = "scalar"
  \/ Level[n] = 0 /\ Base[n] = "ref" /\ n \in closed
  \/ (Level[n] > 0 \/ Base[n] = "struct_ref") /\ SignalClosed(n)

\* A rule for each node of S, to set the signal of the node itself.
Watch(S) ==
  /\ stage' = [n \in Nodes |-> IF n \in S THEN "wait" ELSE stage[n]]
  /\ out' = [n \in Nodes |-> IF n \in S THEN n ELSE out[n]]

-----------------------------------------------------------------------------
(* deeprule and its action. *)

InputSignals == UNION {Allocated(i) : i \in Inputs}

DeepRule ==
  /\ phase = "start"
  /\ phase' = "wait"
  /\ Allocate(InputSignals)
  /\ Watch(InputSignals)
  /\ UNCHANGED <<tree, at>>

\* deeprule_action
RunAction ==
  /\ phase = "wait"
  /\ \A i \in Inputs : Ready(i)
  /\ phase' = "run"
  /\ Free(InputSignals)
  /\ UNCHANGED <<tree, stage, out, at, wr>>

-----------------------------------------------------------------------------
(* container_deep_wait and what follows when the container has closed. *)

Kids(n) == Range(members[n])

\* The rule on the container.
ContainerClosed(n) == stage[n] = "wait" /\ Level[n] > 0 /\ n \in closed

\* Values inside: nothing more to wait for.
ScalarsClosed(n) ==
  /\ ContainerClosed(n)
  /\ Level[n] = 1 /\ Base[n] = "scalar"
  /\ stage' = [stage EXCEPT ![n] = "done"]
  /\ StoreVoid(out[n])
  /\ UNCHANGED <<tree, phase, out, at, rd>>

StartIterate(n) ==
  /\ ContainerClosed(n)
  /\ Level[n] = 1 /\ Base[n] # "scalar"
  /\ stage' = [stage EXCEPT ![n] = "iterate"]
  /\ UNCHANGED <<tree, phase, out, at, rd, wr>>

\* container_rec_deep_wait: empty
RecEmpty(n) ==
  /\ ContainerClosed(n)
  /\ Level[n] > 1 /\ Kids(n) = {}
  /\ stage' = [stage EXCEPT ![n] = "done"]
  /\ StoreVoid(out[n])
  /\ UNCHANGED <<tree, phase, out, at, rd>>

\* Faulty: the one member is left to set the signal, and the container sets it too.
RecOneBoth(n) ==
  /\ ContainerClosed(n)
  /\ Level[n] > 1 /\ Len(members[n]) = 1
  /\ LET kid == members[n][1] IN
     /\ stage' = [stage EXCEPT ![n] = "done", ![kid] = "wait"]
     /\ out' = [out EXCEPT ![kid] = out[n]]
     /\ StoreVoid(out[n])
  /\ UNCHANGED <<tree, phase, at, rd>>

\* One member: it takes over the signal.
RecOne(n) ==
  /\ ContainerClosed(n)
  /\ Level[n] > 1 /\ Len(members[n]) = 1
  /\ LET kid == members[n][1] IN
     /\ stage' = [stage EXCEPT ![n] = "done", ![kid] = "wait"]
     /\ out' = [out EXCEPT ![kid] = out[n]]
  /\ UNCHANGED <<tree, phase, at, rd, wr>>

\* Several members, each with a signal of its own, and a rule on all of them.
RecMany(n) ==
  /\ ContainerClosed(n)
  /\ Level[n] > 1 /\ Len(members[n]) > 1
  /\ Allocate(Kids(n))
  /\ stage' = [m \in Nodes |-> IF m = n THEN "fire" ELSE IF m \in Kids(n) THEN "wait" ELSE stage[m]]
  /\ out' = [m \in Nodes |-> IF m \in Kids(n) THEN m ELSE out[m]]
  /\ UNCHANGED <<tree, phase, at>>

\* Faulty: the inner signals are not freed.
FireKeeps(n) ==
  /\ stage[n] = "fire"
  /\ \A m \in Kids(n) : SignalClosed(m)
  /\ stage' = [stage EXCEPT ![n] = "done"]
  /\ StoreVoid(out[n])
  /\ UNCHANGED <<tree, phase, out, at, rd>>

\* deeprule_fire_signal
Fire(n) ==
  /\ stage[n] = "fire"
  /\ \A m \in Kids(n) : SignalClosed(m)
  /\ stage' = [stage EXCEPT ![n] = "done"]
  /\ Free(Kids(n))
  /\ StoreVoid(out[n])
  /\ UNCHANGED <<tree, phase, out, at>>

-----------------------------------------------------------------------------
(* container_deep_wait_iterate: the members one after the other. *)

Member(n) == members[n][at[n] + 1]

\* Every member has been seen closed.
IterDone(n) ==
  /\ stage[n] = "iterate" /\ at[n] >= Len(members[n])
  /\ stage' = [stage EXCEPT ![n] = "done"]
  /\ StoreVoid(out[n])
  /\ UNCHANGED <<tree, phase, out, at, rd>>

\* deeprule_basetype_signal of the next member, which may start a rule.
IterLook(n) ==
  /\ stage[n] = "iterate" /\ at[n] < Len(members[n])
  /\ LET new == Allocated(Member(n)) IN
     /\ Allocate(new)
     /\ stage' = [m \in Nodes |-> IF m = n THEN "check" ELSE IF m \in new THEN "wait" ELSE stage[m]]
     /\ out' = [m \in Nodes |-> IF m \in new THEN m ELSE out[m]]
  /\ UNCHANGED <<tree, phase, at>>

\* adlb::closed says yes: on to the next member.
IterNext(n) ==
  /\ stage[n] = "check" /\ Ready(Member(n))
  /\ stage' = [stage EXCEPT ![n] = "iterate"]
  /\ at' = [at EXCEPT ![n] = @ + 1]
  /\ Free(Allocated(Member(n)))
  /\ UNCHANGED <<tree, phase, out, wr>>

\* Faulty: no rule to come back.
SuspendForgets(n) ==
  /\ stage[n] = "check" /\ ~Ready(Member(n))
  /\ stage' = [stage EXCEPT ![n] = "done"]
  /\ UNCHANGED <<tree, phase, out, at, rd, wr>>

\* It says no: a rule to come back.
IterSuspend(n) ==
  /\ stage[n] = "check" /\ ~Ready(Member(n))
  /\ stage' = [stage EXCEPT ![n] = "suspend"]
  /\ UNCHANGED <<tree, phase, out, at, rd, wr>>

\* Faulty: does not wait for the member it was suspended on.
ResumeSkips(n) ==
  /\ stage[n] = "suspend"
  /\ stage' = [stage EXCEPT ![n] = "iterate"]
  /\ at' = [at EXCEPT ![n] = @ + 1]
  /\ Free(Allocated(Member(n)))
  /\ UNCHANGED <<tree, phase, out, wr>>

\* The member's signal has closed: free it and look at the member again.
IterResume(n) ==
  /\ stage[n] = "suspend" /\ Ready(Member(n))
  /\ stage' = [stage EXCEPT ![n] = "iterate"]
  /\ Free(Allocated(Member(n)))
  /\ UNCHANGED <<tree, phase, out, at, wr>>

-----------------------------------------------------------------------------
(* struct_ref_rec_deep_wait: first the struct, then the reference in it. *)

StructReady(n) ==
  /\ stage[n] = "wait" /\ Level[n] = 0 /\ n \in closed
  /\ stage' = [stage EXCEPT ![n] = "field"]
  /\ UNCHANGED <<tree, phase, out, at, rd, wr>>

FieldClosed(n) ==
  /\ stage[n] = "field" /\ Field[n] \in closed
  /\ stage' = [stage EXCEPT ![n] = "done"]
  /\ StoreVoid(out[n])
  /\ UNCHANGED <<tree, phase, out, at, rd>>

-----------------------------------------------------------------------------
(* The program that assigns the data. *)

Placed == Inputs \cup UNION {Kids(c) : c \in Nodes} \cup {Field[n] : n \in Nodes}

Insert(c, n) ==
  /\ c \notin closed /\ Level[c] > 0 /\ Level[n] = Level[c] - 1 /\ Base[n] = Base[c]
  /\ (Level[n] = 0 => Base[n] # "scalar") /\ n \notin Placed
  /\ members' = [members EXCEPT ![c] = Append(@, n)]
  /\ UNCHANGED <<closed, phase, stage, out, at, rd, wr>>

Close(n) ==
  /\ n \notin closed
  /\ closed' = closed \cup {n}
  /\ UNCHANGED <<members, phase, stage, out, at, rd, wr>>

-----------------------------------------------------------------------------
Follow(n) ==
  \/ ScalarsClosed(n) \/ StartIterate(n) \/ RecEmpty(n) \/ RecOne(n) \/ RecMany(n)
  \/ Fire(n) \/ IterDone(n) \/ IterLook(n) \/ IterNext(n) \/ IterSuspend(n)
  \/ IterResume(n) \/ StructReady(n) \/ FieldClosed(n)

Ended == phase = "run" /\ closed = Nodes /\ UNCHANGED vars

Next ==
  \/ DeepRule \/ RunAction \/ Ended
  \/ \E n \in Nodes : Follow(n) \/ Close(n)
  \/ \E c, n \in Nodes : Insert(c, n)

Spec == Init /\ [][Next]_vars

\* Ranks run the tasks released to them, and the program assigns its data.
FairSpec ==
  /\ Spec /\ WF_vars(DeepRule) /\ WF_vars(RunAction)
  /\ \A n \in Nodes : WF_vars(Follow(n)) /\ WF_vars(Close(n))

-----------------------------------------------------------------------------
(* Properties. *)

Stages == {"idle", "wait", "fire", "iterate", "check", "suspend", "field", "done"}

\* The values the variables take; no reference count goes below zero.
TypeOK ==
  /\ members \in [Nodes -> Seq(Nodes)] /\ closed \in SUBSET Nodes
  /\ phase \in {"start", "wait", "run"}
  /\ stage \in [Nodes -> Stages] /\ out \in [Nodes -> Nodes \cup {None}]
  /\ at \in [Nodes -> Nat]
  /\ rd \in [Nodes -> Nat] /\ wr \in [Nodes -> Nat]

\* T holds all that is inside its members.
Contained(T) ==
  \A n \in T : Kids(n) \subseteq T /\ (Base[n] = "struct_ref" /\ Level[n] = 0 => Field[n] \in T)

DeepClosed(n) == \E T \in SUBSET closed : n \in T /\ Contained(T)

(***************************************************************************)
(* The action runs only when each input is closed with all it contains,    *)
(* however the containers grew and closed while the rules were following   *)
(* them.                                                                   *)
(***************************************************************************)
RunsWhenDeepClosed ==
  phase = "run" => \A i \in Inputs : DeepClosed(i) \/ (Level[i] = 0 /\ Base[i] = "scalar")

Owes(n) == stage[n] \in Stages \ {"idle", "done"}

(***************************************************************************)
(* A signal that is not set yet is owed by exactly one pending rule or     *)
(* running body, and one that is set by none: it is never set twice and    *)
(* never forgotten, also where a single member takes over its container's. *)
(***************************************************************************)
OneSetter ==
  \A s \in Nodes : /\ wr[s] = Cardinality({n \in Nodes : Owes(n) /\ out[n] = s})
                   /\ wr[s] <= 1

(***************************************************************************)
(* A signal lives until whoever waits for it has seen it, and no longer:   *)
(* when the action runs every signal allocated on the way is freed.        *)
(***************************************************************************)
SignalsFreed ==
  /\ \A s \in Nodes : rd[s] <= 1 /\ wr[s] <= rd[s]
  /\ phase = "run" => \A s \in Nodes : rd[s] = 0

(***************************************************************************)
(* "Check for container contents being closed and once true, set signal"   *)
(* (comment on container_deep_wait): the action runs in the end.           *)
(***************************************************************************)
DeepWaitFires == <>(phase = "run")

=============================================================================
