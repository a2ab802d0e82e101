---------------------------- MODULE DeepWaitProofs ----------------------------
(***************************************************************************)
(* Proofs about DeepWait, for every set of data, of whatever nesting, and  *)
(* every order in which the program fills and closes them.                 *)
(***************************************************************************)
EXTENDS DeepWait, FiniteSetTheorems, WellFoundedInduction, TLAPS

-----------------------------------------------------------------------------
(* The inductive invariant. *)

Positions(c) == 1 .. Len(members[c])

\* The data are a forest: nothing is in two places, and containers nest as
\* their types say.
TreeInv ==
  /\ \A c \in Nodes : \A i \in Positions(c) :
       /\ Level[c] > 0 /\ Level[members[c][i]] = Level[c] - 1
       /\ Base[members[c][i]] = Base[c] /\ members[c][i] \notin Inputs
       /\ Level[members[c][i]] = 0 => Base[c] # "scalar"
  /\ \A c, d \in Nodes : \A i \in Positions(c), j \in Positions(d) :
       members[c][i] = members[d][j] => c = d /\ i = j

\* deeprule has signals for containers and for structs with references inside.
Watchable(n) == Level[n] > 0 \/ Base[n] = "struct_ref"

\* Each stage is one of the node's kind, and past "wait" the node is closed.
ShapeInv ==
  \A n \in Nodes :
    /\ stage[n] # "idle" => Watchable(n)
    /\ stage[n] \notin {"idle", "wait"} => n \in closed
    /\ stage[n] \in {"idle", "wait"} => at[n] = 0
    /\ stage[n] = "fire" => Level[n] > 1
    /\ stage[n] \in {"iterate", "check", "suspend"} => Level[n] = 1 /\ Base[n] # "scalar"
    /\ stage[n] \in {"check", "suspend"} => at[n] < Len(members[n])
    /\ stage[n] = "field" => Level[n] = 0

\* Whoever is to set a signal holds its one write reference.
OutInv ==
  /\ \A n \in Nodes : Owes(n) =>
       /\ out[n] \in Nodes /\ wr[out[n]] = 1 /\ Level[n] <= Level[out[n]]
       /\ Level[n] = 0 => out[n] = n
  /\ \A m, n \in Nodes : Owes(m) /\ Owes(n) /\ out[m] = out[n] => m = n
  /\ \A s \in Nodes : wr[s] # 0 => \E n \in Nodes : Owes(n) /\ out[n] = s

\* Somebody waits for the signal of s: the action, or the rule of its container.
Waited(s) ==
  \/ phase = "wait" /\ s \in InputSignals
  \/ \E c \in Nodes : stage[c] = "fire" /\ s \in Kids(c)
  \/ \E c \in Nodes : stage[c] \in {"check", "suspend"} /\ s \in Allocated(Member(c))

\* A signal has a read reference while it is waited for.
WaitInv ==
  \A s \in Nodes : rd[s] = (IF Waited(s) THEN 1 ELSE 0) /\ wr[s] <= rd[s]

\* What is followed is an input or in a container that has been followed.
FollowInv ==
  /\ phase = "start" => \A n \in Nodes : stage[n] = "idle"
  /\ phase # "start" => \A i \in InputSignals : stage[i] # "idle"
  /\ \A n \in Nodes : stage[n] # "idle" =>
       n \in Inputs \/ \E c \in Nodes : n \in Kids(c) /\ stage[c] \notin {"idle", "wait"}

\* A member that the iteration has passed.
Seen(m) == IF Base[m] = "struct_ref" THEN stage[m] = "done" ELSE m \in closed

\* Nothing was left out on the way.
DoneInv ==
  \A n \in Nodes :
    /\ \A i \in 1 .. at[n] : i <= Len(members[n]) /\ Seen(members[n][i])
    /\ stage[n] \in {"fire", "done"} /\ Level[n] > 1 => \A m \in Kids(n) : stage[m] # "idle"
    /\ stage[n] \in {"check", "suspend"} => \A m \in Allocated(Member(n)) : stage[m] # "idle"
    /\ stage[n] = "done" /\ Level[n] = 1 => at[n] = Len(members[n])
    /\ stage[n] = "done" /\ Level[n] = 0 => Field[n] \in closed

\* The action has run: no rule is pending any more.
RunInv ==
  phase = "run" => /\ \A n \in Nodes : ~Owes(n)
                   /\ \A i \in Inputs : Level[i] = 0 /\ Base[i] = "ref" => i \in closed

DInv == /\ TypeOK /\ TreeInv /\ ShapeInv /\ OutInv /\ WaitInv /\ FollowInv /\ DoneInv /\ RunInv

-----------------------------------------------------------------------------
(* Facts about finite sets and about the forest. *)

\* A finite set of numbers that is not empty has a greatest one.
LEMMA FiniteHasMax ==
  ASSUME NEW S, S \subseteq Nat, IsFiniteSet(S), S # {}
  PROVE  \E x \in S : \A y \in S : y <= x
<1> DEFINE HasMax(T) == \E x \in T : \A y \in T : y <= x
           Bad == {T \in FiniteSubsetsOf(S) : T # {} /\ ~HasMax(T)}
<1> SUFFICES ASSUME ~HasMax(S) PROVE FALSE
  OBVIOUS
<1>1. S \in Bad
  BY DEF FiniteSubsetsOf
<1>2. IsWellFoundedOn(StrictSubsetOrdering(S), FiniteSubsetsOf(S))
  BY FS_StrictSubsetOrderingWellFounded
<1>3. PICK T \in Bad : \A U \in Bad : ~ (<<U, T>> \in StrictSubsetOrdering(S))
  <2> HIDE DEF Bad
  <2>1. Bad \subseteq FiniteSubsetsOf(S)
    BY DEF Bad
  <2> QED BY <1>1, <1>2, <2>1, WFMin
<1>4. PICK x \in T : TRUE
  OBVIOUS
<1>5. T \subseteq S /\ IsFiniteSet(T) /\ ~HasMax(T)
  BY DEF FiniteSubsetsOf
<1>6. IsFiniteSet(T \ {x}) /\ T \ {x} \subseteq S
  BY <1>5, FS_RemoveElement
<1>7. CASE T \ {x} = {}
  BY <1>4, <1>5, <1>7
<1>8. CASE T \ {x} # {}
  <2>1. <<T \ {x}, T>> \in StrictSubsetOrdering(S)
    BY <1>4, <1>5 DEF StrictSubsetOrdering
  <2>2. HasMax(T \ {x})
    BY <1>3, <1>6, <1>8, <2>1 DEF FiniteSubsetsOf
  <2>3. PICK y \in T \ {x} : \A z \in T \ {x} : z <= y
    BY <2>2
  <2>4. x \in Nat /\ y \in Nat /\ T \subseteq Nat
    BY <1>4, <1>5
  <2>5. (\A z \in T : z <= x) \/ (\A z \in T : z <= y)
    BY <2>3, <2>4
  <2> QED BY <1>4, <1>5, <2>3, <2>5
<1> QED BY <1>7, <1>8

\* The members of a container are what stands at its positions.
LEMMA KidsArePositions ==
  ASSUME TypeOK, NEW c \in Nodes
  PROVE  /\ Len(members[c]) \in Nat /\ at[c] \in Nat
         /\ \A i \in Positions(c) : members[c][i] \in Nodes /\ members[c][i] \in Kids(c)
         /\ \A m \in Kids(c) : m \in Nodes /\ \E i \in Positions(c) : members[c][i] = m
<1>1. members[c] \in Seq(Nodes) /\ at[c] \in Nat
  BY DEF TypeOK
<1>2. DOMAIN members[c] = Positions(c) /\ Len(members[c]) \in Nat
  BY <1>1 DEF Positions
<1> QED BY <1>1, <1>2 DEF Kids, Range

\* A member has one place, one level below its container.
LEMMA KidFacts ==
  ASSUME TypeOK, TreeInv, NEW c \in Nodes, NEW m \in Kids(c)
  PROVE  /\ m \in Nodes /\ m \notin Inputs
         /\ Level[c] > 0 /\ Level[m] = Level[c] - 1 /\ Base[m] = Base[c]
         /\ Level[m] = 0 => Base[m] # "scalar"
         /\ \A d \in Nodes : m \in Kids(d) => d = c
<1>1. PICK i \in Positions(c) : members[c][i] = m
  BY KidsArePositions
<1>2. ASSUME NEW d \in Nodes, m \in Kids(d) PROVE d = c
  BY <1>1, <1>2, KidsArePositions DEF TreeInv
<1> QED BY <1>1, <1>2, KidsArePositions DEF TreeInv

\* The member the iteration is at; the ones before it are others.
LEMMA MemberFacts ==
  ASSUME TypeOK, TreeInv, NEW c \in Nodes, at[c] < Len(members[c])
  PROVE  /\ Member(c) \in Kids(c)
         /\ \A d \in Nodes : \A i \in 1 .. at[d] : 
              i <= Len(members[d]) => members[d][i] # Member(c)
<1>1. at[c] + 1 \in Positions(c)
  BY KidsArePositions DEF Positions
<1>2. \A d \in Nodes : Len(members[d]) \in Nat /\ at[d] \in Nat
  BY KidsArePositions
<1> QED BY <1>1, <1>2, KidsArePositions DEF Member, TreeInv, Positions

\* Containers and structs with references inside have signals, the rest not.
LEMMA AllocatedIs == 
  ASSUME NEW n \in Nodes
  PROVE  Allocated(n) = IF Watchable(n) THEN {n} ELSE {}
BY ShapeAssumption DEF Allocated, Watchable

LEMMA InputSignalsAre == InputSignals = {i \in Inputs : Watchable(i)}
<1>1. Inputs \subseteq Nodes
  BY NodesAssumption
<1> QED BY <1>1, AllocatedIs DEF InputSignals

-----------------------------------------------------------------------------
LEMMA DInvInit == Init => DInv
<1> SUFFICES ASSUME Init PROVE DInv
  OBVIOUS
<1>1. TypeOK
  BY DEF Init, TypeOK, Stages
<1>2. \A c \in Nodes : members[c] = << >> /\ Len(members[c]) = 0 /\ Positions(c) = {}
  BY DEF Init, Positions
<1>3. TreeInv
  BY <1>2 DEF TreeInv
<1>4. ShapeInv /\ OutInv
  BY DEF Init, ShapeInv, OutInv, Owes
<1>5. WaitInv
  BY DEF Init, WaitInv, Waited
<1>6. FollowInv
  BY DEF Init, FollowInv
<1>7. DoneInv /\ RunInv
  BY DEF Init, DoneInv, RunInv
<1> QED BY <1>1, <1>3, <1>4, <1>5, <1>6, <1>7 DEF DInv

\* A rule does not touch the data.
LEMMA TreeFrame ==
  ASSUME UNCHANGED tree
  PROVE  /\ members' = members /\ closed' = closed
         /\ \A c : Kids(c)' = Kids(c) /\ Positions(c)' = Positions(c)
         /\ TreeInv => TreeInv'
BY DEF tree, Kids, Positions, TreeInv

\* Signals that somebody waits for have been allocated, and others not.
LEMMA SignalCounts ==
  ASSUME DInv, NEW s \in Nodes
  PROVE  /\ rd[s] \in Nat /\ wr[s] \in Nat /\ wr[s] <= rd[s]
         /\ Waited(s) => rd[s] = 1
         /\ ~Waited(s) => rd[s] = 0 /\ wr[s] = 0
         /\ wr[s] = 0 \/ wr[s] = 1
BY DEF DInv, TypeOK, WaitInv

-----------------------------------------------------------------------------
(* A rule goes on without news. *)

LEMMA MoveDInv ==
  ASSUME DInv, NEW n \in Nodes, StartIterate(n) \/ IterSuspend(n) \/ StructReady(n)
  PROVE  DInv'
<1> USE DEF DInv
<1> DEFINE to == stage'[n]
<1>1. /\ UNCHANGED <<tree, phase, out, at, rd, wr>>
      /\ stage' = [stage EXCEPT ![n] = to] /\ n \in closed
      /\ \/ stage[n] = "wait" /\ to = "iterate" /\ Level[n] = 1 /\ Base[n] # "scalar"
         \/ stage[n] = "check" /\ to = "suspend"
         \/ stage[n] = "wait" /\ to = "field" /\ Level[n] = 0
  BY DEF StartIterate, IterSuspend, StructReady, ContainerClosed, TypeOK, ShapeInv
<1> HIDE DEF to
<1>2. \A m \in Nodes : stage'[m] = IF m = n THEN to ELSE stage[m]
  BY <1>1 DEF TypeOK
<1>3. TypeOK'
  BY <1>1 DEF TypeOK, Stages, tree
<1>4. TreeInv'
  BY <1>1, TreeFrame
<1>5. ShapeInv'
  BY <1>1, <1>2 DEF ShapeInv, Watchable, tree
<1>6. OutInv'
  <2>1. \A m \in Nodes : Owes(m)' = Owes(m)
    BY <1>1, <1>2 DEF Owes, Stages
  <2> QED BY <1>1, <2>1 DEF OutInv
<1>7. WaitInv'
  <2>1. \A s \in Nodes : Waited(s)' = Waited(s)
    BY <1>1, <1>2, TreeFrame DEF Waited, Member, tree
  <2> QED BY <1>1, <2>1 DEF WaitInv
<1>8. FollowInv'
  <2>1. InputSignals \subseteq Nodes
    BY InputSignalsAre, NodesAssumption
  <2> QED BY <1>1, <1>2, <2>1, TreeFrame DEF FollowInv
<1>9. DoneInv'
  <2>1. \A m \in Nodes : Seen(m) => Seen(m)'
    BY <1>1, <1>2 DEF Seen, tree
  <2>2. \A m \in Nodes : at'[m] = at[m] /\ Member(m)' = Member(m)
    BY <1>1 DEF Member, tree
  <2>3. \A m \in Nodes : stage[m] \in {"check", "suspend"} => Allocated(Member(m)) \subseteq Nodes
    BY MemberFacts, KidFacts, AllocatedIs DEF ShapeInv
  <2> QED BY <1>1, <1>2, <2>1, <2>2, <2>3, TreeFrame, KidsArePositions DEF DoneInv, tree, Positions
<1>10. RunInv'
  BY <1>1, <1>2 DEF RunInv, Owes, tree, Stages
<1> QED BY <1>3, <1>4, <1>5, <1>6, <1>7, <1>8, <1>9, <1>10

-----------------------------------------------------------------------------
(* A signal is set. *)

\* The last step of the rule at n: it sets its signal, and frees the ones of F
\* that it has waited for.
Settles(n, F) ==
  /\ Owes(n) /\ stage' = [stage EXCEPT ![n] = "done"] /\ StoreVoid(out[n]) /\ Free(F)
  /\ UNCHANGED <<tree, phase, out, at>>
  /\ n \in closed /\ Watchable(n)
  /\ F = IF stage[n] = "fire" THEN Kids(n) ELSE {}
  /\ \A m \in F : wr[m] = 0
  /\ stage[n] \notin {"check", "suspend"}
  /\ Level[n] > 1 => \A m \in Kids(n) : stage[m] # "idle"
  /\ Level[n] = 1 => at[n] = Len(members[n])
  /\ Level[n] = 0 => Field[n] \in closed

\* No node is its own member, and a rule that waits for members is the only one.
LEMMA FireWaitsAlone ==
  ASSUME DInv, NEW n \in Nodes, stage[n] = "fire", NEW s \in Kids(n)
  PROVE  /\ s \in Nodes /\ s # n /\ s \notin InputSignals
         /\ \A c \in Nodes : stage[c] = "fire" /\ s \in Kids(c) => c = n
         /\ \A c \in Nodes : stage[c] \in {"check", "suspend"} => s \notin Allocated(Member(c))
<1> USE DEF DInv
<1>1. s \in Nodes /\ s \notin Inputs /\ Level[s] = Level[n] - 1 /\ \A d \in Nodes : s \in Kids(d) => d = n
  BY KidFacts
<1>2. s # n
  BY <1>1, ShapeAssumption
<1>3. ASSUME NEW c \in Nodes, stage[c] \in {"check", "suspend"}, s \in Allocated(Member(c)) PROVE FALSE
  <2>1. Member(c) \in Kids(c)
    BY <1>3, MemberFacts DEF ShapeInv
  <2>2. s = Member(c)
    BY <1>3, <2>1, AllocatedIs, KidFacts
  <2> QED BY <1>1, <1>3, <2>1, <2>2
<1> QED BY <1>1, <1>2, <1>3, InputSignalsAre

LEMMA SettlesDInv ==
  ASSUME DInv, NEW n \in Nodes, NEW F \in SUBSET Nodes, Settles(n, F)
  PROVE  DInv'
<1> USE DEF DInv
<1>1. /\ UNCHANGED <<tree, phase, out, at>> /\ n \in closed /\ Watchable(n) /\ Owes(n)
      /\ F = IF stage[n] = "fire" THEN Kids(n) ELSE {}
      /\ \A m \in F : wr[m] = 0
  BY DEF Settles
<1>2. \A m \in Nodes : stage'[m] = IF m = n THEN "done" ELSE stage[m]
  BY DEF Settles, TypeOK
<1>3. out[n] \in Nodes /\ wr[out[n]] = 1
  BY <1>1 DEF OutInv
<1>4. \A s \in Nodes : wr'[s] = IF s = out[n] THEN 0 ELSE wr[s]
  BY <1>3 DEF Settles, StoreVoid, TypeOK
<1>5. \A s \in Nodes : rd'[s] = IF s \in F THEN rd[s] - 1 ELSE rd[s]
  BY DEF Settles, Free
<1>6. \A s \in F : rd[s] = 1
  <2>1. \A s \in F : Waited(s)
    BY <1>1 DEF Waited
  <2> QED BY <2>1, SignalCounts
<1>7. TypeOK'
  <2>1. wr' \in [Nodes -> Nat]
    BY <1>3, <1>4 DEF Settles, StoreVoid, TypeOK
  <2>2. rd' \in [Nodes -> Nat]
    <3>1. \A s \in Nodes : rd[s] \in Nat
      BY DEF TypeOK
    <3>2. \A s \in Nodes : rd'[s] \in Nat
      BY <1>5, <1>6, <3>1
    <3> QED BY <3>2 DEF Settles, Free
  <2> QED BY <1>1, <2>1, <2>2 DEF Settles, TypeOK, Stages, tree
<1>8. TreeInv'
  BY <1>1, TreeFrame
<1>9. ShapeInv'
  BY <1>1, <1>2 DEF ShapeInv, Watchable, tree
<1>10. OutInv'
  <2>1. \A m \in Nodes : Owes(m)' = (Owes(m) /\ m # n)
    BY <1>2 DEF Owes
  <2>2. \A m \in Nodes : Owes(m) /\ m # n => out[m] # out[n]
    BY <1>1 DEF OutInv
  <2> QED BY <1>1, <1>4, <2>1, <2>2 DEF OutInv
<1>11. WaitInv'
  <2>1. \A s \in Nodes \ F : Waited(s)' = Waited(s)
    BY <1>1, <1>2, TreeFrame DEF Waited, Member, tree, Settles
  <2>2. \A s \in F : ~Waited(s)'
    <3> SUFFICES ASSUME NEW s \in F PROVE ~Waited(s)'
      OBVIOUS
    <3>1. stage[n] = "fire" /\ s \in Kids(n)
      BY <1>1
    <3> QED BY <1>1, <1>2, <3>1, FireWaitsAlone, TreeFrame DEF Waited, Member, tree
  <2>3. \A s \in Nodes : wr'[s] <= wr[s] /\ wr'[s] \in Nat
    <3>1. \A s \in Nodes : wr[s] \in Nat
      BY DEF TypeOK
    <3> QED BY <1>3, <1>4, <3>1
  <2>4. ASSUME NEW s \in F PROVE rd'[s] = 0 /\ wr'[s] = 0
    BY <1>1, <1>4, <1>5, <1>6
  <2>5. ASSUME NEW s \in Nodes \ F PROVE rd'[s] = (IF Waited(s) THEN 1 ELSE 0) /\ wr'[s] <= rd'[s]
    BY <1>5, <2>3 DEF WaitInv, TypeOK
  <2> QED BY <2>1, <2>2, <2>4, <2>5 DEF WaitInv
<1>12. FollowInv'
  <2>1. InputSignals \subseteq Nodes
    BY InputSignalsAre, NodesAssumption
  <2> QED BY <1>1, <1>2, <2>1, TreeFrame DEF FollowInv, Owes
<1>13. DoneInv'
  <2>1. \A m \in Nodes : Seen(m) => Seen(m)'
    BY <1>1, <1>2 DEF Seen, tree
  <2>2. \A m \in Nodes : at'[m] = at[m] /\ Member(m)' = Member(m)
    BY <1>1 DEF Member, tree
  <2>3. \A m \in Nodes : stage[m] \in {"check", "suspend"} => Allocated(Member(m)) \subseteq Nodes
    BY MemberFacts, KidFacts, AllocatedIs DEF ShapeInv
  <2> QED BY <1>1, <1>2, <2>1, <2>2, <2>3, TreeFrame, KidsArePositions DEF DoneInv, tree, Positions, Settles
<1>14. RunInv'
  BY <1>1, <1>2 DEF RunInv, Owes, tree
<1> QED BY <1>7, <1>8, <1>9, <1>10, <1>11, <1>12, <1>13, <1>14

\* The steps that set a signal.
LEMMA SettleDInv ==
  ASSUME DInv, NEW n \in Nodes,
         ScalarsClosed(n) \/ RecEmpty(n) \/ IterDone(n) \/ FieldClosed(n) \/ Fire(n)
  PROVE  DInv'
<1> USE DEF DInv
<1>1. rd = [m \in Nodes |-> IF m \in {} THEN rd[m] - 1 ELSE rd[m]]
  BY DEF TypeOK
<1>2. \A i \in 1 .. at[n] : i <= Len(members[n])
  BY DEF DoneInv
<1>3. Len(members[n]) \in Nat /\ at[n] \in Nat
  BY KidsArePositions
<1>4. at[n] <= Len(members[n])
  BY <1>2, <1>3
<1>5. CASE ScalarsClosed(n)
  <2>1. Positions(n) = {}
    BY <1>5 DEF ScalarsClosed, TreeInv
  <2>2. at[n] = Len(members[n])
    BY <1>3, <1>4, <2>1 DEF Positions
  <2>3. Settles(n, {})
    BY <1>1, <1>5, <2>2 DEF ScalarsClosed, Settles, ContainerClosed, Owes, Stages, Free, Watchable
  <2> QED BY <2>3, SettlesDInv
<1>6. CASE RecEmpty(n)
  <2>1. Settles(n, {})
    BY <1>1, <1>6, ShapeAssumption DEF RecEmpty, Settles, ContainerClosed, Owes, Stages, Free, Watchable
  <2> QED BY <2>1, SettlesDInv
<1>7. CASE IterDone(n)
  <2>1. at[n] = Len(members[n])
    BY <1>3, <1>4, <1>7 DEF IterDone
  <2>2. Settles(n, {})
    BY <1>1, <1>7, <2>1 DEF IterDone, Settles, Owes, Stages, Free, Watchable, ShapeInv
  <2> QED BY <2>2, SettlesDInv
<1>8. CASE FieldClosed(n)
  <2>1. Settles(n, {})
    BY <1>1, <1>8 DEF FieldClosed, Settles, Owes, Stages, Free, Watchable, ShapeInv
  <2> QED BY <2>1, SettlesDInv
<1>9. CASE Fire(n)
  <2>1. Kids(n) \in SUBSET Nodes
    BY KidsArePositions
  <2>2. Settles(n, Kids(n))
    BY <1>9, ShapeAssumption DEF Fire, SignalClosed, Settles, Owes, Stages, ShapeInv, DoneInv
  <2> QED BY <2>1, <2>2, SettlesDInv
<1> QED BY <1>5, <1>6, <1>7, <1>8, <1>9

-----------------------------------------------------------------------------
(* Signals are allocated and rules started. *)

\* The rule at n starts one for each member of S, with a signal it waits for.
Spreads(n, S) ==
  /\ stage' = [m \in Nodes |-> IF m = n THEN stage'[n] ELSE IF m \in S THEN "wait" ELSE stage[m]]
  /\ out' = [m \in Nodes |-> IF m \in S THEN m ELSE out[m]]
  /\ Allocate(S)
  /\ UNCHANGED <<tree, phase, at>>
  /\ n \in closed /\ Watchable(n) /\ S \subseteq Kids(n)
  /\ \A s \in S : /\ Watchable(s) /\ ~Owes(s) /\ ~Waited(s) /\ at[s] = 0
                  /\ stage[s] = "idle" \/ Level[s] = 0
  /\ \A d \in Nodes : \A i \in 1 .. at[d] : members[d][i] \notin S
  /\ \/ stage[n] = "wait" /\ stage'[n] = "fire" /\ Level[n] > 1 /\ S = Kids(n)
     \/ /\ stage[n] = "iterate" /\ stage'[n] = "check" /\ at[n] < Len(members[n])
        /\ S = Allocated(Member(n))

LEMMA SpreadsDInv ==
  ASSUME DInv, NEW n \in Nodes, NEW S \in SUBSET Nodes, Spreads(n, S)
  PROVE  DInv'
<1> USE DEF DInv
<1>1. /\ UNCHANGED <<tree, phase, at>> /\ n \in closed /\ S \subseteq Kids(n)
      /\ \A s \in S : /\ Watchable(s) /\ ~Owes(s) /\ ~Waited(s) /\ at[s] = 0
                      /\ stage[s] = "idle" \/ Level[s] = 0
  BY DEF Spreads
<1>2. Owes(n) /\ n \notin S
  <2>1. Owes(n)
    BY DEF Spreads, Owes, Stages
  <2> QED BY <1>1, <2>1
<1>3. \A m \in Nodes : stage'[m] = IF m = n THEN stage'[n] ELSE IF m \in S THEN "wait" ELSE stage[m]
  BY DEF Spreads
<1>4. \A m \in Nodes : out'[m] = IF m \in S THEN m ELSE out[m]
  BY DEF Spreads
<1>5. \A s \in Nodes : rd[s] \in Nat /\ wr[s] \in Nat
  BY DEF TypeOK
<1>6. \A s \in Nodes : /\ rd'[s] = IF s \in S THEN 1 ELSE rd[s]
                       /\ wr'[s] = IF s \in S THEN 1 ELSE wr[s]
  <2>1. \A s \in S : rd[s] = 0 /\ wr[s] = 0
    BY <1>1, SignalCounts
  <2>2. \A s \in Nodes : /\ rd'[s] = IF s \in S THEN rd[s] + 1 ELSE rd[s]
                         /\ wr'[s] = IF s \in S THEN wr[s] + 1 ELSE wr[s]
    BY DEF Spreads, Allocate
  <2> QED BY <2>1, <2>2
<1>7. TypeOK'
  <2>1. rd' \in [Nodes -> Nat] /\ wr' \in [Nodes -> Nat]
    <3>1. \A s \in Nodes : rd'[s] \in Nat /\ wr'[s] \in Nat
      BY <1>5, <1>6
    <3> QED BY <3>1 DEF Spreads, Allocate
  <2>2. out' \in [Nodes -> Nodes \cup {None}]
    BY DEF Spreads, TypeOK
  <2>3. stage' \in [Nodes -> Stages]
    BY DEF Spreads, TypeOK, Stages
  <2> QED BY <1>1, <2>1, <2>2, <2>3 DEF TypeOK, tree
<1>8. TreeInv'
  BY <1>1, TreeFrame
<1>9. ShapeInv'
  BY <1>1, <1>2, <1>3 DEF ShapeInv, Watchable, tree, Spreads
<1>10. OutInv'
  <2>1. \A m \in Nodes : Owes(m)' = (Owes(m) \/ m \in S)
    BY <1>2, <1>3 DEF Owes, Stages, Spreads
  <2>2. \A m \in Nodes : Owes(m) => out[m] \in Nodes \ S
    <3>1. \A s \in S : wr[s] = 0
      BY <1>1, SignalCounts
    <3> QED BY <3>1 DEF OutInv
  <2>3. ASSUME NEW m \in Nodes, Owes(m)'
        PROVE  out'[m] \in Nodes /\ wr'[out'[m]] = 1 /\ Level[m] <= Level[out'[m]]
               /\ (Level[m] = 0 => out'[m] = m)
    <3>1. CASE m \in S
      BY <1>4, <1>6, <3>1, ShapeAssumption
    <3>2. CASE m \notin S
      BY <1>4, <1>6, <2>1, <2>2, <2>3, <3>2 DEF OutInv
    <3> QED BY <3>1, <3>2
  <2>4. ASSUME NEW m \in Nodes, NEW k \in Nodes, Owes(m)', Owes(k)', out'[m] = out'[k] PROVE m = k
    <3>1. CASE m \in S \/ k \in S
      BY <1>1, <1>4, <2>1, <2>2, <2>4, <3>1
    <3>2. CASE m \notin S /\ k \notin S
      BY <1>4, <2>1, <2>4, <3>2 DEF OutInv
    <3> QED BY <3>1, <3>2
  <2>5. ASSUME NEW s \in Nodes, wr'[s] # 0 PROVE \E k \in Nodes : Owes(k)' /\ out'[k] = s
    <3>1. CASE s \in S
      BY <1>4, <2>1, <3>1
    <3>2. CASE s \notin S
      BY <1>1, <1>4, <1>6, <2>1, <2>5, <3>2 DEF OutInv
    <3> QED BY <3>1, <3>2
  <2> QED BY <2>3, <2>4, <2>5 DEF OutInv
<1>11. WaitInv'
  <2>1. \A m \in Nodes : Member(m)' = Member(m)
    BY <1>1 DEF Member, tree
  <2>2. \A m \in S : stage[m] \notin {"fire", "check", "suspend"}
    BY <1>1 DEF Owes, Stages
  <2>3. phase' = phase /\ \A c : Kids(c)' = Kids(c)
    BY <1>1, TreeFrame
  <2>4. \A s \in Nodes : Waited(s)' <=> Waited(s) \/ s \in S
    <3>1. CASE stage'[n] = "fire"
      <4>1. stage[n] = "wait" /\ S = Kids(n)
        BY <3>1 DEF Spreads
      <4> QED BY <1>2, <1>3, <2>1, <2>2, <2>3, <3>1, <4>1 DEF Waited
    <3>2. CASE stage'[n] = "check"
      <4>1. stage[n] = "iterate" /\ S = Allocated(Member(n))
        BY <3>2 DEF Spreads
      <4> QED BY <1>2, <1>3, <2>1, <2>2, <2>3, <3>2, <4>1 DEF Waited
    <3> QED BY <3>1, <3>2 DEF Spreads
  <2>5. ASSUME NEW s \in Nodes PROVE rd'[s] = (IF Waited(s)' THEN 1 ELSE 0) /\ wr'[s] <= rd'[s]
    <3>1. CASE s \in S
      BY <1>6, <2>4, <3>1
    <3>2. CASE s \notin S
      BY <1>6, <2>4, <3>2 DEF WaitInv
    <3> QED BY <3>1, <3>2
  <2> QED BY <2>5 DEF WaitInv
<1>12. FollowInv'
  <2>1. phase # "start" /\ InputSignals \subseteq Nodes
    BY <1>2, InputSignalsAre, NodesAssumption DEF FollowInv, Owes
  <2>2. stage'[n] \notin {"idle", "wait"}
    BY DEF Spreads
  <2>3. \A i \in InputSignals : stage'[i] # "idle"
    BY <1>3, <2>1, <2>2 DEF FollowInv
  <2>4. ASSUME NEW m \in Nodes, stage'[m] # "idle", m \notin Inputs
        PROVE  \E c \in Nodes : m \in Kids(c) /\ stage'[c] \notin {"idle", "wait"}
    <3>1. CASE m \in S
      BY <1>1, <2>2, <3>1
    <3>2. CASE m \notin S
      <4>1. stage[m] # "idle"
        BY <1>2, <1>3, <2>4, <3>2 DEF Owes
      <4>2. PICK c \in Nodes : m \in Kids(c) /\ stage[c] \notin {"idle", "wait"}
        BY <2>4, <4>1 DEF FollowInv
      <4>3. c \notin S
        BY <1>1, <4>2, KidFacts
      <4> QED BY <1>3, <2>2, <4>2, <4>3
    <3> QED BY <3>1, <3>2
  <2> QED BY <1>1, <2>1, <2>3, <2>4, TreeFrame DEF FollowInv
<1>13. DoneInv'
  <2>1. \A m \in Nodes \ S : Seen(m) => Seen(m)'
    BY <1>1, <1>2, <1>3 DEF Seen, tree, Owes
  <2>2. \A m \in Nodes : at'[m] = at[m] /\ Member(m)' = Member(m)
    BY <1>1 DEF Member, tree
  <2>3. \A m \in Nodes : stage[m] # "idle" => stage'[m] # "idle"
    BY <1>3 DEF Spreads
  <2>4. ASSUME NEW d \in Nodes, NEW i \in 1 .. at[d]
        PROVE  i <= Len(members[d]) /\ Seen(members[d][i])'
    <3>1. i <= Len(members[d]) /\ Seen(members[d][i]) /\ members[d][i] \notin S
      BY DEF DoneInv, Spreads
    <3>2. members[d][i] \in Nodes
      BY <3>1, KidsArePositions DEF Positions
    <3>3. members' = members
      BY <1>1 DEF tree
    <3> QED BY <2>1, <3>1, <3>2, <3>3
  <2>5. ASSUME NEW d \in Nodes, stage'[d] \in {"fire", "done"}, Level[d] > 1
        PROVE  \A m \in Kids(d) : stage'[m] # "idle"
    <3>1. CASE d = n
      <4>1. S = Kids(n)
        BY <2>5, <3>1 DEF Spreads
      <4> QED BY <1>2, <1>3, <3>1, <4>1
    <3>2. CASE d # n
      BY <1>3, <2>3, <2>5, <3>2, KidsArePositions DEF DoneInv
    <3> QED BY <3>1, <3>2
  <2>6. ASSUME NEW d \in Nodes, stage'[d] \in {"check", "suspend"}
        PROVE  \A m \in Allocated(Member(d)) : stage'[m] # "idle"
    <3>1. CASE d = n
      <4>1. S = Allocated(Member(n))
        BY <2>6, <3>1 DEF Spreads
      <4> QED BY <1>2, <1>3, <3>1, <4>1
    <3>2. CASE d # n
      <4>1. stage[d] \in {"check", "suspend"}
        BY <1>3, <2>6, <3>2
      <4>2. Allocated(Member(d)) \subseteq Nodes
        BY <4>1, MemberFacts, KidFacts, AllocatedIs DEF ShapeInv
      <4> QED BY <2>3, <4>1, <4>2 DEF DoneInv
    <3> QED BY <3>1, <3>2
  <2>7. \A d \in Nodes : stage'[d] = "done" => stage[d] = "done"
    BY <1>3 DEF Spreads
  <2>8. members' = members /\ closed' = closed /\ \A c : Kids(c)' = Kids(c)
    BY <1>1, TreeFrame
  <2> QED BY <2>2, <2>4, <2>5, <2>6, <2>7, <2>8 DEF DoneInv
<1>14. RunInv'
  BY <1>1, <1>2 DEF RunInv
<1> QED BY <1>7, <1>8, <1>9, <1>10, <1>11, <1>12, <1>13, <1>14

\* The members of a container whose rule still waits have not been followed.
LEMMA KidsAreFresh ==
  ASSUME DInv, NEW n \in Nodes, stage[n] = "wait", NEW s \in Kids(n)
  PROVE  s \in Nodes /\ stage[s] = "idle" /\ ~Waited(s) /\ s # n
<1> USE DEF DInv
<1>1. s \in Nodes /\ s \notin Inputs /\ \A d \in Nodes : s \in Kids(d) => d = n
  BY KidFacts
<1>2. stage[s] = "idle"
  BY <1>1 DEF FollowInv
<1>3. ASSUME NEW c \in Nodes, stage[c] \in {"check", "suspend"} PROVE s \notin Allocated(Member(c))
  <2>1. Member(c) \in Kids(c)
    BY <1>3, MemberFacts DEF ShapeInv
  <2>2. s \in Allocated(Member(c)) => s = Member(c)
    BY <2>1, AllocatedIs, KidFacts
  <2> QED BY <1>1, <1>3, <2>1, <2>2
<1>4. ~Waited(s)
  BY <1>1, <1>3, InputSignalsAre DEF Waited
<1> QED BY <1>1, <1>2, <1>4

\* What stands below no container has nothing to iterate over.
LEMMA NotFollowedAt ==
  ASSUME DInv, NEW s \in Nodes, stage[s] = "idle" \/ Level[s] = 0
  PROVE  at[s] = 0
<1> USE DEF DInv
<1>1. CASE stage[s] = "idle"
  BY <1>1 DEF ShapeInv
<1>2. CASE Level[s] = 0
  <2>1. at[s] \in Nat /\ Len(members[s]) \in Nat
    BY KidsArePositions
  <2>2. \A i \in 1 .. at[s] : i \in Positions(s)
    BY <2>1 DEF DoneInv, Positions
  <2>3. Positions(s) = {}
    BY <1>2 DEF TreeInv
  <2> QED BY <2>1, <2>2, <2>3
<1> QED BY <1>1, <1>2

LEMMA RecManyDInv == ASSUME DInv, NEW n \in Nodes, RecMany(n) PROVE DInv'
<1> USE DEF DInv
<1>1. stage[n] = "wait" /\ Level[n] > 1 /\ n \in closed
  BY DEF RecMany, ContainerClosed
<1>2. Kids(n) \in SUBSET Nodes
  BY KidsArePositions
<1>3. stage'[n] = "fire"
  BY DEF RecMany
<1>4. \A s \in Kids(n) : /\ Watchable(s) /\ ~Owes(s) /\ ~Waited(s) /\ at[s] = 0
                         /\ stage[s] = "idle"
  <2> SUFFICES ASSUME NEW s \in Kids(n)
               PROVE  Watchable(s) /\ ~Owes(s) /\ ~Waited(s) /\ at[s] = 0 /\ stage[s] = "idle"
    OBVIOUS
  <2>1. s \in Nodes /\ stage[s] = "idle" /\ ~Waited(s)
    BY <1>1, KidsAreFresh
  <2>2. Level[s] = Level[n] - 1
    BY KidFacts
  <2> QED BY <1>1, <2>1, <2>2, NotFollowedAt, ShapeAssumption DEF Watchable, Owes
<1>5. \A d \in Nodes : \A i \in 1 .. at[d] : members[d][i] \notin Kids(n)
  <2> SUFFICES ASSUME NEW d \in Nodes, NEW i \in 1 .. at[d], members[d][i] \in Kids(n) PROVE FALSE
    OBVIOUS
  <2>1. members[d][i] \in Kids(d)
    BY KidsArePositions DEF DoneInv, Positions
  <2>2. d = n
    BY <2>1, KidFacts
  <2>3. at[n] = 0
    BY <1>1 DEF ShapeInv
  <2> QED BY <2>2, <2>3
<1>6. Spreads(n, Kids(n))
  BY <1>1, <1>3, <1>4, <1>5, ShapeAssumption DEF RecMany, Spreads, Watchable
<1> QED BY <1>2, <1>6, SpreadsDInv

LEMMA IterLookDInv == ASSUME DInv, NEW n \in Nodes, IterLook(n) PROVE DInv'
<1> USE DEF DInv
<1> DEFINE m == Member(n)
           S == Allocated(m)
<1>1. /\ stage[n] = "iterate" /\ at[n] < Len(members[n]) /\ stage'[n] = "check"
      /\ n \in closed /\ Level[n] = 1
  BY DEF IterLook, ShapeInv
<1>2. m \in Kids(n) /\ \A d \in Nodes : \A i \in 1 .. at[d] : i <= Len(members[d]) => members[d][i] # m
  BY <1>1, MemberFacts
<1>3. m \in Nodes /\ m \notin Inputs /\ Level[m] = 0 /\ \A d \in Nodes : m \in Kids(d) => d = n
  BY <1>1, <1>2, KidFacts
<1>4. S = IF Watchable(m) THEN {m} ELSE {}
  BY <1>3, AllocatedIs
<1>5. ~Waited(m)
  <2>1. ASSUME NEW c \in Nodes, stage[c] \in {"check", "suspend"}, m \in Allocated(Member(c)) PROVE FALSE
    <3>1. Member(c) \in Kids(c)
      BY <2>1, MemberFacts DEF ShapeInv
    <3>2. m = Member(c)
      BY <2>1, <3>1, AllocatedIs, KidFacts
    <3> QED BY <1>1, <1>3, <2>1, <3>1, <3>2
  <2> QED BY <1>1, <1>3, <2>1, InputSignalsAre DEF Waited
<1>6. ~Owes(m)
  BY <1>3, <1>5, SignalCounts DEF OutInv
<1>7. at[m] = 0
  BY <1>3, NotFollowedAt
<1>8. \A d \in Nodes : \A i \in 1 .. at[d] : members[d][i] \notin S
  BY <1>2, <1>4 DEF DoneInv
<1> HIDE DEF S, m
<1>9. Spreads(n, S)
  BY <1>1, <1>2, <1>3, <1>4, <1>5, <1>6, <1>7, <1>8 DEF IterLook, Spreads, Watchable, S, m
<1> QED BY <1>3, <1>4, <1>9, SpreadsDInv

\* deeprule starts the rules of its inputs.
LEMMA DeepRuleDInv == ASSUME DInv, DeepRule PROVE DInv'
<1> USE DEF DInv
<1> DEFINE S == InputSignals
<1>1. UNCHANGED <<tree, at>> /\ phase = "start" /\ phase' = "wait"
  BY DEF DeepRule
<1>2. S \subseteq Nodes /\ S \subseteq Inputs /\ \A s \in S : Watchable(s)
  BY InputSignalsAre, NodesAssumption
<1>3. \A n \in Nodes : stage[n] = "idle" /\ at[n] = 0 /\ ~Waited(n)
  BY <1>1 DEF FollowInv, ShapeInv, Waited
<1> HIDE DEF S
<1>4. \A n \in Nodes : /\ stage'[n] = (IF n \in S THEN "wait" ELSE "idle")
                       /\ out'[n] = (IF n \in S THEN n ELSE out[n])
  BY <1>3 DEF DeepRule, Watch, S
<1>5. \A s \in Nodes : rd'[s] = (IF s \in S THEN 1 ELSE 0) /\ wr'[s] = (IF s \in S THEN 1 ELSE 0)
  <2>1. \A s \in Nodes : rd[s] = 0 /\ wr[s] = 0
    BY <1>3, SignalCounts
  <2> QED BY <2>1 DEF DeepRule, Allocate, S
<1>6. TypeOK'
  <2>1. rd' \in [Nodes -> Nat] /\ wr' \in [Nodes -> Nat]
    BY <1>5 DEF DeepRule, Allocate
  <2>2. stage' \in [Nodes -> Stages] /\ out' \in [Nodes -> Nodes \cup {None}]
    BY DEF DeepRule, Watch, TypeOK, Stages
  <2> QED BY <1>1, <2>1, <2>2 DEF TypeOK, tree
<1>7. TreeInv'
  BY <1>1, TreeFrame
<1>8. ShapeInv'
  BY <1>1, <1>2, <1>3, <1>4 DEF ShapeInv, tree, Watchable
<1>9. \A n \in Nodes : Owes(n)' <=> n \in S
  BY <1>4 DEF Owes, Stages
<1>10. OutInv'
  BY <1>2, <1>4, <1>5, <1>9, ShapeAssumption DEF OutInv
<1>11. WaitInv'
  <2>1. \A s \in Nodes : Waited(s)' <=> s \in S
    BY <1>1, <1>4 DEF Waited, S
  <2> QED BY <1>5, <2>1 DEF WaitInv
<1>12. FollowInv'
  BY <1>1, <1>2, <1>4, TreeFrame DEF FollowInv, S
<1>13. DoneInv'
  <2>1. \A n \in Nodes : at'[n] = 0 /\ stage'[n] \notin {"fire", "check", "suspend", "done"}
    BY <1>1, <1>3, <1>4
  <2> QED BY <2>1 DEF DoneInv
<1>14. RunInv'
  BY <1>1 DEF RunInv
<1> QED BY <1>6, <1>7, <1>8, <1>10, <1>11, <1>12, <1>13, <1>14

\* The one member of a container takes over its signal.
LEMMA RecOneDInv == ASSUME DInv, NEW n \in Nodes, RecOne(n) PROVE DInv'
<1> USE DEF DInv
<1> DEFINE kid == members[n][1]
<1>1. /\ stage[n] = "wait" /\ Level[n] > 1 /\ n \in closed /\ Len(members[n]) = 1
      /\ UNCHANGED <<tree, phase, at, rd, wr>>
  BY DEF RecOne, ContainerClosed
<1>2. Kids(n) = {kid}
  BY <1>1, KidsArePositions DEF Positions
<1>3. kid \in Nodes /\ stage[kid] = "idle" /\ kid # n /\ Level[kid] = Level[n] - 1
  BY <1>1, <1>2, KidsAreFresh, KidFacts
<1>4. \A m \in Nodes : stage'[m] = IF m = n THEN "done" ELSE IF m = kid THEN "wait" ELSE stage[m]
  BY <1>3 DEF RecOne, TypeOK
<1>5. \A m \in Nodes : out'[m] = IF m = kid THEN out[n] ELSE out[m]
  BY <1>3 DEF RecOne, TypeOK
<1>6. TypeOK'
  BY <1>1, <1>3 DEF RecOne, TypeOK, Stages, tree
<1>7. TreeInv'
  BY <1>1, TreeFrame
<1> HIDE DEF kid
<1>8. ShapeInv'
  BY <1>1, <1>3, <1>4, ShapeAssumption DEF ShapeInv, Watchable, tree
<1>9. OutInv'
  <2>1. \A m \in Nodes : Owes(m)' <=> m = kid \/ (m # n /\ Owes(m))
    BY <1>3, <1>4 DEF Owes, Stages
  <2>2. Owes(n) /\ ~Owes(kid)
    BY <1>1, <1>3 DEF Owes, Stages
  <2>3. out[n] \in Nodes /\ wr[out[n]] = 1 /\ Level[kid] <= Level[out[n]] /\ Level[kid] # 0
    BY <1>1, <1>3, <2>2, ShapeAssumption DEF OutInv
  <2>4. ASSUME NEW m \in Nodes, Owes(m)'
        PROVE  out'[m] \in Nodes /\ wr[out'[m]] = 1 /\ Level[m] <= Level[out'[m]]
               /\ (Level[m] = 0 => out'[m] = m)
    BY <1>5, <2>1, <2>3, <2>4 DEF OutInv
  <2>5. ASSUME NEW m \in Nodes, NEW k \in Nodes, Owes(m)', Owes(k)', out'[m] = out'[k] PROVE m = k
    BY <1>5, <2>1, <2>2, <2>5 DEF OutInv
  <2>6. ASSUME NEW s \in Nodes, wr[s] # 0 PROVE \E k \in Nodes : Owes(k)' /\ out'[k] = s
    <3>1. PICK k \in Nodes : Owes(k) /\ out[k] = s
      BY <2>6 DEF OutInv
    <3>2. CASE k = n
      BY <1>3, <1>5, <2>1, <3>1, <3>2
    <3>3. CASE k # n
      BY <1>5, <2>1, <2>2, <3>1, <3>3
    <3> QED BY <3>2, <3>3
  <2> QED BY <1>1, <2>4, <2>5, <2>6 DEF OutInv
<1>10. \A m \in Nodes : at'[m] = at[m] /\ Member(m)' = Member(m)
  BY <1>1 DEF Member, tree
<1>11. WaitInv'
  <2>1. \A s \in Nodes : Waited(s)' <=> Waited(s)
    BY <1>1, <1>3, <1>4, <1>10, TreeFrame DEF Waited
  <2> QED BY <1>1, <2>1 DEF WaitInv
<1>12. FollowInv'
  <2>1. InputSignals \subseteq Nodes
    BY InputSignalsAre, NodesAssumption
  <2>2. ASSUME NEW m \in Nodes, stage'[m] # "idle", m \notin Inputs
        PROVE  \E c \in Nodes : m \in Kids(c) /\ stage'[c] \notin {"idle", "wait"}
    <3>1. CASE m = kid
      BY <1>2, <1>4, <3>1
    <3>2. CASE m # kid
      <4>1. stage[m] # "idle"
        BY <1>1, <1>4, <2>2, <3>2
      <4> QED BY <1>3, <1>4, <2>2, <4>1 DEF FollowInv
    <3> QED BY <3>1, <3>2
  <2>3. phase # "start"
    BY <1>1 DEF FollowInv
  <2>4. \A i \in InputSignals : stage'[i] # "idle"
    BY <1>4, <2>1, <2>3 DEF FollowInv
  <2> QED BY <1>1, <2>2, <2>3, <2>4, TreeFrame DEF FollowInv
<1>13. DoneInv'
  <2>1. \A m \in Nodes : Seen(m) => Seen(m)'
    BY <1>1, <1>3, <1>4 DEF Seen, tree
  <2>2. \A m \in Nodes : stage[m] # "idle" => stage'[m] # "idle"
    BY <1>4
  <2>3. \A m \in Nodes : stage[m] \in {"check", "suspend"} => Allocated(Member(m)) \subseteq Nodes
    BY MemberFacts, KidFacts, AllocatedIs DEF ShapeInv
  <2>4. members' = members /\ closed' = closed /\ \A c : Kids(c)' = Kids(c)
    BY <1>1, TreeFrame
  <2>5. ASSUME NEW d \in Nodes, NEW i \in 1 .. at[d]
        PROVE  i <= Len(members[d]) /\ Seen(members[d][i])'
    BY <2>1, <2>4, KidsArePositions DEF DoneInv, Positions
  <2>6. ASSUME NEW d \in Nodes, stage'[d] \in {"fire", "done"}, Level[d] > 1
        PROVE  \A m \in Kids(d) : stage'[m] # "idle"
    BY <1>2, <1>3, <1>4, <2>2, <2>6, KidsArePositions DEF DoneInv
  <2>7. ASSUME NEW d \in Nodes, stage'[d] \in {"check", "suspend"}
        PROVE  \A m \in Allocated(Member(d)) : stage'[m] # "idle"
    BY <1>4, <2>2, <2>3, <2>7 DEF DoneInv
  <2>8. \A d \in Nodes : stage'[d] = "done" /\ Level[d] <= 1 => stage[d] = "done"
    BY <1>1, <1>4, ShapeAssumption
  <2> QED BY <1>10, <2>4, <2>5, <2>6, <2>7, <2>8, ShapeAssumption DEF DoneInv
<1>14. RunInv'
  BY <1>1 DEF RunInv, Owes, Stages
<1> QED BY <1>6, <1>7, <1>8, <1>9, <1>11, <1>12, <1>13, <1>14

-----------------------------------------------------------------------------
(* The iteration goes on. *)

LEMMA IterateDInv ==
  ASSUME DInv, NEW n \in Nodes, IterNext(n) \/ IterResume(n)
  PROVE  DInv'
<1> USE DEF DInv
<1> DEFINE m == Member(n)
           S == Allocated(m)
<1>1. /\ stage[n] \in {"check", "suspend"} /\ Ready(m) /\ Free(S)
      /\ UNCHANGED <<tree, phase, out, wr>>
      /\ stage' = [stage EXCEPT ![n] = "iterate"]
      /\ at' = [at EXCEPT ![n] = @ + 1] \/ at' = at
  BY DEF IterNext, IterResume
<1>2. Level[n] = 1 /\ Base[n] # "scalar" /\ n \in closed /\ at[n] < Len(members[n])
  BY <1>1 DEF ShapeInv
<1>3. m \in Kids(n)
  BY <1>2, MemberFacts
<1>4. m \in Nodes /\ m \notin Inputs /\ Level[m] = 0 /\ \A d \in Nodes : m \in Kids(d) => d = n
  BY <1>2, <1>3, KidFacts
<1>5. S = IF Watchable(m) THEN {m} ELSE {}
  BY <1>4, AllocatedIs
<1>6. \A s \in S : Waited(s) /\ wr[s] = 0
  <2>1. \A s \in S : Waited(s)
    BY <1>1, <1>4 DEF Waited
  <2> QED BY <1>1, <1>4, <1>5, <2>1 DEF Ready, SignalClosed, Watchable
<1>7. Base[m] = "struct_ref" => stage[m] = "done"
  <2> SUFFICES ASSUME Base[m] = "struct_ref" PROVE stage[m] = "done"
    OBVIOUS
  <2>1. m \in S
    BY <1>5 DEF Watchable
  <2>2. stage[m] # "idle"
    BY <1>1, <2>1 DEF DoneInv
  <2>3. ~Owes(m)
    BY <1>4, <1>6, <2>1 DEF OutInv
  <2> QED BY <1>4, <2>2, <2>3 DEF Owes, TypeOK, Stages
<1>8. Seen(m)
  <2>1. Base[m] \in Bases /\ Base[m] = Base[n]
    BY <1>3, <1>4, KidFacts, ShapeAssumption
  <2>2. CASE Base[m] = "struct_ref"
    BY <1>7, <2>2 DEF Seen
  <2>3. CASE Base[m] = "ref"
    BY <1>1, <1>4, <2>3 DEF Ready, Seen
  <2> QED BY <1>2, <2>1, <2>2, <2>3 DEF Bases
<1>9. \A d \in Nodes : at[d] \in Nat /\ Len(members[d]) \in Nat /\ at'[d] \in Nat
                       /\ (d # n => at'[d] = at[d]) /\ (at'[n] = at[n] \/ at'[n] = at[n] + 1)
  BY <1>1, KidsArePositions DEF TypeOK
<1>10. \A k \in Nodes : stage'[k] = IF k = n THEN "iterate" ELSE stage[k]
  BY <1>1 DEF TypeOK
<1>11. \A s \in Nodes : rd'[s] = IF s \in S THEN 0 ELSE rd[s]
  <2>1. \A s \in S : rd[s] = 1
    BY <1>4, <1>5, <1>6, SignalCounts
  <2> QED BY <1>1, <2>1 DEF Free
<1>12. m = members[n][at[n] + 1]
  BY DEF Member
<1> HIDE DEF S, m
<1>13. TypeOK'
  <2>1. rd' \in [Nodes -> Nat]
    <3>1. \A s \in Nodes : rd[s] \in Nat
      BY DEF TypeOK
    <3>2. \A s \in Nodes : rd'[s] \in Nat
      BY <1>11, <3>1
    <3> QED BY <1>1, <3>2 DEF Free
  <2>2. at' \in [Nodes -> Nat]
    BY <1>1 DEF TypeOK
  <2> QED BY <1>1, <2>1, <2>2 DEF TypeOK, Stages, tree
<1>14. TreeInv'
  BY <1>1, TreeFrame
<1>15. ShapeInv'
  BY <1>1, <1>2, <1>9, <1>10 DEF ShapeInv, Watchable, tree
<1>16. OutInv'
  <2>1. \A k \in Nodes : Owes(k)' <=> Owes(k)
    BY <1>1, <1>10 DEF Owes, Stages
  <2> QED BY <1>1, <2>1 DEF OutInv
<1>17. WaitInv'
  <2>1. \A c \in Nodes : stage'[c] \in {"check", "suspend"} =>
          c # n /\ stage[c] = stage'[c] /\ Member(c)' = Member(c)
    BY <1>1, <1>9, <1>10 DEF Member, tree
  <2>2. phase' = phase /\ \A c : Kids(c)' = Kids(c)
    BY <1>1, TreeFrame
  <2>3. ASSUME NEW s \in S PROVE ~Waited(s)'
    <3>1. s = m
      BY <1>5
    <3>2. ASSUME NEW c \in Nodes, stage'[c] \in {"check", "suspend"}, m \in Allocated(Member(c))
          PROVE FALSE
      <4>1. c # n /\ Member(c) \in Kids(c)
        BY <2>1, <3>2, MemberFacts DEF ShapeInv
      <4>2. m = Member(c)
        BY <3>2, <4>1, AllocatedIs, KidFacts
      <4> QED BY <1>4, <4>1, <4>2
    <3>3. s \notin InputSignals
      BY <1>4, <3>1, InputSignalsAre
    <3>4. \A c \in Nodes : stage'[c] = "fire" => s \notin Kids(c)
      BY <1>4, <1>10, <3>1
    <3> QED BY <2>1, <2>2, <3>1, <3>2, <3>3, <3>4 DEF Waited
  <2>4. ASSUME NEW s \in Nodes \ S PROVE Waited(s)' <=> Waited(s)
    <3>1. s \notin Allocated(Member(n))
      BY DEF S, m
    <3> QED BY <1>1, <1>10, <2>1, <2>2, <3>1 DEF Waited
  <2>5. ASSUME NEW s \in Nodes PROVE rd'[s] = (IF Waited(s)' THEN 1 ELSE 0) /\ wr'[s] <= rd'[s]
    <3>1. CASE s \in S
      BY <1>1, <1>6, <1>11, <2>3, <3>1
    <3>2. CASE s \notin S
      <4>1. rd'[s] = rd[s] /\ wr'[s] = wr[s] /\ (Waited(s)' <=> Waited(s))
        BY <1>1, <1>11, <2>4, <3>2
      <4> QED BY <4>1 DEF WaitInv
    <3> QED BY <3>1, <3>2
  <2> QED BY <2>5 DEF WaitInv
<1>18. FollowInv'
  <2>1. InputSignals \subseteq Nodes
    BY InputSignalsAre, NodesAssumption
  <2> QED BY <1>1, <1>10, <2>1, TreeFrame DEF FollowInv
<1>19. DoneInv'
  <2>1. \A k \in Nodes : Seen(k) => Seen(k)'
    BY <1>1, <1>10 DEF Seen, tree
  <2>2. members' = members /\ closed' = closed /\ \A c : Kids(c)' = Kids(c)
    BY <1>1, TreeFrame
  <2>3. ASSUME NEW d \in Nodes, NEW i \in 1 .. at'[d]
        PROVE  i <= Len(members[d]) /\ Seen(members[d][i])'
    <3>1. i <= Len(members[d]) /\ Seen(members[d][i])
      <4>1. CASE i \in 1 .. at[d]
        BY <4>1 DEF DoneInv
      <4>2. CASE i \notin 1 .. at[d]
        <5>1. d = n /\ i = at[n] + 1
          BY <1>9, <4>2
        <5> QED BY <1>2, <1>8, <1>9, <1>12, <5>1
      <4> QED BY <4>1, <4>2
    <3>2. members[d][i] \in Nodes
      BY <1>9, <3>1, KidsArePositions DEF Positions
    <3> QED BY <2>1, <2>2, <3>1, <3>2
  <2>4. ASSUME NEW d \in Nodes, stage'[d] \in {"fire", "done"}, Level[d] > 1
        PROVE  \A k \in Kids(d) : stage'[k] # "idle"
    BY <1>10, <2>4, KidsArePositions DEF DoneInv
  <2>5. ASSUME NEW d \in Nodes, stage'[d] \in {"check", "suspend"}
        PROVE  \A k \in Allocated(Member(d)') : stage'[k] # "idle"
    <3>1. d # n /\ stage[d] = stage'[d] /\ Member(d)' = Member(d)
      BY <1>9, <1>10, <2>2, <2>5 DEF Member
    <3>2. Allocated(Member(d)) \subseteq Nodes
      BY <2>5, <3>1, MemberFacts, KidFacts, AllocatedIs DEF ShapeInv
    <3> QED BY <1>10, <2>5, <3>1, <3>2 DEF DoneInv
  <2>6. \A d \in Nodes : stage'[d] = "done" => d # n /\ stage[d] = "done" /\ at'[d] = at[d]
    BY <1>9, <1>10
  <2> QED BY <2>2, <2>3, <2>4, <2>5, <2>6 DEF DoneInv
<1>20. RunInv'
  BY <1>1, <1>10 DEF RunInv, Owes, Stages, tree
<1> QED BY <1>13, <1>14, <1>15, <1>16, <1>17, <1>18, <1>19, <1>20

-----------------------------------------------------------------------------
(* The action runs. *)

\* While anything is owed, the signal of an input is: from a node that owes its
\* signal to one further up, and the highest owes it to the action.
LEMMA OwedToTheTop ==
  ASSUME DInv, phase # "run", NEW n \in Nodes, Owes(n)
  PROVE  \E i \in InputSignals : wr[i] = 1
<1> USE DEF DInv
<1> DEFINE U == {k \in Nodes : Owes(k)}
           L == {Level[k] : k \in U}
<1>1. IsFiniteSet(L) /\ L \subseteq Nat /\ L # {}
  <2>1. IsFiniteSet(U)
    BY NodesAssumption, FS_Subset
  <2>2. [k \in U |-> Level[k]] \in Surjection(U, L)
    BY DEF Surjection
  <2> QED BY <2>1, <2>2, FS_Surjection, ShapeAssumption
<1>2. PICK l \in L : \A x \in L : x <= l
  BY <1>1, FiniteHasMax
<1>3. PICK k \in U : Level[k] = l
  OBVIOUS
<1>4. out[k] \in Nodes /\ wr[out[k]] = 1 /\ Level[k] <= Level[out[k]]
  BY <1>3 DEF OutInv
<1>5. Waited(out[k])
  BY <1>4, SignalCounts
<1>6. ASSUME NEW c \in Nodes, Owes(c), out[k] \in Kids(c) PROVE FALSE
  <2>1. Level[out[k]] = Level[c] - 1
    BY <1>6, KidFacts
  <2>2. Level[c] <= Level[k]
    BY <1>2, <1>3, <1>6
  <2> QED BY <1>3, <1>4, <2>1, <2>2, ShapeAssumption
<1>7. ASSUME NEW c \in Nodes, stage[c] \in {"check", "suspend"}, out[k] \in Allocated(Member(c))
      PROVE  out[k] \in Kids(c)
  <2>1. Member(c) \in Kids(c)
    BY <1>7, MemberFacts DEF ShapeInv
  <2> QED BY <1>7, <2>1, AllocatedIs, KidFacts
<1>8. out[k] \in InputSignals
  BY <1>5, <1>6, <1>7 DEF Waited, Owes, Stages
<1> QED BY <1>4, <1>8

LEMMA RunActionDInv == ASSUME DInv, RunAction PROVE DInv'
<1> USE DEF DInv
<1> DEFINE S == InputSignals
<1>1. /\ phase = "wait" /\ phase' = "run" /\ Free(S) /\ UNCHANGED <<tree, stage, out, at, wr>>
      /\ \A i \in Inputs : Ready(i)
  BY DEF RunAction
<1>2. S \subseteq Inputs /\ S \subseteq Nodes /\ \A s \in S : Watchable(s)
  BY InputSignalsAre, NodesAssumption
<1>3. \A s \in S : wr[s] = 0
  BY <1>1, <1>2, ShapeAssumption DEF Ready, SignalClosed, Watchable
<1>4. \A n \in Nodes : ~Owes(n)
  BY <1>1, <1>3, OwedToTheTop
<1>5. \A s \in S : Waited(s)
  BY <1>1, <1>2 DEF Waited
<1>6. \A s \in Nodes : Waited(s) => s \in S
  BY <1>4 DEF Waited, Owes, Stages
<1>7. \A s \in Nodes : rd'[s] = 0 /\ wr'[s] = 0
  <2>1. \A s \in S : rd[s] = 1
    BY <1>2, <1>5, SignalCounts
  <2>2. \A s \in Nodes \ S : rd[s] = 0 /\ wr[s] = 0
    BY <1>6, SignalCounts
  <2> QED BY <1>1, <1>3, <2>1, <2>2 DEF Free
<1>8. \A s \in Nodes : ~Waited(s)'
  BY <1>1, <1>4 DEF Waited, Owes, Stages
<1> HIDE DEF S
<1>9. TypeOK'
  BY <1>1, <1>7 DEF TypeOK, tree, Free
<1>10. TreeInv'
  BY <1>1, TreeFrame
<1>11. ShapeInv'
  BY <1>1 DEF ShapeInv, tree
<1>12. OutInv'
  BY <1>1 DEF OutInv, Owes
<1>13. WaitInv'
  BY <1>7, <1>8 DEF WaitInv
<1>14. FollowInv'
  BY <1>1, TreeFrame DEF FollowInv
<1>15. DoneInv'
  BY <1>1, TreeFrame DEF DoneInv, Seen, Member, tree
<1>16. RunInv'
  BY <1>1, <1>4 DEF RunInv, Owes, Ready, tree
<1> QED BY <1>9, <1>10, <1>11, <1>12, <1>13, <1>14, <1>15, <1>16

-----------------------------------------------------------------------------
(* The program. *)

LEMMA CloseDInv == ASSUME DInv, NEW n \in Nodes, Close(n) PROVE DInv'
<1> USE DEF DInv
<1>1. closed' = closed \cup {n} /\ UNCHANGED <<members, phase, stage, out, at, rd, wr>>
  BY DEF Close
<1>2. TypeOK'
  BY <1>1 DEF TypeOK
<1>3. /\ \A c : Kids(c)' = Kids(c) /\ Positions(c)' = Positions(c) /\ Member(c)' = Member(c)
      /\ \A m \in Nodes : Seen(m) => Seen(m)'
  BY <1>1 DEF Kids, Positions, Member, Seen
<1>4. TreeInv' /\ ShapeInv' /\ OutInv'
  BY <1>1, <1>3 DEF TreeInv, ShapeInv, OutInv, Owes
<1>5. WaitInv' /\ FollowInv'
  BY <1>1, <1>3 DEF WaitInv, FollowInv, Waited
<1>6. DoneInv'
  <2>1. ASSUME NEW d \in Nodes, NEW i \in 1 .. at[d]
        PROVE  i <= Len(members[d]) /\ Seen(members[d][i])'
    BY <1>1, <1>3, KidsArePositions DEF DoneInv, Positions
  <2> QED BY <1>1, <1>3, <2>1 DEF DoneInv
<1>7. RunInv'
  BY <1>1 DEF RunInv, Owes
<1> QED BY <1>2, <1>4, <1>5, <1>6, <1>7

\* A container that still grows has not been looked into.
LEMMA InsertDInv == ASSUME DInv, NEW c \in Nodes, NEW n \in Nodes, Insert(c, n) PROVE DInv'
<1> USE DEF DInv
<1>1. /\ c \notin closed /\ Level[c] > 0 /\ Level[n] = Level[c] - 1 /\ Base[n] = Base[c]
      /\ Level[n] = 0 => Base[n] # "scalar"
      /\ n \notin Placed
      /\ members' = [members EXCEPT ![c] = Append(@, n)]
      /\ UNCHANGED <<closed, phase, stage, out, at, rd, wr>>
  BY DEF Insert
<1>2. n \notin Inputs /\ \A d \in Nodes : n \notin Kids(d)
  BY <1>1 DEF Placed
<1>3. stage[c] \in {"idle", "wait"} /\ at[c] = 0
  BY <1>1, ShapeAssumption DEF ShapeInv, TypeOK
<1>4. /\ \A d \in Nodes \ {c} : members'[d] = members[d]
      /\ members'[c] = Append(members[c], n) /\ members[c] \in Seq(Nodes)
  BY <1>1 DEF TypeOK
<1>5. TypeOK'
  <2>1. Append(members[c], n) \in Seq(Nodes)
    BY <1>4
  <2> QED BY <1>1, <2>1 DEF TypeOK
<1>6. /\ Len(members'[c]) = Len(members[c]) + 1 /\ members'[c][Len(members[c]) + 1] = n
      /\ \A i \in 1 .. Len(members[c]) : members'[c][i] = members[c][i]
  BY <1>4
<1>7. \A d \in Nodes \ {c} : Positions(d)' = Positions(d)
  BY <1>4 DEF Positions
<1>8. Positions(c)' = Positions(c) \cup {Len(members[c]) + 1}
  BY <1>6, KidsArePositions DEF Positions
<1>9. \A d \in Nodes : \A i \in Positions(d) : i \in Positions(d)' /\ members'[d][i] = members[d][i]
  BY <1>4, <1>6, <1>7, <1>8 DEF Positions
<1>10. \A d \in Nodes : \A i \in Positions(d)' : 
         i \in Positions(d) \/ (d = c /\ i = Len(members[c]) + 1 /\ members'[d][i] = n)
  BY <1>6, <1>7, <1>8
<1>11. TreeInv'
  <2>1. ASSUME NEW d \in Nodes, NEW i \in Positions(d)'
        PROVE  /\ Level[d] > 0 /\ Level[members'[d][i]] = Level[d] - 1
               /\ Base[members'[d][i]] = Base[d] /\ members'[d][i] \notin Inputs
               /\ Level[members'[d][i]] = 0 => Base[d] # "scalar"
    <3>1. CASE i \in Positions(d)
      BY <1>9, <3>1 DEF TreeInv
    <3>2. CASE i \notin Positions(d)
      BY <1>1, <1>2, <1>10, <3>2
    <3> QED BY <3>1, <3>2
  <2>2. ASSUME NEW d \in Nodes, NEW e \in Nodes, NEW i \in Positions(d)', NEW j \in Positions(e)',
               members'[d][i] = members'[e][j]
        PROVE  d = e /\ i = j
    <3>1. \A x \in Nodes : \A k \in Positions(x) : members[x][k] # n
      BY <1>2, KidsArePositions
    <3>2. CASE i \in Positions(d) /\ j \in Positions(e)
      BY <1>9, <2>2, <3>2 DEF TreeInv
    <3>3. CASE i \notin Positions(d) \/ j \notin Positions(e)
      BY <1>9, <1>10, <2>2, <3>1, <3>3
    <3> QED BY <3>2, <3>3
  <2> QED BY <2>1, <2>2 DEF TreeInv
<1>12. \A d \in Nodes \ {c} : Kids(d)' = Kids(d)
  BY <1>4 DEF Kids
<1>13. Kids(c)' = Kids(c) \cup {n}
  <2>1. \A m : m \in Kids(c)' <=> \E i \in Positions(c)' : members'[c][i] = m
    BY <1>4, <1>6 DEF Kids, Range, Positions
  <2>2. \A m : m \in Kids(c) <=> \E i \in Positions(c) : members[c][i] = m
    BY KidsArePositions
  <2> QED BY <1>6, <1>8, <1>9, <2>1, <2>2
<1>14. \A d \in Nodes \ {c} : Member(d)' = Member(d)
  BY <1>1, <1>4 DEF Member
<1>15. ShapeInv' /\ OutInv'
  BY <1>1, <1>3, <1>4 DEF ShapeInv, OutInv, Owes
<1>16. WaitInv'
  <2>1. \A s \in Nodes : Waited(s)' <=> Waited(s)
    BY <1>1, <1>3, <1>12, <1>14 DEF Waited
  <2> QED BY <1>1, <2>1 DEF WaitInv
<1>17. FollowInv'
  BY <1>1, <1>12, <1>13 DEF FollowInv
<1>18. DoneInv'
  <2>1. ASSUME NEW d \in Nodes, NEW i \in 1 .. at[d]
        PROVE  i <= Len(members'[d]) /\ Seen(members'[d][i])
    BY <1>3, <1>4, <2>1 DEF DoneInv
  <2>2. \A m : Seen(m)' <=> Seen(m)
    BY <1>1 DEF Seen
  <2> QED BY <1>1, <1>3, <1>4, <1>12, <1>14, <2>1, <2>2 DEF DoneInv
<1>19. RunInv'
  BY <1>1 DEF RunInv, Owes
<1> QED BY <1>5, <1>11, <1>15, <1>16, <1>17, <1>18, <1>19

-----------------------------------------------------------------------------
LEMMA DInvNext == DInv /\ [Next]_vars => DInv'
<1> SUFFICES ASSUME DInv, [Next]_vars PROVE DInv'
  OBVIOUS
<1>1. ASSUME NEW n \in Nodes, Follow(n) PROVE DInv'
  BY <1>1, MoveDInv, SettleDInv, RecOneDInv, RecManyDInv, IterLookDInv, IterateDInv DEF Follow
<1>2. CASE UNCHANGED vars
  <2>1. /\ UNCHANGED <<tree, phase, stage, out, at, rd, wr>>
        /\ \A c : Kids(c)' = Kids(c) /\ Positions(c)' = Positions(c) /\ Member(c)' = Member(c)
    BY <1>2 DEF vars, tree, Kids, Positions, Member
  <2>2. TypeOK' /\ TreeInv' /\ ShapeInv' /\ OutInv' /\ RunInv'
    BY <2>1 DEF DInv, tree, TypeOK, TreeInv, ShapeInv, OutInv, RunInv, Owes
  <2>3. WaitInv' /\ FollowInv' /\ DoneInv'
    BY <2>1 DEF DInv, tree, WaitInv, FollowInv, DoneInv, Waited, Seen
  <2> QED BY <2>2, <2>3 DEF DInv
<1> QED BY <1>1, <1>2, DeepRuleDInv, RunActionDInv, CloseDInv, InsertDInv DEF Next, Ended

LEMMA DInvAlways == Spec => []DInv
  BY DInvInit, DInvNext, PTL DEF Spec

-----------------------------------------------------------------------------
(* The theorems. *)

\* Type correctness: no reference count of a signal goes below zero.
THEOREM DeepWaitTypeCorrect == Spec => []TypeOK
<1>1. DInv => TypeOK BY DEF DInv
<1> QED BY <1>1, DInvAlways, PTL

\* container_deep_wait and what follows it set every signal once: one pending
\* rule owes a signal that is not set, and none one that is.
THEOREM SignalsHaveOneSetter == Spec => []OneSetter
<1>1. DInv => OneSetter
  <2> SUFFICES ASSUME DInv, NEW s \in Nodes
               PROVE  wr[s] = Cardinality({n \in Nodes : Owes(n) /\ out[n] = s}) /\ wr[s] <= 1
    BY DEF OneSetter
  <2> DEFINE U == {n \in Nodes : Owes(n) /\ out[n] = s}
  <2>1. CASE wr[s] = 0
    <3>1. U = {}
      BY <2>1 DEF DInv, OutInv
    <3> QED BY <2>1, <3>1, FS_EmptySet
  <2>2. CASE wr[s] = 1
    <3>1. PICK n \in Nodes : Owes(n) /\ out[n] = s
      BY <2>2 DEF DInv, OutInv
    <3>2. U = {n}
      BY <3>1 DEF DInv, OutInv
    <3> QED BY <2>2, <3>2, FS_Singleton
  <2> QED BY <2>1, <2>2, SignalCounts
<1> QED BY <1>1, DInvAlways, PTL

\* A signal lives as long as somebody waits for it, and deeprule_action leaves
\* none behind, at whatever depth it was allocated.
THEOREM SignalsAreFreed == Spec => []SignalsFreed
<1>1. DInv => SignalsFreed
  <2> SUFFICES ASSUME DInv PROVE SignalsFreed
    OBVIOUS
  <2>1. \A s \in Nodes : rd[s] <= 1 /\ wr[s] <= rd[s]
    BY SignalCounts DEF DInv, WaitInv
  <2>2. ASSUME phase = "run", NEW s \in Nodes PROVE rd[s] = 0
    <3>1. ~Waited(s)
      BY <2>2 DEF DInv, RunInv, Waited, Owes, Stages
    <3> QED BY <3>1, SignalCounts
  <2> QED BY <2>1, <2>2 DEF SignalsFreed
<1> QED BY <1>1, DInvAlways, PTL

\* The action of a deeprule runs only when each input is closed with all that is
\* in it, however the containers grew and closed while they were followed.
THEOREM RunsOnlyWhenDeepClosed == Spec => []RunsWhenDeepClosed
<1>1. DInv => RunsWhenDeepClosed
  <2> SUFFICES ASSUME DInv, phase = "run", NEW i \in Inputs, ~(Level[i] = 0 /\ Base[i] = "scalar")
               PROVE  DeepClosed(i)
    BY DEF RunsWhenDeepClosed
  <2> USE DEF DInv
  <2> DEFINE T == {n \in closed : stage[n] = "done" \/ (Level[n] = 0 /\ Base[n] = "ref")}
  <2>1. closed \subseteq Nodes /\ i \in Nodes
    BY NodesAssumption DEF TypeOK
  <2>2. \A n \in Nodes : stage[n] = "idle" \/ stage[n] = "done"
    BY DEF RunInv, Owes, TypeOK
  <2>3. i \in T
    <3>1. CASE Watchable(i)
      <4>1. stage[i] = "done"
        BY <2>1, <2>2, <3>1, InputSignalsAre DEF FollowInv
      <4> QED BY <2>1, <4>1 DEF ShapeInv
    <3>2. CASE ~Watchable(i)
      <4>1. Level[i] = 0 /\ Base[i] = "ref"
        BY <2>1, <3>2, ShapeAssumption DEF Watchable, Bases
      <4> QED BY <4>1 DEF RunInv
    <3> QED BY <3>1, <3>2
  <2>4. ASSUME NEW n \in T, NEW m \in Kids(n) PROVE m \in T
    <3>1. n \in Nodes /\ n \in closed
      BY <2>1
    <3>2. m \in Nodes /\ Level[n] > 0 /\ Level[m] = Level[n] - 1 /\ Base[m] = Base[n]
          /\ (Level[m] = 0 => Base[m] # "scalar")
      BY <3>1, KidFacts
    <3>3. stage[n] = "done"
      BY <3>2
    <3>4. CASE Level[n] > 1
      <4>1. stage[m] = "done"
        BY <2>2, <3>1, <3>2, <3>3, <3>4 DEF DoneInv
      <4> QED BY <3>2, <4>1 DEF ShapeInv
    <3>5. CASE Level[n] = 1
      <4>1. PICK j \in Positions(n) : members[n][j] = m
        BY <3>1, KidsArePositions
      <4>2. at[n] = Len(members[n])
        BY <3>1, <3>3, <3>5 DEF DoneInv
      <4>3. Seen(m)
        BY <3>1, <4>1, <4>2 DEF DoneInv, Positions
      <4>4. Level[m] = 0 /\ (Base[m] = "ref" \/ Base[m] = "struct_ref")
        BY <3>1, <3>2, <3>5, ShapeAssumption DEF Bases
      <4> QED BY <3>2, <4>3, <4>4 DEF Seen, ShapeInv
    <3> QED BY <3>1, <3>2, <3>4, <3>5, ShapeAssumption
  <2>5. ASSUME NEW n \in T, Base[n] = "struct_ref", Level[n] = 0 PROVE Field[n] \in T
    <3>1. n \in Nodes /\ stage[n] = "done"
      BY <2>1, <2>5
    <3>2. Field[n] \in closed
      BY <2>5, <3>1 DEF DoneInv
    <3> QED BY <2>1, <3>1, <3>2, NodesAssumption, ShapeAssumption
  <2>6. Contained(T)
    BY <2>4, <2>5 DEF Contained
  <2> QED BY <2>3, <2>6 DEF DeepClosed
<1> QED BY <1>1, DInvAlways, PTL
=============================================================================
