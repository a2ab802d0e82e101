--------------------------- MODULE ContainersProofs ---------------------------
(***************************************************************************)
(* Proofs about Containers, for every set of statements, their subscripts  *)
(* and every stock of references a slot starts with.                       *)
(***************************************************************************)
EXTENDS Containers, FiniteSetTheorems, TLAPS

-----------------------------------------------------------------------------
(* The inductive invariant. *)

NestedStates  == {"idle", "rule", "create", "fill", "poll", "have", "ref", "insert", "done"}
PlainStates   == {"idle", "rule", "done"}
ReaderStates  == {"idle", "rule", "subscribed", "ref", "wait", "done"}
Given         == {"have", "ref", "insert", "done"}

\* Each statement is where statements of its kind can be.
KindInv ==
  /\ \A w \in Nested : pc[w] \in NestedStates
  /\ \A p \in Plain \cup Checkers : pc[p] \in PlainStates
  /\ \A r \in Readers : pc[r] \in ReaderStates

\* A slot is empty while nobody has come to it, reserved while one writer makes
\* the array, and set to an array of that subscript afterwards.
SlotInv ==
  /\ \A s \in Subs :
       /\ slot[s].state # "set" => slot[s].id = None /\ slot[s].rd = 0 /\ slot[s].wr = 0
       /\ slot[s].state = "none" => \A w \in Writers : SubOf[w] = s => pc[w] \in {"idle", "rule"}
       /\ slot[s].state = "reserved" => \E w \in Nested : SubOf[w] = s /\ pc[w] \in {"create", "fill"}
       /\ slot[s].state = "set" =>
            /\ slot[s].id \in Writers /\ SubOf[slot[s].id] = s /\ pc[slot[s].id] \in Given
            /\ slot[s].id \in Plain => slot[s].wr = 0
  /\ \A w \in Nested : pc[w] \in {"create", "fill"} => Slot(w).state = "reserved"
  /\ \A v, w \in Nested :
       SubOf[v] = SubOf[w] /\ pc[v] \in {"create", "fill"} /\ pc[w] \in {"create", "fill"} => v = w

\* What a statement has been given is what its slot holds.
GotInv ==
  /\ \A w \in Nested : IF pc[w] \in Given THEN Slot(w).state = "set" /\ got[w] = Slot(w).id
                       ELSE got[w] = None
  /\ \A r \in Readers : IF pc[r] \in {"ref", "wait", "done"}
                        THEN Slot(r).state = "set" /\ got[r] = Slot(r).id
                        ELSE got[r] = None
  /\ \A p \in Plain : pc[p] = "done" => Slot(p).state = "set" /\ Slot(p).id = p

\* Slots keep a reference of each kind until A gives them back.
HeldInv ==
  \A s \in Subs : slot[s].state = "set" =>
    /\ awr > 0 /\ slot[s].id \in Nested => slot[s].wr > 0
    /\ awr > 0 \/ ard > 0 => slot[s].rd > 0

Running == IF main = "run" THEN 1 ELSE 0
AWriters == {w \in Writers : pc[w] \in {"rule", "create", "fill", "poll"}}
AReaders == {r \in Readers \cup Checkers : pc[r] \in {"rule", "subscribed"}}

\* A's counts.
OuterInv == awr = Running + Cardinality(AWriters) /\ ard = Running + Cardinality(AReaders)

HeldW(w) == IF Slot(w).id = w THEN Slot(w).wr ELSE 0
HeldR(w) == IF Slot(w).id = w THEN Slot(w).rd ELSE 0
Holders(i)  == {w \in Nested : got[w] = i /\ pc[w] \in {"have", "ref", "insert"}}
RHolders(i) == {r \in Readers : got[r] = i /\ pc[r] \in {"ref", "wait"}}

\* The counts of the inner arrays.
InnerInv ==
  /\ \A w \in Nested :
       IF pc[w] = "fill" THEN iwr[w] = Stock + 1 /\ ird[w] = Stock + 1
       ELSE /\ iwr[w] = HeldW(w) + Cardinality(Holders(w))
            /\ ird[w] = HeldR(w) + Cardinality(Holders(w)) + Cardinality(RHolders(w))
  /\ \A p \in Plain :
       /\ iwr[p] = 0
       /\ ird[p] = (IF pc[p] = "done" THEN Slot(p).rd ELSE 1) + Cardinality(RHolders(p))

\* An inner array has what the writers that are done have inserted.
ContentInv ==
  /\ \A i \in Nested :
       content[i] = {w \in Nested : SubOf[w] = SubOf[i] /\ pc[w] = "done" /\ Slot(i).id = i}
  /\ \A p \in Plain : content[p] = {p}

\* Answers stay right: who is to write has started when they are given.
SawInv ==
  /\ \A r \in Readers : pc[r] = "done" =>
       saw[r] = WrittenAt(SubOf[r]) /\ (main = "done" \/ Slot(r).id \in Plain)
  /\ \A c \in Checkers : pc[c] = "done" =>
       saw[c] = {SubOf[w] : w \in WrittenAt(SubOf[c])} /\ main = "done"

CInv == /\ TypeOK /\ NoFailure /\ KindInv /\ SlotInv /\ GotInv /\ HeldInv /\ OuterInv /\ InnerInv
        /\ ContentInv /\ SawInv

-----------------------------------------------------------------------------
(* Facts about the constants, counts and slots. *)

LEMMA Kinds ==
  /\ Nested \subseteq Writers /\ Plain \subseteq Writers /\ Nested \cap Plain = {}
  /\ Writers \cap Readers = {} /\ Writers \cap Checkers = {} /\ Readers \cap Checkers = {}
  /\ Writers \subseteq Statements /\ Readers \subseteq Statements /\ Checkers \subseteq Statements
  /\ None \notin Writers /\ Stock \in Nat /\ Stock > 0
  /\ \A t \in Statements : SubOf[t] \in Subs
  /\ \A w \in Writers : w \in Nested \/ w \in Plain
BY StatementAssumption DEF Statements, Writers

LEMMA CountType ==
  ASSUME NEW S \in SUBSET Statements
  PROVE  IsFiniteSet(S) /\ Cardinality(S) \in Nat
BY StatementAssumption, FS_Subset, FS_CardinalityType

LEMMA CountUp ==
  ASSUME NEW S \in SUBSET Statements, NEW x, x \notin S
  PROVE  Cardinality(S \cup {x}) = Cardinality(S) + 1
BY CountType, FS_AddElement

LEMMA CountDown ==
  ASSUME NEW S \in SUBSET Statements, NEW x \in S
  PROVE  Cardinality(S \ {x}) = Cardinality(S) - 1 /\ Cardinality(S) > 0
<1>1. Cardinality(S \ {x}) = Cardinality(S) - 1
  BY CountType, FS_RemoveElement
<1>2. Cardinality(S \ {x}) \in Nat /\ Cardinality(S) \in Nat
  BY CountType
<1> QED BY <1>1, <1>2

LEMMA CountersAreSets ==
  /\ AWriters \in SUBSET Statements /\ AReaders \in SUBSET Statements
  /\ \A i : Holders(i) \in SUBSET Statements /\ RHolders(i) \in SUBSET Statements
BY Kinds DEF AWriters, AReaders, Holders, RHolders

\* The slot of a nested statement holds an array made for one, that of a plain
\* one nothing but its own.
LEMMA SlotIds ==
  ASSUME CInv
  PROVE  /\ \A w \in Nested : Slot(w).state = "set" =>
              Slot(w).id \in Nested /\ SubOf[Slot(w).id] = SubOf[w]
         /\ \A p \in Plain : Slot(p).state = "set" => Slot(p).id = p
         /\ \A p \in Plain : Slot(p).state # "reserved"
         /\ \A p \in Plain : pc[p] # "done" => Slot(p).state = "none"
<1> USE DEF CInv
<1>1. \A t \in Statements : Slot(t).state = "set" => Slot(t).id \in Writers /\ SubOf[Slot(t).id] = SubOf[t]
  BY Kinds DEF SlotInv, Slot
<1>2. \A p \in Plain : \A w \in Writers : SubOf[w] = SubOf[p] => w = p
  BY SingleAssignment
<1>3. \A w \in Nested : Slot(w).state = "set" => Slot(w).id \in Nested
  BY <1>1, <1>2, Kinds
<1>4. \A p \in Plain : Slot(p).state = "set" => Slot(p).id = p
  BY <1>1, <1>2, Kinds
<1>5. ASSUME NEW p \in Plain PROVE Slot(p).state # "reserved"
  BY <1>2, Kinds DEF SlotInv, Slot
<1>6. ASSUME NEW p \in Plain, pc[p] # "done" PROVE Slot(p).state = "none"
  <2>1. SubOf[p] \in Subs
    BY Kinds
  <2>2. Slot(p).state \in {"none", "reserved", "set"}
    BY <2>1 DEF TypeOK, Slot
  <2>3. Slot(p).state # "set"
    BY <1>4, <1>6, <2>1 DEF SlotInv, Slot, KindInv, PlainStates, Given
  <2> QED BY <1>5, <2>2, <2>3
<1> QED BY <1>1, <1>3, <1>4, <1>5, <1>6, Kinds

\* A writer that has not yet given back its reference keeps A open.
LEMMA WriterKeepsOpen ==
  ASSUME CInv, NEW w \in AWriters
  PROVE  awr > 0 /\ awr \in Nat
<1>1. Cardinality(AWriters) > 0 /\ Cardinality(AWriters) \in Nat
  BY CountersAreSets, CountDown, CountType
<1> QED BY <1>1 DEF CInv, OuterInv, Running

LEMMA ReaderKeepsAlive ==
  ASSUME CInv, NEW r \in AReaders
  PROVE  ard > 0 /\ ard \in Nat
<1>1. Cardinality(AReaders) > 0 /\ Cardinality(AReaders) \in Nat
  BY CountersAreSets, CountDown, CountType
<1> QED BY <1>1 DEF CInv, OuterInv, Running

\* A is closed: the program has started all it will, and every write is through.
LEMMA ClosedMeansDone ==
  ASSUME CInv, awr = 0
  PROVE  main = "done" /\ \A w \in Writers : pc[w] \in {"idle", "have", "ref", "insert", "done"}
<1>1. Cardinality(AWriters) \in Nat
  BY CountersAreSets, CountType
<1>2. main = "done" /\ AWriters = {}
  <2>1. main = "done" /\ Cardinality(AWriters) = 0
    BY <1>1 DEF CInv, OuterInv, Running, TypeOK
  <2>2. IsFiniteSet(AWriters)
    BY CountersAreSets, CountType
  <2> QED BY <2>1, <2>2, FS_EmptySet
<1>3. \A w \in Writers : pc[w] \in NestedStates
  BY Kinds DEF CInv, KindInv, PlainStates, NestedStates
<1> QED BY <1>2, <1>3 DEF AWriters, NestedStates

-----------------------------------------------------------------------------
LEMMA CInvInit == Init => CInv
<1> SUFFICES ASSUME Init PROVE CInv
  OBVIOUS
<1>1. TypeOK
  <2>1. slot \in [Subs -> [state : {"none", "reserved", "set"}, id : Writers \cup {None}, rd : Nat, wr : Nat]]
    BY DEF Init, Empty
  <2> QED BY <2>1, Kinds DEF Init, TypeOK, States
<1>2. NoFailure /\ KindInv
  BY Kinds DEF Init, NoFailure, KindInv, NestedStates, PlainStates, ReaderStates
<1>3. \A t \in Statements : pc[t] = "idle" /\ got[t] = None
  BY DEF Init
<1>4. \A s \in Subs : slot[s].state = "none" /\ slot[s].id = None /\ slot[s].rd = 0 /\ slot[s].wr = 0
  BY DEF Init, Empty
<1>5. SlotInv /\ GotInv /\ HeldInv
  BY <1>3, <1>4, Kinds DEF SlotInv, GotInv, HeldInv, Given
<1>6. AWriters = {} /\ AReaders = {} /\ \A i : Holders(i) = {} /\ RHolders(i) = {}
  BY <1>3, Kinds DEF AWriters, AReaders, Holders, RHolders
<1>7. OuterInv
  BY <1>6, FS_EmptySet DEF Init, OuterInv, Running
<1>8. InnerInv
  <2>1. \A i : Cardinality(Holders(i)) = 0 /\ Cardinality(RHolders(i)) = 0
    BY <1>6, FS_EmptySet
  <2>2. \A w \in Nested : HeldW(w) = 0 /\ HeldR(w) = 0
    BY <1>4, Kinds DEF HeldW, HeldR, Slot
  <2>3. \A w \in Writers : iwr[w] = 0 /\ ird[w] = IF w \in Plain THEN 1 ELSE 0
    BY DEF Init
  <2> QED BY <1>3, <2>1, <2>2, <2>3, Kinds DEF InnerInv
<1>9. ContentInv
  BY <1>3, Kinds DEF Init, ContentInv
<1>10. SawInv
  BY <1>3, Kinds DEF SawInv
<1> QED BY <1>1, <1>2, <1>5, <1>7, <1>8, <1>9, <1>10 DEF CInv

-----------------------------------------------------------------------------
(* Steps that move no reference. *)

\* A statement goes on with what it holds.
Quiet(t, from, to) ==
  /\ Goto(t, from, to) /\ UNCHANGED <<main, got, saw, failed, outer, inner>>
  /\ \/ /\ t \in Nested /\ from = "rule" /\ to = "poll" /\ Slot(t).state = "reserved"
     \/ t \in Nested /\ from \in {"have", "ref"} /\ to \in {"ref", "insert"}
     \/ t \in Readers /\ from = "rule" /\ to = "subscribed"
     \/ t \in Readers /\ from = "ref" /\ to = "wait"

LEMMA QuietCInv ==
  ASSUME CInv, NEW t \in Statements, NEW from, NEW to, Quiet(t, from, to)
  PROVE  CInv'
<1> USE DEF CInv
<1>1. /\ UNCHANGED <<main, got, saw, failed, ard, awr, slot, ird, iwr, content>>
      /\ pc[t] = from /\ pc' = [pc EXCEPT ![t] = to] /\ to \in States
  BY DEF Quiet, Goto, outer, inner, States
<1>2. \A u \in Statements : pc'[u] = IF u = t THEN to ELSE pc[u]
  BY <1>1 DEF TypeOK
<1>3. TypeOK' /\ NoFailure'
  BY <1>1 DEF TypeOK, NoFailure
<1>4. KindInv'
  BY <1>2, Kinds DEF Quiet, KindInv, NestedStates, PlainStates, ReaderStates
<1>5. \A u : Slot(u)' = Slot(u)
  BY <1>1 DEF Slot
<1>6. t \in Writers <=> t \in Nested
  BY Kinds DEF Quiet
<1>7. \A u \in Writers : pc'[u] = pc[u] \/ (pc[u] = "rule" /\ pc'[u] = "poll" /\ Slot(u).state = "reserved" /\ u \in Nested)
                         \/ (pc[u] \in {"have", "ref"} /\ pc'[u] \in {"ref", "insert"} /\ u \in Nested)
  BY <1>1, <1>2, Kinds DEF Quiet
<1>8. \A u \in Readers : pc'[u] = pc[u] \/ (pc[u] = "rule" /\ pc'[u] = "subscribed")
                         \/ (pc[u] = "ref" /\ pc'[u] = "wait")
  BY <1>1, <1>2, Kinds DEF Quiet
<1>9. \A u \in Checkers : pc'[u] = pc[u]
  BY <1>2, Kinds DEF Quiet
<1>10. SlotInv'
  BY <1>1, <1>5, <1>7, Kinds DEF SlotInv, Slot, Given
<1>11. GotInv'
  BY <1>1, <1>5, <1>7, <1>8, Kinds DEF GotInv, Given
<1>12. HeldInv'
  BY <1>1 DEF HeldInv
<1>13. AWriters' = AWriters /\ AReaders' = AReaders
  BY <1>7, <1>8, <1>9 DEF AWriters, AReaders
<1>14. OuterInv'
  BY <1>1, <1>13 DEF OuterInv, Running
<1>15. \A i : Holders(i)' = Holders(i) /\ RHolders(i)' = RHolders(i)
  BY <1>1, <1>7, <1>8, Kinds DEF Holders, RHolders
<1>16. InnerInv'
  <2>1. \A w \in Nested : pc'[w] = "fill" <=> pc[w] = "fill"
    BY <1>7, Kinds
  <2>2. \A p \in Plain : pc'[p] = "done" <=> pc[p] = "done"
    BY <1>7, Kinds
  <2> QED BY <1>1, <1>5, <1>15, <2>1, <2>2 DEF InnerInv, HeldW, HeldR
<1>17. ContentInv'
  BY <1>1, <1>5, <1>7, Kinds DEF ContentInv
<1>18. SawInv'
  <2>1. \A s : WrittenAt(s)' = WrittenAt(s)
    BY <1>7 DEF WrittenAt
  <2> QED BY <1>1, <1>5, <1>8, <1>9, <2>1 DEF SawInv
<1> QED BY <1>3, <1>4, <1>10, <1>11, <1>12, <1>14, <1>16, <1>17, <1>18

-----------------------------------------------------------------------------
(* The program. *)

LEMMA StartWriterCInv == ASSUME CInv, NEW t \in Writers, StartWriter(t) PROVE CInv'
<1> USE DEF CInv
<1>1. /\ UNCHANGED <<main, got, saw, failed, ard, slot, ird, iwr, content>> /\ awr' = awr + 1
      /\ main = "run" /\ pc[t] = "idle" /\ pc' = [pc EXCEPT ![t] = "rule"] /\ t \in Statements
  BY Kinds DEF StartWriter, Goto, inner
<1>2. \A u \in Statements : pc'[u] = IF u = t THEN "rule" ELSE pc[u]
  BY <1>1 DEF TypeOK
<1>3. TypeOK' /\ NoFailure'
  BY <1>1 DEF TypeOK, NoFailure, States
<1>4. KindInv'
  BY <1>2, Kinds DEF KindInv, NestedStates, PlainStates, ReaderStates
<1>5. \A u : Slot(u)' = Slot(u)
  BY <1>1 DEF Slot
<1>6. \A u \in Writers : pc'[u] = pc[u] \/ (u = t /\ pc[u] = "idle" /\ pc'[u] = "rule")
  BY <1>1, <1>2, Kinds
<1>7. \A u \in Readers \cup Checkers : pc'[u] = pc[u]
  BY <1>2, Kinds
<1>8. SlotInv'
  BY <1>1, <1>5, <1>6, Kinds DEF SlotInv, Slot, Given
<1>9. GotInv'
  BY <1>1, <1>5, <1>6, <1>7, Kinds DEF GotInv, Given
<1>10. AWriters' = AWriters \cup {t} /\ t \notin AWriters /\ AReaders' = AReaders
  BY <1>1, <1>2, <1>6, <1>7 DEF AWriters, AReaders
<1>11. OuterInv'
  <2>1. Cardinality(AWriters') = Cardinality(AWriters) + 1 /\ Cardinality(AWriters) \in Nat
    BY <1>10, CountersAreSets, CountUp, CountType
  <2> QED BY <1>1, <1>10, <2>1 DEF OuterInv, Running
<1>12. awr > 0 /\ awr' > 0
  <2>1. Cardinality(AWriters) \in Nat
    BY CountersAreSets, CountType
  <2> QED BY <1>1, <2>1 DEF OuterInv, Running
<1>13. HeldInv'
  BY <1>1, <1>12 DEF HeldInv
<1>14. \A i : Holders(i)' = Holders(i) /\ RHolders(i)' = RHolders(i)
  BY <1>1, <1>6, <1>7, Kinds DEF Holders, RHolders
<1>15. InnerInv'
  <2>1. \A w \in Nested : pc'[w] = "fill" <=> pc[w] = "fill"
    BY <1>6, Kinds
  <2>2. \A p \in Plain : pc'[p] = "done" <=> pc[p] = "done"
    BY <1>6, Kinds
  <2> QED BY <1>1, <1>5, <1>14, <2>1, <2>2 DEF InnerInv, HeldW, HeldR
<1>16. ContentInv'
  BY <1>1, <1>5, <1>6, Kinds DEF ContentInv
<1>17. SawInv'
  <2>1. ASSUME NEW r \in Readers, pc[r] = "done" PROVE saw[r] = WrittenAt(SubOf[r])' /\ Slot(r).id \in Plain
    <3>1. saw[r] = WrittenAt(SubOf[r]) /\ Slot(r).id \in Plain
      BY <1>1, <2>1 DEF SawInv
    <3>2. Slot(r).state = "set" /\ SubOf[Slot(r).id] = SubOf[r] /\ pc[Slot(r).id] \in Given
      BY <2>1, Kinds DEF GotInv, SlotInv, Slot
    <3>3. SubOf[t] # SubOf[r]
      BY <1>1, <3>1, <3>2, SingleAssignment DEF Given
    <3> QED BY <1>6, <3>1, <3>3 DEF WrittenAt
  <2>2. \A c \in Checkers : pc[c] # "done"
    BY <1>1 DEF SawInv
  <2> QED BY <1>1, <1>5, <1>7, <2>1, <2>2 DEF SawInv
<1> QED BY <1>3, <1>4, <1>8, <1>9, <1>11, <1>13, <1>15, <1>16, <1>17

LEMMA StartReaderCInv == ASSUME CInv, NEW t \in Readers \cup Checkers, StartReader(t) PROVE CInv'
<1> USE DEF CInv
<1>1. /\ UNCHANGED <<main, got, saw, failed, awr, slot, ird, iwr, content>> /\ ard' = ard + 1
      /\ main = "run" /\ pc[t] = "idle" /\ pc' = [pc EXCEPT ![t] = "rule"] /\ t \in Statements
  BY Kinds DEF StartReader, Goto, inner
<1>2. \A u \in Statements : pc'[u] = IF u = t THEN "rule" ELSE pc[u]
  BY <1>1 DEF TypeOK
<1>3. TypeOK' /\ NoFailure'
  BY <1>1 DEF TypeOK, NoFailure, States
<1>4. KindInv'
  BY <1>2, Kinds DEF KindInv, NestedStates, PlainStates, ReaderStates
<1>5. \A u : Slot(u)' = Slot(u)
  BY <1>1 DEF Slot
<1>6. \A u \in Readers \cup Checkers : pc'[u] = pc[u] \/ (u = t /\ pc[u] = "idle" /\ pc'[u] = "rule")
  BY <1>1, <1>2, Kinds
<1>7. \A u \in Writers : pc'[u] = pc[u]
  BY <1>2, Kinds
<1>8. SlotInv'
  BY <1>1, <1>5, <1>7, Kinds DEF SlotInv, Slot
<1>9. GotInv'
  BY <1>1, <1>5, <1>6, <1>7, Kinds DEF GotInv
<1>10. AReaders' = AReaders \cup {t} /\ t \notin AReaders /\ AWriters' = AWriters
  BY <1>1, <1>2, <1>6, <1>7 DEF AWriters, AReaders
<1>11. OuterInv'
  <2>1. Cardinality(AReaders') = Cardinality(AReaders) + 1 /\ Cardinality(AReaders) \in Nat
    BY <1>10, CountersAreSets, CountUp, CountType
  <2> QED BY <1>1, <1>10, <2>1 DEF OuterInv, Running
<1>12. ard > 0 /\ ard' > 0
  <2>1. Cardinality(AReaders) \in Nat
    BY CountersAreSets, CountType
  <2> QED BY <1>1, <2>1 DEF OuterInv, Running
<1>13. HeldInv'
  BY <1>1, <1>12 DEF HeldInv
<1>14. \A i : Holders(i)' = Holders(i) /\ RHolders(i)' = RHolders(i)
  BY <1>1, <1>6, <1>7, Kinds DEF Holders, RHolders
<1>15. InnerInv'
  BY <1>1, <1>5, <1>7, <1>14, Kinds DEF InnerInv, HeldW, HeldR
<1>16. ContentInv'
  BY <1>1, <1>5, <1>7, Kinds DEF ContentInv
<1>17. SawInv'
  <2>1. \A s : WrittenAt(s)' = WrittenAt(s)
    BY <1>7 DEF WrittenAt
  <2> QED BY <1>1, <1>5, <1>6, <2>1 DEF SawInv
<1> QED BY <1>3, <1>4, <1>8, <1>9, <1>11, <1>13, <1>15, <1>16, <1>17

LEMMA MainDoneCInv == ASSUME CInv, MainDone PROVE CInv'
<1> USE DEF CInv
<1>1. /\ UNCHANGED <<pc, got, saw, failed, slot, ird, iwr, content>>
      /\ main = "run" /\ main' = "done" /\ awr' = awr - 1 /\ ard' = ard - 1
  BY DEF MainDone, inner
<1>2. Cardinality(AReaders) \in Nat /\ Cardinality(AWriters) \in Nat
  BY CountersAreSets, CountType
<1>3. AReaders' = AReaders /\ AWriters' = AWriters
  BY <1>1 DEF AReaders, AWriters
<1>4. OuterInv'
  BY <1>1, <1>2, <1>3 DEF OuterInv, Running
<1>5. awr > 0 /\ ard > 0 /\ awr' \in Nat /\ ard' \in Nat
  BY <1>1, <1>2 DEF OuterInv, Running
<1>6. TypeOK' /\ NoFailure' /\ KindInv'
  BY <1>1, <1>5 DEF TypeOK, NoFailure, KindInv
<1>7. SlotInv' /\ GotInv'
  BY <1>1 DEF SlotInv, GotInv, Slot
<1>8. HeldInv'
  BY <1>1, <1>5 DEF HeldInv
<1>9. \A i : Holders(i)' = Holders(i) /\ RHolders(i)' = RHolders(i) /\ Slot(i)' = Slot(i)
  BY <1>1 DEF Holders, RHolders, Slot
<1>10. InnerInv' /\ ContentInv'
  BY <1>1, <1>9 DEF InnerInv, HeldW, HeldR, ContentInv
<1>11. SawInv'
  BY <1>1, <1>9 DEF SawInv, WrittenAt
<1> QED BY <1>4, <1>6, <1>7, <1>8, <1>10, <1>11

-----------------------------------------------------------------------------
(* Nested writers. *)

LEMMA ReserveCInv == ASSUME CInv, NEW t \in Nested, Reserve(t) PROVE CInv'
<1> USE DEF CInv
<1> DEFINE s == SubOf[t]
<1>1. /\ UNCHANGED <<main, got, saw, failed, ard, awr, ird, iwr, content>>
      /\ pc[t] = "rule" /\ pc' = [pc EXCEPT ![t] = "create"] /\ t \in Statements /\ t \in Writers
      /\ s \in Subs /\ slot[s].state = "none" /\ slot' = [slot EXCEPT ![s] = Reserved]
  BY Kinds DEF Reserve, Goto, inner, Slot, SetSlot
<1>2. \A u \in Statements : pc'[u] = IF u = t THEN "create" ELSE pc[u]
  BY <1>1 DEF TypeOK
<1>3. \A q \in Subs : /\ slot'[q].id = slot[q].id /\ slot'[q].rd = slot[q].rd /\ slot'[q].wr = slot[q].wr
                      /\ slot'[q].state = IF q = s THEN "reserved" ELSE slot[q].state
  BY <1>1 DEF TypeOK, SlotInv, Reserved, Empty
<1> HIDE DEF s
<1>4. \A u \in Statements : /\ Slot(u)'.id = Slot(u).id /\ Slot(u)'.rd = Slot(u).rd /\ Slot(u)'.wr = Slot(u).wr
                            /\ Slot(u)'.state = IF SubOf[u] = s THEN "reserved" ELSE Slot(u).state
  BY <1>3, Kinds DEF Slot
<1>5. \A u \in Statements : SubOf[u] = s => Slot(u).state = "none"
  BY <1>1 DEF Slot
<1>6. TypeOK' /\ NoFailure'
  <2>1. Reserved \in [state : {"none", "reserved", "set"}, id : Writers \cup {None}, rd : Nat, wr : Nat]
    BY DEF Reserved, Empty
  <2> QED BY <1>1, <2>1 DEF TypeOK, NoFailure, States
<1>7. KindInv'
  BY <1>2, Kinds DEF KindInv, NestedStates, PlainStates, ReaderStates
<1>8. \A u \in Writers : pc'[u] = pc[u] \/ (u = t /\ pc[u] = "rule" /\ pc'[u] = "create")
  BY <1>1, <1>2, Kinds
<1>9. \A u \in Readers \cup Checkers : pc'[u] = pc[u]
  BY <1>2, Kinds
<1>10. SlotInv'
  <2>1. ASSUME NEW q \in Subs
        PROVE  /\ slot'[q].state # "set" => slot'[q].id = None /\ slot'[q].rd = 0 /\ slot'[q].wr = 0
               /\ slot'[q].state = "none" => \A w \in Writers : SubOf[w] = q => pc'[w] \in {"idle", "rule"}
               /\ slot'[q].state = "reserved" =>
                    \E w \in Nested : SubOf[w] = q /\ pc'[w] \in {"create", "fill"}
               /\ slot'[q].state = "set" =>
                    /\ slot'[q].id \in Writers /\ SubOf[slot'[q].id] = q /\ pc'[slot'[q].id] \in Given
                    /\ slot'[q].id \in Plain => slot'[q].wr = 0
    <3>1. CASE q = s
      BY <1>1, <1>2, <1>3, <3>1 DEF SlotInv, s
    <3>2. CASE q # s
      BY <1>3, <1>8, <3>2, Kinds DEF SlotInv, s, Given
    <3> QED BY <3>1, <3>2
  <2>2. \A w \in Nested : pc'[w] \in {"create", "fill"} => Slot(w)'.state = "reserved"
    BY <1>4, <1>8, Kinds DEF SlotInv, s
  <2>3. \A w \in Writers : SubOf[w] = s => pc[w] \in {"idle", "rule"}
    BY <1>1 DEF SlotInv
  <2>4. \A v, w \in Nested :
          SubOf[v] = SubOf[w] /\ pc'[v] \in {"create", "fill"} /\ pc'[w] \in {"create", "fill"} => v = w
    BY <1>8, <2>3, Kinds DEF SlotInv, s
  <2> QED BY <2>1, <2>2, <2>4 DEF SlotInv
<1>11. GotInv'
  BY <1>1, <1>4, <1>5, <1>8, <1>9, Kinds DEF GotInv, Given
<1>12. HeldInv'
  BY <1>1, <1>3 DEF HeldInv
<1>13. AWriters' = AWriters /\ AReaders' = AReaders
  BY <1>8, <1>9 DEF AWriters, AReaders
<1>14. OuterInv'
  BY <1>1, <1>13 DEF OuterInv, Running
<1>15. \A i : Holders(i)' = Holders(i) /\ RHolders(i)' = RHolders(i)
  BY <1>1, <1>8, <1>9, Kinds DEF Holders, RHolders
<1>16. InnerInv'
  <2>1. \A w \in Nested : pc'[w] = "fill" <=> pc[w] = "fill"
    BY <1>8, Kinds
  <2>2. \A p \in Plain : pc'[p] = "done" <=> pc[p] = "done"
    BY <1>8, Kinds
  <2>3. \A w \in Nested : HeldW(w)' = HeldW(w) /\ HeldR(w)' = HeldR(w)
    BY <1>4, Kinds DEF HeldW, HeldR
  <2> QED BY <1>1, <1>4, <1>15, <2>1, <2>2, <2>3, Kinds DEF InnerInv
<1>17. ContentInv'
  BY <1>1, <1>4, <1>8, Kinds DEF ContentInv
<1>18. SawInv'
  <2>1. \A q : WrittenAt(q)' = WrittenAt(q)
    BY <1>8 DEF WrittenAt
  <2> QED BY <1>1, <1>4, <1>9, <2>1, Kinds DEF SawInv
<1> QED BY <1>6, <1>7, <1>10, <1>11, <1>12, <1>14, <1>16, <1>17, <1>18

LEMMA CreateInnerCInv == ASSUME CInv, NEW t \in Nested, CreateInner(t) PROVE CInv'
<1> USE DEF CInv
<1>1. /\ UNCHANGED <<main, got, saw, failed, ard, awr, slot, content>> /\ t \in Statements /\ t \in Writers
      /\ pc[t] = "create" /\ pc' = [pc EXCEPT ![t] = "fill"]
      /\ ird' = [ird EXCEPT ![t] = Stock + 1] /\ iwr' = [iwr EXCEPT ![t] = Stock + 1]
  BY Kinds DEF CreateInner, Goto, outer
<1>2. \A u \in Statements : pc'[u] = IF u = t THEN "fill" ELSE pc[u]
  BY <1>1 DEF TypeOK
<1>3. \A w \in Writers : /\ ird'[w] = IF w = t THEN Stock + 1 ELSE ird[w]
                         /\ iwr'[w] = IF w = t THEN Stock + 1 ELSE iwr[w]
  BY <1>1 DEF TypeOK
<1>4. TypeOK' /\ NoFailure'
  BY <1>1, Kinds DEF TypeOK, NoFailure, States
<1>5. KindInv'
  BY <1>2, Kinds DEF KindInv, NestedStates, PlainStates, ReaderStates
<1>6. \A u : Slot(u)' = Slot(u)
  BY <1>1 DEF Slot
<1>7. \A u \in Writers : pc'[u] = pc[u] \/ (u = t /\ pc[u] = "create" /\ pc'[u] = "fill")
  BY <1>1, <1>2, Kinds
<1>8. \A u \in Readers \cup Checkers : pc'[u] = pc[u]
  BY <1>2, Kinds
<1>9. SlotInv'
  BY <1>1, <1>6, <1>7, Kinds DEF SlotInv, Given
<1>10. GotInv'
  BY <1>1, <1>6, <1>7, <1>8, Kinds DEF GotInv, Given
<1>11. AWriters' = AWriters /\ AReaders' = AReaders
  BY <1>7, <1>8 DEF AWriters, AReaders
<1>12. OuterInv' /\ HeldInv'
  BY <1>1, <1>11 DEF OuterInv, Running, HeldInv
<1>13. \A i : Holders(i)' = Holders(i) /\ RHolders(i)' = RHolders(i)
  BY <1>1, <1>7, <1>8, Kinds DEF Holders, RHolders
<1>14. InnerInv'
  <2>1. ASSUME NEW w \in Nested
        PROVE  IF pc'[w] = "fill" THEN iwr'[w] = Stock + 1 /\ ird'[w] = Stock + 1
               ELSE /\ iwr'[w] = HeldW(w)' + Cardinality(Holders(w)')
                    /\ ird'[w] = HeldR(w)' + Cardinality(Holders(w)') + Cardinality(RHolders(w)')
    <3>1. CASE w = t
      BY <1>1, <1>2, <1>3, <3>1
    <3>2. CASE w # t
      BY <1>3, <1>6, <1>7, <1>13, <3>2, Kinds DEF InnerInv, HeldW, HeldR
    <3> QED BY <3>1, <3>2
  <2>2. \A p \in Plain : pc'[p] = pc[p] /\ ird'[p] = ird[p] /\ iwr'[p] = iwr[p]
    BY <1>3, <1>7, Kinds
  <2> QED BY <1>6, <1>13, <2>1, <2>2 DEF InnerInv
<1>15. ContentInv'
  BY <1>1, <1>6, <1>7, Kinds DEF ContentInv
<1>16. SawInv'
  <2>1. \A q : WrittenAt(q)' = WrittenAt(q)
    BY <1>7 DEF WrittenAt
  <2> QED BY <1>1, <1>6, <1>8, <2>1 DEF SawInv
<1> QED BY <1>4, <1>5, <1>9, <1>10, <1>12, <1>14, <1>15, <1>16

LEMMA FillSlotCInv == ASSUME CInv, NEW t \in Nested, FillSlot(t) PROVE CInv'
<1> USE DEF CInv
<1> DEFINE s == SubOf[t]
<1>0. t \in Statements /\ t \in Writers /\ pc[t] = "fill" /\ t \in AWriters
  BY Kinds DEF FillSlot, Goto, AWriters
<1>1. /\ UNCHANGED <<main, saw, failed, ard, ird, iwr, content>> /\ awr' = awr - 1
      /\ pc' = [pc EXCEPT ![t] = "have"] /\ got' = [got EXCEPT ![t] = t]
      /\ s \in Subs /\ slot' = [slot EXCEPT ![s] = Holding(t, Stock, Stock)]
  BY <1>0, WriterKeepsOpen, Kinds DEF FillSlot, AClosed, Goto, inner, SetSlot
<1>2. \A u \in Statements : /\ pc'[u] = IF u = t THEN "have" ELSE pc[u]
                            /\ got'[u] = IF u = t THEN t ELSE got[u]
  BY <1>1 DEF TypeOK
<1>3. \A q \in Subs : slot'[q] = IF q = s THEN Holding(t, Stock, Stock) ELSE slot[q]
  BY <1>1 DEF TypeOK
<1>4. slot[s].state = "reserved" /\ slot[s].id = None
  BY <1>0, <1>1 DEF SlotInv, Slot
<1> HIDE DEF s
<1>5. \A u \in Statements : Slot(u)' = IF SubOf[u] = s THEN Holding(t, Stock, Stock) ELSE Slot(u)
  BY <1>3, Kinds DEF Slot
<1>6. Holding(t, Stock, Stock) = [state |-> "set", id |-> t, rd |-> Stock, wr |-> Stock]
  BY DEF Holding
<1>7. \A u \in Statements : SubOf[u] = s => Slot(u).state = "reserved" /\ Slot(u).id = None
  BY <1>4 DEF Slot
<1>8. \A u \in Writers : SubOf[u] = s /\ u # t => u \in Nested /\ pc[u] \in {"idle", "rule", "poll"}
  <2>1. \A u \in Writers : SubOf[u] = s /\ u # t => u \in Nested
    BY SingleAssignment, <1>0, Kinds DEF s
  <2>2. \A u \in Nested : SubOf[u] = s => pc[u] \notin Given
    BY <1>7, Kinds DEF GotInv
  <2>3. \A u \in Nested : SubOf[u] = s /\ u # t => pc[u] \notin {"create", "fill"}
    BY <1>0 DEF SlotInv, s
  <2> QED BY <2>1, <2>2, <2>3 DEF KindInv, NestedStates, Given
<1>9. \A r \in Readers : SubOf[r] = s => pc[r] \notin {"ref", "wait", "done"}
  BY <1>7, Kinds DEF GotInv
<1>10. \A u \in Writers : pc'[u] = pc[u] \/ (u = t /\ pc[u] = "fill" /\ pc'[u] = "have")
  BY <1>0, <1>2, Kinds
<1>11. \A u \in Readers \cup Checkers : pc'[u] = pc[u] /\ got'[u] = got[u]
  BY <1>0, <1>2, Kinds
<1>12. TypeOK' /\ NoFailure'
  <2>1. Holding(t, Stock, Stock) \in [state : {"none", "reserved", "set"}, id : Writers \cup {None}, rd : Nat, wr : Nat]
    BY <1>0, Kinds DEF Holding
  <2>2. awr' \in Nat
    BY <1>0, <1>1, WriterKeepsOpen
  <2> QED BY <1>0, <1>1, <2>1, <2>2 DEF TypeOK, NoFailure, States
<1>13. KindInv'
  BY <1>10, <1>11, Kinds DEF KindInv, NestedStates, PlainStates, ReaderStates
<1>14. SlotInv'
  <2>1. ASSUME NEW q \in Subs
        PROVE  /\ slot'[q].state # "set" => slot'[q].id = None /\ slot'[q].rd = 0 /\ slot'[q].wr = 0
               /\ slot'[q].state = "none" => \A w \in Writers : SubOf[w] = q => pc'[w] \in {"idle", "rule"}
               /\ slot'[q].state = "reserved" =>
                    \E w \in Nested : SubOf[w] = q /\ pc'[w] \in {"create", "fill"}
               /\ slot'[q].state = "set" =>
                    /\ slot'[q].id \in Writers /\ SubOf[slot'[q].id] = q /\ pc'[slot'[q].id] \in Given
                    /\ slot'[q].id \in Plain => slot'[q].wr = 0
    <3>1. CASE q = s
      <4>1. slot'[q].state = "set" /\ slot'[q].id = t
        BY <1>3, <1>6, <3>1
      <4> QED BY <4>1, <1>0, <1>2, <3>1, Kinds DEF s, Given
    <3>2. CASE q # s
      <4>1. slot'[q] = slot[q]
        BY <1>3, <3>2
      <4>2. \A w \in Writers : SubOf[w] = q => pc'[w] = pc[w]
        BY <1>10, <3>2 DEF s
      <4> QED BY <4>1, <4>2, Kinds DEF SlotInv
    <3> QED BY <3>1, <3>2
  <2>2. \A w \in Nested : pc'[w] \in {"create", "fill"} =>
          pc[w] \in {"create", "fill"} /\ SubOf[w] # s
    BY <1>0, <1>2, <1>8, Kinds
  <2>3. \A w \in Nested : pc'[w] \in {"create", "fill"} => Slot(w)'.state = "reserved"
    BY <1>5, <2>2, Kinds DEF SlotInv
  <2> QED BY <2>1, <2>2, <2>3 DEF SlotInv
<1>15. GotInv'
  <2>1. ASSUME NEW w \in Nested
        PROVE  IF pc'[w] \in Given THEN Slot(w)'.state = "set" /\ got'[w] = Slot(w)'.id ELSE got'[w] = None
    <3>1. CASE w = t
      BY <1>0, <1>2, <1>5, <1>6, <3>1 DEF s, Given
    <3>2. CASE w # t
      <4>1. w \in Statements /\ w \in Writers /\ pc'[w] = pc[w] /\ got'[w] = got[w]
        BY <1>2, <3>2, Kinds
      <4>2. CASE SubOf[w] = s
        <5>1. pc[w] \notin Given
          BY <1>8, <3>2, <4>1, <4>2 DEF Given
        <5> QED BY <4>1, <5>1 DEF GotInv
      <4>3. CASE SubOf[w] # s
        BY <1>5, <4>1, <4>3 DEF GotInv
      <4> QED BY <4>2, <4>3
    <3> QED BY <3>1, <3>2
  <2>2. \A r \in Readers : pc[r] \in {"ref", "wait", "done"} => Slot(r)' = Slot(r)
    BY <1>5, <1>9, Kinds
  <2>3. \A p \in Plain : pc'[p] = pc[p] /\ Slot(p)' = Slot(p)
    BY <1>0, <1>5, <1>8, <1>10, Kinds
  <2> QED BY <1>11, <2>1, <2>2, <2>3 DEF GotInv
<1>16. HeldInv'
  <2>1. awr > 0 /\ awr \in Nat
    BY <1>0, WriterKeepsOpen
  <2>2. ASSUME NEW q \in Subs, slot'[q].state = "set"
        PROVE  slot'[q].rd > 0 /\ (slot'[q].id \in Nested => slot'[q].wr > 0)
    <3>1. CASE q = s
      BY <1>3, <1>6, <3>1, Kinds
    <3>2. CASE q # s
      BY <1>3, <2>1, <2>2, <3>2 DEF HeldInv
    <3> QED BY <3>1, <3>2
  <2> QED BY <2>2 DEF HeldInv
<1>17. OuterInv'
  <2>1. AWriters' = AWriters \ {t} /\ AReaders' = AReaders
    <3>1. \A u \in Writers : pc'[u] \in {"rule", "create", "fill", "poll"}
                              <=> pc[u] \in {"rule", "create", "fill", "poll"} /\ u # t
      BY <1>0, <1>2, Kinds
    <3> QED BY <1>11, <3>1 DEF AWriters, AReaders
  <2>2. Cardinality(AWriters') = Cardinality(AWriters) - 1 /\ Cardinality(AWriters) \in Nat
    BY <1>0, <2>1, CountersAreSets, CountDown, CountType
  <2> QED BY <1>1, <2>1, <2>2 DEF OuterInv, Running
<1>18. \A u \in Nested \cup Readers : got[u] # t
  <2>1. \A u \in Nested \cup Readers : got[u] = t => Slot(u).state = "set" /\ Slot(u).id = t
    BY <1>0, Kinds DEF GotInv
  <2>2. \A u \in Nested \cup Readers : got[u] = t => SubOf[u] = s
    BY <2>1, Kinds DEF SlotInv, Slot, s
  <2> QED BY <1>7, <2>1, <2>2, Kinds
<1>19. /\ Holders(t) = {} /\ RHolders(t) = {} /\ Holders(t)' = {t} /\ RHolders(t)' = {}
       /\ \A i : i # t => Holders(i)' = Holders(i) /\ RHolders(i)' = RHolders(i)
  <2>1. Holders(t) = {} /\ RHolders(t) = {}
    BY <1>18 DEF Holders, RHolders
  <2>2. Holders(t)' = {t} /\ RHolders(t)' = {}
    BY <1>0, <1>2, <1>11, <1>18, Kinds DEF Holders, RHolders
  <2>3. ASSUME NEW i, i # t PROVE Holders(i)' = Holders(i) /\ RHolders(i)' = RHolders(i)
    <3>1. \A w \in Nested : (got'[w] = i /\ pc'[w] \in {"have", "ref", "insert"})
                              <=> (got[w] = i /\ pc[w] \in {"have", "ref", "insert"})
      BY <1>0, <1>2, <2>3, Kinds
    <3> QED BY <1>11, <3>1 DEF Holders, RHolders
  <2> QED BY <2>1, <2>2, <2>3
<1>20. InnerInv'
  <2>1. ASSUME NEW w \in Nested
        PROVE  IF pc'[w] = "fill" THEN iwr'[w] = Stock + 1 /\ ird'[w] = Stock + 1
               ELSE /\ iwr'[w] = HeldW(w)' + Cardinality(Holders(w)')
                    /\ ird'[w] = HeldR(w)' + Cardinality(Holders(w)') + Cardinality(RHolders(w)')
    <3>1. CASE w = t
      <4>1. HeldW(w)' = Stock /\ HeldR(w)' = Stock
        BY <1>0, <1>5, <1>6, <3>1 DEF HeldW, HeldR, s
      <4>2. Cardinality(Holders(w)') = 1 /\ Cardinality(RHolders(w)') = 0
        BY <1>19, <3>1, FS_EmptySet, FS_Singleton
      <4>3. iwr[w] = Stock + 1 /\ ird[w] = Stock + 1
        BY <1>0, <3>1 DEF InnerInv
      <4> QED BY <1>0, <1>1, <1>2, <3>1, <4>1, <4>2, <4>3, Kinds
    <3>2. CASE w # t
      <4>1. HeldW(w)' = HeldW(w) /\ HeldR(w)' = HeldR(w)
        <5>1. CASE SubOf[w] = s
          <6>1. Slot(w)'.id = t /\ Slot(w).id = None
            BY <1>5, <1>6, <1>7, <5>1, Kinds
          <6> QED BY <3>2, <6>1, Kinds DEF HeldW, HeldR
        <5>2. CASE SubOf[w] # s
          BY <1>5, <5>2, Kinds DEF HeldW, HeldR
        <5> QED BY <5>1, <5>2
      <4>2. pc'[w] = pc[w]
        BY <1>2, <3>2, Kinds
      <4> QED BY <1>1, <1>19, <3>2, <4>1, <4>2 DEF InnerInv
    <3> QED BY <3>1, <3>2
  <2>2. \A p \in Plain : pc'[p] = pc[p] /\ Slot(p)' = Slot(p) /\ RHolders(p)' = RHolders(p)
    BY <1>0, <1>5, <1>8, <1>10, <1>19, Kinds
  <2> QED BY <1>1, <2>1, <2>2 DEF InnerInv
<1>21. ContentInv'
  <2>1. \A w \in Nested : pc'[w] = "done" <=> pc[w] = "done"
    BY <1>10, Kinds
  <2>2. \A i \in Nested : SubOf[i] = s => Slot(i).id # i /\ \A w \in Nested : SubOf[w] = s => pc[w] # "done"
    BY <1>0, <1>7, <1>8, Kinds
  <2>3. \A i \in Nested : SubOf[i] # s => Slot(i)' = Slot(i)
    BY <1>5, Kinds
  <2>4. ASSUME NEW i \in Nested
        PROVE  content[i] = {w \in Nested : SubOf[w] = SubOf[i] /\ pc'[w] = "done" /\ Slot(i)'.id = i}
    <3>1. CASE SubOf[i] = s
      BY <2>1, <2>2, <3>1 DEF ContentInv
    <3>2. CASE SubOf[i] # s
      BY <2>1, <2>3, <3>2 DEF ContentInv
    <3> QED BY <3>1, <3>2
  <2> QED BY <1>1, <2>4 DEF ContentInv
<1>22. SawInv'
  <2>1. \A q : WrittenAt(q)' = WrittenAt(q)
    BY <1>10 DEF WrittenAt
  <2>2. \A r \in Readers : pc[r] = "done" => Slot(r)' = Slot(r)
    BY <1>5, <1>9, Kinds
  <2> QED BY <1>1, <1>11, <2>1, <2>2 DEF SawInv
<1> QED BY <1>12, <1>13, <1>14, <1>15, <1>16, <1>17, <1>20, <1>21, <1>22

\* Giving away a reference leaves the slot at least one, and the balance as it was.
LEMMA LessMore ==
  ASSUME NEW h \in Nat, h > 0, NEW c \in Nat
  PROVE  /\ Less(h) \in Nat /\ Less(h) > 0 /\ More(c, h) \in Nat
         /\ More(c, h) - Less(h) = (c - h) + 1
BY DEF Less, More

LEMMA ObtainCInv ==
  ASSUME CInv, NEW t \in Nested, NEW from \in {"rule", "poll"}, Slot(t).state = "set", Obtain(t, from)
  PROVE  CInv'
<1> USE DEF CInv
<1> DEFINE s == SubOf[t]
<1>i. PICK i \in Nested : i = slot[s].id /\ SubOf[i] = s /\ slot[s].state = "set"
  BY SlotIds DEF Slot
<1>0. t \in Statements /\ t \in Writers /\ pc[t] = from /\ t \in AWriters /\ awr > 0 /\ awr \in Nat
  <2>1. t \in Statements /\ t \in Writers /\ pc[t] = from /\ t \in AWriters
    BY Kinds DEF Obtain, Goto, AWriters
  <2> QED BY <2>1, WriterKeepsOpen
<1>1. /\ UNCHANGED <<main, saw, failed, ard, content>> /\ awr' = awr - 1
      /\ pc' = [pc EXCEPT ![t] = "have"] /\ got' = [got EXCEPT ![t] = i]
      /\ s \in Subs /\ slot' = [slot EXCEPT ![s] = Holding(i, Less(slot[s].rd), Less(slot[s].wr))]
      /\ ird' = [ird EXCEPT ![i] = More(@, slot[s].rd)]
      /\ iwr' = [iwr EXCEPT ![i] = More(@, slot[s].wr)]
  BY <1>i, <1>0, Kinds DEF Obtain, Goto, SetSlot, Slot
<1>2. i \in Nested /\ i \in Writers /\ i \in Statements /\ SubOf[i] = s /\ pc[i] \in Given /\ slot[s].state = "set" /\ i # t
  <2>1. pc[i] \in Given
    BY <1>i, <1>1 DEF SlotInv
  <2> QED BY <1>i, <1>0, <2>1, Kinds DEF Given
<1>3. slot[s].rd \in Nat /\ slot[s].wr \in Nat /\ slot[s].rd > 0 /\ slot[s].wr > 0
  BY <1>i, <1>0, <1>1 DEF TypeOK, HeldInv
<1>4. ird[i] \in Nat /\ iwr[i] \in Nat
  BY <1>2 DEF TypeOK
<1> DEFINE r == Less(slot[s].rd)
           v == Less(slot[s].wr)
<1>5. r \in Nat /\ r > 0 /\ v \in Nat /\ v > 0
  BY <1>3, <1>4, LessMore
<1>6. \A w \in Writers : ird'[w] \in Nat /\ iwr'[w] \in Nat /\ (w # i => ird'[w] = ird[w] /\ iwr'[w] = iwr[w])
  BY <1>1, <1>2, <1>3, <1>4, LessMore DEF TypeOK
<1>7. ird'[i] - r = (ird[i] - slot[s].rd) + 1 /\ iwr'[i] - v = (iwr[i] - slot[s].wr) + 1
  <2>1. ird'[i] = More(ird[i], slot[s].rd) /\ iwr'[i] = More(iwr[i], slot[s].wr)
    BY <1>1, <1>2 DEF TypeOK
  <2> QED BY <1>3, <1>4, <2>1, LessMore
<1>8. \A u \in Statements : /\ pc'[u] = IF u = t THEN "have" ELSE pc[u]
                            /\ got'[u] = IF u = t THEN i ELSE got[u]
  BY <1>1 DEF TypeOK
<1>9. \A q \in Subs : q # s => slot'[q] = slot[q]
  BY <1>1 DEF TypeOK
<1>10. slot'[s].state = "set" /\ slot'[s].id = i /\ slot'[s].rd = r /\ slot'[s].wr = v
  BY <1>1 DEF TypeOK, Holding
<1>11. TypeOK' /\ NoFailure'
  <2>1. Holding(i, r, v) \in [state : {"none", "reserved", "set"}, id : Writers \cup {None}, rd : Nat, wr : Nat]
    BY <1>2, <1>5 DEF Holding
  <2>2. slot' \in [Subs -> [state : {"none", "reserved", "set"}, id : Writers \cup {None}, rd : Nat, wr : Nat]]
    BY <1>1, <2>1 DEF TypeOK
  <2>3. ird' \in [Writers -> Nat] /\ iwr' \in [Writers -> Nat]
    BY <1>1, <1>6 DEF TypeOK
  <2>4. awr' \in Nat
    BY <1>0, <1>1
  <2> QED BY <1>0, <1>1, <1>2, <2>2, <2>3, <2>4 DEF TypeOK, NoFailure, States
<1>12. got[t] = None
  BY <1>0 DEF GotInv, Given
<1> HIDE DEF s, r, v
<1>13. \A q \in Subs : slot'[q].state = slot[q].state /\ slot'[q].id = slot[q].id
  BY <1>i, <1>9, <1>10
<1>14. \A u \in Statements : Slot(u)'.state = Slot(u).state /\ Slot(u)'.id = Slot(u).id
  BY <1>13, Kinds DEF Slot
<1>15. \A u \in Writers : pc'[u] = pc[u] \/ (u = t /\ pc[u] \in {"rule", "poll"} /\ pc'[u] = "have")
  BY <1>0, <1>8, Kinds
<1>16. \A u \in Readers \cup Checkers : pc'[u] = pc[u] /\ got'[u] = got[u]
  BY <1>0, <1>8, Kinds
<1>17. KindInv'
  BY <1>15, <1>16, Kinds DEF KindInv, NestedStates, PlainStates, ReaderStates
<1>18. SlotInv'
  <2>1. ASSUME NEW q \in Subs
        PROVE  /\ slot'[q].state # "set" => slot'[q].id = None /\ slot'[q].rd = 0 /\ slot'[q].wr = 0
               /\ slot'[q].state = "none" => \A w \in Writers : SubOf[w] = q => pc'[w] \in {"idle", "rule"}
               /\ slot'[q].state = "reserved" =>
                    \E w \in Nested : SubOf[w] = q /\ pc'[w] \in {"create", "fill"}
               /\ slot'[q].state = "set" =>
                    /\ slot'[q].id \in Writers /\ SubOf[slot'[q].id] = q /\ pc'[slot'[q].id] \in Given
                    /\ slot'[q].id \in Plain => slot'[q].wr = 0
    <3>1. CASE q = s
      <4>1. pc'[i] = pc[i]
        BY <1>2, <1>8
      <4> QED BY <1>2, <1>10, <3>1, <4>1, Kinds
    <3>2. CASE q # s
      <4>1. slot'[q] = slot[q]
        BY <1>9, <3>2
      <4>2. \A w \in Writers : SubOf[w] = q => pc'[w] = pc[w]
        BY <1>15, <3>2 DEF s
      <4> QED BY <4>1, <4>2, Kinds DEF SlotInv
    <3> QED BY <3>1, <3>2
  <2>2. \A w \in Nested : pc'[w] \in {"create", "fill"} => pc[w] \in {"create", "fill"}
    BY <1>15, Kinds
  <2> QED BY <1>14, <2>1, <2>2, Kinds DEF SlotInv
<1>19. GotInv'
  <2>1. ASSUME NEW w \in Nested
        PROVE  IF pc'[w] \in Given THEN Slot(w)'.state = "set" /\ got'[w] = Slot(w)'.id ELSE got'[w] = None
    <3>1. CASE w = t
      BY <1>i, <1>0, <1>8, <1>14, <3>1 DEF s, Slot, Given
    <3>2. CASE w # t
      BY <1>8, <1>14, <3>2, Kinds DEF GotInv
    <3> QED BY <3>1, <3>2
  <2>2. \A p \in Plain : pc'[p] = pc[p]
    BY <1>15, Kinds
  <2> QED BY <1>14, <1>16, <2>1, <2>2, Kinds DEF GotInv
<1>20. HeldInv'
  <2>1. ASSUME NEW q \in Subs, slot'[q].state = "set"
        PROVE  slot'[q].rd > 0 /\ (slot'[q].id \in Nested => slot'[q].wr > 0)
    <3>1. CASE q = s
      BY <1>5, <1>10, <3>1
    <3>2. CASE q # s
      BY <1>0, <1>9, <2>1, <3>2 DEF HeldInv
    <3> QED BY <3>1, <3>2
  <2> QED BY <2>1 DEF HeldInv
<1>21. OuterInv'
  <2>1. AWriters' = AWriters \ {t} /\ AReaders' = AReaders
    <3>1. \A u \in Writers : pc'[u] \in {"rule", "create", "fill", "poll"}
                              <=> pc[u] \in {"rule", "create", "fill", "poll"} /\ u # t
      BY <1>0, <1>8, Kinds
    <3> QED BY <1>16, <3>1 DEF AWriters, AReaders
  <2>2. Cardinality(AWriters') = Cardinality(AWriters) - 1 /\ Cardinality(AWriters) \in Nat
    BY <1>0, <2>1, CountersAreSets, CountDown, CountType
  <2> QED BY <1>1, <2>1, <2>2 DEF OuterInv, Running
<1>22. /\ Holders(i)' = Holders(i) \cup {t} /\ t \notin Holders(i)
       /\ \A j : RHolders(j)' = RHolders(j)
       /\ \A j : j # i => Holders(j)' = Holders(j)
  <2>1. ASSUME NEW w \in Nested, NEW j
        PROVE  (got'[w] = j /\ pc'[w] \in {"have", "ref", "insert"})
                 <=> \/ w = t /\ j = i
                     \/ got[w] = j /\ pc[w] \in {"have", "ref", "insert"}
    BY <1>0, <1>2, <1>8, Kinds
  <2>2. \A j : RHolders(j)' = RHolders(j)
    BY <1>16 DEF RHolders
  <2>3. t \notin Holders(i)
    BY <1>0 DEF Holders
  <2>4. Holders(i)' = Holders(i) \cup {t}
    BY <2>1 DEF Holders
  <2>5. ASSUME NEW j, j # i PROVE Holders(j)' = Holders(j)
    BY <2>1, <2>5 DEF Holders
  <2> QED BY <2>2, <2>3, <2>4, <2>5
<1>23. InnerInv'
  <2>1. ASSUME NEW w \in Nested
        PROVE  IF pc'[w] = "fill" THEN iwr'[w] = Stock + 1 /\ ird'[w] = Stock + 1
               ELSE /\ iwr'[w] = HeldW(w)' + Cardinality(Holders(w)')
                    /\ ird'[w] = HeldR(w)' + Cardinality(Holders(w)') + Cardinality(RHolders(w)')
    <3>1. CASE w = i
      <4>1. HeldW(w)' = v /\ HeldR(w)' = r /\ HeldW(w) = slot[s].wr /\ HeldR(w) = slot[s].rd
        BY <1>i, <1>2, <1>10, <3>1 DEF HeldW, HeldR, Slot
      <4>2. Cardinality(Holders(w)') = Cardinality(Holders(w)) + 1 /\ Cardinality(Holders(w)) \in Nat
            /\ Cardinality(RHolders(w)) \in Nat /\ Cardinality(RHolders(w)') = Cardinality(RHolders(w))
        BY <1>22, <3>1, CountersAreSets, CountUp, CountType
      <4>3. pc[w] # "fill" /\ pc'[w] # "fill"
        BY <1>2, <1>8, <3>1 DEF Given
      <4>4. /\ iwr[w] = slot[s].wr + Cardinality(Holders(w))
            /\ ird[w] = slot[s].rd + Cardinality(Holders(w)) + Cardinality(RHolders(w))
        BY <4>1, <4>3 DEF InnerInv
      <4>5. ird'[w] \in Nat /\ iwr'[w] \in Nat
        BY <1>2, <1>6, <3>1
      <4>6. iwr'[w] = v + Cardinality(Holders(w)')
        BY <1>3, <1>4, <1>5, <1>7, <3>1, <4>2, <4>4, <4>5
      <4>7. ird'[w] = r + Cardinality(Holders(w)') + Cardinality(RHolders(w)')
        BY <1>3, <1>4, <1>5, <1>7, <3>1, <4>2, <4>4, <4>5
      <4> QED BY <4>1, <4>3, <4>6, <4>7
    <3>2. CASE w # i
      <4>1. HeldW(w)' = HeldW(w) /\ HeldR(w)' = HeldR(w)
        <5>1. CASE SubOf[w] = s
          <6>1. Slot(w)'.id # w /\ Slot(w).id # w
            BY <1>i, <1>2, <1>10, <3>2, <5>1 DEF Slot
          <6> QED BY <6>1 DEF HeldW, HeldR
        <5>2. CASE SubOf[w] # s
          BY <1>9, <5>2, Kinds DEF HeldW, HeldR, Slot
        <5> QED BY <5>1, <5>2
      <4>2. pc'[w] = "fill" <=> pc[w] = "fill"
        BY <1>15, Kinds
      <4>3. ird'[w] = ird[w] /\ iwr'[w] = iwr[w]
        BY <1>6, <3>2, Kinds
      <4> QED BY <1>22, <3>2, <4>1, <4>2, <4>3 DEF InnerInv
    <3> QED BY <3>1, <3>2
  <2>2. \A p \in Plain : SubOf[p] # s /\ p # i
    BY <1>2, SingleAssignment, Kinds
  <2>3. \A p \in Plain : pc'[p] = pc[p] /\ Slot(p)' = Slot(p) /\ ird'[p] = ird[p] /\ iwr'[p] = iwr[p]
    BY <1>6, <1>9, <1>15, <2>2, Kinds DEF Slot
  <2> QED BY <1>22, <2>1, <2>3 DEF InnerInv
<1>24. ContentInv'
  <2>1. \A w \in Nested : pc'[w] = "done" <=> pc[w] = "done"
    BY <1>15, Kinds
  <2> QED BY <1>1, <1>14, <2>1, Kinds DEF ContentInv
<1>25. SawInv'
  <2>1. \A q : WrittenAt(q)' = WrittenAt(q)
    BY <1>15 DEF WrittenAt
  <2> QED BY <1>1, <1>14, <1>16, <2>1, Kinds DEF SawInv
<1> QED BY <1>11, <1>17, <1>18, <1>19, <1>20, <1>21, <1>23, <1>24, <1>25

LEMMA InsertMemberCInv == ASSUME CInv, NEW t \in Nested, pc[t] = "insert", InsertMember(t) PROVE CInv'
<1> USE DEF CInv
<1> DEFINE s == SubOf[t]
<1>i. PICK i \in Nested : i = slot[s].id /\ SubOf[i] = s /\ slot[s].state = "set" /\ got[t] = i
  <2>1. Slot(t).state = "set" /\ got[t] = Slot(t).id
    BY DEF GotInv, Given
  <2> QED BY <2>1, SlotIds DEF Slot
<1>0. t \in Statements /\ t \in Writers /\ i \in Writers /\ i \in Statements /\ t \in Holders(i) /\ s \in Subs
  BY <1>i, Kinds DEF Holders
<1>1. pc[i] # "fill"
  BY <1>i, <1>0 DEF SlotInv, Given
<1>2. slot[s].rd \in Nat /\ slot[s].wr \in Nat
  BY <1>0 DEF TypeOK
<1>3. /\ Cardinality(Holders(i) \ {t}) = Cardinality(Holders(i)) - 1 /\ Cardinality(Holders(i)) > 0
      /\ Cardinality(Holders(i)) \in Nat /\ Cardinality(RHolders(i)) \in Nat
  BY <1>0, CountersAreSets, CountDown, CountType
<1>4. /\ iwr[i] = slot[s].wr + Cardinality(Holders(i))
      /\ ird[i] = slot[s].rd + Cardinality(Holders(i)) + Cardinality(RHolders(i))
  BY <1>i, <1>1 DEF InnerInv, HeldW, HeldR, Slot
<1>5. iwr[i] # 0 /\ iwr[i] - 1 \in Nat /\ ird[i] - 1 \in Nat
  BY <1>2, <1>3, <1>4
<1>6. /\ UNCHANGED <<main, got, saw, failed, ard, awr, slot>>
      /\ pc' = [pc EXCEPT ![t] = "done"] /\ content' = [content EXCEPT ![i] = @ \cup {t}]
      /\ iwr' = [iwr EXCEPT ![i] = @ - 1] /\ ird' = [ird EXCEPT ![i] = @ - 1]
  BY <1>i, <1>5 DEF InsertMember, Goto, outer
<1>7. \A u \in Statements : pc'[u] = IF u = t THEN "done" ELSE pc[u]
  BY <1>6 DEF TypeOK
<1>8. \A w \in Writers : /\ ird'[w] = IF w = i THEN ird[i] - 1 ELSE ird[w]
                         /\ iwr'[w] = IF w = i THEN iwr[i] - 1 ELSE iwr[w]
                         /\ content'[w] = IF w = i THEN content[i] \cup {t} ELSE content[w]
  BY <1>6 DEF TypeOK
<1> HIDE DEF s
<1>9. TypeOK' /\ NoFailure'
  <2>1. ird' \in [Writers -> Nat] /\ iwr' \in [Writers -> Nat]
    BY <1>5, <1>6 DEF TypeOK
  <2>2. content' \in [Writers -> SUBSET Writers]
    BY <1>0, <1>6 DEF TypeOK
  <2> QED BY <1>0, <1>6, <2>1, <2>2 DEF TypeOK, NoFailure, States
<1>10. \A u : Slot(u)' = Slot(u)
  BY <1>6 DEF Slot
<1>11. \A u \in Writers : pc'[u] = pc[u] \/ (u = t /\ pc[u] = "insert" /\ pc'[u] = "done")
  BY <1>7, Kinds
<1>12. \A u \in Readers \cup Checkers : pc'[u] = pc[u]
  BY <1>0, <1>7, Kinds
<1>13. KindInv'
  BY <1>11, <1>12, Kinds DEF KindInv, NestedStates, PlainStates, ReaderStates
<1>14. SlotInv'
  BY <1>6, <1>10, <1>11, Kinds DEF SlotInv, Given
<1>15. GotInv'
  BY <1>6, <1>10, <1>11, <1>12, Kinds DEF GotInv, Given
<1>16. AWriters' = AWriters /\ AReaders' = AReaders
  BY <1>11, <1>12 DEF AWriters, AReaders
<1>17. OuterInv' /\ HeldInv'
  BY <1>6, <1>16 DEF OuterInv, Running, HeldInv
<1>18. /\ Holders(i)' = Holders(i) \ {t}
       /\ \A j : RHolders(j)' = RHolders(j)
       /\ \A j : j # i => Holders(j)' = Holders(j)
  <2>1. ASSUME NEW w \in Nested, NEW j
        PROVE  (got'[w] = j /\ pc'[w] \in {"have", "ref", "insert"})
                 <=> got[w] = j /\ pc[w] \in {"have", "ref", "insert"} /\ w # t
    BY <1>6, <1>7, Kinds
  <2>2. \A j : RHolders(j)' = RHolders(j)
    BY <1>6, <1>12 DEF RHolders
  <2>3. Holders(i)' = Holders(i) \ {t}
    BY <2>1 DEF Holders
  <2>4. ASSUME NEW j, j # i PROVE Holders(j)' = Holders(j)
    BY <1>i, <2>1, <2>4 DEF Holders
  <2> QED BY <2>2, <2>3, <2>4
<1>19. InnerInv'
  <2>1. ASSUME NEW w \in Nested
        PROVE  IF pc'[w] = "fill" THEN iwr'[w] = Stock + 1 /\ ird'[w] = Stock + 1
               ELSE /\ iwr'[w] = HeldW(w)' + Cardinality(Holders(w)')
                    /\ ird'[w] = HeldR(w)' + Cardinality(Holders(w)') + Cardinality(RHolders(w)')
    <3>1. CASE w = i
      <4>1. HeldW(w)' = slot[s].wr /\ HeldR(w)' = slot[s].rd
        BY <1>i, <1>6, <3>1 DEF HeldW, HeldR, Slot
      <4>2. Cardinality(Holders(w)') = Cardinality(Holders(i)) - 1 /\ Cardinality(RHolders(w)') = Cardinality(RHolders(i))
        BY <1>3, <1>18, <3>1
      <4>3. pc'[w] # "fill"
        BY <1>1, <1>7, <1>0, <3>1
      <4>4. iwr'[w] = iwr[i] - 1 /\ ird'[w] = ird[i] - 1
        BY <1>0, <1>8, <3>1
      <4>5. iwr'[w] = HeldW(w)' + Cardinality(Holders(w)')
        BY <1>2, <1>3, <1>4, <4>1, <4>2, <4>4
      <4>6. ird'[w] = HeldR(w)' + Cardinality(Holders(w)') + Cardinality(RHolders(w)')
        BY <1>2, <1>3, <1>4, <4>1, <4>2, <4>4
      <4> QED BY <4>3, <4>5, <4>6
    <3>2. CASE w # i
      <4>1. HeldW(w)' = HeldW(w) /\ HeldR(w)' = HeldR(w)
        BY <1>10 DEF HeldW, HeldR
      <4>2. pc'[w] = "fill" <=> pc[w] = "fill"
        BY <1>11, Kinds
      <4>3. ird'[w] = ird[w] /\ iwr'[w] = iwr[w]
        BY <1>8, <3>2, Kinds
      <4> QED BY <1>18, <3>2, <4>1, <4>2, <4>3 DEF InnerInv
    <3> QED BY <3>1, <3>2
  <2>2. \A p \in Plain : pc'[p] = pc[p] /\ ird'[p] = ird[p] /\ iwr'[p] = iwr[p]
    BY <1>8, <1>11, Kinds
  <2> QED BY <1>10, <1>18, <2>1, <2>2 DEF InnerInv
<1>20. ContentInv'
  <2>1. ASSUME NEW j \in Nested
        PROVE  content'[j] = {w \in Nested : SubOf[w] = SubOf[j] /\ pc'[w] = "done" /\ Slot(j)'.id = j}
    <3>1. content[j] = {w \in Nested : SubOf[w] = SubOf[j] /\ pc[w] = "done" /\ Slot(j).id = j}
      BY DEF ContentInv
    <3>2. \A w \in Nested : pc'[w] = "done" <=> pc[w] = "done" \/ w = t
      BY <1>7, Kinds
    <3>3. CASE j = i
      <4>1. Slot(j).id = j /\ SubOf[j] = SubOf[t] /\ content'[j] = content[j] \cup {t}
        BY <1>i, <1>0, <1>8, <3>3 DEF Slot, s
      <4> QED BY <1>10, <3>1, <3>2, <4>1
    <3>4. CASE j # i
      <4>1. SubOf[j] = SubOf[t] => Slot(j).id # j
        BY <1>i, <3>4 DEF Slot, s
      <4>2. content'[j] = content[j]
        BY <1>8, <3>4, Kinds
      <4> QED BY <1>10, <3>1, <3>2, <4>1, <4>2
    <3> QED BY <3>3, <3>4
  <2>2. \A p \in Plain : content'[p] = {p}
    BY <1>8, Kinds DEF ContentInv
  <2> QED BY <2>1, <2>2 DEF ContentInv
<1>21. SawInv'
  <2>1. \A q : WrittenAt(q)' = WrittenAt(q)
    BY <1>11 DEF WrittenAt
  <2> QED BY <1>6, <1>10, <1>12, <2>1 DEF SawInv
<1> QED BY <1>9, <1>13, <1>14, <1>15, <1>17, <1>19, <1>20, <1>21

-----------------------------------------------------------------------------
(* Arrays inserted whole. *)

LEMMA InsertPlainCInv == ASSUME CInv, NEW t \in Plain, InsertPlain(t) PROVE CInv'
<1> USE DEF CInv
<1> DEFINE s == SubOf[t]
<1>0. /\ t \in Statements /\ t \in Writers /\ t \notin Nested /\ pc[t] = "rule" /\ t \in AWriters
      /\ s \in Subs
  BY Kinds DEF InsertPlain, Goto, AWriters
<1>1. awr > 0 /\ awr \in Nat
  BY <1>0, WriterKeepsOpen
<1>2. slot[s].state = "none" /\ slot[s].id = None
  BY <1>0, SlotIds DEF Slot, SlotInv
<1>3. /\ UNCHANGED <<main, got, saw, failed, ard, ird, iwr, content>> /\ awr' = awr - 1
      /\ pc' = [pc EXCEPT ![t] = "done"] /\ slot' = [slot EXCEPT ![s] = Holding(t, 1, 0)]
  BY <1>1, <1>2 DEF InsertPlain, AClosed, Goto, inner, SetSlot, Slot
<1>4. \A u \in Statements : pc'[u] = IF u = t THEN "done" ELSE pc[u]
  BY <1>3 DEF TypeOK
<1>5. \A q \in Subs : q # s => slot'[q] = slot[q]
  BY <1>3 DEF TypeOK
<1>6. slot'[s].state = "set" /\ slot'[s].id = t /\ slot'[s].rd = 1 /\ slot'[s].wr = 0
  BY <1>0, <1>3 DEF TypeOK, Holding
<1>7. TypeOK' /\ NoFailure'
  <2>1. Holding(t, 1, 0) \in [state : {"none", "reserved", "set"}, id : Writers \cup {None}, rd : Nat, wr : Nat]
    BY <1>0 DEF Holding
  <2>2. awr' \in Nat
    BY <1>1, <1>3
  <2> QED BY <1>3, <2>1, <2>2 DEF TypeOK, NoFailure, States
<1>8. \A u \in Writers : SubOf[u] = s => u = t
  BY SingleAssignment
<1> HIDE DEF s
<1>9. \A u \in Statements : SubOf[u] # s => Slot(u)' = Slot(u)
  BY <1>5, Kinds DEF Slot
<1>10. \A u \in Nested : SubOf[u] # s /\ Slot(u)' = Slot(u) /\ pc'[u] = pc[u]
  BY <1>0, <1>4, <1>8, <1>9, Kinds
<1>11. \A u \in Writers : pc'[u] = pc[u] \/ (u = t /\ pc[u] = "rule" /\ pc'[u] = "done")
  BY <1>0, <1>4, Kinds
<1>12. \A u \in Readers \cup Checkers : pc'[u] = pc[u]
  BY <1>0, <1>4, Kinds
<1>13. \A r \in Readers : pc[r] \in {"ref", "wait", "done"} => Slot(r)' = Slot(r)
  <2>1. \A r \in Readers : pc[r] \in {"ref", "wait", "done"} => Slot(r).state = "set"
    BY DEF GotInv
  <2> QED BY <1>2, <1>9, <2>1, Kinds DEF Slot
<1>14. KindInv'
  BY <1>11, <1>12, Kinds DEF KindInv, NestedStates, PlainStates, ReaderStates
<1>15. SlotInv'
  <2>1. ASSUME NEW q \in Subs
        PROVE  /\ slot'[q].state # "set" => slot'[q].id = None /\ slot'[q].rd = 0 /\ slot'[q].wr = 0
               /\ slot'[q].state = "none" => \A w \in Writers : SubOf[w] = q => pc'[w] \in {"idle", "rule"}
               /\ slot'[q].state = "reserved" =>
                    \E w \in Nested : SubOf[w] = q /\ pc'[w] \in {"create", "fill"}
               /\ slot'[q].state = "set" =>
                    /\ slot'[q].id \in Writers /\ SubOf[slot'[q].id] = q /\ pc'[slot'[q].id] \in Given
                    /\ slot'[q].id \in Plain => slot'[q].wr = 0
    <3>1. CASE q = s
      <4>1. pc'[t] \in Given
        BY <1>0, <1>4 DEF Given
      <4> QED BY <1>0, <1>6, <3>1, <4>1 DEF s
    <3>2. CASE q # s
      <4>1. slot'[q] = slot[q]
        BY <1>5, <3>2
      <4>2. \A w \in Writers : SubOf[w] = q => pc'[w] = pc[w]
        BY <1>11, <3>2 DEF s
      <4> QED BY <4>1, <4>2, Kinds DEF SlotInv
    <3> QED BY <3>1, <3>2
  <2> QED BY <1>10, <2>1 DEF SlotInv
<1>16. GotInv'
  <2>1. ASSUME NEW p \in Plain, pc'[p] = "done" PROVE Slot(p)'.state = "set" /\ Slot(p)'.id = p
    <3>1. CASE p = t
      BY <1>6, <3>1 DEF Slot, s
    <3>2. CASE p # t
      BY <1>8, <1>9, <1>11, <2>1, <3>2, Kinds DEF GotInv
    <3> QED BY <3>1, <3>2
  <2> QED BY <1>3, <1>10, <1>12, <1>13, <2>1 DEF GotInv
<1>17. HeldInv'
  <2>1. ASSUME NEW q \in Subs, slot'[q].state = "set"
        PROVE  slot'[q].rd > 0 /\ (slot'[q].id \in Nested => slot'[q].wr > 0)
    <3>1. CASE q = s
      BY <1>0, <1>6, <3>1
    <3>2. CASE q # s
      BY <1>1, <1>5, <2>1, <3>2 DEF HeldInv
    <3> QED BY <3>1, <3>2
  <2> QED BY <2>1 DEF HeldInv
<1>18. OuterInv'
  <2>1. AWriters' = AWriters \ {t} /\ AReaders' = AReaders
    <3>1. \A u \in Writers : pc'[u] \in {"rule", "create", "fill", "poll"}
                              <=> pc[u] \in {"rule", "create", "fill", "poll"} /\ u # t
      BY <1>0, <1>4, Kinds
    <3> QED BY <1>12, <3>1 DEF AWriters, AReaders
  <2>2. Cardinality(AWriters') = Cardinality(AWriters) - 1 /\ Cardinality(AWriters) \in Nat
    BY <1>0, <2>1, CountersAreSets, CountDown, CountType
  <2> QED BY <1>3, <2>1, <2>2 DEF OuterInv, Running
<1>19. \A j : Holders(j)' = Holders(j) /\ RHolders(j)' = RHolders(j)
  BY <1>3, <1>10, <1>12 DEF Holders, RHolders
<1>20. InnerInv'
  <2>1. \A w \in Nested : HeldW(w)' = HeldW(w) /\ HeldR(w)' = HeldR(w)
    BY <1>10 DEF HeldW, HeldR
  <2>2. ASSUME NEW p \in Plain
        PROVE  ird'[p] = (IF pc'[p] = "done" THEN Slot(p)'.rd ELSE 1) + Cardinality(RHolders(p)')
    <3>1. CASE p = t
      <4>1. pc'[p] = "done" /\ Slot(p)'.rd = 1
        BY <1>0, <1>4, <1>6, <3>1 DEF Slot, s
      <4> QED BY <1>0, <1>3, <1>19, <3>1, <4>1 DEF InnerInv
    <3>2. CASE p # t
      <4>1. pc'[p] = pc[p] /\ Slot(p)' = Slot(p)
        BY <1>4, <1>8, <1>9, <3>2, Kinds
      <4> QED BY <1>3, <1>19, <4>1 DEF InnerInv
    <3> QED BY <3>1, <3>2
  <2> QED BY <1>3, <1>10, <1>19, <2>1, <2>2 DEF InnerInv
<1>21. ContentInv'
  BY <1>3, <1>10 DEF ContentInv
<1>22. SawInv'
  <2>1. \A q : WrittenAt(q)' = WrittenAt(q)
    BY <1>11 DEF WrittenAt
  <2> QED BY <1>3, <1>12, <1>13, <2>1 DEF SawInv
<1> QED BY <1>7, <1>14, <1>15, <1>16, <1>17, <1>18, <1>20, <1>21, <1>22

-----------------------------------------------------------------------------
(* Readers. *)

LEMMA ReferCInv ==
  ASSUME CInv, NEW t \in Readers, NEW from \in {"rule", "subscribed"}, Refer(t, from)
  PROVE  CInv'
<1> USE DEF CInv
<1> DEFINE s == SubOf[t]
<1>0. t \in Statements /\ t \notin Writers /\ pc[t] = from /\ t \in AReaders /\ s \in Subs /\ slot[s].state = "set"
  BY Kinds DEF Refer, Goto, AReaders, Slot
<1>a. ard > 0 /\ ard \in Nat
  BY <1>0, ReaderKeepsAlive
<1>i. PICK i \in Writers : i = slot[s].id /\ SubOf[i] = s /\ pc[i] \in Given
  BY <1>0 DEF SlotInv
<1>1. /\ UNCHANGED <<main, saw, failed, awr, iwr, content>> /\ ard' = ard - 1
      /\ pc' = [pc EXCEPT ![t] = "ref"] /\ got' = [got EXCEPT ![t] = i]
      /\ slot' = [slot EXCEPT ![s] = Holding(i, Less(slot[s].rd), slot[s].wr)]
      /\ ird' = [ird EXCEPT ![i] = More(@, slot[s].rd)]
  BY <1>i DEF Refer, Goto, SetSlot, Slot
<1>2. slot[s].rd \in Nat /\ slot[s].wr \in Nat /\ slot[s].rd > 0
  BY <1>0, <1>a DEF TypeOK, HeldInv
<1>3. ird[i] \in Nat
  BY <1>i DEF TypeOK
<1> DEFINE r == Less(slot[s].rd)
<1>4. r \in Nat /\ r > 0
  BY <1>2, <1>3, LessMore
<1>5. \A w \in Writers : ird'[w] \in Nat /\ (w # i => ird'[w] = ird[w])
  BY <1>i, <1>1, <1>2, <1>3, LessMore DEF TypeOK
<1>6. ird'[i] - r = (ird[i] - slot[s].rd) + 1
  <2>1. ird'[i] = More(ird[i], slot[s].rd)
    BY <1>i, <1>1 DEF TypeOK
  <2> QED BY <1>2, <1>3, <2>1, LessMore
<1>7. \A u \in Statements : /\ pc'[u] = IF u = t THEN "ref" ELSE pc[u]
                            /\ got'[u] = IF u = t THEN i ELSE got[u]
  BY <1>1 DEF TypeOK
<1>8. \A q \in Subs : q # s => slot'[q] = slot[q]
  BY <1>1 DEF TypeOK
<1>9. slot'[s].state = "set" /\ slot'[s].id = i /\ slot'[s].rd = r /\ slot'[s].wr = slot[s].wr
  BY <1>0, <1>1 DEF TypeOK, Holding
<1>10. TypeOK' /\ NoFailure'
  <2>1. Holding(i, r, slot[s].wr) \in [state : {"none", "reserved", "set"}, id : Writers \cup {None}, rd : Nat, wr : Nat]
    BY <1>i, <1>2, <1>4 DEF Holding
  <2>2. slot' \in [Subs -> [state : {"none", "reserved", "set"}, id : Writers \cup {None}, rd : Nat, wr : Nat]]
    BY <1>1, <2>1 DEF TypeOK
  <2>3. ird' \in [Writers -> Nat]
    BY <1>1, <1>5 DEF TypeOK
  <2>4. ard' \in Nat
    BY <1>a, <1>1
  <2> QED BY <1>0, <1>i, <1>1, <2>2, <2>3, <2>4 DEF TypeOK, NoFailure, States
<1> HIDE DEF s, r
<1>11. \A q \in Subs : slot'[q].state = slot[q].state /\ slot'[q].id = slot[q].id /\ slot'[q].wr = slot[q].wr
  BY <1>0, <1>i, <1>8, <1>9
<1>12. \A u \in Statements : Slot(u)'.state = Slot(u).state /\ Slot(u)'.id = Slot(u).id /\ Slot(u)'.wr = Slot(u).wr
  BY <1>11, Kinds DEF Slot
<1>13. \A u \in Writers : pc'[u] = pc[u] /\ got'[u] = got[u]
  BY <1>0, <1>7, Kinds
<1>14. \A u \in Readers : u # t => pc'[u] = pc[u] /\ got'[u] = got[u]
  BY <1>7, Kinds
<1>15. pc[t] \in {"rule", "subscribed"} /\ pc'[t] = "ref" /\ got'[t] = i
  BY <1>0, <1>7
<1>16. \A u \in Checkers : pc'[u] = pc[u]
  BY <1>0, <1>7, Kinds
<1>17. KindInv'
  BY <1>13, <1>14, <1>15, <1>16, Kinds DEF KindInv, ReaderStates
<1>18. SlotInv'
  <2>1. \A q \in Subs : slot[q].state # "set" => slot'[q].rd = slot[q].rd
    BY <1>0, <1>8
  <2> QED BY <1>11, <1>12, <1>13, <2>1, Kinds DEF SlotInv
<1>19. GotInv'
  <2>1. ASSUME NEW w \in Readers
        PROVE  IF pc'[w] \in {"ref", "wait", "done"} THEN Slot(w)'.state = "set" /\ got'[w] = Slot(w)'.id
               ELSE got'[w] = None
    <3>1. CASE w = t
      BY <1>9, <1>15, <3>1 DEF s, Slot
    <3>2. CASE w # t
      BY <1>12, <1>14, <3>2, Kinds DEF GotInv
    <3> QED BY <3>1, <3>2
  <2> QED BY <1>12, <1>13, <2>1, Kinds DEF GotInv
<1>20. HeldInv'
  <2>1. ASSUME NEW q \in Subs, slot'[q].state = "set"
        PROVE  slot'[q].rd > 0 /\ (awr > 0 /\ slot'[q].id \in Nested => slot'[q].wr > 0)
    <3>1. CASE q = s
      BY <1>4, <1>9, <1>11, <2>1, <3>1 DEF HeldInv
    <3>2. CASE q # s
      BY <1>a, <1>8, <2>1, <3>2 DEF HeldInv
    <3> QED BY <3>1, <3>2
  <2> QED BY <1>1, <2>1 DEF HeldInv
<1>21. OuterInv'
  <2>1. AWriters' = AWriters /\ AReaders' = AReaders \ {t}
    <3>1. \A u \in Readers \cup Checkers : pc'[u] \in {"rule", "subscribed"}
                                             <=> pc[u] \in {"rule", "subscribed"} /\ u # t
      BY <1>0, <1>7, Kinds
    <3> QED BY <1>13, <3>1 DEF AWriters, AReaders
  <2>2. Cardinality(AReaders') = Cardinality(AReaders) - 1 /\ Cardinality(AReaders) \in Nat
    BY <1>0, <2>1, CountersAreSets, CountDown, CountType
  <2> QED BY <1>1, <2>1, <2>2 DEF OuterInv, Running
<1>22. /\ RHolders(i)' = RHolders(i) \cup {t} /\ t \notin RHolders(i)
       /\ \A j : Holders(j)' = Holders(j)
       /\ \A j : j # i => RHolders(j)' = RHolders(j)
  <2>1. ASSUME NEW w \in Readers, NEW j
        PROVE  (got'[w] = j /\ pc'[w] \in {"ref", "wait"})
                 <=> (w = t /\ j = i) \/ (got[w] = j /\ pc[w] \in {"ref", "wait"})
    <3>1. CASE w = t
      BY <1>15, <3>1
    <3>2. CASE w # t
      BY <1>14, <3>2
    <3> QED BY <3>1, <3>2
  <2>2. \A j : Holders(j)' = Holders(j)
    BY <1>13, Kinds DEF Holders
  <2>3. t \notin RHolders(i)
    BY <1>15 DEF RHolders
  <2>4. RHolders(i)' = RHolders(i) \cup {t}
    BY <2>1 DEF RHolders
  <2>5. ASSUME NEW j, j # i PROVE RHolders(j)' = RHolders(j)
    BY <2>1, <2>5 DEF RHolders
  <2> QED BY <2>2, <2>3, <2>4, <2>5
<1>23. /\ Cardinality(RHolders(i)') = Cardinality(RHolders(i)) + 1 /\ Cardinality(RHolders(i)) \in Nat
       /\ Cardinality(Holders(i)) \in Nat
  BY <1>22, CountersAreSets, CountUp, CountType
<1>24. ird'[i] \in Nat /\ Slot(i).rd = slot[s].rd /\ Slot(i)'.rd = r
  BY <1>i, <1>5, <1>9 DEF Slot
<1>25. InnerInv'
  <2>1. ASSUME NEW w \in Nested
        PROVE  IF pc'[w] = "fill" THEN iwr'[w] = Stock + 1 /\ ird'[w] = Stock + 1
               ELSE /\ iwr'[w] = HeldW(w)' + Cardinality(Holders(w)')
                    /\ ird'[w] = HeldR(w)' + Cardinality(Holders(w)') + Cardinality(RHolders(w)')
    <3>1. pc'[w] = pc[w] /\ HeldW(w)' = HeldW(w) /\ iwr'[w] = iwr[w] /\ Holders(w)' = Holders(w)
      BY <1>1, <1>12, <1>13, <1>22, Kinds DEF HeldW
    <3>2. CASE w = i
      <4>1. HeldR(w)' = r /\ HeldR(w) = slot[s].rd
        BY <1>i, <1>9, <3>2 DEF HeldR, Slot
      <4>2. pc[w] # "fill"
        BY <1>i, <3>2 DEF Given
      <4>3. ird[w] = slot[s].rd + Cardinality(Holders(w)) + Cardinality(RHolders(w))
        BY <4>1, <4>2 DEF InnerInv
      <4>4. ird'[w] = r + Cardinality(Holders(w)) + Cardinality(RHolders(w)')
        BY <1>2, <1>3, <1>4, <1>6, <1>23, <1>24, <3>2, <4>3
      <4> QED BY <3>1, <4>1, <4>2, <4>4 DEF InnerInv
    <3>3. CASE w # i
      <4>1. HeldR(w)' = HeldR(w)
        <5>1. CASE SubOf[w] = s
          <6>1. Slot(w)'.id # w /\ Slot(w).id # w
            BY <1>i, <1>9, <3>3, <5>1 DEF Slot
          <6> QED BY <6>1 DEF HeldR
        <5>2. CASE SubOf[w] # s
          BY <1>8, <5>2, Kinds DEF HeldR, Slot
        <5> QED BY <5>1, <5>2
      <4>2. ird'[w] = ird[w]
        BY <1>5, <3>3, Kinds
      <4> QED BY <1>22, <3>1, <3>3, <4>1, <4>2 DEF InnerInv
    <3> QED BY <3>2, <3>3
  <2>2. ASSUME NEW p \in Plain
        PROVE  ird'[p] = (IF pc'[p] = "done" THEN Slot(p)'.rd ELSE 1) + Cardinality(RHolders(p)')
    <3>1. pc'[p] = pc[p]
      BY <1>13, Kinds
    <3>2. CASE p = i
      <4>1. pc[p] = "done"
        BY <1>i, <3>2 DEF KindInv, PlainStates, Given
      <4>2. ird[i] = slot[s].rd + Cardinality(RHolders(i))
        BY <1>24, <3>2, <4>1 DEF InnerInv
      <4>3. ird'[i] = r + Cardinality(RHolders(i)')
        BY <1>2, <1>3, <1>4, <1>6, <1>23, <1>24, <4>2
      <4> QED BY <1>24, <3>1, <3>2, <4>1, <4>3
    <3>3. CASE p # i
      <4>1. SubOf[p] # s
        BY <1>i, <3>3, SingleAssignment
      <4>2. Slot(p)' = Slot(p) /\ ird'[p] = ird[p]
        BY <1>5, <1>8, <3>3, <4>1, Kinds DEF Slot
      <4> QED BY <1>22, <3>1, <3>3, <4>2 DEF InnerInv
    <3> QED BY <3>2, <3>3
  <2> QED BY <1>1, <2>1, <2>2 DEF InnerInv
<1>26. ContentInv'
  BY <1>1, <1>12, <1>13, Kinds DEF ContentInv
<1>27. SawInv'
  <2>1. \A q : WrittenAt(q)' = WrittenAt(q)
    BY <1>13 DEF WrittenAt
  <2>2. \A w \in Readers : pc'[w] = "done" => pc[w] = "done"
    BY <1>14, <1>15
  <2> QED BY <1>1, <1>12, <1>16, <2>1, <2>2, Kinds DEF SawInv
<1> QED BY <1>10, <1>17, <1>18, <1>19, <1>20, <1>21, <1>25, <1>26, <1>27

\* A closed inner array has all the program writes into it.
LEMMA ClosedIsComplete ==
  ASSUME CInv, NEW s \in Subs, slot[s].state = "set", iwr[slot[s].id] = 0
  PROVE  content[slot[s].id] = WrittenAt(s) /\ (main = "done" \/ slot[s].id \in Plain)
<1> USE DEF CInv
<1>1. PICK i \in Writers : i = slot[s].id /\ SubOf[i] = s /\ pc[i] \in Given /\ iwr[i] = 0
  BY DEF SlotInv
<1>2. CASE i \in Plain
  <2>1. \A w \in Writers : SubOf[w] = s <=> w = i
    BY <1>1, <1>2, SingleAssignment
  <2>2. WrittenAt(s) = {i}
    BY <1>1, <2>1 DEF WrittenAt, Given
  <2> QED BY <1>1, <1>2, <2>2 DEF ContentInv
<1>3. CASE i \in Nested
  <2>1. slot[s].wr \in Nat /\ Cardinality(Holders(i)) \in Nat /\ IsFiniteSet(Holders(i))
    BY CountersAreSets, CountType DEF TypeOK
  <2>2. iwr[i] = slot[s].wr + Cardinality(Holders(i))
    BY <1>1, <1>3 DEF InnerInv, HeldW, Slot, Given
  <2>3. slot[s].wr = 0 /\ Cardinality(Holders(i)) = 0
    BY <1>1, <2>1, <2>2
  <2>4. Holders(i) = {}
    BY <2>1, <2>3, FS_EmptySet
  <2>5. awr = 0
    BY <1>1, <1>3, <2>3 DEF HeldInv, TypeOK
  <2>6. \A w \in Writers : SubOf[w] = s => w \in Nested
    BY <1>1, <1>3, SingleAssignment, Kinds
  <2>7. \A w \in Nested : SubOf[w] = s => pc[w] \in {"idle", "done"}
    <3>1. \A w \in Nested : pc[w] \in {"idle", "have", "ref", "insert", "done"}
      BY <2>5, ClosedMeansDone, Kinds
    <3>2. \A w \in Nested : SubOf[w] = s /\ pc[w] \in {"have", "ref", "insert"} => got[w] = i
      BY <1>1 DEF GotInv, Given, Slot
    <3> QED BY <2>4, <3>1, <3>2 DEF Holders
  <2>8. content[i] = {w \in Nested : SubOf[w] = s /\ pc[w] = "done"}
    BY <1>1, <1>3 DEF ContentInv, Slot
  <2>9. \A w : w \in WrittenAt(s) <=> w \in Nested /\ SubOf[w] = s /\ pc[w] = "done"
    BY <2>6, <2>7, Kinds DEF WrittenAt
  <2> QED BY <1>1, <2>5, <2>8, <2>9, ClosedMeansDone
<1> QED BY <1>1, <1>2, <1>3, Kinds

LEMMA SizeCInv == ASSUME CInv, NEW t \in Readers, Size(t) PROVE CInv'
<1> USE DEF CInv
<1> DEFINE s == SubOf[t]
<1>0. t \in Statements /\ t \notin Writers /\ pc[t] = "wait" /\ s \in Subs
  BY Kinds DEF Size
<1>i. PICK i \in Writers : /\ i = slot[s].id /\ SubOf[i] = s /\ pc[i] \in Given /\ got[t] = i /\ iwr[i] = 0
                           /\ slot[s].state = "set"
  BY <1>0 DEF SlotInv, GotInv, Slot, Size
<1>1. t \in RHolders(i)
  BY <1>0, <1>i DEF RHolders
<1>2. slot[s].rd \in Nat
  BY <1>0 DEF TypeOK
<1>3. /\ Cardinality(RHolders(i) \ {t}) = Cardinality(RHolders(i)) - 1 /\ Cardinality(RHolders(i)) > 0
      /\ Cardinality(Holders(i)) \in Nat /\ Cardinality(RHolders(i)) \in Nat
  BY <1>1, CountersAreSets, CountDown, CountType
<1>4. /\ i \in Nested => ird[i] = slot[s].rd + Cardinality(Holders(i)) + Cardinality(RHolders(i))
      /\ i \in Plain => ird[i] = slot[s].rd + Cardinality(RHolders(i)) /\ pc[i] = "done"
  <2>1. i \in Plain => pc[i] = "done"
    BY <1>i DEF KindInv, PlainStates, Given
  <2> QED BY <1>i, <2>1 DEF InnerInv, HeldR, Slot, Given
<1>5. ird[i] # 0 /\ ird[i] - 1 \in Nat
  BY <1>2, <1>3, <1>4, Kinds
<1>6. /\ UNCHANGED <<main, got, failed, ard, awr, slot, iwr, content>>
      /\ pc' = [pc EXCEPT ![t] = "done"] /\ saw' = [saw EXCEPT ![t] = content[i]]
      /\ ird' = [ird EXCEPT ![i] = @ - 1]
  BY <1>i, <1>5 DEF Size, Gone, Goto, outer
<1>7. content[i] = WrittenAt(s) /\ (main = "done" \/ i \in Plain)
  BY <1>0, <1>i, ClosedIsComplete
<1>8. \A u \in Statements : pc'[u] = IF u = t THEN "done" ELSE pc[u]
  BY <1>6 DEF TypeOK
<1>9. \A w \in Writers : ird'[w] = IF w = i THEN ird[i] - 1 ELSE ird[w]
  BY <1>6 DEF TypeOK
<1>10. \A u \in Readers \cup Checkers : saw'[u] = IF u = t THEN content[i] ELSE saw[u]
  BY <1>6 DEF TypeOK
<1> HIDE DEF s
<1>11. TypeOK' /\ NoFailure'
  <2>1. ird' \in [Writers -> Nat]
    BY <1>5, <1>6 DEF TypeOK
  <2>2. saw' \in [Readers \cup Checkers -> SUBSET (Writers \cup Subs)]
    BY <1>i, <1>6 DEF TypeOK
  <2> QED BY <1>0, <1>6, <2>1, <2>2 DEF TypeOK, NoFailure, States
<1>12. \A u : Slot(u)' = Slot(u)
  BY <1>6 DEF Slot
<1>13. \A u \in Writers : pc'[u] = pc[u]
  BY <1>0, <1>8, Kinds
<1>14. \A u \in Readers : u # t => pc'[u] = pc[u]
  BY <1>8, Kinds
<1>15. \A u \in Checkers : pc'[u] = pc[u] /\ u # t
  BY <1>0, <1>8, Kinds
<1>16. pc'[t] = "done"
  BY <1>0, <1>8
<1>17. KindInv'
  BY <1>13, <1>14, <1>15, <1>16, Kinds DEF KindInv, ReaderStates
<1>18. SlotInv'
  BY <1>6, <1>12, <1>13, Kinds DEF SlotInv
<1>19. GotInv'
  BY <1>0, <1>6, <1>12, <1>13, <1>14, <1>16, Kinds DEF GotInv
<1>20. AWriters' = AWriters /\ AReaders' = AReaders
  <2>1. \A u \in Readers \cup Checkers : pc'[u] \in {"rule", "subscribed"} <=> pc[u] \in {"rule", "subscribed"}
    BY <1>0, <1>14, <1>15, <1>16
  <2> QED BY <1>13, <2>1 DEF AWriters, AReaders
<1>21. OuterInv' /\ HeldInv'
  BY <1>6, <1>20 DEF OuterInv, Running, HeldInv
<1>22. /\ RHolders(i)' = RHolders(i) \ {t}
       /\ \A j : Holders(j)' = Holders(j)
       /\ \A j : j # i => RHolders(j)' = RHolders(j)
  <2>1. ASSUME NEW w \in Readers, NEW j
        PROVE  (got'[w] = j /\ pc'[w] \in {"ref", "wait"}) <=> got[w] = j /\ pc[w] \in {"ref", "wait"} /\ w # t
    <3>1. CASE w = t
      BY <1>16, <3>1
    <3>2. CASE w # t
      BY <1>6, <1>14, <3>2
    <3> QED BY <3>1, <3>2
  <2>2. \A j : Holders(j)' = Holders(j)
    BY <1>6, <1>13, Kinds DEF Holders
  <2>3. RHolders(i)' = RHolders(i) \ {t}
    BY <2>1 DEF RHolders
  <2>4. ASSUME NEW j, j # i PROVE RHolders(j)' = RHolders(j)
    BY <1>i, <2>1, <2>4 DEF RHolders
  <2> QED BY <2>2, <2>3, <2>4
<1>23. Cardinality(RHolders(i)') = Cardinality(RHolders(i)) - 1
  BY <1>3, <1>22
<1>24. InnerInv'
  <2>1. ASSUME NEW w \in Nested
        PROVE  IF pc'[w] = "fill" THEN iwr'[w] = Stock + 1 /\ ird'[w] = Stock + 1
               ELSE /\ iwr'[w] = HeldW(w)' + Cardinality(Holders(w)')
                    /\ ird'[w] = HeldR(w)' + Cardinality(Holders(w)') + Cardinality(RHolders(w)')
    <3>1. pc'[w] = pc[w] /\ HeldW(w)' = HeldW(w) /\ HeldR(w)' = HeldR(w) /\ iwr'[w] = iwr[w] /\ Holders(w)' = Holders(w)
      BY <1>6, <1>12, <1>13, <1>22, Kinds DEF HeldW, HeldR
    <3>2. CASE w = i
      <4>1. HeldR(w) = slot[s].rd /\ pc[w] # "fill"
        BY <1>i, <3>2 DEF HeldR, Slot, Given
      <4>2. ird'[w] = slot[s].rd + Cardinality(Holders(w)) + Cardinality(RHolders(w)')
        BY <1>2, <1>3, <1>4, <1>9, <1>23, <3>2
      <4> QED BY <3>1, <4>1, <4>2 DEF InnerInv
    <3>3. CASE w # i
      BY <1>9, <1>22, <3>1, <3>3, Kinds DEF InnerInv
    <3> QED BY <3>2, <3>3
  <2>2. ASSUME NEW p \in Plain
        PROVE  ird'[p] = (IF pc'[p] = "done" THEN Slot(p)'.rd ELSE 1) + Cardinality(RHolders(p)')
    <3>1. pc'[p] = pc[p] /\ Slot(p)' = Slot(p)
      BY <1>12, <1>13, Kinds
    <3>2. CASE p = i
      <4>1. ird'[p] = slot[s].rd + Cardinality(RHolders(p)') /\ Slot(p).rd = slot[s].rd
        BY <1>i, <1>2, <1>3, <1>4, <1>9, <1>23, <3>2 DEF Slot
      <4> QED BY <1>4, <3>1, <3>2, <4>1
    <3>3. CASE p # i
      BY <1>9, <1>22, <3>1, <3>3, Kinds DEF InnerInv
    <3> QED BY <3>2, <3>3
  <2> QED BY <1>6, <2>1, <2>2 DEF InnerInv
<1>25. ContentInv'
  BY <1>6, <1>12, <1>13, Kinds DEF ContentInv
<1>26. SawInv'
  <2>1. \A q : WrittenAt(q)' = WrittenAt(q)
    BY <1>13 DEF WrittenAt
  <2>2. saw'[t] = WrittenAt(SubOf[t])' /\ (main' = "done" \/ Slot(t)'.id \in Plain)
    BY <1>i, <1>6, <1>7, <1>10, <1>12, <2>1 DEF Slot, s
  <2>3. \A w \in Readers : w # t => saw'[w] = saw[w]
    BY <1>10
  <2>4. \A c \in Checkers : saw'[c] = saw[c]
    BY <1>10, <1>15
  <2> QED BY <1>6, <1>12, <1>14, <1>15, <2>1, <2>2, <2>3, <2>4 DEF SawInv
<1> QED BY <1>11, <1>17, <1>18, <1>19, <1>21, <1>24, <1>25, <1>26

LEMMA ContainsCInv == ASSUME CInv, NEW t \in Checkers, Contains(t) PROVE CInv'
<1> USE DEF CInv
<1> DEFINE s == SubOf[t]
           found == {q \in Subs : q = s /\ slot[q].state = "set"}
<1>0. t \in Statements /\ t \notin Writers /\ t \notin Readers /\ pc[t] = "rule" /\ s \in Subs /\ awr = 0 /\ t \in AReaders
  BY Kinds DEF Contains, AClosed, AReaders
<1>1. ard > 0 /\ ard \in Nat
  BY <1>0, ReaderKeepsAlive
<1>2. /\ UNCHANGED <<main, got, failed, awr, slot, ird, iwr, content>> /\ ard' = ard - 1
      /\ pc' = [pc EXCEPT ![t] = "done"] /\ saw' = [saw EXCEPT ![t] = found]
  BY <1>1 DEF Contains, AGone, Goto, inner
<1>3. main = "done" /\ \A w \in Writers : pc[w] \in {"idle", "have", "ref", "insert", "done"}
  BY <1>0, ClosedMeansDone
<1>4. found = {SubOf[w] : w \in WrittenAt(s)}
  <2>1. \A w \in WrittenAt(s) : SubOf[w] = s
    BY DEF WrittenAt
  <2>2. CASE slot[s].state = "set"
    <3>1. slot[s].id \in WrittenAt(s)
      BY <1>0, <2>2 DEF SlotInv, WrittenAt, Given
    <3>2. found = {s}
      BY <1>0, <2>2
    <3> QED BY <2>1, <3>1, <3>2
  <2>3. CASE slot[s].state # "set"
    <3>1. slot[s].state = "none"
      <4>1. slot[s].state \in {"none", "reserved", "set"}
        BY <1>0 DEF TypeOK
      <4>2. \A w \in Nested : pc[w] \notin {"create", "fill"}
        BY <1>3, Kinds
      <4>3. slot[s].state # "reserved"
        BY <1>0, <4>2 DEF SlotInv
      <4> QED BY <2>3, <4>1, <4>3
    <3>2. WrittenAt(s) = {}
      BY <1>0, <1>3, <3>1 DEF SlotInv, WrittenAt
    <3> QED BY <2>3, <3>2
  <2> QED BY <2>2, <2>3
<1>5. \A u \in Statements : pc'[u] = IF u = t THEN "done" ELSE pc[u]
  BY <1>2 DEF TypeOK
<1>6. \A u \in Readers \cup Checkers : saw'[u] = IF u = t THEN found ELSE saw[u]
  BY <1>2 DEF TypeOK
<1>7. TypeOK' /\ NoFailure'
  <2>1. ard' \in Nat
    BY <1>1, <1>2
  <2>2. found \in SUBSET (Writers \cup Subs)
    OBVIOUS
  <2>3. saw' \in [Readers \cup Checkers -> SUBSET (Writers \cup Subs)]
    BY <1>2, <2>2 DEF TypeOK
  <2> QED BY <1>0, <1>2, <2>1, <2>3 DEF TypeOK, NoFailure, States
<1> HIDE DEF s, found
<1>8. \A u : Slot(u)' = Slot(u)
  BY <1>2 DEF Slot
<1>9. \A u \in Writers \cup Readers : pc'[u] = pc[u]
  BY <1>0, <1>5, Kinds
<1>10. \A u \in Checkers : u # t => pc'[u] = pc[u]
  BY <1>5, Kinds
<1>11. pc'[t] = "done"
  BY <1>0, <1>5
<1>12. KindInv'
  BY <1>9, <1>10, <1>11, Kinds DEF KindInv, PlainStates
<1>13. SlotInv' /\ GotInv'
  BY <1>2, <1>8, <1>9, Kinds DEF SlotInv, GotInv
<1>14. HeldInv'
  BY <1>1, <1>2 DEF HeldInv
<1>15. OuterInv'
  <2>1. AWriters' = AWriters /\ AReaders' = AReaders \ {t}
    <3>1. \A u \in Readers \cup Checkers : pc'[u] \in {"rule", "subscribed"}
                                             <=> pc[u] \in {"rule", "subscribed"} /\ u # t
      BY <1>5, <1>0, Kinds
    <3> QED BY <1>9, <3>1 DEF AWriters, AReaders
  <2>2. Cardinality(AReaders') = Cardinality(AReaders) - 1 /\ Cardinality(AReaders) \in Nat
    BY <1>0, <2>1, CountersAreSets, CountDown, CountType
  <2> QED BY <1>2, <2>1, <2>2 DEF OuterInv, Running
<1>16. \A i : Holders(i)' = Holders(i) /\ RHolders(i)' = RHolders(i)
  BY <1>2, <1>9, Kinds DEF Holders, RHolders
<1>17. InnerInv' /\ ContentInv'
  BY <1>2, <1>8, <1>9, <1>16, Kinds DEF InnerInv, HeldW, HeldR, ContentInv
<1>18. SawInv'
  <2>1. \A q : WrittenAt(q)' = WrittenAt(q)
    BY <1>9 DEF WrittenAt
  <2>2. saw'[t] = {SubOf[w] : w \in WrittenAt(SubOf[t])'} /\ main' = "done"
    BY <1>2, <1>3, <1>4, <1>6, <2>1 DEF s
  <2>3. \A c \in Checkers : c # t => saw'[c] = saw[c]
    BY <1>6
  <2>4. \A r \in Readers : saw'[r] = saw[r]
    BY <1>0, <1>6
  <2> QED BY <1>2, <1>8, <1>9, <1>10, <2>1, <2>2, <2>3, <2>4 DEF SawInv
<1> QED BY <1>7, <1>12, <1>13, <1>14, <1>15, <1>17, <1>18

-----------------------------------------------------------------------------
(* The data store. *)

LEMMA ReleaseWriteCInv == ASSUME CInv, NEW s \in Subs, ReleaseWrite(s) PROVE CInv'
<1> USE DEF CInv
<1>i. PICK i \in Nested : i = slot[s].id /\ SubOf[i] = s /\ slot[s].state = "set" /\ pc[i] \in Given
  BY Kinds DEF ReleaseWrite, SlotInv
<1>1. /\ UNCHANGED <<main, pc, got, saw, failed, ard, awr, ird, content>> /\ awr = 0
      /\ iwr' = [iwr EXCEPT ![i] = @ - slot[s].wr] /\ slot' = [slot EXCEPT ![s].wr = 0]
  BY <1>i DEF ReleaseWrite, AClosed
<1>2. i \in Writers /\ i \in Statements
  BY Kinds
<1>3. slot[s].wr \in Nat /\ Cardinality(Holders(i)) \in Nat
  BY CountersAreSets, CountType DEF TypeOK
<1>4. iwr[i] = slot[s].wr + Cardinality(Holders(i))
  BY <1>i DEF InnerInv, HeldW, Slot, Given
<1>5. \A w \in Writers : iwr'[w] = IF w = i THEN Cardinality(Holders(i)) ELSE iwr[w]
  <2>1. iwr[i] - slot[s].wr = Cardinality(Holders(i))
    BY <1>3, <1>4
  <2> QED BY <1>1, <1>2, <2>1 DEF TypeOK
<1>6. \A q \in Subs : /\ slot'[q].state = slot[q].state /\ slot'[q].id = slot[q].id /\ slot'[q].rd = slot[q].rd
                      /\ slot'[q].wr = IF q = s THEN 0 ELSE slot[q].wr
  BY <1>1 DEF TypeOK
<1>7. TypeOK' /\ NoFailure'
  <2>1. iwr' \in [Writers -> Nat]
    BY <1>1, <1>3, <1>5 DEF TypeOK
  <2>2. slot' \in [Subs -> [state : {"none", "reserved", "set"}, id : Writers \cup {None}, rd : Nat, wr : Nat]]
    BY <1>1 DEF TypeOK
  <2> QED BY <1>1, <2>1, <2>2 DEF TypeOK, NoFailure
<1>8. \A u \in Statements : Slot(u)'.state = Slot(u).state /\ Slot(u)'.id = Slot(u).id /\ Slot(u)'.rd = Slot(u).rd
  BY <1>6, Kinds DEF Slot
<1>9. KindInv' /\ SlotInv'
  BY <1>1, <1>6, <1>8, Kinds DEF KindInv, SlotInv
<1>10. GotInv'
  BY <1>1, <1>8, Kinds DEF GotInv
<1>11. HeldInv'
  BY <1>1, <1>6 DEF HeldInv
<1>12. OuterInv'
  BY <1>1 DEF OuterInv, Running, AWriters, AReaders
<1>13. \A j : Holders(j)' = Holders(j) /\ RHolders(j)' = RHolders(j)
  BY <1>1 DEF Holders, RHolders
<1>14. InnerInv'
  <2>1. ASSUME NEW w \in Nested
        PROVE  IF pc'[w] = "fill" THEN iwr'[w] = Stock + 1 /\ ird'[w] = Stock + 1
               ELSE /\ iwr'[w] = HeldW(w)' + Cardinality(Holders(w)')
                    /\ ird'[w] = HeldR(w)' + Cardinality(Holders(w)') + Cardinality(RHolders(w)')
    <3>1. HeldR(w)' = HeldR(w)
      BY <1>8, Kinds DEF HeldR
    <3>2. CASE w = i
      <4>1. HeldW(w)' = 0 /\ pc[w] # "fill"
        BY <1>i, <1>6, <3>2 DEF HeldW, Slot, Given
      <4> QED BY <1>1, <1>2, <1>3, <1>5, <1>13, <3>1, <3>2, <4>1 DEF InnerInv
    <3>3. CASE w # i
      <4>1. HeldW(w)' = HeldW(w)
        <5>1. CASE SubOf[w] = s
          BY <1>i, <1>6, <3>3, <5>1 DEF HeldW, Slot
        <5>2. CASE SubOf[w] # s
          BY <1>6, <5>2, Kinds DEF HeldW, Slot
        <5> QED BY <5>1, <5>2
      <4>2. iwr'[w] = iwr[w]
        BY <1>5, <3>3, Kinds
      <4> QED BY <1>1, <1>13, <3>1, <4>1, <4>2 DEF InnerInv
    <3> QED BY <3>2, <3>3
  <2>2. \A p \in Plain : iwr'[p] = iwr[p] /\ Slot(p)'.rd = Slot(p).rd
    BY <1>5, <1>8, Kinds
  <2> QED BY <1>1, <1>13, <2>1, <2>2 DEF InnerInv
<1>15. ContentInv'
  BY <1>1, <1>8, Kinds DEF ContentInv
<1>16. SawInv'
  BY <1>1, <1>8, Kinds DEF SawInv, WrittenAt
<1> QED BY <1>7, <1>9, <1>10, <1>11, <1>12, <1>14, <1>15, <1>16

LEMMA ReleaseReadCInv == ASSUME CInv, NEW s \in Subs, ReleaseRead(s) PROVE CInv'
<1> USE DEF CInv
<1>i. PICK i \in Writers : i = slot[s].id /\ SubOf[i] = s /\ slot[s].state = "set" /\ pc[i] \in Given
  BY Kinds DEF ReleaseRead, SlotInv
<1>1. /\ UNCHANGED <<main, pc, got, saw, failed, ard, awr, iwr, content>> /\ awr = 0 /\ ard = 0
      /\ ird' = [ird EXCEPT ![i] = @ - slot[s].rd] /\ slot' = [slot EXCEPT ![s].rd = 0]
  BY <1>i DEF ReleaseRead, AGone
<1> DEFINE n == Cardinality(Holders(i))
           m == Cardinality(RHolders(i))
<1>2. slot[s].rd \in Nat /\ n \in Nat /\ m \in Nat
  BY CountersAreSets, CountType DEF TypeOK
<1>3. /\ i \in Nested => ird[i] = slot[s].rd + n + m
      /\ i \in Plain => ird[i] = slot[s].rd + m /\ pc[i] = "done"
  <2>1. i \in Plain => pc[i] = "done"
    BY <1>i DEF KindInv, PlainStates, Given
  <2> QED BY <1>i, <2>1 DEF InnerInv, HeldR, Slot, Given
<1>4. \A w \in Writers : ird'[w] = IF w = i THEN ird[i] - slot[s].rd ELSE ird[w]
  BY <1>1 DEF TypeOK
<1>5. /\ i \in Nested => ird'[i] = n + m
      /\ i \in Plain => ird'[i] = m
  <2>1. ird'[i] = ird[i] - slot[s].rd
    BY <1>4
  <2> QED BY <1>2, <1>3, <2>1
<1>6. \A q \in Subs : /\ slot'[q].state = slot[q].state /\ slot'[q].id = slot[q].id /\ slot'[q].wr = slot[q].wr
                      /\ slot'[q].rd = IF q = s THEN 0 ELSE slot[q].rd
  BY <1>1 DEF TypeOK
<1>7. TypeOK' /\ NoFailure'
  <2>1. ird'[i] \in Nat
    BY <1>2, <1>5, Kinds
  <2>2. ird' \in [Writers -> Nat]
    BY <1>1, <1>4, <2>1 DEF TypeOK
  <2>3. slot' \in [Subs -> [state : {"none", "reserved", "set"}, id : Writers \cup {None}, rd : Nat, wr : Nat]]
    BY <1>1 DEF TypeOK
  <2> QED BY <1>1, <2>2, <2>3 DEF TypeOK, NoFailure
<1>8. \A u \in Statements : Slot(u)'.state = Slot(u).state /\ Slot(u)'.id = Slot(u).id /\ Slot(u)'.wr = Slot(u).wr
  BY <1>6, Kinds DEF Slot
<1>9. KindInv' /\ SlotInv'
  BY <1>1, <1>6, <1>8, Kinds DEF KindInv, SlotInv
<1>10. GotInv'
  BY <1>1, <1>8, Kinds DEF GotInv
<1>11. HeldInv'
  BY <1>1, <1>6 DEF HeldInv
<1>12. OuterInv'
  BY <1>1 DEF OuterInv, Running, AWriters, AReaders
<1>13. \A j : Holders(j)' = Holders(j) /\ RHolders(j)' = RHolders(j)
  BY <1>1 DEF Holders, RHolders
<1> HIDE DEF n, m
<1>14. InnerInv'
  <2>1. ASSUME NEW w \in Nested
        PROVE  IF pc'[w] = "fill" THEN iwr'[w] = Stock + 1 /\ ird'[w] = Stock + 1
               ELSE /\ iwr'[w] = HeldW(w)' + Cardinality(Holders(w)')
                    /\ ird'[w] = HeldR(w)' + Cardinality(Holders(w)') + Cardinality(RHolders(w)')
    <3>1. HeldW(w)' = HeldW(w)
      BY <1>8, Kinds DEF HeldW
    <3>2. CASE w = i
      <4>1. HeldR(w)' = 0 /\ pc[w] # "fill"
        BY <1>i, <1>6, <3>2 DEF HeldR, Slot, Given
      <4>2. ird'[w] = HeldR(w)' + Cardinality(Holders(w)') + Cardinality(RHolders(w)')
        BY <1>2, <1>5, <1>13, <3>2, <4>1 DEF n, m
      <4> QED BY <1>1, <1>13, <3>1, <4>1, <4>2 DEF InnerInv
    <3>3. CASE w # i
      <4>1. HeldR(w)' = HeldR(w)
        <5>1. CASE SubOf[w] = s
          BY <1>i, <1>6, <3>3, <5>1 DEF HeldR, Slot
        <5>2. CASE SubOf[w] # s
          BY <1>6, <5>2, Kinds DEF HeldR, Slot
        <5> QED BY <5>1, <5>2
      <4>2. ird'[w] = ird[w]
        BY <1>4, <3>3, Kinds
      <4> QED BY <1>1, <1>13, <3>1, <4>1, <4>2 DEF InnerInv
    <3> QED BY <3>2, <3>3
  <2>2. ASSUME NEW p \in Plain
        PROVE  ird'[p] = (IF pc'[p] = "done" THEN Slot(p)'.rd ELSE 1) + Cardinality(RHolders(p)')
    <3>1. CASE p = i
      <4>1. Slot(p)'.rd = 0 /\ pc'[p] = "done"
        BY <1>i, <1>1, <1>3, <1>6, <3>1 DEF Slot
      <4> QED BY <1>2, <1>5, <1>13, <3>1, <4>1 DEF m
    <3>2. CASE p # i
      <4>1. SubOf[p] # s
        BY <1>i, <3>2, SingleAssignment
      <4>2. Slot(p)'.rd = Slot(p).rd /\ ird'[p] = ird[p]
        BY <1>4, <1>6, <3>2, <4>1, Kinds DEF Slot
      <4> QED BY <1>1, <1>13, <4>2 DEF InnerInv
    <3> QED BY <3>1, <3>2
  <2> QED BY <1>1, <2>1, <2>2 DEF InnerInv
<1>15. ContentInv'
  BY <1>1, <1>8, Kinds DEF ContentInv
<1>16. SawInv'
  BY <1>1, <1>8, Kinds DEF SawInv, WrittenAt
<1> QED BY <1>7, <1>9, <1>10, <1>11, <1>12, <1>14, <1>15, <1>16

-----------------------------------------------------------------------------
LEMMA WriteCInv == ASSUME CInv, NEW t \in Nested, Write(t) PROVE CInv'
<1>1. CASE InsertAtomic(t)
  <2>1. pc[t] = "rule"
    BY <1>1 DEF InsertAtomic, Reserve, FindReserved, FindSet, Goto
  <2>2. t \in AWriters
    BY <2>1, Kinds DEF AWriters
  <2>3. ~AClosed /\ awr > 0
    BY <2>2, WriterKeepsOpen DEF AClosed
  <2>4. CASE Reserve(t)
    BY <2>4, ReserveCInv
  <2>5. CASE FindReserved(t)
    <3>1. Quiet(t, "rule", "poll") /\ t \in Statements
      BY <2>5, Kinds DEF Quiet, FindReserved
    <3> QED BY <3>1, QuietCInv
  <2>6. CASE FindSet(t)
    <3>1. Slot(t).state = "set"
      BY <2>6 DEF FindSet
    <3>2. Slot(t).wr > 0 /\ Slot(t).wr \in Nat
      BY <2>3, <3>1, SlotIds, Kinds DEF CInv, HeldInv, TypeOK, Slot
    <3>3. Obtain(t, "rule")
      BY <2>3, <2>6, <3>2 DEF FindSet
    <3> QED BY <3>1, <3>3, ObtainCInv
  <2> QED BY <1>1, <2>3, <2>4, <2>5, <2>6 DEF InsertAtomic
<1>2. CASE CreateInner(t)
  BY <1>2, CreateInnerCInv
<1>3. CASE FillSlot(t)
  BY <1>3, FillSlotCInv
<1>4. CASE Poll(t)
  BY <1>4, ObtainCInv DEF Poll
<1>5. CASE StoreRef(t)
  <2>1. Quiet(t, "have", "ref") /\ t \in Statements
    BY <1>5, Kinds DEF Quiet, StoreRef
  <2> QED BY <2>1, QuietCInv
<1>6. CASE AcquireWriteRef(t)
  <2>1. t \in Statements /\ (Quiet(t, "ref", "insert") \/ Quiet(t, "have", "insert"))
    BY <1>6, Kinds DEF Quiet, AcquireWriteRef
  <2> QED BY <2>1, QuietCInv
<1>7. CASE pc[t] = "insert" /\ InsertMember(t)
  BY <1>7, InsertMemberCInv
<1> QED BY <1>1, <1>2, <1>3, <1>4, <1>5, <1>6, <1>7 DEF Write

LEMMA ReadCInv == ASSUME CInv, NEW t \in Readers, Read(t) PROVE CInv'
<1>1. CASE LookupNow(t)
  BY <1>1, ReferCInv DEF LookupNow
<1>2. CASE LookupLater(t)
  <2>1. Quiet(t, "rule", "subscribed") /\ t \in Statements
    BY <1>2, Kinds DEF Quiet, LookupLater
  <2> QED BY <2>1, QuietCInv
<1>3. CASE Notify(t)
  BY <1>3, ReferCInv DEF Notify
<1>4. CASE Dereference(t)
  <2>1. Quiet(t, "ref", "wait") /\ t \in Statements
    BY <1>4, Kinds DEF Quiet, Dereference
  <2> QED BY <2>1, QuietCInv
<1>5. CASE Size(t)
  BY <1>5, SizeCInv
<1> QED BY <1>1, <1>2, <1>3, <1>4, <1>5 DEF Read

LEMMA StutterCInv == ASSUME CInv, UNCHANGED vars PROVE CInv'
<1>1. UNCHANGED <<main, pc, got, saw, failed, ard, awr, slot, ird, iwr, content>>
  BY DEF vars, outer, inner
<1>2. TypeOK' /\ NoFailure' /\ KindInv' /\ SlotInv' /\ GotInv' /\ HeldInv'
  BY <1>1 DEF CInv, TypeOK, NoFailure, KindInv, SlotInv, GotInv, HeldInv, Slot
<1>3. OuterInv' /\ ContentInv' /\ SawInv'
  BY <1>1 DEF CInv, OuterInv, Running, AWriters, AReaders, ContentInv, SawInv, WrittenAt, Slot
<1>4. InnerInv'
  BY <1>1 DEF CInv, InnerInv, HeldW, HeldR, Holders, RHolders, Slot
<1> QED BY <1>2, <1>3, <1>4 DEF CInv

LEMMA CInvNext == CInv /\ [Next]_vars => CInv'
<1> SUFFICES ASSUME CInv, [Next]_vars PROVE CInv'
  OBVIOUS
<1>1. CASE MainDone
  BY <1>1, MainDoneCInv
<1>2. CASE Store
  BY <1>2, ReleaseWriteCInv, ReleaseReadCInv DEF Store
<1>3. CASE Ended \/ UNCHANGED vars
  BY <1>3, StutterCInv DEF Ended
<1>4. ASSUME NEW w \in Writers, StartWriter(w) PROVE CInv'
  BY <1>4, StartWriterCInv
<1>5. ASSUME NEW r \in Readers \cup Checkers, StartReader(r) PROVE CInv'
  BY <1>5, StartReaderCInv
<1>6. ASSUME NEW w \in Nested, Write(w) PROVE CInv'
  BY <1>6, WriteCInv
<1>7. ASSUME NEW p \in Plain, InsertPlain(p) PROVE CInv'
  BY <1>7, InsertPlainCInv
<1>8. ASSUME NEW r \in Readers, Read(r) PROVE CInv'
  BY <1>8, ReadCInv
<1>9. ASSUME NEW c \in Checkers, Contains(c) PROVE CInv'
  BY <1>9, ContainsCInv
<1> QED BY <1>1, <1>2, <1>3, <1>4, <1>5, <1>6, <1>7, <1>8, <1>9 DEF Next

LEMMA CInvAlways == Spec => []CInv
BY CInvInit, CInvNext, PTL DEF Spec

-----------------------------------------------------------------------------
(***************************************************************************)
(* The variables of the container library's model keep their types: no     *)
(* reference count of an array of arrays, or of its inner arrays, ever     *)
(* goes below zero.                                                        *)
(***************************************************************************)
THEOREM ContainersTypeCorrect == Spec => []TypeOK
<1>1. CInv => TypeOK
  BY DEF CInv
<1> QED BY <1>1, CInvAlways, PTL

(***************************************************************************)
(* No command of the container library fails: whatever the order in which  *)
(* ranks run the statements, nobody inserts into an array that has closed, *)
(* reads one that has been deleted or finds a subscript taken.             *)
(***************************************************************************)
THEOREM ContainersNeverFail == Spec => []NoFailure
<1>1. CInv => NoFailure
  BY DEF CInv
<1> QED BY <1>1, CInvAlways, PTL

(***************************************************************************)
(* create_nested gives every writer under a subscript the same inner array *)
(* and nobody writes into one that is not in the outer array.              *)
(***************************************************************************)
THEOREM WritersShareInner == Spec => []OneInner
<1>1. CInv => OneInner
  <2> SUFFICES ASSUME CInv PROVE OneInner
    OBVIOUS
  <2>1. ASSUME NEW v \in Nested, NEW w \in Nested, SubOf[v] = SubOf[w], got[v] # None, got[w] # None
        PROVE  got[v] = got[w]
    <3>1. Slot(v) = Slot(w)
      BY <2>1 DEF Slot
    <3>2. got[v] = Slot(v).id /\ got[w] = Slot(w).id
      BY <2>1 DEF CInv, GotInv
    <3> QED BY <3>1, <3>2
  <2>2. ASSUME NEW w \in Nested, content[w] # {} PROVE Slot(w).id = w
    BY <2>2 DEF CInv, ContentInv
  <2> QED BY <2>1, <2>2 DEF OneInner
<1> QED BY <1>1, CInvAlways, PTL

(***************************************************************************)
(* Every reference count is the number of those who hold a reference: the  *)
(* program and its statements on the outer array, the slot and those given *)
(* the array on an inner one.                                              *)
(***************************************************************************)
THEOREM ReferencesBalance == Spec => []RefsBalanced
<1>1. CInv => RefsBalanced
  <2> SUFFICES ASSUME CInv PROVE RefsBalanced
    OBVIOUS
  <2>1. /\ Among(Writers, {"rule", "create", "fill", "poll"}) = Cardinality(AWriters)
        /\ Among(Readers \cup Checkers, {"rule", "subscribed"}) = Cardinality(AReaders)
    BY DEF Among, AWriters, AReaders
  <2>2. \A w : /\ With(w, Nested, {"have", "ref", "insert"}) = Cardinality(Holders(w))
               /\ With(w, Readers, {"ref", "wait"}) = Cardinality(RHolders(w))
    BY DEF With, Holders, RHolders
  <2>3. \A w : SlotSum(w, "wr") = HeldW(w) /\ SlotSum(w, "rd") = HeldR(w)
    BY DEF SlotSum, HeldW, HeldR
  <2>4. /\ awr = (IF main = "run" THEN 1 ELSE 0) + Among(Writers, {"rule", "create", "fill", "poll"})
        /\ ard = (IF main = "run" THEN 1 ELSE 0) + Among(Readers \cup Checkers, {"rule", "subscribed"})
    BY <2>1 DEF CInv, OuterInv, Running
  <2>5. ASSUME NEW w \in Nested, pc[w] # "fill"
        PROVE  /\ iwr[w] = SlotSum(w, "wr") + With(w, Nested, {"have", "ref", "insert"})
               /\ ird[w] = SlotSum(w, "rd") + With(w, Nested, {"have", "ref", "insert"})
                                            + With(w, Readers, {"ref", "wait"})
    BY <2>2, <2>3, <2>5 DEF CInv, InnerInv
  <2> QED BY <2>4, <2>5 DEF RefsBalanced
<1> QED BY <1>1, CInvAlways, PTL

(***************************************************************************)
(* What container_size and contains answer is everything the program       *)
(* writes, whatever the order in which the ranks ran.                      *)
(***************************************************************************)
THEOREM ReadersSeeEverything == Spec => []ReadersSeeAll
<1>1. CInv => ReadersSeeAll
  BY DEF CInv, SawInv, ReadersSeeAll
<1> QED BY <1>1, CInvAlways, PTL

(***************************************************************************)
(* Once all statements are done and the data store has given back what the *)
(* outer array held, none of its inner arrays is left.                     *)
(***************************************************************************)
THEOREM InnerArraysFreed == Spec => []NothingLeaks
<1>1. CInv => NothingLeaks
  <2> SUFFICES ASSUME CInv, Finished, \A s \in Subs : slot[s].rd = 0 /\ slot[s].wr = 0,
                      NEW w \in Writers, pc[w] = "done"
               PROVE  Gone(w)
    BY DEF NothingLeaks
  <2>1. Holders(w) = {} /\ RHolders(w) = {}
    BY Kinds DEF Finished, Holders, RHolders
  <2>2. Cardinality(Holders(w)) = 0 /\ Cardinality(RHolders(w)) = 0
    BY <2>1, FS_EmptySet
  <2>3. Slot(w).rd = 0 /\ Slot(w).wr = 0
    BY Kinds DEF Slot
  <2>4. CASE w \in Nested
    BY <2>2, <2>3, <2>4 DEF CInv, InnerInv, HeldW, HeldR, Gone
  <2>5. CASE w \in Plain
    BY <2>2, <2>3, <2>5 DEF CInv, InnerInv, Gone
  <2> QED BY <2>4, <2>5, Kinds
<1> QED BY <1>1, CInvAlways, PTL
=============================================================================
