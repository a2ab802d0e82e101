---------------------------- MODULE AsyncExecProofs ----------------------------
(***************************************************************************)
(* Proofs about AsyncExec, for every set of units, number of slots and     *)
(* buffers, either executor, with or without faults and early shutdown.    *)
(*                                                                         *)
(* The inductive invariant IInv adds to the checked invariants what the    *)
(* code maintains without saying so: which places of the loop may hold     *)
(* collected tasks, that every cell of the ring has the state its distance *)
(* from tail calls for, and the exact reference counts.  An error that     *)
(* ends the loop leaves less: ErrorInv says what.                          *)
(***************************************************************************)
EXTENDS AsyncExec, FiniteSetTheorems, TLAPS

-----------------------------------------------------------------------------
(* The inductive invariant. *)

\* Distance of cell i from cell t, going round the ring.
Off(i, t) == IF i >= t THEN i - t ELSE i - t + MaxReqs

RingInv ==
  /\ head = (tail + nreqs) % MaxReqs
  /\ Len(posted) <= nreqs
  /\ \A k \in 1 .. Len(posted) : Off(posted[k], tail) = nreqs - Len(posted) + k - 1
  /\ \A i \in Ring : cell[i] # Idle <=> Off(i, tail) < nreqs
  /\ \A i \in Ring : cell[i] = Pending <=> /\ nreqs - Len(posted) <= Off(i, tail)
                                           /\ Off(i, tail) < nreqs

PhaseInv ==
  /\ pc \in {"start", "loop", "get", "check", "yield", "stop", "exit"} => completed = {}
  /\ pc = "error" => completed = {}
  /\ pc = "get" /\ ~poll => used = 0
  /\ pc # "abort"
  /\ Cardinality(completed) <= CompletedSize

SlotInv ==
  /\ IsFiniteSet(active) /\ IsFiniteSet(completed)
  /\ Running => /\ used + nreqs + Cardinality(completed) <= Slots
                /\ used = Cardinality(active)

RefsInv ==
  pc # "error" => \A u \in Units : refs[u] = IF u \in active \cup completed THEN 1 ELSE 0

\* Unit u is in the place p and in no other.
Alone(u) ==
  /\ u \in fresh => u \notin queue \cup Buffered \cup active \cup completed \cup done \cup dropped
  /\ u \in queue => u \notin Buffered \cup active \cup completed \cup done \cup dropped
  /\ u \in Buffered => u \notin active \cup completed \cup done \cup dropped
  /\ u \in active => u \notin completed \cup done \cup dropped
  /\ u \in completed => u \notin done \cup dropped
  /\ u \in done => u \notin dropped
  /\ u \in fresh \cup queue \cup Buffered \cup active \cup completed \cup done \cup dropped

PlaceInv ==
  /\ pc # "error" => \A u \in Units : Alone(u)
  /\ \A i, j \in Ring : cell[i] \in Units /\ cell[i] = cell[j] => i = j

\* Unit u is in at most one place, or halfway, or collected and lost.
AloneOrLost(u) ==
  /\ u \in fresh => u \notin queue \cup Buffered \cup active \cup done \cup dropped
  /\ u \in queue => u \notin Buffered \cup active \cup done \cup dropped
  /\ u \in Buffered => u \notin done \cup dropped
  /\ u \in Buffered \cap active => nreqs > 0 /\ u = cell[tail]
  /\ u \in active => u \notin done \cup dropped
  /\ u \in done => u \notin dropped
  /\ u \in active => refs[u] >= 1
  /\ u \in fresh \cup queue \cup done \cup dropped => refs[u] = 0

Kept == fresh \cup queue \cup Buffered \cup active \cup done \cup dropped

LeftByError ==
  /\ \A u \in Units : AloneOrLost(u)
  /\ IsFiniteSet(Units \ Kept) /\ Cardinality(Units \ Kept) <= CompletedSize
  /\ \A u \in Units \ Kept : refs[u] = 1

ErrorInv == pc = "error" => LeftByError

IInv == TypeOK /\ PhaseInv /\ SlotInv /\ RingInv /\ RefsInv /\ PlaceInv /\ ErrorInv

-----------------------------------------------------------------------------
(* Facts about the constants and the ring. *)

\* With buffers to use, the ring has at least one cell and at most one per slot.
LEMMA MaxReqsBound ==
  ASSUME BufferCount > 0
  PROVE  MaxReqs \in Nat \ {0} /\ MaxReqs <= Slots
  BY SlotAssumption, BufferAssumption, SMT DEF MaxReqs, Buffers, Smaller

\* Going b places on from cell a of a ring of m cells.
LEMMA RingAdd ==
  ASSUME NEW m \in Nat \ {0}, NEW a \in 0 .. m - 1, NEW b \in 0 .. m
  PROVE  /\ (a + b) % m = IF a + b < m THEN a + b ELSE a + b - m
         /\ (a + b) % m \in 0 .. m - 1
  <1>1. CASE a + b < m
    BY <1>1, SMT
  <1>2. CASE a + b >= m
    BY <1>2, SMT
  <1> QED  BY <1>1, <1>2, SMT

-----------------------------------------------------------------------------
(* The steps that change more than pc, and the others. *)

QuietAction ==
  \/ Start \/ GetTasksError \/ SkipGet \/ GetError \/ GotAll \/ GotShutdown
  \/ SkipCheck \/ Yield \/ Ended \/ UNCHANGED vars

\* An error in the code of a unit or a callback, or in the Coaster client.
ErrorAction ==
  SubmitError \/ CheckError \/ \E u \in Units : UnitError(u) \/ CallbackError(u)

CollectAction(C) ==
  pc = "check" /\ Collect(C) /\ IsFiniteSet(C) /\ Cardinality(C) <= CompletedSize

LEMMA NextCases ==
  ASSUME [Next]_vars
  PROVE  \/ QuietAction
         \/ ErrorAction
         \/ GetTasks \/ StopExecutors \/ OthersIdle \/ Shutdown
         \/ NoopCollect \/ NoopNothing \/ CoasterCollect
         \/ \E u \in Units : \/ RunLaunch(u) \/ RunInline(u)
                             \/ CallbackLast(u) \/ CallbackLaunch(u)
                             \/ Put(u) \/ Match(u) \/ JobFinish(u)
  BY DEF Next, Worker, External, RunUnit, RunCallback, QuietAction, ErrorAction

LEMMA QuietUnchanged ==
  ASSUME QuietAction
  PROVE  UNCHANGED <<poll, ring, slots, results, adlb>>
  BY DEF QuietAction, Start, GetTasksError, SkipGet, GetError, GotAll,
         GotShutdown, SkipCheck, Yield, Ended, vars, ring, slots, results, adlb

LEMMA CollectCases ==
  ASSUME IInv, NoopCollect \/ NoopNothing \/ CoasterCollect
  PROVE  \E C \in SUBSET active : CollectAction(C)
  <1> USE CompletedAssumption
  <1>0. \A C \in SUBSET active : IsFiniteSet(C)
    BY FS_Subset DEF IInv, SlotInv
  <1>1. CASE NoopCollect
    <2>1. PICK C \in SUBSET active :
            /\ Cardinality(C) \in 1 .. (IF used > 1 /\ CompletedSize >= 2 THEN 2 ELSE 1)
            /\ Collect(C)
      BY <1>1 DEF NoopCollect
    <2>2. Cardinality(C) <= CompletedSize
      BY <2>1, SMT
    <2> QED  BY <1>0, <1>1, <2>1, <2>2 DEF NoopCollect, CollectAction
  <1>2. CASE NoopNothing
    <2>1. Cardinality({}) = 0
      BY FS_EmptySet
    <2>2. Cardinality({}) <= CompletedSize
      BY <2>1, SMT
    <2> QED  BY <1>0, <1>2, <2>2 DEF NoopNothing, CollectAction
  <1>3. CASE CoasterCollect
    <2>1. PICK C \in SUBSET finished :
            Cardinality(C) = Smaller(Cardinality(finished), CompletedSize) /\ Collect(C)
      BY <1>3 DEF CoasterCollect
    <2>2. C \in SUBSET active /\ finished \in SUBSET active
      BY <2>1 DEF IInv, TypeOK
    <2>3. Cardinality(finished) \in Nat
      BY <1>0, <2>2, FS_CardinalityType
    <2>4. Cardinality(C) <= CompletedSize
      BY <2>1, <2>3, SMT DEF Smaller
    <2> QED  BY <1>0, <1>3, <2>1, <2>2, <2>4 DEF CoasterCollect, CollectAction
  <1> QED  BY <1>1, <1>2, <1>3

-----------------------------------------------------------------------------
(* IInv holds initially. *)

LEMMA InitIInv ==
  ASSUME BufferCount > 0, Init
  PROVE  IInv
  <1> USE MaxReqsBound
  <1>1. TypeOK
    BY SlotAssumption, SMT DEF Init, TypeOK, Ring
  <1>2. PhaseInv /\ ErrorInv
    BY FS_EmptySet, CompletedAssumption, SMT DEF Init, PhaseInv, ErrorInv
  <1>3. SlotInv
    BY FS_EmptySet, SlotAssumption, SMT DEF Init, SlotInv, Running
  <1>4. RingInv
    <2>1. head = (tail + nreqs) % MaxReqs
      BY RingAdd, SMT DEF Init
    <2>2. \A i \in Ring : cell[i] = Idle /\ Off(i, tail) = i
      BY SMT DEF Init, Ring, Off
    <2>3. Len(posted) = 0 /\ nreqs = 0
      BY DEF Init
    <2> QED  BY <2>1, <2>2, <2>3, UnitAssumption, SMT DEF RingInv, Ring
  <1>5. RefsInv
    BY DEF Init, RefsInv
  <1>6. PlaceInv
    BY UnitAssumption DEF Init, PlaceInv, Alone, Buffered
  <1> QED  BY <1>1, <1>2, <1>3, <1>4, <1>5, <1>6 DEF IInv

-----------------------------------------------------------------------------
(* The two places that launch a task: a slot is free for it. *)

LEMMA RoomForUnit ==
  ASSUME IInv, pc = "get", nreqs > 0
  PROVE  used < Slots
  <1>1. Cardinality(completed) = 0
    BY FS_EmptySet DEF IInv, PhaseInv
  <1> QED  BY <1>1, SlotAssumption, SMT DEF IInv, SlotInv, Running, TypeOK

LEMMA RoomForCallback ==
  ASSUME BufferCount > 0, IInv, pc = "callbacks", NEW u \in completed
  PROVE  /\ used < Slots
         /\ IsFiniteSet(completed \ {u})
         /\ Cardinality(completed \ {u}) \in Nat
         /\ Cardinality(completed \ {u}) <= CompletedSize
         /\ used + nreqs + Cardinality(completed \ {u}) + 1 <= Slots
  <1>1. /\ IsFiniteSet(completed \ {u})
        /\ Cardinality(completed \ {u}) = Cardinality(completed) - 1
    BY FS_RemoveElement DEF IInv, SlotInv
  <1>2. Cardinality(completed \ {u}) \in Nat /\ Cardinality(completed) \in Nat
    BY <1>1, FS_CardinalityType DEF IInv, SlotInv
  <1> QED  BY <1>1, <1>2, MaxReqsBound, SlotAssumption, CompletedAssumption, SMT
           DEF IInv, PhaseInv, SlotInv, Running, TypeOK

-----------------------------------------------------------------------------
(* Each step preserves IInv. *)

(***************************************************************************)
(* An error: units in P have been released, and of the tasks the worker    *)
(* knew of only those in C are gone.                                       *)
(***************************************************************************)
LEMMA ErrorStep ==
  ASSUME IInv, pc # "error", UNCHANGED <<ring, done, dropped>>,
         NEW P \in SUBSET fresh, fresh' = fresh \ P, queue' = queue \cup P,
         active' \subseteq active \cup completed \cup Buffered,
         \A v \in Buffered \cap active' : nreqs > 0 /\ v = cell[tail],
         \A v \in active' : refs'[v] >= 1,
         \A v \in Units \ active' : refs'[v] = refs[v],
         NEW C, IsFiniteSet(C), Cardinality(C) <= CompletedSize,
         (active \cup completed) \ active' \subseteq C
  PROVE  LeftByError'
  <1>1. \A u \in Units : Alone(u) /\ refs[u] = IF u \in active \cup completed THEN 1 ELSE 0
    BY DEF IInv, PlaceInv, RefsInv
  <1>2. Buffered' = Buffered /\ nreqs' = nreqs /\ cell' = cell /\ tail' = tail
    BY DEF Buffered, ring
  <1>3. \A u \in Units : AloneOrLost(u)'
    BY <1>1, <1>2 DEF Alone, AloneOrLost
  <1>4. \A u \in Units \ Kept' : u \in active \cup completed /\ u \notin active'
    BY <1>1, <1>2 DEF Kept, Alone
  <1>5. Units \ Kept' \subseteq C
    BY <1>4
  <1>6. /\ IsFiniteSet(Units \ Kept') /\ Cardinality(Units \ Kept') <= Cardinality(C)
        /\ Cardinality(Units \ Kept') \in Nat /\ Cardinality(C) \in Nat
    BY <1>5, FS_Subset, FS_CardinalityType
  <1>7. Cardinality(Units \ Kept') <= CompletedSize
    BY <1>6, CompletedAssumption, SMT
  <1>8. \A u \in Units \ Kept' : refs'[u] = 1
    BY <1>1, <1>4
  <1> QED  BY <1>3, <1>6, <1>7, <1>8 DEF LeftByError

LEMMA QuietIInv ==
  ASSUME BufferCount > 0, IInv, QuietAction
  PROVE  IInv'
  <1> USE MaxReqsBound
  <1>1. UNCHANGED <<poll, ring, slots, results, adlb>>
    BY QuietUnchanged
  <1>2. PhaseInv' /\ (Running' => Running)
    <2>1. pc' # "abort" /\ (Running' => Running) /\ (pc' = "get" => pc = "get")
      BY SMT
         DEF IInv, PhaseInv, Running, QuietAction, Start, GetTasksError,
             SkipGet, GetError, GotAll, GotShutdown, SkipCheck,
             Yield, Ended, vars
    <2>2. pc = "callbacks" => pc' = "callbacks"
      BY DEF QuietAction, Start, GetTasksError, SkipGet, GetError, GotAll,
             GotShutdown, SkipCheck, Yield, Ended, vars
    <2>3. pc = "error" => pc' = "error"
      BY DEF QuietAction, Start, GetTasksError, SkipGet, GetError, GotAll,
             GotShutdown, SkipCheck, Yield, Ended, vars
    <2> QED  BY <1>1, <2>1, <2>2, <2>3 DEF IInv, TypeOK, PhaseInv, slots, results
  <1>a. pc = "error" => pc' = "error"
    BY DEF QuietAction, Start, GetTasksError, SkipGet, GetError, GotAll,
           GotShutdown, SkipCheck, Yield, Ended, vars
  <1>3. TypeOK'
    <2>1. /\ pc' \in {"start", "loop", "get", "check", "callbacks", "yield",
                      "stop", "exit", "error", "abort"}
          /\ happened' \in BOOLEAN
          /\ started' \in BOOLEAN /\ service' \in BOOLEAN
      BY Zenon
         DEF IInv, TypeOK, QuietAction, Start, GetTasksError,
             SkipGet, GetError, GotAll, GotShutdown, SkipCheck, Yield,
             Ended, vars, life
    <2> QED  BY <1>1, <2>1 DEF IInv, TypeOK, ring, slots, results, adlb
  <1>4. SlotInv'
    BY <1>1, <1>2 DEF IInv, SlotInv, ring, slots, results
  <1>5. RingInv'
    BY <1>1 DEF IInv, RingInv, Off, ring, adlb
  <1>6. RefsInv'
    BY <1>1, <1>a DEF IInv, RefsInv, slots, results
  <1>7. PlaceInv'
    BY <1>1, <1>a DEF IInv, PlaceInv, Alone, Buffered, ring, slots, results, adlb
  <1>8. ErrorInv'
    <2>1. CASE pc = "error"
      BY <1>1, <2>1 DEF IInv, ErrorInv, LeftByError, AloneOrLost, Kept, Buffered,
         ring, slots, results, adlb
    <2>2. CASE pc # "error" /\ pc' = "error"
      <3>1. \A u \in Units : Alone(u) /\ refs[u] = IF u \in active \cup completed THEN 1 ELSE 0
        BY <2>2 DEF IInv, PlaceInv, RefsInv
      <3>2. completed = {} /\ active \subseteq Units
        BY <1>1, <1>2, <2>2 DEF PhaseInv, IInv, TypeOK, results
      <3>3. Buffered \cap active = {}
        BY <3>1, <3>2 DEF Alone
      <3>4. IsFiniteSet({}) /\ Cardinality({}) <= CompletedSize
        BY FS_EmptySet, CompletedAssumption, SMT
      <3> QED  BY <1>1, <2>2, <3>1, <3>2, <3>3, <3>4, ErrorStep
               DEF ErrorInv, ring, slots, results, adlb
    <2> QED  BY <2>1, <2>2 DEF ErrorInv
  <1> QED  BY <1>2, <1>3, <1>4, <1>5, <1>6, <1>7, <1>8 DEF IInv

\* The cell j places beyond head is nreqs + j places from tail, and conversely.
LEMMA BeyondHead ==
  ASSUME BufferCount > 0, IInv
  PROVE  /\ \A j \in Nat : nreqs + j < MaxReqs =>
               (head + j) % MaxReqs \in Ring /\ Off((head + j) % MaxReqs, tail) = nreqs + j
         /\ \A i \in Ring : nreqs <= Off(i, tail) =>
               Off(i, tail) \in Nat /\ i = (head + (Off(i, tail) - nreqs)) % MaxReqs
  <1>1. /\ head \in 0 .. MaxReqs - 1 /\ tail \in 0 .. MaxReqs - 1 /\ nreqs \in 0 .. MaxReqs
        /\ head = (tail + nreqs) % MaxReqs
        /\ MaxReqs \in Nat \ {0}
    BY MaxReqsBound DEF IInv, TypeOK, RingInv, Ring
  <1>2. head = IF tail + nreqs < MaxReqs THEN tail + nreqs ELSE tail + nreqs - MaxReqs
    BY <1>1, RingAdd
  <1>3. ASSUME NEW j \in Nat, nreqs + j < MaxReqs
        PROVE  (head + j) % MaxReqs \in Ring /\ Off((head + j) % MaxReqs, tail) = nreqs + j
    <2>1. j \in 0 .. MaxReqs
      BY <1>1, <1>3, SMT
    <2>2. (head + j) % MaxReqs = IF head + j < MaxReqs THEN head + j ELSE head + j - MaxReqs
      BY <1>1, <2>1, RingAdd
    <2> QED  BY <1>1, <1>2, <1>3, <2>2, SMT DEF Ring, Off
  <1>4. ASSUME NEW i \in Ring, nreqs <= Off(i, tail)
        PROVE  Off(i, tail) \in Nat /\ i = (head + (Off(i, tail) - nreqs)) % MaxReqs
    <2>1. Off(i, tail) \in Nat /\ Off(i, tail) < MaxReqs
      BY <1>1, SMT DEF Ring, Off
    <2>2. Off(i, tail) - nreqs \in 0 .. MaxReqs
      BY <1>1, <1>4, <2>1, SMT
    <2>3. (head + (Off(i, tail) - nreqs)) % MaxReqs
            = IF head + (Off(i, tail) - nreqs) < MaxReqs
              THEN head + (Off(i, tail) - nreqs) ELSE head + (Off(i, tail) - nreqs) - MaxReqs
      BY <1>1, <2>2, RingAdd
    <2> QED  BY <1>1, <1>2, <1>4, <2>1, <2>3, SMT DEF Ring, Off
  <1> QED  BY <1>3, <1>4

LEMMA GetTasksIInv ==
  ASSUME BufferCount > 0, IInv, GetTasks
  PROVE  IInv'
  <1> USE MaxReqsBound
  <1> DEFINE n == ExtraReqs
  <1>1. UNCHANGED <<tail, slots, results, life, fresh, queue, others, shutdown>>
    BY DEF GetTasks
  <1>2. pc = "loop" /\ used < Slots /\ pc' = "get" /\ poll' = (used # 0) /\ happened' = FALSE
    BY DEF GetTasks, PollGet
  <1>3. PhaseInv' /\ ErrorInv'
    BY <1>1, <1>2 DEF IInv, PhaseInv, ErrorInv, slots, results
  <1>4. Cardinality(completed) = 0
    BY <1>2, FS_EmptySet DEF IInv, PhaseInv
  <1>5. RefsInv'
    BY <1>1, <1>2 DEF IInv, RefsInv, slots, results
  <1>6. CASE n <= 0
    <2>1. UNCHANGED <<cell, posted, head, nreqs>>
      BY <1>6, SlotAssumption, SMT DEF GetTasks, ExtraReqs, Smaller, IInv, TypeOK
    <2>2. TypeOK'
      BY <1>1, <1>2, <2>1 DEF IInv, TypeOK, slots, results, life
    <2>3. SlotInv'
      BY <1>1, <1>2, <2>1 DEF IInv, SlotInv, Running, slots, results
    <2>4. RingInv'
      BY <1>1, <2>1 DEF IInv, RingInv, Off
    <2>5. PlaceInv'
      BY <1>1, <1>2, <2>1 DEF IInv, PlaceInv, Alone, Buffered, slots, results
    <2> QED  BY <1>3, <1>5, <2>2, <2>3, <2>4, <2>5 DEF IInv
  <1>7. CASE n > 0
    <2>1. /\ n \in Nat /\ nreqs + n <= MaxReqs /\ used + nreqs + n <= Slots
          /\ nreqs \in Nat /\ used \in Nat
      BY <1>2, <1>7, SlotAssumption, SMT DEF ExtraReqs, Smaller, IInv, TypeOK
    <2>2. PostRequests(n)
      BY <1>7, <2>1, SMT DEF GetTasks
    <2> HIDE DEF n
    <2>3. \A i \in Ring : (\E j \in 0 .. n-1 : i = (head + j) % MaxReqs)
                            <=> nreqs <= Off(i, tail) /\ Off(i, tail) < nreqs + n
      <3> TAKE i \in Ring
      <3>1. ASSUME NEW j \in 0 .. n-1, i = (head + j) % MaxReqs
            PROVE  nreqs <= Off(i, tail) /\ Off(i, tail) < nreqs + n
        BY <2>1, <3>1, BeyondHead, SMT
      <3>2. ASSUME nreqs <= Off(i, tail), Off(i, tail) < nreqs + n
            PROVE  \E j \in 0 .. n-1 : i = (head + j) % MaxReqs
        <4>1. Off(i, tail) \in Nat /\ i = (head + (Off(i, tail) - nreqs)) % MaxReqs
          BY <3>2, BeyondHead
        <4>2. Off(i, tail) - nreqs \in 0 .. n-1
          BY <2>1, <3>2, <4>1, SMT
        <4> QED  BY <4>1, <4>2
      <3> QED  BY <3>1, <3>2
    <2>4. cell' = [i \in Ring |-> IF nreqs <= Off(i, tail) /\ Off(i, tail) < nreqs + n
                                  THEN Pending ELSE cell[i]]
      BY <2>2, <2>3 DEF PostRequests
    <2>5. \A j \in 1 .. n : /\ (head + j - 1) % MaxReqs \in Ring
                            /\ Off((head + j - 1) % MaxReqs, tail) = nreqs + j - 1
      <3> TAKE j \in 1 .. n
      <3>1. j - 1 \in Nat /\ nreqs + (j - 1) < MaxReqs /\ head + (j - 1) = head + j - 1
        BY <2>1, SMT DEF IInv, TypeOK, Ring
      <3> QED  BY <2>1, <3>1, BeyondHead, SMT
    <2> DEFINE more == [j \in 1 .. n |-> (head + j - 1) % MaxReqs]
    <2>6. more \in Seq(Ring) /\ Len(more) = n
      BY <2>1, <2>5, SMT
    <2>7. /\ posted' = posted \o more /\ nreqs' = nreqs + n
          /\ head' = (head + n) % MaxReqs
      BY <2>2 DEF PostRequests
    <2>8. TypeOK'
      <3>1. cell' \in [Ring -> Units \cup {Idle, Pending}]
        BY <2>4 DEF IInv, TypeOK
      <3>2. posted' \in Seq(Ring)
        BY <2>6, <2>7 DEF IInv, TypeOK
      <3>3. nreqs' \in 0 .. MaxReqs
        BY <2>1, <2>7, SMT
      <3>4. head' \in Ring
        BY <2>1, <2>7, SMT DEF Ring, IInv, TypeOK
      <3> QED  BY <1>1, <1>2, <3>1, <3>2, <3>3, <3>4 DEF IInv, TypeOK, slots, results, life
    <2>9. SlotInv'
      BY <1>1, <1>2, <1>4, <2>1, <2>7, SMT DEF IInv, SlotInv, Running, slots, results
    <2>10. RingInv'
      <3> HIDE DEF more
      <3>1. \A i : Off(i, tail') = Off(i, tail)
        BY <1>1 DEF Off
      <3>2. head' = (tail' + nreqs') % MaxReqs
        <4>1. /\ head \in 0 .. MaxReqs - 1 /\ tail \in 0 .. MaxReqs - 1
              /\ head = (tail + nreqs) % MaxReqs
              /\ nreqs \in 0 .. MaxReqs /\ n \in 0 .. MaxReqs /\ nreqs + n \in 0 .. MaxReqs
          BY <2>1, SMT DEF IInv, TypeOK, RingInv, Ring
        <4>2. head = IF tail + nreqs < MaxReqs THEN tail + nreqs ELSE tail + nreqs - MaxReqs
          BY <4>1, RingAdd
        <4>3. (head + n) % MaxReqs = IF head + n < MaxReqs THEN head + n ELSE head + n - MaxReqs
          BY <4>1, RingAdd
        <4>4. (tail + (nreqs + n)) % MaxReqs
                = IF tail + (nreqs + n) < MaxReqs
                  THEN tail + (nreqs + n) ELSE tail + (nreqs + n) - MaxReqs
          BY <4>1, RingAdd
        <4>5. tail' = tail
          BY <1>1
        <4>6. (head + n) % MaxReqs = (tail + (nreqs + n)) % MaxReqs
          BY <4>1, <4>2, <4>3, <4>4, SMT
        <4>7. tail' + nreqs' = tail + (nreqs + n)
          BY <2>7, <4>5
        <4> QED  BY <2>7, <4>6, <4>7
      <3>3. Len(posted') = Len(posted) + n /\ Len(posted) \in Nat /\ Len(posted) <= nreqs
        <4>1. posted \in Seq(Ring) /\ Len(posted) <= nreqs
          BY DEF IInv, TypeOK, RingInv
        <4>2. Len(posted \o more) = Len(posted) + Len(more)
          BY <2>6, <4>1
        <4>3. Len(posted) \in Nat
          BY <4>1
        <4> QED  BY <2>6, <2>7, <4>1, <4>2, <4>3
      <3>4. ASSUME NEW k \in 1 .. Len(posted')
            PROVE  Off(posted'[k], tail) = nreqs' - Len(posted') + k - 1
        <4>1. CASE k <= Len(posted)
          <5>1. posted'[k] = posted[k] /\ k \in 1 .. Len(posted)
            BY <2>6, <2>7, <3>3, <4>1, SMT DEF IInv, TypeOK
          <5>2. Off(posted[k], tail) = nreqs - Len(posted) + k - 1
            BY <5>1 DEF IInv, RingInv
          <5> QED  BY <2>1, <2>7, <3>3, <5>1, <5>2, SMT
        <4>2. CASE k > Len(posted)
          <5>1. posted'[k] = more[k - Len(posted)] /\ k - Len(posted) \in 1 .. n
            BY <2>1, <2>6, <2>7, <3>3, <4>2, SMT DEF IInv, TypeOK
          <5>2. Off(posted'[k], tail) = nreqs + (k - Len(posted)) - 1
            BY <2>5, <5>1 DEF more
          <5> QED  BY <2>1, <2>7, <3>3, <5>2, SMT
        <4> QED  BY <3>3, <4>1, <4>2, SMT
      <3>5. ASSUME NEW i \in Ring
            PROVE  /\ cell'[i] # Idle <=> Off(i, tail) < nreqs'
                   /\ cell'[i] = Pending <=> nreqs' - Len(posted') <= Off(i, tail) /\ Off(i, tail) < nreqs'
        <4>1. Off(i, tail) \in Int
          BY SMT DEF Off, Ring, IInv, TypeOK
        <4>2. /\ cell[i] # Idle <=> Off(i, tail) < nreqs
              /\ cell[i] = Pending <=> nreqs - Len(posted) <= Off(i, tail) /\ Off(i, tail) < nreqs
          BY DEF IInv, RingInv
        <4>3. CASE nreqs <= Off(i, tail) /\ Off(i, tail) < nreqs + n
          <5>1. cell'[i] = Pending
            BY <2>4, <4>3
          <5> QED  BY <2>1, <2>7, <3>3, <4>1, <4>3, <5>1, UnitAssumption, SMT
        <4>4. CASE ~(nreqs <= Off(i, tail) /\ Off(i, tail) < nreqs + n)
          <5>1. cell'[i] = cell[i]
            BY <2>4, <4>4
          <5> QED  BY <2>1, <2>7, <3>3, <4>1, <4>2, <4>4, <5>1, SMT
        <4> QED  BY <4>3, <4>4
      <3> QED  BY <2>1, <2>7, <3>1, <3>2, <3>3, <3>4, <3>5, SMT DEF RingInv
    <2>11. PlaceInv'
      <3>1. \A i \in Ring : cell'[i] \in Units <=> cell[i] \in Units
        <4> TAKE i \in Ring
        <4>1. Off(i, tail) \in Int
          BY SMT DEF Off, Ring, IInv, TypeOK
        <4>2. nreqs <= Off(i, tail) => cell[i] = Idle
          BY <2>1, <4>1, SMT DEF IInv, RingInv
        <4> QED  BY <2>4, <4>2, UnitAssumption
      <3>2. \A i \in Ring : cell'[i] \in Units => cell'[i] = cell[i]
        BY <2>4, UnitAssumption
      <3>3. Buffered' = Buffered
        BY <3>1, <3>2 DEF Buffered
      <3> QED  BY <1>1, <1>2, <3>1, <3>2, <3>3 DEF IInv, PlaceInv, Alone, slots, results
    <2> QED  BY <1>3, <1>5, <2>8, <2>9, <2>10, <2>11 DEF IInv
  <1>8. n \in Int
    BY SlotAssumption, SMT DEF ExtraReqs, Smaller, IInv, TypeOK
  <1> QED  BY <1>6, <1>7, <1>8, SMT

\* What the invariant says of the variables of the ring, for the provers.
LEMMA RingFacts ==
  ASSUME BufferCount > 0, IInv
  PROVE  /\ MaxReqs \in Nat \ {0} /\ Ring = 0 .. MaxReqs - 1
         /\ head \in 0 .. MaxReqs - 1 /\ tail \in 0 .. MaxReqs - 1
         /\ nreqs \in 0 .. MaxReqs
         /\ posted \in Seq(Ring) /\ Len(posted) \in Nat /\ Len(posted) <= nreqs
         /\ \A i \in Ring : Off(i, tail) \in 0 .. MaxReqs - 1
         /\ \A i, j \in Ring : Off(i, tail) = Off(j, tail) => i = j
  <1>1. /\ MaxReqs \in Nat \ {0} /\ Ring = 0 .. MaxReqs - 1
        /\ head \in 0 .. MaxReqs - 1 /\ tail \in 0 .. MaxReqs - 1
        /\ nreqs \in 0 .. MaxReqs
        /\ posted \in Seq(Ring) /\ Len(posted) <= nreqs
    BY MaxReqsBound DEF IInv, TypeOK, RingInv, Ring
  <1>2. Len(posted) \in Nat
    BY <1>1
  <1>3. \A i \in Ring : Off(i, tail) \in 0 .. MaxReqs - 1
    BY <1>1, SMT DEF Off
  <1>4. \A i, j \in Ring : Off(i, tail) = Off(j, tail) => i = j
    BY <1>1, SMT DEF Off
  <1> QED  BY <1>1, <1>2, <1>3, <1>4

\* Taking the oldest request off the ring.
LEMMA RetireRing ==
  ASSUME BufferCount > 0, IInv, nreqs > 0, cell[tail] \in Units,
         RetireRequest, posted' = posted
  PROVE  /\ RingInv'
         /\ cell' \in [Ring -> Units \cup {Idle, Pending}]
         /\ nreqs' = nreqs - 1 /\ nreqs' \in 0 .. MaxReqs
         /\ head' \in Ring /\ tail' \in Ring
         /\ Buffered' = Buffered \ {cell[tail]} /\ cell[tail] \in Buffered
         /\ \A i, j \in Ring : cell'[i] \in Units /\ cell'[i] = cell'[j] => i = j
  <1> USE RingFacts
  <1>1. /\ cell' = [cell EXCEPT ![tail] = Idle]
        /\ tail' = (tail + 1) % MaxReqs
        /\ nreqs' = nreqs - 1
        /\ head' = head
    BY DEF RetireRequest
  <1>2. tail' = IF tail + 1 < MaxReqs THEN tail + 1 ELSE tail + 1 - MaxReqs
    <2>1. 1 \in 0 .. MaxReqs
      BY SMT
    <2> QED  BY <1>1, <2>1, RingAdd
  <1>3. tail \in Ring /\ tail' \in Ring /\ head' \in Ring /\ nreqs' \in 0 .. MaxReqs
    BY <1>1, <1>2, SMT
  <1>4. cell \in [Ring -> Units \cup {Idle, Pending}]
    BY DEF IInv, TypeOK
  <1>5. \A i \in Ring : cell'[i] = IF i = tail THEN Idle ELSE cell[i]
    BY <1>1, <1>4
  <1>6. cell' \in [Ring -> Units \cup {Idle, Pending}]
    BY <1>1, <1>4
  <1>7. \A i \in Ring : Off(i, tail') = IF i = tail THEN MaxReqs - 1 ELSE Off(i, tail) - 1
    <2> HIDE RingFacts
    <2>1. /\ MaxReqs \in Nat \ {0} /\ tail \in 0 .. MaxReqs - 1
          /\ Ring = 0 .. MaxReqs - 1
      BY RingFacts
    <2> QED  BY <1>2, <2>1, SMT DEF Off
  <1>8. Off(tail, tail) = 0
    BY SMT DEF Off
  <1>9. Len(posted) < nreqs
    <2>1. ~(nreqs - Len(posted) <= Off(tail, tail) /\ Off(tail, tail) < nreqs)
      BY <1>3, UnitAssumption DEF IInv, RingInv
    <2> QED  BY <1>8, <2>1, SMT
  <1>10. RingInv'
    <2>1. head' = (tail' + nreqs') % MaxReqs
      <3>1. head = (tail + nreqs) % MaxReqs
        BY DEF IInv, RingInv
      <3>2. head = IF tail + nreqs < MaxReqs THEN tail + nreqs ELSE tail + nreqs - MaxReqs
        BY <3>1, RingAdd
      <3>3. tail' \in 0 .. MaxReqs - 1 /\ nreqs' \in 0 .. MaxReqs
        BY <1>3
      <3>4. (tail' + nreqs') % MaxReqs = IF tail' + nreqs' < MaxReqs
                                         THEN tail' + nreqs' ELSE tail' + nreqs' - MaxReqs
        BY <3>3, RingAdd
      <3>5. head = IF tail' + nreqs' < MaxReqs
                   THEN tail' + nreqs' ELSE tail' + nreqs' - MaxReqs
        <4> HIDE RingFacts
        <4>1. MaxReqs \in Nat \ {0} /\ tail \in 0 .. MaxReqs - 1 /\ nreqs \in 1 .. MaxReqs
          BY RingFacts, SMT
        <4>2. nreqs' = nreqs - 1
          BY <1>1
        <4> QED  BY <1>2, <3>2, <4>1, <4>2, SMT
      <3> QED  BY <1>1, <3>4, <3>5
    <2>2. ASSUME NEW k \in 1 .. Len(posted)
          PROVE  Off(posted[k], tail') = nreqs' - Len(posted) + k - 1
      <3>1. posted[k] \in Ring /\ Off(posted[k], tail) = nreqs - Len(posted) + k - 1
        BY DEF IInv, RingInv
      <3>2. posted[k] # tail
        BY <1>8, <1>9, <3>1, SMT
      <3>3. Off(posted[k], tail') = Off(posted[k], tail) - 1
        BY <1>7, <3>1, <3>2
      <3> QED  BY <1>1, <3>1, <3>3, SMT
    <2>3. ASSUME NEW i \in Ring
          PROVE  /\ cell'[i] # Idle <=> Off(i, tail') < nreqs'
                 /\ cell'[i] = Pending <=> nreqs' - Len(posted) <= Off(i, tail') /\ Off(i, tail') < nreqs'
      <3>1. /\ cell[i] # Idle <=> Off(i, tail) < nreqs
            /\ cell[i] = Pending <=> nreqs - Len(posted) <= Off(i, tail) /\ Off(i, tail) < nreqs
        BY DEF IInv, RingInv
      <3>2. CASE i = tail
        <4>1. cell'[i] = Idle /\ Off(i, tail') = MaxReqs - 1
          BY <1>5, <1>7, <3>2
        <4> QED  BY <1>1, <4>1, UnitAssumption, SMT
      <3>3. CASE i # tail
        <4>1. cell'[i] = cell[i] /\ Off(i, tail') = Off(i, tail) - 1
          BY <1>5, <1>7, <3>3
        <4>2. nreqs' = nreqs - 1 /\ Off(i, tail) \in Int
          BY <1>1
        <4> QED  BY <3>1, <4>1, <4>2, SMT
      <3> QED  BY <3>2, <3>3
    <2>4. Len(posted) <= nreqs'
      BY <1>1, <1>9, SMT
    <2> QED  BY <2>1, <2>2, <2>3, <2>4, Zenon DEF RingInv
  <1>11. \A i, j \in Ring : cell'[i] \in Units /\ cell'[i] = cell'[j] => i = j
    BY <1>5, UnitAssumption DEF IInv, PlaceInv
  <1>12. Buffered' = Buffered \ {cell[tail]}
    BY <1>3, <1>5, UnitAssumption DEF Buffered, IInv, PlaceInv
  <1>13. cell[tail] \in Buffered
    BY <1>3 DEF Buffered
  <1> QED  BY <1>1, <1>3, <1>6, <1>10, <1>11, <1>12, <1>13

\* ADLB answers the oldest unanswered request.
LEMMA MatchRing ==
  ASSUME BufferCount > 0, IInv, NEW u \in Units, Match(u)
  PROVE  /\ RingInv'
         /\ cell' \in [Ring -> Units \cup {Idle, Pending}] /\ posted' \in Seq(Ring)
         /\ cell[Head(posted)] = Pending /\ cell' = [cell EXCEPT ![Head(posted)] = u]
         /\ Buffered' = Buffered \cup {u} /\ u \notin Buffered
         /\ \A i, j \in Ring : cell'[i] \in Units /\ cell'[i] = cell'[j] => i = j
  <1> USE RingFacts
  <1>1. /\ u \in queue /\ posted # << >> /\ posted' = Tail(posted)
        /\ cell' = [cell EXCEPT ![Head(posted)] = u]
        /\ UNCHANGED <<nreqs, head, tail>>
    BY DEF Match
  <1>2. /\ Len(posted) > 0 /\ Head(posted) = posted[1] /\ Head(posted) \in Ring
        /\ posted' \in Seq(Ring) /\ Len(posted') = Len(posted) - 1
        /\ \A k \in 1 .. Len(posted') : posted'[k] = posted[k + 1]
    BY <1>1
  <1>3. \A i : Off(i, tail') = Off(i, tail)
    BY <1>1 DEF Off
  <1>4. Off(posted[1], tail) = nreqs - Len(posted)
    BY <1>2, SMT DEF IInv, RingInv
  <1>5. cell[Head(posted)] = Pending
    BY <1>2, <1>4, SMT DEF IInv, RingInv
  <1>6. cell \in [Ring -> Units \cup {Idle, Pending}]
    BY DEF IInv, TypeOK
  <1>7. \A i \in Ring : cell'[i] = IF i = Head(posted) THEN u ELSE cell[i]
    BY <1>1, <1>6
  <1>8. cell' \in [Ring -> Units \cup {Idle, Pending}]
    BY <1>1, <1>6
  <1>9. u \notin Buffered
    BY <1>1 DEF IInv, PlaceInv, Alone, ErrorInv, LeftByError, AloneOrLost
  <1>10. \A i, j \in Ring : cell'[i] \in Units /\ cell'[i] = cell'[j] => i = j
    BY <1>7, <1>9 DEF IInv, PlaceInv, Buffered
  <1>11. Buffered' = Buffered \cup {u}
    <2>1. \A v \in Units : v # u => (\E i \in Ring : cell'[i] = v) <=> (\E i \in Ring : cell[i] = v)
      BY <1>2, <1>5, <1>7, UnitAssumption
    <2>2. \E i \in Ring : cell'[i] = u
      BY <1>2, <1>7
    <2> QED  BY <2>1, <2>2 DEF Buffered
  <1>12. RingInv'
    <2>1. head' = (tail' + nreqs') % MaxReqs
      BY <1>1 DEF IInv, RingInv
    <2>2. Len(posted') <= nreqs'
      BY <1>1, <1>2, SMT
    <2>3. ASSUME NEW k \in 1 .. Len(posted')
          PROVE  Off(posted'[k], tail) = nreqs - Len(posted') + k - 1
      <3>1. k + 1 \in 1 .. Len(posted) /\ posted'[k] = posted[k + 1]
        BY <1>2, SMT
      <3>2. Off(posted[k + 1], tail) = nreqs - Len(posted) + (k + 1) - 1
        BY <3>1 DEF IInv, RingInv
      <3> QED  BY <1>2, <3>1, <3>2, SMT
    <2>4. ASSUME NEW i \in Ring
          PROVE  /\ cell'[i] # Idle <=> Off(i, tail) < nreqs
                 /\ cell'[i] = Pending <=> nreqs - Len(posted') <= Off(i, tail) /\ Off(i, tail) < nreqs
      <3>1. /\ cell[i] # Idle <=> Off(i, tail) < nreqs
            /\ cell[i] = Pending <=> nreqs - Len(posted) <= Off(i, tail) /\ Off(i, tail) < nreqs
        BY DEF IInv, RingInv
      <3>2. CASE i = Head(posted)
        <4>1. cell'[i] = u /\ Off(i, tail) = nreqs - Len(posted)
          BY <1>2, <1>4, <1>7, <3>2
        <4> QED  BY <1>2, <4>1, UnitAssumption, SMT
      <3>3. CASE i # Head(posted)
        <4>1. cell'[i] = cell[i] /\ Off(i, tail) # nreqs - Len(posted)
          BY <1>2, <1>4, <1>7, <3>3
        <4> QED  BY <1>2, <3>1, <4>1, SMT
      <3> QED  BY <3>2, <3>3
    <2> QED  BY <1>1, <1>3, <2>1, <2>2, <2>3, <2>4 DEF RingInv
  <1> QED  BY <1>1, <1>2, <1>5, <1>8, <1>9, <1>10, <1>11, <1>12

\* A unit that leaves the ring is in no other place, and holds no reference.
LEMMA BufferedAlone ==
  ASSUME IInv, pc # "error", NEW u \in Units, u \in Buffered
  PROVE  /\ u \notin fresh \cup queue \cup active \cup completed \cup done \cup dropped
         /\ refs[u] = 0
  BY DEF IInv, PlaceInv, Alone, RefsInv

LEMMA ReleaseType ==
  ASSUME TypeOK, NEW P \in Released, Release(P)
  PROVE  /\ P \subseteq fresh
         /\ fresh' = fresh \ P /\ queue' = queue \cup P
         /\ fresh' \in SUBSET Units /\ queue' \in SUBSET Units
         /\ UNCHANGED <<posted, others, shutdown>>
  BY DEF TypeOK, Released, Release

LEMMA RunLaunchIInv ==
  ASSUME BufferCount > 0, IInv, NEW u \in Units, RunLaunch(u)
  PROVE  IInv'
  <1>0. pc = "get" /\ nreqs > 0 /\ used < Slots /\ ~(used >= Slots)
    <2>1. pc = "get" /\ nreqs > 0
      BY DEF RunLaunch
    <2>2. used < Slots
      BY <2>1, RoomForUnit
    <2> QED  BY <2>1, <2>2, SlotAssumption, SMT DEF IInv, TypeOK
  <1>1. PICK P \in Released : Release(P)
    BY <1>0 DEF RunLaunch
  <1>2. /\ pc = "get" /\ pc' = "get" /\ nreqs > 0 /\ cell[tail] = u /\ used < Slots
        /\ Execute(u) /\ RetireRequest
        /\ refs' = [refs EXCEPT ![u] = @ + 1]
        /\ poll' = TRUE /\ happened' = TRUE
        /\ UNCHANGED <<completed, done, dropped, started, service>>
    BY <1>0 DEF RunLaunch, results, life
  <1>3. /\ P \subseteq fresh /\ fresh' = fresh \ P /\ queue' = queue \cup P
        /\ fresh' \in SUBSET Units /\ queue' \in SUBSET Units
        /\ UNCHANGED <<posted, others, shutdown>>
    BY <1>1, ReleaseType DEF IInv
  <1>4. /\ RingInv'
        /\ cell' \in [Ring -> Units \cup {Idle, Pending}]
        /\ nreqs' = nreqs - 1 /\ nreqs' \in 0 .. MaxReqs
        /\ head' \in Ring /\ tail' \in Ring
        /\ Buffered' = Buffered \ {u} /\ u \in Buffered
        /\ \A i, j \in Ring : cell'[i] \in Units /\ cell'[i] = cell'[j] => i = j
    BY <1>2, <1>3, RetireRing
  <1>5. /\ u \notin fresh \cup queue \cup active \cup completed \cup done \cup dropped
        /\ refs[u] = 0
    BY <1>2, <1>4, BufferedAlone
  <1>6. /\ used' = used + 1 /\ active' = active \cup {u} /\ finished' = finished
        /\ launches' = [launches EXCEPT ![u] = @ + 1]
    BY <1>2 DEF Execute
  <1>7. PhaseInv' /\ ErrorInv'
    BY <1>2 DEF IInv, PhaseInv, ErrorInv
  <1>8. TypeOK'
    <2>1. used' \in 0 .. Slots
      BY <1>2, <1>6, SlotAssumption, SMT DEF IInv, TypeOK
    <2>2. refs' \in [Units -> Nat] /\ launches' \in [Units -> Nat]
      BY <1>2, <1>6 DEF IInv, TypeOK
    <2>3. active' \in SUBSET Units /\ finished' \in SUBSET active'
      BY <1>6 DEF IInv, TypeOK
    <2> QED  BY <1>2, <1>3, <1>4, <2>1, <2>2, <2>3 DEF IInv, TypeOK
  <1>9. SlotInv'
    <2>1. IsFiniteSet(active') /\ Cardinality(active') = Cardinality(active) + 1
      BY <1>5, <1>6, FS_AddElement DEF IInv, SlotInv
    <2>2. Cardinality(completed) \in Nat
      BY FS_CardinalityType DEF IInv, SlotInv
    <2> QED  BY <1>2, <1>4, <1>6, <2>1, <2>2, MaxReqsBound, SMT
             DEF IInv, TypeOK, SlotInv, Running
  <1>10. RefsInv'
    BY <1>2, <1>5, <1>6 DEF IInv, TypeOK, RefsInv
  <1>11. PlaceInv'
    <2>1. \A v \in Units : Alone(v)'
      BY <1>2, <1>3, <1>4, <1>5, <1>6 DEF IInv, PlaceInv, Alone
    <2> QED  BY <1>4, <2>1 DEF PlaceInv
  <1> QED  BY <1>4, <1>7, <1>8, <1>9, <1>10, <1>11 DEF IInv

LEMMA RunInlineIInv ==
  ASSUME BufferCount > 0, IInv, NEW u \in Units, RunInline(u)
  PROVE  IInv'
  <1>1. PICK P \in Released : Release(P)
    BY DEF RunInline
  <1>2. /\ pc = "get" /\ pc' = "get" /\ nreqs > 0 /\ cell[tail] = u
        /\ RetireRequest /\ done' = done \cup {u}
        /\ poll' = TRUE /\ happened' = TRUE
        /\ UNCHANGED <<slots, completed, dropped, started, service>>
    BY DEF RunInline, life
  <1>3. /\ P \subseteq fresh /\ fresh' = fresh \ P /\ queue' = queue \cup P
        /\ fresh' \in SUBSET Units /\ queue' \in SUBSET Units
        /\ UNCHANGED <<posted, others, shutdown>>
    BY <1>1, ReleaseType DEF IInv
  <1>4. /\ RingInv'
        /\ cell' \in [Ring -> Units \cup {Idle, Pending}]
        /\ nreqs' = nreqs - 1 /\ nreqs' \in 0 .. MaxReqs
        /\ head' \in Ring /\ tail' \in Ring
        /\ Buffered' = Buffered \ {u} /\ u \in Buffered
        /\ \A i, j \in Ring : cell'[i] \in Units /\ cell'[i] = cell'[j] => i = j
    BY <1>2, <1>3, RetireRing
  <1>5. u \notin fresh \cup queue \cup active \cup completed \cup done \cup dropped
    BY <1>2, <1>4, BufferedAlone
  <1>6. PhaseInv' /\ ErrorInv'
    BY <1>2 DEF IInv, PhaseInv, ErrorInv
  <1>7. TypeOK'
    BY <1>2, <1>3, <1>4 DEF IInv, TypeOK, slots
  <1>8. SlotInv'
    <2>1. Cardinality(completed) \in Nat
      BY FS_CardinalityType DEF IInv, SlotInv
    <2> QED  BY <1>2, <1>4, <2>1, MaxReqsBound, SlotAssumption, SMT
             DEF IInv, TypeOK, SlotInv, Running, slots
  <1>9. RefsInv'
    BY <1>2 DEF IInv, RefsInv, slots
  <1>10. PlaceInv'
    <2>1. \A v \in Units : Alone(v)'
      BY <1>2, <1>3, <1>4, <1>5 DEF IInv, PlaceInv, Alone, slots
    <2> QED  BY <1>4, <2>1 DEF PlaceInv
  <1> QED  BY <1>4, <1>6, <1>7, <1>8, <1>9, <1>10 DEF IInv

LEMMA CallbackLastIInv ==
  ASSUME BufferCount > 0, IInv, NEW u \in Units, CallbackLast(u)
  PROVE  IInv'
  <1>1. PICK P \in Released : Release(P)
    BY DEF CallbackLast
  <1>2. /\ pc = "callbacks" /\ u \in completed /\ completed' = completed \ {u}
        /\ pc' = (IF completed = {u} THEN "yield" ELSE "callbacks")
        /\ done' = done \cup {u} /\ refs' = [refs EXCEPT ![u] = @ - 1]
        /\ UNCHANGED <<poll, happened, ring, used, active, finished, launches,
                       dropped, started, service>>
    BY DEF CallbackLast, AfterCallback, life
  <1>3. /\ P \subseteq fresh /\ fresh' = fresh \ P /\ queue' = queue \cup P
        /\ fresh' \in SUBSET Units /\ queue' \in SUBSET Units
        /\ UNCHANGED <<posted, others, shutdown>>
    BY <1>1, ReleaseType DEF IInv
  <1>4. /\ IsFiniteSet(completed \ {u}) /\ Cardinality(completed \ {u}) \in Nat
        /\ Cardinality(completed \ {u}) <= CompletedSize
        /\ used + nreqs + Cardinality(completed \ {u}) + 1 <= Slots
    BY <1>2, RoomForCallback
  <1>5. refs[u] = 1 /\ u \notin active \cup done \cup dropped \cup fresh \cup queue \cup Buffered
    BY <1>2 DEF IInv, RefsInv, PlaceInv, Alone
  <1>6. PhaseInv' /\ ErrorInv'
    BY <1>2, <1>4 DEF IInv, PhaseInv, ErrorInv
  <1>7. refs' \in [Units -> Nat]
    <2>1. refs \in [Units -> Nat]
      BY DEF IInv, TypeOK
    <2> QED  BY <1>2, <1>5, <2>1, SMT
  <1>8. TypeOK'
    BY <1>2, <1>3, <1>7 DEF IInv, TypeOK, ring
  <1>9. SlotInv'
    BY <1>2, <1>4, MaxReqsBound, SlotAssumption, SMT
       DEF IInv, TypeOK, SlotInv, Running, ring
  <1>10. RingInv'
    BY <1>2, <1>3 DEF IInv, RingInv, ring
  <1>11. RefsInv'
    BY <1>2, <1>5 DEF IInv, TypeOK, RefsInv
  <1>12. PlaceInv'
    BY <1>2, <1>3, <1>5 DEF IInv, PlaceInv, Alone, Buffered, ring
  <1> QED  BY <1>6, <1>8, <1>9, <1>10, <1>11, <1>12 DEF IInv

LEMMA CallbackLaunchIInv ==
  ASSUME BufferCount > 0, IInv, NEW u \in Units, CallbackLaunch(u)
  PROVE  IInv'
  <1>0. used < Slots /\ ~(used >= Slots)
    <2>1. pc = "callbacks" /\ u \in completed
      BY DEF CallbackLaunch
    <2>2. used < Slots
      BY <2>1, RoomForCallback
    <2> QED  BY <2>2, SlotAssumption, SMT DEF IInv, TypeOK
  <1>1. PICK P \in Released : Release(P)
    BY <1>0 DEF CallbackLaunch
  <1>2. /\ pc = "callbacks" /\ u \in completed /\ completed' = completed \ {u}
        /\ pc' = (IF completed = {u} THEN "yield" ELSE "callbacks")
        /\ used < Slots /\ used' = used + 1
        /\ active' = active \cup {u} /\ finished' = finished
        /\ launches' = [launches EXCEPT ![u] = @ + 1]
        /\ refs' = [refs EXCEPT ![u] = (@ + 1) - 1]
        /\ UNCHANGED <<poll, happened, ring, done, dropped, started, service>>
    BY <1>0 DEF CallbackLaunch, AfterCallback, Execute, life
  <1>3. /\ P \subseteq fresh /\ fresh' = fresh \ P /\ queue' = queue \cup P
        /\ fresh' \in SUBSET Units /\ queue' \in SUBSET Units
        /\ UNCHANGED <<posted, others, shutdown>>
    BY <1>1, ReleaseType DEF IInv
  <1>4. /\ IsFiniteSet(completed \ {u}) /\ Cardinality(completed \ {u}) \in Nat
        /\ Cardinality(completed \ {u}) <= CompletedSize
        /\ used + nreqs + Cardinality(completed \ {u}) + 1 <= Slots
    BY <1>2, RoomForCallback
  <1>5. /\ refs[u] = 1
        /\ u \notin active \cup done \cup dropped \cup fresh \cup queue \cup Buffered
    BY <1>2 DEF IInv, RefsInv, PlaceInv, Alone
  <1>6. PhaseInv' /\ ErrorInv'
    BY <1>2, <1>4 DEF IInv, PhaseInv, ErrorInv
  <1>7. refs' = refs
    <2>1. refs \in [Units -> Nat]
      BY DEF IInv, TypeOK
    <2> QED  BY <1>2, <1>5, <2>1, SMT
  <1>8. TypeOK'
    <2>1. used' \in 0 .. Slots
      BY <1>2, SlotAssumption, SMT DEF IInv, TypeOK
    <2>2. launches' \in [Units -> Nat]
      BY <1>2 DEF IInv, TypeOK
    <2> QED  BY <1>2, <1>3, <1>7, <2>1, <2>2 DEF IInv, TypeOK, ring
  <1>9. SlotInv'
    <2>1. IsFiniteSet(active') /\ Cardinality(active') = Cardinality(active) + 1
      BY <1>2, <1>5, FS_AddElement DEF IInv, SlotInv
    <2> QED  BY <1>2, <1>4, <2>1, MaxReqsBound, SlotAssumption, SMT
             DEF IInv, TypeOK, SlotInv, Running, ring
  <1>10. RingInv'
    BY <1>2, <1>3 DEF IInv, RingInv, ring
  <1>11. RefsInv'
    BY <1>2, <1>5, <1>7 DEF IInv, RefsInv
  <1>12. PlaceInv'
    BY <1>2, <1>3, <1>5 DEF IInv, PlaceInv, Alone, Buffered, ring
  <1> QED  BY <1>6, <1>8, <1>9, <1>10, <1>11, <1>12 DEF IInv

LEMMA CollectIInv ==
  ASSUME BufferCount > 0, IInv, NEW C \in SUBSET active, CollectAction(C)
  PROVE  IInv'
  <1>1. /\ pc = "check" /\ pc' = (IF C = {} THEN "yield" ELSE "callbacks")
        /\ used' = used - Cardinality(C) /\ active' = active \ C
        /\ finished' = finished \ C /\ completed' = C
        /\ IsFiniteSet(C) /\ Cardinality(C) <= CompletedSize
        /\ UNCHANGED <<poll, happened, ring, refs, launches, done, dropped, life, adlb>>
    BY DEF CollectAction, Collect
  <1>2. completed = {}
    BY <1>1 DEF IInv, PhaseInv
  <1>3. /\ IsFiniteSet(C) /\ IsFiniteSet(active \ C)
        /\ Cardinality(active \ C) = Cardinality(active) - Cardinality(C)
    <2>1. IsFiniteSet(active)
      BY DEF IInv, SlotInv
    <2>2. IsFiniteSet(C) /\ active \cap C = C
      BY <2>1, FS_Subset
    <2>3. /\ IsFiniteSet(active \ C)
          /\ Cardinality(active \ C) = Cardinality(active) - Cardinality(active \cap C)
      BY <2>1, FS_Difference
    <2> QED  BY <2>2, <2>3
  <1>4. Cardinality(C) \in Nat /\ Cardinality(active \ C) \in Nat
    BY <1>3, FS_CardinalityType
  <1>5. used = Cardinality(active) /\ used + nreqs <= Slots
    <2>1. Cardinality(completed) = 0
      BY <1>2, FS_EmptySet
    <2> QED  BY <1>1, <2>1, SMT DEF IInv, SlotInv, Running, TypeOK
  <1>6. PhaseInv' /\ ErrorInv'
    BY <1>1 DEF IInv, PhaseInv, ErrorInv
  <1>7. TypeOK'
    <2>1. used' \in 0 .. Slots
      BY <1>1, <1>3, <1>4, <1>5, SlotAssumption, SMT DEF IInv, TypeOK
    <2> QED  BY <1>1, <2>1 DEF IInv, TypeOK, ring, life, adlb
  <1>8. SlotInv'
    BY <1>1, <1>3, <1>4, <1>5, MaxReqsBound, SlotAssumption, SMT
       DEF IInv, TypeOK, SlotInv, Running, ring
  <1>9. RingInv'
    BY <1>1 DEF IInv, RingInv, ring, adlb
  <1>10. RefsInv'
    BY <1>1, <1>2 DEF IInv, RefsInv
  <1>11. PlaceInv'
    BY <1>1, <1>2 DEF IInv, PlaceInv, Alone, Buffered, ring, adlb
  <1> QED  BY <1>6, <1>7, <1>8, <1>9, <1>10, <1>11 DEF IInv

\* What LaunchedOrNot(u) leaves, when u may take a slot and is not in the executor.
LEMMA LaunchedOrNotIs ==
  ASSUME IInv, NEW u \in Units, LaunchedOrNot(u), u \notin active
  PROVE  /\ used' \in 0 .. Slots /\ active' \in SUBSET Units
         /\ finished' \in SUBSET active' /\ IsFiniteSet(active')
         /\ refs' \in [Units -> Nat] /\ launches' \in [Units -> Nat]
         /\ active \subseteq active' /\ active' \subseteq active \cup {u}
         /\ \A v \in Units : refs'[v] = IF v \in active' \ active THEN refs[v] + 1 ELSE refs[v]
  <1>1. CASE UNCHANGED slots
    BY <1>1 DEF IInv, TypeOK, SlotInv, slots
  <1>2. CASE used < Slots /\ Execute(u) /\ refs' = [refs EXCEPT ![u] = @ + 1]
    <2>1. /\ used' = used + 1 /\ active' = active \cup {u} /\ finished' = finished
          /\ launches' = [launches EXCEPT ![u] = @ + 1]
      BY <1>2 DEF Execute
    <2>2. used' \in 0 .. Slots
      BY <1>2, <2>1, SlotAssumption, SMT DEF IInv, TypeOK
    <2>3. IsFiniteSet(active')
      BY <2>1, FS_AddElement DEF IInv, SlotInv
    <2> QED  BY <1>2, <2>1, <2>2, <2>3 DEF IInv, TypeOK
  <1> QED  BY <1>1, <1>2 DEF LaunchedOrNot

\* The parts of IInv that an error does not touch.
LEMMA ErrorRest ==
  ASSUME IInv, pc' = "error", UNCHANGED <<ring, posted>>, completed' = {},
         IsFiniteSet(active')
  PROVE  PhaseInv' /\ SlotInv' /\ RingInv' /\ RefsInv' /\ PlaceInv'
  <1>1. IsFiniteSet({}) /\ Cardinality({}) <= CompletedSize
    BY FS_EmptySet, CompletedAssumption, SMT
  <1>2. PhaseInv' /\ SlotInv' /\ RefsInv'
    BY <1>1 DEF PhaseInv, SlotInv, RefsInv, Running
  <1>3. RingInv'
    BY DEF IInv, RingInv, Off, ring
  <1>4. PlaceInv'
    BY DEF IInv, PlaceInv, ring
  <1> QED  BY <1>2, <1>3, <1>4

LEMMA UnitErrorIInv ==
  ASSUME BufferCount > 0, IInv, NEW u \in Units, UnitError(u)
  PROVE  IInv'
  <1>1. PICK P \in Released : Release(P)
    BY DEF UnitError
  <1>2. /\ pc = "get" /\ pc' = "error" /\ nreqs > 0 /\ cell[tail] = u /\ LaunchedOrNot(u)
        /\ UNCHANGED <<poll, happened, ring, completed, done, dropped, started, service>>
    BY DEF UnitError, results, life
  <1>3. /\ P \subseteq fresh /\ fresh' = fresh \ P /\ queue' = queue \cup P
        /\ fresh' \in SUBSET Units /\ queue' \in SUBSET Units
        /\ UNCHANGED <<posted, others, shutdown>>
    BY <1>1, ReleaseType DEF IInv
  <1>4. u \in Buffered
    BY <1>2, RingFacts DEF Buffered
  <1>5. completed = {} /\ completed' = {} /\ u \notin active /\ refs[u] = 0
    BY <1>2, <1>4, BufferedAlone DEF IInv, PhaseInv
  <1>6. /\ used' \in 0 .. Slots /\ active' \in SUBSET Units
        /\ finished' \in SUBSET active' /\ IsFiniteSet(active')
        /\ refs' \in [Units -> Nat] /\ launches' \in [Units -> Nat]
        /\ active \subseteq active' /\ active' \subseteq active \cup {u}
        /\ \A v \in Units : refs'[v] = IF v \in active' \ active THEN refs[v] + 1 ELSE refs[v]
    BY <1>2, <1>5, LaunchedOrNotIs
  <1>7. TypeOK'
    BY <1>2, <1>3, <1>6 DEF IInv, TypeOK, ring
  <1>8. \A v \in Units : Alone(v) /\ refs[v] = IF v \in active THEN 1 ELSE 0
    BY <1>2, <1>5 DEF IInv, PlaceInv, RefsInv
  <1>9. ErrorInv'
    <2>1. \A v \in active' : refs'[v] >= 1
      BY <1>5, <1>6, <1>8, SMT
    <2>2. \A v \in Buffered \cap active' : nreqs > 0 /\ v = cell[tail]
      BY <1>2, <1>6, <1>8 DEF Alone
    <2>3. \A v \in Units \ active' : refs'[v] = refs[v]
      BY <1>6
    <2>4. IsFiniteSet({}) /\ Cardinality({}) <= CompletedSize
      BY FS_EmptySet, CompletedAssumption, SMT
    <2>5. LeftByError'
      BY <1>2, <1>3, <1>4, <1>5, <1>6, <2>1, <2>2, <2>3, <2>4, ErrorStep
    <2> QED  BY <2>5 DEF ErrorInv
  <1> QED  BY <1>2, <1>3, <1>5, <1>6, <1>7, <1>9, ErrorRest DEF IInv

LEMMA CallbackErrorIInv ==
  ASSUME BufferCount > 0, IInv, NEW u \in Units, CallbackError(u)
  PROVE  IInv'
  <1>1. PICK P \in Released : Release(P)
    BY DEF CallbackError
  <1>2. /\ pc = "callbacks" /\ pc' = "error" /\ u \in completed /\ completed' = {}
        /\ LaunchedOrNot(u)
        /\ UNCHANGED <<poll, happened, ring, done, dropped, started, service>>
    BY DEF CallbackError, life
  <1>3. /\ P \subseteq fresh /\ fresh' = fresh \ P /\ queue' = queue \cup P
        /\ fresh' \in SUBSET Units /\ queue' \in SUBSET Units
        /\ UNCHANGED <<posted, others, shutdown>>
    BY <1>1, ReleaseType DEF IInv
  <1>4. \A v \in Units : Alone(v) /\ refs[v] = IF v \in active \cup completed THEN 1 ELSE 0
    BY <1>2 DEF IInv, PlaceInv, RefsInv
  <1>5. u \notin active
    BY <1>2, <1>4 DEF Alone
  <1>6. /\ used' \in 0 .. Slots /\ active' \in SUBSET Units
        /\ finished' \in SUBSET active' /\ IsFiniteSet(active')
        /\ refs' \in [Units -> Nat] /\ launches' \in [Units -> Nat]
        /\ active \subseteq active' /\ active' \subseteq active \cup {u}
        /\ \A v \in Units : refs'[v] = IF v \in active' \ active THEN refs[v] + 1 ELSE refs[v]
    BY <1>2, <1>5, LaunchedOrNotIs
  <1>7. TypeOK'
    BY <1>2, <1>3, <1>6 DEF IInv, TypeOK, ring
  <1>8. ErrorInv'
    <2>1. \A v \in active' : refs'[v] >= 1
      BY <1>2, <1>4, <1>6, SMT
    <2>2. \A v \in Buffered \cap active' : nreqs > 0 /\ v = cell[tail]
      BY <1>2, <1>4, <1>6 DEF Alone
    <2>3. \A v \in Units \ active' : refs'[v] = refs[v]
      BY <1>6
    <2>4. IsFiniteSet(completed) /\ Cardinality(completed) <= CompletedSize
      BY DEF IInv, SlotInv, PhaseInv
    <2>5. LeftByError'
      BY <1>2, <1>3, <1>6, <2>1, <2>2, <2>3, <2>4, ErrorStep
    <2> QED  BY <2>5 DEF ErrorInv
  <1> QED  BY <1>2, <1>3, <1>6, <1>7, <1>8, ErrorRest DEF IInv

LEMMA SubmitErrorIInv ==
  ASSUME BufferCount > 0, IInv, SubmitError
  PROVE  IInv'
  <1>1. PICK P \in Released : Release(P)
    BY DEF SubmitError
  <1>2. /\ pc # "error" /\ pc' = "error" /\ used < Slots /\ used' = used + 1
        /\ completed' = {}
        /\ UNCHANGED <<poll, happened, ring, active, finished, refs, launches,
                       done, dropped, started, service>>
    BY DEF SubmitError, life
  <1>3. /\ P \subseteq fresh /\ fresh' = fresh \ P /\ queue' = queue \cup P
        /\ fresh' \in SUBSET Units /\ queue' \in SUBSET Units
        /\ UNCHANGED <<posted, others, shutdown>>
    BY <1>1, ReleaseType DEF IInv
  <1>4. TypeOK'
    <2>1. used' \in 0 .. Slots
      BY <1>2, SlotAssumption, SMT DEF IInv, TypeOK
    <2> QED  BY <1>2, <1>3, <2>1 DEF IInv, TypeOK, ring
  <1>5. \A v \in Units : Alone(v) /\ refs[v] = IF v \in active \cup completed THEN 1 ELSE 0
    BY <1>2 DEF IInv, PlaceInv, RefsInv
  <1>6. ErrorInv'
    <2>1. active \subseteq Units /\ Buffered \cap active = {}
      BY <1>5 DEF Alone, IInv, TypeOK
    <2>2. IsFiniteSet(completed) /\ Cardinality(completed) <= CompletedSize
      BY DEF IInv, SlotInv, PhaseInv
    <2>3. LeftByError'
      BY <1>2, <1>3, <1>5, <2>1, <2>2, ErrorStep
    <2> QED  BY <2>3 DEF ErrorInv
  <1>7. IsFiniteSet(active')
    BY <1>2 DEF IInv, SlotInv
  <1> QED  BY <1>2, <1>3, <1>4, <1>6, <1>7, ErrorRest DEF IInv

LEMMA CheckErrorIInv ==
  ASSUME BufferCount > 0, IInv, CheckError
  PROVE  IInv'
  <1>1. PICK C \in SUBSET finished :
          Cardinality(C) <= CompletedSize /\ active' = active \ C /\ finished' = finished \ C
    BY DEF CheckError
  <1>2. /\ pc = "check" /\ pc' = "error"
        /\ UNCHANGED <<poll, happened, ring, used, refs, launches, completed, done, dropped,
                       started, service, fresh, queue, posted, others, shutdown>>
    BY DEF CheckError, results, life, adlb
  <1>3. completed = {} /\ finished \subseteq active /\ active \subseteq Units
    BY <1>2 DEF IInv, PhaseInv, TypeOK
  <1>4. IsFiniteSet(C) /\ IsFiniteSet(active')
    BY <1>1, <1>3, FS_Subset DEF IInv, SlotInv
  <1>5. TypeOK'
    BY <1>1, <1>2, <1>3 DEF IInv, TypeOK, ring
  <1>6. \A v \in Units : Alone(v) /\ refs[v] = IF v \in active THEN 1 ELSE 0
    BY <1>2, <1>3 DEF IInv, PlaceInv, RefsInv
  <1>7. ErrorInv'
    <2>1. active' \subseteq active /\ Buffered \cap active = {}
      BY <1>1, <1>3, <1>6 DEF Alone
    <2>2. fresh' = fresh \ {} /\ queue' = queue \cup {}
      BY <1>2
    <2>3. \A v \in active' : refs'[v] >= 1
      BY <1>2, <1>3, <1>6, <2>1
    <2>4. (active \cup completed) \ active' \subseteq C
      BY <1>1, <1>3
    <2>5. LeftByError'
      BY <1>1, <1>2, <1>4, <2>1, <2>2, <2>3, <2>4, ErrorStep
    <2> QED  BY <2>5 DEF ErrorInv
  <1> QED  BY <1>2, <1>3, <1>4, <1>5, <1>7, ErrorRest DEF IInv

LEMMA StopExecutorsIInv ==
  ASSUME BufferCount > 0, IInv, StopExecutors
  PROVE  IInv'
  <1>1. PICK R \in SUBSET active :
          /\ dropped' = dropped \cup R
          /\ refs' = [u \in Units |-> IF u \in R THEN refs[u] - 1 ELSE refs[u]]
          /\ active' = active \ R /\ finished' = finished \ R
    BY DEF StopExecutors, ReleaseTasks
  <1>2. /\ pc = "stop" /\ pc' = "exit" /\ started' = FALSE /\ service' = FALSE
        /\ UNCHANGED <<poll, happened, ring, used, launches, completed, done, adlb>>
    BY DEF StopExecutors
  <1>3. completed = {} /\ active \subseteq Units
    BY <1>2 DEF IInv, PhaseInv, TypeOK
  <1>4. \A u \in Units : refs'[u] = IF u \in active' THEN 1 ELSE 0
    <2>1. \A u \in Units : refs[u] = IF u \in active THEN 1 ELSE 0
      BY <1>2, <1>3 DEF IInv, RefsInv
    <2> QED  BY <1>1, <2>1, SMT
  <1>5. TypeOK'
    <2>1. refs' \in [Units -> Nat]
      BY <1>1, <1>4
    <2> QED  BY <1>1, <1>2, <2>1 DEF IInv, TypeOK, ring, adlb
  <1>6. PhaseInv' /\ SlotInv' /\ ErrorInv'
    <2>1. IsFiniteSet(active')
      BY <1>1, FS_Subset DEF IInv, SlotInv
    <2> QED  BY <1>2, <2>1 DEF IInv, PhaseInv, SlotInv, Running, ErrorInv
  <1>7. RingInv' /\ RefsInv'
    BY <1>2, <1>3, <1>4 DEF IInv, RingInv, RefsInv, ring, adlb
  <1>8. PlaceInv'
    BY <1>1, <1>2 DEF IInv, PlaceInv, Alone, Buffered, ring, adlb
  <1> QED  BY <1>5, <1>6, <1>7, <1>8 DEF IInv

LEMMA MatchIInv ==
  ASSUME BufferCount > 0, IInv, NEW u \in Units, Match(u)
  PROVE  IInv'
  <1>1. /\ u \in queue /\ queue' = queue \ {u}
        /\ UNCHANGED <<pc, poll, happened, nreqs, head, tail, slots, results, life,
                       fresh, others, shutdown>>
    BY DEF Match
  <1>2. /\ RingInv'
        /\ cell' \in [Ring -> Units \cup {Idle, Pending}] /\ posted' \in Seq(Ring)
        /\ Buffered' = Buffered \cup {u} /\ u \notin Buffered
        /\ \A i, j \in Ring : cell'[i] \in Units /\ cell'[i] = cell'[j] => i = j
    BY MatchRing
  <1>3. TypeOK'
    BY <1>1, <1>2 DEF IInv, TypeOK, slots, results, life
  <1>4. PhaseInv' /\ SlotInv' /\ RefsInv'
    BY <1>1 DEF IInv, PhaseInv, SlotInv, RefsInv, Running, slots, results
  <1>5. pc' # "error" => \A v \in Units : Alone(v)'
    BY <1>1, <1>2 DEF IInv, PlaceInv, Alone, slots, results
  <1>6. PlaceInv'
    BY <1>2, <1>5 DEF PlaceInv
  <1>7. ErrorInv'
    <2>1. cell[tail] \in Units /\ nreqs > 0 => cell'[tail] = cell[tail]
      <3>1. cell[Head(posted)] = Pending /\ cell' = [cell EXCEPT ![Head(posted)] = u]
        BY MatchRing
      <3> QED  BY <3>1, RingFacts, UnitAssumption DEF IInv, TypeOK
    <2>2. SUFFICES ASSUME pc = "error", LeftByError PROVE LeftByError'
      BY <1>1 DEF ErrorInv, IInv
    <2>3. \A v \in Units : AloneOrLost(v)'
      BY <1>1, <1>2, <2>1, <2>2 DEF LeftByError, AloneOrLost, slots, results
    <2>4. Kept' = Kept
      BY <1>1, <1>2 DEF Kept, slots, results
    <2> QED  BY <1>1, <2>2, <2>3, <2>4 DEF LeftByError, slots
  <1> QED  BY <1>2, <1>3, <1>4, <1>6, <1>7 DEF IInv

LEMMA EnvironmentIInv ==
  ASSUME BufferCount > 0, IInv,
         OthersIdle \/ Shutdown \/ \E u \in Units : Put(u) \/ JobFinish(u)
  PROVE  IInv'
  <1>1. /\ UNCHANGED <<pc, poll, happened, ring, used, active, refs, launches,
                       results, life, posted>>
        /\ others' \in BOOLEAN /\ shutdown' \in BOOLEAN
        /\ finished' \in SUBSET active
    BY DEF OthersIdle, Shutdown, Put, JobFinish, IInv, TypeOK, slots, adlb
  <1>2. \/ UNCHANGED <<fresh, queue>>
        \/ \E u \in fresh : fresh' = fresh \ {u} /\ queue' = queue \cup {u}
    BY DEF OthersIdle, Shutdown, Put, JobFinish, adlb
  <1>3. TypeOK'
    BY <1>1, <1>2 DEF IInv, TypeOK, ring, results, life
  <1>4. PhaseInv' /\ SlotInv' /\ RefsInv'
    BY <1>1 DEF IInv, PhaseInv, SlotInv, RefsInv, Running, ring, results
  <1>5. RingInv'
    BY <1>1 DEF IInv, RingInv, ring
  <1>6. PlaceInv'
    BY <1>1, <1>2 DEF IInv, PlaceInv, Alone, Buffered, ring, results
  <1>7. ErrorInv'
    <2>1. Buffered' = Buffered
      BY <1>1 DEF Buffered, ring
    <2>2. SUFFICES ASSUME pc = "error", LeftByError PROVE LeftByError'
      BY <1>1 DEF ErrorInv, IInv
    <2>3. \A v \in Units : AloneOrLost(v)'
      BY <1>1, <1>2, <2>1, <2>2 DEF LeftByError, AloneOrLost, ring, results
    <2>4. Kept' = Kept
      BY <1>1, <1>2, <2>1 DEF Kept, results
    <2> QED  BY <1>1, <2>2, <2>3, <2>4 DEF LeftByError
  <1> QED  BY <1>3, <1>4, <1>5, <1>6, <1>7 DEF IInv

LEMMA NextIInv ==
  ASSUME BufferCount > 0, IInv, [Next]_vars
  PROVE  IInv'
  <1>1. CASE QuietAction
    BY <1>1, QuietIInv
  <1>2. CASE GetTasks
    BY <1>2, GetTasksIInv
  <1>3. CASE ErrorAction
    BY <1>3, SubmitErrorIInv, CheckErrorIInv, UnitErrorIInv, CallbackErrorIInv DEF ErrorAction
  <1>4. CASE StopExecutors
    BY <1>4, StopExecutorsIInv
  <1>5. CASE OthersIdle \/ Shutdown \/ \E u \in Units : Put(u) \/ JobFinish(u)
    BY <1>5, EnvironmentIInv
  <1>6. CASE NoopCollect \/ NoopNothing \/ CoasterCollect
    <2>1. \E C \in SUBSET active : CollectAction(C)
      BY <1>6, CollectCases
    <2> QED  BY <2>1, CollectIInv
  <1>7. ASSUME NEW u \in Units, RunLaunch(u) \/ RunInline(u)
        PROVE  IInv'
    BY <1>7, RunLaunchIInv, RunInlineIInv
  <1>8. ASSUME NEW u \in Units, CallbackLast(u) \/ CallbackLaunch(u)
        PROVE  IInv'
    BY <1>8, CallbackLastIInv, CallbackLaunchIInv
  <1>9. ASSUME NEW u \in Units, Match(u)
        PROVE  IInv'
    BY <1>9, MatchIInv
  <1> QED  BY <1>1, <1>2, <1>3, <1>4, <1>5, <1>6, <1>7, <1>8, <1>9, NextCases

-----------------------------------------------------------------------------
(* The checked invariants follow from IInv. *)

LEMMA Invariance ==
  ASSUME BufferCount > 0
  PROVE  Spec => []IInv
  <1>1. Init => IInv
    BY InitIInv
  <1>2. IInv /\ [Next]_vars => IInv'
    BY NextIInv
  <1> QED  BY <1>1, <1>2, PTL DEF Spec

(***************************************************************************)
(* Type correctness of the worker loop: in particular the head, the tail   *)
(* and the request count never leave the arrays they index.                *)
(***************************************************************************)
THEOREM TypeCorrect ==
  ASSUME BufferCount > 0
  PROVE  Spec => []TypeOK
  <1>1. IInv => TypeOK
    BY DEF IInv
  <1> QED  BY <1>1, Invariance, PTL

(***************************************************************************)
(* With at least one buffer no assertion of the loop or of the executors   *)
(* can fail: a launch always finds a free slot.                            *)
(***************************************************************************)
THEOREM LaunchesFindASlot ==
  ASSUME BufferCount > 0
  PROVE  Spec => []NoAbort
  <1>1. IInv => NoAbort
    BY DEF IInv, PhaseInv, NoAbort
  <1> QED  BY <1>1, Invariance, PTL

(***************************************************************************)
(* Requests out, tasks running and callbacks still to run never exceed the *)
(* slots of the executor, and its slot count is exact.                     *)
(***************************************************************************)
THEOREM SlotsSuffice ==
  ASSUME BufferCount > 0
  PROVE  Spec => []RequestsFitSlots
  <1>1. IInv => RequestsFitSlots
    BY DEF IInv, SlotInv, RequestsFitSlots, Running
  <1> QED  BY <1>1, Invariance, PTL

\* The window of the ring is the set of cells less than nreqs from tail.
LEMMA WindowIsDistance ==
  ASSUME BufferCount > 0, IInv, NEW i \in Ring
  PROVE  InWindow(i) <=> Off(i, tail) < nreqs
  <1> USE RingFacts
  <1>1. \A k \in 0 .. MaxReqs :
          /\ (tail + k) % MaxReqs = IF tail + k < MaxReqs THEN tail + k ELSE tail + k - MaxReqs
    BY RingAdd
  <1>2. ASSUME NEW k \in 0 .. nreqs-1, i = (tail + k) % MaxReqs
        PROVE  Off(i, tail) < nreqs
    <2>1. k \in 0 .. MaxReqs /\ k < MaxReqs
      BY SMT
    <2>2. i = IF tail + k < MaxReqs THEN tail + k ELSE tail + k - MaxReqs
      BY <1>1, <1>2, <2>1
    <2> HIDE RingFacts
    <2>3. MaxReqs \in Nat \ {0} /\ tail \in 0 .. MaxReqs - 1 /\ nreqs \in 0 .. MaxReqs
      BY RingFacts
    <2> QED  BY <2>1, <2>2, <2>3, SMT DEF Off
  <1>3. ASSUME Off(i, tail) < nreqs
        PROVE  InWindow(i)
    <2>1. Off(i, tail) \in 0 .. nreqs-1 /\ Off(i, tail) \in 0 .. MaxReqs
      BY <1>3, SMT
    <2>2. (tail + Off(i, tail)) % MaxReqs
            = IF tail + Off(i, tail) < MaxReqs
              THEN tail + Off(i, tail) ELSE tail + Off(i, tail) - MaxReqs
      BY <1>1, <2>1
    <2>3. i = (tail + Off(i, tail)) % MaxReqs
      <3> HIDE RingFacts
      <3>1. MaxReqs \in Nat \ {0} /\ tail \in 0 .. MaxReqs - 1 /\ i \in 0 .. MaxReqs - 1
        BY RingFacts
      <3> QED  BY <2>2, <3>1, SMT DEF Off
    <2> QED  BY <2>1, <2>3 DEF InWindow
  <1> QED  BY <1>2, <1>3 DEF InWindow

(***************************************************************************)
(* The ring of requests is consistent: exactly the cells between tail and  *)
(* head hold requests, and no buffer is posted twice.                      *)
(***************************************************************************)
THEOREM RingIsConsistent ==
  ASSUME BufferCount > 0
  PROVE  Spec => []RingConsistent
  <1>1. ASSUME IInv PROVE RingConsistent
    <2> USE <1>1
    <2>1. head = (tail + nreqs) % MaxReqs
      BY DEF IInv, RingInv
    <2>2. \A i \in Ring : cell[i] # Idle <=> InWindow(i)
      BY WindowIsDistance DEF IInv, RingInv
    <2>3. ASSUME NEW k \in 1 .. Len(posted)
          PROVE  posted[k] \in Ring /\ Off(posted[k], tail) = nreqs - Len(posted) + k - 1
      BY RingFacts DEF IInv, RingInv
    <2>4. \A k \in 1 .. Len(posted) : cell[posted[k]] = Pending
      <3> TAKE k \in 1 .. Len(posted)
      <3>1. /\ posted[k] \in Ring
            /\ nreqs - Len(posted) <= Off(posted[k], tail) /\ Off(posted[k], tail) < nreqs
        BY <2>3, RingFacts, SMT
      <3> QED  BY <3>1 DEF IInv, RingInv
    <2>5. ASSUME NEW j \in 1 .. Len(posted), NEW k \in 1 .. Len(posted), posted[j] = posted[k]
          PROVE  j = k
      <3>1. nreqs - Len(posted) + j - 1 = nreqs - Len(posted) + k - 1
        BY <2>3, <2>5
      <3> QED  BY <3>1, RingFacts, SMT
    <2> QED  BY <2>1, <2>2, <2>4, <2>5 DEF RingConsistent
  <1> QED  BY <1>1, Invariance, PTL

\* While the oldest request is unanswered, so are all the others.
LEMMA OldestFirst ==
  ASSUME BufferCount > 0, IInv, nreqs > 0, cell[tail] = Pending
  PROVE  Buffered = {}
  <1>1. tail \in Ring /\ Off(tail, tail) = 0
    BY RingFacts, SMT DEF Off
  <1>2. Len(posted) = nreqs
    <2>1. nreqs - Len(posted) <= 0
      BY <1>1 DEF IInv, RingInv
    <2> QED  BY <2>1, RingFacts, SMT
  <1>3. \A i \in Ring : cell[i] \in {Idle, Pending}
    <2> TAKE i \in Ring
    <2>1. cell[i] # Idle => Off(i, tail) < nreqs
      BY DEF IInv, RingInv
    <2>2. nreqs - Len(posted) <= Off(i, tail)
      BY <1>2, RingFacts, SMT
    <2> QED  BY <2>1, <2>2 DEF IInv, RingInv
  <1> QED  BY <1>3, UnitAssumption DEF Buffered

(***************************************************************************)
(* A unit ADLB has handed over is never stranded behind an unanswered      *)
(* request, for any size of the ring.                                      *)
(***************************************************************************)
THEOREM NothingStranded ==
  ASSUME BufferCount > 0
  PROVE  Spec => []NoStrandedUnit
  <1>1. IInv => NoStrandedUnit
    BY OldestFirst DEF NoStrandedUnit
  <1> QED  BY <1>1, Invariance, PTL

(***************************************************************************)
(* The worker never blocks in ADLB while a task is in the executor, nor in *)
(* the executor while it holds requests or work units.                     *)
(***************************************************************************)
THEOREM BlocksEmptyHanded ==
  ASSUME BufferCount > 0
  PROVE  Spec => []NeverBlocksHoldingWork
  <1>1. ASSUME IInv, Blocked
        PROVE  active = {} /\ completed = {}
    <2>1. used = 0 /\ completed = {} /\ used = Cardinality(active) /\ IsFiniteSet(active)
      BY <1>1 DEF Blocked, IInv, PhaseInv, SlotInv, Running
    <2> QED  BY <2>1, FS_EmptySet
  <1>2. ASSUME IInv, pc = "check", used >= Slots
        PROVE  nreqs = 0 /\ Buffered = {} /\ posted = << >>
    <2>1. Cardinality(completed) = 0
      BY <1>2, FS_EmptySet DEF IInv, PhaseInv
    <2>2. nreqs = 0
      BY <1>2, <2>1, MaxReqsBound, SlotAssumption, SMT DEF IInv, SlotInv, Running, TypeOK
    <2>3. posted = << >>
      BY <1>2, <2>2, RingFacts
    <2>4. \A i \in Ring : cell[i] = Idle
      <3> TAKE i \in Ring
      <3>1. ~(Off(i, tail) < nreqs)
        BY <1>2, <2>2, RingFacts, SMT
      <3> QED  BY <1>2, <3>1 DEF IInv, RingInv
    <2> QED  BY <2>2, <2>3, <2>4, UnitAssumption DEF Buffered
  <1>3. IInv => NeverBlocksHoldingWork
    BY <1>1, <1>2 DEF NeverBlocksHoldingWork
  <1> QED  BY <1>3, Invariance, PTL

(***************************************************************************)
(* A unit is in exactly one place, and never run twice, until an error     *)
(* ends the loop; the error loses at most one array of collected tasks,    *)
(* all of which have run and still have their callbacks referenced.        *)
(***************************************************************************)
THEOREM UnitsAreConserved ==
  ASSUME BufferCount > 0
  PROVE  Spec => []UnitsConserved
  <1>1. ASSUME IInv PROVE UnitsConserved
    <2>1. Len(Places) = 7
      BY DEF Places
    <2>2. /\ Places[1] = fresh /\ Places[2] = queue /\ Places[3] = Buffered \ Halfway
          /\ Places[4] = active /\ Places[5] = completed /\ Places[6] = done
          /\ Places[7] = dropped
      BY DEF Places
    <2>3. \A i \in 1 .. 7 : Places[i] \subseteq Units
      BY <1>1, <2>2 DEF IInv, TypeOK, Buffered
    <2>4. UNION {Places[i] : i \in 1 .. 7} = Kept \cup completed
      <3>1. Halfway \subseteq active
        BY DEF Halfway
      <3>2. UNION {Places[i] : i \in 1 .. 7} =
              fresh \cup queue \cup (Buffered \ Halfway) \cup active \cup completed \cup done \cup dropped
        BY <2>2, SMT
      <3> QED  BY <3>1, <3>2 DEF Kept
    <2>5. ASSUME NEW u \in Units, NEW i \in 1 .. 7, NEW j \in 1 .. 7,
                 u \in Places[i], u \in Places[j]
          PROVE  i = j
      <3>1. CASE pc # "error"
        BY <1>1, <2>2, <2>5, <3>1, SMT DEF IInv, PlaceInv, Alone
      <3>2. CASE pc = "error"
        <4>1. AloneOrLost(u) /\ completed = {}
          BY <1>1, <3>2 DEF IInv, ErrorInv, LeftByError, PhaseInv
        <4>2. u \in Buffered \cap active => u \in Halfway
          BY <3>2, <4>1 DEF AloneOrLost, Halfway
        <4> QED  BY <2>2, <2>5, <4>1, <4>2, SMT DEF AloneOrLost
      <3> QED  BY <3>1, <3>2
    <2>6. \A i, j \in Ring : cell[i] \in Units /\ cell[i] = cell[j] => i = j
      BY <1>1 DEF IInv, PlaceInv
    <2>7. \A i, j \in 1 .. 7 : i # j => Places[i] \cap Places[j] = {}
      BY <2>3, <2>5
    <2>8. Lost = Units \ (Kept \cup completed)
      BY <2>1, <2>4 DEF Lost
    <2>9. pc # "error" => Lost = {}
      BY <1>1, <2>8 DEF Kept, IInv, PlaceInv, Alone
    <2>10. Cardinality(Lost) <= CompletedSize /\ \A u \in Lost : refs[u] = 1
      <3>1. CASE pc # "error"
        BY <2>9, <3>1, FS_EmptySet, CompletedAssumption, SMT
      <3>2. CASE pc = "error"
        BY <1>1, <2>8, <3>2 DEF IInv, ErrorInv, LeftByError, PhaseInv
      <3> QED  BY <3>1, <3>2
    <2> QED  BY <2>1, <2>6, <2>7, <2>9, <2>10 DEF UnitsConserved
  <1> QED  BY <1>1, Invariance, PTL

(***************************************************************************)
(* The callbacks of every task in the executor or collected are referenced *)
(* and, unless an error has ended the loop, once, and no others.           *)
(***************************************************************************)
THEOREM CallbacksHeld ==
  ASSUME BufferCount > 0
  PROVE  Spec => []CallbackRefs
  <1>1. ASSUME IInv PROVE CallbackRefs
    <2>1. CASE pc # "error"
      BY <1>1, <2>1 DEF IInv, TypeOK, RefsInv, CallbackRefs
    <2>2. CASE pc = "error"
      BY <1>1, <2>2 DEF IInv, TypeOK, PhaseInv, ErrorInv, LeftByError, AloneOrLost, CallbackRefs
    <2> QED  BY <2>1, <2>2
  <1> QED  BY <1>1, Invariance, PTL

-----------------------------------------------------------------------------
(* The loop implements the work pool. *)

\* Unless ADLB shuts down early, there is nothing left to run once it has.
StopInv ==
  /\ pc \in {"stop", "exit"} => shutdown
  /\ shutdown /\ ~EarlyShutdown =>
       /\ queue = {} /\ Buffered = {} /\ active = {} /\ completed = {}
       /\ Blocked \/ pc \in {"stop", "exit", "error"}

\* A worker blocked in ADLB has nothing in the ring, the executor or in between.
LEMMA BlockedIsEmpty ==
  ASSUME BufferCount > 0, IInv, Blocked
  PROVE  Buffered = {} /\ active = {} /\ completed = {}
  <1>1. pc = "get" /\ ~poll /\ nreqs > 0 /\ cell[tail] = Pending
    BY DEF Blocked
  <1>2. used = 0 /\ completed = {} /\ used = Cardinality(active) /\ IsFiniteSet(active)
    BY <1>1 DEF IInv, PhaseInv, SlotInv, Running
  <1>3. Buffered = {}
    BY <1>1, OldestFirst
  <1> QED  BY <1>2, <1>3, FS_EmptySet

\* Which steps the worker can take once ADLB has shut down for lack of work.
LEMMA AfterShutdown ==
  ASSUME BufferCount > 0, IInv, StopInv, shutdown, ~EarlyShutdown, [Next]_vars
  PROVE  /\ UNCHANGED <<queue, cell, completed, shutdown, poll, nreqs, tail>> /\ active' = {}
         /\ pc' = pc \/ pc' \in {"stop", "exit", "error"}
  <1>1. active = {} /\ completed = {} /\ (Blocked \/ pc \in {"stop", "exit", "error"})
    BY DEF StopInv
  <1>2. Blocked => pc = "get" /\ poll = FALSE /\ cell[tail] = Pending /\ cell[tail] \notin Units /\ nreqs # 0
    BY RingFacts, UnitAssumption DEF Blocked, IInv, TypeOK
  <1>3. CASE QuietAction
    <2>1. UNCHANGED <<poll, ring, slots, results, adlb>>
      BY <1>3, QuietUnchanged
    <2>2. pc' = pc \/ pc' \in {"stop", "exit", "error"}
      BY <1>1, <1>2, <1>3 DEF QuietAction, Start, GetTasksError, SkipGet, GetError, GotAll,
         GotShutdown, SkipCheck, Yield, Ended, vars
    <2> QED  BY <1>1, <2>1, <2>2 DEF ring, slots, results, adlb
  <1>4. CASE StopExecutors
    BY <1>1, <1>4 DEF StopExecutors, ring, adlb
  <1>5. CASE OthersIdle
    BY <1>1, <1>5 DEF OthersIdle, ring, slots, results
  <1>6. ~ (GetTasks \/ ErrorAction \/ Shutdown \/ NoopCollect \/ NoopNothing \/ CoasterCollect)
    BY <1>1, <1>2 DEF GetTasks, ErrorAction, SubmitError, CheckError, UnitError, CallbackError,
       Shutdown, NoopCollect, NoopNothing, CoasterCollect
  <1>7. ASSUME NEW u \in Units
        PROVE  ~ (RunLaunch(u) \/ RunInline(u) \/ CallbackLast(u) \/ CallbackLaunch(u)
                    \/ Put(u) \/ Match(u) \/ JobFinish(u))
    BY <1>1, <1>2 DEF RunLaunch, RunInline, CallbackLast, CallbackLaunch, Put, Match, JobFinish
  <1> QED  BY <1>3, <1>4, <1>5, <1>6, <1>7, NextCases

LEMMA StopInvariance ==
  ASSUME BufferCount > 0
  PROVE  Spec => []StopInv
  <1>1. Init => StopInv
    BY DEF Init, StopInv
  <1>2. ASSUME IInv, StopInv, [Next]_vars
        PROVE  StopInv'
    <2>1. CASE shutdown
      <3>1. shutdown'
        BY <1>2, <2>1 DEF Next, Worker, External, Ended, vars, Start, GetTasks,
           GetTasksError, SkipGet, RunUnit, RunLaunch, RunInline, UnitError, GetError,
           SubmitError, GotAll, GotShutdown, SkipCheck, NoopCollect, NoopNothing,
           CoasterCollect, Collect, CheckError, RunCallback, CallbackLast, CallbackLaunch,
           CallbackError, AssertFails, Release, Yield, StopExecutors, OthersIdle, Shutdown,
           Put, Match, JobFinish, adlb
      <3>2. ASSUME ~EarlyShutdown
            PROVE  /\ queue' = {} /\ Buffered' = {} /\ active' = {} /\ completed' = {}
                   /\ Blocked' \/ pc' \in {"stop", "exit", "error"}
        <4>1. /\ UNCHANGED <<queue, cell, completed, shutdown, poll, nreqs, tail>> /\ active' = {}
              /\ pc' = pc \/ pc' \in {"stop", "exit", "error"}
          BY <1>2, <2>1, <3>2, AfterShutdown
        <4>2. /\ queue = {} /\ Buffered = {} /\ completed = {}
              /\ Blocked \/ pc \in {"stop", "exit", "error"}
          BY <1>2, <2>1, <3>2 DEF StopInv
        <4>3. Buffered' = Buffered
          BY <4>1 DEF Buffered
        <4>4. Blocked' \/ pc' \in {"stop", "exit", "error"}
          BY <4>1, <4>2 DEF Blocked
        <4> QED  BY <4>1, <4>2, <4>3, <4>4
      <3> QED  BY <3>1, <3>2 DEF StopInv
    <2>2. CASE ~shutdown /\ shutdown'
      <3>1. Shutdown
        BY <1>2, <2>2 DEF Next, Worker, External, Ended, vars, Start, GetTasks,
           GetTasksError, SkipGet, RunUnit, RunLaunch, RunInline, UnitError, GetError,
           SubmitError, GotAll, GotShutdown, SkipCheck, NoopCollect, NoopNothing,
           CoasterCollect, Collect, CheckError, RunCallback, CallbackLast, CallbackLaunch,
           CallbackError, AssertFails, Release, Yield, StopExecutors, OthersIdle,
           Put, Match, JobFinish, adlb
      <3>2. ASSUME ~EarlyShutdown
            PROVE  queue = {} /\ Buffered = {} /\ active = {} /\ completed = {} /\ Blocked
        BY <1>2, <3>1, <3>2, BlockedIsEmpty DEF Shutdown
      <3>3. UNCHANGED <<pc, poll, cell, nreqs, tail, active, completed, queue>>
        BY <3>1 DEF Shutdown, ring, slots, results
      <3>4. Buffered' = Buffered /\ Blocked' = Blocked
        BY <3>3 DEF Buffered, Blocked
      <3> QED  BY <2>2, <3>2, <3>3, <3>4 DEF StopInv
    <2>3. CASE ~shutdown /\ ~shutdown'
      <3>1. pc \notin {"stop", "exit"}
        BY <1>2, <2>3 DEF StopInv
      <3>2. pc' \notin {"stop", "exit"}
        BY <1>2, <2>3, <3>1, Zenon DEF Next, Worker, External, Ended, vars, Start, GetTasks,
           GetTasksError, SkipGet, RunUnit, RunLaunch, RunInline, UnitError, GetError,
           SubmitError, GotAll, GotShutdown, SkipCheck, NoopCollect, NoopNothing,
           CoasterCollect, Collect, CheckError, RunCallback, CallbackLast, CallbackLaunch,
           CallbackError, AssertFails, AfterCallback, Yield, StopExecutors, OthersIdle, Shutdown,
           Put, Match, JobFinish
      <3> QED  BY <2>3, <3>2 DEF StopInv
    <2> QED  BY <2>1, <2>2, <2>3
  <1> QED  BY <1>1, <1>2, Invariance, PTL DEF Spec

\* A unit is waiting when it is in none of these places and has no task.
Sorted ==
  \A u \in Units :
    /\ StatusOf(u) = IF u \in fresh THEN "fresh"
                     ELSE IF u \in done THEN "done"
                     ELSE IF u \in dropped THEN "dropped"
                     ELSE IF refs[u] > 0 THEN (IF pc = "exit" THEN "dropped" ELSE "running")
                     ELSE "waiting"
    /\ u \in fresh => u \notin done \cup dropped
    /\ u \in done => u \notin dropped
    /\ u \in fresh \cup done \cup dropped => refs[u] = 0
    /\ u \in active \cup completed => refs[u] > 0
    /\ refs[u] \in Nat

LEMMA StatusIs == IInv => Sorted
  <1> SUFFICES ASSUME IInv, NEW u \in Units
               PROVE  /\ StatusOf(u) = IF u \in fresh THEN "fresh"
                                       ELSE IF u \in done THEN "done"
                                       ELSE IF u \in dropped THEN "dropped"
                                       ELSE IF refs[u] > 0 THEN (IF pc = "exit" THEN "dropped" ELSE "running")
                                       ELSE "waiting"
                      /\ u \in fresh => u \notin done \cup dropped
                      /\ u \in done => u \notin dropped
                      /\ u \in fresh \cup done \cup dropped => refs[u] = 0
                      /\ u \in active \cup completed => refs[u] > 0
                      /\ refs[u] \in Nat
    BY DEF Sorted
  <1>1. refs[u] \in Nat
    BY DEF IInv, TypeOK
  <1>2. /\ u \in fresh => u \notin done \cup dropped
        /\ u \in done => u \notin dropped
        /\ u \in fresh \cup done \cup dropped => refs[u] = 0
        /\ u \in active \cup completed => refs[u] > 0
    <2>1. CASE pc # "error"
      BY <2>1, SMT DEF IInv, PlaceInv, Alone, RefsInv
    <2>2. CASE pc = "error"
      <3>1. AloneOrLost(u) /\ completed = {}
        BY <2>2 DEF IInv, ErrorInv, LeftByError, PhaseInv
      <3> QED  BY <1>1, <3>1, SMT DEF AloneOrLost
    <2> QED  BY <2>1, <2>2
  <1>3. StatusOf(u) = IF u \in fresh THEN "fresh"
                      ELSE IF u \in done THEN "done"
                      ELSE IF u \in dropped THEN "dropped"
                      ELSE IF refs[u] > 0 THEN (IF pc = "exit" THEN "dropped" ELSE "running")
                      ELSE "waiting"
    BY <1>1, <1>2, SMT DEF StatusOf
  <1> QED  BY <1>1, <1>2, <1>3

\* The worker enters "exit" through StopExecutors and stays there.
LEMMA ExitsOnlyByStopping ==
  ASSUME [Next]_vars, ~StopExecutors
  PROVE  (pc' = "exit") = (pc = "exit")
  BY Zenon DEF Next, Worker, External, Ended, vars, Start, GetTasks,
     GetTasksError, SkipGet, RunUnit, RunLaunch, RunInline, UnitError, GetError,
     SubmitError, GotAll, GotShutdown, SkipCheck, NoopCollect, NoopNothing,
     CoasterCollect, Collect, CheckError, RunCallback, CallbackLast, CallbackLaunch,
     CallbackError, AssertFails, AfterCallback, Yield, OthersIdle, Shutdown,
     Put, Match, JobFinish

LEMMA PoolInit == ASSUME BufferCount > 0, Init PROVE Pool!Init
  <1>1. \A u \in Units : StatusOf(u) = "fresh"
    BY InitIInv, StatusIs DEF Init, Sorted
  <1> QED  BY <1>1 DEF Init, Pool!Init

\* The units in P arrive, those in U move on to s.
LEMMA PoolStep ==
  ASSUME IInv, NEW P \in SUBSET fresh, NEW U, NEW s,
         \A v \in Units : StatusOf(v)' = IF v \in P THEN "waiting"
                                         ELSE IF v \in U THEN s ELSE StatusOf(v)
  PROVE  Pool!Step(P, U, s)
  <1>1. P \subseteq Units /\ \A v \in P : StatusOf(v) = "fresh"
    BY StatusIs DEF Sorted, IInv, TypeOK
  <1> QED  BY <1>1 DEF Pool!Step, Pool!With

\* While a unit is evaluated, the tasks in the executor are those that run.
LEMMA RunningTasks ==
  ASSUME IInv, pc = "get", used < Slots
  PROVE  Pool!Cardinality(Pool!With("running")) < Slots
  <1>1. completed = {} /\ active \subseteq Units
    BY DEF IInv, PhaseInv, TypeOK
  <1>2. \A v \in Units : refs[v] = IF v \in active THEN 1 ELSE 0
    BY <1>1 DEF IInv, RefsInv
  <1>3. Pool!With("running") = active
    BY <1>1, <1>2, StatusIs DEF Sorted, Pool!With
  <1>4. used = Cardinality(active)
    BY DEF IInv, SlotInv, Running
  <1>5. Pool!Cardinality(active) = Cardinality(active)
    BY DEF Pool!Cardinality, Cardinality
  <1> QED  BY <1>3, <1>4, <1>5

\* Every step is a step of the pool or leaves it alone.
LEMMA PoolNext ==
  ASSUME BufferCount > 0, IInv, IInv', StopInv, [Next]_vars
  PROVE  [Pool!Next]_<<[u \in Units |-> StatusOf(u)], pc = "exit">>
  <1> DEFINE Same == UNCHANGED <<[u \in Units |-> StatusOf(u)], pc = "exit">>
  <1>1. Sorted /\ Sorted'
    <2>1. (IInv => Sorted)'
      BY StatusIs, PTL
    <2> QED  BY <2>1, StatusIs
  <1>2. ASSUME UNCHANGED <<fresh, done, dropped, refs>>, pc' # "exit" <=> pc # "exit"
        PROVE  Same
    BY <1>1, <1>2 DEF Sorted
  <1>3. CASE \/ QuietAction \/ CheckError \/ GetTasks \/ OthersIdle \/ Shutdown
             \/ \E u \in Units : Match(u) \/ JobFinish(u)
    <2>1. UNCHANGED <<fresh, done, dropped, refs>>
      <3>1. CASE QuietAction
        BY <3>1, QuietUnchanged DEF slots, results, adlb
      <3> QED  BY <1>3, <3>1 DEF CheckError, GetTasks, OthersIdle, Shutdown, Match, JobFinish,
                    slots, results, adlb
    <2>2. ~StopExecutors
      BY <1>3 DEF QuietAction, Start, GetTasksError, SkipGet, GetError, GotAll,
         GotShutdown, SkipCheck, Yield, Ended, vars, GetTasks,
         CheckError, OthersIdle, Shutdown, Match, JobFinish, StopExecutors
    <2> QED  BY <1>2, <2>1, <2>2, ExitsOnlyByStopping
  <1>4. CASE NoopCollect \/ NoopNothing \/ CoasterCollect
    <2>1. PICK C \in SUBSET active : CollectAction(C)
      BY <1>4, CollectCases
    <2>2. pc # "exit" /\ pc' # "exit" /\ UNCHANGED <<fresh, done, dropped, refs>>
      BY <2>1 DEF CollectAction, Collect, adlb
    <2> QED  BY <1>2, <2>2
  <1>5. ASSUME NEW u \in Units, Put(u)
        PROVE  Pool!Next
    <2>1. /\ u \in fresh /\ fresh' = fresh \ {u} /\ pc' = pc
          /\ UNCHANGED <<done, dropped, refs>>
      BY <1>5 DEF Put, slots, results
    <2>2. \A v \in Units : StatusOf(v)' = IF v \in {u} THEN "waiting"
                                          ELSE IF v \in {} THEN "waiting" ELSE StatusOf(v)
      BY <1>1, <2>1 DEF Sorted
    <2>3. Pool!Step({u}, {}, "waiting")
      BY <2>1, <2>2, PoolStep
    <2> QED  BY <2>1, <2>3 DEF Pool!Arrive, Pool!Next
  <1>6. ASSUME NEW u \in Units, RunLaunch(u)
        PROVE  Pool!Next
    <2>1. pc = "get" /\ nreqs > 0 /\ cell[tail] = u
      BY <1>6 DEF RunLaunch
    <2>2. used < Slots /\ ~ (used >= Slots)
      <3>1. used < Slots
        BY <2>1, RoomForUnit
      <3> QED  BY <3>1, SlotAssumption, SMT DEF IInv, TypeOK
    <2>3. PICK P \in Released : Release(P)
      BY <1>6, <2>2 DEF RunLaunch
    <2>4. /\ pc' = pc /\ refs' = [refs EXCEPT ![u] = @ + 1]
          /\ UNCHANGED <<done, dropped>>
      BY <1>6, <2>2 DEF RunLaunch, results
    <2>5. P \subseteq fresh /\ fresh' = fresh \ P
      BY <2>3, ReleaseType DEF IInv
    <2>6. u \notin fresh \cup done \cup dropped /\ refs[u] = 0 /\ refs \in [Units -> Nat]
      <3>1. u \in Buffered
        BY <2>1, RingFacts DEF Buffered
      <3> QED  BY <2>1, <3>1, BufferedAlone DEF IInv, TypeOK
    <2>7. \A v \in Units : StatusOf(v)' = IF v \in P THEN "waiting"
                                          ELSE IF v \in {u} THEN "running" ELSE StatusOf(v)
      BY <1>1, <2>1, <2>4, <2>5, <2>6, SMT DEF Sorted
    <2>8. Pool!Step(P, {u}, "running")
      BY <2>5, <2>7, PoolStep
    <2>9. StatusOf(u) = "waiting"
      BY <1>1, <2>6 DEF Sorted
    <2>10. Pool!Cardinality(Pool!With("running")) < Slots
      BY <2>1, <2>2, RunningTasks
    <2>11. u \in Pool!With("waiting")
      BY <2>9 DEF Pool!With
    <2>12. Pool!Begin(u, P)
      BY <2>1, <2>4, <2>8, <2>10, <2>11 DEF Pool!Begin
    <2>13. P \in SUBSET Units
      BY <2>5 DEF IInv, TypeOK
    <2> QED  BY <2>12, <2>13 DEF Pool!Next
  <1>7. ASSUME NEW u \in Units, RunInline(u)
        PROVE  Pool!Next
    <2>1. pc = "get" /\ pc' = pc /\ nreqs > 0 /\ cell[tail] = u /\ done' = done \cup {u}
          /\ UNCHANGED <<dropped, refs>>
      BY <1>7 DEF RunInline, slots
    <2>2. PICK P \in Released : Release(P)
      BY <1>7 DEF RunInline
    <2>3. P \subseteq fresh /\ fresh' = fresh \ P
      BY <2>2, ReleaseType DEF IInv
    <2>4. u \notin fresh \cup done \cup dropped /\ refs[u] = 0
      <3>1. u \in Buffered
        BY <2>1, RingFacts DEF Buffered
      <3> QED  BY <2>1, <3>1, BufferedAlone DEF IInv, TypeOK
    <2>5. \A v \in Units : StatusOf(v)' = IF v \in P THEN "waiting"
                                          ELSE IF v \in {u} THEN "done" ELSE StatusOf(v)
      BY <1>1, <2>1, <2>3, <2>4, SMT DEF Sorted
    <2>6. Pool!Step(P, {u}, "done")
      BY <2>3, <2>5, PoolStep
    <2>7. StatusOf(u) = "waiting"
      BY <1>1, <2>4 DEF Sorted
    <2>8. Pool!Finish(u, P) /\ P \in SUBSET Units
      BY <2>1, <2>3, <2>6, <2>7 DEF Pool!Finish, Pool!With, IInv, TypeOK
    <2> QED  BY <2>8 DEF Pool!Next
  <1>8. ASSUME NEW u \in Units, CallbackLast(u)
        PROVE  Pool!Next
    <2>1. /\ pc = "callbacks" /\ pc' # "exit" /\ u \in completed /\ completed' = completed \ {u}
          /\ done' = done \cup {u} /\ refs' = [refs EXCEPT ![u] = @ - 1]
          /\ UNCHANGED dropped
      BY <1>8 DEF CallbackLast, AfterCallback
    <2>2. PICK P \in Released : Release(P)
      BY <1>8 DEF CallbackLast
    <2>3. P \subseteq fresh /\ fresh' = fresh \ P
      BY <2>2, ReleaseType DEF IInv
    <2>4. /\ u \notin fresh \cup done \cup dropped /\ refs[u] = 1
          /\ refs \in [Units -> Nat]
      BY <2>1 DEF IInv, PlaceInv, Alone, RefsInv, TypeOK
    <2>5. \A v \in Units : StatusOf(v)' = IF v \in P THEN "waiting"
                                          ELSE IF v \in {u} THEN "done" ELSE StatusOf(v)
      BY <1>1, <2>1, <2>3, <2>4, SMT DEF Sorted
    <2>6. Pool!Step(P, {u}, "done")
      BY <2>3, <2>5, PoolStep
    <2>7. StatusOf(u) = "running"
      BY <1>1, <2>1, <2>4 DEF Sorted
    <2>8. Pool!Finish(u, P) /\ P \in SUBSET Units
      BY <2>1, <2>3, <2>6, <2>7 DEF Pool!Finish, Pool!With, IInv, TypeOK
    <2> QED  BY <2>8 DEF Pool!Next
  <1>9. ASSUME NEW u \in Units, CallbackLaunch(u)
        PROVE  Pool!Next
    <2>1. pc = "callbacks" /\ u \in completed
      BY <1>9 DEF CallbackLaunch
    <2>2. ~ (used >= Slots)
      <3>1. used < Slots
        BY <2>1, RoomForCallback
      <3> QED  BY <3>1, SlotAssumption, SMT DEF IInv, TypeOK
    <2>3. /\ pc' # "exit" /\ refs' = [refs EXCEPT ![u] = (@ + 1) - 1]
          /\ UNCHANGED <<done, dropped>>
      BY <1>9, <2>2 DEF CallbackLaunch, AfterCallback
    <2>a. refs' = refs
      <3>1. refs \in [Units -> Nat]
        BY DEF IInv, TypeOK
      <3> QED  BY <2>3, <3>1, SMT
    <2>4. PICK P \in Released : Release(P)
      BY <1>9, <2>2 DEF CallbackLaunch
    <2>5. P \subseteq fresh /\ fresh' = fresh \ P
      BY <2>4, ReleaseType DEF IInv
    <2>6. \A v \in Units : StatusOf(v)' = IF v \in P THEN "waiting"
                                          ELSE IF v \in {} THEN "waiting" ELSE StatusOf(v)
      BY <1>1, <2>1, <2>3, <2>5, <2>a DEF Sorted
    <2>7. Pool!Step(P, {}, "waiting")
      BY <2>5, <2>6, PoolStep
    <2>8. Pool!Arrive(P) /\ P \in SUBSET Units
      BY <2>1, <2>3, <2>5, <2>7 DEF Pool!Arrive, IInv, TypeOK
    <2> QED  BY <2>8 DEF Pool!Next
  <1>10. CASE StopExecutors
    <2>1. PICK R \in SUBSET active :
            /\ dropped' = dropped \cup R
            /\ refs' = [v \in Units |-> IF v \in R THEN refs[v] - 1 ELSE refs[v]]
      BY <1>10 DEF StopExecutors, ReleaseTasks
    <2>2. pc = "stop" /\ pc' = "exit" /\ UNCHANGED <<fresh, done>>
      BY <1>10 DEF StopExecutors, adlb
    <2>3. completed = {} /\ active \subseteq Units
      BY <2>2 DEF IInv, PhaseInv, TypeOK
    <2>4. \A v \in Units : refs[v] = IF v \in active THEN 1 ELSE 0
      BY <2>2, <2>3 DEF IInv, RefsInv
    <2> DEFINE U == {v \in Units : StatusOf(v) = "running"}
    <2>5. U = active
      BY <1>1, <2>2, <2>3, <2>4 DEF Sorted
    <2>6. \A v \in Units : StatusOf(v)' = IF v \in {} THEN "waiting"
                                          ELSE IF v \in active THEN "dropped" ELSE StatusOf(v)
      <3> TAKE v \in Units
      <3>1. refs'[v] = IF v \in active \ R THEN 1 ELSE 0
        BY <2>1, <2>4
      <3> QED  BY <1>1, <2>1, <2>2, <2>4, <3>1, SMT DEF Sorted
    <2>7. Pool!Step({}, U, "dropped")
      BY <2>5, <2>6, PoolStep
    <2>8. EarlyShutdown \/ {v \in Units : StatusOf(v) = "waiting"} \cup U = {}
      <3>1. SUFFICES ASSUME ~EarlyShutdown
                     PROVE  {v \in Units : StatusOf(v) = "waiting"} \cup U = {}
        OBVIOUS
      <3>2. queue = {} /\ Buffered = {} /\ active = {} /\ completed = {}
        BY <2>2, <3>1 DEF StopInv
      <3>3. ASSUME NEW v \in Units PROVE StatusOf(v) # "waiting"
        <4>1. v \in fresh \cup done \cup dropped
          BY <2>2, <3>2 DEF IInv, PlaceInv, Alone
        <4> QED  BY <1>1, <4>1 DEF Sorted
      <3> QED  BY <2>5, <3>2, <3>3
    <2>9. Pool!Close
      BY <2>2, <2>7, <2>8 DEF Pool!Close, Pool!With
    <2> QED  BY <2>9 DEF Pool!Next
  <1>11. CASE SubmitError \/ \E u \in Units : CallbackError(u)
    <2>1. PICK P \in Released : Release(P)
      BY <1>11 DEF SubmitError, CallbackError
    <2>2. P \subseteq fresh /\ fresh' = fresh \ P /\ fresh \subseteq Units
      BY <2>1, ReleaseType DEF IInv, TypeOK
    <2>3. pc # "exit" /\ pc' # "exit" /\ UNCHANGED <<done, dropped>>
      BY <1>11 DEF SubmitError, CallbackError
    <2>4. \A v \in Units : refs'[v] > 0 <=> refs[v] > 0
      <3>1. CASE SubmitError
        BY <3>1 DEF SubmitError
      <3>2. ASSUME NEW u \in Units, CallbackError(u)
            PROVE  \A v \in Units : refs'[v] > 0 <=> refs[v] > 0
        <4>1. u \in completed /\ LaunchedOrNot(u) /\ refs[u] > 0 /\ refs \in [Units -> Nat]
          BY <1>1, <3>2 DEF CallbackError, Sorted, IInv, TypeOK
        <4>2. CASE UNCHANGED slots
          BY <4>2 DEF slots
        <4>3. CASE refs' = [refs EXCEPT ![u] = @ + 1]
          BY <4>1, <4>3, SMT
        <4> QED  BY <4>1, <4>2, <4>3 DEF LaunchedOrNot
      <3> QED  BY <1>11, <3>1, <3>2
    <2>5. \A v \in Units : StatusOf(v)' = IF v \in P THEN "waiting"
                                          ELSE IF v \in {} THEN "waiting" ELSE StatusOf(v)
      BY <1>1, <2>2, <2>3, <2>4 DEF Sorted
    <2>6. Pool!Step(P, {}, "waiting")
      BY <2>2, <2>5, PoolStep
    <2> QED  BY <2>2, <2>3, <2>6 DEF Pool!Arrive, Pool!Next
  <1>12. ASSUME NEW u \in Units, UnitError(u)
         PROVE  Pool!Next
    <2>1. /\ pc = "get" /\ pc' = "error" /\ nreqs > 0 /\ cell[tail] = u
          /\ LaunchedOrNot(u) /\ UNCHANGED <<done, dropped>>
      BY <1>12 DEF UnitError, results
    <2>2. PICK P \in Released : Release(P)
      BY <1>12 DEF UnitError
    <2>3. P \subseteq fresh /\ fresh' = fresh \ P /\ P \in SUBSET Units
      BY <2>2, ReleaseType DEF IInv, TypeOK
    <2>4. u \notin fresh \cup done \cup dropped /\ refs[u] = 0 /\ refs \in [Units -> Nat]
      <3>1. u \in Buffered
        BY <2>1, RingFacts DEF Buffered
      <3> QED  BY <2>1, <3>1, BufferedAlone DEF IInv, TypeOK
    <2>5. CASE UNCHANGED slots
      <3>1. \A v \in Units : StatusOf(v)' = IF v \in P THEN "waiting"
                                            ELSE IF v \in {} THEN "waiting" ELSE StatusOf(v)
        BY <1>1, <2>1, <2>3, <2>5 DEF Sorted, slots
      <3>2. Pool!Step(P, {}, "waiting")
        BY <2>3, <3>1, PoolStep
      <3> QED  BY <2>1, <2>3, <3>2 DEF Pool!Arrive, Pool!Next
    <2>6. CASE used < Slots /\ refs' = [refs EXCEPT ![u] = @ + 1]
      <3>1. \A v \in Units : StatusOf(v)' = IF v \in P THEN "waiting"
                                            ELSE IF v \in {u} THEN "running" ELSE StatusOf(v)
        BY <1>1, <2>1, <2>3, <2>4, <2>6, SMT DEF Sorted
      <3>2. Pool!Step(P, {u}, "running")
        BY <2>3, <3>1, PoolStep
      <3>3. u \in Pool!With("waiting")
        BY <1>1, <2>1, <2>4 DEF Sorted, Pool!With
      <3>4. Pool!Cardinality(Pool!With("running")) < Slots
        BY <2>1, <2>6, RunningTasks
      <3> QED  BY <2>1, <2>3, <3>2, <3>3, <3>4 DEF Pool!Begin, Pool!Next
    <2> QED  BY <2>1, <2>5, <2>6 DEF LaunchedOrNot
  <1> QED  BY <1>3, <1>4, <1>5, <1>6, <1>7, <1>8, <1>9, <1>10, <1>11, <1>12, NextCases
           DEF ErrorAction

(***************************************************************************)
(* turbine_async_worker_loop, with its ring of requests, its polling and   *)
(* its callbacks, is a work pool: each unit runs once, at most Slots at a  *)
(* time, and unless ADLB shuts down early the worker only goes away when   *)
(* nothing is waiting or running.                                          *)
(***************************************************************************)
THEOREM LoopIsAWorkPool ==
  ASSUME BufferCount > 0
  PROVE  Spec => ImplementsWorkPool
  <1>1. Init => Pool!Init
    BY PoolInit
  <1>2. IInv /\ IInv' /\ StopInv /\ [Next]_vars
          => [Pool!Next]_<<[u \in Units |-> StatusOf(u)], pc = "exit">>
    BY PoolNext
  <1> QED  BY <1>1, <1>2, Invariance, StopInvariance, PTL
           DEF Spec, ImplementsWorkPool, Pool!Spec, Pool!vars
=============================================================================
