------------------------------ MODULE DataProofs ------------------------------
(***************************************************************************)
(* Proofs about the data a program works on: updateable variables          *)
(* (Updateable) and the memory of the data commands (Commands).            *)
(***************************************************************************)
EXTENDS Updateable, Commands, FiniteSetTheorems, SequenceTheorems, WellFoundedInduction,
        TLAPS

-----------------------------------------------------------------------------
(* Updateable: the inductive invariant. *)

PendingSet == {u \in Updates : Pending(u)}

CreatorInv ==
  /\ creator = "new" => x = Empty /\ \A u \in Updates : pc[u] = "idle"
  /\ creator # "new" => x \in Int

Counted ==
  /\ IsFiniteSet(PendingSet)
  /\ writers = Cardinality(PendingSet) + (IF creator = "gone" THEN 0 ELSE 1)

UInv == TypeOK /\ LockOwned /\ ReadIsCurrent /\ CreatorInv /\ Counted

-----------------------------------------------------------------------------
\* Applying an update to a number gives a number.
LEMMA NewValueInt ==
  ASSUME NEW u \in Updates, NEW v \in Int
  PROVE  NewValue(u, v) \in Int
<1>1. Arg[u] \in Int /\ Op[u] \in {"min", "incr", "scale"}
  BY ArgAssumption
<1>2. CASE Op[u] = "min"
  BY <1>1, <1>2 DEF NewValue
<1>3. CASE Op[u] = "incr"
  BY <1>1, <1>3 DEF NewValue
<1>4. CASE Op[u] = "scale"
  <2>1. Arg[u] * v \in Int
    BY <1>1
  <2>2. NewValue(u, v) = Arg[u] * v
    BY <1>4 DEF NewValue
  <2> QED BY <2>1, <2>2
<1> QED BY <1>1, <1>2, <1>3, <1>4

\* Storing only a smaller value is what update_min amounts to.
LEMMA WriteIsNewValue ==
  ASSUME NEW u \in Updates, Write(u), old[u] \in Int
  PROVE  x' = NewValue(u, old[u]) \/ (x' = x /\ NewValue(u, old[u]) = old[u])
BY ArgAssumption DEF Write, NewValue

\* A set of updates is finite, and so is its number.
LEMMA PendingFinite == IsFiniteSet(PendingSet) /\ Cardinality(PendingSet) \in Nat
BY UpdateAssumption, FS_Subset, FS_CardinalityType DEF PendingSet

\* The invariant holds at the start.
LEMMA UInvInit == Init => UInv
<1> SUFFICES ASSUME Init PROVE UInv
  OBVIOUS
<1>1. PendingSet = {}
  BY DEF Init, PendingSet, Pending
<1>2. Counted
  BY <1>1, FS_EmptySet DEF Init, Counted
<1>3. TypeOK
  <2>1. tries \in [Updates -> 0 .. MaxTries]
    BY ArgAssumption DEF Init
  <2>2. failed \in BOOLEAN /\ writers \in Nat
    BY DEF Init
  <2>3. pc \in [Updates -> {"idle", "rule", "lock", "read", "write", "unlock", "decr", "done"}]
    BY DEF Init
  <2> QED BY <2>1, <2>2, <2>3 DEF Init, TypeOK
<1> QED BY <1>2, <1>3, UpdateAssumption DEF Init, UInv, LockOwned, ReadIsCurrent, CreatorInv, Holding

\* A step inside the body of an update leaves the set of pending ones alone.
LEMMA PendingKept ==
  ASSUME TypeOK, NEW u \in Updates, NEW to, Pending(u),
         to \in {"lock", "read", "write", "unlock", "decr"},
         pc' = [pc EXCEPT ![u] = to]
  PROVE  PendingSet' = PendingSet
BY DEF TypeOK, PendingSet, Pending

LEMMA UInvNext == UInv /\ [Next]_vars => UInv'
<1> SUFFICES ASSUME UInv, [Next]_vars PROVE UInv'
  OBVIOUS
<1> USE UpdateAssumption, ArgAssumption
<1>1. CASE InitUpdateable
  <2>1. PendingSet' = PendingSet
    BY <1>1 DEF InitUpdateable, PendingSet, Pending
  <2>2. Counted'
    BY <1>1, <2>1 DEF UInv, Counted, InitUpdateable
  <2>3. ReadIsCurrent' /\ LockOwned'
    BY <1>1 DEF UInv, InitUpdateable, ReadIsCurrent, LockOwned, Holding, CreatorInv
  <2> QED BY <1>1, <2>2, <2>3 DEF UInv, InitUpdateable, TypeOK, CreatorInv
<1>2. CASE CreatorDrop
  <2>1. PendingSet' = PendingSet
    BY <1>2 DEF CreatorDrop, PendingSet, Pending
  <2>2. Counted' /\ writers' \in Nat
    BY <1>2, <2>1, PendingFinite DEF UInv, Counted, CreatorDrop
  <2>3. ReadIsCurrent' /\ LockOwned' /\ CreatorInv'
    BY <1>2 DEF UInv, CreatorDrop, ReadIsCurrent, LockOwned, Holding, CreatorInv
  <2> QED BY <1>2, <2>2, <2>3 DEF UInv, CreatorDrop, TypeOK
<1>3. CASE Ended \/ UNCHANGED vars
  BY <1>3 DEF Ended, vars, store, UInv, TypeOK, LockOwned, Holding, ReadIsCurrent, CreatorInv,
              Counted, PendingSet, Pending
<1>4. ASSUME NEW u \in Updates, StartUpdate(u) PROVE UInv'
  <2>1. PendingSet' = PendingSet \cup {u} /\ u \notin PendingSet
    BY <1>4 DEF StartUpdate, PendingSet, Pending, UInv, TypeOK
  <2>2. Cardinality(PendingSet') = Cardinality(PendingSet) + 1 /\ IsFiniteSet(PendingSet')
    BY <2>1, PendingFinite, FS_AddElement
  <2>3. Counted' /\ writers' \in Nat
    BY <1>4, <2>2, PendingFinite DEF UInv, Counted, StartUpdate
  <2>4. ReadIsCurrent' /\ LockOwned' /\ CreatorInv'
    BY <1>4 DEF UInv, TypeOK, StartUpdate, ReadIsCurrent, LockOwned, Holding, CreatorInv
  <2> QED BY <1>4, <2>3, <2>4 DEF UInv, StartUpdate, TypeOK
<1>5. ASSUME NEW u \in Updates, Fire(u) PROVE UInv'
  <2>1. PendingSet' = PendingSet
    BY <1>5, PendingKept DEF Fire, Goto, UInv, Pending
  <2>2. Counted'
    BY <1>5, <2>1 DEF UInv, Counted, Fire, store
  <2>3. ReadIsCurrent' /\ LockOwned' /\ CreatorInv'
    BY <1>5 DEF UInv, TypeOK, Fire, Goto, store, ReadIsCurrent, LockOwned, Holding, CreatorInv
  <2> QED BY <1>5, <2>2, <2>3 DEF UInv, Fire, Goto, store, TypeOK
<1>6. ASSUME NEW u \in Updates, LockTaken(u) PROVE UInv'
  <2>1. PendingSet' = PendingSet
    BY <1>6, PendingKept DEF LockTaken, Goto, UInv, Pending
  <2>2. Counted'
    BY <1>6, <2>1 DEF UInv, Counted, LockTaken
  <2>3. ReadIsCurrent' /\ CreatorInv'
    BY <1>6 DEF UInv, TypeOK, LockTaken, Goto, ReadIsCurrent, CreatorInv
  <2>4. LockOwned'
    BY <1>6 DEF UInv, TypeOK, LockTaken, Goto, LockOwned, Holding
  <2> QED BY <1>6, <2>2, <2>3, <2>4 DEF UInv, LockTaken, Goto, TypeOK
<1>7. ASSUME NEW u \in Updates, LockBusy(u) PROVE UInv'
  <2>1. PendingSet' = PendingSet
    BY <1>7 DEF LockBusy, PendingSet, Pending
  <2>2. Counted'
    BY <1>7, <2>1 DEF UInv, Counted, LockBusy, store
  <2>3. ReadIsCurrent' /\ LockOwned' /\ CreatorInv'
    BY <1>7 DEF UInv, LockBusy, store, ReadIsCurrent, LockOwned, Holding, CreatorInv
  <2>4. tries' \in [Updates -> 0 .. MaxTries] /\ failed' \in BOOLEAN
    <3>1. CASE OutOfTries(u)
      BY <1>7, <3>1 DEF UInv, TypeOK, LockBusy
    <3>2. CASE ~OutOfTries(u)
      <4>1. tries[u] + 1 \in 0 .. MaxTries
        BY <3>2 DEF UInv, TypeOK, OutOfTries
      <4>2. tries' = [tries EXCEPT ![u] = tries[u] + 1] /\ failed' = failed
        BY <1>7, <3>2 DEF LockBusy
      <4> QED BY <4>1, <4>2 DEF UInv, TypeOK
    <3> QED BY <3>1, <3>2
  <2> QED BY <1>7, <2>2, <2>3, <2>4 DEF UInv, LockBusy, store, TypeOK
<1>8. ASSUME NEW u \in Updates, Read(u) PROVE UInv'
  <2>1. PendingSet' = PendingSet
    BY <1>8, PendingKept DEF Read, Goto, UInv, Pending
  <2>2. Counted'
    BY <1>8, <2>1 DEF UInv, Counted, Read, store
  <2>3. x \in Int
    BY <1>8 DEF UInv, CreatorInv, Read, Goto
  <2>4. ReadIsCurrent' /\ CreatorInv'
    BY <1>8, <2>3 DEF UInv, TypeOK, Read, Goto, store, ReadIsCurrent, CreatorInv
  <2>5. LockOwned'
    BY <1>8 DEF UInv, TypeOK, Read, Goto, store, LockOwned, Holding
  <2> QED BY <1>8, <2>2, <2>4, <2>5 DEF UInv, Read, Goto, store, TypeOK
<1>9. ASSUME NEW u \in Updates, Write(u) PROVE UInv'
  <2>1. PendingSet' = PendingSet
    BY <1>9, PendingKept DEF Write, Goto, UInv, Pending
  <2>2. Counted'
    BY <1>9, <2>1 DEF UInv, Counted, Write
  <2>3. x \in Int /\ old[u] = x /\ creator # "new"
    BY <1>9 DEF UInv, CreatorInv, ReadIsCurrent, Write, Goto
  <2>4. x' \in Int
    BY <1>9, <2>3, WriteIsNewValue, NewValueInt
  <2>5. \A w \in Updates : pc'[w] # "write"
    BY <1>9 DEF UInv, TypeOK, LockOwned, Holding, Write, Goto
  <2>6. ReadIsCurrent' /\ CreatorInv'
    BY <1>9, <2>3, <2>4, <2>5 DEF Write, ReadIsCurrent, CreatorInv
  <2>7. LockOwned'
    BY <1>9 DEF UInv, TypeOK, Write, Goto, LockOwned, Holding
  <2> QED BY <1>9, <2>2, <2>4, <2>6, <2>7 DEF UInv, Write, Goto, TypeOK
<1>10. ASSUME NEW u \in Updates, Unlock(u) PROVE UInv'
  <2>1. PendingSet' = PendingSet
    BY <1>10, PendingKept DEF Unlock, Goto, UInv, Pending
  <2>2. Counted'
    BY <1>10, <2>1 DEF UInv, Counted, Unlock
  <2>3. ReadIsCurrent' /\ CreatorInv'
    BY <1>10 DEF UInv, TypeOK, Unlock, Goto, ReadIsCurrent, CreatorInv
  <2>4. LockOwned'
    BY <1>10 DEF UInv, TypeOK, Unlock, Goto, LockOwned, Holding
  <2> QED BY <1>10, <2>2, <2>3, <2>4 DEF UInv, Unlock, Goto, TypeOK
<1>11. ASSUME NEW u \in Updates, Drop(u) PROVE UInv'
  <2>1. PendingSet' = PendingSet \ {u} /\ u \in PendingSet
    BY <1>11 DEF Drop, Goto, PendingSet, Pending, UInv, TypeOK
  <2>2. Cardinality(PendingSet') = Cardinality(PendingSet) - 1 /\ IsFiniteSet(PendingSet')
    BY <2>1, PendingFinite, FS_RemoveElement
  <2>3. Cardinality(PendingSet') \in Nat
    BY <2>2, FS_CardinalityType
  <2>4. Counted' /\ writers' \in Nat
    BY <1>11, <2>2, <2>3, PendingFinite DEF UInv, Counted, Drop
  <2>5. ReadIsCurrent' /\ CreatorInv'
    BY <1>11 DEF UInv, TypeOK, Drop, Goto, ReadIsCurrent, CreatorInv
  <2>6. LockOwned'
    BY <1>11 DEF UInv, TypeOK, Drop, Goto, LockOwned, Holding
  <2> QED BY <1>11, <2>4, <2>5, <2>6 DEF UInv, Drop, Goto, TypeOK
<1> QED BY <1>1, <1>2, <1>3, <1>4, <1>5, <1>6, <1>7, <1>8, <1>9, <1>10, <1>11 DEF Next, Update

\* The invariant holds throughout.
LEMMA UInvAlways == Spec => []UInv
BY UInvInit, UInvNext, PTL DEF Spec

-----------------------------------------------------------------------------
(* Theorems. *)

\* Type correctness; in particular lock_loop never tries more often than it may.
THEOREM UpdateTypeCorrect == Spec => []TypeOK
<1>1. UInv => TypeOK
  BY DEF UInv
<1> QED BY <1>1, UInvAlways, PTL

\* The lock belongs to the one update between adlb::lock and adlb::unlock.
THEOREM LockIsOwned == Spec => []LockOwned
<1>1. UInv => LockOwned
  BY DEF UInv
<1> QED BY <1>1, UInvAlways, PTL

\* No update writes over a value it has not read.
THEOREM ReadsStayCurrent == Spec => []ReadIsCurrent
<1>1. UInv => ReadIsCurrent
  BY DEF UInv
<1> QED BY <1>1, UInvAlways, PTL

\* A closed variable has no update pending and its creator is gone.
LEMMA ClosedHasNoPending == UInv /\ Closed => PendingSet = {} /\ creator = "gone"
<1> SUFFICES ASSUME UInv, Closed PROVE PendingSet = {} /\ creator = "gone"
  OBVIOUS
<1>1. Cardinality(PendingSet) \in Nat /\ IsFiniteSet(PendingSet)
  BY PendingFinite
<1>2. Cardinality(PendingSet) = 0 /\ creator = "gone"
  BY <1>1 DEF UInv, Counted, Closed
<1> QED BY <1>1, <1>2, FS_EmptySet

\* With no update pending each one is idle or done, and the lock is free.
LEMMA NonePending ==
  ASSUME UInv, PendingSet = {}
  PROVE  lock = Empty /\ \A u \in Updates : pc[u] \in {"idle", "done"}
<1>1. \A u \in Updates : pc[u] \in {"idle", "done"}
  BY DEF UInv, TypeOK, PendingSet, Pending
<1> QED BY <1>1 DEF UInv, TypeOK, LockOwned, Holding

\* The variable closes only after every update started has been applied.
THEOREM ClosingIsFinal == Spec => []ClosedIsFinal
<1>1. UInv => ClosedIsFinal
  <2> SUFFICES ASSUME UInv PROVE ClosedIsFinal
    OBVIOUS
  <2>1. Closed => lock = Empty /\ \A u \in Updates : pc[u] \in {"idle", "done"}
    BY ClosedHasNoPending, NonePending
  <2> QED BY <2>1 DEF UInv, Counted, PendingSet, ClosedIsFinal
<1> QED BY <1>1, UInvAlways, PTL

Wanted == {u \in Updates : pc[u] # "idle"}

\* The initial state is one of the abstract cell.
LEMMA CellInit == Init => Cell!Init
<1> SUFFICES ASSUME Init PROVE Cell!Init
  OBVIOUS
<1>1. Applied = {} /\ Wanted = {} /\ ~Closed /\ x = Empty
  BY DEF Init, Applied, Wanted, Closed
<1> QED BY <1>1 DEF Cell!Init, Wanted

\* Dropping the last reference closes the cell; dropping another changes nothing.
LEMMA DropCloses ==
  ASSUME UInv, UInv', x' = x, Applied' = Applied, Wanted' = Wanted, ~Closed
  PROVE  Cell!Close \/ UNCHANGED <<x, Applied, Wanted, ~Closed>>
<1>1. CASE Closed'
  <2>0. (UInv /\ Closed => PendingSet = {} /\ creator = "gone")'
    BY ClosedHasNoPending, PTL
  <2>1. PendingSet' = {}
    BY <1>1, <2>0
  <2>2. Wanted' = Applied'
    BY <2>1 DEF UInv, TypeOK, PendingSet, Pending, Wanted, Applied
  <2> QED BY <1>1, <2>2 DEF Cell!Close, Wanted
<1>2. CASE ~Closed'
  BY <1>2
<1> QED BY <1>1, <1>2

\* Every step is a step of the abstract cell or leaves it alone.
LEMMA CellNext ==
  ASSUME UInv, UInv', [Next]_vars
  PROVE  [Cell!Next]_<<x, Applied, Wanted, ~Closed>>
<1> USE UpdateAssumption
<1> DEFINE Same == UNCHANGED <<x, Applied, Wanted, ~Closed>>
<1>1. CASE InitUpdateable
  <2>1. x = Empty /\ x' = Start /\ Applied' = Applied /\ Wanted' = Wanted /\ (~Closed)' = ~Closed
    BY <1>1 DEF InitUpdateable, UInv, CreatorInv, Applied, Wanted, Closed
  <2>2. Cell!Initialise
    BY <2>1 DEF Cell!Initialise, Wanted
  <2> QED BY <2>2 DEF Cell!Next
<1>2. CASE CreatorDrop
  <2>1. x' = x /\ Applied' = Applied /\ Wanted' = Wanted /\ ~Closed
    BY <1>2, ClosedHasNoPending DEF CreatorDrop, Applied, Wanted
  <2> QED BY <2>1, DropCloses DEF Cell!Next
<1>3. CASE Ended \/ UNCHANGED vars
  BY <1>3 DEF Ended, vars, store, Applied, Wanted, Closed
<1>4. ASSUME NEW u \in Updates, StartUpdate(u) PROVE Cell!Next
  <2>1. ~Closed /\ ~Closed'
    BY <1>4, ClosedHasNoPending DEF StartUpdate, UInv, TypeOK, Closed
  <2>2. u \notin Wanted /\ Wanted' = Wanted \cup {u} /\ Applied' = Applied /\ x' = x
    BY <1>4 DEF StartUpdate, UInv, TypeOK, Wanted, Applied
  <2>3. Cell!Ask(u)
    BY <2>1, <2>2 DEF Cell!Ask, Wanted
  <2> QED BY <2>3 DEF Cell!Next
<1>5. ASSUME NEW u \in Updates, Fire(u) \/ LockTaken(u) \/ LockBusy(u) \/ Read(u) \/ Unlock(u)
      PROVE  Same
  <2>1. x' = x /\ writers' = writers
    BY <1>5 DEF Fire, LockTaken, LockBusy, Read, Unlock, store
  <2>2. Applied' = Applied /\ Wanted' = Wanted
    BY <1>5 DEF Fire, LockTaken, LockBusy, Read, Unlock, Goto, UInv, TypeOK, Applied, Wanted
  <2> QED BY <2>1, <2>2 DEF Closed
<1>6. ASSUME NEW u \in Updates, Write(u) PROVE Cell!Next
  <2>1. old[u] = x /\ x \in Int
    BY <1>6 DEF UInv, ReadIsCurrent, CreatorInv, Write, Goto
  <2>2. x' = NewValue(u, x)
    BY <1>6, <2>1, WriteIsNewValue
  <2>3. u \in PendingSet
    BY <1>6 DEF PendingSet, Pending, Write, Goto
  <2>4. ~Closed /\ ~Closed'
    BY <1>6, <2>3, ClosedHasNoPending DEF Write, Closed
  <2>5. u \in Wanted \ Applied /\ Applied' = Applied \cup {u} /\ Wanted' = Wanted
    BY <1>6 DEF Write, Goto, UInv, TypeOK, Applied, Wanted
  <2>6. Cell!Apply(u)
    BY <2>2, <2>4, <2>5 DEF Cell!Apply, Wanted
  <2> QED BY <2>6 DEF Cell!Next
<1>7. ASSUME NEW u \in Updates, Drop(u) PROVE Cell!Close \/ Same
  <2>1. u \in PendingSet
    BY <1>7 DEF PendingSet, Pending, Drop, Goto
  <2>2. x' = x /\ Applied' = Applied /\ Wanted' = Wanted /\ ~Closed
    BY <1>7, <2>1, ClosedHasNoPending DEF Drop, Goto, UInv, TypeOK, Applied, Wanted
  <2> QED BY <2>2, DropCloses
<1> QED BY <1>1, <1>2, <1>3, <1>4, <1>5, <1>6, <1>7 DEF Next, Update, Cell!Next

\* The read, the write and the lock around them implement an atomic update:
\* updateable.tcl refines UpdateCell.
THEOREM UpdatesAreAtomic == Spec => ImplementsUpdateCell
<1>1. UInv /\ UInv' /\ [Next]_vars => [Cell!Next]_<<x, Applied, Wanted, ~Closed>>
  BY CellNext
<1> QED BY <1>1, CellInit, UInvAlways, PTL DEF Spec, ImplementsUpdateCell, Cell!Spec, Wanted

-----------------------------------------------------------------------------
(* Commands: the inductive invariant. *)

Str == Seq(Int)
Blocks == Nat \ {0}

\* A memory with finitely many live blocks.
Mems == {m \in [heap    : UNION {[D -> Str] : D \in SUBSET Blocks},
                scratch : Str,
                fault   : BOOLEAN] : IsFiniteSet(DOMAIN m.heap)}

\* The lists of the program, and those of them that own or share a block.
Held   == {k \in 1 .. MaxBlobs : blobs[k] # NoBlob}
Locals == {k \in Held : blobs[k].path = NoHandle}
Shared == Held \ Locals

\* The key that blob_cache_key makes of a handle.
KeyOf(path) == path.id \o MemberOf(path, <<>>)

CommandsType ==
    /\ mem \in Mems
    /\ blobCache \subseteq [key : Str, block : Blocks] /\ IsFiniteSet(blobCache)
    /\ blobs \in [1 .. MaxBlobs -> [ptr : Int, data : Str, freed : BOOLEAN,
                                    path : BlobPaths \cup {NoHandle}]]
    /\ call.bufs \in Seq(Int)
    /\ finalized \in BOOLEAN

\* A block has one owner.
OneOwner ==
    /\ \A e, f \in blobCache : e.block = f.block => e = f
    /\ \A i, j \in Locals : blobs[i].ptr = blobs[j].ptr => i = j
    /\ \A i, j \in Lent(call.bufs) : call.bufs[i] = call.bufs[j] => i = j
    /\ \A e \in blobCache, k \in Locals : e.block # blobs[k].ptr
    /\ \A e \in blobCache, i \in Lent(call.bufs) : e.block # call.bufs[i]
    /\ \A k \in Locals, i \in Lent(call.bufs) : blobs[k].ptr # call.bufs[i]

\* The blocks with an owner; the other live ones were left behind.
Owned == {blobs[k].ptr : k \in Locals} \cup {call.bufs[i] : i \in Lent(call.bufs)}
         \cup {e.block : e \in blobCache}

LeftOver == DOMAIN heap = Owned \cup leaked /\ Owned \cap leaked = {}

\* f gives each retrieved list of the program an entry of its handle, which
\* need not be the one that was added with it.
Matching(f) ==
    /\ f \in [Shared -> blobCache]
    /\ \A i, j \in Shared : f[i] = f[j] => i = j
    /\ \A e \in blobCache : \E k \in Shared : f[k] = e
    /\ \A k \in Shared : f[k].key = KeyOf(blobs[k].path)

Matched == ~finalized => \E f \in [Shared -> blobCache] : Matching(f)

\* The block of a list whose handle no free command has named is under its key.
UnderItsKey ==
    ~finalized => \A k \in Shared : ~blobs[k].freed =>
        [key |-> KeyOf(blobs[k].path), block |-> blobs[k].ptr] \in blobCache

CommandsInv ==
    /\ CommandsType /\ ~fault /\ OneOwner /\ LeftOver /\ Matched /\ UnderItsKey
    /\ BlobsValid /\ NamesMember

-----------------------------------------------------------------------------
(* Numbers. *)

\* A set that holds 0, and with each number below n the next, holds 0 .. n.
LEMMA UpTo ==
  ASSUME NEW n \in Nat, NEW S, 0 \in S, \A k \in 1 .. n : k - 1 \in S => k \in S
  PROVE  0 .. n \subseteq S
<1> SUFFICES ASSUME (0 .. n) \ S # {} PROVE FALSE
  OBVIOUS
<1> DEFINE Rest == (0 .. n) \ S
<1>1. PICK b \in Rest : \A c \in Rest : ~ (<<c, b>> \in OpToRel(<, Nat))
  <2>1. Rest \subseteq Nat /\ Rest # {}
    OBVIOUS
  <2> HIDE DEF Rest
  <2> QED BY <2>1, NatLessThanWellFounded, WFMin
<1>2. b - 1 \in Nat /\ b \in Nat /\ b - 1 < b /\ b \in 1 .. n /\ b - 1 \in 0 .. n
  OBVIOUS
<1>3. <<b - 1, b>> \in OpToRel(<, Nat)
  <2>1. <<b - 1, b>> \in Nat \X Nat /\ <<b - 1, b>>[1] < <<b - 1, b>>[2]
    BY <1>2
  <2> QED BY <2>1, Zenon DEF OpToRel
<1>4. b - 1 \in S
  BY <1>1, <1>2, <1>3
<1> QED BY <1>2, <1>4

\* One of the addresses that malloc may choose from is free.
LEMMA FreshIsFree ==
  ASSUME NEW m \in Mems
  PROVE  Fresh(m) \in Blocks /\ Fresh(m) \notin DOMAIN m.heap
<1> DEFINE D == DOMAIN m.heap
           n == Cardinality(D)
           S == {k \in 0 .. n + 1 : 1 .. k \subseteq D}
<1>1. IsFiniteSet(D) /\ n \in Nat
  BY FS_CardinalityType DEF Mems
<1>2. ~(1 .. n + 1 \subseteq D)
  <2>1. IsFiniteSet(1 .. n + 1) /\ Cardinality(1 .. n + 1) = n + 1
    BY <1>1, FS_Interval
  <2> QED BY <1>1, <2>1, FS_Subset
<1>3. PICK b \in 1 .. n + 1 : b \notin D /\ 1 .. b - 1 \subseteq D
  <2> SUFFICES ASSUME \A b \in 1 .. n + 1 : 1 .. b - 1 \subseteq D => b \in D
               PROVE  FALSE
    OBVIOUS
  <2>1. 0 \in S
    BY <1>1
  <2>2. \A k \in 1 .. n + 1 : k - 1 \in S => k \in S
    <3> SUFFICES ASSUME NEW k \in 1 .. n + 1, k - 1 \in S PROVE k \in S
      OBVIOUS
    <3>1. 1 .. k - 1 \subseteq D /\ k \in D
      OBVIOUS
    <3>2. 1 .. k = (1 .. k - 1) \cup {k}
      BY <1>1
    <3> QED BY <3>1, <3>2, <1>1
  <2> HIDE DEF S
  <2>3. n + 1 \in S
    BY <1>1, <2>1, <2>2, UpTo
  <2> QED BY <2>3, <1>2 DEF S
<1>4. Fresh(m) \in 1 .. n + 1 /\ Fresh(m) \notin D
  BY <1>3 DEF Fresh
<1> QED BY <1>4, <1>1 DEF Blocks

\* A value of T for each of 0 .. n, and how each is made from the one before.
Steps(n, T) == [1 .. n -> [T -> T]]
Solves(g, n, T, b, F) ==
    g \in [0 .. n -> T] /\ g[0] = b /\ \A k \in 1 .. n : g[k] = F[k][g[k - 1]]

\* A function may be defined by recursion over 0 .. n.
LEMMA Recursion ==
  ASSUME NEW n \in Nat, NEW T, NEW b \in T, NEW F \in Steps(n, T)
  PROVE  \E g : Solves(g, n, T, b, F)
<1> USE DEF Steps
<1> DEFINE Part(g, k) == g[0] = b /\ \A j \in 1 .. k : g[j] = F[j][g[j - 1]]
           S == {k \in 0 .. n : \E g \in [0 .. k -> T] : Part(g, k)}
<1>1. 0 \in S
  <2> DEFINE g == [j \in 0 .. 0 |-> b]
  <2>1. g \in [0 .. 0 -> T] /\ g[0] = b /\ 1 .. 0 = {}
    OBVIOUS
  <2> HIDE DEF g
  <2>2. \E f \in [0 .. 0 -> T] : Part(f, 0)
    BY <2>1
  <2> QED BY <2>2
<1>2. ASSUME NEW k \in 1 .. n, k - 1 \in S PROVE k \in S
  <2>1. PICK g \in [0 .. k - 1 -> T] : Part(g, k - 1)
    BY <1>2
  <2> DEFINE f == [j \in 0 .. k |-> IF j = k THEN F[k][g[k - 1]] ELSE g[j]]
  <2>2. k - 1 \in 0 .. k - 1 /\ g[k - 1] \in T /\ F[k][g[k - 1]] \in T
    OBVIOUS
  <2>3. \A j \in 0 .. k : j # k => j \in 0 .. k - 1 /\ g[j] \in T
    OBVIOUS
  <2>4. f \in [0 .. k -> T]
    BY <2>2, <2>3
  <2>5. \A j \in 1 .. k : f[j] = F[j][f[j - 1]]
    <3> SUFFICES ASSUME NEW j \in 1 .. k PROVE f[j] = F[j][f[j - 1]]
      OBVIOUS
    <3>1. f[j - 1] = g[j - 1]
      OBVIOUS
    <3>2. CASE j = k
      BY <3>1, <3>2
    <3>3. CASE j # k
      <4>1. j \in 1 .. k - 1 /\ f[j] = g[j]
        BY <3>3
      <4> QED BY <4>1, <3>1, <2>1
    <3> QED BY <3>2, <3>3
  <2>6. f[0] = b
    BY <2>1
  <2>7. k \in 0 .. n
    OBVIOUS
  <2> QED BY <2>4, <2>5, <2>6, <2>7
<1>3. n \in S
  <2> HIDE DEF S
  <2>1. 0 .. n \subseteq S
    BY <1>1, <1>2, UpTo
  <2> QED BY <2>1
<1> QED BY <1>3 DEF Solves

-----------------------------------------------------------------------------
(* Strings. *)

LEMMA StrLen == ASSUME NEW s \in Str PROVE Len(s) \in Nat /\ \A i \in 1 .. Len(s) : s[i] \in Int
BY DEF Str

LEMMA StrEmpty ==
  /\ <<>> \in Str /\ Len(<<>>) = 0
  /\ \A s \in Str : s \o <<>> = s /\ <<>> \o s = s /\ (Len(s) = 0 => s = <<>>)
<1>1. \A s \in Str : s \o <<>> = s /\ <<>> \o s = s
  BY ConcatEmptySeq DEF Str
<1> QED BY <1>1 DEF Str

LEMMA StrOne == ASSUME NEW c \in Int PROVE <<c>> \in Str /\ Len(<<c>>) = 1 /\ <<c>>[1] = c
BY DEF Str

LEMMA StrConcat ==
  ASSUME NEW s \in Str, NEW t \in Str
  PROVE  /\ s \o t \in Str /\ Len(s \o t) = Len(s) + Len(t)
         /\ \A i \in 1 .. Len(s) : (s \o t)[i] = s[i]
         /\ \A i \in 1 .. Len(t) : (s \o t)[Len(s) + i] = t[i]
BY DEF Str

LEMMA StrAssoc ==
  ASSUME NEW s \in Str, NEW t \in Str, NEW v \in Str PROVE (s \o t) \o v = s \o (t \o v)
BY ConcatAssociative DEF Str

LEMMA StrEqual ==
  ASSUME NEW s \in Str, NEW t \in Str, Len(s) = Len(t), \A i \in 1 .. Len(s) : s[i] = t[i]
  PROVE  s = t
BY SeqEqual DEF Str

LEMMA DotNul == Dot \in Int /\ Nul \in Int /\ Junk \in Int
BY DEF Dot, Nul, Junk

\* The strings that ADLB_Subscript_Impl goes through.
HandleRun(g, h, subs) ==
    /\ g \in [0 .. Len(subs) -> Str] /\ g[0] = h
    /\ \A k \in 1 .. Len(subs) : g[k] = g[k - 1] \o <<Dot>> \o subs[k]
    /\ SubscriptHandle(h, subs) = g[Len(subs)]

LEMMA HandleSteps ==
  ASSUME NEW h \in Str, NEW subs \in Seq(Str)
  PROVE  \E g : HandleRun(g, h, subs)
<1> DEFINE n == Len(subs)
           Is(g) == g = [k \in 0 .. n |-> IF k = 0 THEN h ELSE g[k - 1] \o <<Dot>> \o subs[k]]
           F == [k \in 1 .. n |-> [s \in Str |-> s \o <<Dot>> \o subs[k]]]
           g == CHOOSE g : Is(g)
<1>1. n \in Nat
  OBVIOUS
<1>2. \A k \in 1 .. n : \A s \in Str : s \o <<Dot>> \o subs[k] \in Str
  BY DEF Str, Dot
<1>3. F \in [1 .. n -> [Str -> Str]]
  BY <1>2
<1>4. PICK f \in [0 .. n -> Str] : f[0] = h /\ \A k \in 1 .. n : f[k] = F[k][f[k - 1]]
  <2>1. F \in Steps(n, Str)
    BY <1>3 DEF Steps
  <2> HIDE DEF F
  <2>2. \E f : Solves(f, n, Str, h, F)
    BY <1>1, <2>1, Recursion
  <2> QED BY <2>2 DEF Solves
<1>5. \A k \in 1 .. n : f[k] = f[k - 1] \o <<Dot>> \o subs[k]
  <2> SUFFICES ASSUME NEW k \in 1 .. n PROVE f[k] = f[k - 1] \o <<Dot>> \o subs[k]
    OBVIOUS
  <2>1. k - 1 \in 0 .. n
    BY <1>1
  <2> QED BY <1>4, <2>1
<1>6. Is(f)
  <2>1. \A k \in 0 .. n : f[k] = IF k = 0 THEN h ELSE f[k - 1] \o <<Dot>> \o subs[k]
    BY <1>1, <1>4, <1>5
  <2>2. f = [k \in 0 .. n |-> f[k]]
    OBVIOUS
  <2>3. [k \in 0 .. n |-> f[k]]
        = [k \in 0 .. n |-> IF k = 0 THEN h ELSE f[k - 1] \o <<Dot>> \o subs[k]]
    BY ONLY <2>1
  <2> QED BY <2>2, <2>3
<1>7. Is(g)
  <2> HIDE DEF Is
  <2> QED BY <1>6
<1>8. SubscriptHandle(h, subs) = g[n]
  BY DEF SubscriptHandle
<1>9. g[0] = h /\ \A k \in 1 .. n : g[k] = g[k - 1] \o <<Dot>> \o subs[k]
  <2> HIDE DEF g
  <2> QED BY <1>7
<1>10. \A k \in 0 .. n : g[k] \in Str
  <2> DEFINE S == {k \in 0 .. n : g[k] \in Str}
  <2> HIDE DEF g
  <2>1. 0 \in S
    BY <1>9
  <2>2. ASSUME NEW k \in 1 .. n, k - 1 \in S PROVE k \in S
    <3>1. k - 1 \in 0 .. n /\ g[k - 1] \in Str /\ k \in 0 .. n
      BY <2>2
    <3>2. g[k] = g[k - 1] \o <<Dot>> \o subs[k]
      BY <1>9
    <3>3. g[k - 1] \o <<Dot>> \o subs[k] \in Str
      BY <1>2, <3>1
    <3> QED BY <3>1, <3>2, <3>3
  <2> HIDE DEF S
  <2>3. 0 .. n \subseteq S
    BY <1>1, <2>1, <2>2, UpTo
  <2> QED BY <2>3 DEF S
<1>11. g \in [0 .. n -> Str]
  <2> HIDE DEF g
  <2> QED BY <1>7, <1>10
<1> HIDE DEF g
<1> QED BY <1>8, <1>9, <1>11 DEF HandleRun

\* A handle without subscripts is what it was.
LEMMA HandleEmpty == ASSUME NEW h \in Str PROVE SubscriptHandle(h, <<>>) = h
<1>1. <<>> \in Seq(Str) /\ Len(<<>>) = 0
  OBVIOUS
<1>2. PICK g : HandleRun(g, h, <<>>)
  BY <1>1, HandleSteps
<1> QED BY <1>1, <1>2 DEF HandleRun

LEMMA HandleType ==
  ASSUME NEW h \in Str, NEW subs \in Seq(Str) PROVE SubscriptHandle(h, subs) \in Str
<1>1. Len(subs) \in 0 .. Len(subs)
  OBVIOUS
<1>2. PICK g : HandleRun(g, h, subs)
  BY HandleSteps
<1> QED BY <1>1, <1>2 DEF HandleRun

\* One more subscript comes behind one more dot.
LEMMA HandleAppend ==
  ASSUME NEW h \in Str, NEW subs \in Seq(Str), NEW s \in Str
  PROVE  SubscriptHandle(h, Append(subs, s)) = SubscriptHandle(h, subs) \o <<Dot>> \o s
<1> DEFINE n == Len(subs)
           all == Append(subs, s)
<1>1. n \in Nat /\ all \in Seq(Str) /\ Len(all) = n + 1 /\ all[n + 1] = s
      /\ \A k \in 1 .. n : all[k] = subs[k]
  OBVIOUS
<1> HIDE DEF all
<1>10. PICK f : HandleRun(f, h, subs)
  BY HandleSteps
<1>11. PICK g : HandleRun(g, h, all)
  BY <1>1, HandleSteps
<1>2. /\ f \in [0 .. n -> Str] /\ f[0] = h
      /\ \A k \in 1 .. n : f[k] = f[k - 1] \o <<Dot>> \o subs[k]
      /\ SubscriptHandle(h, subs) = f[n]
  BY <1>10 DEF HandleRun
<1>3. /\ g \in [0 .. n + 1 -> Str] /\ g[0] = h
      /\ \A k \in 1 .. n + 1 : g[k] = g[k - 1] \o <<Dot>> \o all[k]
      /\ SubscriptHandle(h, all) = g[n + 1]
  BY <1>1, <1>11 DEF HandleRun
<1> HIDE DEF n
<1>4. g[n] = f[n]
  <2> DEFINE S == {k \in 0 .. n : g[k] = f[k]}
  <2>1. 0 \in S
    BY <1>1, <1>2, <1>3
  <2>2. ASSUME NEW k \in 1 .. n, k - 1 \in S PROVE k \in S
    <3>1. k \in 1 .. n + 1 /\ k \in 0 .. n /\ g[k - 1] = f[k - 1]
      BY <1>1, <2>2
    <3> QED BY <3>1, <1>1, <1>2, <1>3
  <2> HIDE DEF S
  <2>3. 0 .. n \subseteq S
    BY <1>1, <2>1, <2>2, UpTo
  <2>4. n \in S
    BY <1>1, <2>3
  <2> QED BY <2>4 DEF S
<1>5. n + 1 \in 1 .. n + 1 /\ n + 1 - 1 = n
  BY <1>1
<1>6. g[n + 1] = g[n] \o <<Dot>> \o s
  <2>1. PICK j \in 1 .. n + 1 : j = n + 1 /\ j - 1 = n
    BY <1>1, <1>5
  <2>2. g[j] = g[j - 1] \o <<Dot>> \o all[j]
    BY <1>3
  <2>3. all[j] = s
    BY <1>1, <2>1
  <2> QED BY ONLY <2>1, <2>2, <2>3
<1>7. SubscriptHandle(h, all) = SubscriptHandle(h, subs) \o <<Dot>> \o s
  BY <1>2, <1>3, <1>4, <1>6
<1> QED BY <1>7 DEF all

\* The subscripts come behind the handle, whatever it is.
LEMMA HandleSplit ==
  ASSUME NEW h \in Str, NEW subs \in Seq(Str)
  PROVE  SubscriptHandle(h, subs) = h \o SubscriptHandle(<<>>, subs)
<1> DEFINE n == Len(subs)
<1>1. n \in Nat /\ <<>> \in Str
  BY DEF Str
<1>10. PICK f : HandleRun(f, h, subs)
  BY HandleSteps
<1>11. PICK g : HandleRun(g, <<>>, subs)
  BY <1>1, HandleSteps
<1>2. /\ f \in [0 .. n -> Str] /\ f[0] = h
      /\ \A k \in 1 .. n : f[k] = f[k - 1] \o <<Dot>> \o subs[k]
      /\ SubscriptHandle(h, subs) = f[n]
  BY <1>10 DEF HandleRun
<1>3. /\ g \in [0 .. n -> Str] /\ g[0] = <<>>
      /\ \A k \in 1 .. n : g[k] = g[k - 1] \o <<Dot>> \o subs[k]
      /\ SubscriptHandle(<<>>, subs) = g[n]
  BY <1>11 DEF HandleRun
<1>4. \A k \in 1 .. n : subs[k] \in Str
  OBVIOUS
<1> HIDE DEF n
<1> DEFINE S == {k \in 0 .. n : f[k] = h \o g[k]}
<1>5. 0 \in S
  <2>1. h \o <<>> = h
    BY StrEmpty
  <2>2. f[0] = h \o g[0] /\ 0 \in 0 .. n
    BY <1>1, <1>2, <1>3, <2>1
  <2> QED BY <2>2
<1>6. ASSUME NEW k \in 1 .. n, k - 1 \in S PROVE k \in S
  <2>1. k \in 0 .. n /\ k - 1 \in 0 .. n /\ f[k - 1] = h \o g[k - 1] /\ g[k - 1] \in Str
    <3>1. k \in 0 .. n /\ k - 1 \in 0 .. n
      BY <1>1
    <3>2. f[k - 1] = h \o g[k - 1]
      BY <1>6
    <3> QED BY <3>1, <3>2, <1>3
  <2>2. <<Dot>> \in Str /\ g[k - 1] \o <<Dot>> \in Str
    BY <2>1, DotNul, StrOne, StrConcat
  <2>3. (h \o g[k - 1]) \o <<Dot>> = h \o (g[k - 1] \o <<Dot>>)
    BY <2>1, <2>2, StrAssoc
  <2>4. (h \o (g[k - 1] \o <<Dot>>)) \o subs[k] = h \o ((g[k - 1] \o <<Dot>>) \o subs[k])
    BY <1>4, <2>2, StrAssoc
  <2>5. f[k] = f[k - 1] \o <<Dot>> \o subs[k] /\ g[k] = g[k - 1] \o <<Dot>> \o subs[k]
    BY <1>2, <1>3
  <2> QED BY <2>1, <2>3, <2>4, <2>5
<1> HIDE DEF S
<1>7. n \in S
  <2>1. 0 .. n \subseteq S
    BY <1>1, <1>5, <1>6, UpTo
  <2> QED BY <1>1, <2>1
<1> QED BY <1>7, <1>2, <1>3 DEF S

\* Subscripts start with a dot, and have more to them unless there is one that
\* is empty.
LEMMA HandleDot ==
  ASSUME NEW subs \in Seq(Str), subs # <<>>
  PROVE  /\ Len(SubscriptHandle(<<>>, subs)) >= 1
         /\ SubscriptHandle(<<>>, subs)[1] = Dot
         /\ subs # <<<<>>>> => Len(SubscriptHandle(<<>>, subs)) >= 2
<1> DEFINE n == Len(subs)
<1>1. n \in Nat \ {0} /\ <<>> \in Str /\ \A k \in 1 .. n : subs[k] \in Str
  BY DEF Str
<1>10. PICK g : HandleRun(g, <<>>, subs)
  BY <1>1, HandleSteps
<1>2. /\ g \in [0 .. n -> Str] /\ g[0] = <<>>
      /\ \A k \in 1 .. n : g[k] = g[k - 1] \o <<Dot>> \o subs[k]
      /\ SubscriptHandle(<<>>, subs) = g[n]
  BY <1>10 DEF HandleRun
<1>3. subs # <<<<>>>> => n >= 2 \/ Len(subs[1]) >= 1
  <2>3. subs[1] \in Str /\ Len(subs[1]) \in Nat
    BY <1>1, StrLen
  <2>1. n = 1 /\ Len(subs[1]) = 0 => subs = <<<<>>>>
    <3> SUFFICES ASSUME n = 1, Len(subs[1]) = 0 PROVE subs = <<<<>>>>
      OBVIOUS
    <3>1. subs[1] = <<>>
      BY <2>3, StrEmpty
    <3>2. subs = <<subs[1]>>
      OBVIOUS
    <3> QED BY <3>1, <3>2
  <2> HIDE DEF n
  <2> QED BY <1>1, <2>1, <2>3
<1> HIDE DEF n
<1>4. ASSUME NEW k \in 1 .. n
      PROVE  /\ k - 1 \in 0 .. n /\ g[k - 1] \in Str /\ subs[k] \in Str /\ g[k] \in Str
             /\ Len(g[k]) = Len(g[k - 1]) + 1 + Len(subs[k])
             /\ g[k - 1] = <<>> => g[k][1] = Dot
             /\ Len(g[k - 1]) >= 1 => g[k][1] = g[k - 1][1]
  <2>1. k - 1 \in 0 .. n /\ g[k - 1] \in Str /\ subs[k] \in Str /\ g[k] \in Str
    <3>1. k \in 0 .. n /\ k - 1 \in 0 .. n
      BY <1>1
    <3> QED BY <3>1, <1>1, <1>2
  <2>2. g[k] = g[k - 1] \o <<Dot>> \o subs[k]
    BY <1>2
  <2>3. /\ <<Dot>> \in Str /\ Len(<<Dot>>) = 1 /\ <<Dot>>[1] = Dot
        /\ g[k - 1] \o <<Dot>> \in Str /\ Len(g[k - 1] \o <<Dot>>) = Len(g[k - 1]) + 1
        /\ Len(g[k - 1]) \in Nat /\ Len(subs[k]) \in Nat
    BY <2>1, DotNul, StrOne, StrConcat, StrLen
  <2>4. g[k] \in Str /\ Len(g[k]) = Len(g[k - 1]) + 1 + Len(subs[k])
        /\ g[k][1] = (g[k - 1] \o <<Dot>>)[1]
    <3> DEFINE t == g[k - 1] \o <<Dot>>
    <3>1. t \in Str /\ 1 \in 1 .. Len(t) /\ g[k] = t \o subs[k]
      BY <2>2, <2>3
    <3> HIDE DEF t
    <3>2. Len(g[k]) = Len(t) + Len(subs[k]) /\ g[k][1] = t[1]
      BY <2>1, <3>1, StrConcat
    <3>3. Len(t) = Len(g[k - 1]) + 1
      BY <2>3 DEF t
    <3> QED BY <2>1, <3>2, <3>3 DEF t
  <2>5. g[k - 1] = <<>> => g[k][1] = Dot
    BY <2>3, <2>4, StrEmpty
  <2>6. Len(g[k - 1]) >= 1 => g[k][1] = g[k - 1][1]
    BY <2>1, <2>3, <2>4, StrConcat
  <2> QED BY <2>1, <2>4, <2>5, <2>6
<1> DEFINE S == {k \in 0 .. n : k = 0 \/ (Len(g[k]) >= k /\ g[k][1] = Dot)}
<1>5. 0 \in S
  BY <1>1
<1>6. ASSUME NEW k \in 1 .. n, k - 1 \in S PROVE k \in S
  <2>4. /\ Len(g[k]) = Len(g[k - 1]) + 1 + Len(subs[k])
        /\ g[k - 1] = <<>> => g[k][1] = Dot
        /\ Len(g[k - 1]) >= 1 => g[k][1] = g[k - 1][1]
    BY <1>4
  <2>0. k \in 0 .. n /\ k \in Nat \ {0} /\ Len(g[k - 1]) \in Nat /\ Len(subs[k]) \in Nat
    BY <1>1, <1>4, StrLen
  <2>1. CASE k = 1
    <3>1. g[k - 1] = <<>>
      BY <2>1, <1>2
    <3>2. Len(g[k]) >= 1 /\ g[k][1] = Dot
      BY ONLY <3>1, <2>4, <2>0, StrEmpty
    <3> QED BY <2>0, <2>1, <3>2
  <2>2. CASE k # 1
    <3>1. k - 1 # 0 /\ Len(g[k - 1]) >= k - 1 /\ g[k - 1][1] = Dot
      BY <1>6, <2>2
    <3>2. Len(g[k - 1]) >= 1 /\ Len(g[k]) >= k /\ g[k][1] = Dot
      <4>1. Len(g[k - 1]) >= 1
        BY ONLY <3>1, <2>0, <2>2
      <4>2. Len(g[k]) >= k
        <5> DEFINE a == Len(g[k - 1])
                   c == Len(subs[k])
        <5>1. a \in Nat /\ c \in Nat /\ a >= k - 1 /\ k \in Nat /\ Len(g[k]) = a + 1 + c
          BY ONLY <3>1, <2>4, <2>0
        <5> HIDE DEF a, c
        <5> QED BY ONLY <5>1
      <4>3. g[k][1] = g[k - 1][1]
        BY ONLY <4>1, <2>4
      <4> QED BY ONLY <4>1, <4>2, <4>3, <3>1
    <3> QED BY <2>0, <3>2
  <2> QED BY <2>1, <2>2
<1> HIDE DEF S
<1>7. 0 .. n \subseteq S
  BY <1>1, <1>5, <1>6, UpTo
<1>8. Len(g[n]) >= n /\ g[n][1] = Dot
  <2>1. n \in S
    BY <1>1, <1>7
  <2> QED BY <1>1, <2>1 DEF S
<1>9. n = 1 => Len(g[n]) = 1 + Len(subs[1])
  <2> SUFFICES ASSUME n = 1 PROVE Len(g[n]) = 1 + Len(subs[1])
    OBVIOUS
  <2>1. 1 \in 1 .. n /\ g[1 - 1] = <<>>
    BY <1>2
  <2>2. Len(g[1]) = Len(g[1 - 1]) + 1 + Len(subs[1])
    BY <2>1, <1>4
  <2>3. Len(subs[1]) \in Nat
    BY <1>1, StrLen
  <2> QED BY <2>1, <2>2, <2>3, StrEmpty
<1> QED BY <1>1, <1>2, <1>3, <1>8, <1>9, StrLen

LEMMA StrSub ==
  ASSUME NEW s \in Str, NEW a \in Nat \ {0}, NEW b \in Nat, b <= Len(s)
  PROVE  /\ SubSeq(s, a, b) \in Str
         /\ Len(SubSeq(s, a, b)) = IF a <= b THEN b - a + 1 ELSE 0
         /\ \A i \in 1 .. b - a + 1 : SubSeq(s, a, b)[i] = s[a + i - 1]
<1>1. \A i \in a .. b : s[i] \in Int
  BY DEF Str
<1> QED BY <1>1, SubSeqProperties DEF Str

\* The front of a string is what the string begins with.
LEMMA StrFront ==
  ASSUME NEW s \in Str, NEW n \in Nat, n <= Len(s)
  PROVE  \A i \in 1 .. n : SubSeq(s, 1, n)[i] = s[i]
<1> DEFINE f == SubSeq(s, 1, n)
<1>1. \A i \in 1 .. n - 1 + 1 : f[i] = s[1 + i - 1]
  BY ONLY StrSub, s \in Str, n \in Nat, n <= Len(s)
<1> HIDE DEF f
<1>2. \A i \in 1 .. n : f[i] = s[i]
  BY ONLY <1>1, n \in Nat
<1> QED BY <1>2 DEF f

LEMMA StrTail ==
  ASSUME NEW s \in Str, Len(s) >= 1
  PROVE  /\ Tail(s) \in Str /\ Len(Tail(s)) = Len(s) - 1
         /\ \A i \in 1 .. Len(s) - 1 : Tail(s)[i] = s[i + 1]
<1>1. s # <<>>
  BY StrEmpty
<1> QED BY <1>1, HeadTailProperties DEF Str

LEMMA TailConcat ==
  ASSUME NEW s \in Str, Len(s) >= 1, NEW t \in Str
  PROVE  Tail(s \o t) = Tail(s) \o t
<1>1. s \o t \in Str /\ Len(s \o t) = Len(s) + Len(t) /\ Len(s) \in Nat /\ Len(t) \in Nat
  BY StrConcat, StrLen
<1>2. /\ Tail(s \o t) \in Str /\ Len(Tail(s \o t)) = Len(s) + Len(t) - 1
      /\ \A i \in 1 .. Len(s) + Len(t) - 1 : Tail(s \o t)[i] = (s \o t)[i + 1]
  <2> DEFINE v == s \o t
  <2>1. v \in Str /\ Len(v) >= 1 /\ Len(v) = Len(s) + Len(t)
    BY <1>1
  <2> HIDE DEF v
  <2>2. /\ Tail(v) \in Str /\ Len(Tail(v)) = Len(v) - 1
        /\ \A i \in 1 .. Len(v) - 1 : Tail(v)[i] = v[i + 1]
    BY <2>1, StrTail
  <2> QED BY ONLY <2>1, <2>2 DEF v
<1>3. /\ Tail(s) \in Str /\ Len(Tail(s)) = Len(s) - 1
      /\ \A i \in 1 .. Len(s) - 1 : Tail(s)[i] = s[i + 1]
  BY StrTail
<1>4. /\ Tail(s) \o t \in Str /\ Len(Tail(s) \o t) = Len(s) - 1 + Len(t)
      /\ \A i \in 1 .. Len(s) - 1 : (Tail(s) \o t)[i] = Tail(s)[i]
      /\ \A i \in 1 .. Len(t) : (Tail(s) \o t)[Len(s) - 1 + i] = t[i]
  <2> DEFINE v == Tail(s)
  <2>1. v \in Str /\ Len(v) = Len(s) - 1
    BY <1>3
  <2> HIDE DEF v
  <2>2. /\ v \o t \in Str /\ Len(v \o t) = Len(v) + Len(t)
        /\ \A i \in 1 .. Len(v) : (v \o t)[i] = v[i]
        /\ \A i \in 1 .. Len(t) : (v \o t)[Len(v) + i] = t[i]
    BY <2>1, StrConcat
  <2> QED BY ONLY <2>1, <2>2 DEF v
<1>5. ASSUME NEW i \in 1 .. Len(s) + Len(t) - 1 PROVE Tail(s \o t)[i] = (Tail(s) \o t)[i]
  <2>1. CASE i \in 1 .. Len(s) - 1
    <3>1. (s \o t)[i + 1] = s[i + 1]
      <4>1. i + 1 \in 1 .. Len(s)
        BY <1>1, <2>1
      <4> QED BY <4>1, StrConcat
    <3> QED BY <3>1, <2>1, <1>2, <1>3, <1>4
  <2>2. CASE i \notin 1 .. Len(s) - 1
    <3>1. PICK j \in 1 .. Len(t) : i = Len(s) - 1 + j /\ i + 1 = Len(s) + j
      <4>1. i - (Len(s) - 1) \in 1 .. Len(t)
        BY <1>1, <2>2
      <4> QED BY <1>1, <4>1
    <3>2. (s \o t)[i + 1] = t[j]
      BY <3>1, StrConcat
    <3>3. (Tail(s) \o t)[i] = t[j]
      BY <3>1, <1>4
    <3> QED BY <3>2, <3>3, <1>2
  <2> QED BY <2>1, <2>2
<1>6. Len(Tail(s \o t)) = Len(Tail(s) \o t)
  BY <1>1, <1>2, <1>4
<1> QED BY ONLY <1>2, <1>4, <1>5, <1>6, StrEqual

-----------------------------------------------------------------------------
(* Handles and members. *)

LEMMA PathParts ==
  ASSUME NEW path \in Paths \cup BlobPaths
  PROVE  /\ path = [id |-> path.id, subs |-> path.subs]
         /\ path.id \in Str /\ Len(path.id) = 1 /\ path.id[1] # Dot
         /\ path.subs \in Seq(Str) /\ path.subs # <<<<>>>>
BY CommandsAssumption DEF Str

\* What stands behind the first dot of a handle.
SubsText(path) ==
    IF path.subs = <<>> THEN <<>> ELSE Tail(SubscriptHandle(<<>>, path.subs))

LEMMA SubsTextParts ==
  ASSUME NEW path \in Paths \cup BlobPaths
  PROVE  /\ SubsText(path) \in Str /\ (SubsText(path) = <<>> <=> path.subs = <<>>)
         /\ path.subs # <<>> =>
              /\ SubscriptHandle(<<>>, path.subs) \in Str
              /\ Len(SubscriptHandle(<<>>, path.subs)) = Len(SubsText(path)) + 1
              /\ SubscriptHandle(<<>>, path.subs)[1] = Dot
<1>1. CASE path.subs = <<>>
  BY <1>1, StrEmpty DEF SubsText
<1>2. CASE path.subs # <<>>
  <2> DEFINE s == SubscriptHandle(<<>>, path.subs)
  <2>1. s \in Str /\ Len(s) >= 2 /\ s[1] = Dot
    BY <1>2, PathParts, HandleDot, HandleType, StrEmpty
  <2>2. Len(s) \in Nat /\ SubsText(path) = Tail(s)
    BY <1>2, <2>1, StrLen DEF SubsText
  <2> HIDE DEF s
  <2>3. Tail(s) \in Str /\ Len(Tail(s)) = Len(s) - 1
    BY <2>1, <2>2, StrTail
  <2>4. Tail(s) # <<>>
    <3> DEFINE n == Len(s)
               t == Len(Tail(s))
    <3>1. t # 0
      <4>1. n \in Nat /\ n >= 2 /\ t = n - 1
        BY ONLY <2>1, <2>2, <2>3
      <4> HIDE DEF n, t
      <4> QED BY ONLY <4>1
    <3> QED BY <3>1, StrEmpty
  <2> QED BY <1>2, <2>1, <2>2, <2>3, <2>4 DEF s
<1> QED BY <1>1, <1>2

\* ADLB_Extract_Handle finds the id and the subscripts of a handle.
LEMMA Extracted ==
  ASSUME NEW path \in Paths \cup BlobPaths
  PROVE  ExtractHandle(HandleOf(path)) = [id |-> path.id, sub |-> SubsText(path)]
<1> DEFINE h == HandleOf(path)
           c == path.id
<1>0. c \in Str /\ Len(c) = 1 /\ c[1] # Dot /\ path.subs \in Seq(Str)
  BY PathParts
<1>1. CASE path.subs = <<>>
  <2>1. h = c
    BY <1>0, <1>1, HandleEmpty DEF HandleOf
  <2>2. \A i \in 1 .. Len(h) : h[i] # Dot
    BY <1>0, <2>1
  <2>3. SubsText(path) = <<>>
    BY <1>1 DEF SubsText
  <2> HIDE DEF h, c
  <2>4. ExtractHandle(h) = [id |-> h, sub |-> <<>>]
    BY <2>2 DEF ExtractHandle
  <2> QED BY <2>1, <2>3, <2>4 DEF h, c
<1>2. CASE path.subs # <<>>
  <2> DEFINE s == SubscriptHandle(<<>>, path.subs)
             n == Len(s)
  <2>1. s \in Str /\ n \in Nat /\ n >= 2 /\ s[1] = Dot /\ SubsText(path) = Tail(s)
    BY <1>0, <1>2, PathParts, HandleDot, HandleType, StrEmpty, StrLen DEF SubsText
  <2>2. h = c \o s
    BY <1>0, HandleSplit DEF HandleOf
  <2> HIDE DEF s, h, c
  <2>3. /\ h \in Str /\ Len(h) = 1 + n /\ h[1] = c[1]
        /\ \A i \in 1 .. n : h[1 + i] = s[i]
    <3>1. /\ c \o s \in Str /\ Len(c \o s) = Len(c) + Len(s)
          /\ \A i \in 1 .. Len(c) : (c \o s)[i] = c[i]
          /\ \A i \in 1 .. Len(s) : (c \o s)[Len(c) + i] = s[i]
      BY <1>0, <2>1, StrConcat
    <3>2. Len(c) = 1 /\ 1 \in 1 .. Len(c)
      BY <1>0
    <3> QED BY ONLY <3>1, <3>2, <2>2
  <2>4. h[2] = Dot
    <3>1. h[1 + 1] = s[1]
      BY <2>1, <2>3
    <3> QED BY <3>1, <2>1
  <2>5. FirstDot(h) = 2
    <3>1. 2 \in 1 .. Len(h) /\ h[2] = Dot /\ \A j \in 1 .. 2 - 1 : h[j] # Dot
      BY <1>0, <2>1, <2>3, <2>4
    <3>2. ASSUME NEW i \in 1 .. Len(h), h[i] = Dot, \A j \in 1 .. i - 1 : h[j] # Dot PROVE i = 2
      <4>1. i # 1
        BY <3>2, <1>0, <2>3
      <4>2. ~(2 \in 1 .. i - 1)
        BY <3>2, <2>4
      <4> QED BY <4>1, <4>2, <2>1, <2>3
    <3> QED BY <3>1, <3>2 DEF FirstDot
  <2>6. ExtractHandle(h) = [id  |-> SubSeq(h, 1, 1), sub |-> SubSeq(h, 3, Len(h))]
    <3>1. ~ \A i \in 1 .. Len(h) : h[i] # Dot
      BY <2>1, <2>3, <2>4
    <3>2. ExtractHandle(h) = [id  |-> SubSeq(h, 1, FirstDot(h) - 1),
                              sub |-> SubSeq(h, FirstDot(h) + 1, Len(h))]
      BY <3>1 DEF ExtractHandle
    <3>3. FirstDot(h) - 1 = 1 /\ FirstDot(h) + 1 = 3
      BY <2>5
    <3> QED BY <3>2, <3>3
  <2>7. SubSeq(h, 1, 1) = c
    <3>1. /\ SubSeq(h, 1, 1) \in Str /\ Len(SubSeq(h, 1, 1)) = 1
          /\ SubSeq(h, 1, 1)[1] = h[1]
      BY <2>1, <2>3, StrSub
    <3>2. \A i \in 1 .. 1 : SubSeq(h, 1, 1)[i] = c[i]
      BY <2>3, <3>1
    <3> QED BY ONLY <3>1, <3>2, <1>0, StrEqual
  <2>8. SubSeq(h, 3, Len(h)) = Tail(s)
    <3> DEFINE t == SubSeq(h, 3, Len(h))
    <3>1. /\ t \in Str /\ Len(t) = n - 1
          /\ \A i \in 1 .. Len(h) - 3 + 1 : t[i] = h[3 + i - 1]
      BY <2>1, <2>3, StrSub
    <3>2. /\ Tail(s) \in Str /\ Len(Tail(s)) = n - 1
          /\ \A i \in 1 .. n - 1 : Tail(s)[i] = s[i + 1]
      BY <2>1, StrTail
    <3> HIDE DEF t, n
    <3>3. ASSUME NEW i \in 1 .. n - 1 PROVE t[i] = Tail(s)[i]
      <4>1. i \in 1 .. Len(h) - 3 + 1 /\ 3 + i - 1 = 1 + (i + 1) /\ i + 1 \in 1 .. n
        BY <2>1, <2>3
      <4>2. t[i] = h[1 + (i + 1)]
        BY <3>1, <4>1
      <4>3. h[1 + (i + 1)] = s[i + 1]
        BY <2>3, <4>1
      <4>4. Tail(s)[i] = s[i + 1]
        BY <3>2
      <4> QED BY <4>2, <4>3, <4>4
    <3>4. t = Tail(s)
      BY ONLY <3>1, <3>2, <3>3, StrEqual
    <3> QED BY <3>4 DEF t
  <2> QED BY <2>1, <2>6, <2>7, <2>8 DEF h, c
<1> QED BY <1>1, <1>2

\* ADLB is to see the subscripts of the handle and the one beside it, without
\* the dot in front and with the terminator behind.
LEMMA MembersAre ==
  ASSUME NEW path \in Paths \cup BlobPaths
  PROVE  /\ MemberOf(path, <<>>)
            = IF path.subs = <<>> THEN <<>> ELSE SubsText(path) \o <<Nul>>
         /\ \A sub \in Str :
              MemberOf(path, <<sub>>)
              = IF path.subs = <<>> THEN sub \o <<Nul>>
                ELSE SubsText(path) \o (<<Dot>> \o (sub \o <<Nul>>))
<1> DEFINE s == SubscriptHandle(<<>>, path.subs)
<1>0. path.subs \in Seq(Str) /\ <<Nul>> \in Str /\ <<Dot>> \in Str /\ <<>> \in Str
  BY PathParts, DotNul, StrOne, StrEmpty
<1>1. MemberOf(path, <<>>) = IF path.subs = <<>> THEN <<>> ELSE SubsText(path) \o <<Nul>>
  <2>1. path.subs \o <<>> = path.subs
    BY <1>0, ConcatEmptySeq
  <2> QED BY <2>1 DEF MemberOf, SubsText
<1>2. ASSUME NEW sub \in Str
      PROVE  MemberOf(path, <<sub>>)
             = IF path.subs = <<>> THEN sub \o <<Nul>>
               ELSE SubsText(path) \o (<<Dot>> \o (sub \o <<Nul>>))
  <2>1. path.subs \o <<sub>> = Append(path.subs, sub) /\ Append(path.subs, sub) # <<>>
    BY <1>0
  <2>2. SubscriptHandle(<<>>, path.subs \o <<sub>>) = (s \o <<Dot>>) \o sub
    BY <1>0, <2>1, HandleAppend
  <2>3. MemberOf(path, <<sub>>) = Tail((s \o <<Dot>>) \o sub) \o <<Nul>>
    BY <2>1, <2>2 DEF MemberOf
  <2>4. s \in Str
    BY <1>0, HandleType
  <2>5. <<Dot>> \o sub \in Str /\ (s \o <<Dot>>) \o sub = s \o (<<Dot>> \o sub)
    BY <1>0, <2>4, StrConcat, StrAssoc
  <2>6. CASE path.subs = <<>>
    <3>1. s = <<>>
      BY <1>0, <2>6, HandleEmpty
    <3>2. (s \o <<Dot>>) \o sub = <<Dot>> \o sub
      BY <1>0, <3>1, StrEmpty
    <3>3. Tail(<<Dot>> \o sub) = sub
      <4>1. <<Dot>> \o sub \in Str /\ Len(<<Dot>> \o sub) = 1 + Len(sub)
            /\ \A i \in 1 .. Len(sub) : (<<Dot>> \o sub)[1 + i] = sub[i]
        BY <1>0, DotNul, StrOne, StrConcat
      <4> DEFINE t == <<Dot>> \o sub
                 n == Len(sub)
      <4>2. t \in Str /\ Len(t) = 1 + n /\ \A i \in 1 .. n : t[1 + i] = sub[i]
        BY <4>1
      <4>3. n \in Nat
        BY StrLen
      <4> HIDE DEF t
      <4>4. Tail(t) \in Str /\ Len(Tail(t)) = Len(t) - 1
            /\ \A i \in 1 .. Len(t) - 1 : Tail(t)[i] = t[i + 1]
        BY <4>2, <4>3, StrTail
      <4>5. Len(Tail(t)) = Len(sub)
        BY <4>2, <4>3, <4>4
      <4>6. \A i \in 1 .. Len(sub) : Tail(t)[i] = sub[i]
        BY <4>2, <4>3, <4>4
      <4>7. Tail(t) = sub
        BY ONLY <4>4, <4>5, <4>6, <1>2, StrEqual, StrLen
      <4> QED BY <4>7 DEF t
    <3> QED BY <2>3, <2>6, <3>2, <3>3
  <2>7. CASE path.subs # <<>>
    <3>1. Len(s) >= 1 /\ SubsText(path) = Tail(s) /\ SubsText(path) \in Str
      BY <1>0, <2>7, HandleDot, SubsTextParts DEF SubsText
    <3>2. Tail(s \o (<<Dot>> \o sub)) = SubsText(path) \o (<<Dot>> \o sub)
      BY <2>4, <2>5, <3>1, TailConcat
    <3>3. (SubsText(path) \o (<<Dot>> \o sub)) \o <<Nul>>
          = SubsText(path) \o ((<<Dot>> \o sub) \o <<Nul>>)
      BY <1>0, <2>5, <3>1, StrAssoc
    <3>4. (<<Dot>> \o sub) \o <<Nul>> = <<Dot>> \o (sub \o <<Nul>>)
      BY <1>0, StrAssoc
    <3> QED BY <2>3, <2>5, <2>7, <3>2, <3>3, <3>4
  <2> QED BY <2>6, <2>7
<1> QED BY <1>1, <1>2

\* A string and its terminator.
LEMMA Terminated ==
  ASSUME NEW s \in Str
  PROVE  /\ s \o <<Nul>> \in Str /\ Len(s \o <<Nul>>) = Len(s) + 1
         /\ (s \o <<Nul>>)[Len(s) + 1] = Nul
         /\ \A i \in 1 .. Len(s) : (s \o <<Nul>>)[i] = s[i]
<1>1. <<Nul>> \in Str /\ Len(<<Nul>>) = 1 /\ <<Nul>>[1] = Nul /\ 1 \in 1 .. 1
  BY DotNul, StrOne
<1>2. (s \o <<Nul>>)[Len(s) + 1] = <<Nul>>[1]
  BY <1>1, StrConcat
<1> QED BY <1>1, <1>2, StrConcat

-----------------------------------------------------------------------------
(* Memory. *)

LEMMA Places == Null \notin Blocks /\ Object \notin Blocks /\ Scratch \notin Blocks
                /\ Null # Scratch /\ Null # Object /\ Object # Scratch
                /\ {Null, Object, Scratch} \cup Blocks \subseteq Int
BY DEF Null, Object, Scratch, Blocks

LEMMA MemParts ==
  ASSUME NEW m \in Mems
  PROVE  /\ m = [heap |-> m.heap, scratch |-> m.scratch, fault |-> m.fault]
         /\ m.heap \in [DOMAIN m.heap -> Str] /\ DOMAIN m.heap \subseteq Blocks
         /\ IsFiniteSet(DOMAIN m.heap) /\ m.scratch \in Str /\ m.fault \in BOOLEAN
<1>1. PICK D \in SUBSET Blocks : m.heap \in [D -> Str]
  BY DEF Mems
<1>2. DOMAIN m.heap = D
  BY <1>1
<1> QED BY <1>1, <1>2 DEF Mems

LEMMA MakeMem ==
  ASSUME NEW D \in SUBSET Blocks, IsFiniteSet(D), NEW h \in [D -> Str], NEW s \in Str,
         NEW f \in BOOLEAN
  PROVE  [heap |-> h, scratch |-> s, fault |-> f] \in Mems
<1>1. DOMAIN h = D
  OBVIOUS
<1>2. h \in UNION {[E -> Str] : E \in SUBSET Blocks}
  OBVIOUS
<1> QED BY <1>1, <1>2 DEF Mems

\* malloc gives a block that is not live.
LEMMA FreshBlock ==
  ASSUME NEW m \in Mems PROVE Fresh(m) \in Blocks /\ Fresh(m) \notin DOMAIN m.heap
BY MemParts, FreshIsFree DEF Blocks

LEMMA ContentsType ==
  ASSUME NEW m \in Mems, NEW loc PROVE ContentsAt(m, loc) \in Str
BY MemParts, StrEmpty DEF ContentsAt

LEMMA SetIs ==
  ASSUME NEW m \in Mems, NEW loc \in Blocks \cup {Scratch}, NEW text \in Str
  PROVE  LET w == SetContents(m, loc, text)
         IN  /\ w \in Mems /\ w.fault = m.fault /\ ContentsAt(w, loc) = text
             /\ DOMAIN w.heap = DOMAIN m.heap \cup ({loc} \cap Blocks)
             /\ \A b \in DOMAIN m.heap \ {loc} : w.heap[b] = m.heap[b]
             /\ loc # Scratch => w.scratch = m.scratch /\ w.heap[loc] = text
<1>0. /\ m = [heap |-> m.heap, scratch |-> m.scratch, fault |-> m.fault]
      /\ m.heap \in [DOMAIN m.heap -> Str] /\ DOMAIN m.heap \subseteq Blocks
      /\ IsFiniteSet(DOMAIN m.heap) /\ m.scratch \in Str /\ m.fault \in BOOLEAN
  BY MemParts
<1>1. CASE loc = Scratch
  <2>1. SetContents(m, loc, text) = [heap |-> m.heap, scratch |-> text, fault |-> m.fault]
    BY <1>0, <1>1 DEF SetContents
  <2>2. [heap |-> m.heap, scratch |-> text, fault |-> m.fault] \in Mems
    BY <1>0, MakeMem
  <2>3. {loc} \cap Blocks = {}
    BY <1>1, Places
  <2> QED BY <1>1, <2>1, <2>2, <2>3 DEF ContentsAt
<1>2. CASE loc # Scratch
  <2> DEFINE D == DOMAIN m.heap \cup {loc}
             h == [b \in D |-> IF b = loc THEN text ELSE m.heap[b]]
  <2>1. SetContents(m, loc, text) = [heap |-> h, scratch |-> m.scratch, fault |-> m.fault]
    BY <1>0, <1>2 DEF SetContents
  <2>2. D \in SUBSET Blocks /\ IsFiniteSet(D) /\ {loc} \cap Blocks = {loc}
    BY <1>0, <1>2, FS_AddElement
  <2>3. h \in [D -> Str] /\ DOMAIN h = D /\ h[loc] = text
        /\ \A b \in DOMAIN m.heap \ {loc} : h[b] = m.heap[b]
    BY <1>0
  <2> HIDE DEF h
  <2>4. [heap |-> h, scratch |-> m.scratch, fault |-> m.fault] \in Mems
    BY <1>0, <2>2, <2>3, MakeMem
  <2> QED BY <1>2, <2>1, <2>2, <2>3, <2>4 DEF ContentsAt
<1> QED BY <1>1, <1>2

LEMMA FreeIs ==
  ASSUME NEW m \in Mems, NEW b \in DOMAIN m.heap
  PROVE  LET w == Free(m, b)
         IN  /\ w \in Mems /\ w.fault = m.fault /\ w.scratch = m.scratch
             /\ DOMAIN w.heap = DOMAIN m.heap \ {b}
             /\ \A c \in DOMAIN m.heap \ {b} : w.heap[c] = m.heap[c]
<1>0. /\ m = [heap |-> m.heap, scratch |-> m.scratch, fault |-> m.fault]
      /\ m.heap \in [DOMAIN m.heap -> Str] /\ DOMAIN m.heap \subseteq Blocks
      /\ IsFiniteSet(DOMAIN m.heap) /\ m.scratch \in Str /\ m.fault \in BOOLEAN
  BY MemParts
<1> DEFINE D == DOMAIN m.heap \ {b}
           h == [c \in D |-> m.heap[c]]
<1>1. Free(m, b) = [heap |-> h, scratch |-> m.scratch, fault |-> m.fault]
  BY <1>0 DEF Free
<1>2. D \in SUBSET Blocks /\ IsFiniteSet(D)
  BY <1>0, FS_RemoveElement
<1>3. h \in [D -> Str] /\ DOMAIN h = D /\ \A c \in D : h[c] = m.heap[c]
  BY <1>0
<1> HIDE DEF h
<1>4. [heap |-> h, scratch |-> m.scratch, fault |-> m.fault] \in Mems
  BY <1>0, <1>2, <1>3, MakeMem
<1> QED BY <1>1, <1>3, <1>4

\* free of the blocks of f, no two the same and all live.
LEMMA FreeAllIs ==
  ASSUME NEW m \in Mems, NEW f,
         \A i \in DOMAIN f : f[i] \in DOMAIN m.heap,
         \A i, j \in DOMAIN f : f[i] = f[j] => i = j
  PROVE  LET w == FreeAll(m, f)
             D == DOMAIN m.heap \ {f[i] : i \in DOMAIN f}
         IN  /\ w \in Mems /\ w.fault = m.fault /\ w.scratch = m.scratch
             /\ DOMAIN w.heap = D /\ \A c \in D : w.heap[c] = m.heap[c]
<1>0. /\ m = [heap |-> m.heap, scratch |-> m.scratch, fault |-> m.fault]
      /\ m.heap \in [DOMAIN m.heap -> Str] /\ DOMAIN m.heap \subseteq Blocks
      /\ IsFiniteSet(DOMAIN m.heap) /\ m.scratch \in Str /\ m.fault \in BOOLEAN
  BY MemParts
<1> DEFINE D == DOMAIN m.heap \ {f[i] : i \in DOMAIN f}
           h == [c \in D |-> m.heap[c]]
           bad == \E i \in DOMAIN f : \/ f[i] \notin DOMAIN m.heap
                                      \/ \E j \in DOMAIN f \ {i} : f[j] = f[i]
           v == m.fault \/ bad
<1>1. FreeAll(m, f) = [heap |-> h, scratch |-> m.scratch, fault |-> v]
  <2>1. FreeAll(m, f) = [m EXCEPT !.heap = h, !.fault = v]
    BY ZenonT(30) DEF FreeAll
  <2> HIDE DEF h, v
  <2> QED BY <1>0, <2>1
<1>2. D \in SUBSET Blocks /\ IsFiniteSet(D)
  BY <1>0, FS_Subset
<1>3. h \in [D -> Str] /\ DOMAIN h = D /\ \A c \in D : h[c] = m.heap[c]
  BY <1>0
<1>4. ~bad
  OBVIOUS
<1>5. v = m.fault
  BY <1>0, <1>4
<1> HIDE DEF h, v
<1>6. [heap |-> h, scratch |-> m.scratch, fault |-> m.fault] \in Mems
  BY <1>0, <1>2, <1>3, MakeMem
<1> QED BY <1>1, <1>3, <1>5, <1>6

LEMMA OverwriteIs ==
  ASSUME NEW text \in Str, NEW at \in Nat \ {0}, NEW cells \in Str
  PROVE  /\ Overwrite(text, at, cells) \in Str
         /\ Len(Overwrite(text, at, cells)) = Len(text)
         /\ \A i \in 1 .. Len(text) :
              Overwrite(text, at, cells)[i]
              = IF i \in at .. at + Len(cells) - 1 THEN cells[i - at + 1] ELSE text[i]
<1>1. Len(text) \in Nat /\ Len(cells) \in Nat
  BY StrLen
<1>2. ASSUME NEW i \in 1 .. Len(text)
      PROVE  (IF i \in at .. at + Len(cells) - 1 THEN cells[i - at + 1] ELSE text[i]) \in Int
  <2>1. CASE i \in at .. at + Len(cells) - 1
    <3>1. i - at + 1 \in 1 .. Len(cells)
      BY <1>1, <2>1
    <3>2. cells[i - at + 1] \in Int
      BY <3>1, StrLen
    <3> QED BY <2>1, <3>2
  <2>2. CASE i \notin at .. at + Len(cells) - 1
    BY <2>2, StrLen
  <2> QED BY <2>1, <2>2
<1> QED BY <1>1, <1>2, IsASeq DEF Overwrite, Str

\* t is text with cells from position at on.
Overwritten(t, text, at, cells) ==
    /\ t \in Str /\ Len(t) = Len(text)
    /\ \A i \in 1 .. Len(text) :
         t[i] = IF i \in at .. at + Len(cells) - 1 THEN cells[i - at + 1] ELSE text[i]

LEMMA OverwriteWhere ==
  ASSUME NEW text \in Str, NEW at \in Nat \ {0}, NEW cells \in Str
  PROVE  Overwritten(Overwrite(text, at, cells), text, at, cells)
BY OverwriteIs DEF Overwritten

-----------------------------------------------------------------------------
(* Parsing. *)

\* What a parse that began with memory m has left: the live blocks are as they
\* were, and its buffer is at most one block more.
Ends(m, w, buf) ==
    /\ w \in Mems /\ w.fault = m.fault
    /\ buf \in {Null, Scratch} \cup (Blocks \ DOMAIN m.heap)
    /\ DOMAIN w.heap = DOMAIN m.heap \cup ({buf} \cap Blocks)
    /\ \A b \in DOMAIN m.heap : w.heap[b] = m.heap[b]

LEMMA EndsEmpty == ASSUME NEW m \in Mems PROVE Ends(m, m, Null)
BY Places DEF Ends

\* Writing to the buffer.
LEMMA EndsWrite ==
  ASSUME NEW m \in Mems, NEW w, NEW buf, Ends(m, w, buf), buf # Null, NEW text \in Str
  PROVE  LET v == SetContents(w, buf, text)
         IN  /\ Ends(m, v, buf) /\ ContentsAt(v, buf) = text
             /\ buf # Scratch => v.scratch = w.scratch
<1>1. w \in Mems /\ buf \in Blocks \cup {Scratch} /\ buf \notin DOMAIN m.heap
  BY Places, MemParts DEF Ends
<1> DEFINE v == SetContents(w, buf, text)
<1>2. /\ v \in Mems /\ v.fault = w.fault /\ ContentsAt(v, buf) = text
      /\ DOMAIN v.heap = DOMAIN w.heap \cup ({buf} \cap Blocks)
      /\ \A b \in DOMAIN w.heap \ {buf} : v.heap[b] = w.heap[b]
      /\ buf # Scratch => v.scratch = w.scratch
  BY <1>1, SetIs
<1> HIDE DEF v
<1>3. Ends(m, v, buf)
  BY <1>1, <1>2 DEF Ends
<1> QED BY <1>2, <1>3 DEF v

\* A block that none of the old ones is.
LEMMA Malloced ==
  ASSUME NEW w \in Mems, NEW text \in Str
  PROVE  LET b == Fresh(w)
             v == Malloc(w, text)
         IN  /\ b \in Blocks /\ b \notin DOMAIN w.heap
             /\ v \in Mems /\ v.fault = w.fault /\ v.scratch = w.scratch
             /\ DOMAIN v.heap = DOMAIN w.heap \cup {b} /\ v.heap[b] = text
             /\ \A c \in DOMAIN w.heap : v.heap[c] = w.heap[c]
<1> DEFINE b == Fresh(w)
           v == SetContents(w, b, text)
<1>1. b \in Blocks /\ b \notin DOMAIN w.heap
  BY FreshBlock
<1>2. Malloc(w, text) = v
  BY DEF Malloc
<1> HIDE DEF b
<1>3. /\ v \in Mems /\ v.fault = w.fault
      /\ DOMAIN v.heap = DOMAIN w.heap \cup ({b} \cap Blocks)
      /\ \A c \in DOMAIN w.heap \ {b} : v.heap[c] = w.heap[c]
      /\ b # Scratch => v.scratch = w.scratch /\ v.heap[b] = text
  BY <1>1, SetIs
<1>4. b # Scratch /\ {b} \cap Blocks = {b}
  BY <1>1, Places
<1> HIDE DEF v
<1> QED BY <1>1, <1>2, <1>3, <1>4 DEF b

\* What is in buf stays when it is still there.
Grown(w, v, buf) ==
    buf \in DOMAIN v.heap =>
        /\ buf \in DOMAIN w.heap => /\ Len(w.heap[buf]) <= Len(v.heap[buf])
                                  /\ \A i \in 1 .. Len(w.heap[buf]) : v.heap[buf][i] = w.heap[buf][i]

\* A block of its own may be reallocated elsewhere.
LEMMA MovedIs ==
  ASSUME NEW m \in Mems, NEW w, NEW buf \in Blocks, Ends(m, w, buf), NEW text \in Str
  PROVE  LET b == Fresh(w)
             v == Free(Malloc(w, text), buf)
         IN  /\ Ends(m, v, b) /\ b # Null /\ b # Scratch /\ v.scratch = w.scratch
             /\ ContentsAt(v, b) = text /\ buf \notin DOMAIN v.heap
<1> DEFINE b == Fresh(w)
           u == Malloc(w, text)
           v == Free(u, buf)
<1>1. w \in Mems /\ w.fault = m.fault /\ buf \in DOMAIN w.heap /\ buf \notin DOMAIN m.heap
      /\ DOMAIN w.heap = DOMAIN m.heap \cup {buf} /\ \A c \in DOMAIN m.heap : w.heap[c] = m.heap[c]
  BY Places DEF Ends
<1>2. /\ b \in Blocks /\ b \notin DOMAIN w.heap
      /\ u \in Mems /\ u.fault = w.fault /\ u.scratch = w.scratch
      /\ DOMAIN u.heap = DOMAIN w.heap \cup {b} /\ u.heap[b] = text
      /\ \A c \in DOMAIN w.heap : u.heap[c] = w.heap[c]
  BY <1>1, Malloced
<1> HIDE DEF b, u
<1>3. /\ v \in Mems /\ v.fault = u.fault /\ v.scratch = u.scratch
      /\ DOMAIN v.heap = DOMAIN u.heap \ {buf}
      /\ \A c \in DOMAIN u.heap \ {buf} : v.heap[c] = u.heap[c]
  BY <1>1, <1>2, FreeIs
<1> HIDE DEF v
<1>4. b # buf /\ {b} \cap Blocks = {b} /\ b # Null /\ b # Scratch
  BY <1>1, <1>2, Places
<1>5. DOMAIN v.heap = DOMAIN m.heap \cup {b} /\ b \notin DOMAIN m.heap
  BY <1>1, <1>2, <1>3, <1>4
<1>6. \A c \in DOMAIN m.heap : v.heap[c] = m.heap[c]
  BY <1>1, <1>2, <1>3
<1>7. Ends(m, v, b)
  BY <1>1, <1>2, <1>3, <1>4, <1>5, <1>6 DEF Ends
<1>8. ContentsAt(v, b) = text
  BY <1>2, <1>3, <1>4 DEF ContentsAt
<1> QED BY <1>1, <1>2, <1>3, <1>4, <1>7, <1>8 DEF b, u, v

\* A resized buffer has the room that was asked for.
LEMMA ResizeIs ==
  ASSUME NEW m \in Mems, NEW w, NEW buf, Ends(m, w, buf), NEW need \in Nat \ {0},
         NEW moves \in BOOLEAN
  PROVE  LET r == ResizeBuf(w, buf, need, moves)
         IN  /\ Ends(m, r.mem, r.buf) /\ r.buf # Null /\ r.mem.scratch = w.scratch
             /\ ContentsAt(r.mem, r.buf) \in Str /\ Len(ContentsAt(r.mem, r.buf)) >= need
             /\ buf # Scratch => r.buf # Scratch
             /\ Grown(w, r.mem, buf)
<1> DEFINE was  == IF buf = Null THEN <<>> ELSE ContentsAt(w, buf)
           room == Overwrite([i \in 1 .. need |-> Junk], 1, was)
           r    == ResizeBuf(w, buf, need, moves)
<1>1. /\ w \in Mems /\ buf \in {Null, Scratch} \cup Blocks
      /\ (buf \notin {Null, Scratch} => buf \in DOMAIN w.heap)
      /\ (buf \in {Null, Scratch} => {buf} \cap Blocks = {} /\ buf \notin DOMAIN w.heap)
  BY MemParts, Places DEF Ends
<1>2. r = IF Len(was) >= need THEN [mem |-> w, buf |-> buf]
          ELSE IF buf \in {Null, Scratch} THEN [mem |-> Malloc(w, room), buf |-> Fresh(w)]
          ELSE IF moves THEN [mem |-> Free(Malloc(w, room), buf), buf |-> Fresh(w)]
          ELSE [mem |-> SetContents(w, buf, room), buf |-> buf]
  BY DEF ResizeBuf
<1>3. was \in Str /\ Len(was) \in Nat /\ (buf = Null => Len(was) = 0)
  BY <1>1, ContentsType, StrEmpty, StrLen
<1>4. room \in Str /\ Len(room) = need /\ \A i \in 1 .. Len(was) : i <= need => room[i] = was[i]
  <2> DEFINE t == [i \in 1 .. need |-> Junk]
  <2>1. t \in Str /\ Len(t) = need
    BY DotNul, IsASeq DEF Str
  <2> HIDE DEF t, was
  <2>2. /\ Overwrite(t, 1, was) \in Str /\ Len(Overwrite(t, 1, was)) = need
        /\ \A i \in 1 .. need :
             Overwrite(t, 1, was)[i] = IF i \in 1 .. 1 + Len(was) - 1 THEN was[i - 1 + 1] ELSE t[i]
    BY <1>3, <2>1, OverwriteIs
  <2>3. \A i \in 1 .. Len(was) : i <= need => Overwrite(t, 1, was)[i] = was[i]
    BY <1>3, <2>2
  <2> QED BY <2>2, <2>3 DEF t
<1> HIDE DEF room, r
<1>5. CASE Len(was) >= need
  <2>1. r.mem = w /\ r.buf = buf /\ buf # Null
    BY <1>2, <1>3, <1>5
  <2>2. was = ContentsAt(w, buf)
    BY <2>1
  <2>3. Grown(w, r.mem, buf)
    <3>1. buf \in DOMAIN w.heap => Len(w.heap[buf]) \in Nat
      BY <1>1, MemParts, StrLen
    <3> QED BY <2>1, <3>1 DEF Grown
  <2> HIDE DEF was
  <2> QED BY <1>3, <1>5, <2>1, <2>2, <2>3 DEF r
<1>6. CASE ~(Len(was) >= need) /\ buf \in {Null, Scratch}
  <2> DEFINE b == Fresh(w)
  <2> HIDE DEF was
  <2>1. r.mem = Malloc(w, room) /\ r.buf = b
    BY <1>2, <1>6
  <2>2. /\ b \in Blocks /\ b \notin DOMAIN w.heap
        /\ r.mem \in Mems /\ r.mem.fault = w.fault /\ r.mem.scratch = w.scratch
        /\ DOMAIN r.mem.heap = DOMAIN w.heap \cup {b} /\ r.mem.heap[b] = room
        /\ \A c \in DOMAIN w.heap : r.mem.heap[c] = w.heap[c]
    BY <1>1, <1>4, <2>1, Malloced
  <2> HIDE DEF b
  <2>3. b # Scratch /\ b # Null /\ {b} \cap Blocks = {b} /\ DOMAIN w.heap = DOMAIN m.heap
    BY <1>1, <1>6, <2>2, Places DEF Ends
  <2>4. Ends(m, r.mem, b)
    BY <2>2, <2>3 DEF Ends
  <2>5. ContentsAt(r.mem, b) = room
    BY <2>2, <2>3 DEF ContentsAt
  <2>6. Grown(w, r.mem, buf)
    BY <1>1, <1>6 DEF Grown
  <2> QED BY <1>4, <2>1, <2>2, <2>3, <2>4, <2>5, <2>6 DEF r
<1>7. CASE ~(Len(was) >= need) /\ buf \notin {Null, Scratch} /\ moves
  <2> DEFINE b == Fresh(w)
  <2> HIDE DEF was
  <2>1. r.mem = Free(Malloc(w, room), buf) /\ r.buf = b
    BY <1>2, <1>7
  <2>2. buf \in Blocks
    BY <1>1, <1>7
  <2>3. /\ Ends(m, r.mem, b) /\ b # Null /\ b # Scratch /\ r.mem.scratch = w.scratch
        /\ ContentsAt(r.mem, b) = room /\ buf \notin DOMAIN r.mem.heap
    BY <1>4, <2>1, <2>2, MovedIs
  <2>4. Grown(w, r.mem, buf)
    BY <2>3 DEF Grown
  <2> HIDE DEF b
  <2> QED BY <1>4, <2>1, <2>3, <2>4 DEF r
<1>8. CASE ~(Len(was) >= need) /\ buf \notin {Null, Scratch} /\ ~moves
  <2>0. was = w.heap[buf]
    BY <1>1, <1>8 DEF ContentsAt
  <2> HIDE DEF was
  <2>1. r.mem = SetContents(w, buf, room) /\ r.buf = buf /\ buf # Null /\ buf # Scratch
    BY <1>2, <1>8
  <2>2. Ends(m, r.mem, buf) /\ ContentsAt(r.mem, buf) = room /\ r.mem.scratch = w.scratch
    BY <1>4, <2>1, EndsWrite
  <2>3. r.mem.heap[buf] = room
    <3>1. buf \in DOMAIN r.mem.heap
      BY <1>1, <1>8, <2>2 DEF Ends
    <3> QED BY <2>1, <2>2, <3>1 DEF ContentsAt
  <2>4. Grown(w, r.mem, buf)
    BY <1>3, <1>4, <1>8, <2>0, <2>3 DEF Grown
  <2> QED BY <1>4, <2>1, <2>2, <2>4 DEF r
<1> QED BY <1>5, <1>6, <1>7, <1>8

\* r is what resizing the buffer of a parse gives.
Room(m, w, buf, need, r) ==
    /\ Ends(m, r.mem, r.buf) /\ r.buf # Null /\ r.mem.scratch = w.scratch
    /\ ContentsAt(r.mem, r.buf) \in Str /\ Len(ContentsAt(r.mem, r.buf)) >= need
    /\ buf # Scratch => r.buf # Scratch
    /\ Grown(w, r.mem, buf)

LEMMA RoomMade ==
  ASSUME NEW m \in Mems, NEW w, NEW buf, Ends(m, w, buf), NEW need \in Nat \ {0},
         NEW moves \in BOOLEAN
  PROVE  Room(m, w, buf, need, ResizeBuf(w, buf, need, moves))
BY ResizeIs DEF Room

\* A parse and the subscript that ADLB reads through it.
Parses == [mem : Mems, id : Str, val : [at : Int, len : Nat, text : Str], buf : Int,
           stale : BOOLEAN]

Reads(p, text) ==
    /\ p.val.at \in {Null, Object, Scratch} \cup DOMAIN p.mem.heap
    /\ text \in Str /\ p.val.len = Len(text) /\ SubText(p.mem, p.val) = text
    /\ p.val.at # Object => p.val.len <= Len(ContentsAt(p.mem, p.val.at))

\* Later allocations leave what a parse reads alone.
LEMMA ReadsKept ==
  ASSUME NEW p \in Parses, NEW text, Reads(p, text), NEW w \in Mems,
         DOMAIN p.mem.heap \subseteq DOMAIN w.heap,
         \A b \in DOMAIN p.mem.heap : w.heap[b] = p.mem.heap[b],
         w.scratch = p.mem.scratch
  PROVE  SubText(w, p.val) = text
<1>1. p.mem \in Mems
  BY DEF Parses
<1>2. Null \notin DOMAIN w.heap /\ Null \notin DOMAIN p.mem.heap
  BY <1>1, MemParts, Places
<1>3. p.val.at # Object => ContentsAt(w, p.val.at) = ContentsAt(p.mem, p.val.at)
  BY <1>2, Places DEF Reads, ContentsAt
<1>4. Dead(w, p.val.at) <=> Dead(p.mem, p.val.at)
  BY <1>2, Places DEF Reads, Dead
<1> QED BY <1>3, <1>4 DEF Reads, SubText

\* The first cells of what was written.
LEMMA Prefix ==
  ASSUME NEW t \in Str, NEW v \in Str, Len(t) >= Len(v), \A i \in 1 .. Len(v) : t[i] = v[i]
  PROVE  SubSeq(t, 1, Len(v)) = v
<1>1. Len(v) \in Nat /\ Len(t) \in Nat
  BY StrLen
<1> DEFINE n == Len(v)
           u == SubSeq(t, 1, n)
<1>2. u \in Str /\ Len(u) = (IF 1 <= n THEN n - 1 + 1 ELSE 0)
      /\ \A i \in 1 .. n - 1 + 1 : u[i] = t[1 + i - 1]
  BY <1>1, StrSub
<1> HIDE DEF u
<1>3. Len(u) = Len(v)
  BY <1>1, <1>2
<1>4. \A i \in 1 .. Len(u) : u[i] = v[i]
  BY <1>1, <1>2, <1>3
<1>5. u = v
  BY ONLY <1>2, <1>3, <1>4, StrEqual
<1> QED BY <1>5 DEF u

\* A string copied over others, with its terminator.
LEMMA CopyText ==
  ASSUME NEW base \in Str, NEW str \in Str, Len(base) >= Len(str) + 1
  PROVE  LET t == Overwrite(Overwrite(base, 1, str), Len(str) + 1, <<Nul>>)
         IN  t \in Str /\ SubSeq(t, 1, Len(str) + 1) = str \o <<Nul>>
<1> DEFINE n == Len(str)
           u == Overwrite(base, 1, str)
           t == Overwrite(u, n + 1, <<Nul>>)
           v == str \o <<Nul>>
<1>0. n \in Nat /\ Len(base) \in Nat /\ <<Nul>> \in Str /\ Len(<<Nul>>) = 1 /\ <<Nul>>[1] = Nul
  BY StrLen, DotNul, StrOne
<1>1. /\ u \in Str /\ Len(u) = Len(base)
      /\ \A i \in 1 .. Len(base) : u[i] = IF i \in 1 .. 1 + n - 1 THEN str[i - 1 + 1] ELSE base[i]
  BY OverwriteIs
<1> HIDE DEF u
<1>2. /\ t \in Str /\ Len(t) = Len(base)
      /\ \A i \in 1 .. Len(u) :
           t[i] = IF i \in n + 1 .. n + 1 + Len(<<Nul>>) - 1 THEN <<Nul>>[i - (n + 1) + 1] ELSE u[i]
  <2> DEFINE at == n + 1
  <2>1. at \in Nat \ {0} /\ t = Overwrite(u, at, <<Nul>>)
    BY <1>0
  <2> HIDE DEF t, at
  <2>2. Overwritten(t, u, at, <<Nul>>)
    BY ONLY <1>0, <1>1, <2>1, OverwriteWhere
  <2> QED BY <1>1, <2>2 DEF Overwritten, at
<1>3. v \in Str /\ Len(v) = n + 1 /\ v[n + 1] = Nul /\ \A i \in 1 .. n : v[i] = str[i]
  BY Terminated
<1> HIDE DEF t, v, n
<1>4. ASSUME NEW i \in 1 .. n + 1 PROVE t[i] = v[i]
  <2>1. i \in 1 .. Len(base) /\ i \in 1 .. Len(u)
    BY <1>0, <1>1 DEF n
  <2>2. CASE i = n + 1
    <3>1. t[i] = <<Nul>>[i - (n + 1) + 1]
      BY <1>0, <1>2, <2>1, <2>2
    <3>2. i - (n + 1) + 1 = 1
      BY <1>0, <2>2
    <3> QED BY <1>0, <1>3, <2>2, <3>1, <3>2
  <2>3. CASE i # n + 1
    <3>1. i \in 1 .. n /\ i - 1 + 1 = i
      BY <1>0, <2>3
    <3>2. t[i] = u[i]
      BY <1>0, <1>2, <2>1, <3>1
    <3>3. u[i] = str[i]
      BY <1>0, <1>1, <2>1, <3>1
    <3> QED BY <1>3, <3>1, <3>2, <3>3
  <2> QED BY <2>2, <2>3
<1>5. SubSeq(t, 1, Len(v)) = v
  BY <1>0, <1>2, <1>3, <1>4, Prefix DEF n
<1> QED BY <1>2, <1>3, <1>5 DEF u, t, v, n

\* A subscript with a dot in front written over the terminator of another.
LEMMA AppendText ==
  ASSUME NEW base \in Str, NEW text \in Str, NEW sub \in Str,
         Len(base) >= Len(text) + 1 + Len(sub)
  PROVE  LET u == Overwrite(Overwrite(base, 1, text \o <<Nul>>), Len(text) + 1, <<Dot>>)
             t == Overwrite(u, Len(text) + 1 + 1, sub)
             v == text \o (<<Dot>> \o sub)
         IN  /\ t \in Str /\ v \in Str /\ Len(v) = Len(text) + 1 + Len(sub)
             /\ SubSeq(t, 1, Len(v)) = v
<1> DEFINE n == Len(text)
           k == Len(sub)
           a == Overwrite(base, 1, text \o <<Nul>>)
           u == Overwrite(a, n + 1, <<Dot>>)
           t == Overwrite(u, n + 1 + 1, sub)
           d == <<Dot>> \o sub
           v == text \o d
           z == text \o <<Nul>>
<1>0. /\ n \in Nat /\ k \in Nat /\ Len(base) \in Nat
      /\ <<Dot>> \in Str /\ Len(<<Dot>>) = 1 /\ <<Dot>>[1] = Dot
  BY StrLen, DotNul, StrOne
<1>1. z \in Str /\ Len(z) = n + 1 /\ \A i \in 1 .. n : z[i] = text[i]
  BY Terminated
<1> HIDE DEF z
<1>2. /\ a \in Str /\ Len(a) = Len(base)
      /\ \A i \in 1 .. Len(base) : a[i] = IF i \in 1 .. 1 + Len(z) - 1 THEN z[i - 1 + 1] ELSE base[i]
  <2>1. a = Overwrite(base, 1, z) /\ 1 \in Nat \ {0}
    BY DEF z
  <2> HIDE DEF a
  <2>2. Overwritten(a, base, 1, z)
    BY ONLY <1>1, <2>1, OverwriteWhere
  <2> QED BY <2>2 DEF Overwritten
<1> HIDE DEF a
<1>3. /\ u \in Str /\ Len(u) = Len(base)
      /\ \A i \in 1 .. Len(a) :
           u[i] = IF i \in n + 1 .. n + 1 + Len(<<Dot>>) - 1 THEN <<Dot>>[i - (n + 1) + 1] ELSE a[i]
  <2> DEFINE at == n + 1
  <2>1. at \in Nat \ {0} /\ u = Overwrite(a, at, <<Dot>>)
    BY <1>0
  <2> HIDE DEF u, at
  <2>2. Overwritten(u, a, at, <<Dot>>)
    BY ONLY <1>0, <1>2, <2>1, OverwriteWhere
  <2> QED BY <1>2, <2>2 DEF Overwritten, at
<1> HIDE DEF u
<1>4. /\ t \in Str /\ Len(t) = Len(base)
      /\ \A i \in 1 .. Len(u) :
           t[i] = IF i \in n + 1 + 1 .. n + 1 + 1 + k - 1 THEN sub[i - (n + 1 + 1) + 1] ELSE u[i]
  BY <1>0, <1>3, OverwriteIs
<1>5. /\ d \in Str /\ Len(d) = 1 + k /\ d[1] = Dot /\ \A i \in 1 .. k : d[1 + i] = sub[i]
  BY <1>0, StrConcat
<1> HIDE DEF d
<1>6. /\ v \in Str /\ Len(v) = n + 1 + k /\ \A i \in 1 .. n : v[i] = text[i]
      /\ \A i \in 1 .. 1 + k : v[n + i] = d[i]
  <2> HIDE DEF v, n, k
  <2>1. n = Len(text) /\ k = Len(sub) /\ v = text \o d
    BY DEF v, n, k
  <2>2. v \in Str /\ Len(v) = Len(text) + Len(d) /\ (\A i \in 1 .. Len(text) : v[i] = text[i])
        /\ \A i \in 1 .. Len(d) : v[Len(text) + i] = d[i]
    BY <1>5, <2>1, StrConcat
  <2>3. Len(v) = n + 1 + k
    <3> DEFINE e == Len(d)
               w == Len(v)
    <3>1. w = n + e /\ e = 1 + k /\ n \in Nat /\ k \in Nat
      BY <1>0, <1>5, <2>1, <2>2
    <3> HIDE DEF e, w
    <3>2. w = n + 1 + k
      BY ONLY <3>1
    <3> QED BY <3>2 DEF w
  <2>4. ASSUME NEW i \in 1 .. 1 + k PROVE v[n + i] = d[i]
    <3>1. i \in 1 .. Len(d)
      BY <1>0, <1>5
    <3> QED BY <2>1, <2>2, <3>1
  <2> QED BY <2>1, <2>2, <2>3, <2>4
<1> HIDE DEF t, v, n, k
<1>7. ASSUME NEW i \in 1 .. n + 1 + k PROVE t[i] = v[i]
  <2>1. i \in 1 .. Len(base) /\ i \in 1 .. Len(u) /\ i \in 1 .. Len(a)
    BY <1>0, <1>2, <1>3 DEF n, k
  <2>2. CASE i \in 1 .. n
    <3>1. t[i] = u[i] /\ u[i] = a[i]
      <4>1. i \notin n + 1 + 1 .. n + 1 + 1 + k - 1
        BY <1>0, <2>2
      <4>2. i \notin n + 1 .. n + 1 + Len(<<Dot>>) - 1
        BY <1>0, <2>2
      <4> QED BY <4>1, <4>2, <2>1, <1>3, <1>4
    <3>2. a[i] = z[i]
      <4>1. i \in 1 .. 1 + Len(z) - 1 /\ i - 1 + 1 = i
        BY <1>0, <1>1, <2>2
      <4> QED BY <4>1, <2>1, <1>2
    <3> QED BY <1>1, <1>6, <2>2, <3>1, <3>2
  <2>3. CASE i = n + 1
    <3>1. t[i] = u[i]
      <4>1. i \notin n + 1 + 1 .. n + 1 + 1 + k - 1
        BY <1>0, <2>3
      <4> QED BY <4>1, <2>1, <1>4
    <3>2. u[i] = Dot
      <4>1. i \in n + 1 .. n + 1 + Len(<<Dot>>) - 1 /\ i - (n + 1) + 1 = 1
        BY <1>0, <2>3
      <4> QED BY <4>1, <2>1, <1>0, <1>3
    <3>3. v[n + 1] = d[1]
      <4>1. 1 \in 1 .. 1 + k
        BY <1>0
      <4> QED BY <4>1, <1>6
    <3> QED BY <1>5, <2>3, <3>1, <3>2, <3>3
  <2>4. CASE i \notin 1 .. n /\ i # n + 1
    <3>1. PICK j \in 1 .. k : i = n + (1 + j) /\ i - (n + 1 + 1) + 1 = j /\ 1 + j \in 1 .. 1 + k
                              /\ i \in n + 1 + 1 .. n + 1 + 1 + k - 1
      <4>1. i - (n + 1) \in 1 .. k
        BY <1>0, <2>4
      <4> QED BY <4>1, <1>0
    <3>2. t[i] = sub[j]
      BY <1>4, <2>1, <3>1
    <3>3. v[i] = d[1 + j]
      BY <1>6, <3>1
    <3> QED BY <1>5, <3>2, <3>3
  <2> QED BY <2>2, <2>3, <2>4
<1>8. SubSeq(t, 1, Len(v)) = v
  <2>1. Len(t) >= Len(v)
    BY <1>4, <1>6 DEF n, k
  <2> QED BY <1>4, <1>6, <1>7, <2>1, Prefix
<1> QED BY <1>4, <1>6, <1>8 DEF t, u, v, a, n, k, d, z

\* A parse that writes text to its buffer.
Put(p, r, text, len, stale) ==
    [p EXCEPT !.mem = SetContents(r.mem, r.buf, text), !.buf = r.buf,
              !.val = [at |-> r.buf, len |-> len, text |-> <<>>], !.stale = stale]

PutFrom(m, p, text, len, stale, q) ==
    /\ q \in Parses /\ q.id = p.id /\ q.val.len = len /\ q.stale = stale
    /\ Ends(m, q.mem, q.buf) /\ q.buf # Null
    /\ p.buf # Scratch => q.buf # Scratch /\ q.mem.scratch = p.mem.scratch
    /\ q.val.at \in {Null, Object, Scratch} \cup DOMAIN q.mem.heap
    /\ SubText(q.mem, q.val) = SubSeq(text, 1, len)
    /\ len <= Len(ContentsAt(q.mem, q.val.at))

LEMMA Written ==
  ASSUME NEW m \in Mems, NEW p \in Parses, NEW r, NEW text \in Str, NEW len \in Nat,
         NEW stale \in BOOLEAN, len <= Len(text),
         Ends(m, r.mem, r.buf), r.buf # Null, r.mem.scratch = p.mem.scratch,
         p.buf # Scratch => r.buf # Scratch
  PROVE  PutFrom(m, p, text, len, stale, Put(p, r, text, len, stale))
<1> DEFINE w == SetContents(r.mem, r.buf, text)
           val == [at |-> r.buf, len |-> len, text |-> <<>>]
           q == Put(p, r, text, len, stale)
<1>1. /\ Ends(m, w, r.buf) /\ ContentsAt(w, r.buf) = text
      /\ r.buf # Scratch => w.scratch = r.mem.scratch
  BY EndsWrite
<1> HIDE DEF w
<1>2. q = [mem |-> w, id |-> p.id, val |-> val, buf |-> r.buf, stale |-> stale]
  <2>1. q = [p EXCEPT !.mem = w, !.buf = r.buf, !.val = val, !.stale = stale]
    BY DEF Put, w
  <2>2. p = [mem |-> p.mem, id |-> p.id, val |-> p.val, buf |-> p.buf, stale |-> p.stale]
    BY DEF Parses
  <2> HIDE DEF val, q
  <2> QED BY ONLY <2>1, <2>2
<1>3. w \in Mems /\ r.buf \in Int /\ r.buf # Object
      /\ r.buf \in {Scratch} \cup DOMAIN w.heap
  BY <1>1, Places DEF Ends
<1>4. val.at = r.buf /\ val.len = len /\ val \in [at : Int, len : Nat, text : Str]
  BY <1>3, StrEmpty
<1> HIDE DEF val
<1>5. p.id \in Str
  BY DEF Parses
<1>6. q.mem = w /\ q.id = p.id /\ q.val = val /\ q.buf = r.buf /\ q.stale = stale
  BY <1>2
<1>7. q \in Parses
  BY <1>2, <1>3, <1>4, <1>5 DEF Parses
<1> HIDE DEF q
<1>8. SubText(q.mem, q.val) = SubSeq(text, 1, len)
  BY <1>1, <1>3, <1>4, <1>6 DEF SubText, Dead
<1> QED BY <1>1, <1>3, <1>4, <1>6, <1>7, <1>8 DEF q, val, w, PutFrom

LEMMA PutMade ==
  ASSUME NEW m \in Mems, NEW p \in Parses, NEW r, NEW text \in Str, NEW len \in Nat,
         NEW stale \in BOOLEAN, NEW need, Room(m, p.mem, p.buf, need, r), len <= Len(text)
  PROVE  PutFrom(m, p, text, len, stale, Put(p, r, text, len, stale))
<1>1. /\ Ends(m, r.mem, r.buf) /\ r.buf # Null /\ r.mem.scratch = p.mem.scratch
      /\ p.buf # Scratch => r.buf # Scratch
  BY DEF Room
<1> QED BY <1>1, Written

\* What was to be read is read as it was when the buffer has been made larger,
\* unless it has moved.
LEMMA OldSubIs ==
  ASSUME NEW m \in Mems, NEW p \in Parses, Ends(m, p.mem, p.buf), NEW had, Reads(p, had),
         NEW need, NEW r, Room(m, p.mem, p.buf, need, r)
  PROVE  /\ OldSub(p, r.mem) \in Str
         /\ Dead(r.mem, p.val.at) \/ OldSub(p, r.mem) = had
<1> DEFINE at == p.val.at
           w == r.mem
<1>1. /\ p.mem \in Mems /\ w \in Mems /\ had \in Str /\ p.val.len = Len(had) /\ Len(had) \in Nat
      /\ SubText(p.mem, p.val) = had /\ w.scratch = p.mem.scratch
      /\ Null \notin DOMAIN w.heap /\ Null \notin DOMAIN p.mem.heap
      /\ Scratch \notin DOMAIN w.heap /\ Object \notin DOMAIN w.heap
      /\ Object \notin DOMAIN p.mem.heap
  BY MemParts, Places, StrLen DEF Parses, Reads, Room, Ends
<1>2. CASE Dead(w, at)
  <2> DEFINE n == p.val.len
             junk == [i \in 1 .. n |-> Junk]
  <2>1. n \in Nat
    BY <1>1
  <2> HIDE DEF n
  <2>2. junk \in Str
    BY <2>1, DotNul, IsASeq DEF Str
  <2>3. at # Object
    BY <1>2 DEF Dead
  <2>4. OldSub(p, w) = junk
    BY <1>2, <2>3 DEF OldSub, SubText, n
  <2> QED BY <1>2, <2>2, <2>4
<1>3. CASE at = Object
  BY <1>1, <1>3 DEF OldSub, SubText
<1>4. CASE at = Scratch
  <2>1. ~Dead(w, at) /\ ~Dead(p.mem, at) /\ ContentsAt(w, at) = ContentsAt(p.mem, at)
    BY <1>1, <1>4 DEF Dead, ContentsAt
  <2> QED BY <1>1, <1>4, <2>1, Places DEF OldSub, SubText
<1>5. CASE at \notin {Object, Scratch} /\ ~Dead(w, at)
  <2>1. at \in DOMAIN w.heap /\ at \in DOMAIN p.mem.heap
    BY <1>1, <1>5 DEF Dead, Reads
  <2>2. ContentsAt(w, at) = w.heap[at] /\ ContentsAt(p.mem, at) = p.mem.heap[at]
        /\ w.heap[at] \in Str /\ p.mem.heap[at] \in Str
    BY <1>1, <1>5, <2>1, MemParts DEF ContentsAt
  <2>3. p.val.len <= Len(p.mem.heap[at])
    BY <1>5, <2>2 DEF Reads
  <2>4. had = SubSeq(p.mem.heap[at], 1, p.val.len)
    BY <1>1, <1>5, <2>1, <2>2 DEF SubText, Dead
  <2>5. OldSub(p, w) = SubSeq(w.heap[at], 1, Len(had))
    BY <1>1, <1>5, <2>2 DEF OldSub, SubText
  <2> DEFINE v == w.heap[at]
             u == p.mem.heap[at]
             n == Len(had)
  <2>6. Len(u) <= Len(v) /\ \A i \in 1 .. Len(u) : v[i] = u[i]
    <3>1. CASE at = p.buf
      BY <2>1, <3>1 DEF Room, Grown
    <3>2. CASE at # p.buf
      <4>1. at \in DOMAIN m.heap /\ p.mem.heap[at] = m.heap[at] /\ w.heap[at] = m.heap[at]
        BY <2>1, <3>2 DEF Ends, Room
      <4>2. Len(u) \in Nat
        BY <2>2, StrLen
      <4> QED BY <4>1, <4>2
    <3> QED BY <3>1, <3>2
  <2> HIDE DEF u, v, n
  <2>7. u \in Str /\ v \in Str /\ n \in Nat /\ n <= Len(u) /\ had = SubSeq(u, 1, n)
        /\ Len(u) \in Nat /\ Len(v) \in Nat /\ n = Len(had)
    BY <1>1, <2>2, <2>3, <2>4, StrLen DEF u, v, n
  <2>8. \A i \in 1 .. n : had[i] = v[i]
    <3>1. \A i \in 1 .. n : SubSeq(u, 1, n)[i] = u[i]
      BY ONLY <2>7, StrFront
    <3>2. \A i \in 1 .. n : had[i] = u[i]
      BY ONLY <2>7, <3>1
    <3> SUFFICES ASSUME NEW i \in 1 .. n PROVE had[i] = v[i]
      OBVIOUS
    <3>4. i \in 1 .. Len(u)
      BY <2>7
    <3> QED BY <2>6, <3>2, <3>4
  <2>9. SubSeq(v, 1, Len(had)) = had
    BY <1>1, <2>6, <2>7, <2>8, Prefix
  <2> QED BY <1>1, <2>5, <2>9 DEF v
<1> QED BY <1>2, <1>3, <1>4, <1>5

\* ADLB_Parse_Struct_Subscript, which says what was meant unless it appends.
LEMMA StructParse ==
  ASSUME NEW m \in Mems, NEW p \in Parses, Ends(m, p.mem, p.buf), NEW had, Reads(p, had),
         NEW str \in Str, NEW append \in BOOLEAN, NEW moves \in BOOLEAN
  PROVE  LET q == ParseStructSub(p, str, append, moves)
         IN  /\ q \in Parses /\ q.id = p.id /\ Ends(m, q.mem, q.buf) /\ q.buf # Null
             /\ p.buf # Scratch => q.buf # Scratch /\ q.mem.scratch = p.mem.scratch
             /\ ~append \/ p.val.len = 0 => Reads(q, str \o <<Nul>>) /\ q.stale = p.stale
<1> DEFINE was  == IF append THEN p.val.len ELSE 0
           need == was + Len(str) + 1
           r    == ResizeBuf(p.mem, p.buf, need, moves)
           base == ContentsAt(r.mem, r.buf)
           kept == IF was = 0 THEN base
                   ELSE Overwrite(Overwrite(base, 1, OldSub(p, r.mem)), was, <<Dot>>)
           text == Overwrite(Overwrite(kept, was + 1, str), Len(str) + 1, <<Nul>>)
           dead == p.stale \/ (was # 0 /\ Dead(r.mem, p.val.at))
           q    == Put(p, r, text, need, dead)
<1>1. ParseStructSub(p, str, append, moves) = q
  BY DEF ParseStructSub, Put
<1>2. Len(str) \in Nat /\ was \in Nat /\ <<Nul>> \in Str /\ <<Dot>> \in Str
  BY StrLen, DotNul, StrOne DEF Parses
<1>3. need \in Nat \ {0}
  BY <1>2
<1> HIDE DEF need
<1>10. Room(m, p.mem, p.buf, need, r)
  BY <1>3, RoomMade
<1> HIDE DEF r
<1>4. base \in Str /\ Len(base) >= need /\ OldSub(p, r.mem) \in Str
  BY <1>10, OldSubIs DEF Room
<1> HIDE DEF base
<1>5. kept \in Str /\ Len(kept) = Len(base)
  <2>2. /\ Overwrite(base, 1, OldSub(p, r.mem)) \in Str
        /\ Len(Overwrite(base, 1, OldSub(p, r.mem))) = Len(base)
    BY <1>4, OverwriteIs
  <2>3. was # 0 =>
          LET t == Overwrite(Overwrite(base, 1, OldSub(p, r.mem)), was, <<Dot>>)
          IN  t \in Str /\ Len(t) = Len(base)
    BY <1>2, <2>2, OverwriteIs
  <2> QED BY <1>4, <2>3
<1>6. text \in Str /\ Len(text) = Len(base)
  <2>1. Len(str) + 1 \in Nat \ {0} /\ was + 1 \in Nat \ {0}
    BY <1>2
  <2>2. Overwrite(kept, was + 1, str) \in Str /\ Len(Overwrite(kept, was + 1, str)) = Len(base)
    <3> DEFINE at == was + 1
    <3>1. at \in Nat \ {0}
      BY <2>1
    <3> HIDE DEF at, kept
    <3>2. Overwrite(kept, at, str) \in Str /\ Len(Overwrite(kept, at, str)) = Len(base)
      BY <1>5, <3>1, OverwriteIs
    <3> QED BY <3>2 DEF at
  <2> QED
    <3> DEFINE at == Len(str) + 1
               t  == Overwrite(kept, was + 1, str)
    <3>1. at \in Nat \ {0} /\ t \in Str /\ Len(t) = Len(base)
      BY <2>1, <2>2
    <3> HIDE DEF at, t
    <3>2. Overwrite(t, at, <<Nul>>) \in Str /\ Len(Overwrite(t, at, <<Nul>>)) = Len(base)
      BY <1>2, <3>1, OverwriteIs
    <3> QED BY <3>2 DEF at, t
<1>7. ~append \/ p.val.len = 0 =>
        /\ SubSeq(text, 1, need) = str \o <<Nul>>
        /\ Len(str \o <<Nul>>) = need /\ str \o <<Nul>> \in Str
  <2> SUFFICES ASSUME ~append \/ p.val.len = 0
               PROVE  /\ SubSeq(text, 1, need) = str \o <<Nul>>
                      /\ Len(str \o <<Nul>>) = need /\ str \o <<Nul>> \in Str
    OBVIOUS
  <2>1. was = 0
    OBVIOUS
  <2>2. need = Len(str) + 1 /\ was + 1 = 1 /\ kept = base
    BY <1>2, <2>1 DEF need
  <2>3. text = Overwrite(Overwrite(base, 1, str), Len(str) + 1, <<Nul>>)
    BY <2>2
  <2>4. Len(base) >= Len(str) + 1
    BY <1>4, <2>2
  <2> HIDE DEF text
  <2>5. SubSeq(text, 1, Len(str) + 1) = str \o <<Nul>>
    BY <1>4, <2>3, <2>4, CopyText
  <2> QED BY <2>2, <2>5, Terminated
<1>11. dead \in BOOLEAN /\ (~append \/ p.val.len = 0 => dead = p.stale)
  <2>1. p.stale \in BOOLEAN
    BY DEF Parses
  <2>2. ~append \/ p.val.len = 0 => was = 0
    OBVIOUS
  <2> HIDE DEF was
  <2> QED BY <2>1, <2>2
<1> HIDE DEF text, dead
<1>8. PutFrom(m, p, text, need, dead, q)
  <2>1. need \in Nat /\ need <= Len(text)
    BY <1>3, <1>4, <1>6
  <2> QED BY <1>10, <1>11, <1>6, <2>1, PutMade
<1> HIDE DEF q
<1>9. ~append \/ p.val.len = 0 => Reads(q, str \o <<Nul>>) /\ q.stale = p.stale
  BY <1>7, <1>8, <1>11 DEF Reads, PutFrom
<1> QED BY <1>1, <1>8, <1>9 DEF PutFrom

\* append_subscript
LEMMA SubAppended ==
  ASSUME NEW m \in Mems, NEW p \in Parses, Ends(m, p.mem, p.buf), NEW moves \in BOOLEAN,
         NEW had \in Str, Reads(p, had \o <<Nul>>), NEW sub \in Str
  PROVE  LET q == AppendSub(p, sub, moves)
         IN  /\ q \in Parses /\ q.id = p.id /\ Ends(m, q.mem, q.buf)
             /\ ~q.stale => Reads(q, had \o (<<Dot>> \o sub))
<1> DEFINE n == p.val.len
           need == n + Len(sub)
           r    == ResizeBuf(p.mem, p.buf, need, moves)
           base == ContentsAt(r.mem, r.buf)
           copied  == OldSub(p, r.mem)
           kept == Overwrite(Overwrite(base, 1, copied), n, <<Dot>>)
           text == Overwrite(kept, n + 1, sub)
           dead == p.stale \/ Dead(r.mem, p.val.at)
           q    == Put(p, r, text, need, dead)
           v    == had \o (<<Dot>> \o sub)
<1>1. AppendSub(p, sub, moves) = q
  BY DEF AppendSub, Put
<1>2. n = Len(had) + 1 /\ Len(had) \in Nat /\ Len(sub) \in Nat /\ <<Dot>> \in Str
  BY StrLen, Terminated, DotNul, StrOne DEF Reads
<1>3. need \in Nat \ {0} /\ need = Len(had) + 1 + Len(sub)
  BY <1>2
<1> HIDE DEF need
<1>10. Room(m, p.mem, p.buf, need, r)
  BY <1>3, RoomMade
<1>13. copied \in Str /\ (Dead(r.mem, p.val.at) \/ copied = had \o <<Nul>>)
  <2> DEFINE was == had \o <<Nul>>
  <2>1. Reads(p, was)
    OBVIOUS
  <2> HIDE DEF was, r
  <2> QED BY <1>10, <2>1, OldSubIs DEF was
<1> HIDE DEF r
<1>4. base \in Str /\ Len(base) >= need
  BY <1>10 DEF Room
<1> HIDE DEF base, copied
<1>5. copied = had \o <<Nul>> =>
        text = Overwrite(Overwrite(Overwrite(base, 1, had \o <<Nul>>), Len(had) + 1, <<Dot>>),
                         Len(had) + 1 + 1, sub)
  BY <1>2
<1>6. Len(base) >= Len(had) + 1 + Len(sub)
  BY <1>3, <1>4
<1>11. text \in Str /\ Len(text) = Len(base)
  <2> DEFINE t == Overwrite(base, 1, copied)
             at == n + 1
  <2>1. t \in Str /\ Len(t) = Len(base) /\ n \in Nat \ {0} /\ at \in Nat \ {0}
    BY <1>2, <1>4, <1>13, OverwriteIs
  <2> HIDE DEF t, n, at
  <2>2. Overwrite(t, n, <<Dot>>) \in Str /\ Len(Overwrite(t, n, <<Dot>>)) = Len(t)
    BY <1>2, <2>1, OverwriteIs
  <2> DEFINE u == Overwrite(t, n, <<Dot>>)
  <2> HIDE DEF u
  <2>3. Overwrite(u, at, sub) \in Str /\ Len(Overwrite(u, at, sub)) = Len(u)
    BY <2>1, <2>2, OverwriteIs DEF u
  <2> QED BY <2>1, <2>2, <2>3 DEF u, t, at
<1> HIDE DEF text, v
<1>7. copied = had \o <<Nul>> =>
        /\ v \in Str /\ Len(v) = Len(had) + 1 + Len(sub)
        /\ SubSeq(text, 1, Len(v)) = v
  <2> SUFFICES ASSUME copied = had \o <<Nul>>
               PROVE  /\ v \in Str /\ Len(v) = Len(had) + 1 + Len(sub)
                      /\ SubSeq(text, 1, Len(v)) = v
    OBVIOUS
  <2> DEFINE t == Overwrite(Overwrite(Overwrite(base, 1, had \o <<Nul>>), Len(had) + 1, <<Dot>>),
                            Len(had) + 1 + 1, sub)
             d == had \o (<<Dot>> \o sub)
  <2>1. d \in Str /\ Len(d) = Len(had) + 1 + Len(sub) /\ SubSeq(t, 1, Len(d)) = d
    BY <1>4, <1>6, AppendText
  <2>2. text = t
    BY <1>5
  <2> HIDE DEF t
  <2> QED BY <2>1, <2>2 DEF v
<1>12. dead \in BOOLEAN /\ (~dead => copied = had \o <<Nul>>)
  <2>1. p.stale \in BOOLEAN
    BY DEF Parses
  <2> QED BY <1>13, <2>1
<1> HIDE DEF dead
<1>8. PutFrom(m, p, text, need, dead, q)
  <2>1. need \in Nat /\ need <= Len(text)
    BY <1>3, <1>4, <1>11
  <2> QED BY <1>10, <1>11, <1>12, <2>1, PutMade
<1> HIDE DEF q
<1>9. ~q.stale => Reads(q, v)
  BY <1>3, <1>7, <1>8, <1>12 DEF Reads, PutFrom
<1> QED BY <1>1, <1>8, <1>9 DEF v, PutFrom

\* A parsed handle names what it was made of.
HandleParsed(m, path, useScratch, p) ==
    /\ p \in Parses /\ p.id = path.id /\ Ends(m, p.mem, p.buf)
    /\ Reads(p, MemberOf(path, <<>>))
    /\ ~p.stale
    /\ p.val.len = 0 => p.buf = Null
    /\ ~useScratch => p.buf # Scratch /\ p.mem.scratch = m.scratch

LEMMA HandleParses ==
  ASSUME NEW m \in Mems, NEW path \in Paths \cup BlobPaths, NEW useScratch \in BOOLEAN
  PROVE  HandleParsed(m, path, useScratch, ParseHandle(m, HandleOf(path), useScratch))
<1> DEFINE h == ExtractHandle(HandleOf(path))
           n == [NoParse(m) EXCEPT !.id = h.id]
           buf == IF useScratch THEN Scratch ELSE Null
           b == [n EXCEPT !.buf = buf]
           p == ParseHandle(m, HandleOf(path), useScratch)
<1>1. h.id = path.id /\ h.sub = SubsText(path) /\ path.id \in Str
  BY Extracted, PathParts
<1>2. p = IF SubsText(path) = <<>> THEN n ELSE ParseStructSub(b, SubsText(path), FALSE, FALSE)
  BY <1>1 DEF ParseHandle
<1> DEFINE no == FALSE
<1>3. /\ n = [mem |-> m, id |-> path.id, val |-> NoSub, buf |-> Null, stale |-> no]
      /\ b = [mem |-> m, id |-> path.id, val |-> NoSub, buf |-> buf, stale |-> no]
  <2>1. NoParse(m) = [mem |-> m, id |-> <<>>, val |-> NoSub, buf |-> Null, stale |-> no]
    BY DEF NoParse
  <2>2. h.id = path.id
    BY <1>1
  <2> HIDE DEF h, buf, p, no
  <2>3. n = [mem |-> m, id |-> path.id, val |-> NoSub, buf |-> Null, stale |-> no]
    BY ONLY <2>1, <2>2
  <2> HIDE DEF n
  <2>4. b = [mem |-> m, id |-> path.id, val |-> NoSub, buf |-> buf, stale |-> no]
    BY ONLY <2>3
  <2> QED BY <2>3, <2>4
<1> HIDE DEF n, b, p
<1>4. /\ NoSub = [at |-> Null, len |-> 0, text |-> <<>>]
      /\ NoSub \in [at : Int, len : Nat, text : Str] /\ NoSub.len = 0 /\ NoSub.at = Null
  BY StrEmpty DEF NoSub, Null
<1> HIDE DEF buf
<1>5. buf \in {Null, Scratch} /\ buf \in Int /\ {buf} \cap Blocks = {}
      /\ (~useScratch => buf = Null)
  BY Places DEF buf
<1>6. ASSUME NEW q, NEW c \in {Null, Scratch},
             q = [mem |-> m, id |-> path.id, val |-> NoSub, buf |-> c,
                  stale |-> FALSE]
      PROVE  q \in Parses /\ Ends(m, q.mem, q.buf) /\ Reads(q, <<>>)
  <2>1. q \in Parses
    BY <1>1, <1>4, <1>6, Places DEF Parses
  <2>2. Ends(m, m, c)
    BY Places DEF Ends
  <2>3. SubText(m, NoSub) = <<>> /\ ContentsAt(m, Null) = <<>>
    <3>1. Null \notin DOMAIN m.heap
      BY MemParts, Places
    <3>2. Dead(m, Null)
      BY <3>1, Places DEF Dead
    <3>3. [i \in 1 .. 0 |-> Junk] = <<>>
      OBVIOUS
    <3> QED BY <1>4, <3>1, <3>2, <3>3, Places DEF SubText, ContentsAt
  <2>4. Reads(q, <<>>)
    BY <1>4, <1>6, <2>3, StrEmpty DEF Reads
  <2> QED BY <1>6, <2>1, <2>2, <2>4
<1>7. CASE SubsText(path) = <<>>
  <2>1. p = n /\ MemberOf(path, <<>>) = <<>>
    BY <1>2, <1>7, MembersAre, SubsTextParts
  <2>2. n \in Parses /\ Ends(m, n.mem, n.buf) /\ Reads(n, <<>>)
    BY <1>3, <1>6
  <2>3. n.id = path.id /\ n.buf = Null /\ n.mem = m /\ Null # Scratch /\ ~n.stale
    BY <1>3, Places
  <2> QED BY <2>1, <2>2, <2>3 DEF HandleParsed, p
<1>8. CASE SubsText(path) # <<>>
  <2> DEFINE q == ParseStructSub(b, SubsText(path), FALSE, FALSE)
  <2>1. p = q /\ MemberOf(path, <<>>) = SubsText(path) \o <<Nul>> /\ SubsText(path) \in Str
    BY <1>2, <1>8, MembersAre, SubsTextParts
  <2>2. b \in Parses /\ Ends(m, b.mem, b.buf) /\ Reads(b, <<>>)
    BY <1>3, <1>5, <1>6
  <2>3. /\ q \in Parses /\ q.id = b.id /\ Ends(m, q.mem, q.buf) /\ q.buf # Null
        /\ b.buf # Scratch => q.buf # Scratch /\ q.mem.scratch = b.mem.scratch
        /\ ~FALSE \/ b.val.len = 0 => Reads(q, SubsText(path) \o <<Nul>>) /\ q.stale = b.stale
    BY <2>1, <2>2, StructParse
  <2> HIDE DEF q
  <2>4. b.id = path.id /\ b.buf = buf /\ b.mem = m /\ Null # Scratch /\ ~b.stale
    BY <1>3, Places
  <2>5. q.val.len # 0
    BY <2>1, <2>3, Terminated, StrLen DEF Reads
  <2>6. HandleParsed(m, path, useScratch, q)
    BY <1>5, <2>1, <2>3, <2>4, <2>5 DEF HandleParsed
  <2> QED BY <2>1, <2>6 DEF p
<1> QED BY <1>7, <1>8

\* A parsed handle with a subscript beside it names the member, unless a struct
\* subscript was appended to others.
MemberParsed(m, path, kind, sub, p) ==
    /\ p \in Parses /\ p.id = path.id /\ Ends(m, p.mem, p.buf)
    /\ ~AppendsStruct(path, kind, sub) /\ ~p.stale => Reads(p, Asked(path, kind, sub)[2])

LEMMA MemberParses ==
  ASSUME mem \in Mems, NEW path \in Paths, NEW kind \in {"container", "struct"}, NEW sub \in Subs,
         NEW moves \in BOOLEAN
  PROVE  MemberParsed(mem, path, kind, sub, MemberParse(path, kind, sub, moves))
<1> DEFINE p == ParseHandle(mem, HandleOf(path), TRUE)
           q == MemberParse(path, kind, sub, moves)
           more == IF kind = "struct" /\ sub = <<>> THEN <<>> ELSE <<sub>>
           z == sub \o <<Nul>>
<1>1. HandleParsed(mem, path, TRUE, p)
  BY HandleParses
<1>2. q = ParseSub(p, kind, sub, moves)
  BY DEF MemberParse
<1> HIDE DEF p, q
<1>3. /\ sub \in Str /\ z \in Str /\ Len(z) = Len(sub) + 1 /\ Len(sub) \in Nat
      /\ p \in Parses /\ p.id = path.id /\ Ends(mem, p.mem, p.buf)
      /\ Reads(p, MemberOf(path, <<>>)) /\ (p.val.len = 0 => p.buf = Null)
  BY <1>1, CommandsAssumption, Terminated, StrLen DEF HandleParsed, Str
<1>4. Asked(path, kind, sub)[2] = MemberOf(path, more)
  BY DEF Asked
<1>5. /\ path.subs = <<>> => MemberOf(path, <<>>) = <<>> /\ MemberOf(path, <<sub>>) = z
      /\ path.subs # <<>> => MemberOf(path, <<>>) = SubsText(path) \o <<Nul>>
                             /\ MemberOf(path, <<sub>>) = SubsText(path) \o (<<Dot>> \o z)
  BY <1>3, MembersAre
<1>6. SubsText(path) \in Str
  BY SubsTextParts
<1>7. p.val.len = 0 <=> path.subs = <<>>
  <2>1. p.val.len = Len(MemberOf(path, <<>>))
    BY <1>3 DEF Reads
  <2>2. path.subs # <<>> => p.val.len # 0
    <3> DEFINE t == SubsText(path)
    <3>1. Len(t \o <<Nul>>) = Len(t) + 1 /\ Len(t) \in Nat
      BY <1>6, Terminated, StrLen
    <3> QED BY <1>5, <2>1, <3>1
  <2> QED BY <1>5, <2>1, <2>2, StrEmpty
<1>8. CASE kind = "container"
  <2>1. more = <<sub>>
    BY <1>8
  <2>2. CASE p.val.len = 0
    <3> DEFINE val == [at |-> Object, len |-> Len(z), text |-> z]
    <3>1. q = [p EXCEPT !.buf = Null, !.val = val]
      BY <1>2, <1>8, <2>2 DEF ParseSub
    <3>2. p = [mem |-> p.mem, id |-> p.id, val |-> p.val, buf |-> p.buf,
               stale |-> p.stale]
          /\ p.mem \in Mems /\ p.id \in Str /\ p.stale \in BOOLEAN
      BY <1>3 DEF Parses
    <3>3. val \in [at : Int, len : Nat, text : Str] /\ val.at = Object /\ val.len = Len(z)
          /\ val.text = z
      BY <1>3, Places
    <3> HIDE DEF val
    <3>4. q = [mem |-> p.mem, id |-> p.id, val |-> val, buf |-> Null, stale |-> p.stale]
      BY ONLY <3>1, <3>2
    <3>5. q \in Parses /\ q.id = path.id /\ q.mem = p.mem /\ q.buf = p.buf /\ q.val = val
      BY <1>3, <2>2, <3>2, <3>3, <3>4, Places DEF Parses
    <3>6. Reads(q, z)
      BY <1>3, <3>3, <3>5 DEF Reads, SubText
    <3> QED BY <1>3, <1>4, <1>5, <1>7, <2>1, <2>2, <3>5, <3>6 DEF MemberParsed, q
  <2>3. CASE p.val.len # 0
    <3>1. q = AppendSub(p, z, moves)
      BY <1>2, <1>8, <2>3 DEF ParseSub
    <3>2. Reads(p, SubsText(path) \o <<Nul>>)
      BY <1>3, <1>5, <1>7, <2>3
    <3> HIDE DEF z
    <3>3. /\ q \in Parses /\ q.id = p.id /\ Ends(mem, q.mem, q.buf)
          /\ ~q.stale => Reads(q, SubsText(path) \o (<<Dot>> \o z))
      BY <1>3, <1>6, <3>1, <3>2, SubAppended
    <3> QED BY <1>3, <1>4, <1>5, <1>7, <2>1, <2>3, <3>3 DEF MemberParsed, q, z
  <2> QED BY <2>2, <2>3
<1>9. CASE kind = "struct"
  <2>1. CASE sub = <<>>
    <3>1. q = p /\ more = <<>>
      BY <1>2, <1>9, <2>1 DEF ParseSub
    <3> QED BY <1>3, <1>4, <3>1 DEF MemberParsed, q
  <2>2. CASE sub # <<>>
    <3>1. q = ParseStructSub(p, sub, TRUE, moves) /\ more = <<sub>>
      BY <1>2, <1>9, <2>2 DEF ParseSub
    <3>2. /\ q \in Parses /\ q.id = p.id /\ Ends(mem, q.mem, q.buf)
          /\ ~TRUE \/ p.val.len = 0 => Reads(q, z) /\ q.stale = p.stale
      <4>1. /\ p \in Parses /\ Ends(mem, p.mem, p.buf) /\ Reads(p, MemberOf(path, <<>>))
            /\ sub \in Str
        BY <1>3
      <4> DEFINE had == MemberOf(path, <<>>)
      <4>2. Reads(p, had)
        BY <4>1
      <4> HIDE DEF had, z
      <4>3. LET v == ParseStructSub(p, sub, TRUE, moves)
            IN  /\ v \in Parses /\ v.id = p.id /\ Ends(mem, v.mem, v.buf)
                /\ ~TRUE \/ p.val.len = 0 => Reads(v, sub \o <<Nul>>) /\ v.stale = p.stale
        BY <4>1, <4>2, StructParse
      <4> HIDE DEF q
      <4> QED BY <3>1, <4>3 DEF z
    <3>3. ~AppendsStruct(path, kind, sub) => path.subs = <<>>
      BY <1>9, <2>2 DEF AppendsStruct
    <3>4. ~AppendsStruct(path, kind, sub) => Reads(q, Asked(path, kind, sub)[2])
      BY <1>4, <1>5, <1>7, <3>1, <3>2, <3>3
    <3> QED BY <1>3, <3>2, <3>4 DEF MemberParsed, q
  <2> QED BY <2>1, <2>2
<1> QED BY <1>8, <1>9

-----------------------------------------------------------------------------
(* What a call to ADLB holds. *)

\* The buffers bufs were parsed into one after the other, beginning with memory
\* m: those that are blocks are new and different.
Lends(m, w, bufs) ==
    /\ w \in Mems /\ w.fault = m.fault /\ bufs \in Seq(Int)
    /\ \A i \in Lent(bufs) : bufs[i] \in Blocks \ DOMAIN m.heap
    /\ \A i, j \in Lent(bufs) : bufs[i] = bufs[j] => i = j
    /\ DOMAIN w.heap = DOMAIN m.heap \cup {bufs[i] : i \in Lent(bufs)}
    /\ \A b \in DOMAIN m.heap : w.heap[b] = m.heap[b]

LEMMA LendsNothing == ASSUME NEW m \in Mems PROVE Lends(m, m, <<>>)
<1>1. Lent(<<>>) = {}
  BY DEF Lent
<1>2. <<>> \in Seq(Int)
  OBVIOUS
<1> QED BY <1>1, <1>2 DEF Lends

LEMMA LendsOneMore ==
  ASSUME NEW m \in Mems, NEW w, NEW bufs, Lends(m, w, bufs), NEW v, NEW c, Ends(w, v, c)
  PROVE  Lends(m, v, Append(bufs, c))
<1> DEFINE n == Len(bufs)
           more == Append(bufs, c)
<1>1. w \in Mems /\ bufs \in Seq(Int) /\ c \in Int
      /\ (c \notin {Null, Scratch} => c \in Blocks /\ c \notin DOMAIN w.heap)
      /\ (c \in {Null, Scratch} => c \notin Blocks)
  BY Places DEF Lends, Ends
<1>2. /\ more \in Seq(Int) /\ DOMAIN more = 1 .. n + 1 /\ DOMAIN bufs = 1 .. n /\ n \in Nat
      /\ more[n + 1] = c /\ \A i \in 1 .. n : more[i] = bufs[i]
  BY <1>1
<1> HIDE DEF more, n
<1>3. PICK l : l = n + 1 /\ l \notin 1 .. n /\ 1 .. n + 1 = 1 .. n \cup {l}
  BY <1>2
<1>4. more[l] = c /\ DOMAIN more = DOMAIN bufs \cup {l} /\ l \notin DOMAIN bufs
      /\ \A i \in DOMAIN bufs : more[i] = bufs[i]
  BY <1>2, <1>3
<1>5. Lent(more) = Lent(bufs) \cup (IF c \in Blocks THEN {l} ELSE {})
  BY <1>1, <1>4, Places DEF Lent
<1>6. /\ \A i \in Lent(bufs) : more[i] = bufs[i] /\ i # l
      /\ \A i \in Lent(bufs) : bufs[i] \in Blocks \ DOMAIN m.heap /\ bufs[i] \in DOMAIN w.heap
      /\ DOMAIN m.heap \subseteq DOMAIN w.heap
  BY <1>4 DEF Lent, Lends
<1>7. CASE c \in Blocks
  <2>1. Lent(more) = Lent(bufs) \cup {l} /\ c \notin DOMAIN w.heap /\ {c} \cap Blocks = {c}
    BY <1>1, <1>5, <1>7
  <2>2. \A i \in Lent(more) : more[i] \in Blocks \ DOMAIN m.heap
    BY <1>4, <1>6, <1>7, <2>1
  <2>3. \A i, j \in Lent(more) : more[i] = more[j] => i = j
    <3> SUFFICES ASSUME NEW i \in Lent(more), NEW j \in Lent(more), more[i] = more[j] PROVE i = j
      OBVIOUS
    <3>1. CASE i \in Lent(bufs) /\ j \in Lent(bufs)
      BY <1>6, <3>1 DEF Lends
    <3>2. CASE i = l /\ j \in Lent(bufs)
      BY <1>4, <1>6, <2>1, <3>2
    <3>3. CASE j = l /\ i \in Lent(bufs)
      BY <1>4, <1>6, <2>1, <3>3
    <3> QED BY <2>1, <3>1, <3>2, <3>3
  <2>4. {more[i] : i \in Lent(more)} = {bufs[i] : i \in Lent(bufs)} \cup {c}
    BY ONLY <1>4, <1>6, <2>1
  <2>5. DOMAIN v.heap = DOMAIN m.heap \cup {more[i] : i \in Lent(more)}
    BY <2>1, <2>4 DEF Lends, Ends
  <2> QED BY <1>2, <1>6, <2>2, <2>3, <2>5 DEF Lends, Ends, more
<1>8. CASE c \notin Blocks
  <2>1. Lent(more) = Lent(bufs) /\ {c} \cap Blocks = {}
    BY <1>5, <1>8
  <2>2. {more[i] : i \in Lent(more)} = {bufs[i] : i \in Lent(bufs)}
    BY ONLY <1>6, <2>1
  <2>3. DOMAIN v.heap = DOMAIN m.heap \cup {more[i] : i \in Lent(more)}
    BY <2>1, <2>2 DEF Lends, Ends
  <2> QED BY <1>2, <1>6, <2>1, <2>3 DEF Lends, Ends, more
<1> QED BY <1>7, <1>8

\* Nothing of memory w has changed in v.
Keeps(w, v) ==
    /\ DOMAIN w.heap \subseteq DOMAIN v.heap /\ v.scratch = w.scratch
    /\ \A b \in DOMAIN w.heap : v.heap[b] = w.heap[b]

\* A handle that is not parsed into the scratch buffer changes nothing.
LEMMA ParseKeeps ==
  ASSUME NEW w \in Mems, NEW path, NEW p, HandleParsed(w, path, FALSE, p)
  PROVE  Keeps(w, p.mem)
BY DEF HandleParsed, Ends, Keeps

LEMMA ReadsOn ==
  ASSUME NEW p \in Parses, NEW text, Reads(p, text), NEW w \in Mems, Keeps(p.mem, w)
  PROVE  SubText(w, p.val) = text
BY ReadsKept DEF Keeps

\* The parses that turbine_extract_ids goes through.
IdsRun(ids, paths) ==
    /\ ids \in [0 .. Len(paths) -> Parses] /\ ids[0] = NoParse(mem)
    /\ \A k \in 1 .. Len(paths) : ids[k] = ParseHandle(ids[k - 1].mem, HandleOf(paths[k]), FALSE)
    /\ ExtractIds(paths) = [mem    |-> ids[Len(paths)].mem,
                            parses |-> [k \in 1 .. Len(paths) |-> ids[k]]]

LEMMA IdsSteps ==
  ASSUME mem \in Mems, NEW paths \in Seq(Paths) PROVE \E ids : IdsRun(ids, paths)
<1> DEFINE n == Len(paths)
           ParseNext(p, k) == ParseHandle(p.mem, HandleOf(paths[k]), FALSE)
           Is(z) == z = [k \in 0 .. n |-> IF k = 0 THEN NoParse(mem) ELSE ParseNext(z[k - 1], k)]
           F == [k \in 1 .. n |-> [p \in Parses |-> ParseNext(p, k)]]
           z == CHOOSE z : Is(z)
<1>1. n \in Nat /\ \A k \in 1 .. n : paths[k] \in Paths
  OBVIOUS
<1>2. NoParse(mem) \in Parses
  BY StrEmpty, Places DEF NoParse, NoSub, Parses
<1>3. \A k \in 1 .. n : \A p \in Parses : ParseNext(p, k) \in Parses
  <2> SUFFICES ASSUME NEW k \in 1 .. n, NEW p \in Parses PROVE ParseNext(p, k) \in Parses
    OBVIOUS
  <2>1. p.mem \in Mems /\ paths[k] \in Paths
    BY <1>1 DEF Parses
  <2>2. HandleParsed(p.mem, paths[k], FALSE, ParseHandle(p.mem, HandleOf(paths[k]), FALSE))
    BY <2>1, HandleParses
  <2> QED BY <2>2 DEF HandleParsed
<1> HIDE DEF ParseNext
<1>4. F \in Steps(n, Parses)
  BY <1>3 DEF Steps
<1>5. PICK f \in [0 .. n -> Parses] :
        f[0] = NoParse(mem) /\ \A k \in 1 .. n : f[k] = F[k][f[k - 1]]
  <2> HIDE DEF F
  <2>1. \E f : Solves(f, n, Parses, NoParse(mem), F)
    BY <1>1, <1>2, <1>4, Recursion
  <2> QED BY <2>1 DEF Solves
<1>6. \A k \in 1 .. n : f[k] = ParseNext(f[k - 1], k)
  <2> SUFFICES ASSUME NEW k \in 1 .. n PROVE f[k] = ParseNext(f[k - 1], k)
    OBVIOUS
  <2>1. k - 1 \in 0 .. n
    BY <1>1
  <2> QED BY <1>5, <2>1
<1>7. Is(f)
  <2>1. \A k \in 0 .. n : f[k] = IF k = 0 THEN NoParse(mem) ELSE ParseNext(f[k - 1], k)
    BY <1>1, <1>5, <1>6
  <2>2. f = [k \in 0 .. n |-> f[k]]
    OBVIOUS
  <2>3. [k \in 0 .. n |-> f[k]]
        = [k \in 0 .. n |-> IF k = 0 THEN NoParse(mem) ELSE ParseNext(f[k - 1], k)]
    BY ONLY <2>1
  <2> QED BY <2>2, <2>3
<1>8. Is(z)
  <2> HIDE DEF Is
  <2> QED BY <1>7
<1>9. ExtractIds(paths) = [mem |-> z[n].mem, parses |-> [k \in 1 .. n |-> z[k]]]
  BY DEF ExtractIds, ParseNext
<1>10. z[0] = NoParse(mem) /\ \A k \in 1 .. n : z[k] = ParseNext(z[k - 1], k)
  <2> HIDE DEF z
  <2> QED BY <1>8
<1>11. \A k \in 0 .. n : z[k] \in Parses
  <2> DEFINE S == {k \in 0 .. n : z[k] \in Parses}
  <2> HIDE DEF z
  <2>1. 0 \in S
    BY <1>2, <1>10
  <2>2. ASSUME NEW k \in 1 .. n, k - 1 \in S PROVE k \in S
    <3>1. k - 1 \in 0 .. n /\ z[k - 1] \in Parses /\ k \in 0 .. n
      BY <2>2
    <3> QED BY <3>1, <1>3, <1>10
  <2> HIDE DEF S
  <2>3. 0 .. n \subseteq S
    BY <1>1, <2>1, <2>2, UpTo
  <2> QED BY <2>3 DEF S
<1>12. z \in [0 .. n -> Parses]
  <2> HIDE DEF z
  <2> QED BY <1>8, <1>11
<1> HIDE DEF z
<1> QED BY <1>9, <1>10, <1>12 DEF IdsRun, ParseNext

\* turbine_extract_ids names what the program named, and holds new blocks.
LEMMA IdsParsed ==
  ASSUME mem \in Mems, NEW paths \in Seq(Paths)
  PROVE  LET ids == ExtractIds(paths)
         IN  /\ Len(ids.parses) = Len(paths)
             /\ Lends(mem, ids.mem, [i \in 1 .. Len(ids.parses) |-> ids.parses[i].buf])
             /\ \A i \in 1 .. Len(ids.parses) :
                  Passed(ids.mem, ids.parses[i]) = <<paths[i].id, MemberOf(paths[i], <<>>)>>
<1> DEFINE n == Len(paths)
<1>1. n \in Nat /\ \A k \in 1 .. n : paths[k] \in Paths
  OBVIOUS
<1>2. PICK z : IdsRun(z, paths)
  BY IdsSteps
<1>3. /\ z \in [0 .. n -> Parses] /\ z[0] = NoParse(mem)
      /\ \A k \in 1 .. n : z[k] = ParseHandle(z[k - 1].mem, HandleOf(paths[k]), FALSE)
      /\ ExtractIds(paths) = [mem |-> z[n].mem, parses |-> [k \in 1 .. n |-> z[k]]]
  BY <1>2 DEF IdsRun
<1> HIDE DEF n
<1>4. \A k \in 0 .. n : z[k].mem \in Mems
  BY <1>3 DEF Parses
<1>5. ASSUME NEW k \in 1 .. n
      PROVE  /\ k - 1 \in 0 .. n /\ k \in 0 .. n
             /\ HandleParsed(z[k - 1].mem, paths[k], FALSE, z[k])
  <2>1. k - 1 \in 0 .. n /\ k \in 0 .. n
    BY <1>1
  <2>2. z[k - 1].mem \in Mems /\ paths[k] \in Paths
    BY <1>1, <1>4, <2>1
  <2> QED BY <1>3, <2>1, <2>2, HandleParses
<1> DEFINE bufs(k) == [i \in 1 .. k |-> z[i].buf]
           Good(k) == /\ Lends(mem, z[k].mem, bufs(k))
                      /\ \A i \in 1 .. k : Keeps(z[i].mem, z[k].mem)
           S == {k \in 0 .. n : Good(k)}
<1>6. 0 \in S
  <2>1. z[0].mem = mem /\ bufs(0) = <<>> /\ 1 .. 0 = {}
    BY <1>3 DEF NoParse
  <2>2. Good(0)
    BY <2>1, LendsNothing
  <2> QED BY <1>1, <2>2
<1>7. ASSUME NEW k \in 1 .. n, k - 1 \in S PROVE k \in S
  <2>1. PICK j : j = k - 1 /\ k = j + 1 /\ j \in Nat /\ j \in 0 .. n /\ k \in 0 .. n
    BY <1>1
  <2>2. Good(j) /\ HandleParsed(z[j].mem, paths[k], FALSE, z[k])
    BY <1>5, <1>7, <2>1
  <2>3. /\ Ends(z[j].mem, z[k].mem, z[k].buf) /\ z[j].mem \in Mems
        /\ Keeps(z[j].mem, z[k].mem)
    BY <1>4, <2>1, <2>2, ParseKeeps DEF HandleParsed
  <2>4. Append(bufs(j), z[k].buf) = bufs(k)
    <3>1. \A i \in 1 .. j : z[i].buf \in Int
      BY <1>1, <1>3, <2>1 DEF Parses
    <3>2. bufs(j) \in Seq(Int) /\ Len(bufs(j)) = j
      BY <2>1, <3>1, IsASeq
    <3>3. z[k].buf \in Int
      BY <1>3, <2>1 DEF Parses
    <3>4. /\ Append(bufs(j), z[k].buf) \in Seq(Int) /\ Len(Append(bufs(j), z[k].buf)) = j + 1
          /\ \A i \in 1 .. j : Append(bufs(j), z[k].buf)[i] = bufs(j)[i]
          /\ Append(bufs(j), z[k].buf)[j + 1] = z[k].buf
      BY <2>1, <3>2, <3>3, AppendProperties
    <3>5. bufs(k) \in Seq(Int) /\ Len(bufs(k)) = j + 1
          /\ (\A i \in 1 .. j : bufs(k)[i] = bufs(j)[i]) /\ bufs(k)[j + 1] = z[k].buf
      <4>1. \A i \in 1 .. k : z[i].buf \in Int
        BY <1>1, <1>3, <2>1 DEF Parses
      <4>2. bufs(k) \in Seq(Int) /\ Len(bufs(k)) = k
        BY <2>1, <4>1, IsASeq
      <4> QED BY <2>1, <4>2
    <3> HIDE DEF bufs
    <3>6. \A i \in 1 .. j + 1 : Append(bufs(j), z[k].buf)[i] = bufs(k)[i]
      <4> SUFFICES ASSUME NEW i \in 1 .. j + 1
                   PROVE  Append(bufs(j), z[k].buf)[i] = bufs(k)[i]
        OBVIOUS
      <4>1. CASE i = j + 1
        BY <3>4, <3>5, <4>1
      <4>2. CASE i # j + 1
        <5>1. i \in 1 .. j
          BY <2>1, <4>2
        <5> QED BY <3>4, <3>5, <5>1
      <4> QED BY <4>1, <4>2
    <3> QED BY <3>4, <3>5, <3>6, SeqEqual
  <2>5. Lends(mem, z[k].mem, Append(bufs(j), z[k].buf))
    <3> HIDE DEF bufs
    <3> QED BY <2>2, <2>3, LendsOneMore
  <2>6. ASSUME NEW i \in 1 .. k PROVE Keeps(z[i].mem, z[k].mem)
    <3>1. CASE i = k
      BY <3>1 DEF Keeps
    <3>2. CASE i # k
      <4>1. i \in 1 .. j
        BY <2>1, <3>2
      <4>2. Keeps(z[i].mem, z[j].mem)
        BY <2>2, <4>1
      <4> QED BY <2>3, <4>2 DEF Keeps
    <3> QED BY <3>1, <3>2
  <2>7. Good(k)
    <3> HIDE DEF bufs
    <3> QED BY <2>4, <2>5, <2>6
  <2> HIDE DEF Good
  <2> QED BY <2>1, <2>7
<1> HIDE DEF S
<1>8. n \in S
  <2>1. 0 .. n \subseteq S
    BY <1>1, <1>6, <1>7, UpTo
  <2> QED BY <1>1, <2>1
<1>9. Good(n)
  BY <1>8 DEF S
<1> DEFINE ids == ExtractIds(paths)
<1>10. ids.mem = z[n].mem /\ ids.parses = [k \in 1 .. n |-> z[k]] /\ Len(ids.parses) = n
  BY <1>1, <1>3
<1> HIDE DEF ids
<1>11. ASSUME NEW i \in 1 .. n
       PROVE  Passed(ids.mem, ids.parses[i]) = <<paths[i].id, MemberOf(paths[i], <<>>)>>
  <2>1. HandleParsed(z[i - 1].mem, paths[i], FALSE, z[i]) /\ Keeps(z[i].mem, z[n].mem)
    BY <1>5, <1>9
  <2>2. ids.parses[i] = z[i] /\ z[n].mem \in Mems
    BY <1>1, <1>4, <1>10
  <2>3. SubText(z[n].mem, z[i].val) = MemberOf(paths[i], <<>>)
    BY <2>1, <2>2, ReadsOn DEF HandleParsed
  <2> QED BY <1>10, <2>1, <2>2, <2>3 DEF Passed, HandleParsed
<1>12. [i \in 1 .. Len(ids.parses) |-> ids.parses[i].buf] = bufs(n)
  BY <1>10
<1> QED BY <1>9, <1>10, <1>11, <1>12 DEF ids, n

-----------------------------------------------------------------------------
(* The invariant is inductive. *)

LEMMA MemMade ==
  ASSUME NEW w \in Mems
  PROVE  /\ heap = w.heap /\ fault = w.fault => mem \in Mems
         /\ heap' = w.heap /\ fault' = w.fault => mem' \in Mems
<1> DEFINE junk == [i \in 1 .. ScratchLen |-> Junk]
<1>1. junk \in Str
  BY ScratchAssumption, DotNul, IsASeq DEF Str
<1>2. /\ w.heap \in [DOMAIN w.heap -> Str] /\ DOMAIN w.heap \subseteq Blocks
      /\ IsFiniteSet(DOMAIN w.heap) /\ w.fault \in BOOLEAN
  BY MemParts
<1> HIDE DEF junk
<1>3. [heap |-> w.heap, scratch |-> junk, fault |-> w.fault] \in Mems
  BY <1>1, <1>2, MakeMem
<1> QED BY <1>3 DEF mem, junk

\* The lists and the table are as they were: so is what relates them.
LEMMA TableKept ==
  ASSUME CommandsInv, UNCHANGED <<blobCache, blobs, finalized>>
  PROVE  Matched' /\ UnderItsKey' /\ Locals' = Locals /\ Shared' = Shared /\ Held' = Held
<1>1. Held' = Held /\ Locals' = Locals /\ Shared' = Shared
  BY DEF Held, Locals, Shared
<1>2. Matched'
  <2> SUFFICES ASSUME ~finalized PROVE \E f \in [Shared -> blobCache] : Matching(f)'
    BY <1>1 DEF Matched
  <2>1. PICK f \in [Shared -> blobCache] : Matching(f)
    BY DEF CommandsInv, Matched
  <2>2. Matching(f)'
    BY <1>1, <2>1 DEF Matching
  <2> QED BY <2>2
<1>3. UnderItsKey'
  BY <1>1 DEF CommandsInv, UnderItsKey
<1> QED BY <1>1, <1>2, <1>3

\* A command has called ADLB: the blocks it holds are new.
LEMMA Called ==
  ASSUME CommandsInv, Idle, NEW w, NEW bufs, Lends(mem, w, bufs),
         SetMem(w), call'.bufs = bufs, UNCHANGED <<blobCache, blobs, leaked, finalized>>,
         NamesMember'
  PROVE  CommandsInv'
<1>1. /\ w \in Mems /\ w.fault = fault /\ bufs \in Seq(Int)
      /\ (\A i \in Lent(bufs) : bufs[i] \in Blocks \ DOMAIN heap)
      /\ (\A i, j \in Lent(bufs) : bufs[i] = bufs[j] => i = j)
      /\ DOMAIN w.heap = DOMAIN heap \cup {bufs[i] : i \in Lent(bufs)}
      /\ \A b \in DOMAIN heap : w.heap[b] = heap[b]
  BY DEF Lends, mem
<1>2. heap' = w.heap /\ fault' = w.fault
  BY DEF SetMem
<1>3. Matched' /\ UnderItsKey' /\ Locals' = Locals /\ Shared' = Shared /\ Held' = Held
  BY TableKept
<1>4. CommandsType'
  <2>1. mem' \in Mems
    BY <1>1, <1>2, MemMade
  <2> QED BY <1>1, <2>1 DEF CommandsInv, CommandsType
<1>5. Lent(call.bufs) = {}
  BY DEF Idle, NoCall, Lent
<1>6. /\ DOMAIN heap = {blobs[k].ptr : k \in Locals} \cup {e.block : e \in blobCache} \cup leaked
      /\ ({blobs[k].ptr : k \in Locals} \cup {e.block : e \in blobCache}) \cap leaked = {}
      /\ \A e \in blobCache : e.block \in DOMAIN heap
      /\ \A k \in Locals : blobs[k].ptr \in DOMAIN heap
  BY <1>5 DEF CommandsInv, LeftOver, Owned
<1>7. OneOwner'
  <2>1. \A e \in blobCache, i \in Lent(bufs) : e.block # bufs[i]
    BY <1>1, <1>6
  <2>2. \A k \in Locals, i \in Lent(bufs) : blobs[k].ptr # bufs[i]
    BY <1>1, <1>6
  <2> QED BY <1>1, <1>3, <2>1, <2>2 DEF CommandsInv, OneOwner
<1>8. LeftOver'
  <2> DEFINE O == {blobs[k].ptr : k \in Locals} \cup {e.block : e \in blobCache}
             B == {bufs[i] : i \in Lent(bufs)}
  <2>1. Owned' = O \cup B
    BY <1>3 DEF Owned
  <2>2. B \cap DOMAIN heap = {}
    BY <1>1
  <2>3. DOMAIN heap' = DOMAIN heap \cup B /\ DOMAIN heap = O \cup leaked /\ O \cap leaked = {}
    BY <1>1, <1>2, <1>6
  <2> HIDE DEF O, B
  <2> QED BY <2>1, <2>2, <2>3 DEF LeftOver
<1>9. BlobsValid'
  BY <1>1, <1>2 DEF CommandsInv, BlobsValid
<1> QED BY <1>2, <1>1, <1>3, <1>4, <1>7, <1>8, <1>9 DEF CommandsInv

\* Commands with one handle.
LEMMA OneHandle ==
  ASSUME CommandsInv, Idle, NEW p \in Parses, Ends(mem, p.mem, p.buf), NEW asked,
         NEW structAppend \in BOOLEAN, NEW keeps,
         CallAdlb(p.mem, <<asked>>, <<p>>, structAppend, keeps),
         UNCHANGED <<blobCache, blobs>>,
         ~structAppend /\ ~p.stale => asked = Passed(p.mem, p)
  PROVE  CommandsInv'
<1>0. mem \in Mems
  BY DEF CommandsInv, CommandsType
<1>1. Lends(mem, p.mem, Append(<<>>, p.buf))
  BY <1>0, LendsNothing, LendsOneMore
<1>2. /\ SetMem(p.mem) /\ UNCHANGED <<leaked, finalized>>
      /\ call' = [asked |-> <<asked>>,
                  passed |-> [i \in 1 .. Len(<<p>>) |-> Passed(p.mem, <<p>>[i])],
                  bufs |-> [i \in 1 .. Len(<<p>>) |-> <<p>>[i].buf],
                  structAppend |-> structAppend,
                  stale |-> \E i \in 1 .. Len(<<p>>) : <<p>>[i].stale,
                  keeps |-> keeps]
  BY DEF CallAdlb
<1>3. call'.bufs = Append(<<>>, p.buf)
  BY <1>2
<1>4. NamesMember'
  <2>1. ~structAppend /\ ~p.stale
        => [i \in 1 .. Len(<<p>>) |-> Passed(p.mem, <<p>>[i])] = <<asked>>
    OBVIOUS
  <2>2. ~call'.stale => ~p.stale
    BY <1>2
  <2> QED BY <1>2, <2>1, <2>2 DEF NamesMember
<1> QED BY <1>1, <1>2, <1>3, <1>4, Called

\* A command has returned an error: the blocks it holds are left behind.
LEMMA Abandoned ==
  ASSUME CommandsInv, Idle, NEW w, NEW bufs, Lends(mem, w, bufs), Abandon(w, bufs)
  PROVE  CommandsInv'
<1> DEFINE O == {blobs[k].ptr : k \in Locals} \cup {e.block : e \in blobCache}
           B == {bufs[i] : i \in Lent(bufs)}
<1>1. /\ w \in Mems /\ w.fault = fault
      /\ (\A i \in Lent(bufs) : bufs[i] \in Blocks \ DOMAIN heap)
      /\ DOMAIN w.heap = DOMAIN heap \cup {bufs[i] : i \in Lent(bufs)}
      /\ \A b \in DOMAIN heap : w.heap[b] = heap[b]
  BY DEF Lends, mem
<1>2. /\ heap' = w.heap /\ fault' = w.fault /\ leaked' = leaked \cup B
      /\ UNCHANGED <<blobCache, blobs, call, finalized>>
  BY DEF Abandon, Leak, SetMem
<1>3. Matched' /\ UnderItsKey' /\ Locals' = Locals /\ Shared' = Shared /\ Held' = Held
  BY <1>2, TableKept
<1>4. CommandsType'
  <2>1. mem' \in Mems
    BY <1>1, <1>2, MemMade
  <2> QED BY <1>2, <2>1 DEF CommandsInv, CommandsType
<1>5. OneOwner'
  BY <1>2, <1>3 DEF CommandsInv, OneOwner
<1>6. LeftOver'
  <2>1. Lent(call.bufs) = {}
    BY DEF Idle, NoCall, Lent
  <2>2. {call.bufs[i] : i \in Lent(call.bufs)} = {}
    BY <2>1
  <2>3. Owned = O
    BY <2>2 DEF Owned
  <2>4. Owned' = Owned
    BY <1>2, <1>3 DEF Owned
  <2>5. B \cap DOMAIN heap = {} /\ DOMAIN heap' = DOMAIN heap \cup B
    BY <1>1, <1>2
  <2>6. DOMAIN heap = O \cup leaked /\ O \cap leaked = {}
    BY <2>3 DEF CommandsInv, LeftOver
  <2> HIDE DEF O, B
  <2> QED BY <1>2, <2>3, <2>4, <2>5, <2>6 DEF LeftOver
<1>7. BlobsValid' /\ NamesMember' /\ ~fault'
  BY <1>1, <1>2 DEF CommandsInv, BlobsValid, NamesMember
<1> QED BY <1>3, <1>4, <1>5, <1>6, <1>7 DEF CommandsInv

\* Commands with one handle that fail.
LEMMA OneAbandoned ==
  ASSUME CommandsInv, Idle, NEW p \in Parses, Ends(mem, p.mem, p.buf), Abandon(p.mem, <<p.buf>>)
  PROVE  CommandsInv'
<1>0. mem \in Mems
  BY DEF CommandsInv, CommandsType
<1>1. Lends(mem, p.mem, Append(<<>>, p.buf))
  BY <1>0, LendsNothing, LendsOneMore
<1>2. Append(<<>>, p.buf) = <<p.buf>>
  OBVIOUS
<1> QED BY <1>1, <1>2, Abandoned

LEMMA CmdLookup ==
  ASSUME CommandsInv, NEW path \in Paths, NEW kind \in {"container", "struct"}, NEW sub \in Subs,
         NEW moves \in BOOLEAN, Lookup(path, kind, sub, moves)
  PROVE  CommandsInv'
<1> DEFINE p == MemberParse(path, kind, sub, moves)
<1>1. MemberParsed(mem, path, kind, sub, p)
  BY MemberParses DEF CommandsInv, CommandsType
<1>2. /\ Idle
      /\ \/ /\ CallAdlb(p.mem, <<Asked(path, kind, sub)>>, <<p>>,
                        AppendsStruct(path, kind, sub), TRUE)
            /\ UNCHANGED <<blobCache, blobs>>
         \/ Abandon(p.mem, <<p.buf>>)
  BY DEF Lookup
<1> HIDE DEF p
<1>3. /\ p \in Parses /\ p.id = path.id /\ Ends(mem, p.mem, p.buf)
      /\ ~AppendsStruct(path, kind, sub) /\ ~p.stale => Reads(p, Asked(path, kind, sub)[2])
  BY <1>1 DEF MemberParsed
<1>4. ~AppendsStruct(path, kind, sub) /\ ~p.stale => Asked(path, kind, sub) = Passed(p.mem, p)
  <2>1. Asked(path, kind, sub) = <<path.id, Asked(path, kind, sub)[2]>>
    BY DEF Asked
  <2> QED BY <1>3, <2>1 DEF Reads, Passed
<1>5. AppendsStruct(path, kind, sub) \in BOOLEAN
  BY DEF AppendsStruct
<1>6. CASE Abandon(p.mem, <<p.buf>>)
  BY <1>2, <1>3, <1>6, OneAbandoned
<1> QED BY <1>2, <1>3, <1>4, <1>5, <1>6, OneHandle

LEMMA CmdInsertAtomic ==
  ASSUME CommandsInv, NEW path \in Paths, NEW sub \in Subs, NEW moves \in BOOLEAN,
         InsertAtomic(path, sub, moves)
  PROVE  CommandsInv'
<1> DEFINE p == MemberParse(path, "container", sub, moves)
<1>1. MemberParsed(mem, path, "container", sub, p)
  BY MemberParses DEF CommandsInv, CommandsType
<1>2. /\ Idle
      /\ \/ /\ CallAdlb(p.mem, <<Asked(path, "container", sub)>>, <<p>>, FALSE, TRUE)
            /\ UNCHANGED <<blobCache, blobs>>
         \/ Abandon(p.mem, <<p.buf>>)
  BY DEF InsertAtomic
<1> HIDE DEF p
<1>3. /\ p \in Parses /\ p.id = path.id /\ Ends(mem, p.mem, p.buf)
      /\ ~p.stale => Reads(p, Asked(path, "container", sub)[2])
  BY <1>1 DEF MemberParsed, AppendsStruct
<1>4. ~p.stale => Asked(path, "container", sub) = Passed(p.mem, p)
  <2>1. Asked(path, "container", sub) = <<path.id, Asked(path, "container", sub)[2]>>
    BY DEF Asked
  <2> QED BY <1>3, <2>1 DEF Reads, Passed
<1>5. CASE Abandon(p.mem, <<p.buf>>)
  BY <1>2, <1>3, <1>5, OneAbandoned
<1> QED BY <1>2, <1>3, <1>4, <1>5, OneHandle

LEMMA CmdSubscribe ==
  ASSUME CommandsInv, NEW path \in Paths, Subscribe(path) PROVE CommandsInv'
<1> DEFINE p == ParseHandle(mem, HandleOf(path), TRUE)
           asked == <<path.id, MemberOf(path, <<>>)>>
<1>1. HandleParsed(mem, path, TRUE, p)
  BY HandleParses DEF CommandsInv, CommandsType
<1>2. /\ Idle
      /\ \/ CallAdlb(p.mem, <<asked>>, <<p>>, FALSE, TRUE) /\ UNCHANGED <<blobCache, blobs>>
         \/ Abandon(p.mem, <<p.buf>>)
  BY DEF Subscribe
<1> HIDE DEF p
<1>3. p \in Parses /\ p.id = path.id /\ Ends(mem, p.mem, p.buf) /\ Reads(p, MemberOf(path, <<>>))
  BY <1>1 DEF HandleParsed
<1>4. asked = Passed(p.mem, p)
  BY <1>3 DEF Reads, Passed
<1> HIDE DEF asked
<1>5. CASE Abandon(p.mem, <<p.buf>>)
  BY <1>2, <1>3, <1>5, OneAbandoned
<1> QED BY <1>2, <1>3, <1>4, <1>5, OneHandle

LEMMA CmdReference ==
  ASSUME CommandsInv, NEW path \in Paths, NEW kind \in {"container", "struct"}, NEW sub \in Subs,
         NEW ref \in Paths, NEW moves \in BOOLEAN, Reference(path, kind, sub, ref, moves)
  PROVE  CommandsInv'
<1> DEFINE p == MemberParse(path, kind, sub, moves)
           r == ParseHandle(p.mem, HandleOf(ref), FALSE)
           asked == <<Asked(path, kind, sub), <<ref.id, MemberOf(ref, <<>>)>>>>
           s == AppendsStruct(path, kind, sub)
<1>0. mem \in Mems
  BY DEF CommandsInv, CommandsType
<1>1. MemberParsed(mem, path, kind, sub, p)
  BY <1>0, MemberParses
<1>2. /\ Idle
      /\ \/ CallAdlb(r.mem, asked, <<p, r>>, s, FALSE) /\ UNCHANGED <<blobCache, blobs>>
         \/ Abandon(p.mem, <<p.buf>>)
         \/ Abandon(r.mem, <<p.buf, r.buf>>)
  BY DEF Reference
<1> HIDE DEF p
<1>3. /\ p \in Parses /\ p.id = path.id /\ Ends(mem, p.mem, p.buf) /\ p.mem \in Mems
      /\ ~s /\ ~p.stale => Reads(p, Asked(path, kind, sub)[2])
  BY <1>1 DEF MemberParsed, Ends
<1>4. HandleParsed(p.mem, ref, FALSE, r)
  BY <1>3, HandleParses
<1> HIDE DEF r
<1>5. /\ r \in Parses /\ r.id = ref.id /\ Ends(p.mem, r.mem, r.buf) /\ r.mem \in Mems
      /\ Reads(r, MemberOf(ref, <<>>)) /\ Keeps(p.mem, r.mem)
  BY <1>3, <1>4, ParseKeeps DEF HandleParsed, Ends
<1>6. Lends(mem, r.mem, Append(Append(<<>>, p.buf), r.buf))
  <2>1. Lends(mem, p.mem, Append(<<>>, p.buf))
    BY <1>0, <1>3, LendsNothing, LendsOneMore
  <2> QED BY <1>0, <1>5, <2>1, LendsOneMore
<1> HIDE DEF asked
<1>7. CASE Abandon(p.mem, <<p.buf>>)
  BY <1>2, <1>3, <1>7, OneAbandoned
<1>8. CASE Abandon(r.mem, <<p.buf, r.buf>>)
  <2> DEFINE c == p.buf
             d == r.buf
  <2>3. c \in Int /\ d \in Int
    BY <1>3, <1>5 DEF Parses
  <2> HIDE DEF c, d
  <2>2. Append(Append(<<>>, c), d) = <<c, d>>
    <3>1. Append(<<>>, c) = <<c>> /\ <<c>> \in Seq(Int) /\ <<c, d>> \in Seq(Int)
      BY <2>3
    <3>2. Append(<<c>>, d) = <<c, d>>
      <4>1. /\ Append(<<c>>, d) \in Seq(Int) /\ Len(Append(<<c>>, d)) = 2
            /\ Append(<<c>>, d)[1] = c /\ Append(<<c>>, d)[2] = d
        BY <2>3, <3>1
      <4>2. Len(<<c, d>>) = 2 /\ <<c, d>>[1] = c /\ <<c, d>>[2] = d
        OBVIOUS
      <4>3. \A i \in 1 .. 2 : Append(<<c>>, d)[i] = <<c, d>>[i]
        BY <4>1, <4>2
      <4> QED BY <3>1, <4>1, <4>2, <4>3, SeqEqual
    <3> QED BY <3>1, <3>2
  <2>1. Append(Append(<<>>, p.buf), r.buf) = <<p.buf, r.buf>>
    BY <2>2 DEF c, d
  <2> QED BY <1>2, <1>6, <1>8, <2>1, Abandoned
<1>9. CASE CallAdlb(r.mem, asked, <<p, r>>, s, FALSE) /\ UNCHANGED <<blobCache, blobs>>
  <2>1. /\ SetMem(r.mem) /\ UNCHANGED <<blobCache, blobs, leaked, finalized>>
        /\ call' = [asked |-> asked,
                    passed |-> [i \in 1 .. Len(<<p, r>>) |-> Passed(r.mem, <<p, r>>[i])],
                    bufs |-> [i \in 1 .. Len(<<p, r>>) |-> <<p, r>>[i].buf],
                    structAppend |-> s,
                    stale |-> \E i \in 1 .. Len(<<p, r>>) : <<p, r>>[i].stale,
                    keeps |-> FALSE]
    BY <1>9 DEF CallAdlb
  <2>2. call'.bufs = Append(Append(<<>>, p.buf), r.buf)
    BY <2>1
  <2>3. NamesMember'
    <3> SUFFICES ASSUME ~s, ~p.stale PROVE call'.passed = call'.asked
      BY <2>1 DEF NamesMember
    <3>1. Asked(path, kind, sub) = <<path.id, Asked(path, kind, sub)[2]>>
      BY DEF Asked
    <3>2. Passed(r.mem, p) = Asked(path, kind, sub)
      BY <1>3, <1>5, <3>1, ReadsOn DEF Passed
    <3>3. Passed(r.mem, r) = <<ref.id, MemberOf(ref, <<>>)>>
      BY <1>5 DEF Reads, Passed
    <3>4. [i \in 1 .. Len(<<p, r>>) |-> Passed(r.mem, <<p, r>>[i])]
          = <<Passed(r.mem, p), Passed(r.mem, r)>>
      OBVIOUS
    <3> QED BY <2>1, <3>2, <3>3, <3>4 DEF asked
  <2> QED BY <1>2, <1>6, <2>1, <2>2, <2>3, Called
<1> QED BY <1>2, <1>7, <1>8, <1>9

LEMMA CmdRule ==
  ASSUME CommandsInv, NEW paths \in Seq(Paths), Rule(paths) PROVE CommandsInv'
<1> DEFINE ids == ExtractIds(paths)
           n == Len(paths)
           bufs == [i \in 1 .. Len(ids.parses) |-> ids.parses[i].buf]
           asked == [i \in 1 .. n |-> <<paths[i].id, MemberOf(paths[i], <<>>)>>]
           passed == [i \in 1 .. Len(ids.parses) |-> Passed(ids.mem, ids.parses[i])]
<1>1. /\ Len(ids.parses) = n /\ Lends(mem, ids.mem, bufs)
      /\ \A i \in 1 .. Len(ids.parses) :
           Passed(ids.mem, ids.parses[i]) = <<paths[i].id, MemberOf(paths[i], <<>>)>>
  BY IdsParsed DEF CommandsInv, CommandsType
<1>2. /\ Idle /\ UNCHANGED <<blobCache, blobs, leaked, finalized>> /\ SetMem(ids.mem)
      /\ call' = [asked |-> asked, passed |-> passed, bufs |-> bufs, structAppend |-> FALSE,
                  stale |-> \E i \in 1 .. Len(ids.parses) : ids.parses[i].stale,
                  keeps |-> TRUE]
  BY DEF Rule, CallAdlb
<1>3. passed = asked
  BY <1>1
<1> HIDE DEF ids, bufs, passed, asked
<1>4. call'.bufs = bufs /\ NamesMember'
  BY <1>2, <1>3 DEF NamesMember
<1> QED BY <1>1, <1>2, <1>4, Called

LEMMA CmdRuleError ==
  ASSUME CommandsInv, NEW paths \in Seq(Paths), RuleError(paths) PROVE CommandsInv'
<1> DEFINE ids == ExtractIds(paths)
<1>1. /\ Len(ids.parses) = Len(paths)
      /\ Lends(mem, ids.mem, [i \in 1 .. Len(ids.parses) |-> ids.parses[i].buf])
  BY IdsParsed DEF CommandsInv, CommandsType
<1>2. Idle /\ Abandon(ids.mem, [i \in 1 .. Len(paths) |-> ids.parses[i].buf])
  BY DEF RuleError
<1> HIDE DEF ids
<1> QED BY <1>1, <1>2, Abandoned

\* The blocks of the lists the program may still rely on, and of the table, are
\* not those of a command.
LEMMA Apart ==
  ASSUME CommandsInv
  PROVE  /\ \A k \in Held : ~blobs[k].freed /\ ~finalized =>
              \A i \in Lent(call.bufs) : blobs[k].ptr # call.bufs[i]
         /\ \A i \in Lent(call.bufs) : call.bufs[i] \in DOMAIN heap
<1>1. Held = Locals \cup Shared
  BY DEF Locals, Shared
<1>2. ASSUME NEW k \in Held, ~blobs[k].freed, ~finalized, NEW i \in Lent(call.bufs)
      PROVE  blobs[k].ptr # call.bufs[i]
  <2>1. CASE k \in Locals
    BY <2>1 DEF CommandsInv, OneOwner
  <2>2. CASE k \in Shared
    <3> DEFINE e == [key |-> KeyOf(blobs[k].path), block |-> blobs[k].ptr]
    <3>1. e \in blobCache /\ e.block = blobs[k].ptr
      BY <1>2, <2>2 DEF CommandsInv, UnderItsKey
    <3> HIDE DEF e
    <3> QED BY <3>1 DEF CommandsInv, OneOwner
  <2> QED BY <1>1, <2>1, <2>2
<1>3. \A i \in Lent(call.bufs) : call.bufs[i] \in DOMAIN heap
  BY DEF CommandsInv, LeftOver, Owned
<1> QED BY <1>2, <1>3

LEMMA CmdReturn == ASSUME CommandsInv, Return PROVE CommandsInv'
<1> DEFINE f == [i \in Lent(call.bufs) |-> call.bufs[i]]
           w == FreeAll(mem, f)
           D == DOMAIN heap \ {f[i] : i \in DOMAIN f}
<1>1. SetMem(w) /\ call' = NoCall /\ UNCHANGED <<blobCache, blobs, leaked, finalized>>
  BY DEF Return
<1>2. /\ mem \in Mems /\ mem.heap = heap /\ mem.fault = fault
      /\ DOMAIN f = Lent(call.bufs) /\ \A i \in DOMAIN f : f[i] = call.bufs[i]
  BY DEF CommandsInv, CommandsType, mem
<1>3. /\ \A i \in DOMAIN f : f[i] \in DOMAIN mem.heap
      /\ \A i, j \in DOMAIN f : f[i] = f[j] => i = j
  BY <1>2, Apart DEF CommandsInv, OneOwner
<1> HIDE DEF f
<1>4. w \in Mems /\ w.fault = fault /\ DOMAIN w.heap = D /\ \A c \in D : w.heap[c] = heap[c]
  BY <1>2, <1>3, FreeAllIs
<1> HIDE DEF w
<1>5. heap' = w.heap /\ fault' = w.fault
  BY <1>1 DEF SetMem
<1>6. Matched' /\ UnderItsKey' /\ Locals' = Locals /\ Shared' = Shared /\ Held' = Held
  BY <1>1, TableKept
<1>7. call'.bufs = <<>> /\ Lent(<<>>) = {} /\ <<>> \in Seq(Int)
  BY <1>1 DEF NoCall, Lent
<1>8. CommandsType'
  <2>1. mem' \in Mems
    BY <1>4, <1>5, MemMade
  <2> QED BY <1>1, <1>7, <2>1 DEF CommandsInv, CommandsType
<1>9. OneOwner'
  BY <1>1, <1>6, <1>7 DEF CommandsInv, OneOwner
<1>10. LeftOver'
  <2> DEFINE O == {blobs[k].ptr : k \in Locals} \cup {e.block : e \in blobCache}
             B == {call.bufs[i] : i \in Lent(call.bufs)}
  <2>1. DOMAIN heap = O \cup B \cup leaked /\ (O \cup B) \cap leaked = {}
    BY DEF CommandsInv, LeftOver, Owned
  <2>2. {f[i] : i \in DOMAIN f} = B
    BY <1>2
  <2>3. Owned' = O
    BY <1>1, <1>6, <1>7 DEF Owned
  <2>4. \A k \in Locals, i \in Lent(call.bufs) : blobs[k].ptr # call.bufs[i]
    BY DEF CommandsInv, OneOwner
  <2>5. \A e \in blobCache, i \in Lent(call.bufs) : e.block # call.bufs[i]
    BY DEF CommandsInv, OneOwner
  <2>6. O \cap B = {}
    BY ONLY <2>4, <2>5
  <2>7. DOMAIN heap' = DOMAIN heap \ B
    BY <1>4, <1>5, <2>2
  <2> HIDE DEF O, B
  <2>8. leaked' = leaked
    BY <1>1
  <2> QED BY <2>1, <2>3, <2>6, <2>7, <2>8 DEF LeftOver
<1>11. BlobsValid'
  <2> SUFFICES ASSUME ~finalized, NEW k \in 1 .. MaxBlobs, blobs[k] # NoBlob, ~blobs[k].freed
               PROVE  blobs[k].ptr \in D /\ heap[blobs[k].ptr] = blobs[k].data
    BY <1>1, <1>4, <1>5 DEF BlobsValid
  <2>1. k \in Held
    BY DEF Held
  <2>2. blobs[k].ptr \in DOMAIN heap /\ heap[blobs[k].ptr] = blobs[k].data
    BY DEF CommandsInv, BlobsValid
  <2>3. \A i \in DOMAIN f : f[i] # blobs[k].ptr
    BY <1>2, <2>1, Apart
  <2> QED BY <2>2, <2>3
<1>12. NamesMember'
  BY <1>1 DEF NamesMember, NoCall
<1>13. ~fault'
  BY <1>4, <1>5 DEF CommandsInv
<1> QED BY <1>6, <1>8, <1>9, <1>10, <1>11, <1>12, <1>13 DEF CommandsInv

\* A command that does not get to its cleanup hands its blocks to nobody.
LEMMA CmdReturnError == ASSUME CommandsInv, ReturnError PROVE CommandsInv'
<1> DEFINE O == {blobs[k].ptr : k \in Locals} \cup {e.block : e \in blobCache}
           B == {call.bufs[i] : i \in Lent(call.bufs)}
<1>1. /\ call' = NoCall /\ leaked' = leaked \cup B
      /\ UNCHANGED <<heap, fault, blobCache, blobs, finalized>>
  BY DEF ReturnError, Leak
<1>2. Matched' /\ UnderItsKey' /\ Locals' = Locals /\ Shared' = Shared /\ Held' = Held
  BY <1>1, TableKept
<1>3. call'.bufs = <<>> /\ Lent(<<>>) = {} /\ <<>> \in Seq(Int)
  BY <1>1 DEF NoCall, Lent
<1>4. CommandsType'
  <2>1. mem' \in Mems
    BY <1>1, MemMade DEF CommandsInv, CommandsType, mem
  <2> QED BY <1>1, <1>3, <2>1 DEF CommandsInv, CommandsType
<1>5. OneOwner'
  BY <1>1, <1>2, <1>3 DEF CommandsInv, OneOwner
<1>6. LeftOver'
  <2>1. DOMAIN heap = O \cup B \cup leaked /\ (O \cup B) \cap leaked = {}
    BY DEF CommandsInv, LeftOver, Owned
  <2>2. {call'.bufs[i] : i \in Lent(call'.bufs)} = {}
    BY <1>3
  <2>3. Owned' = O
    BY <1>1, <1>2, <2>2 DEF Owned
  <2>4. O \cap B = {}
    <3>1. \A k \in Locals, i \in Lent(call.bufs) : blobs[k].ptr # call.bufs[i]
      BY DEF CommandsInv, OneOwner
    <3>2. \A e \in blobCache, i \in Lent(call.bufs) : e.block # call.bufs[i]
      BY DEF CommandsInv, OneOwner
    <3> QED BY ONLY <3>1, <3>2
  <2> HIDE DEF O, B
  <2> QED BY <1>1, <2>1, <2>3, <2>4 DEF LeftOver
<1>7. BlobsValid' /\ NamesMember' /\ ~fault'
  BY <1>1 DEF CommandsInv, BlobsValid, NamesMember, NoCall
<1> QED BY <1>2, <1>4, <1>5, <1>6, <1>7 DEF CommandsInv

-----------------------------------------------------------------------------
(* Blobs. *)

LEMMA Cancel ==
  /\ \A s, t, v \in Str : s \o t = s \o v => t = v
  /\ \A s, t, v \in Str : s \o v = t \o v => s = t
BY ConcatSimplifications DEF Str

LEMMA KeyType == ASSUME NEW path \in BlobPaths PROVE KeyOf(path) \in Str
<1>1. path.id \in Str /\ SubsText(path) \in Str /\ SubsText(path) \o <<Nul>> \in Str
  BY PathParts, SubsTextParts, Terminated
<1>2. MemberOf(path, <<>>) \in Str
  BY <1>1, MembersAre, StrEmpty
<1> QED BY <1>1, <1>2, StrConcat DEF KeyOf

\* blob_cache_key tells the handles of blobs apart.
LEMMA KeysDiffer ==
  ASSUME NEW path \in BlobPaths, NEW other \in BlobPaths, KeyOf(path) = KeyOf(other)
  PROVE  path = other
<1> DEFINE a == path.id
           b == other.id
           m == MemberOf(path, <<>>)
           n == MemberOf(other, <<>>)
           s == SubsText(path)
           t == SubsText(other)
<1>1. /\ a \in Str /\ Len(a) = 1 /\ b \in Str /\ Len(b) = 1
      /\ path.subs \in Seq(Str) /\ other.subs \in Seq(Str)
      /\ path = [id |-> a, subs |-> path.subs] /\ other = [id |-> b, subs |-> other.subs]
  BY PathParts
<1>2. /\ s \in Str /\ t \in Str /\ (s = <<>> <=> path.subs = <<>>) /\ (t = <<>> <=> other.subs = <<>>)
      /\ m = (IF path.subs = <<>> THEN <<>> ELSE s \o <<Nul>>)
      /\ n = (IF other.subs = <<>> THEN <<>> ELSE t \o <<Nul>>)
  BY SubsTextParts, MembersAre
<1>3. <<Nul>> \in Str /\ <<Dot>> \in Str /\ Len(<<Dot>>) = 1 /\ <<Dot>>[1] = Dot
  BY DotNul, StrOne
<1>4. m \in Str /\ n \in Str /\ a \o m = b \o n
  BY <1>2, <1>3, StrConcat, StrEmpty DEF KeyOf
<1> HIDE DEF a, b, m, n, s, t
<1>5. a = b
  <2>1. 1 \in 1 .. Len(a) /\ 1 \in 1 .. Len(b)
    BY <1>1
  <2>2. a[1] = (a \o m)[1] /\ b[1] = (b \o n)[1]
    BY <1>1, <1>4, <2>1, StrConcat
  <2>3. a[1] = b[1]
    BY <1>4, <2>2
  <2>4. \A i \in 1 .. Len(a) : i = 1
    BY <1>1
  <2>5. \A i \in 1 .. Len(a) : a[i] = b[i]
    BY <2>3, <2>4
  <2> QED BY <1>1, <2>5, StrEqual
<1>6. m = n
  BY <1>1, <1>4, <1>5, Cancel
<1>7. s = t /\ (path.subs = <<>> <=> other.subs = <<>>)
  <2>1. path.subs = <<>> <=> other.subs = <<>>
    <3>1. path.subs # <<>> => m # <<>>
      BY <1>2, <1>3, Terminated, StrEmpty, StrLen
    <3>2. other.subs # <<>> => n # <<>>
      BY <1>2, <1>3, Terminated, StrEmpty, StrLen
    <3> QED BY <1>2, <1>6, <3>1, <3>2
  <2>2. CASE path.subs = <<>>
    BY <1>2, <2>1, <2>2
  <2>3. CASE path.subs # <<>>
    <3>1. s \o <<Nul>> = t \o <<Nul>>
      BY <1>2, <1>6, <2>1, <2>3
    <3> QED BY <1>2, <1>3, <2>1, <3>1, Cancel
  <2> QED BY <2>2, <2>3
<1>8. CASE path.subs = <<>>
  BY <1>1, <1>5, <1>7, <1>8
<1>9. CASE path.subs # <<>>
  <2> DEFINE u == SubscriptHandle(<<>>, path.subs)
             v == SubscriptHandle(<<>>, other.subs)
  <2>1. /\ u \in Str /\ Len(u) = Len(s) + 1 /\ u[1] = Dot /\ s = Tail(u)
        /\ v \in Str /\ Len(v) = Len(t) + 1 /\ v[1] = Dot /\ t = Tail(v)
    BY <1>7, <1>9, SubsTextParts DEF s, t, SubsText
  <2>2. HandleOf(path) = a \o u /\ HandleOf(other) = b \o v
    BY <1>1, HandleSplit DEF HandleOf, a, b
  <2> HIDE DEF u, v
  <2>3. u = v
    <3>1. Len(u) = Len(v) /\ Len(u) \in Nat /\ Len(u) >= 1 /\ Len(v) >= 1
      BY <1>2, <1>7, <2>1, StrLen
    <3>2. /\ \A i \in 1 .. Len(u) - 1 : s[i] = u[i + 1]
          /\ \A i \in 1 .. Len(v) - 1 : t[i] = v[i + 1]
      BY <2>1, <3>1, StrTail
    <3>3. ASSUME NEW i \in 1 .. Len(u) PROVE u[i] = v[i]
      <4>1. CASE i = 1
        BY <2>1, <4>1
      <4>2. CASE i # 1
        <5>1. PICK j \in 1 .. Len(u) - 1 : j + 1 = i
          <6>1. i - 1 \in 1 .. Len(u) - 1 /\ (i - 1) + 1 = i
            BY <3>1, <4>2
          <6> QED BY <6>1
        <5>2. s[j] = u[i] /\ t[j] = v[i]
          BY <3>1, <3>2, <5>1
        <5> QED BY <1>7, <5>2
      <4> QED BY <4>1, <4>2
    <3> QED BY <2>1, <3>1, <3>3, StrEqual
  <2>4. HandleOf(path) = HandleOf(other)
    BY <1>5, <2>2, <2>3
  <2> QED BY <2>4, CommandsAssumption
<1> QED BY <1>8, <1>9

\* A variable of the program that holds a blob.
LEMMA Holds ==
  ASSUME CommandsInv
  PROVE  /\ Held = Locals \cup Shared /\ Locals \cap Shared = {} /\ Held \subseteq 1 .. MaxBlobs
         /\ \A k \in 1 .. MaxBlobs :
              blobs[k] = [ptr |-> blobs[k].ptr, data |-> blobs[k].data, path |-> blobs[k].path,
                          freed |-> blobs[k].freed]
         /\ \A k \in Shared : blobs[k].path \in BlobPaths /\ blobs[k].path # NoHandle
         /\ \A k \in 1 .. MaxBlobs : blobs[k].path # NoHandle => k \in Shared
         /\ \A k \in Locals : blobs[k].path = NoHandle
<1>1. \A k \in 1 .. MaxBlobs :
        blobs[k] \in [ptr : Int, data : Str, freed : BOOLEAN, path : BlobPaths \cup {NoHandle}]
  BY DEF CommandsInv, CommandsType
<1>2. NoBlob.path = NoHandle
  BY DEF NoBlob
<1> QED BY <1>1, <1>2 DEF Held, Locals, Shared

LEMMA NotNoHandle == \A path \in Paths \cup BlobPaths : path # NoHandle
<1>1. NoHandle.id = <<>>
  BY DEF NoHandle
<1> QED BY <1>1, PathParts, StrEmpty

\* The table while no command runs.
LEMMA AtRest ==
  ASSUME CommandsInv, Idle
  PROVE  /\ ~finalized /\ call.bufs = <<>> /\ Lent(call.bufs) = {}
         /\ mem \in Mems /\ mem.heap = heap /\ mem.fault = fault /\ ~fault
         /\ DOMAIN heap = {blobs[k].ptr : k \in Locals} \cup {e.block : e \in blobCache} \cup leaked
         /\ ({blobs[k].ptr : k \in Locals} \cup {e.block : e \in blobCache}) \cap leaked = {}
         /\ leaked \subseteq DOMAIN heap
         /\ \A e \in blobCache : e.block \in DOMAIN heap /\ e.block \in Blocks
         /\ \A k \in Locals : blobs[k].ptr \in DOMAIN heap
<1>1. call.bufs = <<>> /\ Lent(<<>>) = {} /\ ~finalized
  BY DEF Idle, NoCall, Lent
<1>2. /\ DOMAIN heap = {blobs[k].ptr : k \in Locals} \cup {e.block : e \in blobCache} \cup leaked
      /\ ({blobs[k].ptr : k \in Locals} \cup {e.block : e \in blobCache}) \cap leaked = {}
  BY <1>1 DEF CommandsInv, LeftOver, Owned
<1>3. mem \in Mems /\ mem.heap = heap /\ mem.fault = fault /\ ~fault
  BY DEF CommandsInv, CommandsType, mem
<1>4. DOMAIN heap \subseteq Blocks
  BY <1>3, MemParts
<1> QED BY <1>1, <1>2, <1>3, <1>4

\* A variable without a blob is given one.
Given(k, b, data, path) ==
    /\ blobs' \in [1 .. MaxBlobs -> [ptr : Int, data : Str, freed : BOOLEAN,
                                     path : BlobPaths \cup {NoHandle}]]
    /\ blobs'[k].ptr = b /\ blobs'[k].data = data /\ blobs'[k].path = path
    /\ ~blobs'[k].freed /\ k \notin Held
    /\ \A j \in Held : j # k /\ blobs'[j] = blobs[j]
    /\ Held' = Held \cup {k}
    /\ Locals' = Locals \cup (IF path = NoHandle THEN {k} ELSE {})
    /\ Shared' = Shared \cup (IF path = NoHandle THEN {} ELSE {k})

LEMMA BlobGiven ==
  ASSUME CommandsInv, NEW k \in 1 .. MaxBlobs, blobs[k] = NoBlob, NEW b \in Blocks,
         NEW data \in Str, NEW path \in BlobPaths \cup {NoHandle},
         blobs' = [blobs EXCEPT ![k] = BlobValue(b, data, path)]
  PROVE  Given(k, b, data, path)
<1> DEFINE T == [ptr : Int, data : Str, freed : BOOLEAN, path : BlobPaths \cup {NoHandle}]
           v == BlobValue(b, data, path)
<1>1. blobs \in [1 .. MaxBlobs -> T]
  BY DEF CommandsInv, CommandsType
<1>2. /\ v \in T /\ v.ptr = b /\ v.data = data /\ v.path = path /\ v.freed = FALSE
      /\ v.ptr # Null
  BY Places DEF BlobValue, Blocks
<1>3. v # NoBlob
  BY <1>2 DEF NoBlob
<1> HIDE DEF v, T
<1>4. /\ blobs' \in [1 .. MaxBlobs -> T] /\ blobs'[k] = v
      /\ \A j \in 1 .. MaxBlobs : j # k => blobs'[j] = blobs[j]
  BY <1>1, <1>2 DEF v
<1>5. k \notin Held /\ \A j \in Held : j # k /\ j \in 1 .. MaxBlobs
  BY DEF Held
<1>6. Held' = Held \cup {k}
  BY <1>3, <1>4, <1>5 DEF Held
<1>7. Locals' = Locals \cup (IF path = NoHandle THEN {k} ELSE {})
  BY <1>2, <1>4, <1>5, <1>6 DEF Locals
<1>8. Shared' = Shared \cup (IF path = NoHandle THEN {} ELSE {k})
  BY <1>2, <1>4, <1>5, <1>6, <1>7 DEF Shared, Locals
<1> QED BY <1>2, <1>4, <1>5, <1>6, <1>7, <1>8 DEF T, Given

LEMMA CmdBlobFromList ==
  ASSUME CommandsInv, NEW k \in 1 .. MaxBlobs, NEW list \in Lists, BlobFromList(list, k)
  PROVE  CommandsInv'
<1> DEFINE b == Fresh(mem)
           w == SetContents(mem, b, list)
<1>0. /\ Idle /\ blobs[k] = NoBlob
      /\ \/ /\ SetMem(w) /\ blobs' = [blobs EXCEPT ![k] = BlobValue(b, list, NoHandle)]
            /\ UNCHANGED <<blobCache, call, leaked, finalized>>
         \/ Abandon(w, <<b>>)
  BY DEF BlobFromList, Malloc
<1>2. list \in Str
  BY CommandsAssumption DEF Str
<1>3. /\ ~finalized /\ call.bufs = <<>> /\ Lent(call.bufs) = {}
      /\ mem \in Mems /\ mem.heap = heap /\ mem.fault = fault /\ ~fault
      /\ DOMAIN heap = {blobs[j].ptr : j \in Locals} \cup {e.block : e \in blobCache} \cup leaked
      /\ ({blobs[j].ptr : j \in Locals} \cup {e.block : e \in blobCache}) \cap leaked = {}
      /\ \A e \in blobCache : e.block \in DOMAIN heap /\ e.block \in Blocks
      /\ \A j \in Locals : blobs[j].ptr \in DOMAIN heap
  BY <1>0, AtRest
<1>4. b \in Blocks /\ b \notin DOMAIN heap
  BY <1>3, FreshBlock
<1> HIDE DEF b
<1>5. /\ w \in Mems /\ w.fault = fault /\ DOMAIN w.heap = DOMAIN heap \cup {b}
      /\ \A c \in DOMAIN heap : w.heap[c] = heap[c]
      /\ w.heap[b] = list
  <2>1. /\ w \in Mems /\ w.fault = mem.fault
        /\ DOMAIN w.heap = DOMAIN mem.heap \cup ({b} \cap Blocks)
        /\ \A c \in DOMAIN mem.heap \ {b} : w.heap[c] = mem.heap[c]
        /\ b # Scratch => w.scratch = mem.scratch /\ w.heap[b] = list
    BY <1>2, <1>3, <1>4, SetIs
  <2>2. b # Scratch /\ {b} \cap Blocks = {b}
    BY <1>4, Places
  <2> HIDE DEF w
  <2> QED BY <1>3, <1>4, <2>1, <2>2
<1> HIDE DEF w
<1>16. CASE Abandon(w, <<b>>)
  <2>1. /\ Append(<<>>, b) = <<b>> /\ b \in Int /\ {b} \cap Blocks = {b}
        /\ b \notin {Null, Scratch}
    BY <1>4, Places DEF Blocks
  <2>2. Ends(mem, w, b)
    BY <1>3, <1>4, <1>5, <2>1 DEF Ends
  <2>3. Lends(mem, w, Append(<<>>, b))
    BY <1>3, <2>2, LendsNothing, LendsOneMore
  <2> QED BY <1>0, <1>16, <2>1, <2>3, Abandoned
<1> SUFFICES ASSUME ~Abandon(w, <<b>>) PROVE CommandsInv'
  BY <1>16
<1>1. /\ Idle /\ blobs[k] = NoBlob /\ SetMem(w)
      /\ blobs' = [blobs EXCEPT ![k] = BlobValue(b, list, NoHandle)]
      /\ UNCHANGED <<blobCache, call, leaked, finalized>>
  BY <1>0
<1>6. heap' = w.heap /\ fault' = w.fault
  BY <1>1 DEF SetMem
<1>7. /\ blobs' \in [1 .. MaxBlobs -> [ptr : Int, data : Str, freed : BOOLEAN,
                                       path : BlobPaths \cup {NoHandle}]]
      /\ blobs'[k].ptr = b /\ blobs'[k].data = list /\ blobs'[k].path = NoHandle /\ k \notin Held
      /\ \A j \in Held : j # k /\ blobs'[j] = blobs[j]
      /\ Held' = Held \cup {k} /\ Locals' = Locals \cup {k} /\ Shared' = Shared
  <2>1. NoHandle \in BlobPaths \cup {NoHandle}
    OBVIOUS
  <2>2. Given(k, b, list, NoHandle)
    BY <1>1, <1>2, <1>4, <2>1, BlobGiven
  <2> QED BY <2>2 DEF Given
<1>8. Held = Locals \cup Shared /\ Held \subseteq 1 .. MaxBlobs
  BY Holds
<1>9. CommandsType'
  <2>1. mem' \in Mems
    BY <1>5, <1>6, MemMade
  <2> QED BY <1>1, <1>7, <2>1 DEF CommandsInv, CommandsType
<1>10. OneOwner'
  <2>1. \A i, j \in Locals' : blobs'[i].ptr = blobs'[j].ptr => i = j
    <3> SUFFICES ASSUME NEW i \in Locals', NEW j \in Locals', blobs'[i].ptr = blobs'[j].ptr
                 PROVE  i = j
      OBVIOUS
    <3>1. CASE i \in Locals /\ j \in Locals
      BY <1>7, <1>8, <3>1 DEF CommandsInv, OneOwner
    <3>2. CASE i = k /\ j \in Locals
      BY <1>3, <1>4, <1>7, <1>8, <3>2
    <3>3. CASE j = k /\ i \in Locals
      BY <1>3, <1>4, <1>7, <1>8, <3>3
    <3> QED BY <1>7, <3>1, <3>2, <3>3
  <2>2. \A e \in blobCache, j \in Locals' : e.block # blobs'[j].ptr
    <3> SUFFICES ASSUME NEW e \in blobCache, NEW j \in Locals' PROVE e.block # blobs'[j].ptr
      OBVIOUS
    <3>1. CASE j \in Locals
      BY <1>7, <1>8, <3>1 DEF CommandsInv, OneOwner
    <3>2. CASE j = k
      BY <1>3, <1>4, <1>7, <3>2
    <3> QED BY <1>7, <3>1, <3>2
  <2>3. Lent(call'.bufs) = {}
    BY <1>1, <1>3
  <2> QED BY <1>1, <2>1, <2>2, <2>3 DEF CommandsInv, OneOwner
<1>11. LeftOver'
  <2>1. {blobs'[j].ptr : j \in Locals'} = {blobs[j].ptr : j \in Locals} \cup {b}
    BY ONLY <1>7, <1>8
  <2>2. Lent(call'.bufs) = {}
    BY <1>1, <1>3
  <2> DEFINE O == {blobs[j].ptr : j \in Locals} \cup {e.block : e \in blobCache}
  <2>3. Owned' = O \cup {b}
    BY <1>1, <2>1, <2>2 DEF Owned
  <2>4. /\ DOMAIN heap = O \cup leaked /\ O \cap leaked = {} /\ b \notin DOMAIN heap
        /\ DOMAIN heap' = DOMAIN heap \cup {b} /\ leaked' = leaked
    BY <1>1, <1>3, <1>4, <1>5, <1>6
  <2> HIDE DEF O
  <2> QED BY <2>3, <2>4 DEF LeftOver
<1>12. Matched'
  <2>1. PICK f \in [Shared -> blobCache] : Matching(f)
    BY <1>3 DEF CommandsInv, Matched
  <2>2. Matching(f)'
    BY <1>1, <1>7, <1>8, <2>1 DEF Matching
  <2> QED BY <1>1, <1>7, <2>2 DEF Matched
<1>13. UnderItsKey'
  <2>1. \A j \in Shared : ~blobs[j].freed =>
          [key |-> KeyOf(blobs[j].path), block |-> blobs[j].ptr] \in blobCache
    BY <1>3 DEF CommandsInv, UnderItsKey
  <2>2. \A j \in Shared : blobs'[j] = blobs[j]
    BY <1>7, <1>8
  <2> QED BY <1>1, <1>7, <2>1, <2>2 DEF UnderItsKey
<1>14. BlobsValid'
  <2> SUFFICES ASSUME NEW j \in Held', ~blobs'[j].freed
               PROVE  blobs'[j].ptr \in DOMAIN heap' /\ heap'[blobs'[j].ptr] = blobs'[j].data
    BY DEF BlobsValid, Held
  <2>1. CASE j = k
    BY <1>5, <1>6, <1>7, <2>1
  <2>2. CASE j \in Held
    <3>1. blobs'[j] = blobs[j]
      BY <1>7, <2>2
    <3>2. blobs[j].ptr \in DOMAIN heap /\ heap[blobs[j].ptr] = blobs[j].data
      BY <1>3, <2>2, <3>1 DEF CommandsInv, BlobsValid, Held
    <3> QED BY <1>5, <1>6, <3>1, <3>2
  <2> QED BY <1>7, <2>1, <2>2
<1>15. NamesMember' /\ ~fault'
  BY <1>1, <1>3, <1>5, <1>6 DEF CommandsInv, NamesMember
<1> QED BY <1>9, <1>10, <1>11, <1>12, <1>13, <1>14, <1>15 DEF CommandsInv

LEMMA CmdRetrieveBlob ==
  ASSUME CommandsInv, NEW k \in 1 .. MaxBlobs, NEW path \in BlobPaths, RetrieveBlob(path, k)
  PROVE  CommandsInv'
<1> DEFINE p == ParseHandle(mem, HandleOf(path), TRUE)
           b == Fresh(p.mem)
           w == Malloc(p.mem, DataOf(path))
           e == [key |-> CacheKey(w, p), block |-> b]
           asked == <<path.id, MemberOf(path, <<>>)>>
           lent == Lent(call'.bufs)
<1>0. /\ Idle /\ blobs[k] = NoBlob
      /\ \/ /\ blobCache' = blobCache \cup {e}
            /\ blobs' = [blobs EXCEPT ![k] = BlobValue(b, DataOf(path), path)]
            /\ CallAdlb(w, <<asked>>, <<p>>, FALSE, FALSE)
         \/ Abandon(p.mem, <<p.buf>>)
  BY DEF RetrieveBlob
<1>2. HandleParsed(mem, path, TRUE, p)
  BY HandleParses DEF CommandsInv, CommandsType
<1> HIDE DEF p
<1>3. /\ p \in Parses /\ p.id = path.id /\ Ends(mem, p.mem, p.buf) /\ p.mem \in Mems
      /\ Reads(p, MemberOf(path, <<>>))
  BY <1>2 DEF HandleParsed, Ends
<1>24. CASE Abandon(p.mem, <<p.buf>>)
  BY <1>0, <1>3, <1>24, OneAbandoned
<1> SUFFICES ASSUME ~Abandon(p.mem, <<p.buf>>) PROVE CommandsInv'
  BY <1>24
<1>1. /\ Idle /\ blobs[k] = NoBlob /\ blobCache' = blobCache \cup {e}
      /\ blobs' = [blobs EXCEPT ![k] = BlobValue(b, DataOf(path), path)]
      /\ CallAdlb(w, <<asked>>, <<p>>, FALSE, FALSE) /\ UNCHANGED <<leaked, finalized>>
  BY <1>0 DEF CallAdlb
<1>4. DataOf(path) \in Str
  BY PathParts DEF DataOf, Str
<1>5. /\ b \in Blocks /\ b \notin DOMAIN p.mem.heap
      /\ w \in Mems /\ w.fault = p.mem.fault /\ w.scratch = p.mem.scratch
      /\ DOMAIN w.heap = DOMAIN p.mem.heap \cup {b} /\ w.heap[b] = DataOf(path)
      /\ \A c \in DOMAIN p.mem.heap : w.heap[c] = p.mem.heap[c]
  BY <1>3, <1>4, Malloced
<1>6. Passed(w, p) = asked /\ e.key = KeyOf(path) /\ e.block = b
  <2>1. SubText(w, p.val) = MemberOf(path, <<>>)
    BY <1>3, <1>5, ReadsOn DEF Keeps
  <2> QED BY <1>3, <2>1 DEF Passed, CacheKey, KeyOf
<1>7. /\ heap' = w.heap /\ fault' = w.fault
      /\ call' = [asked |-> <<asked>>,
                  passed |-> [i \in 1 .. Len(<<p>>) |-> Passed(w, <<p>>[i])],
                  bufs |-> [i \in 1 .. Len(<<p>>) |-> <<p>>[i].buf],
                  structAppend |-> FALSE,
                  stale |-> \E i \in 1 .. Len(<<p>>) : <<p>>[i].stale,
                  keeps |-> FALSE]
  BY <1>1 DEF CallAdlb, SetMem
<1>8. /\ ~finalized
      /\ mem \in Mems /\ mem.heap = heap /\ mem.fault = fault /\ ~fault
      /\ DOMAIN heap = {blobs[j].ptr : j \in Locals} \cup {c.block : c \in blobCache} \cup leaked
      /\ ({blobs[j].ptr : j \in Locals} \cup {c.block : c \in blobCache}) \cap leaked = {}
      /\ \A c \in blobCache : c.block \in DOMAIN heap
      /\ \A j \in Locals : blobs[j].ptr \in DOMAIN heap
  BY <1>1, AtRest
<1>9. KeyOf(path) \in Str
  BY KeyType
<1> HIDE DEF b, w, asked
<1>10. e \in [key : Str, block : Blocks] /\ e \notin blobCache
  <2>1. b \notin DOMAIN heap
    BY <1>3, <1>5, <1>8 DEF Ends
  <2>2. e \notin blobCache
    BY <1>6, <1>8, <2>1
  <2>3. e = [key |-> KeyOf(path), block |-> b]
    BY <1>6
  <2> HIDE DEF e
  <2> QED BY <1>5, <1>9, <2>2, <2>3
<1> HIDE DEF e
<1>11. Lends(mem, p.mem, call'.bufs)
  <2>1. Lends(mem, p.mem, Append(<<>>, p.buf))
    BY <1>3, <1>8, LendsNothing, LendsOneMore
  <2>2. call'.bufs = Append(<<>>, p.buf)
    BY <1>7
  <2> QED BY <2>1, <2>2
<1>12. /\ call'.bufs \in Seq(Int)
       /\ (\A i \in lent : call'.bufs[i] \notin DOMAIN heap /\ call'.bufs[i] # b)
       /\ (\A i, j \in lent : call'.bufs[i] = call'.bufs[j] => i = j)
       /\ DOMAIN heap' = DOMAIN heap \cup {call'.bufs[i] : i \in lent} \cup {b}
       /\ (\A c \in DOMAIN heap : heap'[c] = heap[c]) /\ heap'[b] = DataOf(path)
       /\ ~fault' /\ b \notin DOMAIN heap
  <2> DEFINE bufs == call'.bufs
  <2>1. /\ bufs \in Seq(Int) /\ p.mem.fault = fault
        /\ (\A i \in Lent(bufs) : bufs[i] \in Blocks \ DOMAIN heap)
        /\ (\A i, j \in Lent(bufs) : bufs[i] = bufs[j] => i = j)
        /\ DOMAIN p.mem.heap = DOMAIN heap \cup {bufs[i] : i \in Lent(bufs)}
        /\ \A c \in DOMAIN heap : p.mem.heap[c] = heap[c]
    BY <1>8, <1>11 DEF Lends
  <2>2. lent = Lent(bufs)
    OBVIOUS
  <2> HIDE DEF lent, bufs
  <2>3. heap' = w.heap /\ fault' = w.fault
    BY <1>7
  <2>4. \A i \in lent : bufs[i] \notin DOMAIN heap /\ bufs[i] # b
    BY <1>5, <2>1, <2>2
  <2>5. DOMAIN heap' = DOMAIN heap \cup {bufs[i] : i \in lent} \cup {b}
    BY <1>5, <2>1, <2>2, <2>3
  <2>6. (\A c \in DOMAIN heap : heap'[c] = heap[c]) /\ heap'[b] = DataOf(path)
    BY <1>5, <2>1, <2>3
  <2>7. ~fault' /\ b \notin DOMAIN heap
    BY <1>5, <1>8, <2>1, <2>3
  <2> QED BY <2>1, <2>2, <2>4, <2>5, <2>6, <2>7 DEF bufs
<1>13. path \in BlobPaths \cup {NoHandle} /\ path # NoHandle
  BY NotNoHandle
<1>14. /\ blobs' \in [1 .. MaxBlobs -> [ptr : Int, data : Str, freed : BOOLEAN,
                                        path : BlobPaths \cup {NoHandle}]]
       /\ blobs'[k].ptr = b /\ blobs'[k].data = DataOf(path) /\ blobs'[k].path = path
       /\ k \notin Held
       /\ \A j \in Held : j # k /\ blobs'[j] = blobs[j]
       /\ Held' = Held \cup {k} /\ Locals' = Locals /\ Shared' = Shared \cup {k}
  <2> DEFINE data == DataOf(path)
  <2>1. data \in Str /\ blobs' = [blobs EXCEPT ![k] = BlobValue(b, data, path)]
    BY <1>1, <1>4
  <2> HIDE DEF data
  <2>2. Given(k, b, data, path)
    BY <1>1, <1>5, <1>13, <2>1, BlobGiven
  <2> QED BY <1>13, <2>2 DEF Given, data
<1>15. Held = Locals \cup Shared /\ Held \subseteq 1 .. MaxBlobs
  BY Holds
<1> HIDE DEF lent
<1>16. CommandsType'
  <2>1. mem' \in Mems
    BY <1>5, <1>7, MemMade
  <2>2. IsFiniteSet(blobCache')
    BY <1>1, FS_AddElement DEF CommandsInv, CommandsType
  <2> QED BY <1>1, <1>10, <1>12, <1>14, <2>1, <2>2 DEF CommandsInv, CommandsType
<1>17. \A j \in Locals : blobs'[j] = blobs[j] /\ blobs[j].ptr \in DOMAIN heap
  BY <1>8, <1>14, <1>15
<1>18. OneOwner'
  <2>1. \A c, d \in blobCache' : c.block = d.block => c = d
    <3> SUFFICES ASSUME NEW c \in blobCache', NEW d \in blobCache', c.block = d.block PROVE c = d
      OBVIOUS
    <3>1. CASE c \in blobCache /\ d \in blobCache
      BY <3>1 DEF CommandsInv, OneOwner
    <3>2. CASE c = e /\ d \in blobCache
      BY <1>6, <1>8, <1>12, <3>2
    <3>3. CASE d = e /\ c \in blobCache
      BY <1>6, <1>8, <1>12, <3>3
    <3> QED BY <1>1, <3>1, <3>2, <3>3
  <2>2. \A i, j \in Locals' : blobs'[i].ptr = blobs'[j].ptr => i = j
    BY <1>14, <1>17 DEF CommandsInv, OneOwner
  <2>3. \A c \in blobCache', j \in Locals' : c.block # blobs'[j].ptr
    <3> SUFFICES ASSUME NEW c \in blobCache', NEW j \in Locals' PROVE c.block # blobs[j].ptr
      BY <1>14, <1>17
    <3>1. CASE c \in blobCache
      BY <1>14, <3>1 DEF CommandsInv, OneOwner
    <3>2. CASE c = e
      BY <1>6, <1>12, <1>14, <1>17, <3>2
    <3> QED BY <1>1, <3>1, <3>2
  <2>4. \A c \in blobCache', i \in lent : c.block # call'.bufs[i]
    BY <1>1, <1>6, <1>8, <1>12
  <2>5. \A j \in Locals', i \in lent : blobs'[j].ptr # call'.bufs[i]
    BY <1>12, <1>14, <1>17
  <2> QED BY <1>12, <2>1, <2>2, <2>3, <2>4, <2>5 DEF OneOwner, lent
<1>19. LeftOver'
  <2>1. {blobs'[j].ptr : j \in Locals'} = {blobs[j].ptr : j \in Locals}
    BY ONLY <1>14, <1>17
  <2>2. {c.block : c \in blobCache'} = {c.block : c \in blobCache} \cup {b}
    BY ONLY <1>1, <1>6
  <2>3. Owned' = {blobs'[j].ptr : j \in Locals'} \cup {call'.bufs[i] : i \in lent}
                 \cup {c.block : c \in blobCache'}
    BY DEF Owned, lent
  <2> DEFINE O == {blobs[j].ptr : j \in Locals} \cup {c.block : c \in blobCache}
             B == {call'.bufs[i] : i \in lent}
  <2>4. Owned' = O \cup B \cup {b}
    BY <2>1, <2>2, <2>3
  <2>5. B \cap DOMAIN heap = {} /\ b \notin DOMAIN heap /\ DOMAIN heap' = DOMAIN heap \cup B \cup {b}
    BY <1>12
  <2>6. DOMAIN heap = O \cup leaked /\ O \cap leaked = {} /\ leaked' = leaked
    BY <1>1, <1>8
  <2> HIDE DEF O, B
  <2> QED BY <2>4, <2>5, <2>6 DEF LeftOver
<1>20. Matched'
  <2>1. PICK f \in [Shared -> blobCache] : Matching(f)
    BY <1>8 DEF CommandsInv, Matched
  <2>2. /\ \A i, j \in Shared : f[i] = f[j] => i = j
        /\ \A c \in blobCache : \E j \in Shared : f[j] = c
        /\ \A j \in Shared : f[j].key = KeyOf(blobs[j].path)
    BY <2>1 DEF Matching
  <2> DEFINE g == [j \in Shared' |-> IF j = k THEN e ELSE f[j]]
  <2>3. k \notin Shared /\ \A j \in Shared : blobs'[j] = blobs[j]
    BY <1>14, <1>15
  <2>4. g \in [Shared' -> blobCache'] /\ g[k] = e /\ \A j \in Shared : g[j] = f[j]
    BY <1>1, <1>14, <2>3
  <2> HIDE DEF g
  <2>9. PICK h : h = g
    OBVIOUS
  <2>5. \A i, j \in Shared' : h[i] = h[j] => i = j
    <3> SUFFICES ASSUME NEW i \in Shared', NEW j \in Shared', h[i] = h[j] PROVE i = j
      OBVIOUS
    <3>1. CASE i \in Shared /\ j \in Shared
      BY <2>2, <2>4, <2>9, <3>1
    <3>2. CASE i = k /\ j \in Shared
      BY <1>10, <2>4, <2>9, <3>2
    <3>3. CASE j = k /\ i \in Shared
      BY <1>10, <2>4, <2>9, <3>3
    <3> QED BY <1>14, <3>1, <3>2, <3>3
  <2>6. \A c \in blobCache' : \E j \in Shared' : h[j] = c
    <3> SUFFICES ASSUME NEW c \in blobCache' PROVE \E j \in Shared' : h[j] = c
      OBVIOUS
    <3>1. CASE c = e
      BY <1>14, <2>4, <2>9, <3>1
    <3>2. CASE c \in blobCache
      BY <1>14, <2>2, <2>4, <2>9, <3>2
    <3> QED BY <1>1, <3>1, <3>2
  <2>7. \A j \in Shared' : h[j].key = KeyOf(blobs'[j].path)
    BY <1>6, <1>14, <2>2, <2>3, <2>4, <2>9
  <2>8. Matching(h)'
    BY <2>4, <2>9, <2>5, <2>6, <2>7 DEF Matching, KeyOf, MemberOf
  <2> QED BY <1>1, <2>4, <2>9, <2>8 DEF Matched
<1>21. UnderItsKey'
  <2> SUFFICES ASSUME NEW j \in Shared', ~blobs'[j].freed
               PROVE  [key |-> KeyOf(blobs'[j].path), block |-> blobs'[j].ptr] \in blobCache'
    BY DEF UnderItsKey, KeyOf, MemberOf
  <2>1. CASE j = k
    <3>1. e = [key |-> KeyOf(path), block |-> b]
      BY <1>6, <1>10
    <3> QED BY <1>1, <1>14, <2>1, <3>1
  <2>2. CASE j \in Shared
    <3>1. blobs'[j] = blobs[j]
      BY <1>14, <1>15, <2>2
    <3>2. [key |-> KeyOf(blobs[j].path), block |-> blobs[j].ptr] \in blobCache
      BY <1>8, <2>2, <3>1 DEF CommandsInv, UnderItsKey
    <3> QED BY <1>1, <3>1, <3>2
  <2> QED BY <1>14, <2>1, <2>2
<1>22. BlobsValid'
  <2> SUFFICES ASSUME NEW j \in Held', ~blobs'[j].freed
               PROVE  blobs'[j].ptr \in DOMAIN heap' /\ heap'[blobs'[j].ptr] = blobs'[j].data
    BY DEF BlobsValid, Held
  <2>1. CASE j = k
    BY <1>12, <1>14, <2>1
  <2>2. CASE j \in Held
    <3>1. blobs'[j] = blobs[j]
      BY <1>14, <2>2
    <3>2. blobs[j].ptr \in DOMAIN heap /\ heap[blobs[j].ptr] = blobs[j].data
      BY <1>8, <2>2, <3>1 DEF CommandsInv, BlobsValid, Held
    <3> QED BY <1>12, <3>1, <3>2
  <2> QED BY <1>14, <2>1, <2>2
<1>23. NamesMember'
  <2>1. [i \in 1 .. Len(<<p>>) |-> Passed(w, <<p>>[i])] = <<asked>>
    BY <1>6
  <2> QED BY <1>7, <2>1 DEF NamesMember
<1> QED BY <1>12, <1>16, <1>18, <1>19, <1>20, <1>21, <1>22, <1>23 DEF CommandsInv

\* The program gives back number k; other lists of its handle are marked.
Left(k) ==
    /\ blobs' \in [1 .. MaxBlobs -> [ptr : Int, data : Str, freed : BOOLEAN,
                                     path : BlobPaths \cup {NoHandle}]]
    /\ Held' = Held \ {k} /\ Locals' = Locals \ {k} /\ Shared' = Shared \ {k}
    /\ \A j \in Held \ {k} : /\ blobs'[j].ptr = blobs[j].ptr
                             /\ blobs'[j].data = blobs[j].data
                             /\ blobs'[j].path = blobs[j].path
                             /\ ~blobs'[j].freed => ~blobs[j].freed
    /\ blobs[k].path # NoHandle =>
         \A j \in Held \ {k} : ~blobs'[j].freed => blobs[j].path # blobs[k].path

LEMMA BlobLeft ==
  ASSUME CommandsInv, NEW k \in Held, blobs' = WithoutBlob(k) PROVE Left(k)
<1> DEFINE T == [ptr : Int, data : Str, freed : BOOLEAN, path : BlobPaths \cup {NoHandle}]
           same(j) == blobs[k].path # NoHandle /\ blobs[j].path = blobs[k].path
           v(j) == [blobs[j] EXCEPT !.freed = TRUE]
<1>0. blobs \in [1 .. MaxBlobs -> T] /\ k \in 1 .. MaxBlobs
  BY DEF CommandsInv, CommandsType, Held
<1>1. NoBlob \in T /\ NoBlob.path = NoHandle /\ NoBlob.freed = FALSE
  BY StrEmpty, Places DEF NoBlob
<1>2. blobs' = [j \in 1 .. MaxBlobs |-> IF j = k THEN NoBlob ELSE IF same(j) THEN v(j) ELSE blobs[j]]
  BY DEF WithoutBlob
<1>3. ASSUME NEW j \in 1 .. MaxBlobs
      PROVE  /\ v(j) \in T /\ v(j).ptr = blobs[j].ptr /\ v(j).data = blobs[j].data
             /\ v(j).path = blobs[j].path /\ v(j).freed = TRUE /\ blobs[j] \in T
  <2>1. blobs[j] \in T
    BY <1>0
  <2> QED BY <2>1
<1> HIDE DEF T, v, same
<1>4. /\ blobs' \in [1 .. MaxBlobs -> T] /\ blobs'[k] = NoBlob
      /\ \A j \in 1 .. MaxBlobs : j # k => blobs'[j] = IF same(j) THEN v(j) ELSE blobs[j]
  BY <1>0, <1>1, <1>2, <1>3
<1>5. ASSUME NEW j \in 1 .. MaxBlobs, j # k
      PROVE  /\ blobs'[j].ptr = blobs[j].ptr /\ blobs'[j].data = blobs[j].data
             /\ blobs'[j].path = blobs[j].path
             /\ ~blobs'[j].freed => ~blobs[j].freed /\ ~same(j)
             /\ blobs'[j] = NoBlob <=> blobs[j] = NoBlob
  <2>1. CASE same(j)
    <3>1. blobs'[j] = v(j) /\ blobs'[j].freed
      BY <1>3, <1>4, <1>5, <2>1
    <3>2. blobs'[j] # NoBlob /\ blobs[j] # NoBlob
      BY <1>1, <2>1, <3>1 DEF same
    <3> QED BY <1>3, <3>1, <3>2
  <2>2. CASE ~same(j)
    BY <1>4, <1>5, <2>2
  <2> QED BY <2>1, <2>2
<1>6. Held' = Held \ {k}
  BY <1>0, <1>4, <1>5 DEF Held
<1>7. Held \subseteq 1 .. MaxBlobs
  BY DEF Held
<1>8. Locals' = Locals \ {k}
  BY <1>5, <1>6, <1>7 DEF Locals
<1>9. Shared' = Shared \ {k}
  BY <1>6, <1>8 DEF Shared, Locals
<1> QED BY <1>4, <1>5, <1>6, <1>7, <1>8, <1>9 DEF Left, T, same

\* A block is freed, and the buffer of the handle that named it.
LEMMA FreedAndCleaned ==
  ASSUME NEW m \in Mems, NEW w, NEW buf, Ends(m, w, buf), NEW b \in DOMAIN m.heap
  PROVE  LET v == Cleanup(Free(w, b), buf)
         IN  /\ v \in Mems /\ v.fault = m.fault /\ DOMAIN v.heap = DOMAIN m.heap \ {b}
             /\ \A c \in DOMAIN m.heap \ {b} : v.heap[c] = m.heap[c]
<1> DEFINE u == Free(w, b)
<1>1. /\ w \in Mems /\ w.fault = m.fault /\ b \in DOMAIN w.heap /\ b # buf
      /\ DOMAIN w.heap = DOMAIN m.heap \cup ({buf} \cap Blocks)
      /\ \A c \in DOMAIN m.heap : w.heap[c] = m.heap[c]
      /\ (buf \in {Null, Scratch} \/ buf \in Blocks \ DOMAIN m.heap)
  BY MemParts, Places DEF Ends
<1>2. /\ u \in Mems /\ u.fault = w.fault /\ DOMAIN u.heap = DOMAIN w.heap \ {b}
      /\ \A c \in DOMAIN w.heap \ {b} : u.heap[c] = w.heap[c]
  BY <1>1, FreeIs
<1> HIDE DEF u
<1>3. CASE buf \in {Null, Scratch}
  <2>1. {buf} \cap Blocks = {} /\ Cleanup(u, buf) = u
    BY <1>3, Places DEF Cleanup
  <2> QED BY <1>1, <1>2, <2>1 DEF u
<1>4. CASE buf \notin {Null, Scratch}
  <2>1. {buf} \cap Blocks = {buf} /\ Cleanup(u, buf) = Free(u, buf) /\ buf \in DOMAIN u.heap
        /\ buf \notin DOMAIN m.heap
    BY <1>1, <1>2, <1>4 DEF Cleanup
  <2> DEFINE clean == Free(u, buf)
  <2>2. /\ clean \in Mems /\ clean.fault = u.fault /\ DOMAIN clean.heap = DOMAIN u.heap \ {buf}
        /\ \A c \in DOMAIN u.heap \ {buf} : clean.heap[c] = u.heap[c]
    BY <1>2, <2>1, FreeIs
  <2> HIDE DEF clean
  <2>3. clean = Cleanup(Free(w, b), buf)
    BY <2>1 DEF clean, u
  <2>4. DOMAIN clean.heap = DOMAIN m.heap \ {b}
    BY <1>1, <1>2, <2>1, <2>2
  <2>5. \A c \in DOMAIN m.heap \ {b} : clean.heap[c] = m.heap[c]
    BY <1>1, <1>2, <2>1, <2>2
  <2>6. clean \in Mems /\ clean.fault = m.fault
    BY <1>1, <1>2, <2>2
  <2> QED BY <2>3, <2>4, <2>5, <2>6
<1> QED BY <1>3, <1>4

\* An entry of a list's handle is freed with the list: the list that has its
\* block, if it is another, now goes with the entry this one went with.
LEMMA EntryFreed ==
  ASSUME CommandsInv, Idle, NEW k \in Shared, NEW e \in blobCache,
         e.key = KeyOf(blobs[k].path), NEW w \in Mems, w.fault = fault,
         DOMAIN w.heap = DOMAIN heap \ {e.block},
         \A c \in DOMAIN heap \ {e.block} : w.heap[c] = heap[c],
         SetMem(w), blobCache' = blobCache \ {e}, blobs' = WithoutBlob(k),
         UNCHANGED <<call, leaked, finalized>>
  PROVE  CommandsInv'
<1>1. heap' = w.heap /\ fault' = w.fault
  BY DEF SetMem
<1>2. /\ ~finalized /\ call.bufs = <<>> /\ Lent(call.bufs) = {} /\ ~fault
      /\ DOMAIN heap = {blobs[j].ptr : j \in Locals} \cup {c.block : c \in blobCache} \cup leaked
      /\ ({blobs[j].ptr : j \in Locals} \cup {c.block : c \in blobCache}) \cap leaked = {}
  BY AtRest
<1>3. /\ Held = Locals \cup Shared /\ Locals \cap Shared = {} /\ Held \subseteq 1 .. MaxBlobs
      /\ \A j \in Shared : blobs[j].path \in BlobPaths /\ blobs[j].path # NoHandle
  BY Holds
<1>4. Left(k)
  BY <1>3, BlobLeft
<1>5. /\ Held' = Held \ {k} /\ Locals' = Locals /\ Shared' = Shared \ {k}
      /\ \A j \in Held \ {k} : /\ blobs'[j].ptr = blobs[j].ptr
                               /\ blobs'[j].data = blobs[j].data
                               /\ blobs'[j].path = blobs[j].path
                               /\ ~blobs'[j].freed => ~blobs[j].freed
      /\ \A j \in Held \ {k} : ~blobs'[j].freed => blobs[j].path # blobs[k].path
  BY <1>3, <1>4 DEF Left
<1>6. CommandsType'
  <2>1. mem' \in Mems
    BY <1>1, MemMade
  <2>2. IsFiniteSet(blobCache')
    BY FS_RemoveElement DEF CommandsInv, CommandsType
  <2> QED BY <1>4, <2>1, <2>2 DEF CommandsInv, CommandsType, Left
<1>7. \A j \in Locals : blobs'[j].ptr = blobs[j].ptr
  BY <1>3, <1>5
<1>8. /\ \A c, d \in blobCache : c.block = d.block => c = d
      /\ \A i, j \in Locals : blobs[i].ptr = blobs[j].ptr => i = j
      /\ \A c \in blobCache, j \in Locals : c.block # blobs[j].ptr
  BY DEF CommandsInv, OneOwner
<1>9. OneOwner'
  <2>1. Lent(call'.bufs) = {}
    BY <1>2
  <2> QED BY <1>5, <1>7, <1>8, <2>1 DEF OneOwner
<1>10. LeftOver'
  <2>1. {blobs'[j].ptr : j \in Locals'} = {blobs[j].ptr : j \in Locals}
    BY ONLY <1>5, <1>7
  <2>2. {c.block : c \in blobCache'} = {c.block : c \in blobCache} \ {e.block}
    BY <1>8
  <2>3. e.block \notin {blobs[j].ptr : j \in Locals}
    BY <1>8
  <2>4. Owned' = {blobs'[j].ptr : j \in Locals'} \cup {c.block : c \in blobCache'}
    <3>1. Lent(call'.bufs) = {}
      BY <1>2
    <3>2. {call'.bufs[i] : i \in Lent(call'.bufs)} = {}
      BY <3>1
    <3> QED BY <3>2 DEF Owned
  <2> DEFINE P == {blobs[j].ptr : j \in Locals}
             E == {c.block : c \in blobCache}
             b == e.block
  <2>5. Owned' = P \cup (E \ {b}) /\ b \notin P /\ b \in E
    BY <2>1, <2>2, <2>3, <2>4
  <2>6. /\ DOMAIN heap' = DOMAIN heap \ {b} /\ leaked' = leaked
        /\ DOMAIN heap = P \cup E \cup leaked /\ (P \cup E) \cap leaked = {}
    BY <1>1, <1>2
  <2> HIDE DEF P, E, b
  <2> QED BY <2>5, <2>6 DEF LeftOver
<1>11. Matched'
  <2>1. PICK f \in [Shared -> blobCache] : Matching(f)
    BY <1>2 DEF CommandsInv, Matched
  <2>2. /\ \A i, j \in Shared : f[i] = f[j] => i = j
        /\ \A c \in blobCache : \E j \in Shared : f[j] = c
        /\ \A j \in Shared : f[j].key = KeyOf(blobs[j].path)
    BY <2>1 DEF Matching
  <2> DEFINE g0 == [j \in Shared \ {k} |-> IF f[j] = e THEN f[k] ELSE f[j]]
  <2>3. PICK g : g = g0
    OBVIOUS
  <2>4. g \in [Shared \ {k} -> blobCache \ {e}]
        /\ \A j \in Shared \ {k} : g[j] = IF f[j] = e THEN f[k] ELSE f[j]
    <3>1. \A j \in Shared \ {k} : f[j] = e => f[k] # e
      BY <2>2
    <3> QED BY <2>1, <2>3, <3>1
  <2>5. \A i, j \in Shared \ {k} : g[i] = g[j] => i = j
    BY <2>2, <2>4
  <2>6. \A c \in blobCache \ {e} : \E j \in Shared \ {k} : g[j] = c
    <3> SUFFICES ASSUME NEW c \in blobCache \ {e} PROVE \E j \in Shared \ {k} : g[j] = c
      OBVIOUS
    <3>1. PICK i \in Shared : f[i] = c
      BY <2>2
    <3>2. PICK j \in Shared : f[j] = e
      BY <2>2
    <3>3. CASE i = k
      <4>1. j # k
        BY <3>1, <3>2, <3>3
      <4> QED BY <2>4, <3>1, <3>2, <3>3, <4>1
    <3>4. CASE i # k
      BY <2>4, <3>1, <3>4
    <3> QED BY <3>3, <3>4
  <2>7. \A j \in Shared \ {k} : g[j].key = KeyOf(blobs[j].path)
    BY <2>2, <2>4
  <2>8. Matching(g)'
    <3>1. \A j \in Shared \ {k} : g[j].key = KeyOf(blobs'[j].path)
      BY <1>3, <1>5, <2>7
    <3> QED BY <1>5, <2>4, <2>5, <2>6, <3>1 DEF Matching, KeyOf, MemberOf
  <2> QED BY <1>5, <2>4, <2>8 DEF Matched
<1>12. ASSUME NEW j \in Shared \ {k}, ~blobs'[j].freed
       PROVE  [key |-> KeyOf(blobs[j].path), block |-> blobs[j].ptr] \in blobCache \ {e}
  <2> DEFINE d == [key |-> KeyOf(blobs[j].path), block |-> blobs[j].ptr]
  <2>1. ~blobs[j].freed /\ blobs[j].path # blobs[k].path
    BY <1>3, <1>5, <1>12
  <2>2. d \in blobCache
    BY <1>2, <2>1 DEF CommandsInv, UnderItsKey
  <2>3. d.key # e.key
    BY <1>3, <2>1, KeysDiffer
  <2> QED BY <2>2, <2>3
<1>13. UnderItsKey'
  <2>1. ASSUME NEW j \in Shared \ {k}, ~blobs'[j].freed
        PROVE  [key |-> KeyOf(blobs'[j].path), block |-> blobs'[j].ptr] \in blobCache'
    BY <1>3, <1>5, <1>12, <2>1
  <2> QED BY <1>5, <2>1 DEF UnderItsKey, KeyOf, MemberOf
<1>14. BlobsValid'
  <2> SUFFICES ASSUME NEW j \in Held \ {k}, ~blobs'[j].freed
               PROVE  blobs'[j].ptr \in DOMAIN heap' /\ heap'[blobs'[j].ptr] = blobs'[j].data
    BY <1>5 DEF BlobsValid, Held
  <2>1. ~blobs[j].freed /\ blobs'[j].ptr = blobs[j].ptr /\ blobs'[j].data = blobs[j].data
    BY <1>5
  <2>2. blobs[j].ptr \in DOMAIN heap /\ heap[blobs[j].ptr] = blobs[j].data
    BY <1>2, <2>1 DEF CommandsInv, BlobsValid, Held
  <2>3. blobs[j].ptr # e.block
    <3>1. CASE j \in Locals
      BY <1>8, <3>1
    <3>2. CASE j \in Shared
      <4> DEFINE d == [key |-> KeyOf(blobs[j].path), block |-> blobs[j].ptr]
      <4>1. d \in blobCache /\ d # e
        BY <1>12, <3>2
      <4>2. d.block = blobs[j].ptr
        OBVIOUS
      <4> HIDE DEF d
      <4> QED BY <1>8, <4>1, <4>2
    <3> QED BY <1>3, <3>1, <3>2
  <2> QED BY <1>1, <2>1, <2>2, <2>3
<1>15. NamesMember' /\ ~fault'
  BY <1>1, <1>2 DEF CommandsInv, NamesMember
<1> QED BY <1>6, <1>9, <1>10, <1>11, <1>13, <1>14, <1>15 DEF CommandsInv

LEMMA CmdFreeByHandle ==
  ASSUME CommandsInv, Idle, NEW k \in Shared, NEW e \in blobCache,
         LET p == ParseHandle(mem, HandleOf(blobs[k].path), TRUE)
             u == UncacheBlob(p.mem, e)
         IN  /\ e.key = CacheKey(p.mem, p) /\ blobCache' = u.cache
             /\ SetMem(Cleanup(u.mem, p.buf)),
         blobs' = WithoutBlob(k), UNCHANGED <<call, leaked, finalized>>
  PROVE  CommandsInv'
<1> DEFINE path == blobs[k].path
           p == ParseHandle(mem, HandleOf(path), TRUE)
           w == Cleanup(Free(p.mem, e.block), p.buf)
<1>1. path \in BlobPaths
  BY Holds
<1>2. /\ mem \in Mems /\ mem.heap = heap /\ mem.fault = fault
      /\ \A c \in blobCache : c.block \in DOMAIN heap
  BY AtRest
<1>3. e.key = CacheKey(p.mem, p) /\ blobCache' = blobCache \ {e} /\ SetMem(w)
  BY DEF UncacheBlob
<1>4. HandleParsed(mem, path, TRUE, p)
  BY <1>1, <1>2, HandleParses
<1> HIDE DEF p
<1>5. e.key = KeyOf(path) /\ Ends(mem, p.mem, p.buf)
  BY <1>3, <1>4 DEF HandleParsed, Reads, CacheKey, KeyOf
<1> HIDE DEF path
<1>6. /\ w \in Mems /\ w.fault = fault /\ DOMAIN w.heap = DOMAIN heap \ {e.block}
      /\ \A c \in DOMAIN heap \ {e.block} : w.heap[c] = heap[c]
  <2>1. e.block \in DOMAIN mem.heap
    BY <1>2
  <2> DEFINE b == e.block
  <2>2. b \in DOMAIN mem.heap
    BY <2>1
  <2> HIDE DEF b
  <2>3. LET v == Cleanup(Free(p.mem, b), p.buf)
        IN  /\ v \in Mems /\ v.fault = mem.fault /\ DOMAIN v.heap = DOMAIN mem.heap \ {b}
            /\ \A c \in DOMAIN mem.heap \ {b} : v.heap[c] = mem.heap[c]
    BY <1>2, <1>5, <2>2, FreedAndCleaned
  <2> QED BY <1>2, <2>3 DEF b
<1> HIDE DEF w
<1> QED BY <1>3, <1>5, <1>6, EntryFreed DEF path

LEMMA CmdBlobFree ==
  ASSUME CommandsInv, NEW k \in 1 .. MaxBlobs, BlobFree(k) PROVE CommandsInv'
<1> DEFINE p == ParseHandle(mem, HandleOf(blobs[k].path), TRUE)
<1>1. k \in Shared
  BY Holds DEF BlobFree
<1>2. PICK e \in Cached(CacheKey(p.mem, p)) :
        LET u == UncacheBlob(p.mem, e)
        IN  blobCache' = u.cache /\ SetMem(Cleanup(u.mem, p.buf))
  BY DEF BlobFree
<1>3. e \in blobCache /\ e.key = CacheKey(p.mem, p)
  BY <1>2 DEF Cached
<1> QED BY <1>1, <1>2, <1>3, CmdFreeByHandle DEF BlobFree

LEMMA CmdBlobFreeError ==
  ASSUME CommandsInv, NEW path \in BlobPaths, BlobFreeError(path) PROVE CommandsInv'
<1> DEFINE p == ParseHandle(mem, HandleOf(path), TRUE)
<1>1. HandleParsed(mem, path, TRUE, p)
  BY HandleParses DEF CommandsInv, CommandsType
<1>2. Idle /\ Abandon(p.mem, <<p.buf>>)
  BY DEF BlobFreeError
<1> HIDE DEF p
<1> QED BY <1>1, <1>2, OneAbandoned DEF HandleParsed

\* A local blob is freed with its list.
LEMMA LocalFreed ==
  ASSUME CommandsInv, Idle, NEW k \in Locals, SetMem(Free(mem, blobs[k].ptr)),
         blobs' = WithoutBlob(k), UNCHANGED <<blobCache, call, leaked, finalized>>
  PROVE  CommandsInv'
<1> DEFINE b == blobs[k].ptr
           w == Free(mem, b)
<1>2. /\ ~finalized /\ call.bufs = <<>> /\ Lent(call.bufs) = {} /\ ~fault
      /\ mem \in Mems /\ mem.heap = heap /\ mem.fault = fault
      /\ DOMAIN heap = {blobs[j].ptr : j \in Locals} \cup {c.block : c \in blobCache} \cup leaked
      /\ ({blobs[j].ptr : j \in Locals} \cup {c.block : c \in blobCache}) \cap leaked = {}
      /\ b \in DOMAIN heap
  BY AtRest
<1>1. /\ w \in Mems /\ w.fault = fault /\ DOMAIN w.heap = DOMAIN heap \ {b}
      /\ \A c \in DOMAIN heap \ {b} : w.heap[c] = heap[c]
  BY <1>2, FreeIs
<1> HIDE DEF w
<1>3. heap' = w.heap /\ fault' = w.fault
  BY DEF SetMem, w
<1>4. /\ Held = Locals \cup Shared /\ Locals \cap Shared = {} /\ Held \subseteq 1 .. MaxBlobs
      /\ \A j \in Shared : blobs[j].path \in BlobPaths /\ blobs[j].path # NoHandle
      /\ blobs[k].path = NoHandle
  BY Holds
<1>5. Left(k)
  BY <1>4, BlobLeft
<1>6. /\ Held' = Held \ {k} /\ Locals' = Locals \ {k} /\ Shared' = Shared
      /\ \A j \in Held \ {k} : /\ blobs'[j].ptr = blobs[j].ptr
                               /\ blobs'[j].data = blobs[j].data
                               /\ blobs'[j].path = blobs[j].path
                               /\ ~blobs'[j].freed => ~blobs[j].freed
  BY <1>4, <1>5 DEF Left
<1>7. CommandsType'
  <2>1. mem' \in Mems
    BY <1>1, <1>3, MemMade
  <2> QED BY <1>5, <2>1 DEF CommandsInv, CommandsType, Left
<1>8. \A j \in Locals \ {k} : blobs'[j].ptr = blobs[j].ptr
  BY <1>4, <1>6
<1>9. /\ \A c, d \in blobCache : c.block = d.block => c = d
      /\ \A i, j \in Locals : blobs[i].ptr = blobs[j].ptr => i = j
      /\ \A c \in blobCache, j \in Locals : c.block # blobs[j].ptr
  BY DEF CommandsInv, OneOwner
<1>10. Lent(call'.bufs) = {}
  BY <1>2
<1>11. OneOwner'
  BY <1>6, <1>8, <1>9, <1>10 DEF OneOwner
<1>12. LeftOver'
  <2>1. {blobs'[j].ptr : j \in Locals'} = {blobs[j].ptr : j \in Locals} \ {b}
    BY <1>6, <1>8, <1>9
  <2>2. b \notin {c.block : c \in blobCache}
    BY <1>9
  <2>3. {call'.bufs[i] : i \in Lent(call'.bufs)} = {}
    BY <1>10
  <2>4. Owned' = {blobs'[j].ptr : j \in Locals'} \cup {c.block : c \in blobCache}
    BY <2>3 DEF Owned
  <2> DEFINE P == {blobs[j].ptr : j \in Locals}
             E == {c.block : c \in blobCache}
  <2>5. Owned' = (P \ {b}) \cup E /\ b \notin E /\ b \in P
    BY <2>1, <2>2, <2>4
  <2>6. /\ DOMAIN heap' = DOMAIN heap \ {b} /\ leaked' = leaked
        /\ DOMAIN heap = P \cup E \cup leaked /\ (P \cup E) \cap leaked = {}
    BY <1>1, <1>2, <1>3
  <2> HIDE DEF P, E, b
  <2> QED BY <2>5, <2>6 DEF LeftOver
<1>13. \A j \in Shared : j \in Held \ {k}
  BY <1>4
<1>14. Matched'
  <2>1. PICK f \in [Shared -> blobCache] : Matching(f)
    BY <1>2 DEF CommandsInv, Matched
  <2>2. Matching(f)'
    BY <1>6, <1>13, <2>1 DEF Matching, KeyOf, MemberOf
  <2> QED BY <1>6, <2>1, <2>2 DEF Matched
<1>15. UnderItsKey'
  BY <1>2, <1>6, <1>13 DEF CommandsInv, UnderItsKey, KeyOf, MemberOf
<1>16. BlobsValid'
  <2> SUFFICES ASSUME NEW j \in Held \ {k}, ~blobs'[j].freed
               PROVE  blobs'[j].ptr \in DOMAIN heap' /\ heap'[blobs'[j].ptr] = blobs'[j].data
    BY <1>6 DEF BlobsValid, Held
  <2>1. ~blobs[j].freed /\ blobs'[j].ptr = blobs[j].ptr /\ blobs'[j].data = blobs[j].data
    BY <1>6
  <2>2. blobs[j].ptr \in DOMAIN heap /\ heap[blobs[j].ptr] = blobs[j].data
    BY <1>2, <2>1 DEF CommandsInv, BlobsValid, Held
  <2>3. blobs[j].ptr # b
    <3>1. CASE j \in Locals
      BY <1>9, <3>1
    <3>2. CASE j \in Shared
      <4> DEFINE d == [key |-> KeyOf(blobs[j].path), block |-> blobs[j].ptr]
      <4>1. d \in blobCache /\ d.block = blobs[j].ptr
        BY <1>2, <2>1, <3>2 DEF CommandsInv, UnderItsKey
      <4> HIDE DEF d
      <4> QED BY <1>9, <4>1
    <3> QED BY <1>4, <3>1, <3>2
  <2> QED BY <1>1, <1>3, <2>1, <2>2, <2>3
<1>17. NamesMember' /\ ~fault'
  BY <1>1, <1>2, <1>3 DEF CommandsInv, NamesMember
<1> QED BY <1>7, <1>11, <1>12, <1>14, <1>15, <1>16, <1>17 DEF CommandsInv

LEMMA CmdLocalBlobFree ==
  ASSUME CommandsInv, NEW k \in 1 .. MaxBlobs, LocalBlobFree(k) PROVE CommandsInv'
<1>1. Idle /\ blobs[k] # NoBlob /\ blobs' = WithoutBlob(k) /\ UNCHANGED <<call, leaked, finalized>>
  BY DEF LocalBlobFree
<1>2. CASE blobs[k].path = NoHandle
  <2>1. k \in Locals
    BY <1>1, <1>2 DEF Locals, Held
  <2>2. SetMem(Free(mem, blobs[k].ptr)) /\ UNCHANGED blobCache
    BY <1>2 DEF LocalBlobFree
  <2> QED BY <1>1, <2>1, <2>2, LocalFreed
<1>3. CASE blobs[k].path # NoHandle
  <2> DEFINE p == ParseHandle(mem, HandleOf(blobs[k].path), TRUE)
             hits == Cached(CacheKey(p.mem, p))
             done(e) == LET u == UncacheBlob(p.mem, e)
                        IN  blobCache' = u.cache /\ SetMem(Cleanup(u.mem, p.buf))
  <2>1. k \in Shared
    BY <1>3, Holds
  <2>2. IF hits = {}
        THEN /\ SetMem(Cleanup(Free(p.mem, blobs[k].ptr), p.buf))
             /\ UNCHANGED blobCache
        ELSE \E e \in hits : done(e)
    BY <1>3 DEF LocalBlobFree
  <2>3. hits # {}
    <3>1. PICK f \in [Shared -> blobCache] : Matching(f)
      BY <1>1, AtRest DEF CommandsInv, Matched
    <3>2. f[k] \in blobCache /\ f[k].key = KeyOf(blobs[k].path)
      BY <2>1, <3>1 DEF Matching
    <3>3. HandleParsed(mem, blobs[k].path, TRUE, p)
      BY <2>1, Holds, HandleParses DEF CommandsInv, CommandsType
    <3> HIDE DEF p
    <3>4. CacheKey(p.mem, p) = KeyOf(blobs[k].path)
      BY <3>3 DEF HandleParsed, Reads, CacheKey, KeyOf
    <3> QED BY <3>2, <3>4 DEF Cached
  <2> HIDE DEF hits, done
  <2>4. PICK e \in hits : done(e)
    BY <2>2, <2>3
  <2>5. e \in blobCache /\ e.key = CacheKey(p.mem, p)
    BY DEF Cached, hits
  <2> QED BY <1>1, <2>1, <2>4, <2>5, CmdFreeByHandle DEF done
<1> QED BY <1>2, <1>3

LEMMA CmdFinalize == ASSUME CommandsInv, FinalizeBlobs PROVE CommandsInv'
<1> DEFINE f == [e \in blobCache |-> e.block]
           w == FreeAll(mem, f)
           D == DOMAIN heap \ {f[i] : i \in DOMAIN f}
<1>1. Idle /\ SetMem(w) /\ blobCache' = {} /\ finalized' = TRUE /\ UNCHANGED <<blobs, call, leaked>>
  BY DEF FinalizeBlobs
<1>2. /\ call.bufs = <<>> /\ Lent(call.bufs) = {} /\ ~fault
      /\ mem \in Mems /\ mem.heap = heap /\ mem.fault = fault
      /\ DOMAIN heap = {blobs[j].ptr : j \in Locals} \cup {c.block : c \in blobCache} \cup leaked
      /\ ({blobs[j].ptr : j \in Locals} \cup {c.block : c \in blobCache}) \cap leaked = {}
      /\ \A e \in blobCache : e.block \in DOMAIN heap
  BY <1>1, AtRest
<1>3. /\ DOMAIN f = blobCache /\ \A i \in DOMAIN f : f[i] \in DOMAIN mem.heap
      /\ \A i, j \in DOMAIN f : f[i] = f[j] => i = j
  BY <1>2 DEF CommandsInv, OneOwner
<1>4. {f[i] : i \in DOMAIN f} = {c.block : c \in blobCache}
  OBVIOUS
<1> HIDE DEF f
<1>5. w \in Mems /\ w.fault = fault /\ DOMAIN w.heap = D
  BY <1>2, <1>3, FreeAllIs
<1> HIDE DEF w
<1>6. heap' = w.heap /\ fault' = w.fault
  BY <1>1 DEF SetMem
<1>7. CommandsType'
  <2>1. mem' \in Mems
    BY <1>5, <1>6, MemMade
  <2> QED BY <1>1, <2>1, FS_EmptySet DEF CommandsInv, CommandsType
<1>8. Locals' = Locals /\ Lent(call'.bufs) = {}
  BY <1>1, <1>2 DEF Locals, Held
<1>9. OneOwner'
  BY <1>1, <1>8 DEF CommandsInv, OneOwner
<1>10. LeftOver'
  <2>1. \A c \in blobCache, j \in Locals : c.block # blobs[j].ptr
    BY DEF CommandsInv, OneOwner
  <2> DEFINE P == {blobs[j].ptr : j \in Locals}
             E == {c.block : c \in blobCache}
  <2>2. P \cap E = {}
    BY ONLY <2>1
  <2>3. {call'.bufs[i] : i \in Lent(call'.bufs)} = {} /\ {c.block : c \in blobCache'} = {}
    BY <1>1, <1>8
  <2>4. Owned' = P
    BY <1>1, <1>8, <2>3 DEF Owned
  <2>5. /\ DOMAIN heap' = DOMAIN heap \ E /\ leaked' = leaked
        /\ DOMAIN heap = P \cup E \cup leaked /\ (P \cup E) \cap leaked = {}
    BY <1>1, <1>2, <1>4, <1>5, <1>6
  <2> HIDE DEF P, E
  <2> QED BY <2>2, <2>4, <2>5 DEF LeftOver
<1>11. Matched' /\ UnderItsKey' /\ BlobsValid'
  BY <1>1 DEF Matched, UnderItsKey, BlobsValid
<1>12. NamesMember' /\ ~fault'
  BY <1>1, <1>2, <1>5, <1>6 DEF CommandsInv, NamesMember
<1> QED BY <1>7, <1>9, <1>10, <1>11, <1>12 DEF CommandsInv

LEMMA CommandsInvInit == ASSUME CommandsInit PROVE CommandsInv
<1>1. /\ heap = <<>> /\ fault = FALSE /\ blobCache = {} /\ call = NoCall /\ leaked = {}
      /\ finalized = FALSE
      /\ blobs = [k \in 1 .. MaxBlobs |-> NoBlob]
  BY DEF CommandsInit
<1>2. Held = {} /\ Locals = {} /\ Shared = {}
  BY <1>1 DEF Held, Locals, Shared
<1>3. call.bufs = <<>> /\ Lent(<<>>) = {} /\ <<>> \in Seq(Int)
  BY <1>1 DEF NoCall, Lent
<1>4. mem \in Mems
  <2> DEFINE w == [heap |-> <<>>, scratch |-> <<>>, fault |-> FALSE]
  <2>1. <<>> \in [{} -> Str] /\ IsFiniteSet({}) /\ {} \in SUBSET Blocks
    BY FS_EmptySet
  <2>2. w \in Mems
    BY <2>1, StrEmpty, MakeMem
  <2>3. heap = w.heap /\ fault = w.fault
    BY <1>1
  <2> HIDE DEF w
  <2> QED BY <2>2, <2>3, MemMade
<1>5. NoBlob \in [ptr : Int, data : Str, freed : BOOLEAN, path : BlobPaths \cup {NoHandle}]
  BY StrEmpty, Places DEF NoBlob
<1>6. CommandsType
  BY <1>1, <1>3, <1>4, <1>5, FS_EmptySet DEF CommandsType
<1>7. OneOwner
  BY <1>1, <1>2, <1>3 DEF OneOwner
<1>8. LeftOver
  <2>1. Owned = {}
    BY <1>1, <1>2, <1>3 DEF Owned
  <2> QED BY <1>1, <2>1 DEF LeftOver
<1>9. Matched
  <2> DEFINE f == [k \in Shared |-> NoCall]
  <2>1. f \in [Shared -> blobCache] /\ Matching(f)
    BY <1>1, <1>2 DEF Matching
  <2> QED BY <2>1 DEF Matched
<1>10. UnderItsKey /\ BlobsValid /\ NamesMember
  BY <1>1, <1>2 DEF UnderItsKey, BlobsValid, NamesMember, NoCall
<1> QED BY <1>1, <1>6, <1>7, <1>8, <1>9, <1>10 DEF CommandsInv

LEMMA CommandsInvNext == ASSUME CommandsInv, [CommandsNext]_commandsVars PROVE CommandsInv'
<1>1. CASE UNCHANGED commandsVars
  <2>1. UNCHANGED <<heap, fault, blobCache, blobs, call, leaked, finalized>>
    BY <1>1 DEF commandsVars
  <2>2. Matched' /\ UnderItsKey' /\ Locals' = Locals /\ Shared' = Shared /\ Held' = Held
    BY <2>1, TableKept
  <2>3. mem' \in Mems
    BY <2>1, MemMade DEF CommandsInv, CommandsType, mem
  <2>4. CommandsType' /\ OneOwner' /\ LeftOver'
    BY <2>1, <2>2, <2>3 DEF CommandsInv, CommandsType, OneOwner, LeftOver, Owned
  <2>5. BlobsValid' /\ NamesMember' /\ ~fault'
    BY <2>1 DEF CommandsInv, BlobsValid, NamesMember
  <2> QED BY <2>1, <2>2, <2>4, <2>5 DEF CommandsInv
<1>2. ASSUME NEW path \in Paths, NEW sub \in Subs, NEW kind \in {"container", "struct"},
             NEW moves \in BOOLEAN, Lookup(path, kind, sub, moves)
      PROVE  CommandsInv'
  BY <1>2, CmdLookup
<1>3. ASSUME NEW path \in Paths, NEW sub \in Subs, NEW kind \in {"container", "struct"},
             NEW ref \in Paths, NEW moves \in BOOLEAN, Reference(path, kind, sub, ref, moves)
      PROVE  CommandsInv'
  BY <1>3, CmdReference
<1>4. ASSUME NEW path \in Paths, NEW sub \in Subs, NEW moves \in BOOLEAN,
             InsertAtomic(path, sub, moves)
      PROVE  CommandsInv'
  BY <1>4, CmdInsertAtomic
<1>5. ASSUME NEW path \in Paths, Subscribe(path) PROVE CommandsInv'
  BY <1>5, CmdSubscribe
<1>6. ASSUME NEW n \in 0 .. MaxInputs, NEW paths \in [1 .. n -> Paths],
             Rule(paths) \/ RuleError(paths)
      PROVE  CommandsInv'
  <2>0. n \in Nat
    BY CommandsAssumption
  <2>1. paths \in Seq(Paths)
    BY <2>0
  <2> QED BY <1>6, <2>1, CmdRule, CmdRuleError
<1>7. CASE Return
  BY <1>7, CmdReturn
<1>8. ASSUME NEW k \in 1 .. MaxBlobs, NEW path \in BlobPaths, RetrieveBlob(path, k)
      PROVE  CommandsInv'
  BY <1>8, CmdRetrieveBlob
<1>9. ASSUME NEW k \in 1 .. MaxBlobs, NEW list \in Lists, BlobFromList(list, k)
      PROVE  CommandsInv'
  BY <1>9, CmdBlobFromList
<1>10. ASSUME NEW k \in 1 .. MaxBlobs, BlobFree(k) \/ LocalBlobFree(k) PROVE CommandsInv'
  BY <1>10, CmdBlobFree, CmdLocalBlobFree
<1>11. CASE FinalizeBlobs
  BY <1>11, CmdFinalize
<1>12. CASE Done
  BY <1>1, <1>12 DEF Done
<1>13. CASE ReturnError
  BY <1>13, CmdReturnError
<1>14. ASSUME NEW path \in BlobPaths, BlobFreeError(path) PROVE CommandsInv'
  BY <1>14, CmdBlobFreeError
<1> QED BY <1>1, <1>2, <1>3, <1>4, <1>5, <1>6, <1>7, <1>8, <1>9, <1>10, <1>11, <1>12, <1>13, <1>14
        DEF CommandsNext

LEMMA CommandsInvAlways == CommandsSpec => []CommandsInv
BY CommandsInvInit, CommandsInvNext, PTL DEF CommandsSpec

\* Different arguments have different values.
LEMMA SameNumber ==
  ASSUME NEW S, IsFiniteSet(S), NEW f, DOMAIN f = S, \A i, j \in S : f[i] = f[j] => i = j,
         f = [i \in S |-> f[i]]
  PROVE  LET T == {f[i] : i \in S}
         IN  IsFiniteSet(T) /\ Cardinality(T) = Cardinality(S) /\ Cardinality(T) \in Nat
<1> DEFINE T == {f[i] : i \in S}
<1>1. f \in [S -> T]
  OBVIOUS
<1>2. f \in Bijection(S, T)
  BY <1>1 DEF Bijection, Injection, Surjection, IsInjective
<1>3. ExistsBijection(S, T)
  BY <1>2 DEF ExistsBijection
<1> HIDE DEF T
<1>4. IsFiniteSet(T) /\ Cardinality(T) = Cardinality(S)
  BY <1>3, FS_Bijection
<1> QED BY <1>4, FS_CardinalityType DEF T

LEMMA Disjoint ==
  ASSUME NEW S, IsFiniteSet(S), NEW T, IsFiniteSet(T), S \cap T = {}
  PROVE  IsFiniteSet(S \cup T) /\ Cardinality(S \cup T) = Cardinality(S) + Cardinality(T)
<1>1. Cardinality(S \cap T) = 0
  BY FS_EmptySet
<1>2. Cardinality(S) \in Nat /\ Cardinality(T) \in Nat
  BY FS_CardinalityType
<1>3. /\ IsFiniteSet(S \cup T)
      /\ Cardinality(S \cup T) = Cardinality(S) + Cardinality(T) - Cardinality(S \cap T)
  BY FS_Union
<1> DEFINE s == Cardinality(S)
           t == Cardinality(T)
<1>4. s \in Nat /\ t \in Nat /\ Cardinality(S \cup T) = s + t - 0
  BY <1>1, <1>2, <1>3
<1> HIDE DEF s, t
<1>5. Cardinality(S \cup T) = s + t
  BY ONLY <1>4
<1> QED BY <1>3, <1>5 DEF s, t

\* One owner each, so that owners and blocks are as many; an entry for each
\* retrieved list, so that entries and lists are as many.
LEMMA Accounted == ASSUME CommandsInv PROVE MemoryOwned
<1> DEFINE lent == Lent(call.bufs)
           P == {blobs[k].ptr : k \in Locals}
           B == {call.bufs[i] : i \in lent}
           E == {e.block : e \in blobCache}
<1>1. IsFiniteSet(Held) /\ IsFiniteSet(Locals) /\ IsFiniteSet(Shared) /\ IsFiniteSet(blobCache)
      /\ IsFiniteSet(lent)
  <2>0. MaxBlobs \in Nat
    BY CommandsAssumption
  <2>1. IsFiniteSet(1 .. MaxBlobs)
    BY <2>0, FS_Interval
  <2>2. Held \in SUBSET (1 .. MaxBlobs)
    BY DEF Held
  <2>3. IsFiniteSet(Held)
    BY <2>1, <2>2, FS_Subset
  <2>4. Locals \in SUBSET Held /\ Shared \in SUBSET Held
    BY DEF Locals, Shared
  <2>5. Len(call.bufs) \in Nat /\ lent \in SUBSET (1 .. Len(call.bufs))
    BY DEF CommandsInv, CommandsType, Lent
  <2>6. IsFiniteSet(1 .. Len(call.bufs))
    <3> DEFINE n == Len(call.bufs)
    <3>1. n \in Nat
      BY <2>5
    <3> HIDE DEF n
    <3>2. IsFiniteSet(1 .. n)
      BY <3>1, FS_Interval
    <3> QED BY <3>2 DEF n
  <2> HIDE DEF lent
  <2>7. IsFiniteSet(Locals) /\ IsFiniteSet(Shared)
    BY <2>3, <2>4, FS_Subset
  <2>8. IsFiniteSet(lent)
    BY <2>5, <2>6, FS_Subset
  <2> QED BY <2>3, <2>7, <2>8 DEF CommandsInv, CommandsType
<1>2. IsFiniteSet(P) /\ Cardinality(P) = Cardinality(Locals)
  <2> DEFINE f == [k \in Locals |-> blobs[k].ptr]
  <2>1. /\ DOMAIN f = Locals /\ f = [k \in Locals |-> f[k]]
        /\ \A i, j \in Locals : f[i] = f[j] => i = j
    BY DEF CommandsInv, OneOwner
  <2>2. P = {f[k] : k \in Locals}
    OBVIOUS
  <2> HIDE DEF f, P
  <2>3. LET T == {f[k] : k \in Locals} IN IsFiniteSet(T) /\ Cardinality(T) = Cardinality(Locals)
    BY <1>1, <2>1, SameNumber
  <2> QED BY <2>2, <2>3
<1>3. IsFiniteSet(B) /\ Cardinality(B) = Cardinality(lent)
  <2> DEFINE f == [i \in lent |-> call.bufs[i]]
  <2>1. /\ DOMAIN f = lent /\ f = [i \in lent |-> f[i]]
        /\ \A i, j \in lent : f[i] = f[j] => i = j
    BY DEF CommandsInv, OneOwner
  <2>2. B = {f[i] : i \in lent}
    OBVIOUS
  <2> HIDE DEF f, B, lent
  <2>3. LET T == {f[i] : i \in lent} IN IsFiniteSet(T) /\ Cardinality(T) = Cardinality(lent)
    BY <1>1, <2>1, SameNumber
  <2> QED BY <2>2, <2>3
<1>4. IsFiniteSet(E) /\ Cardinality(E) = Cardinality(blobCache)
  <2> DEFINE f == [e \in blobCache |-> e.block]
  <2>1. /\ DOMAIN f = blobCache /\ f = [e \in blobCache |-> f[e]]
        /\ \A i, j \in blobCache : f[i] = f[j] => i = j
    BY DEF CommandsInv, OneOwner
  <2>2. E = {f[e] : e \in blobCache}
    OBVIOUS
  <2> HIDE DEF f, E
  <2>3. LET T == {f[e] : e \in blobCache}
        IN  IsFiniteSet(T) /\ Cardinality(T) = Cardinality(blobCache)
    BY <1>1, <2>1, SameNumber
  <2> QED BY <2>2, <2>3
<1>5. P \cap B = {} /\ (P \cup B) \cap E = {}
  BY DEF CommandsInv, OneOwner
<1>6. /\ DOMAIN heap = (P \cup B \cup E) \cup leaked /\ (P \cup B \cup E) \cap leaked = {}
      /\ ~fault
  BY DEF CommandsInv, LeftOver, Owned
<1>7. ~finalized => Cardinality(blobCache) = Cardinality(Shared)
  <2> SUFFICES ASSUME ~finalized PROVE Cardinality(blobCache) = Cardinality(Shared)
    OBVIOUS
  <2>1. PICK f \in [Shared -> blobCache] : Matching(f)
    BY DEF CommandsInv, Matched
  <2>2. f \in Bijection(Shared, blobCache)
    BY <2>1 DEF Matching, Bijection, Injection, Surjection, IsInjective
  <2>3. ExistsBijection(Shared, blobCache)
    BY <2>2 DEF ExistsBijection
  <2> QED BY <1>1, <2>3, FS_Bijection
<1>8. Cardinality(Held) = Cardinality(Shared) + Cardinality(Locals)
  <2>1. Held = Shared \cup Locals /\ Shared \cap Locals = {}
    BY DEF Shared, Locals
  <2> QED BY <1>1, <2>1, Disjoint
<1> HIDE DEF P, B, E, lent
<1>9. Cardinality(P \cup B \cup E)
      = Cardinality(Locals) + Cardinality(lent) + Cardinality(blobCache)
  <2>1. IsFiniteSet(P \cup B) /\ Cardinality(P \cup B) = Cardinality(P) + Cardinality(B)
    BY <1>2, <1>3, <1>5, Disjoint
  <2> DEFINE Q == P \cup B
  <2>2. IsFiniteSet(Q) /\ Q \cap E = {}
    BY <1>5, <2>1
  <2> HIDE DEF Q
  <2>3. Cardinality(Q \cup E) = Cardinality(Q) + Cardinality(E)
    BY <1>4, <2>2, Disjoint
  <2> QED BY <1>2, <1>3, <1>4, <2>1, <2>3 DEF Q
<1>10. ~finalized => Cardinality(blobCache) + Cardinality(Locals) = Cardinality(Held)
  BY <1>7, <1>8
<1> QED BY <1>6, <1>9, <1>10 DEF MemoryOwned, Held, Locals, P, B, E, lent

\* ADLB sees the members that the program named, for handles of any length and
\* any number of them in one command (ADLB_Parse_Handle, ADLB_Parse_Subscript,
\* turbine_extract_ids), except in the two cases NamesMember leaves out: a struct
\* subscript appended to another (tcl-adlb.c:5547), and a block that moves while
\* a subscript is appended to it (tcl-adlb.c:5485).
THEOREM CommandsNameMembers == CommandsSpec => []NamesMember
<1>1. CommandsInv => NamesMember
  BY DEF CommandsInv
<1> QED BY <1>1, CommandsInvAlways, PTL

\* Every live block has one owner or was left behind by a command that failed,
\* and none is freed twice (ADLB_PARSE_HANDLE_CLEANUP, uncache_blob,
\* blob_cache_finalize).  A command that succeeds leaves nothing behind: only the
\* error exits add to leaked.
THEOREM CommandsOwnMemory == CommandsSpec => []MemoryOwned
BY Accounted, CommandsInvAlways, PTL

\* The blob of a list whose handle no free command has named is intact
\* (ADLB_Retrieve_Blob_Impl, blob_cache_key, uncache_blob).
THEOREM CommandsKeepBlobs == CommandsSpec => []BlobsValid
<1>1. CommandsInv => BlobsValid
  BY DEF CommandsInv
<1> QED BY <1>1, CommandsInvAlways, PTL
=============================================================================
