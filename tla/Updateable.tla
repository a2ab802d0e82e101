------------------------------ MODULE Updateable ------------------------------
(***************************************************************************)
(* Updateable variables (code/lib/updateable.tcl): update_min, update_incr *)
(* and update_scale on one float x, each run by some rank once its         *)
(* argument is closed.  An update is a read and a write of x with the      *)
(* other ranks in between, under a lock of the data store that lock_loop   *)
(* tries for a bounded number of times, and keeps x open with a write      *)
(* reference that it drops last.                                           *)
(*                                                                         *)
(* Each action is one call to the data store, the unit of interleaving.    *)
(* The store (its lock, its write count) is external; so is the compiled   *)
(* code that creates x, takes a reference for each update it starts and    *)
(* drops its own at the end.                                               *)
(***************************************************************************)
EXTENDS Integers, FiniteSets

CONSTANTS
  Updates,   \* the updates the program may start
  Op,        \* "min", "incr" or "scale" for each
  Arg,       \* the value of its argument
  Start,     \* what x is initialised to
  Empty,     \* x before that; also: nobody holds the lock
  MaxTries   \* failed attempts lock_loop makes before it gives up: 1000

ASSUME UpdateAssumption == IsFiniteSet(Updates) /\ Empty \notin Updates /\ Empty \notin Int
ASSUME ArgAssumption ==
  /\ Op \in [Updates -> {"min", "incr", "scale"}] /\ Arg \in [Updates -> Int]
  /\ Start \in Int /\ MaxTries \in Nat

VARIABLES
  creator,  \* "new", "open", "gone"
  pc,       \* where each update is
  tries,    \* lock_loop: i
  old,      \* what each update has read
  x,        \* data store: the value of the variable
  lock,     \* data store: who holds its lock
  writers,  \* data store: its write reference count
  failed    \* an update has raised an error, which ends the run

store == <<x, lock, writers>>
vars  == <<creator, pc, tries, old, store, failed>>

Init ==
  /\ creator = "new"
  /\ pc = [u \in Updates |-> "idle"]
  /\ tries = [u \in Updates |-> 0] /\ old = [u \in Updates |-> Empty]
  /\ x = Empty /\ lock = Empty /\ writers = 1
  /\ failed = FALSE

-----------------------------------------------------------------------------
(* The code that creates x. *)

\* init_updateable_float: store with no write decrement.
InitUpdateable ==
  /\ ~failed /\ creator = "new"
  /\ creator' = "open"
  /\ x' = Start
  /\ UNCHANGED <<pc, tries, old, lock, writers, failed>>

\* update_min, update_incr, update_scale: a reference for the update, a rule.
StartUpdate(u) ==
  /\ ~failed /\ creator = "open" /\ pc[u] = "idle"
  /\ pc' = [pc EXCEPT ![u] = "rule"]
  /\ writers' = writers + 1
  /\ UNCHANGED <<creator, tries, old, x, lock, failed>>

CreatorDrop ==
  /\ ~failed /\ creator = "open"
  /\ creator' = "gone"
  /\ writers' = writers - 1
  /\ UNCHANGED <<pc, tries, old, x, lock, failed>>

-----------------------------------------------------------------------------
(* The body of an update. *)

Goto(u, from, to) == ~failed /\ pc[u] = from /\ pc' = [pc EXCEPT ![u] = to]

\* The argument is closed: the body starts and retrieves it.
Fire(u) ==
  /\ Goto(u, "rule", "lock")
  /\ UNCHANGED <<creator, tries, old, store, failed>>

\* Faulty: the answer of adlb::lock is ignored.
LockIgnored(u) ==
  /\ Goto(u, "lock", "read")
  /\ lock' = u
  /\ UNCHANGED <<creator, tries, old, x, writers, failed>>

\* lock_loop: adlb::lock says true.
LockTaken(u) ==
  /\ Goto(u, "lock", "read")
  /\ lock = Empty
  /\ lock' = u
  /\ UNCHANGED <<creator, tries, old, x, writers, failed>>

OutOfTries(u) == tries[u] >= MaxTries

\* lock_loop: adlb::lock says false; sleep and try again, or give up.
LockBusy(u) ==
  /\ ~failed /\ pc[u] = "lock" /\ lock # Empty
  /\ IF OutOfTries(u)
     THEN failed' = TRUE /\ UNCHANGED tries
     ELSE tries' = [tries EXCEPT ![u] = @ + 1] /\ UNCHANGED failed
  /\ UNCHANGED <<creator, pc, old, store>>

\* set old [ adlb::retrieve $x float ]
Read(u) ==
  /\ Goto(u, "read", "write")
  /\ old' = [old EXCEPT ![u] = x]
  /\ UNCHANGED <<creator, tries, store, failed>>

\* What update u makes of the value v.
NewValue(u, v) ==
  CASE Op[u] = "min"   -> IF v > Arg[u] THEN Arg[u] ELSE v
    [] Op[u] = "incr"  -> Arg[u] + v
    [] Op[u] = "scale" -> Arg[u] * v

\* adlb::store with no write decrement; update_min stores only a smaller value.
Write(u) ==
  /\ Goto(u, "write", "unlock")
  /\ IF Op[u] = "min" /\ old[u] <= Arg[u]
     THEN UNCHANGED x
     ELSE x' = NewValue(u, old[u])
  /\ UNCHANGED <<creator, tries, old, lock, writers, failed>>

\* adlb::unlock
Unlock(u) ==
  /\ Goto(u, "unlock", "decr")
  /\ lock' = Empty
  /\ UNCHANGED <<creator, tries, old, x, writers, failed>>

\* Faulty: no decrement where there was nothing to store.
DropIfStored(u) ==
  /\ Goto(u, "decr", "done")
  /\ writers' = IF Op[u] = "min" /\ old[u] <= Arg[u] THEN writers ELSE writers - 1
  /\ UNCHANGED <<creator, tries, old, x, lock, failed>>

\* write_refcount_decr
Drop(u) ==
  /\ Goto(u, "decr", "done")
  /\ writers' = writers - 1
  /\ UNCHANGED <<creator, tries, old, x, lock, failed>>

-----------------------------------------------------------------------------
Update(u) ==
  \/ Fire(u) \/ LockTaken(u) \/ LockBusy(u) \/ Read(u) \/ Write(u) \/ Unlock(u) \/ Drop(u)

\* Nobody has anything left to do, or an error has ended the run.
Ended ==
  /\ failed \/ (creator = "gone" /\ \A u \in Updates : pc[u] \in {"idle", "done"})
  /\ UNCHANGED vars

Next ==
  \/ InitUpdateable \/ CreatorDrop \/ Ended
  \/ \E u \in Updates : StartUpdate(u) \/ Update(u)

Spec == Init /\ [][Next]_vars

\* Ranks keep running their tasks, and the creator comes to its end.
FairSpec ==
  /\ Spec /\ WF_vars(InitUpdateable) /\ WF_vars(CreatorDrop)
  /\ \A u \in Updates : WF_vars(Update(u))

-----------------------------------------------------------------------------
(* Properties. *)

Closed == writers = 0
Pending(u) == pc[u] \in {"rule", "lock", "read", "write", "unlock", "decr"}
Holding(u) == pc[u] \in {"read", "write", "unlock"}

\* The values the variables take.
TypeOK ==
  /\ creator \in {"new", "open", "gone"}
  /\ pc \in [Updates -> {"idle", "rule", "lock", "read", "write", "unlock", "decr", "done"}]
  /\ tries \in [Updates -> 0 .. MaxTries] /\ old \in [Updates -> Int \cup {Empty}]
  /\ x \in Int \cup {Empty} /\ lock \in Updates \cup {Empty}
  /\ writers \in Nat /\ failed \in BOOLEAN

(***************************************************************************)
(* The lock is held by the one update between adlb::lock and adlb::unlock, *)
(* and by nobody when there is none: no update that ends, with or without  *)
(* a store, leaves the variable locked behind it.                          *)
(***************************************************************************)
LockOwned == \A u \in Updates : lock = u <=> Holding(u)

(***************************************************************************)
(* What an update has read is still the value of x when it writes: no      *)
(* other rank's update falls between.                                      *)
(***************************************************************************)
ReadIsCurrent == \A u \in Updates : pc[u] = "write" => old[u] = x /\ x # Empty

(***************************************************************************)
(* x closes only after every update that was started has been applied and  *)
(* has given its lock back: the write count is the creator's reference and *)
(* one for each update not finished.                                       *)
(***************************************************************************)
ClosedIsFinal ==
  /\ writers = Cardinality({u \in Updates : Pending(u)}) + (IF creator = "gone" THEN 0 ELSE 1)
  /\ Closed => lock = Empty /\ \A u \in Updates : pc[u] \in {"idle", "done"}

\* Updates whose effect is in x.
Applied == {u \in Updates : pc[u] \in {"unlock", "decr", "done"}}

Cell == INSTANCE UpdateCell WITH
          cell <- x, applied <- Applied,
          wanted <- {u \in Updates : pc[u] # "idle"},
          open <- ~Closed, Combine <- NewValue

(***************************************************************************)
(* Updates from different ranks are atomic: x only ever takes the values   *)
(* that applying whole updates one after the other gives, each update is   *)
(* applied once, and all before x closes.                                  *)
(***************************************************************************)
ImplementsUpdateCell == Cell!Spec

(***************************************************************************)
(* x is closed in the end, with every update that was started applied,     *)
(* unless lock_loop gives up.                                              *)
(***************************************************************************)
ClosesAtLast == <>(Closed \/ failed)

=============================================================================
