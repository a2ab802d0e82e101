------------------------------ MODULE Containers ------------------------------
(***************************************************************************)
(* Statements of a Swift program on an array A of arrays, as the container *)
(* library (code/lib/container.tcl) and the Tcl commands under it          *)
(* (code/src/tcl/adlb/tcl-adlb.c) carry them out:                          *)
(*                                                                         *)
(*   A[i][j] = d    c_f_create and cr_v_insert through a reference, or     *)
(*                  c_v_create and container_insert where i is known;      *)
(*   A[i] = B       c_f_insert;                                            *)
(*   size(A[i])     c_f_lookup, a dereference and container_size;          *)
(*   contains(A,i)  contains.                                              *)
(*                                                                         *)
(* The inner arrays are created by whoever writes to them first, while     *)
(* others may be about to.  Each step is one call to the data store; ranks *)
(* interleave between calls.  The store is external: it counts references, *)
(* closes a datum when its last write reference goes and deletes it when   *)
(* it has none at all; a container that closes (is deleted) gives back the *)
(* write (read) references its members hold.                               *)
(***************************************************************************)
EXTENDS Integers, FiniteSets

CONSTANTS
  Nested,    \* statements A[i][j] = d
  ByRef,     \* those whose index i is a future
  Plain,     \* statements A[i] = B; also the arrays B themselves
  Readers,   \* statements size(A[i])
  Checkers,  \* statements contains(A, i)
  Subs,      \* subscripts of A
  SubOf,     \* the subscript each statement is about
  Stock,     \* references the slot of a nested array starts with: 2 << 24
  None

Writers == Nested \cup Plain
Statements == Writers \cup Readers \cup Checkers

ASSUME StatementAssumption ==
  /\ IsFiniteSet(Statements) /\ None \notin Statements /\ ByRef \subseteq Nested
  /\ SubOf \in [Statements -> Subs] /\ Stock \in Nat \ {0}
  /\ Nested \cap Plain = {} /\ Writers \cap (Readers \cup Checkers) = {}
  /\ Readers \cap Checkers = {}

\* Single assignment: nothing else writes where an array is inserted whole.
ASSUME SingleAssignment ==
  \A p \in Plain : \A w \in Writers \ {p} : SubOf[w] # SubOf[p]

VARIABLES
  main,      \* the code that starts the statements: "run", "done"
  pc,        \* where each statement is
  got,       \* the inner array a statement has been given
  saw,       \* what a reader found: writers, or subscripts
  failed,    \* a command has raised an error
  ard, awr,  \* A: reference counts
  slot,      \* A[s]: [state, id, rd, wr], the last two what it holds on id
  ird, iwr,  \* reference counts of the inner arrays, named after their maker
  content    \* who has inserted into each

inner == <<ird, iwr, content>>
outer == <<ard, awr, slot>>
vars  == <<main, pc, got, saw, failed, outer, inner>>

Empty == [state |-> "none", id |-> None, rd |-> 0, wr |-> 0]
Reserved == [Empty EXCEPT !.state = "reserved"]
Holding(i, r, w) == [state |-> "set", id |-> i, rd |-> r, wr |-> w]

Init ==
  /\ main = "run" /\ failed = FALSE
  /\ pc = [t \in Statements |-> "idle"] /\ got = [t \in Statements |-> None]
  /\ saw = [t \in Readers \cup Checkers |-> {}]
  /\ ard = 1 /\ awr = 1 /\ slot = [s \in Subs |-> Empty]
  /\ ird = [w \in Writers |-> IF w \in Plain THEN 1 ELSE 0]
  /\ iwr = [w \in Writers |-> 0]
  /\ content = [w \in Writers |-> IF w \in Plain THEN {w} ELSE {}]

-----------------------------------------------------------------------------
Goto(t, from, to) == ~failed /\ pc[t] = from /\ pc' = [pc EXCEPT ![t] = to]
Slot(t) == slot[SubOf[t]]
SetSlot(t, v) == slot' = [slot EXCEPT ![SubOf[t]] = v]
Fail == failed' = TRUE /\ UNCHANGED <<main, pc, got, saw, outer, inner>>

AClosed == awr = 0
AGone   == awr = 0 /\ ard = 0
Gone(i) == iwr[i] = 0 /\ ird[i] = 0

\* write_refcount_incr of A, by c_f_insert or the caller of c_f_create, then a
\* rule on the index.
StartWriter(w) ==
  /\ main = "run" /\ Goto(w, "idle", "rule")
  /\ awr' = awr + 1
  /\ UNCHANGED <<main, got, saw, failed, ard, slot, inner>>

StartReader(r) ==
  /\ main = "run" /\ Goto(r, "idle", "rule")
  /\ ard' = ard + 1
  /\ UNCHANGED <<main, got, saw, failed, awr, slot, inner>>

MainDone ==
  /\ ~failed /\ main = "run"
  /\ main' = "done"
  /\ awr' = awr - 1 /\ ard' = ard - 1
  /\ UNCHANGED <<pc, got, saw, failed, slot, inner>>

-----------------------------------------------------------------------------
(* create_nested: c_v_create, c_f_create_body. *)

\* Giving away a reference to a member: from the stock the slot holds, so that
\* the inner array need not be touched, or a new one while only one is left.
Less(held) == IF held > 1 THEN held - 1 ELSE held
More(count, held) == IF held > 1 THEN count ELSE count + 1

\* The caller has the array: a reference of each kind on it for one on A.
Obtain(w, from) ==
  LET v == Slot(w) IN
  /\ Goto(w, from, "have")
  /\ got' = [got EXCEPT ![w] = v.id]
  /\ SetSlot(w, Holding(v.id, Less(v.rd), Less(v.wr)))
  /\ ird' = [ird EXCEPT ![v.id] = More(@, v.rd)]
  /\ iwr' = [iwr EXCEPT ![v.id] = More(@, v.wr)]
  /\ awr' = awr - 1
  /\ UNCHANGED <<main, saw, failed, ard, content>>

(***************************************************************************)
(* ADLB_Insert_atomic: reserve the slot, or find it reserved, or find the  *)
(* array.  A slot without write references was set to somebody's array.    *)
(***************************************************************************)
Reserve(w) ==
  /\ Slot(w).state = "none"
  /\ Goto(w, "rule", "create")
  /\ SetSlot(w, Reserved)
  /\ UNCHANGED <<main, got, saw, failed, ard, awr, inner>>

FindReserved(w) ==
  /\ Slot(w).state = "reserved"
  /\ Goto(w, "rule", "poll")
  /\ UNCHANGED <<main, got, saw, failed, outer, inner>>

FindSet(w) ==
  /\ pc[w] = "rule" /\ ~failed /\ Slot(w).state = "set"
  /\ IF Slot(w).wr = 0 \/ AClosed THEN Fail ELSE Obtain(w, "rule")

\* Faulty: makes an array without looking whether there is one.
InsertBlindly(w) ==
  /\ Goto(w, "rule", "create")
  /\ SetSlot(w, Reserved)
  /\ UNCHANGED <<main, got, saw, failed, ard, awr, inner>>

InsertAtomic(w) ==
  IF AClosed THEN ~failed /\ pc[w] = "rule" /\ Fail
  ELSE Reserve(w) \/ FindReserved(w) \/ FindSet(w)

\* Faulty: no write references for the slot.
CreateInnerBare(w) ==
  /\ Goto(w, "create", "fill")
  /\ ird' = [ird EXCEPT ![w] = Stock + 1]
  /\ iwr' = [iwr EXCEPT ![w] = 1]
  /\ UNCHANGED <<main, got, saw, failed, outer, content>>

\* ADLB_Create: references for the slot to hold, and the caller's.
CreateInner(w) ==
  /\ Goto(w, "create", "fill")
  /\ ird' = [ird EXCEPT ![w] = Stock + 1]
  /\ iwr' = [iwr EXCEPT ![w] = Stock + 1]
  /\ UNCHANGED <<main, got, saw, failed, outer, content>>

\* Faulty: the slot is told of fewer references than the array was made with.
FillSlotShort(w) ==
  /\ Goto(w, "fill", "have")
  /\ SetSlot(w, Holding(w, Stock, Stock - 1))
  /\ awr' = awr - 1
  /\ got' = [got EXCEPT ![w] = w]
  /\ UNCHANGED <<main, saw, failed, ard, inner>>

\* ADLB_Store into the reserved slot; the write reference on A goes now.
FillSlot(w) ==
  IF AClosed THEN ~failed /\ pc[w] = "fill" /\ Fail
  ELSE /\ Goto(w, "fill", "have")
       /\ SetSlot(w, Holding(w, Stock, Stock))
       /\ awr' = awr - 1
       /\ got' = [got EXCEPT ![w] = w]
       /\ UNCHANGED <<main, saw, failed, ard, inner>>

\* Faulty: waits for A to be closed, which its own write reference prevents.
PollClosed(w) == AClosed /\ Slot(w).state = "set" /\ Obtain(w, "poll")

\* ADLB_Retrieve until whoever reserved the slot has filled it.
Poll(w) == Slot(w).state = "set" /\ Obtain(w, "poll")

\* store_rw_ref, and the rule on the reference: acquire_write_ref hands over
\* what the reference held.
StoreRef(w) ==
  /\ w \in ByRef /\ Goto(w, "have", "ref")
  /\ UNCHANGED <<main, got, saw, failed, outer, inner>>

AcquireWriteRef(w) ==
  /\ \/ w \in ByRef /\ Goto(w, "ref", "insert")
     \/ w \in Nested \ ByRef /\ Goto(w, "have", "insert")
  /\ UNCHANGED <<main, got, saw, failed, outer, inner>>

\* Faulty: one of the two references acquired is kept.
InsertMemberKeeps(w) ==
  /\ Goto(w, "insert", "done")
  /\ content' = [content EXCEPT ![got[w]] = @ \cup {w}]
  /\ iwr' = [iwr EXCEPT ![got[w]] = @ - 1]
  /\ UNCHANGED <<main, got, saw, failed, outer, ird>>

\* container_insert into the inner array, dropping both references acquired.
InsertMember(w) ==
  IF iwr[got[w]] = 0 THEN ~failed /\ pc[w] = "insert" /\ Fail
  ELSE /\ Goto(w, "insert", "done")
       /\ content' = [content EXCEPT ![got[w]] = @ \cup {w}]
       /\ iwr' = [iwr EXCEPT ![got[w]] = @ - 1]
       /\ ird' = [ird EXCEPT ![got[w]] = @ - 1]
       /\ UNCHANGED <<main, got, saw, failed, outer>>

\* c_f_insert_body: a whole array into A, with the reference its caller held.
InsertPlain(p) ==
  IF AClosed \/ Slot(p).state # "none" THEN ~failed /\ pc[p] = "rule" /\ Fail
  ELSE /\ Goto(p, "rule", "done")
       /\ SetSlot(p, Holding(p, 1, 0))
       /\ awr' = awr - 1
       /\ UNCHANGED <<main, got, saw, failed, ard, inner>>

-----------------------------------------------------------------------------
(* Readers. *)

\* The reference datum gets a read reference on A[i] for the reader's on A.
Refer(r, from) ==
  LET v == Slot(r) IN
  /\ v.state = "set" /\ Goto(r, from, "ref")
  /\ got' = [got EXCEPT ![r] = v.id]
  /\ SetSlot(r, Holding(v.id, Less(v.rd), v.wr))
  /\ ird' = [ird EXCEPT ![v.id] = More(@, v.rd)]
  /\ ard' = ard - 1
  /\ UNCHANGED <<main, saw, failed, awr, iwr, content>>

\* c_f_lookup_body: container_reference, answered now or when A[i] is there.
LookupNow(r) == Refer(r, "rule")

LookupLater(r) ==
  /\ Slot(r).state # "set" /\ Goto(r, "rule", "subscribed")
  /\ UNCHANGED <<main, got, saw, failed, outer, inner>>

Notify(r) == Refer(r, "subscribed")

\* Rule on the reference: acquire_ref hands over what it held; a rule on A[i].
Dereference(r) ==
  /\ Goto(r, "ref", "wait")
  /\ UNCHANGED <<main, got, saw, failed, outer, inner>>

\* Faulty: does not wait for the array to close.
SizeEarly(r) ==
  /\ Goto(r, "wait", "done")
  /\ saw' = [saw EXCEPT ![r] = content[got[r]]]
  /\ ird' = [ird EXCEPT ![got[r]] = @ - 1]
  /\ UNCHANGED <<main, got, failed, outer, iwr, content>>

\* container_size_body, once A[i] is closed.
Size(r) ==
  /\ pc[r] = "wait" /\ iwr[got[r]] = 0
  /\ IF Gone(got[r]) THEN ~failed /\ Fail
     ELSE /\ Goto(r, "wait", "done")
          /\ saw' = [saw EXCEPT ![r] = content[got[r]]]
          /\ ird' = [ird EXCEPT ![got[r]] = @ - 1]
          /\ UNCHANGED <<main, got, failed, outer, iwr, content>>

\* contains_body, once A is closed: exists_sub with a read decrement.
Contains(c) ==
  /\ pc[c] = "rule" /\ AClosed
  /\ IF AGone THEN ~failed /\ Fail
     ELSE /\ Goto(c, "rule", "done")
          /\ saw' = [saw EXCEPT ![c] = {s \in Subs : s = SubOf[c] /\ slot[s].state = "set"}]
          /\ ard' = ard - 1
          /\ UNCHANGED <<main, got, failed, awr, slot, inner>>

-----------------------------------------------------------------------------
(* The data store. *)

\* A has closed: its members' write references go (release_write_refs).
ReleaseWrite(s) ==
  /\ AClosed /\ slot[s].wr > 0
  /\ iwr' = [iwr EXCEPT ![slot[s].id] = @ - slot[s].wr]
  /\ slot' = [slot EXCEPT ![s].wr = 0]
  /\ UNCHANGED <<main, pc, got, saw, failed, ard, awr, ird, content>>

\* A is deleted: so do their read references.
ReleaseRead(s) ==
  /\ AGone /\ slot[s].rd > 0
  /\ ird' = [ird EXCEPT ![slot[s].id] = @ - slot[s].rd]
  /\ slot' = [slot EXCEPT ![s].rd = 0]
  /\ UNCHANGED <<main, pc, got, saw, failed, ard, awr, iwr, content>>

-----------------------------------------------------------------------------
Write(w) ==
  \/ InsertAtomic(w) \/ CreateInner(w) \/ FillSlot(w) \/ Poll(w) \/ StoreRef(w)
  \/ AcquireWriteRef(w) \/ (pc[w] = "insert" /\ InsertMember(w))

Read(r) ==
  \/ LookupNow(r) \/ LookupLater(r) \/ Notify(r) \/ Dereference(r) \/ Size(r)

Store == \E s \in Subs : ReleaseWrite(s) \/ ReleaseRead(s)

Finished == main = "done" /\ \A t \in Statements : pc[t] \in {"idle", "done"}

\* Everything is done, or a reader waits for what nobody writes.
Ended ==
  /\ \/ failed
     \/ /\ main = "done" /\ \A t \in Statements : pc[t] \in {"idle", "done", "subscribed"}
        /\ \A t \in Statements : pc[t] = "subscribed" => Slot(t).state # "set"
  /\ UNCHANGED vars

Next ==
  \/ MainDone \/ Store \/ Ended
  \/ \E w \in Writers : StartWriter(w)
  \/ \E r \in Readers \cup Checkers : StartReader(r)
  \/ \E w \in Nested : Write(w)
  \/ \E p \in Plain : InsertPlain(p)
  \/ \E r \in Readers : Read(r)
  \/ \E c \in Checkers : Contains(c)

Spec == Init /\ [][Next]_vars

\* Ranks run the tasks released to them and the data store does its work.
FairSpec ==
  /\ Spec /\ WF_vars(MainDone) /\ WF_vars(Store)
  /\ \A w \in Nested : WF_vars(Write(w))
  /\ \A p \in Plain : WF_vars(InsertPlain(p))
  /\ \A r \in Readers : WF_vars(Read(r))
  /\ \A c \in Checkers : WF_vars(Contains(c))

-----------------------------------------------------------------------------
(* Properties. *)

States == {"idle", "rule", "create", "fill", "poll", "have", "ref", "insert",
           "subscribed", "wait", "done"}

\* The values the variables take; no reference count goes below zero.
TypeOK ==
  /\ main \in {"run", "done"} /\ failed \in BOOLEAN
  /\ pc \in [Statements -> States] /\ got \in [Statements -> Writers \cup {None}]
  /\ saw \in [Readers \cup Checkers -> SUBSET (Writers \cup Subs)]
  /\ ard \in Nat /\ awr \in Nat
  /\ slot \in [Subs -> [state : {"none", "reserved", "set"}, id : Writers \cup {None},
                        rd : Nat, wr : Nat]]
  /\ ird \in [Writers -> Nat] /\ iwr \in [Writers -> Nat]
  /\ content \in [Writers -> SUBSET Writers]

(***************************************************************************)
(* No command fails: nobody inserts into an array that has closed, reads   *)
(* one that has been deleted, or finds a slot taken, in whatever order the *)
(* statements come to it.                                                  *)
(***************************************************************************)
NoFailure == ~failed

(***************************************************************************)
(* Statements that write under one subscript share one inner array, though *)
(* several may find the slot empty or reserved: none is made twice, and    *)
(* none is made and then not put into A.                                   *)
(***************************************************************************)
OneInner ==
  /\ \A v, w \in Nested : SubOf[v] = SubOf[w] /\ got[v] # None /\ got[w] # None => got[v] = got[w]
  /\ \A w \in Writers : content[w] # {} /\ w \in Nested => Slot(w).id = w

Among(S, states) == Cardinality({t \in S : pc[t] \in states})
With(i, S, states) == Cardinality({t \in S : got[t] = i /\ pc[t] \in states})
SlotSum(i, f) == IF Slot(i).id = i THEN Slot(i)[f] ELSE 0

(***************************************************************************)
(* Every reference is somebody's: A's counts are those of main and of the  *)
(* statements still to use A, an inner array's those of its slot and of    *)
(* the statements that were given it.                                      *)
(***************************************************************************)
RefsBalanced ==
  /\ awr = (IF main = "run" THEN 1 ELSE 0) + Among(Writers, {"rule", "create", "fill", "poll"})
  /\ ard = (IF main = "run" THEN 1 ELSE 0) + Among(Readers \cup Checkers, {"rule", "subscribed"})
  /\ \A w \in Nested :
       pc[w] # "fill" =>
         /\ iwr[w] = SlotSum(w, "wr") + With(w, Nested, {"have", "ref", "insert"})
         /\ ird[w] = SlotSum(w, "rd") + With(w, Nested, {"have", "ref", "insert"})
                                      + With(w, Readers, {"ref", "wait"})

(***************************************************************************)
(* What a reader finds in a closed array, and what is answered to one that *)
(* asks whether a subscript is there, is everything the program writes:    *)
(* results do not depend on the order in which the ranks ran.              *)
(***************************************************************************)
WrittenAt(s) == {w \in Writers : SubOf[w] = s /\ pc[w] # "idle"}

ReadersSeeAll ==
  /\ \A r \in Readers : pc[r] = "done" => saw[r] = WrittenAt(SubOf[r])
  /\ \A c \in Checkers : pc[c] = "done" => saw[c] = {SubOf[w] : w \in WrittenAt(SubOf[c])}

(***************************************************************************)
(* When every statement is done and the store has released what A held, no *)
(* inner array that was put into A is left.                                *)
(***************************************************************************)
NothingLeaks ==
  Finished /\ AGone /\ (\A s \in Subs : slot[s].rd = 0 /\ slot[s].wr = 0) =>
    \A w \in Writers : pc[w] = "done" => Gone(w)

(***************************************************************************)
(* Every write that was started takes effect, those that poll for another  *)
(* rank's store included, and a reader of a subscript that is written gets *)
(* its answer.                                                             *)
(***************************************************************************)
StatementsEnd ==
  /\ \A w \in Writers : pc[w] = "rule" ~> pc[w] = "done"
  /\ \A r \in Readers : pc[r] = "rule" /\ (\E w \in Writers : SubOf[w] = SubOf[r] /\ pc[w] # "idle")
                          ~> pc[r] = "done"

=============================================================================
