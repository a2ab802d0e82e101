------------------------------ MODULE AsyncExec ------------------------------
(***************************************************************************)
(* The asynchronous executor worker: turbine_async_worker_loop and the     *)
(* functions it drives (code/src/turbine/async_exec.c), over an executor   *)
(* with a fixed number of slots (executors/noop_executor.c,                *)
(* executors/coaster_executor.c) and a ring of ADLB get requests.          *)
(*                                                                         *)
(* Three parties take steps.  The worker thread runs the loop; each of its *)
(* actions is the code between two points where it looks at, or waits for, *)
(* one of the other two.  The ADLB servers and the other ranks (external)  *)
(* put work units, match units to posted requests in the order of posting, *)
(* and announce shutdown once every rank is idle.  The Coaster client's    *)
(* own threads (external) finish jobs behind the worker's back.            *)
(*                                                                         *)
(* A work unit is one element of Units.  Running it may launch one task on *)
(* the executor, and so may each callback of that task in turn: the        *)
(* "Assumptions" comment at the head of async_exec.c.  The text of a unit  *)
(* and of a callback, the variables a callback sees, and which of the      *)
(* success and failure callbacks is run are data nothing here depends on.  *)
(***************************************************************************)
EXTENDS Integers, Sequences, FiniteSets

CONSTANTS
  Units,          \* work units of the executor's work type
  Idle, Pending,  \* states of a ring cell that holds no work unit
  Executor,       \* "noop" or "coaster"
  Slots,          \* slots.total of the executor
  BufferCount,    \* the buffer_count argument of async_exec_worker_loop
  MaxBuffers,     \* TURBINE_ASYNC_EXEC_MAX_REQS
  CompletedSize,  \* COMPLETED_BUFFER_SIZE
  MaxLaunches,    \* bound: launches along one chain of callbacks
  Faults,         \* TRUE: calls made by the loop may report an error
  EarlyShutdown   \* TRUE: ADLB may shut down while this worker is busy

ASSUME UnitAssumption == Idle \notin Units /\ Pending \notin Units /\ Idle # Pending
ASSUME SlotAssumption == Slots \in Nat \ {0}
ASSUME BufferAssumption == BufferCount \in Nat /\ MaxBuffers \in Nat \ {0}
ASSUME CompletedAssumption == CompletedSize \in Nat \ {0}
ASSUME FlagAssumption ==
  /\ Executor \in {"noop", "coaster"}
  /\ Faults \in BOOLEAN /\ EarlyShutdown \in BOOLEAN

VARIABLES
  pc,         \* where the worker thread is
  poll,       \* get_tasks: test requests rather than wait for them
  happened,   \* turbine_async_worker_loop: something_happened
  cell,       \* the request and the buffer at each index of the ring
  nreqs, head, tail,     \* get_req_state
  used,       \* slots.used of the executor
  active,     \* units with a task in the executor (tasks[] / active_tasks)
  finished,   \* Coaster only: active tasks whose job has ended
  completed,  \* check_tasks: collected tasks whose callback has not run
  refs,       \* references the executor layer holds on a unit's callbacks
  launches,   \* tasks launched so far along a unit's chain
  done,       \* units whose last callback has run
  dropped,    \* units whose task was still active in stop_executors
  started,    \* exec->started
  service,    \* the worker service is running (services.c)
  fresh,      \* units nobody has put yet
  queue,      \* ADLB: units put and not matched to a request
  posted,     \* ADLB: unmatched requests, oldest first
  others,     \* some other rank is still running
  shutdown    \* ADLB has shut down

ring    == <<cell, nreqs, head, tail>>
slots   == <<used, active, finished, refs, launches>>
results == <<completed, done, dropped>>
life    == <<started, service>>
adlb    == <<fresh, queue, posted, others, shutdown>>
vars    == <<pc, poll, happened, ring, slots, results, life, adlb>>

-----------------------------------------------------------------------------
(***************************************************************************)
(* The number of buffers the loop uses: Async_Exec_Worker_Loop_Cmd         *)
(* allocates at most one per slot, turbine_async_worker_loop uses at most  *)
(* TURBINE_ASYNC_EXEC_MAX_REQS.                                            *)
(***************************************************************************)
Smaller(a, b) == IF a < b THEN a ELSE b
Buffers == Smaller(BufferCount, Slots)
MaxReqs == Smaller(Buffers, MaxBuffers)
Ring == 0 .. MaxReqs - 1

Buffered == {u \in Units : \E i \in Ring : cell[i] = u}

\* Work that running Tcl code makes available: at most one unit per evaluation.
Released == {P \in SUBSET fresh : Cardinality(P) <= 1}

-----------------------------------------------------------------------------
Init ==
  /\ pc = "start" /\ poll = FALSE /\ happened = FALSE
  /\ cell = [i \in Ring |-> Idle]
  /\ nreqs = 0 /\ head = 0 /\ tail = 0
  /\ used = 0 /\ active = {} /\ finished = {}
  /\ refs = [u \in Units |-> 0] /\ launches = [u \in Units |-> 0]
  /\ completed = {} /\ done = {} /\ dropped = {}
  /\ started = FALSE /\ service = FALSE
  /\ fresh = Units /\ queue = {} /\ posted = << >>
  /\ others = TRUE /\ shutdown = FALSE

(***************************************************************************)
(* Entry of turbine_async_worker_loop: the assertion on the number of      *)
(* buffers, the worker service, then the executor.                         *)
(***************************************************************************)
Start ==
  /\ pc = "start"
  /\ UNCHANGED <<poll, happened, ring, slots, results, adlb>>
  /\ \/ /\ MaxReqs < 1
        /\ pc' = "abort"
        /\ UNCHANGED life
     \/ /\ MaxReqs >= 1
        /\ service' = TRUE
        /\ started' = TRUE
        /\ pc' = "loop"
     \/ /\ MaxReqs >= 1 /\ Faults   \* the service, or the executor, fails
        /\ service' \in BOOLEAN
        /\ pc' = "error"
        /\ UNCHANGED started

-----------------------------------------------------------------------------
(* get_tasks: post requests, then run the work units that have arrived. *)

\* Faulty: forgets the tasks that hold a slot.
ExtraReqsAllSlots == Smaller(Slots, MaxReqs) - nreqs

\* Requests still to post: one for each free slot, as far as buffers go.
ExtraReqs == Smaller(Slots - used, MaxReqs) - nreqs

\* Faulty: always wait for work, or always poll for it.
PollNever == FALSE
PollAlways == TRUE

\* get_tasks must not block while the executor has tasks of its own.
PollGet == used # 0

\* Faulty: hands the buffers over last first.
PostReversed(n) ==
  /\ cell' = [i \in Ring |-> IF \E j \in 0 .. n-1 : i = (head + j) % MaxReqs
                             THEN Pending ELSE cell[i]]
  /\ posted' = posted \o [j \in 1 .. n |-> (head + n - j) % MaxReqs]
  /\ head' = (head + n) % MaxReqs
  /\ nreqs' = nreqs + n

\* ADLB_Amget over the next n cells of the ring.
PostRequests(n) ==
  /\ cell' = [i \in Ring |-> IF \E j \in 0 .. n-1 : i = (head + j) % MaxReqs
                             THEN Pending ELSE cell[i]]
  /\ posted' = posted \o [j \in 1 .. n |-> (head + j - 1) % MaxReqs]
  /\ head' = (head + n) % MaxReqs
  /\ nreqs' = nreqs + n

GetTasks ==
  /\ pc = "loop"
  /\ used < Slots
  /\ pc' = "get"
  /\ poll' = PollGet
  /\ happened' = FALSE
  /\ \/ ExtraReqs > 0 /\ PostRequests(ExtraReqs)
     \/ ExtraReqs <= 0 /\ UNCHANGED <<cell, posted, head, nreqs>>
  /\ UNCHANGED <<tail, slots, results, life, fresh, queue, others, shutdown>>

GetTasksError ==
  /\ pc = "loop"
  /\ Faults /\ used < Slots /\ ExtraReqs > 0
  /\ pc' = "error"
  /\ UNCHANGED <<poll, happened, ring, slots, results, life, adlb>>

\* All slots are taken: the loop goes straight to the executor.
SkipGet ==
  /\ pc = "loop"
  /\ used >= Slots
  /\ pc' = "check"
  /\ happened' = FALSE
  /\ UNCHANGED <<poll, ring, slots, results, life, adlb>>

\* The oldest request is answered: take its cell off the ring.
RetireRequest ==
  /\ cell' = [cell EXCEPT ![tail] = Idle]
  /\ tail' = (tail + 1) % MaxReqs
  /\ nreqs' = nreqs - 1
  /\ UNCHANGED head

\* noop_execute, coaster_execute: task of unit u takes a slot.
Execute(u) ==
  /\ used' = used + 1
  /\ active' = active \cup {u}
  /\ launches' = [launches EXCEPT ![u] = @ + 1]
  /\ UNCHANGED finished

\* Running Tcl code puts the units in P.
Release(P) ==
  /\ fresh' = fresh \ P
  /\ queue' = queue \cup P
  /\ UNCHANGED <<posted, others, shutdown>>

\* assert(slots.used < slots.total) fails in the execute function.
AssertFails ==
  /\ pc' = "abort"
  /\ UNCHANGED <<poll, happened, ring, slots, results, life, adlb>>

(***************************************************************************)
(* Aget_test or Aget_wait succeeds on the oldest request and its unit is   *)
(* evaluated: it launches a task, or does all its work in place.           *)
(***************************************************************************)
RunLaunch(u) ==
  /\ pc = "get" /\ nreqs > 0 /\ cell[tail] = u
  /\ IF used >= Slots
     THEN AssertFails
     ELSE /\ Execute(u)
          /\ refs' = [refs EXCEPT ![u] = @ + 1]
          /\ RetireRequest
          /\ poll' = TRUE /\ happened' = TRUE
          /\ \E P \in Released : Release(P)
          /\ UNCHANGED <<pc, results, life>>

RunInline(u) ==
  /\ pc = "get" /\ nreqs > 0 /\ cell[tail] = u
  /\ done' = done \cup {u}
  /\ RetireRequest
  /\ poll' = TRUE /\ happened' = TRUE
  /\ \E P \in Released : Release(P)
  /\ UNCHANGED <<pc, slots, completed, dropped, life>>

\* ADLB reports an error for the request.
GetError ==
  /\ pc = "get" /\ nreqs > 0
  /\ Faults
  /\ pc' = "error"
  /\ UNCHANGED <<poll, happened, ring, slots, results, life, adlb>>

\* Code of unit u that fails may have launched its task before.
LaunchedOrNot(u) ==
  \/ UNCHANGED slots
  \/ /\ used < Slots /\ launches[u] < MaxLaunches
     /\ Execute(u)
     /\ refs' = [refs EXCEPT ![u] = @ + 1]

\* The unit's code fails, after what it has done; its request is not retired.
UnitError(u) ==
  /\ pc = "get" /\ nreqs > 0 /\ cell[tail] = u
  /\ Faults
  /\ LaunchedOrNot(u)
  /\ \E P \in Released : Release(P)
  /\ pc' = "error"
  /\ UNCHANGED <<poll, happened, ring, results, life>>

(***************************************************************************)
(* coaster_submit fails, under a unit or a callback: the slot stays taken, *)
(* and check_tasks returns without the callbacks it has still to run.      *)
(***************************************************************************)
SubmitError ==
  /\ Executor = "coaster" /\ Faults
  /\ \/ pc = "get" /\ nreqs > 0 /\ cell[tail] \in Units
     \/ pc = "callbacks"
  /\ used < Slots
  /\ used' = used + 1
  /\ completed' = {}
  /\ \E P \in Released : Release(P)
  /\ pc' = "error"
  /\ UNCHANGED <<poll, happened, ring, active, finished, refs, launches,
                 done, dropped, life>>

\* Aget_test: ADLB_NOTHING, or no request is left.
GotAll ==
  /\ pc = "get"
  /\ \/ nreqs = 0
     \/ nreqs > 0 /\ poll /\ cell[tail] = Pending /\ ~shutdown
  /\ pc' = "check"
  /\ UNCHANGED <<poll, happened, ring, slots, results, life, adlb>>

\* Aget_test or Aget_wait: ADLB_SHUTDOWN.
GotShutdown ==
  /\ pc = "get"
  /\ nreqs > 0 /\ cell[tail] = Pending /\ shutdown
  /\ pc' = "stop"
  /\ UNCHANGED <<poll, happened, ring, slots, results, life, adlb>>

-----------------------------------------------------------------------------
(* check_tasks: collect tasks from the executor and run their callbacks. *)

\* used is read again, and an idle executor is left alone.
SkipCheck ==
  /\ pc = "check"
  /\ used = 0
  /\ pc' = "yield"
  /\ UNCHANGED <<poll, happened, ring, slots, results, life, adlb>>

\* Faulty: a collected task stays in the executor's table.
CollectKeeps(C) ==
  /\ pc' = IF C = {} THEN "yield" ELSE "callbacks"
  /\ used' = used - Cardinality(C)
  /\ completed' = C
  /\ UNCHANGED <<poll, happened, ring, active, finished, refs, launches, done,
                 dropped, life, adlb>>

\* The tasks in C go from the executor to the completed array.
Collect(C) ==
  /\ pc' = IF C = {} THEN "yield" ELSE "callbacks"
  /\ used' = used - Cardinality(C)
  /\ active' = active \ C
  /\ finished' = finished \ C
  /\ completed' = C
  /\ UNCHANGED <<poll, happened, ring, refs, launches, done, dropped, life, adlb>>

(***************************************************************************)
(* noop_poll, noop_wait and fill_completed: one or two active tasks picked *)
(* at random, and when polling possibly none.                              *)
(***************************************************************************)
NoopCollect ==
  /\ pc = "check" /\ used > 0
  /\ Executor = "noop"
  /\ \E C \in SUBSET active :
       /\ Cardinality(C) \in 1 .. (IF used > 1 /\ CompletedSize >= 2 THEN 2 ELSE 1)
       /\ Collect(C)

NoopNothing ==
  /\ pc = "check" /\ used > 0 /\ used < Slots
  /\ Executor = "noop"
  /\ Collect({})

(***************************************************************************)
(* coaster_poll, coaster_wait and check_completed: every finished job, up  *)
(* to the size of the completed array.  Waiting blocks until there is one; *)
(* polling may return with none.                                           *)
(***************************************************************************)
CoasterCollect ==
  /\ pc = "check" /\ used > 0
  /\ Executor = "coaster"
  /\ used >= Slots => finished # {}
  /\ \E C \in SUBSET finished :
       /\ Cardinality(C) = Smaller(Cardinality(finished), CompletedSize)
       /\ Collect(C)

(***************************************************************************)
(* The client reports an error in the middle of check_completed: the tasks *)
(* in C are out of the table already, and their callbacks, in the array on *)
(* the stack of check_tasks, will not run; the slots are not given back.   *)
(***************************************************************************)
CheckError ==
  /\ pc = "check" /\ used > 0
  /\ Faults /\ Executor = "coaster"
  /\ \E C \in SUBSET finished :
       /\ Cardinality(C) <= CompletedSize
       /\ active' = active \ C
       /\ finished' = finished \ C
  /\ pc' = "error"
  /\ UNCHANGED <<poll, happened, ring, used, refs, launches, results, life, adlb>>

\* Faulty: only the first collected task has its callback run.
AfterFirst(u) == "yield"

AfterCallback(u) == IF completed = {u} THEN "yield" ELSE "callbacks"

\* The callback of u ends its chain.
CallbackLast(u) ==
  /\ pc = "callbacks" /\ u \in completed
  /\ completed' = completed \ {u}
  /\ done' = done \cup {u}
  /\ refs' = [refs EXCEPT ![u] = @ - 1]
  /\ pc' = AfterCallback(u)
  /\ \E P \in Released : Release(P)
  /\ UNCHANGED <<poll, happened, ring, used, active, finished, launches,
                 dropped, life>>

\* The callback of u launches the next task of the chain, then is released.
CallbackLaunch(u) ==
  /\ pc = "callbacks" /\ u \in completed
  /\ launches[u] < MaxLaunches
  /\ IF used >= Slots
     THEN AssertFails
     ELSE /\ Execute(u)
          /\ refs' = [refs EXCEPT ![u] = (@ + 1) - 1]
          /\ completed' = completed \ {u}
          /\ pc' = AfterCallback(u)
          /\ \E P \in Released : Release(P)
          /\ UNCHANGED <<poll, happened, ring, done, dropped, life>>

(***************************************************************************)
(* The callback of u fails, after what it has done: check_tasks returns    *)
(* with the rest not run, and the references of none of them released.     *)
(***************************************************************************)
CallbackError(u) ==
  /\ pc = "callbacks" /\ u \in completed
  /\ Faults
  /\ LaunchedOrNot(u)
  /\ completed' = {}
  /\ \E P \in Released : Release(P)
  /\ pc' = "error"
  /\ UNCHANGED <<poll, happened, ring, done, dropped, life>>

\* End of one turn of the loop; sched_yield() unless something happened.
Yield ==
  /\ pc = "yield"
  /\ pc' = "loop"
  /\ UNCHANGED <<poll, happened, ring, slots, results, life, adlb>>

\* Cleaning up the tasks in R drops their references.
ReleaseTasks(R) == [u \in Units |-> IF u \in R THEN refs[u] - 1 ELSE refs[u]]

(***************************************************************************)
(* stop_executors and turbine_service_finalize.  noop_stop and             *)
(* coaster_cleanup_active release the callbacks of tasks still active;     *)
(* when the Coaster client fails to stop, or to free a job, coaster_stop   *)
(* returns before it is done, and stop_executors only warns.               *)
(***************************************************************************)
StopExecutors ==
  /\ pc = "stop"
  /\ \E R \in SUBSET active :
       /\ R = active \/ (Faults /\ Executor = "coaster")
       /\ dropped' = dropped \cup R
       /\ refs' = ReleaseTasks(R)
       /\ active' = active \ R /\ finished' = finished \ R
  /\ started' = FALSE /\ service' = FALSE
  /\ pc' = "exit"
  /\ UNCHANGED <<poll, happened, ring, used, launches, completed, done, adlb>>

-----------------------------------------------------------------------------
(* External parties. *)

\* The worker is inside ADLB_Aget_wait with nothing to return.
Blocked == pc = "get" /\ ~poll /\ nreqs > 0 /\ cell[tail] = Pending

\* Another rank puts work.
Put(u) ==
  /\ others /\ ~shutdown
  /\ u \in fresh
  /\ fresh' = fresh \ {u}
  /\ queue' = queue \cup {u}
  /\ UNCHANGED <<pc, poll, happened, ring, slots, results, life, posted, others, shutdown>>

\* The other ranks have no more to do until this worker gives them work.
OthersIdle ==
  /\ others
  /\ others' = FALSE
  /\ UNCHANGED <<pc, poll, happened, ring, slots, results, life, fresh, queue,
                 posted, shutdown>>

\* An ADLB server matches a unit to the oldest posted request.
Match(u) ==
  /\ ~shutdown
  /\ u \in queue /\ posted # << >>
  /\ queue' = queue \ {u}
  /\ posted' = Tail(posted)
  /\ cell' = [cell EXCEPT ![Head(posted)] = u]
  /\ UNCHANGED <<pc, poll, happened, nreqs, head, tail, slots, results, life,
                 fresh, others, shutdown>>

\* ADLB shuts down when every rank is idle, or early after a failure.
Shutdown ==
  /\ ~shutdown
  /\ EarlyShutdown \/ (Blocked /\ queue = {} /\ ~others)
  /\ shutdown' = TRUE
  /\ UNCHANGED <<pc, poll, happened, ring, slots, results, life, fresh, queue,
                 posted, others>>

\* A Coaster job ends, well or badly, in the client's own thread.
JobFinish(u) ==
  /\ Executor = "coaster" /\ pc \notin {"exit", "error", "abort"}
  /\ u \in active \ finished
  /\ finished' = finished \cup {u}
  /\ UNCHANGED <<pc, poll, happened, ring, used, active, refs, launches,
                 results, life, adlb>>

-----------------------------------------------------------------------------
RunUnit == \E u \in Units : RunLaunch(u) \/ RunInline(u) \/ UnitError(u)
RunCallback ==
  \E u \in Units : CallbackLast(u) \/ CallbackLaunch(u) \/ CallbackError(u)

Worker ==
  \/ Start \/ GetTasks \/ GetTasksError \/ SkipGet \/ RunUnit \/ GetError
  \/ SubmitError \/ GotAll
  \/ GotShutdown \/ SkipCheck \/ NoopCollect \/ NoopNothing \/ CoasterCollect
  \/ CheckError \/ RunCallback \/ Yield \/ StopExecutors

External ==
  \/ OthersIdle \/ Shutdown
  \/ \E u \in Units : Put(u) \/ Match(u) \/ JobFinish(u)

\* The worker process has ended; nothing in it moves any more.
Ended == pc \in {"exit", "error", "abort"} /\ UNCHANGED vars

Next == Worker \/ External \/ Ended

Spec == Init /\ [][Next]_vars

(***************************************************************************)
(* Fairness: the worker thread keeps running, ADLB matches requests and    *)
(* announces shutdown, a submitted job ends.  noop_poll draws a random     *)
(* number, so a task it may return over and over is returned in the end.   *)
(***************************************************************************)
CollectUnit(u) == NoopCollect /\ u \in completed'

FairSpec ==
  /\ Spec
  /\ WF_vars(Worker) /\ WF_vars(Shutdown)
  /\ WF_vars(\E u \in Units : Match(u))
  /\ \A u \in Units : WF_vars(JobFinish(u)) /\ SF_vars(CollectUnit(u))

-----------------------------------------------------------------------------
(* Properties. *)

\* The values the variables take.
TypeOK ==
  /\ pc \in {"start", "loop", "get", "check", "callbacks", "yield", "stop",
             "exit", "error", "abort"}
  /\ poll \in BOOLEAN /\ happened \in BOOLEAN
  /\ cell \in [Ring -> Units \cup {Idle, Pending}]
  /\ nreqs \in 0 .. MaxReqs
  /\ MaxReqs > 0 => head \in Ring /\ tail \in Ring
  /\ used \in 0 .. Slots
  /\ active \in SUBSET Units /\ finished \in SUBSET active
  /\ completed \in SUBSET Units
  /\ refs \in [Units -> Nat] /\ launches \in [Units -> Nat]
  /\ done \in SUBSET Units /\ dropped \in SUBSET Units
  /\ started \in BOOLEAN /\ service \in BOOLEAN
  /\ fresh \in SUBSET Units /\ queue \in SUBSET Units
  /\ posted \in Seq(Ring)
  /\ others \in BOOLEAN /\ shutdown \in BOOLEAN

Running == pc \notin {"exit", "error", "abort"}

(***************************************************************************)
(* No assertion of the loop fails: neither a unit taken from ADLB nor a    *)
(* callback ever finds the executor full (assert(slots.used < slots.total) *)
(* in noop_execute and coaster_execute), whatever mixture of requests,     *)
(* completions and chained launches came before.                           *)
(***************************************************************************)
NoAbort == pc # "abort"

(***************************************************************************)
(* Every outstanding ADLB request and every collected task that may still  *)
(* launch a successor has a slot kept free for it ("1 ADLB Get per slot to *)
(* fill", async_exec.c), and the slot count is the number of tasks.        *)
(***************************************************************************)
RequestsFitSlots ==
  Running => /\ used + nreqs + Cardinality(completed) <= Slots
             /\ used = Cardinality(active)

(***************************************************************************)
(* The cells between tail and head, and no others, hold requests: head is  *)
(* where counting nreqs cells from tail leads, and a buffer ADLB may still *)
(* write to is never posted a second time.                                 *)
(***************************************************************************)
InWindow(i) == \E k \in 0 .. nreqs-1 : i = (tail + k) % MaxReqs

RingConsistent ==
  MaxReqs > 0 =>
    /\ head = (tail + nreqs) % MaxReqs
    /\ \A i \in Ring : cell[i] # Idle <=> InWindow(i)
    /\ \A k \in 1 .. Len(posted) : cell[posted[k]] = Pending
    /\ \A j, k \in 1 .. Len(posted) : posted[j] = posted[k] => j = k

(***************************************************************************)
(* get_tasks only ever looks at the oldest request.  That is enough: while *)
(* the oldest one is unanswered no later one holds a unit, so a unit ADLB  *)
(* has handed over is never left behind a request that may never return.   *)
(***************************************************************************)
NoStrandedUnit == nreqs > 0 /\ cell[tail] = Pending => Buffered = {}

(***************************************************************************)
(* The worker blocks in ADLB only with an idle executor, and blocks in the *)
(* executor only with no request out: it neither leaves a finished task    *)
(* uncollected while it waits for work, nor holds work another rank could  *)
(* run while it waits for a task.                                          *)
(***************************************************************************)
NeverBlocksHoldingWork ==
  /\ Blocked => active = {} /\ completed = {}
  /\ pc = "check" /\ used >= Slots => nreqs = 0 /\ Buffered = {} /\ posted = << >>

(***************************************************************************)
(* A unit is in exactly one place at any time: not lost when requests,     *)
(* callbacks and shutdown interleave, and never run twice.  Only an error  *)
(* that ends the loop loses units, at most one array of collected tasks:   *)
(* every one of them has run a task whose callbacks will now not be run    *)
(* and are still referenced.                                               *)
(***************************************************************************)

\* The unit whose code launched a task and then failed is still in the ring.
Halfway == IF pc = "error" /\ nreqs > 0 THEN {cell[tail]} \cap active ELSE {}

Places == <<fresh, queue, Buffered \ Halfway, active, completed, done, dropped>>

Lost == Units \ UNION {Places[i] : i \in 1 .. Len(Places)}

UnitsConserved ==
  /\ \A i, j \in 1 .. Len(Places) : i # j => Places[i] \cap Places[j] = {}
  /\ \A i, j \in Ring : cell[i] \in Units /\ cell[i] = cell[j] => i = j
  /\ pc # "error" => Lost = {}
  /\ Cardinality(Lost) <= CompletedSize /\ \A u \in Lost : refs[u] = 1

(***************************************************************************)
(* The callbacks of a task stay referenced from its launch until they have *)
(* run or the executor has released them.  Unless the loop has ended with  *)
(* an error the count is exact: at exit only tasks a failing stop left in  *)
(* the executor still have theirs.                                         *)
(***************************************************************************)
CallbackRefs ==
  /\ \A u \in active \cup completed : refs[u] >= 1
  /\ pc # "error" =>
       \A u \in Units : refs[u] = IF u \in active \cup completed THEN 1 ELSE 0

(***************************************************************************)
(* What a unit's progress looks like from outside the worker: it runs      *)
(* while its callbacks are referenced, unless the worker has gone.         *)
(***************************************************************************)
StatusOf(u) ==
  CASE u \in fresh -> "fresh"
    [] u \in done -> "done"
    [] u \in dropped -> "dropped"
    [] refs[u] > 0 -> IF pc = "exit" THEN "dropped" ELSE "running"
    [] OTHER -> "waiting"

Pool == INSTANCE WorkPool WITH
          status <- [u \in Units |-> StatusOf(u)],
          closed <- (pc = "exit"),
          Premature <- EarlyShutdown

(***************************************************************************)
(* The loop implements the work pool: behind the ring, the polling and the *)
(* callbacks, each unit is run once, never more than Slots at a time, and  *)
(* the worker only goes away when nothing is waiting or running.           *)
(***************************************************************************)
ImplementsWorkPool == Pool!Spec

(***************************************************************************)
(* Every unit that has been put is run, and so are all the callbacks of    *)
(* its chain of tasks.                                                     *)
(***************************************************************************)
UnitsComplete == \A u \in Units : u \in queue ~> u \in done

(***************************************************************************)
(* Once the other ranks are idle the worker comes to block in ADLB, is     *)
(* told of the shutdown and leaves the loop.                               *)
(***************************************************************************)
LoopEnds == ~others ~> pc = "exit"

=============================================================================
