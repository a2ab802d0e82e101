--------------------------------- MODULE Job ---------------------------------
(***************************************************************************)
(* The life of a Turbine job, from MPI_Init to adlb::finalize: layout of   *)
(* the ranks, reload of checkpoints, worker and server loops, the service  *)
(* process a worker may have, errors, shutdown (turbine.tcl, worker.tcl,   *)
(* checkpoint.tcl, turbine.c, worker.c, services.c).                       *)
(*                                                                         *)
(* ADLB and MPI are external: collective calls wait for every rank, tasks  *)
(* go to a rank of their type, shutdown comes when all workers are idle,   *)
(* abort ends all ranks.  The loop of an asynchronous executor is module   *)
(* AsyncExec's; here it runs a task at a time as the plain one does.       *)
(***************************************************************************)
EXTENDS Integers, FiniteSets, FiniteSetsExt

CONSTANTS
  Size,       \* ranks of the ADLB communicator
  Extra,      \* additional work types, as numbers in lexical order
  Executors,  \* those that are asynchronous executors
  Tasks,      \* tasks the program may put
  TypeOf,     \* their work types
  ParentOf,   \* the task that puts each, or None for those of the rules
  Tries,      \* waits of service_shutdown: delays 0.01 to 2.56
  MaxFailed,  \* bound: services whose fork fails
  Asked,      \* bound: what is asked of checkpoints and of the service together
  None

WORK == 0
SERVER == -1
UNSET == -2
Types == {WORK} \cup Extra
Ranks == 0 .. Size - 1
Loads == {"none", "good", "bad"}
Services == {"none", "obeys", "ignores"}

ASSUME JobAssumption ==
  /\ Size \in Nat \ {0} /\ Extra \subseteq Nat \ {WORK} /\ IsFiniteSet(Extra)
  /\ Executors \subseteq Extra /\ IsFiniteSet(Tasks) /\ None \notin Tasks
  /\ TypeOf \in [Tasks -> Types] /\ ParentOf \in [Tasks -> Tasks \cup {None}]
  /\ Tries \in Nat \ {0} /\ MaxFailed \in Nat
  /\ Asked \subseteq [reload : Loads, service : Services]

VARIABLES
  env,      \* what the user asked for: the environment and turbine::init's argument
  pc,       \* where each rank is
  mode,     \* the mode each rank runs in
  loaded,   \* ranks that have reloaded their share of the checkpoints
  queue,    \* tasks put and not yet taken
  cur,      \* the task each rank evaluates
  ran,      \* tasks evaluated
  starters, \* ranks that have begun to evaluate the rules
  service,  \* "none", "failed", "running", "signalled", "exited", "reaped"
  waits,    \* waits for the service to exit
  xpt,      \* ranks that have finalized checkpointing
  job       \* "up", "shutdown", "aborted"

vars == <<env, pc, mode, loaded, queue, cur, ran, starters, service, waits, xpt, job>>
data == <<env, mode, loaded, queue, cur, ran, starters, service, waits, xpt, job>>

Init ==
  /\ env \in [servers : 0 .. Size, basic : BOOLEAN, count : [Extra -> 0 .. Size - 1],
              reload : Loads, service : Services]
  /\ [reload |-> env.reload, service |-> env.service] \in Asked
  /\ env.basic => \A t \in Extra : env.count[t] = 0
  /\ pc = [r \in Ranks |-> "off"] /\ mode = [r \in Ranks |-> UNSET]
  /\ loaded = {} /\ queue = {} /\ ran = {} /\ starters = {} /\ xpt = {}
  /\ cur = [r \in Ranks |-> None]
  /\ service = [r \in Ranks |-> "none"] /\ waits = [r \in Ranks |-> 0]
  /\ job = "up"

-----------------------------------------------------------------------------
(* Layout. *)

Sum(S) == MapThenSumSet(LAMBDA t : env.count[t], S)
NWorkers == Size - env.servers

\* rank_allocation: one regular worker at least.  basic_rank_allocation,
\* turbine::init with a number of servers, checks nothing.
Allocatable == env.basic \/ Sum(Extra) < NWorkers

\* workers_by_type, and the types with an ADLB number: WORK and those that
\* have workers.
Count(t) == IF t = WORK THEN NWorkers - Sum(Extra) ELSE env.count[t]
WorkTypes == {t \in Types : t = WORK \/ Count(t) > 0}

\* First rank past those of type t and of the types before it.
Bound(t) == MapThenSumSet(Count, {u \in WorkTypes : u <= t})

AmServer(r) == r >= NWorkers

\* Faulty: the last rank of a type is counted out.
ModeOfEarly(r) ==
  IF AmServer(r) THEN SERVER
  ELSE LET fits == {t \in WorkTypes : r + 1 < Bound(t)} IN
       IF fits = {} THEN UNSET ELSE Min(fits)

\* setup_mode.
ModeOf(r) ==
  IF AmServer(r) THEN SERVER
  ELSE LET fits == {t \in WorkTypes : r < Bound(t)} IN
       IF fits = {} THEN UNSET ELSE Min(fits)

\* rank_is_worker, rank_is_server.
RankIsWorker(r) == r < NWorkers
RankIsServer(r) == r >= NWorkers

-----------------------------------------------------------------------------
Goto(r, from, to) == job # "aborted" /\ pc[r] = from /\ pc' = [pc EXCEPT ![r] = to]
Only(r, from, to) == Goto(r, from, to) /\ UNCHANGED data
Arrived(S, states) == \A q \in S : pc[q] \in states
Workers == {r \in Ranks : mode[r] \in Types}
Servers == {r \in Ranks : mode[r] = SERVER}

\* An error nothing catches ends the rank's script.
Dies(r, from) == Only(r, from, "exited")

\* turbine::init up to adlb::init: every rank comes to the same layout.
Allocate(r) ==
  IF Allocatable /\ env.servers > 0 THEN Only(r, "off", "init") ELSE Dies(r, "off")

\* adlb::init, a collective call, to the end of turbine::init: a rank with no
\* mode dies logging it, rank 0 reports the layout, and that there are no workers.
AdlbInit(r) ==
  /\ \A q \in Ranks : pc[q] # "off"
  /\ IF Size < 2 \/ (r = 0 /\ NWorkers <= 0) \/ ModeOf(r) = UNSET THEN Dies(r, "init")
     ELSE /\ Goto(r, "init", "ready")
          /\ mode' = [mode EXCEPT ![r] = ModeOf(r)]
          /\ UNCHANGED <<env, loaded, queue, cur, ran, starters, service, waits, xpt, job>>

\* Faulty: servers wait with the workers for the checkpoints to be loaded.
XptInitAll(r) ==
  Only(r, "ready", IF env.reload # "none" THEN "reload" ELSE IF mode[r] = SERVER THEN "serve" ELSE "enter")

\* xpt_init2; servers do not reload, they are needed to serve.
XptInit(r) ==
  Only(r, "ready", IF mode[r] = SERVER THEN "serve"
                   ELSE IF env.reload # "none" THEN "reload" ELSE "enter")

\* xpt_reload of this loader's share, kept by the servers.
Reload(r) ==
  /\ Arrived({q \in Ranks : AmServer(q)}, {"serve"})
  /\ IF env.reload = "bad" THEN Dies(r, "reload")
     ELSE /\ Goto(r, "reload", "barrier")
          /\ loaded' = loaded \cup {r}
          /\ UNCHANGED <<env, mode, queue, cur, ran, starters, service, waits, xpt, job>>

\* Faulty: goes on when its own share is loaded.
NoBarrier(r) == Only(r, "barrier", "enter")

\* worker_barrier: all workers must come.
WorkerBarrier(r) ==
  /\ {q \in Ranks : ~AmServer(q)} \subseteq loaded
  /\ Only(r, "barrier", "enter")

-----------------------------------------------------------------------------
(* Worker loops: standard_worker, custom_worker, async_exec_worker. *)

ChildrenOf(t) == {c \in Tasks : ParentOf[c] = t}

\* Putting a task whose type nobody works on is an error (adlb_work_type).
Puttable(S) == \A t \in S : TypeOf[t] \in WorkTypes

\* turbine_service_init: a fork that fails is taken for one that succeeded.
StartService(r) ==
  \E s \in IF env.service = "none" THEN {"none"} ELSE {"running", "failed"} :
    /\ service' = [service EXCEPT ![r] = s]
    /\ s = "failed" => Cardinality({q \in Ranks : service[q] = "failed"}) < MaxFailed

\* The startup command; rank 0 evaluates the rules; the loop starts its service.
Enter(r) ==
  /\ Goto(r, "enter", "get")
  /\ IF r = 0 THEN /\ Puttable(ChildrenOf(None))
                   /\ queue' = queue \cup ChildrenOf(None) /\ starters' = starters \cup {r}
     ELSE UNCHANGED <<queue, starters>>
  /\ StartService(r)
  /\ UNCHANGED <<env, mode, loaded, cur, ran, waits, xpt, job>>

\* Tcl code that puts the tasks S fails when it has put some of them.  A user
\* error (turbine_error) is trapped, any other caught.
Fails(r, from, S) ==
  /\ Goto(r, from, "caught") \/ Goto(r, from, "trapped")
  /\ \E P \in SUBSET S : Puttable(P) /\ queue' = queue \cup P

\* The startup command fails, or the leader hook of a rank without rules.
StartupError(r) == Only(r, "enter", "caught") \/ Only(r, "enter", "trapped")

\* The rules fail, or what follows them; an unputtable task makes them.
RulesError(r) ==
  /\ r = 0 /\ Fails(r, "enter", ChildrenOf(None))
  /\ starters' = starters \cup {r}
  /\ UNCHANGED <<env, mode, loaded, cur, ran, service, waits, xpt, job>>

\* async_exec_configure rejects the configuration.
ConfigureError(r) == mode[r] \in Executors /\ Only(r, "enter", "caught")

\* ADLB_Get.
Get(r) == \E t \in queue :
  /\ TypeOf[t] = mode[r] /\ Goto(r, "get", "eval")
  /\ queue' = queue \ {t} /\ cur' = [cur EXCEPT ![r] = t]
  /\ UNCHANGED <<env, mode, loaded, ran, starters, service, waits, xpt, job>>

\* Tcl_EvalEx of the task, which puts its children.
Eval(r) ==
  /\ Goto(r, "eval", "get") /\ Puttable(ChildrenOf(cur[r]))
  /\ ran' = ran \cup {cur[r]} /\ queue' = queue \cup ChildrenOf(cur[r])
  /\ cur' = [cur EXCEPT ![r] = None]
  /\ UNCHANGED <<env, mode, loaded, starters, service, waits, xpt, job>>

\* The task fails: task_error, and the loop returns with its service running.
EvalError(r) ==
  /\ Fails(r, "eval", ChildrenOf(cur[r]))
  /\ UNCHANGED <<env, mode, loaded, cur, ran, starters, service, waits, xpt, job>>

\* ADLB: every worker asks for work and there is none.
Shutdown ==
  /\ job = "up" /\ Workers # {} /\ queue = {}
  /\ \A r \in Ranks : pc[r] = IF AmServer(r) THEN "serve" ELSE "get"
  /\ job' = "shutdown"
  /\ UNCHANGED <<env, pc, mode, loaded, queue, cur, ran, starters, service, waits, xpt>>

GetShutdown(r) == job = "shutdown" /\ (Only(r, "get", "stop") \/ Only(r, "serve", "left"))

-----------------------------------------------------------------------------
(* The service process of a worker. *)

Alive(r) == service[r] \in {"running", "signalled"}

\* Faulty: takes a child that is still running for one that has exited.
FinalizeSwapped(r) ==
  /\ Goto(r, "stop", IF service[r] = "exited" THEN "wait" ELSE "left")
  /\ UNCHANGED data

\* turbine_service_finalize: reap the child, or signal it and wait.  After a
\* failed fork there is no child to wait for.
ServiceFinalize(r) ==
  /\ Goto(r, "stop", IF service[r] = "running" THEN "wait" ELSE "left")
  /\ service' = [service EXCEPT ![r] =
       IF @ = "running" THEN "signalled" ELSE IF @ = "exited" THEN "reaped" ELSE @]
  /\ UNCHANGED <<env, mode, loaded, queue, cur, ran, starters, waits, xpt, job>>

\* service_shutdown: look, wait twice as long, give up.
ServiceWait(r) ==
  IF service[r] = "exited"
  THEN /\ Goto(r, "wait", "left")
       /\ service' = [service EXCEPT ![r] = "reaped"]
       /\ UNCHANGED <<env, mode, loaded, queue, cur, ran, starters, waits, xpt, job>>
  ELSE /\ Goto(r, "wait", IF waits[r] + 1 = Tries THEN "left" ELSE "wait")
       /\ waits' = [waits EXCEPT ![r] = @ + 1]
       /\ UNCHANGED <<env, mode, loaded, queue, cur, ran, starters, service, xpt, job>>

\* The child exits by itself or because it was told to.
ServiceExit(r) ==
  /\ \/ service[r] = "running"
     \/ service[r] = "signalled" /\ env.service = "obeys"
  /\ service' = [service EXCEPT ![r] = "exited"]
  /\ UNCHANGED <<env, pc, mode, loaded, queue, cur, ran, starters, waits, xpt, job>>

-----------------------------------------------------------------------------
(* The end: turbine::start after its catch, finalize, fail, abort. *)

\* Faulty: only when the mode ended with an error.
XptFinalizeFailed(r) ==
  /\ Goto(r, pc[r], IF pc[r] = "left" THEN "finalize" ELSE "fail")
  /\ pc[r] \in {"left", "caught"}
  /\ xpt' = IF pc[r] = "caught" THEN xpt \cup {r} ELSE xpt
  /\ UNCHANGED <<env, mode, loaded, queue, cur, ran, starters, service, waits, job>>

\* xpt_finalize2, whether the mode ended well or not.
XptFinalize(r) ==
  /\ Goto(r, pc[r], IF pc[r] = "left" THEN "finalize" ELSE "fail")
  /\ pc[r] \in {"left", "caught"}
  /\ xpt' = xpt \cup {r}
  /\ UNCHANGED <<env, mode, loaded, queue, cur, ran, starters, service, waits, job>>

\* adlb::finalize, collective.
Finalize(r) == Arrived(Ranks, {"finalize", "done"}) /\ Only(r, "finalize", "done")

\* adlb::abort or adlb::fail: the job ends, whatever the other ranks are at.
Abort(r) ==
  /\ job # "aborted" /\ pc[r] \in {"fail", "trapped"}
  /\ job' = "aborted"
  /\ UNCHANGED <<env, pc, mode, loaded, queue, cur, ran, starters, service, waits, xpt>>

\* The MPI launcher ends the job when a process dies.
Launcher ==
  /\ job # "aborted" /\ \E r \in Ranks : pc[r] = "exited"
  /\ job' = "aborted"
  /\ UNCHANGED <<env, pc, mode, loaded, queue, cur, ran, starters, service, waits, xpt>>

-----------------------------------------------------------------------------
Rank(r) ==
  \/ Allocate(r) \/ AdlbInit(r) \/ XptInit(r) \/ Reload(r) \/ WorkerBarrier(r)
  \/ Enter(r) \/ RulesError(r) \/ Get(r) \/ Eval(r) \/ EvalError(r) \/ GetShutdown(r) \/ ServiceFinalize(r)
  \/ ServiceWait(r) \/ XptFinalize(r) \/ Finalize(r) \/ Abort(r)

Ended == (job = "aborted" \/ Arrived(Ranks, {"done"})) /\ UNCHANGED vars

Next ==
  \/ Shutdown \/ Launcher \/ Ended
  \/ \E r \in Ranks : Rank(r) \/ ConfigureError(r) \/ StartupError(r) \/ ServiceExit(r)

Spec == Init /\ [][Next]_vars

\* Every rank runs, ADLB detects idleness, the launcher cleans up.  Nothing is
\* assumed of the service.
FairSpec ==
  /\ Spec /\ WF_vars(Shutdown) /\ WF_vars(Launcher)
  /\ \A r \in Ranks : WF_vars(Rank(r))

-----------------------------------------------------------------------------
(* Properties. *)

States == {"off", "init", "ready", "serve", "reload", "barrier", "enter", "get", "eval",
           "caught", "trapped", "stop", "wait", "left", "finalize", "fail", "exited", "done"}

\* The values the variables take; nobody waits longer than the back-off allows.
TypeOK ==
  /\ pc \in [Ranks -> States] /\ mode \in [Ranks -> Types \cup {SERVER, UNSET}]
  /\ loaded \subseteq Ranks /\ starters \subseteq Ranks /\ xpt \subseteq Ranks
  /\ queue \subseteq Tasks /\ ran \subseteq Tasks /\ cur \in [Ranks -> Tasks \cup {None}]
  /\ service \in [Ranks -> {"none", "failed", "running", "signalled", "exited", "reaped"}]
  /\ waits \in [Ranks -> 0 .. Tries] /\ job \in {"up", "shutdown", "aborted"}

\* The layout can be had: two ranks, a server, a regular worker.
Feasible == Size >= 2 /\ env.servers > 0 /\ NWorkers > 0 /\ Allocatable

(***************************************************************************)
(* setup_mode leaves no rank of a feasible layout without a mode; what     *)
(* location.tcl says of a rank with a mode is true of it; and when all     *)
(* ranks have theirs, each type has as many as were asked for, and the     *)
(* servers are the topmost.                                                *)
(***************************************************************************)
LayoutAsAsked ==
  /\ Feasible => \A r \in Ranks : pc[r] \notin {"off", "init"} => mode[r] # UNSET
  /\ \A r \in Ranks : mode[r] # UNSET =>
       (RankIsServer(r) <=> r \in Servers) /\ (RankIsWorker(r) <=> r \in Workers)
  /\ (\A r \in Ranks : mode[r] # UNSET) =>
       /\ \A t \in WorkTypes : Cardinality({r \in Ranks : mode[r] = t}) = Count(t)
       /\ Cardinality(Servers) = env.servers

(***************************************************************************)
(* The rules are evaluated by rank 0 alone, a regular worker, and not      *)
(* before every worker has reloaded its share of the checkpoints: no task  *)
(* looks a checkpoint up that is still on its way.                         *)
(***************************************************************************)
RulesAfterReload ==
  /\ starters # {} => starters = {0} /\ mode[0] = WORK
  /\ starters # {} /\ env.reload # "none" => loaded = {r \in Ranks : RankIsWorker(r)}

(***************************************************************************)
(* A rank that leaves its loop because the job is over leaves no service   *)
(* behind that it has not told to stop.                                    *)
(***************************************************************************)
ServicesTold ==
  \A r \in Ranks : pc[r] \in {"left", "finalize", "done"} => service[r] # "running"

(***************************************************************************)
(* A job that ends without error has run every task its rules and its      *)
(* tasks put, and has finalized checkpointing on every rank.              *)
(***************************************************************************)
CleanEnd ==
  Arrived(Ranks, {"done"}) =>
    /\ queue = {} /\ \A r \in Ranks : cur[r] = None
    /\ ChildrenOf(None) \subseteq ran /\ \A t \in ran : ChildrenOf(t) \subseteq ran
    /\ xpt = Ranks

(***************************************************************************)
(* Every job ends: the ranks finish, or the job is aborted.  No rank waits *)
(* for ever in a collective call for one that will not come.               *)
(***************************************************************************)
JobEnds == <>(job = "aborted" \/ Arrived(Ranks, {"done"}))

=============================================================================
