# Turbine: a TLA+ verification of its core

Turbine is the run-time system of Swift/T. An MPI program starts as `n` ranks,
each running a Tcl interpreter; the top ranks become ADLB servers, the others
workers. Compiled Swift code is Tcl that creates data in a distributed,
single-assignment store kept by the servers, and registers *rules*: actions
released as tasks once their inputs are closed. This project models the parts
of Turbine that are its own (under `code/src` and `code/lib`) and treats ADLB,
MPI, Tcl, the Coaster client and the c-utils containers as external.

## 1. Inventory

| Component | State | Operations | What is hard about it |
|---|---|---|---|
| Async executor worker (`async_exec.c`, `executors/*.c`) | ring of get requests (`nreqs`, `head`, `tail`, buffers), slot counts, active tasks, callbacks | `turbine_async_worker_loop`, `get_tasks`, `check_tasks`, `run_callback`, execute/poll/wait/stop of an executor | three parties interleave: ADLB answers requests, jobs end in other threads, callbacks launch more tasks; must not overrun slots, block on one side while the other has work, lose a unit or run it twice |
| Executor registry (`async_exec.c`, `turbine.tcl`) | table of executors, `started` | register, configure, names, get, finalize | order of registration, configuration and start |
| Synchronous worker (`worker.c`, `worker.tcl`) | one buffer | `turbine_worker_loop` | ends only on shutdown or error |
| Worker services (`services.c`) | child pid | init, finalize with SIGTERM and back-off | child outliving the rank, waits that give up |
| Data cache (`cache.c`, cached accessors of `data.tcl`) | hash table and LRU tree over the same entries, counter, memory | check, retrieve, store, replace, finalize | two structures over one set of entries, eviction at the limit, a memory budget on an unsigned count |
| Tcl data commands (`tcl-adlb.c`) | handles, subscripts, type tables, a scratch buffer all commands share | create, store, retrieve, insert, lookup, enumerate, refcounts, locks, checkpoint entries | reference counts decremented by several commands at once; values packed in one pass with lengths filled in later and read back with only the outermost type known; handles parsed into shared or allocated memory |
| Container library (`container.tcl`) | write/read reference counts, signals | insert/lookup by future, nested containers, `deeprule` and the deep-wait family | a rule must hold the write reference it will use; waiting for a tree that is still growing |
| Updateable values (`updateable.tcl`) | ADLB lock, value, write count | `update_min/incr/scale` through `lock_loop` | read-modify-write under a lock that can time out |
| Loops and ranges (`functions.tcl`) | containers under construction | `range`, `drange`, `dloop`, `loop` | distribution of an index range over tasks |
| Rank layout (`turbine.tcl`, `location.tcl`) | mode of each rank, work types | `rank_allocation`, `setup_mode` | off-by-one between workers, executors and servers |
| Checkpointing (`checkpoint.tcl`, `tcl-adlb.c`) | checkpoint index and log | init, reload, lookup, write | crash between write and sync, reload split over ranks |
| Leader hook and collective file copy (`worker.tcl`, `io.c`) | file, chunk buffer | `leader_hook`, `turbine_io_bcast`, `turbine_io_copy_to` | a rank that returns early leaves the others in a collective call; every rank must make the same calls although the file may change |
| Rule command (`tcl-turbine.c`) | inputs with their subscripts' memory, task options | `turbine::rule`, spawn | several handles held at once |
| Files and app functions (`files.tcl`, `app.tcl`) | file records with a status and a reference count | copy-in, copy-out, unlink, app invocation | when a temporary file may be removed |
| GEMTC worker (`gemtc_worker.tcl`) | GPU task queue, polling | `gemtc_worker_loop` | polling two sources |
| Blobs (`blob.c`, `blob.tcl`, `tcl-adlb.c`) | table of retrieved blobs, pointers in Tcl lists | retrieve, free by handle, free by list, make from a list, finalize | one block known under a handle and a pointer; same blob retrieved twice |
| Value functions (`arith`, `logical`, `string`, `stats`, `sys`, `rand`, `reductions`) | none | one rule and one body each | plain computation |
| Language bindings, MPE, static packages, scripts, submit templates | none of their own | | pure I/O or generated |

## 2. Plan

Done, in this order: `AsyncExec` (the most concurrent part), `Cache`,
`Updateable`, `DeepWait`, `Containers`, `Job`, `Checkpoint`; proofs for
`AsyncExec`, `Cache`, `Updateable`, `Job` and `Checkpoint`; then `Packing` (the
bytes under the store and the checkpoints), `Handles` and `Commands` (names and
memory of the data commands, rule inputs and blobs), `LeaderHook` (collective
broadcast and copy); then proofs for `DeepWait`, `Containers` and `LeaderHook`, the
layout and the start of a job, the refinement of `WorkPool` and the memory count of
the cache; last the refinement of `LruCache` and the invariants of `Commands`.

Every safety property that a run checks and every refinement has a proof now, but for
the two of `Packing` (section 6 says why not those).

Small machines that do not interact share a run where one question covers them.
The runs keep the properties that say most of a component, proved or not, since a
theorem about a wrong model is found out by TLC first; section 6 names those that are
left to the proofs alone.

## 3. Modules and the code

Each module's head comment says what it models; the comments on its actions name
the functions. `PROJECT.json` ("map") gives the lines. Operators called "Faulty"
are variants of the definition that follows them with a plausible bug in it; each
property is shown to catch one.

**AsyncExec** - `turbine_async_worker_loop` on one rank, with `get_tasks`,
`check_tasks`, `run_callback` and the noop and Coaster executors. `nreqs`, `head`,
`tail`, `cell` are the request ring (`cell[i]` is `Idle`, `Pending` or the unit that
has arrived), `posted` the requests ADLB has in the order they were posted, `used`
and `active` the executor's slots and tasks, `completed` the batch a poll has
returned, `refs` the reference count of the callbacks. `Start`, `GetTasks`,
`RunLaunch`/`RunInline`, `Collect`, `CallbackLast`/`CallbackLaunch`, `Yield`,
`StopExecutors` follow the loop. `GetTasksError`, `GetError` (ADLB), `UnitError` (a
unit's code), `SubmitError`, `CheckError` (the Coaster client), `CallbackError` and
`AssertFails` are its error exits, and each leaves what was done by then: code that
fails may have put work and launched a task before, a client that fails has given up
some of its finished tasks already, callbacks that were still to run are not. When an
executor cannot be stopped some of its tasks are not cleaned up and the worker leaves
all the same. `Lost` are the units that an error has left in no place, `Halfway` the
one whose code failed after it launched. ADLB (`Match`, `Shutdown`,
`Put`), other ranks and the Coaster threads (`JobFinish`) are external.
**WorkPool** is the promise: units are put, taken up, finished, never twice.

**Cache** - `cache.c` and the accessors over it. `entries` is the hash table, `lru`
the tree, `counter` the stamp, `memory` the bytes left, an unsigned number of width
`Modulus`; `buffers` counts buffers allocated and not freed; `value` and `refs` are the
store's. A datum is stored by an accessor that caches (`StoreEager`), by one that
does not (`StorePlain`) or by another rank, and retrieved by hit or miss, with or
without dropping a reference. **LruCache** is the promise: a least recently used cache with
a limit of entries and a budget of bytes. The code keeps the first part
(`ImplementsLru`, the promise without a budget), not the second (`WithinBudget`).

**Updateable** - `update_min`, `update_incr`, `update_scale` on one variable by any
set of ranks: rule, `lock_loop` with its 1000 attempts (`MaxTries`), read, write,
unlock, drop of the write reference. **UpdateCell** is the promise: atomic updates,
and closing after the last.

**DeepWait** - `deeprule` and the family below it. The data are a forest of nodes:
containers (`Level` is the nesting), references, structs with a reference inside
(`Field`), plain futures. `stage[n]` is the rule or iteration waiting at node `n`,
`out[n]` the signal it was told to set, `rd` and `wr` the reference counts of the
signals; a signal has the name of the node it was allocated for. The program inserts
members and closes nodes in any order.

**Containers** - an array of arrays `A` that several statements write
(`c_f_insert`, nested creation by `ADLB_Create_Nested_Impl`), into which another
inserts whole arrays, and that others read or ask about. Write and read references
of `A` and of each inner array are counted, with the stock of references a slot
holds (`2 << 24` in the code, `Stock` here) handed out and released when `A` closes.

**Job** - all ranks of a job from `turbine::init` to `adlb::finalize`: layout
(`Allocate`, `AdlbInit`, `ModeOf`), checkpoints reloaded before the rules
(`XptInit`, `Reload`, `WorkerBarrier`), the loops (`Enter`, `Get`, `Eval`),
what may fail in them, caught or trapped, when some of the work is already put
(`ConfigureError`, `StartupError`, `RulesError`, `EvalError`), the service process
(`StartService`, `ServiceFinalize`, `ServiceWait`, `ServiceExit`), and the ends (`XptFinalize`, `Finalize`, `Abort`, `Launcher`). `env`
is what the user asked for; `Init` has every layout with the reloads and services in
`Asked`. A `fork` may fail (`MaxFailed` bounds how many), which the code takes for a
service that was launched. Work types are numbers in
the order in which the code lists them.

**Checkpoint** - several runs of a program whose checkpointed calls are looked up,
executed and written, with a crash anywhere. `file[i][w]` is what run `i`'s file has
in worker `w`'s part, `buffer` what ADLB holds back, `index` what a lookup finds.

**Packing** - the conversions of `tcl-adlb.c` in both directions, driven by the
commands that use them: struct types are declared (`DeclareStruct`), the arguments
of two calls are packed into checkpoint keys (`PackField`) and one of them unpacked
again (`UnpackField`), and the first argument is stored, retrieved and enumerated.
A buffer is a sequence of cells, one for each thing an ADLB routine appends; a
length is a cell, and where the code reserves room for a length and fills it in
later the room is there. The recursion over nested types follows the code function
by function, so that a type list that runs out, an offset that points elsewhere or a
terminator taken for a character shows. `MCPacking` has the struct types and the
values: structs in structs with missing fields, containers of containers, multisets
of strings, empty ones of each.

**Handles** - a handle is an id and subscripts joined by dots; parsing it
(`ParseHandle`, `ParseSub`, `AppendSub`, `ParseStructSub`) leaves the subscript in the
Tcl object, in the scratch buffer or in a block of its own. Memory is explicit: blocks
with contents, a scratch buffer, `malloc` that hands out freed addresses again. A block
that is made larger may move; what then still points to where it was reads a dead block,
whose contents are anything (`SubText`), and the parse says so (`stale`).
**Commands** - the commands on top of it, in any order: lookup, insert_atomic,
subscribe, container_reference, rule with several inputs, and the blob commands with
`blob_cache`. A command is a call to ADLB with what it was passed and the buffers it
holds (`CallAdlb`), then `Return`, or `ReturnError` where ADLB's error is returned
before the cleanup (`keeps`). A command may also fail before it calls ADLB: a later
argument is no handle, type or number, a subscript is missing, a member is not found, a
blob is not in the table, a list has an element that is no number (`Abandon`,
`RuleError`, `BlobFreeError`). `leaked` are the blocks such errors leave behind.
`blobCache` is the table as a set of entries, two of
which may share a key, and a free command takes any one of those; `blobs` are the Tcl
lists in the program's variables, with a pointer each and, to state `BlobsValid`,
whether a free command has named their handle since. `CommandsInit`, `CommandsNext` and
`CommandsSpec` have the module's name in theirs so that `DataProofs` can extend it
beside `Updateable`.

**LeaderHook** - the leaders of all hosts evaluate the hook of `tests/hook.tcl`. Each
collective call is entered and left in separate steps; `calls[r]` is what a leader has
entered. The file may change at any time, the root may not find it, any leader may
fail to open it or its destination, an assertion may end a process, and `fclose` may
fail to write what `fwrite` kept. `env` says which leaders run the hook at all, whether
the destination is one file for all, and whether calls on files wait for everyone.

`Job` and the others meet at their edges: `Job` reloads checkpoints as one step per
rank, `Checkpoint` opens that step up; `Job` runs a task as one step, and
`AsyncExec`, `Updateable`, `Containers` and `DeepWait` are what goes on in tasks;
`Cache` is under each rank's retrieves. `Packing` makes the keys that `Checkpoint`
compares; `Handles` is extended by `Commands`, whose reference and nested-creation
commands `Containers` follows on the store's side; `LeaderHook` opens up the moment
between `Job`'s `Enter` and the first `Get`, and its abort is `Job`'s.

## 4. Runs

| Run | Instance | States | Shows |
|---|---|---|---|
| `async_coaster` | 4 units, 3 slots, 4 buffers of which 2 usable, batches of 2, chains of 2 launches, errors of every kind and shutdown at any time | 53 K | requests fit the slots, no answer left behind, units lost by named errors only, no blocking with work in hand |
| `async_noop` | 3 units, 2 slots, more buffers than slots, no faults, fair | 9 K | implements `WorkPool`; every unit completes; the loop ends |
| `memory` | cache: 3 data, 2 cacheable at once, values of 3 and 1 bytes in a budget of 5, counter to 5; commands: 3 handles of none, two and four subscripts, 2 blob handles, 2 blobs at a time, rules of up to 2 inputs, a scratch buffer of 7, blocks that move or stay, errors at every argument, 1 block left behind | 215 K | cache: hits are current, bytes, buffers and references agree, implements `LruCache` without a budget; commands: members named right, each block with one owner or left behind by an error, blobs intact until freed |
| `cache_budget` | the cache of `memory` | | **violated**: more bytes than `TURBINE_CACHE_MAX` stay |
| `updateable` | 4 updates of 3 kinds, 1 retry | 43 K | atomic and closed after the last update (implements `UpdateCell`), and does close |
| `deep_wait` | an array of two arrays with two references, a container of values, a struct, a future | 125 K | runs once, when all is closed; signals set once and freed; fires |
| `deep_wait_structs` | a container with one struct | | **violated**: the wait may go on for ever |
| `containers` | 3 nested writers on one subscript (one through a reference), a whole-array insert, a reader, an asker | 42 K | one inner array, references balance, nothing leaks, readers see all, all end |
| `job` | 4 ranks, 1 extra type, 2 tasks one of which puts the other, every layout, three combinations of reload and service, one failed `fork` | 175 K | layout, rules after reload, services told, clean end, every job ends |
| `checkpoint` | 2 calls, 2 workers, 3 runs, `periodic_flush` | 50 K | saved is not repeated, finished is saved, runs finish |
| `packing` | 5 signatures of functions, all pairs of argument lists from small sets of nested values; a table of field names of size 1 | 117 K | what is packed comes back; keys are equal exactly when arguments are, but for multisets of dicts |
| `leader_hook` | 3 leaders, a file of up to 3 cells copied 2 at a time | 328 K | same collective calls, whole copies, nobody waits for ever |

`memory` lets the cache and the commands run one at a time (`MCMemory`): they share no
variable and no property is about both.

Why the bounds are enough. Async: with three slots and two usable buffers the ring
wraps, requests and running tasks compete for the last slot, a batch has two
callbacks, a callback relaunches while another waits, and an error finds a second
task collected, in the ring or in the executor. Cache: three data for two
places force an eviction with a choice; the budget is passed with two long values.
Updateable: two updates that do not commute, one that may store nothing, and a
fourth to hold the lock while another runs out of attempts. DeepWait: two members is
the least that distinguishes the three branches of `container_rec_deep_wait`; the
second level is the least that has an iteration. Containers: three racing writers
give a winner, a poller and one that finds the subscript filled. Job: four ranks let
two servers, an executor and a worker coexist; reload and service, which do not
interact, are varied one at a time, and a service that obeys but is slow does all that
one that ignores the signal does. Checkpoint: three runs let a third
reload what a first saved and a second crashed on. Packing: nesting of depth two is
the least at which the value type of a container is itself compound, and struct
fields that are missing at the start, the middle and the end move every offset; the
table of field names starts at one so that it grows. Commands: a handle without
subscripts, one that just fits the scratch buffer with what is appended to it and one that
does not fit it alone leave their text in the Tcl object, in the buffer, and in a block of
their own that is made larger when a subscript is appended; two blobs are two lists of one handle, or of handles that start with the
same id; a second block left behind would only be one more of the first. The
empty subscript, which adds nothing, and a buffer of any other length are left to the
proofs. LeaderHook: three leaders are one that fails, one
that waits for it and one that does not yet; three cells are a full chunk and a rest.

`CHECK_DEADLOCK FALSE` is set for `memory` and `cache_budget`, where the program may
stop using the cache at any time, and for `LeaderHook`, where leaders may wait for one that does not
run the hook (section 7); elsewhere the end of a behaviour is an action of its own.

## 5. Fairness

Nothing is assumed beyond what the parties do anyway. Ranks keep running (weak
fairness of each rank's steps: MPI processes); ADLB matches a request with a unit
and announces shutdown when all are idle; a job submitted to Coaster ends; a job in
which a process died is ended by the launcher. `noop_poll` returns each task with a
random draw, so one that may be returned again and again is (strong fairness).
Containers are closed by the program that made them (weak fairness of `Close`):
without it a wait rightly does not end. Errors, faults, crashes, service exits, and
the program's inserts have no fairness. `lock_loop` may give up whenever its
attempts are used, and `ClosesAtLast` says what then remains.

## 6. Proofs

TLAPS checks these for every value of the constants.

`AsyncExecProofs`: `TypeOK`, `NoAbort`, `RequestsFitSlots`, `RingConsistent`,
`NoStrandedUnit`, `NeverBlocksHoldingWork`, `UnitsConserved`, `CallbackRefs`. They
follow from `IInv`: each cell of the ring has the state its distance from `tail`
calls for, with the posted requests the last of them (`RingInv`); collected tasks
exist only while callbacks run (`PhaseInv`); requests, tasks and pending callbacks
together fit the slots (`SlotInv`, with finite cardinalities); a unit is in one place
(`PlaceInv`), and after an error in one or in none, of which there are no more than a
batch, each with its callbacks still referenced (`ErrorInv`). `NoAbort` alone is not inductive: a launch from a callback fits only
because the completed tasks were counted when the requests were sent.

They carry the refinement too: with at least one buffer `Spec` implements
`WorkPool`. `Sorted` reads the status of a unit off the one place `PlaceInv` gives
it; `StopInv` says that, unless ADLB shuts down early, nothing is queued, buffered or
in the executor once it has, because ADLB only shuts down on a worker that blocks and
a worker that blocks holds nothing.

`CacheProofs`: `TypeOK`, `TablesAgree`, `WithinSize`, `ValuesCurrent`,
`RefsBalanced`, `BuffersOwned`, and, for every size but 1, `NoFailure`. The conjuncts
of `CInv` support one another: that a store repeats no key rests on cached values
being those of assigned data, that the leftmost node has an entry on the agreement of
the structures, that there is one on the count of entries.

`MemoryAccounted` is proved from `MemInv`, the same equation for a cache in use.
`Charge` says that taking bytes from a count modulo its width is taking them from the
number it stands for; `TotalAdd` and `TotalSwap` what a new and a replaced entry do to
the sum over the table. Sums over finite sets come from the definition of the fold:
`SumsExist`, `SumsAgree` and `SumWithout` say that there is one sum and that any
element may be taken out first, each by looking at a smallest set for which it would
be false. `JobProofs` uses the same lemmas and states them again.

The cache implements `LruCache` without a budget. The mapping reads the recency order off the stamps:
the sequence of the entries in ascending stamps. That there is such a sequence and only
one is `OrderExists` and `OrderIs`; an entry with a new greatest stamp goes to its end
and taking one out closes the gap (`TdsAdd`, `TdsDrop`), while the abstract table gains
or loses one place (`HeldAdd`, `HeldDrop`). So a hit, which removes and adds the
entry's tree node, is the promise's use (`TouchIsUse`); a store with its eviction and
with `cache_shrink` is its insertion (`StoreIsInsert`), the leftmost node of the tree
being the head of the sequence. The conjunct of `CInv` that stamps are distinct and
below `counter` is what makes the order exist.

`DataProofs`, first part, on `Updateable`: `TypeOK`, `LockOwned`, `ReadIsCurrent`,
`ClosedIsFinal`, and that `Spec` implements `UpdateCell`. `Counted` says that the write references are one for
each pending update and one for the creator.

`DataProofs`, second part, on `Commands`: `NamesMember`, `MemoryOwned`, `BlobsValid`, for
any handles and subscripts, any number of blobs and rule inputs and any length of the
scratch buffer. The argument has three layers.

- Strings and recursion. A handle is made by a recursive function of its subscripts and
  the inputs of a rule are parsed by another. `Recursion` shows that such a function
  exists and obeys its equations up to a given number, with `UpTo` for the step from
  each number to the next; `HandleSplit` and `Extracted` say that the first dot of a
  handle divides it into the id and the subscripts it was made of.
- Parsing. `Ends` says what a parse may do to memory: at most one new block, in its own
  buffer, and nothing else touched. `Reads` says that the subscript it returns is a given
  text, wherever that lies. `HandleParses` and `MemberParses` establish both for the
  three ways through the parser, `IdsParsed` for a whole list of inputs: each keeps the
  text it had while later ones are parsed (`Keeps`), and together the blocks are new
  and different (`Lends`).
- Ownership. `MemoryOwned` and `BlobsValid` are not inductive: neither says who owns a
  block, nor that a list that is to be freed finds an entry. `CommandsInv` adds that a
  block has one owner (`OneOwner`) and that the live blocks are the owned ones and those
  an error has left behind (`LeftOver`); that the
  retrieved lists and the table correspond one to one, with equal keys (`Matched`); and
  that a list whose handle no free command has named has its own block under its key
  (`UnderItsKey`). The correspondence cannot be the one by pointers: of two lists with
  one handle a free command may take the other's entry, and then the two swap partners.
  The counts in `MemoryOwned` follow from these one-to-one correspondences
  (`Accounted`), and `KeysDiffer` has different handles under different keys.

`CommandsAssumption` says what a handle is: an id of one character, which is not a dot,
and subscripts of which there is not just one, empty one, because that handle ends with
its first dot and reads as the id alone; and that the handles of two blobs differ. An id
in the code is a decimal number, which has no dot and ends at the first one, so one
character stands for it, and the key of the table has it in a fixed number of
bytes (`tcl-adlb.c:3219`), so that no id and subscript are taken for others.

`CheckpointProofs`: `TypeOK`, `SavedNotRepeated`, `FinishedIsSaved`. `ReloadInv` says
that a worker past its reload has its parts in the index and that nobody makes calls
while another loads; `WriteInv` that what was executed is in the file, in a buffer or
about to be written.

`JobProofs`: `TypeOK`, `ServicesTold`, `CleanEnd`. `PutInv` says that a task that was
put is queued, run or being evaluated; `QuietInv` that after the shutdown nothing is
queued and nobody evaluates, whichever ranks have heard of it; `EnvInv` that rank 0,
which evaluates the rules, is no server.

`LayoutAsAsked` and `RulesAfterReload` follow from `StartInv`. `SeatInv` says that
a rank with a mode has the one `setup_mode` computes, in a layout that was not
refused, and `LeftInv` that past `adlb::init` no rank of a layout that can be had is
without one. That these modes are as many as asked for is a fact about sums: the ranges of
ranks of the work types follow one another without a gap and end where the servers
begin (`Prefixes`, `Places`, `ModesAre`), so each type has as many ranks as its range
has numbers. `RulesInv` says that only workers reload and that rank 0 comes to the
rules past the barrier that all of them reach.

`DeepWaitProofs`: `TypeOK`, `OneSetter`, `SignalsFreed`, `RunsWhenDeepClosed`, over
every forest of data. `DInv` says that the data stay a forest while they grow
(`TreeInv`); that whoever is to set a signal holds its one write reference and nobody
else is to set it (`OutInv`); that a signal is read by whoever waits for it
(`WaitInv`); that what is followed hangs below something followed, and that nothing
was passed over on the way (`FollowInv`, `DoneInv`). That the action comes last does
not follow from any single step: a rule that still owes a signal is waited for, by the
rule of its container, which then owes one too. Going up from a rule of greatest level
one arrives at an input, whose signal the action waits for.

`ContainersProofs`: `TypeOK`, `NoFailure`, `OneInner`, `RefsBalanced`,
`ReadersSeeAll`, `NothingLeaks`, for any program of statements and any stock of
references. `CInv` relates each slot to the one writer that fills it (`SlotInv`,
`GotInv`), each count to the set of its holders (`OuterInv`, `InnerInv`, `HeldInv`,
with finite cardinalities), and contents and answers to the statements that are done
(`ContentInv`, `SawInv`). A reader sees all because the array it reads can only have
closed when no statement that writes below the subscript is left.

`LeaderHookProofs`: `MatchedCalls`, `CopiesWhole`, for any number of leaders and any
sizes of file and chunk. `LInv` gives the i-th collective call as a function of i and
of the file size that was broadcast (`CallsInv`, with `PosInv` for where a leader is
after i calls); where calls on files wait for everybody, nobody writes before all have
made their output files (`BarrierInv`); what was copied is in the file or in the
buffer (`CopiedInv`).

In the modules with proofs type correctness is left to the theorem, as are `NoAbort`
(which `RequestsFitSlots` implies), `RingConsistent` and `CallbackRefs`, `NoFailure`
and `TablesAgree` of the cache, `WithinSize` (implied by `ImplementsLru`),
`LockOwned`, and `ReadIsCurrent` and `ClosedIsFinal` (implied by
`ImplementsUpdateCell`): no run repeats them.

Assumptions on constants are named in the modules that declare them and are
evaluated by every run: finite sets, numbers of the right sign, model values that are
distinct from data; what those of `Commands` mean is said with its proofs above.

Left to TLC: liveness (`UnitsComplete`, `LoopEnds`, `ClosesAtLast`, `DeepWaitFires`,
`StatementsEnd`, `JobEnds`, `RunsFinish`, `HookEnds`), which rests on fairness and
`ENABLED`; and `RoundTrip` and `KeyIdentity`, which say what the recursive operators of
`Packing` compute for nested values, an induction over data. `Packing` is checked on
all values up to depth two.

## 7. What the checks found

Violations, each with its run. The property states what a comment of the code says, which
`PROJECT.json` ("findings") quotes it.

- A resumed `container_deep_wait_iterate` allocates a new signal for the struct it
  waited for and may wait for ever (`container.tcl:923`; `deep_wait_structs`).
- `cache_shrink` tests `memory < 0` on an unsigned number and never evicts
  (`cache.c:237`; `cache_budget`). `MemoryAccounted` is stated modulo the width
  because of it, and `ImplementsLru` without the budget.

Violations of a property that is stated in its module, by the instance that has the
property's configuration beside the runs' (`tlc -config X.cfg M` shows the trace):

| Property | Instance | What happens |
|---|---|---|
| `AlwaysFlushed` | `Checkpoint`, `CheckpointFlush.cfg` | `ADLB_Xpt_Init_Cmd` uses `strcmp` without `== 0`, so that `always_flush` becomes no flush (`tcl-adlb.c:4854`, against the usage at 4838): a call that has returned may only be buffered |
| `StructMembers` | `MCCommands`, `CommandsStruct.cfg` | `ADLB_Parse_Struct_Subscript`, when it appends, writes the terminator to `data[length]` and not behind the appended text (`tcl-adlb.c:5547`, against "null-terminated" at 5528). `NamesMember` leaves this out (`structAppend`) |
| `LongMembers` | `MCCommands`, `CommandsLong.cfg` | a subscript whose block has moved as it was made larger is copied from the old address (`tcl-adlb.c:5485`, `5539`). `NamesMember` leaves this out (`stale`) |
| `NothingLeaked` | `MCCommands`, `CommandsErrors.cfg` | error returns between the parse of a handle and its cleanup keep the subscript's block (`tcl-adlb.c:3971`, `4564`, `tcl-turbine.c:399`, `1042`), those of a list its blob (`tcl-adlb.c:3647`). `MemoryOwned` says that no other block is without an owner |
| `ListsValid` | `MCCommands`, `CommandsLists.cfg` | when one blob is retrieved twice, freeing one list may free the memory of the other (`tcl-adlb.c:3381`, against the comment at 3457). `BlobsValid` holds up to the first free of the handle |

Shown by TLC on these modules, with an instance or a property other than those above:

- With `TURBINE_CACHE_SIZE=1` the first store dereferences the leftmost node of an
  empty tree (`cache.c:207`): `NoFailure` of `Cache` with `MaxEntries = 1`.
- `tcl_list_to_packed_multiset` sorts elements by their string representation, before
  they are canonical (`tcl-adlb.c:2148`): equal multisets of dicts may have different
  checkpoint keys, against the comment "ensure binary representation is canonical"
  (`tcl-adlb.c:1816`). `KeyIdentity` is about the other types.
- Leaders that are not standard workers do not run the hook (`worker.tcl:45`, against
  `async_exec_worker`): collective calls in it then never return on the others.
  `HookEnds` assumes that all leaders run it.
- With one destination for all leaders, and reads that do not wait for everybody, a
  late leader empties the file others have copied (`io.c:121`). A failed `fclose`
  is not reported (`io.c:182`). `CopiesWhole` leaves both out.
- An error of the client, of a callback or of a submission abandons the tasks that
  were collected with it: their callbacks never run (`async_exec.c:545`).
  `UnitsConserved` says that only these units are lost.

Observed while modelling, not checked:

- `check_tasks` never assigns `*task_completed`, against its comment
  (`async_exec.c:509`): the loop yields after turns in which tasks completed.
- `buffer_count=0` is accepted (`tcl-turbine.c:806`) and fails an assertion
  (`async_exec.c:262`).
- With the cache disabled the buffer handed to `turbine_cache_store` is not freed
  (`tcl-turbine.c:701`, `cache.c:138`).
- A trapped user error aborts before `xpt_finalize2` (`turbine.tcl:399`): buffered
  checkpoints are lost. A task's error leaves the worker's service running
  (`worker.c:84`).
- `service_shutdown` waits about 5.1 s, not "around 4", and does not look again after
  the last delay (`services.c:120`).
- `random_worker` may pick a rank that runs an executor for a regular task
  (`location.tcl:20`).
- `drange` starts at 0 whatever its start, and drops the remainder of the division
  (`functions.tcl:217`).
- `deeprule_struct_signal` uses an undefined variable (`container.tcl:862`);
  `structref_insert` likewise; `/oreach` stands for `foreach` in `data.tcl:508`.
- `Turbine_Bcast_Cmd` takes a root, but `turbine_io_bcast` always broadcasts from rank
  0 (`io.c:47`), and its result is ignored (`tcl-turbine.c:1641`).
- `adlb_tclobj2bin` of a container or multiset always fails, as it passes on a type
  list of length one (`tcl-adlb.c:1933`); the commands use the compound form.
- `field_name_objs_add` grows the table to `type` and not `type + 1` when doubling is
  not enough (`tcl-adlb.c:603`); ids are given in order, so that doubling always is enough.
- A rule may have one input fewer than the limit its message names
  (`tcl-turbine.c:1033`).
- `ADLB_Container_Typeof_Cmd` returns the value's type before the key's
  (`tcl-adlb.c:4169`).
- `coaster_free` does not free `default_job_manager` (`coaster_executor.c:432`), and a
  rejected configuration its context.

## 8. Not modelled

ADLB, MPI, Tcl, Coasters and c-utils are external and appear as the actions their
callers rely on. Value functions, loops and ranges, language bindings, MPE, static packages, scripts,
submission and build keep no state that interacts with the rest. File records and app
functions are a rule and an external command each. The GEMTC worker polls a GPU
library that is not in the repository. Of `tcl-adlb.c`, put, get and iget, host maps,
priorities and debug symbols pass their arguments on to ADLB; of `tcl-turbine.c` the
same holds for the options of a rule and of a Coaster job. The registry of executors is
filled before any rank has a mode. `PROJECT.json` lists every component with its state.
