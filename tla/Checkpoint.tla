------------------------------ MODULE Checkpoint ------------------------------
(***************************************************************************)
(* Checkpointing over several runs of a program: xpt_init2 reads the       *)
(* settings and reloads earlier files, split over the workers; each call   *)
(* of a checkpointed function is looked up, or executed and written; a run *)
(* may crash between any two steps (checkpoint.tcl, the adlb::xpt_*        *)
(* commands of tcl-adlb.c).                                                *)
(*                                                                         *)
(* ADLB is external: entries written are buffered by the rank that writes  *)
(* them and reach its part of the file when they are flushed, or when ADLB *)
(* finds it convenient; the index of entries is kept by the servers.       *)
(***************************************************************************)
EXTENDS Integers, FiniteSets

CONSTANTS
  Calls,      \* calls of checkpointed functions in the program
  N,          \* workers
  MaxRuns,    \* runs the user tries
  XPT_FLUSH,  \* environment variable TURBINE_XPT_FLUSH
  Persist,    \* persist mode compiled code passes to xpt_write
  None

Workers == 0 .. N - 1
Modes == {"DISABLED", "R", "W", "RW"}
Policies == {"no_flush", "periodic_flush", "always_flush"}

ASSUME CheckpointAssumption ==
  /\ N \in Nat \ {0} /\ MaxRuns \in Nat \ {0} /\ None \notin Calls /\ IsFiniteSet(Calls)
  /\ XPT_FLUSH \in Policies /\ Persist \in {"no_persist", "persist", "persist_flush"}

VARIABLES
  run,      \* runs started so far
  up,       \* is one under way
  xpt_mode, \* what the settings of this run come to
  policy,   \* the flush policy ADLB was given
  file,     \* file[i][w]: what run i's file has in worker w's part
  buffer,   \* entries each worker has written that are not in the file yet
  index,    \* entries a lookup finds
  pc, call, \* where each worker is, and in which call
  done,     \* calls that have returned in this run
  executed, \* calls executed in this run
  finished  \* runs that ended by themselves

vars == <<run, up, xpt_mode, policy, file, buffer, index, pc, call, done, executed, finished>>
fixed == <<run, up, xpt_mode, policy, finished>>

Init ==
  /\ run = 0 /\ up = FALSE /\ xpt_mode = "DISABLED" /\ policy = "no_flush"
  /\ file = [i \in 1 .. MaxRuns |-> [w \in Workers |-> {}]]
  /\ buffer = [w \in Workers |-> {}] /\ index = {}
  /\ pc = [w \in Workers |-> "off"] /\ call = [w \in Workers |-> None]
  /\ done = {} /\ executed = {} /\ finished = {}

-----------------------------------------------------------------------------
\* xpt_lookup_enabled, xpt_write_enabled.
LookupEnabled == xpt_mode \in {"R", "RW"}
WriteEnabled  == xpt_mode \in {"W", "RW"}

\* xpt_mode from TURBINE_XPT_FILE and TURBINE_XPT_RELOAD.
ModeOf(write, reload) ==
  IF reload THEN IF write THEN "RW" ELSE "R" ELSE IF write THEN "W" ELSE "DISABLED"

\* ADLB_Xpt_Init_Cmd takes the first name that strcmp tells from the one given.
FlushPolicy(s) ==
  IF s # "no_flush" THEN "no_flush"
  ELSE IF s # "periodic_flush" THEN "periodic_flush" ELSE "always_flush"

\* What earlier runs have left in their files.
Saved == UNION {UNION {file[i][w] : w \in Workers} : i \in 1 .. run - 1}

\* xpt_init2 on every rank, to the start of the reload.
Start == \E write, reload \in BOOLEAN :
  /\ ~up /\ run < MaxRuns
  /\ run' = run + 1 /\ up' = TRUE
  /\ xpt_mode' = ModeOf(write, reload) /\ policy' = FlushPolicy(XPT_FLUSH)
  /\ buffer' = [w \in Workers |-> {}] /\ index' = {}
  /\ pc' = [w \in Workers |-> IF reload THEN "load" ELSE "idle"]
  /\ call' = [w \in Workers |-> None] /\ done' = {} /\ executed' = {}
  /\ UNCHANGED <<file, finished>>

Goto(w, from, to) == up /\ pc[w] = from /\ pc' = [pc EXCEPT ![w] = to]

\* The parts of a file a loader takes: loader w of N.
Share(w) == {p \in Workers : p % N = w}

Reload(w) ==
  /\ Goto(w, "load", "barrier")
  /\ index' = index \cup UNION {UNION {file[i][p] : p \in Share(w)} : i \in 1 .. run - 1}
  /\ UNCHANGED <<fixed, file, buffer, call, done, executed>>

\* Faulty: no barrier.
NoBarrier(w) == Goto(w, "barrier", "idle") /\ UNCHANGED <<fixed, file, buffer, index, call, done, executed>>

\* Faulty: nobody may have left the barrier before.
BarrierAtOnce(w) ==
  /\ \A v \in Workers : pc[v] = "barrier"
  /\ Goto(w, "barrier", "idle")
  /\ UNCHANGED <<fixed, file, buffer, index, call, done, executed>>

\* worker_barrier.
Barrier(w) ==
  /\ \A v \in Workers : pc[v] # "load"
  /\ Goto(w, "barrier", "idle")
  /\ UNCHANGED <<fixed, file, buffer, index, call, done, executed>>

-----------------------------------------------------------------------------
(* A call. *)

Free(c) == c \notin done /\ \A w \in Workers : call[w] # c

\* xpt_lookup finds an entry, or there is none or none is looked for.
LookupHit(w, c) ==
  /\ Free(c) /\ LookupEnabled /\ c \in index /\ up /\ pc[w] = "idle"
  /\ done' = done \cup {c}
  /\ UNCHANGED <<fixed, file, buffer, index, pc, call, executed>>

LookupMiss(w, c) ==
  /\ Free(c) /\ ~(LookupEnabled /\ c \in index) /\ Goto(w, "idle", "execute")
  /\ call' = [call EXCEPT ![w] = c]
  /\ UNCHANGED <<fixed, file, buffer, index, done, executed>>

Execute(w) ==
  /\ Goto(w, "execute", IF WriteEnabled THEN "write" ELSE "return")
  /\ executed' = executed \cup {call[w]}
  /\ UNCHANGED <<fixed, file, buffer, index, call, done>>

ToFile(w, S) == file' = [file EXCEPT ![run][w] = @ \cup S]

\* xpt_write, with index_add.
Write(w) ==
  /\ Goto(w, "write", "return")
  /\ index' = index \cup {call[w]}
  /\ CASE Persist = "no_persist" -> UNCHANGED <<file, buffer>>
       [] Persist = "persist_flush" \/ (Persist = "persist" /\ policy = "always_flush") ->
            /\ ToFile(w, buffer[w] \cup {call[w]})
            /\ buffer' = [buffer EXCEPT ![w] = {}]
       [] OTHER -> /\ buffer' = [buffer EXCEPT ![w] = @ \cup {call[w]}]
                   /\ UNCHANGED file
  /\ UNCHANGED <<fixed, call, done, executed>>

Return(w) ==
  /\ Goto(w, "return", "idle")
  /\ done' = done \cup {call[w]} /\ call' = [call EXCEPT ![w] = None]
  /\ UNCHANGED <<fixed, file, buffer, index, executed>>

-----------------------------------------------------------------------------
\* ADLB writes a buffer to the file: periodically, or because it is full.
Spill(w) ==
  /\ up /\ buffer[w] # {}
  /\ ToFile(w, buffer[w]) /\ buffer' = [buffer EXCEPT ![w] = {}]
  /\ UNCHANGED <<fixed, index, pc, call, done, executed>>

Crash ==
  /\ up /\ run < MaxRuns
  /\ up' = FALSE /\ buffer' = [w \in Workers |-> {}] /\ index' = {}
  /\ UNCHANGED <<run, xpt_mode, policy, file, pc, call, done, executed, finished>>

\* Faulty: does not write out what is buffered.
FinishDrops ==
  /\ up /\ done = Calls /\ \A w \in Workers : pc[w] = "idle"
  /\ up' = FALSE /\ finished' = finished \cup {run}
  /\ buffer' = [w \in Workers |-> {}] /\ index' = {}
  /\ UNCHANGED <<run, xpt_mode, policy, file, pc, call, done, executed>>

\* The program is over: xpt_finalize on every rank.
Finish ==
  /\ up /\ done = Calls /\ \A w \in Workers : pc[w] = "idle"
  /\ file' = [file EXCEPT ![run] = [w \in Workers |-> @[w] \cup buffer[w]]]
  /\ up' = FALSE /\ finished' = finished \cup {run}
  /\ buffer' = [w \in Workers |-> {}] /\ index' = {}
  /\ UNCHANGED <<run, xpt_mode, policy, pc, call, done, executed>>

Work(w) ==
  \/ Reload(w) \/ Barrier(w) \/ Execute(w) \/ Write(w) \/ Return(w)
  \/ \E c \in Calls : LookupHit(w, c) \/ LookupMiss(w, c)

Ended == ~up /\ run = MaxRuns /\ UNCHANGED vars

Next == Start \/ Crash \/ Finish \/ Ended \/ \E w \in Workers : Work(w) \/ Spill(w)

Spec == Init /\ [][Next]_vars

FairSpec == Spec /\ WF_vars(Start) /\ WF_vars(Finish) /\ \A w \in Workers : WF_vars(Work(w))

-----------------------------------------------------------------------------
(* Properties. *)

\* The values the variables take.
TypeOK ==
  /\ run \in 0 .. MaxRuns /\ up \in BOOLEAN /\ xpt_mode \in Modes /\ policy \in Policies
  /\ file \in [1 .. MaxRuns -> [Workers -> SUBSET Calls]]
  /\ buffer \in [Workers -> SUBSET Calls] /\ index \subseteq Calls
  /\ pc \in [Workers -> {"off", "load", "barrier", "idle", "execute", "write", "return"}]
  /\ call \in [Workers -> Calls \cup {None}]
  /\ done \subseteq Calls /\ executed \subseteq Calls /\ finished \subseteq 1 .. MaxRuns

(***************************************************************************)
(* What an earlier run has saved is not computed again by a run that       *)
(* reloads, whatever loader had its part and whichever worker makes the    *)
(* call: all parts are in the index before the first call is made.         *)
(***************************************************************************)
SavedNotRepeated == up /\ LookupEnabled => executed \cap Saved = {}

(***************************************************************************)
(* A run that ends by itself and writes checkpoints leaves everything it   *)
(* executed in its file, though nothing was flushed meanwhile.             *)
(***************************************************************************)
FinishedIsSaved ==
  ~up /\ run \in finished /\ WriteEnabled /\ Persist # "no_persist" =>
    executed \subseteq UNION {file[run][w] : w \in Workers}

(***************************************************************************)
(* Always flushing: a call that was executed and has returned is in the    *)
(* file.  The policies ADLB_Xpt_Init_Cmd documents are "no_flush,          *)
(* periodic_flush, or always_flush" (tcl-adlb.c:4838); with the last one a *)
(* crash loses no call that has returned.                                  *)
(***************************************************************************)
AlwaysFlushed ==
  up /\ WriteEnabled /\ XPT_FLUSH = "always_flush" /\ Persist = "persist" =>
    (done \cap executed) \subseteq UNION {file[run][w] : w \in Workers}

\* Crashes apart, each run comes to its end.
RunsFinish == \A i \in 1 .. MaxRuns : (run = i /\ up) ~> (~up)

=============================================================================
