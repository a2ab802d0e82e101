----------------------------- MODULE LeaderHook -----------------------------
(***************************************************************************)
(* TURBINE_LEADER_HOOK: before it enters its loop a standard worker that   *)
(* leads its host evaluates a hook, and so do the leaders of all hosts     *)
(* (worker.tcl).  The hook modelled is the one of tests/hook.tcl: it       *)
(* broadcasts a variable (turbine::c::bcast) and copies a file to every    *)
(* host (turbine::c::copy_to), over the communicator of the leaders        *)
(* (tcl-turbine.c, io.c).                                                  *)
(*                                                                         *)
(* MPI is external.  A collective call is two steps: a rank enters it, and *)
(* returns when the call lets it go.  A broadcast lets its root go at once *)
(* and the others when the root has come; the calls on files wait for      *)
(* everybody, or for nobody, as MPI implementations are free to do.  The   *)
(* input file may change under the copy.  Its cells are numbered and their *)
(* contents do not matter, so that a file is the set of cells it holds.    *)
(***************************************************************************)
EXTENDS Naturals, Sequences, FiniteSets

CONSTANTS
  N,          \* leaders, numbered by their rank in the communicator
  MaxSize,    \* bound: cells of the input file
  ChunkMax,   \* TURBINE_IO_FILE_CHUNK_SIZE
  VarLen,     \* strlen of the variable's value
  None

Leaders == 0 .. N - 1
Root == 0     \* turbine_io_bcast and bcast_size broadcast from rank 0

ASSUME LeaderAssumption ==
  N \in Nat \ {0} /\ MaxSize \in Nat /\ ChunkMax \in Nat \ {0} /\ VarLen \in Nat

VARIABLES
  env,      \* leaders that run standard_worker, one destination for all, how MPI waits
  file,     \* the length of the input file at this moment
  dest,     \* the cells each output file holds
  pc,       \* where each leader is
  calls,    \* the collective calls each has entered, with their counts
  sent,     \* what the root has broadcast, call by call
  bytes,    \* turbine_io_bcast: the length received
  var,      \* the variable of the hook
  size,     \* turbine_io_copy_to: file_size
  total,    \* turbine_io_copy_to: total
  kept,     \* cells in the buffer of fd_out
  lost,     \* leaders whose fclose could not write them
  job       \* "up", "aborted"

vars == <<env, file, dest, pc, calls, sent, bytes, var, size, total, kept, lost, job>>
copying == <<dest, total, kept, lost>>

Init ==
  /\ env \in [runs : SUBSET Leaders, shared : BOOLEAN, sync : BOOLEAN]
  /\ file \in 0 .. MaxSize
  /\ dest = [d \in Leaders |-> {}]
  /\ pc = [r \in Leaders |-> "start"]
  /\ calls = [r \in Leaders |-> << >>] /\ sent = << >>
  /\ bytes = [r \in Leaders |-> 0]
  /\ var = [r \in Leaders |-> IF r = Root THEN "hello" ELSE None]
  /\ size = [r \in Leaders |-> 0] /\ total = [r \in Leaders |-> 0]
  /\ kept = [r \in Leaders |-> {}] /\ lost = {}
  /\ job = "up"

-----------------------------------------------------------------------------
(* Steps and collective calls. *)

Goto(r, from, to) == job = "up" /\ pc[r] = from /\ pc' = [pc EXCEPT ![r] = to]

\* Enters the collective call op on count items.
Enter(r, op, count) == calls' = [calls EXCEPT ![r] = Append(@, <<op, count>>)]

\* The root's turn has come, for the broadcast r is in.
Broadcast == {"bcast int", "bcast char", "bcast byte"}
Broadcasts(r) == Cardinality({i \in 1 .. Len(calls[r]) : calls[r][i][1] \in Broadcast})
Received(r) == sent[Broadcasts(r)]
BcastReturns(r) == r = Root \/ Broadcasts(r) <= Len(sent)

\* A collective call on files lets r go.
FileReturns(r) == env.sync => \A q \in Leaders : Len(calls[q]) >= Len(calls[r])

Dest(r) == IF env.shared THEN Root ELSE r

-----------------------------------------------------------------------------
(* leader_hook, Turbine_Bcast_Cmd and turbine_io_bcast. *)

\* Only standard_worker calls leader_hook: a leader that works for an
\* asynchronous executor, or serves, does not.
Hook(r) ==
  /\ Goto(r, "start", IF r \in env.runs THEN "bcast" ELSE "loop")
  /\ UNCHANGED <<env, file, copying, calls, sent, bytes, var, size, job>>

\* The length with its terminator, then as many characters.
BcastLength(r) ==
  /\ Goto(r, "bcast", "length")
  /\ Enter(r, "bcast int", 1)
  /\ IF r = Root THEN bytes' = [bytes EXCEPT ![r] = VarLen + 1] /\ sent' = Append(sent, VarLen + 1)
     ELSE UNCHANGED <<bytes, sent>>
  /\ UNCHANGED <<env, file, copying, var, size, job>>

BcastString(r) ==
  /\ Goto(r, "length", "string") /\ BcastReturns(r)
  /\ LET n == IF r = Root THEN bytes[r] ELSE Received(r) IN
       bytes' = [bytes EXCEPT ![r] = n] /\ Enter(r, "bcast char", n)
  /\ sent' = IF r = Root THEN Append(sent, var[r]) ELSE sent
  /\ UNCHANGED <<env, file, copying, var, size, job>>

BcastEnd(r) ==
  /\ Goto(r, "string", "stat") /\ BcastReturns(r)
  /\ var' = IF r = Root THEN var ELSE [var EXCEPT ![r] = Received(r)]
  /\ UNCHANGED <<env, file, copying, calls, sent, bytes, size, job>>

-----------------------------------------------------------------------------
(* Turbine_CopyTo_Cmd and turbine_io_copy_to. *)

\* Faulty: the hook goes on after a copy that failed.
IgnoreFailure(r, from) ==
  /\ Goto(r, from, "loop")
  /\ UNCHANGED <<env, file, copying, calls, sent, bytes, var, size, job>>

\* turbine_io_copy_to returns false, and the command an error.
CopyFails(r, from) ==
  /\ Goto(r, from, "caught")
  /\ UNCHANGED <<env, file, copying, calls, sent, bytes, var, size, job>>

\* bcast_size: the root alone looks at the file, and may not find it.
BcastSize(r) ==
  \/ r = Root /\ CopyFails(r, "stat")
  \/ /\ Goto(r, "stat", "size")
     /\ Enter(r, "bcast byte", 8)
     /\ IF r = Root THEN size' = [size EXCEPT ![r] = file] /\ sent' = Append(sent, file)
        ELSE UNCHANGED <<size, sent>>
     /\ UNCHANGED <<env, file, copying, bytes, var, job>>

\* Faulty: every rank looks for itself.
SizeOfFile(r) == file

SizeReceived(r) == IF r = Root THEN size[r] ELSE Received(r)

\* MPI_File_open, which opens the file for everyone.
FileOpen(r) ==
  /\ Goto(r, "size", "open") /\ BcastReturns(r)
  /\ size' = [size EXCEPT ![r] = SizeReceived(r)]
  /\ Enter(r, "file open", 0)
  /\ UNCHANGED <<env, file, copying, sent, bytes, var, job>>

\* The open fails on this rank, or copy_destination does, or it makes the
\* output file, or empties the one there is.
CopyDestination(r) ==
  /\ FileReturns(r)
  /\ \/ CopyFails(r, "open")
     \/ /\ Goto(r, "open", "copy")
        /\ dest' = [dest EXCEPT ![Dest(r)] = {}]
        /\ UNCHANGED <<env, file, total, kept, lost, calls, sent, bytes, var, size, job>>

\* Faulty: full chunks only.
MoreFullChunks(r) == total[r] + ChunkMax <= size[r]

More(r) == total[r] < size[r]

Chunk(r) == IF size[r] - total[r] < ChunkMax THEN size[r] - total[r] ELSE ChunkMax

FileRead(r) ==
  /\ More(r) /\ Goto(r, "copy", "read")
  /\ Enter(r, "file read", Chunk(r))
  /\ UNCHANGED <<env, file, copying, sent, bytes, var, size, job>>

\* An assertion ends the process: the file has become too short, or the chunk
\* cannot be written.
AssertFails(r) ==
  /\ FileReturns(r) /\ Goto(r, "read", "died")
  /\ UNCHANGED <<env, file, copying, calls, sent, bytes, var, size, job>>

\* The chunk is read and written.  What fwrite had kept is out; it may keep
\* the new cells in their turn.
ChunkWritten(r) ==
  /\ FileReturns(r) /\ total[r] + Chunk(r) <= file
  /\ Goto(r, "read", "copy")
  /\ LET cells == total[r] + 1 .. total[r] + Chunk(r) IN
       \E k \in {{}, cells} :
         /\ kept' = [kept EXCEPT ![r] = k]
         /\ dest' = [dest EXCEPT ![Dest(r)] = @ \cup kept[r] \cup (cells \ k)]
  /\ total' = [total EXCEPT ![r] = @ + Chunk(r)]
  /\ UNCHANGED <<env, file, lost, calls, sent, bytes, var, size, job>>

FileClose(r) ==
  /\ ~More(r) /\ Goto(r, "copy", "close")
  /\ Enter(r, "file close", 0)
  /\ UNCHANGED <<env, file, copying, sent, bytes, var, size, job>>

\* fclose writes what is kept; nobody asks whether it could.
Fclose(r) ==
  /\ FileReturns(r) /\ Goto(r, "close", "loop")
  /\ \/ dest' = [dest EXCEPT ![Dest(r)] = @ \cup kept[r]] /\ UNCHANGED lost
     \/ kept[r] # {} /\ lost' = lost \cup {r} /\ UNCHANGED dest
  /\ kept' = [kept EXCEPT ![r] = {}]
  /\ UNCHANGED <<env, file, total, calls, sent, bytes, var, size, job>>

-----------------------------------------------------------------------------
\* turbine::start catches the error and calls adlb::abort; the MPI launcher
\* ends the job of a process that died.
Abort(r) ==
  /\ job = "up" /\ pc[r] \in {"caught", "died"}
  /\ job' = "aborted"
  /\ UNCHANGED <<env, file, copying, pc, calls, sent, bytes, var, size>>

\* Somebody else writes the input file.
FileChanges ==
  /\ job = "up" /\ file' \in 0 .. MaxSize
  /\ UNCHANGED <<env, copying, pc, calls, sent, bytes, var, size, job>>

Leader(r) ==
  \/ Hook(r) \/ BcastLength(r) \/ BcastString(r) \/ BcastEnd(r) \/ BcastSize(r)
  \/ FileOpen(r) \/ CopyDestination(r) \/ FileRead(r) \/ AssertFails(r) \/ ChunkWritten(r)
  \/ FileClose(r) \/ Fclose(r) \/ Abort(r)

Next == FileChanges \/ \E r \in Leaders : Leader(r)

Spec == Init /\ [][Next]_vars

\* Every leader runs.
FairSpec == Spec /\ \A r \in Leaders : WF_vars(Leader(r))

-----------------------------------------------------------------------------
(* Properties. *)

(***************************************************************************)
(* The leaders agree on every collective call: the one that one leader     *)
(* makes as its i-th, every other makes as its i-th, with the same count.  *)
(* This is what MPI asks of them, and here it depends on the sizes that    *)
(* were broadcast and not on what each sees of a file that changes         *)
(* (turbine_io_bcast, bcast_size, the loop of turbine_io_copy_to).         *)
(***************************************************************************)
MatchedCalls ==
  \A r, q \in Leaders : \A i \in 1 .. Len(calls[r]) :
    i <= Len(calls[q]) => calls[q][i] = calls[r][i]

(***************************************************************************)
(* A leader that goes from the hook to its loop has the variable of the    *)
(* root and, at its destination, the whole file at the size the root saw   *)
(* and nothing else; unless its fclose failed.  Where the destination is   *)
(* one file for all, this needs calls on files that wait for everybody:    *)
(* otherwise a late leader may empty the file again (copy_destination).    *)
(***************************************************************************)
CopiesWhole ==
  \A r \in env.runs :
    pc[r] = "loop" /\ (env.shared => env.sync) /\ r \notin lost =>
      /\ dest[Dest(r)] = 1 .. size[Root]
      /\ bytes[r] = bytes[Root] /\ var[r] = var[Root]

(***************************************************************************)
(* When every leader runs the hook, a leader whose copy fails does not     *)
(* leave the others waiting for it for ever (io.c:73): all reach their     *)
(* loops, or the job is aborted.                                           *)
(***************************************************************************)
HookEnds ==
  env.runs = Leaders ~> (job = "aborted" \/ \A r \in Leaders : pc[r] = "loop")
=============================================================================
