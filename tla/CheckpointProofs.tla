--------------------------- MODULE CheckpointProofs ---------------------------
(***************************************************************************)
(* Proofs about Checkpoint, for every set of calls, number of workers and  *)
(* of runs, flush policy and persist mode.                                 *)
(***************************************************************************)
EXTENDS Checkpoint, TLAPS

-----------------------------------------------------------------------------
(* The inductive invariant. *)

\* The run numbers: a run that is up has not finished.
RunInv ==
  /\ up => run \in 1 .. MaxRuns /\ run \notin finished
  /\ \A i \in finished : i <= run

\* A worker past its reload has its part of every earlier file in the index,
\* nobody makes calls while another is loading, and a call that is being
\* executed was not in the index, so that it is in no earlier file.
ReloadInv ==
  up /\ LookupEnabled =>
    /\ \A w \in Workers : pc[w] # "load" => \A i \in 1 .. run - 1 : file[i][w] \subseteq index
    /\ \A v, w \in Workers : pc[v] = "load" => pc[w] \in {"load", "barrier"}
    /\ \A w \in Workers : pc[w] = "execute" => call[w] \notin Saved
    /\ executed \cap Saved = {}

\* What has been executed is in the file, in a buffer, or about to be written.
WriteInv ==
  up /\ WriteEnabled /\ Persist # "no_persist" =>
    \A c \in executed : \E w \in Workers :
      c \in file[run][w] \/ c \in buffer[w] \/ (pc[w] = "write" /\ call[w] = c)

\* A worker is in a call exactly from the lookup to the return.
CallInv == up => \A w \in Workers : pc[w] \in {"execute", "write", "return"} => call[w] \in Calls

XInv == TypeOK /\ RunInv /\ CallInv /\ ReloadInv /\ WriteInv /\ FinishedIsSaved

-----------------------------------------------------------------------------
(* Facts about the operators. *)

\* A call is saved if some worker's part of some earlier run's file has it.
LEMMA SavedPart ==
  ASSUME NEW c
  PROVE  c \in Saved <=> \E i \in 1 .. run - 1, w \in Workers : c \in file[i][w]
  BY DEF Saved

\* A loader's share has its own part.
LEMMA OwnShare == ASSUME NEW w \in Workers PROVE w \in Share(w)
  <1>1. w % N = w BY CheckpointAssumption DEF Workers
  <1> QED BY <1>1 DEF Share

\* The mode and the policy are among those known.
LEMMA Settings ==
  ASSUME NEW write \in BOOLEAN, NEW reload \in BOOLEAN
  PROVE  /\ ModeOf(write, reload) \in Modes
         /\ ModeOf(write, reload) \in {"R", "RW"} => reload
         /\ FlushPolicy(XPT_FLUSH) \in Policies
  BY DEF ModeOf, Modes, FlushPolicy, Policies

\* Steps within a run leave the earlier files alone.
LEMMA SavedKept ==
  ASSUME TypeOK, UNCHANGED run, run \in 1 .. MaxRuns, NEW w \in Workers, NEW S, ToFile(w, S)
  PROVE  /\ \A i \in 1 .. run - 1 : file'[i] = file[i]
         /\ Saved' = Saved
         /\ \A v \in Workers : file'[run][v] = IF v = w THEN file[run][v] \cup S ELSE file[run][v]
<1>1. \A i \in 1 .. run - 1 : i \in 1 .. MaxRuns /\ file'[i] = file[i]
  BY CheckpointAssumption DEF TypeOK, ToFile
<1>2. Saved' = Saved
  BY <1>1 DEF Saved
<1>3. \A v \in Workers : file'[run][v] = IF v = w THEN file[run][v] \cup S ELSE file[run][v]
  BY DEF TypeOK, ToFile
<1> QED BY <1>1, <1>2, <1>3

-----------------------------------------------------------------------------
LEMMA XInvInit == Init => XInv
<1> SUFFICES ASSUME Init PROVE XInv
  OBVIOUS
<1>1. TypeOK
  <2>1. 0 \in 0 .. MaxRuns
    BY CheckpointAssumption
  <2> QED BY <2>1 DEF Init, TypeOK, Modes, Policies
<1>2. RunInv /\ CallInv /\ ReloadInv /\ WriteInv /\ FinishedIsSaved
  BY DEF Init, RunInv, CallInv, ReloadInv, WriteInv, FinishedIsSaved
<1> QED BY <1>1, <1>2 DEF XInv

\* The start of a run.
LEMMA StartXInv == XInv /\ Start => XInv'
<1> SUFFICES ASSUME XInv, Start PROVE XInv'
  OBVIOUS
<1>1. PICK write, reload \in BOOLEAN : Start!(write, reload)
  BY DEF Start
<1>2. TypeOK'
  BY <1>1, Settings, CheckpointAssumption DEF XInv, TypeOK
<1>3. RunInv'
  BY <1>1, CheckpointAssumption DEF XInv, TypeOK, RunInv
<1>5. CallInv' /\ WriteInv' /\ FinishedIsSaved'
  BY <1>1 DEF CallInv, WriteInv, FinishedIsSaved
<1>4. ReloadInv'
  <2>1. CASE reload
    BY <2>1, <1>1 DEF ReloadInv
  <2>2. CASE ~reload
    BY <2>2, <1>1, Settings DEF ReloadInv, LookupEnabled
  <2> QED BY <2>1, <2>2
<1> QED BY <1>2, <1>3, <1>4, <1>5 DEF XInv

\* The end of a run: by itself, or not.
LEMMA EndXInv == XInv /\ (Crash \/ Finish) => XInv'
<1> SUFFICES ASSUME XInv, Crash \/ Finish PROVE XInv'
  OBVIOUS
<1>1. CASE Crash
  BY <1>1 DEF Crash, XInv, TypeOK, RunInv, CallInv, ReloadInv, WriteInv, FinishedIsSaved
<1>2. CASE Finish
  <2>1. TypeOK'
    BY <1>2 DEF Finish, XInv, TypeOK, RunInv
  <2>2. RunInv' /\ CallInv' /\ ReloadInv' /\ WriteInv'
    BY <1>2 DEF Finish, XInv, TypeOK, RunInv, CallInv, ReloadInv, WriteInv
  <2>3. FinishedIsSaved'
    <3> SUFFICES ASSUME WriteEnabled, Persist # "no_persist", NEW c \in executed
                 PROVE  \E w \in Workers : c \in file'[run][w]
      BY <1>2 DEF Finish, FinishedIsSaved, WriteEnabled
    <3>1. PICK w \in Workers : c \in file[run][w] \/ c \in buffer[w]
      BY <1>2 DEF Finish, XInv, WriteInv
    <3>2. file'[run][w] = file[run][w] \cup buffer[w]
      BY <1>2 DEF Finish, XInv, TypeOK, RunInv
    <3> QED BY <3>1, <3>2
  <2> QED BY <2>1, <2>2, <2>3 DEF XInv
<1> QED BY <1>1, <1>2

-----------------------------------------------------------------------------
(* Steps of a worker. *)

\* Reload puts the worker's own parts in the index.
LEMMA ReloadXInv == ASSUME XInv, NEW w \in Workers, Reload(w) PROVE XInv'
<1> DEFINE Parts == UNION {UNION {file[i][p] : p \in Share(w)} : i \in 1 .. run - 1}
<1>1. TypeOK'
  <2>1. Parts \subseteq Calls
    BY CheckpointAssumption DEF XInv, TypeOK, Share
  <2> QED BY <2>1 DEF Reload, Goto, fixed, XInv, TypeOK
<1>2. RunInv' /\ CallInv' /\ WriteInv' /\ FinishedIsSaved'
  BY DEF Reload, Goto, fixed, XInv, TypeOK, RunInv, CallInv, WriteInv, FinishedIsSaved, WriteEnabled
<1>3. ReloadInv'
  <2> SUFFICES ASSUME LookupEnabled PROVE ReloadInv!2'
    BY DEF Reload, Goto, fixed, ReloadInv, LookupEnabled
  <2>1. \A i \in 1 .. run - 1 : file[i][w] \subseteq Parts
    BY OwnShare
  <2>2. ReloadInv!2!1'
    BY <2>1 DEF Reload, Goto, fixed, XInv, TypeOK, ReloadInv
  <2>3. ReloadInv!2!2' /\ ReloadInv!2!3' /\ ReloadInv!2!4'
    BY DEF Reload, Goto, fixed, XInv, TypeOK, ReloadInv, Saved
  <2> QED BY <2>2, <2>3
<1> QED BY <1>1, <1>2, <1>3 DEF XInv

\* Leaving the barrier, nobody is loading.
LEMMA BarrierXInv == ASSUME XInv, NEW w \in Workers, Barrier(w) PROVE XInv'
<1>1. TypeOK' /\ RunInv' /\ CallInv' /\ WriteInv' /\ FinishedIsSaved'
  BY DEF Barrier, Goto, fixed, XInv, TypeOK, RunInv, CallInv, WriteInv, FinishedIsSaved, WriteEnabled
<1>2. ReloadInv'
  BY DEF Barrier, Goto, fixed, XInv, TypeOK, ReloadInv, LookupEnabled, Saved
<1> QED BY <1>1, <1>2 DEF XInv

\* An entry that is found.
LEMMA LookupHitXInv ==
  ASSUME XInv, NEW w \in Workers, NEW c \in Calls, LookupHit(w, c) PROVE XInv'
<1>1. TypeOK' /\ RunInv' /\ CallInv' /\ WriteInv' /\ FinishedIsSaved'
  BY DEF LookupHit, fixed, XInv, TypeOK, RunInv, CallInv, WriteInv, FinishedIsSaved, WriteEnabled
<1>2. ReloadInv'
  BY DEF LookupHit, fixed, XInv, TypeOK, ReloadInv, LookupEnabled, Saved
<1> QED BY <1>1, <1>2 DEF XInv

\* An entry that is not found is in no earlier file: all parts are loaded.
LEMMA LookupMissXInv ==
  ASSUME XInv, NEW w \in Workers, NEW c \in Calls, LookupMiss(w, c) PROVE XInv'
<1>1. TypeOK' /\ RunInv' /\ CallInv' /\ WriteInv' /\ FinishedIsSaved'
  BY DEF LookupMiss, Goto, fixed, XInv, TypeOK, RunInv, CallInv, WriteInv, FinishedIsSaved, WriteEnabled
<1>2. ReloadInv'
  <2> SUFFICES ASSUME LookupEnabled PROVE ReloadInv!2'
    BY DEF LookupMiss, Goto, fixed, ReloadInv, LookupEnabled
  <2>1. c \notin Saved
    <3>1. \A v \in Workers : pc[v] # "load"
      BY DEF LookupMiss, Goto, XInv, ReloadInv
    <3>2. \A v \in Workers : \A i \in 1 .. run - 1 : c \notin file[i][v]
      BY <3>1 DEF LookupMiss, Goto, XInv, ReloadInv
    <3> QED BY <3>2, SavedPart
  <2>2. Saved' = Saved
    BY DEF LookupMiss, fixed, Saved
  <2>3. ReloadInv!2!1' /\ ReloadInv!2!2' /\ ReloadInv!2!4'
    BY <2>2 DEF LookupMiss, Goto, fixed, XInv, TypeOK, ReloadInv
  <2>4. ReloadInv!2!3'
    BY <2>1, <2>2 DEF LookupMiss, Goto, fixed, XInv, TypeOK, ReloadInv
  <2> QED BY <2>3, <2>4
<1> QED BY <1>1, <1>2 DEF XInv

\* The call is made.
LEMMA ExecuteXInv == ASSUME XInv, NEW w \in Workers, Execute(w) PROVE XInv'
<1>1. TypeOK' /\ RunInv' /\ CallInv' /\ FinishedIsSaved'
  BY DEF Execute, Goto, fixed, XInv, TypeOK, RunInv, CallInv, FinishedIsSaved, WriteEnabled
<1>2. WriteInv'
  BY DEF Execute, Goto, fixed, XInv, TypeOK, WriteInv, WriteEnabled
<1>3. ReloadInv'
  <2>1. Saved' = Saved
    BY DEF Execute, fixed, Saved
  <2> QED BY <2>1 DEF Execute, Goto, fixed, XInv, TypeOK, ReloadInv, LookupEnabled
<1> QED BY <1>1, <1>2, <1>3 DEF XInv

\* The call returns.
LEMMA ReturnXInv == ASSUME XInv, NEW w \in Workers, Return(w) PROVE XInv'
<1>1. TypeOK' /\ RunInv' /\ CallInv' /\ FinishedIsSaved'
  BY DEF Return, Goto, fixed, XInv, TypeOK, RunInv, CallInv, FinishedIsSaved, WriteEnabled
<1>2. WriteInv'
  BY DEF Return, Goto, fixed, XInv, TypeOK, WriteInv, WriteEnabled
<1>3. ReloadInv'
  <2>1. Saved' = Saved
    BY DEF Return, fixed, Saved
  <2> QED BY <2>1 DEF Return, Goto, fixed, XInv, TypeOK, ReloadInv, LookupEnabled
<1> QED BY <1>1, <1>2, <1>3 DEF XInv

\* What a write may do to the worker's part of the file and to its buffer.
LEMMA WriteCases ==
  ASSUME NEW w \in Workers, Write(w)
  PROVE  \/ Persist = "no_persist" /\ UNCHANGED <<file, buffer>>
         \/ ToFile(w, buffer[w] \cup {call[w]}) /\ buffer' = [buffer EXCEPT ![w] = {}]
         \/ buffer' = [buffer EXCEPT ![w] = @ \cup {call[w]}] /\ UNCHANGED file
  BY CheckpointAssumption DEF Write

\* The entry goes to the index and to the buffer or the file.
LEMMA WriteXInv == ASSUME XInv, NEW w \in Workers, Write(w) PROVE XInv'
<1> DEFINE B == buffer[w] \cup {call[w]}
<1>0. call[w] \in Calls /\ run \in 1 .. MaxRuns /\ up /\ UNCHANGED fixed
  BY DEF Write, Goto, XInv, RunInv, CallInv
<1>1. /\ \A i \in 1 .. run - 1 : file'[i] = file[i]
      /\ Saved' = Saved
      /\ file' \in [1 .. MaxRuns -> [Workers -> SUBSET Calls]]
      /\ buffer' \in [Workers -> SUBSET Calls]
      /\ \A v \in Workers : file[run][v] \subseteq file'[run][v]
      /\ \A v \in Workers \ {w} : buffer'[v] = buffer[v]
      /\ Persist # "no_persist" => B \subseteq file'[run][w] \cup buffer'[w]
  <2>1. CASE UNCHANGED file
    <3>1. Saved' = Saved
      BY <2>1, <1>0 DEF fixed, Saved
    <3> QED BY <2>1, <3>1, <1>0, WriteCases DEF ToFile, XInv, TypeOK
  <2>2. CASE ToFile(w, B) /\ buffer' = [buffer EXCEPT ![w] = {}]
    <3>1. file' \in [1 .. MaxRuns -> [Workers -> SUBSET Calls]]
      BY <2>2, <1>0 DEF ToFile, XInv, TypeOK
    <3>2. TypeOK /\ UNCHANGED run
      BY <1>0 DEF fixed, XInv
    <3>3. /\ \A i \in 1 .. run - 1 : file'[i] = file[i]
          /\ Saved' = Saved
          /\ \A v \in Workers : file'[run][v] = IF v = w THEN file[run][v] \cup B ELSE file[run][v]
      BY <2>2, <3>2, <1>0, SavedKept
    <3> HIDE DEF B
    <3>4. /\ buffer' \in [Workers -> SUBSET Calls]
          /\ \A v \in Workers \ {w} : buffer'[v] = buffer[v]
      BY <2>2 DEF XInv, TypeOK
    <3> QED BY <3>1, <3>3, <3>4
  <2> QED BY <2>1, <2>2, WriteCases
<1>2. TypeOK'
  BY <1>0, <1>1 DEF Write, Goto, fixed, XInv, TypeOK
<1>3. RunInv' /\ CallInv' /\ FinishedIsSaved'
  BY <1>0 DEF Write, Goto, fixed, XInv, TypeOK, RunInv, CallInv, FinishedIsSaved
<1>4. ReloadInv'
  BY <1>0, <1>1 DEF Write, Goto, fixed, XInv, TypeOK, ReloadInv, LookupEnabled
<1>5. WriteInv'
  <2> SUFFICES ASSUME WriteEnabled, Persist # "no_persist", NEW c \in executed
               PROVE  \E v \in Workers : c \in file'[run][v] \/ c \in buffer'[v]
                                         \/ (pc'[v] = "write" /\ call[v] = c)
    BY <1>0 DEF Write, fixed, WriteInv, WriteEnabled
  <2>1. PICK v \in Workers : c \in file[run][v] \/ c \in buffer[v] \/ (pc[v] = "write" /\ call[v] = c)
    BY <1>0 DEF XInv, WriteInv
  <2>2. CASE v = w
    BY <2>1, <2>2, <1>1
  <2>3. CASE v # w
    BY <2>1, <2>3, <1>1 DEF Write, Goto, XInv, TypeOK
  <2> QED BY <2>2, <2>3
<1> QED BY <1>2, <1>3, <1>4, <1>5 DEF XInv

\* ADLB moves a buffer to the file.
LEMMA SpillXInv == ASSUME XInv, NEW w \in Workers, Spill(w) PROVE XInv'
<1>0. run \in 1 .. MaxRuns /\ up /\ UNCHANGED fixed
  BY DEF Spill, XInv, RunInv
<1>1. /\ \A i \in 1 .. run - 1 : file'[i] = file[i]
      /\ Saved' = Saved
      /\ \A v \in Workers : file[run][v] \subseteq file'[run][v]
      /\ \A v \in Workers \ {w} : buffer'[v] = buffer[v]
      /\ buffer[w] \subseteq file'[run][w]
  <2>1. TypeOK /\ UNCHANGED run /\ ToFile(w, buffer[w])
    BY <1>0 DEF Spill, fixed, XInv
  <2>2. /\ \A i \in 1 .. run - 1 : file'[i] = file[i]
        /\ Saved' = Saved
        /\ \A v \in Workers : file'[run][v] = IF v = w THEN file[run][v] \cup buffer[w] ELSE file[run][v]
    BY <2>1, <1>0, SavedKept
  <2>3. \A v \in Workers \ {w} : buffer'[v] = buffer[v]
    BY <2>1 DEF Spill, TypeOK
  <2> QED BY <2>2, <2>3
<1>2. TypeOK'
  BY <1>0 DEF Spill, ToFile, fixed, XInv, TypeOK
<1>3. RunInv' /\ CallInv' /\ FinishedIsSaved'
  BY <1>0 DEF Spill, fixed, XInv, TypeOK, RunInv, CallInv, FinishedIsSaved
<1>4. ReloadInv'
  BY <1>0, <1>1 DEF Spill, fixed, XInv, TypeOK, ReloadInv, LookupEnabled
<1>5. WriteInv'
  BY <1>0, <1>1 DEF Spill, fixed, XInv, TypeOK, WriteInv, WriteEnabled
<1> QED BY <1>2, <1>3, <1>4, <1>5 DEF XInv

-----------------------------------------------------------------------------
LEMMA XInvNext == XInv /\ [Next]_vars => XInv'
<1> SUFFICES ASSUME XInv, [Next]_vars PROVE XInv'
  OBVIOUS
<1>1. CASE Start \/ Crash \/ Finish
  BY <1>1, StartXInv, EndXInv
<1>2. CASE \E w \in Workers : Work(w) \/ Spill(w)
  BY <1>2, ReloadXInv, BarrierXInv, LookupHitXInv, LookupMissXInv, ExecuteXInv, WriteXInv,
     ReturnXInv, SpillXInv DEF Work
<1>3. CASE UNCHANGED vars
  BY <1>3 DEF vars, XInv, TypeOK, RunInv, CallInv, ReloadInv, WriteInv, FinishedIsSaved,
     LookupEnabled, WriteEnabled, Saved
<1> QED BY <1>1, <1>2, <1>3 DEF Next, Ended

LEMMA XInvAlways == Spec => []XInv
  BY XInvInit, XInvNext, PTL DEF Spec

-----------------------------------------------------------------------------
(* The theorems. *)

\* Type correctness: the settings come to a known mode, files and buffers hold
\* calls of the program.
THEOREM CheckpointTypeCorrect == Spec => []TypeOK
<1>1. XInv => TypeOK BY DEF XInv
<1> QED BY <1>1, XInvAlways, PTL

\* A run that reloads never executes a call that an earlier run has saved,
\* whatever crashed when: xpt_init2 splits the files over all workers and lets
\* none of them go on before all have finished.
THEOREM SavedIsNotRepeated == Spec => []SavedNotRepeated
<1>1. XInv => SavedNotRepeated BY DEF XInv, ReloadInv, SavedNotRepeated
<1> QED BY <1>1, XInvAlways, PTL

\* A run that ends by itself has saved all it executed, whatever the policy.
THEOREM FinishedRunsAreSaved == Spec => []FinishedIsSaved
<1>1. XInv => FinishedIsSaved BY DEF XInv
<1> QED BY <1>1, XInvAlways, PTL

=============================================================================
