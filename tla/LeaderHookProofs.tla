---------------------------- MODULE LeaderHookProofs ----------------------------
(***************************************************************************)
(* Proofs about LeaderHook, for every number of leaders, size of the file  *)
(* and of the chunks it is copied by.                                      *)
(***************************************************************************)
EXTENDS LeaderHook, FiniteSetTheorems, TLAPS

-----------------------------------------------------------------------------
(* The inductive invariant: the calls there are to make, in their order,   *)
(* follow from the size the root has broadcast, and where a leader is says *)
(* how many of them it has made.                                           *)

\* The size that was broadcast, what is copied after k chunks, the next chunk.
Whole == IF Len(sent) >= 3 THEN sent[3] ELSE 0
After(k) == IF k * ChunkMax < Whole THEN k * ChunkMax ELSE Whole
Piece(t) == IF Whole - t < ChunkMax THEN Whole - t ELSE ChunkMax

\* The i-th call.
Call(i) ==
  IF i = 1 THEN <<"bcast int", 1>>
  ELSE IF i = 2 THEN <<"bcast char", VarLen + 1>>
  ELSE IF i = 3 THEN <<"bcast byte", 8>>
  ELSE IF i = 4 THEN <<"file open", 0>>
  ELSE IF After(i - 5) < Whole THEN <<"file read", Piece(After(i - 5))>>
  ELSE <<"file close", 0>>

Pos(r) == Len(calls[r])

Points == {"start", "bcast", "length", "string", "stat", "size", "open", "copy", "read", "close",
           "loop", "caught", "died"}

Ops == Broadcast \cup {"file open", "file read", "file close"}

LTypes ==
  /\ env \in [runs : SUBSET Leaders, shared : BOOLEAN, sync : BOOLEAN] /\ file \in Nat
  /\ pc \in [Leaders -> Points] /\ calls \in [Leaders -> Seq(Ops \X Nat)]
  /\ sent \in Seq(Nat \cup {"hello"})
  /\ bytes \in [Leaders -> Nat] /\ size \in [Leaders -> Nat] /\ total \in [Leaders -> Nat]
  /\ var \in [Leaders -> {"hello", None}] /\ lost \subseteq Leaders
  /\ dest \in [Leaders -> SUBSET Nat] /\ kept \in [Leaders -> SUBSET Nat]

\* Where r is, as a number of calls.
AtPos(r) ==
  /\ pc[r] \notin {"start", "loop"} => r \in env.runs
  /\ pc[r] \in {"start", "bcast"} => Pos(r) = 0
  /\ pc[r] = "loop" /\ r \notin env.runs => Pos(r) = 0
  /\ pc[r] = "length" => Pos(r) = 1
  /\ pc[r] \in {"string", "stat"} => Pos(r) = 2
  /\ pc[r] = "size" => Pos(r) = 3
  /\ pc[r] = "open" => Pos(r) = 4
  /\ pc[r] = "caught" => Pos(r) \in {2, 4}
  /\ pc[r] = "copy" => Pos(r) >= 4 /\ total[r] = After(Pos(r) - 4)
  /\ pc[r] \in {"read", "died"} => Pos(r) >= 5 /\ total[r] = After(Pos(r) - 5) /\ total[r] < Whole
  /\ pc[r] = "close" \/ (pc[r] = "loop" /\ r \in env.runs) =>
       Pos(r) >= 5 /\ total[r] = After(Pos(r) - 5) /\ total[r] = Whole
  /\ pc[r] \in Points \ {"copy", "read", "died", "close", "loop"} => total[r] = 0 /\ kept[r] = {}

PosInv == \A r \in Leaders : AtPos(r)

\* What the root has sent, and who has it.
Has(r) ==
  /\ Pos(r) >= 2 => bytes[r] = VarLen + 1
  /\ Pos(r) >= 4 => Len(sent) = 3
  /\ pc[r] \in {"open", "copy", "read", "close", "died"} => size[r] = Whole
  /\ r \in env.runs /\ pc[r] \notin {"start", "bcast", "length", "string"} => var[r] = "hello"

Told ==
  /\ Len(sent) >= 1 => sent[1] = VarLen + 1 /\ bytes[Root] = VarLen + 1
  /\ Len(sent) >= 2 => sent[2] = "hello"
  /\ Len(sent) >= 3 => sent[3] \in Nat /\ size[Root] = sent[3]

SentInv ==
  /\ Len(sent) = IF Pos(Root) < 3 THEN Pos(Root) ELSE 3
  /\ Told /\ var[Root] = "hello" /\ \A r \in Leaders : Has(r)

CallsInv == \A r \in Leaders : \A i \in 1 .. Pos(r) : calls[r][i] = Call(i)

\* Nothing but cells of the file is kept or written.
CellsInv ==
  /\ \A r \in Leaders : kept[r] \subseteq 1 .. total[r] /\ total[r] <= Whole
  /\ \A d \in Leaders : dest[d] \subseteq 1 .. Whole

\* Where calls on files wait for everybody, nobody writes before all have made
\* their output files.
BarrierInv ==
  env.sync =>
    \A r \in Leaders : total[r] > 0 \/ (pc[r] = "loop" /\ r \in env.runs) => \A q \in Leaders : Pos(q) >= 5

\* What has been copied is in the file or kept.
CopiedInv ==
  (env.shared => env.sync) =>
    \A r \in Leaders :
      /\ pc[r] \in {"copy", "read", "close", "died"} => 1 .. total[r] \subseteq dest[Dest(r)] \cup kept[r]
      /\ pc[r] = "loop" /\ r \in env.runs /\ r \notin lost => 1 .. Whole \subseteq dest[Dest(r)]

LInv == LTypes /\ PosInv /\ SentInv /\ CallsInv /\ CellsInv /\ BarrierInv /\ CopiedInv

-----------------------------------------------------------------------------

(* Facts about the constants, the calls and the copy. *)

LEMMA Constants ==
  /\ N \in Nat /\ N > 0 /\ ChunkMax \in Nat /\ ChunkMax > 0 /\ VarLen \in Nat /\ MaxSize \in Nat
  /\ Root \in Leaders /\ Root = 0
BY LeaderAssumption DEF Leaders, Root

LEMMA Multiples ==
  ASSUME NEW k \in Nat
  PROVE  k * ChunkMax \in Nat /\ (k + 1) * ChunkMax = k * ChunkMax + ChunkMax /\ 0 * ChunkMax = 0
BY Constants

LEMMA WholeType == ASSUME LInv PROVE Whole \in Nat
BY DEF LInv, SentInv, Told, Has, Whole

\* The copy goes on by one piece at a time until it is whole.
LEMMA AfterStep ==
  ASSUME LInv, NEW k \in Nat
  PROVE  /\ After(0) = 0 /\ After(k) \in Nat /\ After(k) <= Whole
         /\ After(k) < Whole =>
              /\ Piece(After(k)) \in Nat /\ Piece(After(k)) > 0
              /\ After(k + 1) = After(k) + Piece(After(k))
<1> DEFINE m == k * ChunkMax
<1>1. m \in Nat /\ (k + 1) * ChunkMax = m + ChunkMax /\ 0 * ChunkMax = 0
  BY Multiples
<1>2. Whole \in Nat /\ ChunkMax \in Nat /\ ChunkMax > 0
  BY WholeType, Constants
<1>3. After(0) = 0
  BY <1>1, <1>2 DEF After
<1>4. After(k) = IF m < Whole THEN m ELSE Whole
  BY DEF After
<1>5. After(k + 1) = IF m + ChunkMax < Whole THEN m + ChunkMax ELSE Whole
  BY <1>1 DEF After
<1> HIDE DEF m
<1>6. After(k) \in Nat /\ After(k) <= Whole
  BY <1>1, <1>2, <1>4
<1>7. ASSUME After(k) < Whole
      PROVE  /\ Piece(After(k)) \in Nat /\ Piece(After(k)) > 0
             /\ After(k + 1) = After(k) + Piece(After(k))
  <2>1. After(k) = m /\ m < Whole
    BY <1>1, <1>2, <1>4, <1>7
  <2>2. Piece(m) = IF Whole - m < ChunkMax THEN Whole - m ELSE ChunkMax
    BY DEF Piece
  <2> QED BY <1>1, <1>2, <1>5, <2>1, <2>2
<1> QED BY <1>3, <1>6, <1>7

\* A leader with up to three calls behind it has made broadcasts only.
LEMMA BroadcastCount ==
  ASSUME LInv, NEW r \in Leaders, Pos(r) \in 1 .. 3
  PROVE  Broadcasts(r) = Pos(r)
<1>1. \A i \in 1 .. Pos(r) : calls[r][i][1] \in Broadcast
  <2>1. \A i \in 1 .. Pos(r) : calls[r][i] = Call(i) /\ i \in 1 .. 3
    BY DEF LInv, CallsInv
  <2>2. \A i \in 1 .. 3 : Call(i)[1] \in Broadcast
    <3>1. Call(1)[1] = "bcast int" /\ Call(2)[1] = "bcast char" /\ Call(3)[1] = "bcast byte"
      BY DEF Call
    <3>2. \A i \in 1 .. 3 : i = 1 \/ i = 2 \/ i = 3
      OBVIOUS
    <3> QED BY <3>1, <3>2 DEF Broadcast
  <2> QED BY <2>1, <2>2
<1>2. {i \in 1 .. Len(calls[r]) : calls[r][i][1] \in Broadcast} = 1 .. Pos(r)
  BY <1>1 DEF Pos
<1>3. Cardinality(1 .. Pos(r)) = Pos(r)
  BY FS_Interval
<1> QED BY <1>2, <1>3 DEF Broadcasts

\* What entering a call does to the calls.
LEMMA Entered ==
  ASSUME LInv, NEW r \in Leaders, NEW op \in Ops, NEW n \in Nat, Enter(r, op, n)
  PROVE  /\ calls' \in [Leaders -> Seq(Ops \X Nat)] /\ Pos(r) \in Nat
         /\ Pos(r)' = Pos(r) + 1 /\ calls'[r][Pos(r) + 1] = <<op, n>>
         /\ \A i \in 1 .. Pos(r) : calls'[r][i] = calls[r][i]
         /\ \A q \in Leaders : q # r => calls'[q] = calls[q] /\ Pos(q)' = Pos(q)
<1>1. calls \in [Leaders -> Seq(Ops \X Nat)] /\ calls[r] \in Seq(Ops \X Nat)
  BY DEF LInv, LTypes
<1>2. calls' = [calls EXCEPT ![r] = Append(calls[r], <<op, n>>)]
  BY DEF Enter
<1>3. calls'[r] = Append(calls[r], <<op, n>>) /\ \A q \in Leaders : q # r => calls'[q] = calls[q]
  BY <1>1, <1>2
<1>4. Append(calls[r], <<op, n>>) \in Seq(Ops \X Nat)
  <2>1. <<op, n>> \in Ops \X Nat
    OBVIOUS
  <2> QED BY <1>1, <2>1
<1> QED BY <1>1, <1>2, <1>3, <1>4 DEF Pos

LEMMA PosType == ASSUME LInv PROVE \A r \in Leaders : Pos(r) \in Nat
BY DEF LInv, LTypes, Pos

\* As long as nothing is sent, the calls there are to make are the same.
LEMMA SameCalls ==
  ASSUME UNCHANGED sent
  PROVE  /\ Whole' = Whole /\ \A k : After(k)' = After(k) /\ Call(k)' = Call(k)
BY DEF Whole, After, Call, Piece

-----------------------------------------------------------------------------
LEMMA LInvInit == Init => LInv
<1> SUFFICES ASSUME Init PROVE LInv
  OBVIOUS
<1>1. \A r \in Leaders : /\ pc[r] = "start" /\ calls[r] = << >> /\ total[r] = 0 /\ kept[r] = {} /\ dest[r] = {}
                         /\ Pos(r) = 0
  BY DEF Init, Pos
<1>2. sent = << >> /\ Len(sent) = 0 /\ Whole = 0
  BY DEF Init, Whole
<1>3. LTypes
  BY Constants DEF Init, LTypes, Points
<1>4. PosInv
  BY <1>1 DEF PosInv, AtPos
<1>5. SentInv
  BY <1>1, <1>2, Constants DEF Init, SentInv, Told, Has
<1>6. CallsInv
  BY <1>1 DEF CallsInv
<1>7. CellsInv /\ BarrierInv /\ CopiedInv
  BY <1>1, <1>2 DEF CellsInv, BarrierInv, CopiedInv
<1> QED BY <1>3, <1>4, <1>5, <1>6, <1>7 DEF LInv

-----------------------------------------------------------------------------
(* Steps that enter no call and copy nothing. *)

Moves(r, from, to) ==
  /\ pc[r] = from /\ pc' = [pc EXCEPT ![r] = to] /\ UNCHANGED <<env, file, copying, calls, sent, bytes, size>>
  /\ \/ from = "start" /\ to = (IF r \in env.runs THEN "bcast" ELSE "loop") /\ UNCHANGED var
     \/ from \in {"stat", "open"} /\ to = "caught" /\ UNCHANGED var
     \/ from = "read" /\ to = "died" /\ UNCHANGED var
     \/ from = "string" /\ to = "stat" /\ var' = [var EXCEPT ![r] = "hello"]

LEMMA MovesLInv ==
  ASSUME LInv, NEW r \in Leaders, NEW from, NEW to, Moves(r, from, to)
  PROVE  LInv'
<1> USE DEF LInv
<1>1. UNCHANGED <<env, file, dest, total, kept, lost, calls, sent, bytes, size>>
  BY DEF Moves, copying
<1>2. Whole' = Whole /\ (\A k : After(k)' = After(k) /\ Call(k)' = Call(k)) /\ \A q : Pos(q)' = Pos(q)
  BY <1>1, SameCalls DEF Pos
<1>3. pc[r] = from /\ \A q \in Leaders : pc'[q] = IF q = r THEN to ELSE pc[q]
  BY DEF Moves, LTypes
<1>4. \A q \in Leaders : var'[q] = var[q] \/ (var'[q] = "hello" /\ q = r)
  BY DEF Moves, LTypes
<1>5. from = "string" => var'[r] = "hello"
  BY DEF Moves, LTypes
<1>6. LTypes'
  <2>1. to \in Points
    BY DEF Moves, Points
  <2>2. var' \in [Leaders -> {"hello", None}]
    BY DEF Moves, LTypes
  <2>3. pc' \in [Leaders -> Points]
    BY <2>1 DEF Moves, LTypes
  <2> QED BY <1>1, <2>2, <2>3 DEF LTypes
<1>7. ASSUME NEW q \in Leaders PROVE pc'[q] = pc[q] \/ (q = r /\ pc[q] = from /\ pc'[q] = to)
  BY <1>3
<1>8. PosInv'
  <2>1. ASSUME NEW q \in Leaders, q # r PROVE pc'[q] = pc[q]
    BY <1>3, <2>1
  <2>2. pc'[r] = to /\ pc[r] = from
    BY <1>3
  <2>3. /\ from = "start" /\ r \in env.runs => to = "bcast"
        /\ from = "start" /\ r \notin env.runs => to = "loop"
        /\ from \in {"stat", "open"} => to = "caught"
        /\ from = "read" => to = "died"
        /\ from = "string" => to = "stat"
        /\ from \in {"start", "stat", "open", "read", "string"}
    BY DEF Moves
  <2> QED BY <1>1, <1>2, <2>1, <2>2, <2>3 DEF PosInv, AtPos, Points
<1>9. SentInv'
  <2>1. var'[Root] = "hello"
    BY <1>4, Constants DEF SentInv, Told, Has
  <2>2. \A q \in Leaders : pc'[q] \in {"open", "copy", "read", "close", "died"} =>
          pc[q] \in {"open", "copy", "read", "close", "died"}
    BY <1>3 DEF Moves
  <2>3. \A q \in Leaders :
          q \in env.runs /\ pc'[q] \notin {"start", "bcast", "length", "string"} =>
            \/ pc[q] \notin {"start", "bcast", "length", "string"}
            \/ var'[q] = "hello"
    BY <1>3, <1>5 DEF Moves
  <2>4. \A q \in Leaders : q \in env.runs /\ pc'[q] \notin {"start", "bcast", "length", "string"} => var'[q] = "hello"
    BY <1>4, <2>3 DEF SentInv, Told, Has
  <2> QED BY <1>1, <1>2, <2>1, <2>2, <2>4 DEF SentInv, Told, Has
<1>10. CallsInv' /\ CellsInv'
  BY <1>1, <1>2 DEF CallsInv, CellsInv
<1>11. \A q \in Leaders : pc'[q] = "loop" /\ q \in env.runs => pc[q] = "loop"
  BY <1>3 DEF Moves
<1>12. BarrierInv'
  BY <1>1, <1>2, <1>11 DEF BarrierInv
<1>13. CopiedInv'
  <2>1. \A q \in Leaders : pc'[q] \in {"copy", "read", "close", "died"} => pc[q] \in {"copy", "read", "close", "died"}
    BY <1>3 DEF Moves
  <2> QED BY <1>1, <1>2, <1>11, <2>1 DEF CopiedInv, Dest
<1> QED BY <1>6, <1>8, <1>9, <1>10, <1>12, <1>13

\* The file changes, or the job is aborted.
LEMMA OutsideLInv ==
  ASSUME LInv, UNCHANGED <<env, copying, pc, calls, sent, bytes, var, size>>, file' \in Nat
  PROVE  LInv'
<1>1. UNCHANGED <<env, dest, total, kept, lost, pc, calls, sent, bytes, var, size>>
  BY DEF copying
<1>2. Whole' = Whole /\ (\A k : After(k)' = After(k) /\ Call(k)' = Call(k)) /\ \A q : Pos(q)' = Pos(q)
  BY <1>1, SameCalls DEF Pos
<1>3. LTypes'
  BY <1>1 DEF LInv, LTypes, Ops, Broadcast
<1>5. PosInv' /\ SentInv'
  BY <1>1, <1>2 DEF LInv, PosInv, AtPos, SentInv, Told, Has
<1>4. CallsInv' /\ CellsInv' /\ BarrierInv' /\ CopiedInv'
  BY <1>1, <1>2 DEF LInv, CallsInv, CellsInv, BarrierInv, CopiedInv, Dest
<1> QED BY <1>3, <1>4, <1>5 DEF LInv

-----------------------------------------------------------------------------
(* Steps that enter a call. *)

\* Until the size has been broadcast nobody is beyond that broadcast.
LEMMA BeforeSize ==
  ASSUME LInv, Len(sent) # 3
  PROVE  /\ Whole = 0
         /\ \A q \in Leaders :
              /\ Pos(q) < 4 /\ total[q] = 0 /\ kept[q] = {} /\ dest[q] = {}
              /\ pc[q] \notin {"open", "copy", "read", "close", "died"}
              /\ ~ (pc[q] = "loop" /\ q \in env.runs)
<1> USE DEF LInv
<1>1. Len(sent) \in Nat /\ Len(sent) < 3
  BY PosType, Constants DEF SentInv, Told, Has
<1>2. Whole = 0
  BY <1>1 DEF Whole
<1>3. \A q \in Leaders : Pos(q) < 4 /\ Pos(q) \in Nat
  BY PosType DEF SentInv, Told, Has
<1>4. \A q \in Leaders : total[q] = 0
  BY <1>2 DEF CellsInv, LTypes
<1>5. \A q \in Leaders : kept[q] = {} /\ dest[q] = {}
  BY <1>2, <1>4 DEF CellsInv
<1>6. ASSUME NEW q \in Leaders
      PROVE  pc[q] \notin {"open", "copy", "read", "close", "died"} /\ ~ (pc[q] = "loop" /\ q \in env.runs)
  BY <1>3 DEF PosInv, AtPos
<1> QED BY <1>2, <1>3, <1>4, <1>5, <1>6

\* Where a leader enters a call, and what the root sends with it.
Hop(from, to) ==
  \/ from = "bcast" /\ to = "length"
  \/ from = "length" /\ to = "string"
  \/ from = "stat" /\ to = "size"
  \/ from = "size" /\ to = "open"
  \/ from = "copy" /\ to \in {"read", "close"}

Sends(r) ==
  \/ UNCHANGED sent /\ (r # Root \/ Pos(r) >= 3)
  \/ r = Root /\ Len(sent) \in 0 .. 2 /\ Len(sent') = Len(sent) + 1 /\ Whole' \in Nat

\* The p-th call of r.
Enters(r, from, to, p, op, n) ==
  /\ pc[r] = from /\ pc' = [pc EXCEPT ![r] = to] /\ Enter(r, op, n) /\ op \in Ops /\ n \in Nat
  /\ UNCHANGED <<env, file, copying, var>>
  /\ Hop(from, to) /\ Sends(r)
  /\ (to = "read" => total[r] < Whole) /\ (to = "close" => total[r] = Whole)
  /\ sent' \in Seq(Nat \cup {"hello"}) /\ bytes' \in [Leaders -> Nat] /\ size' \in [Leaders -> Nat]
  /\ \A q \in Leaders : q # r => bytes'[q] = bytes[q] /\ size'[q] = size[q]
  /\ p = Pos(r) + 1 /\ Call(p)' = <<op, n>>

\* Such a step needs a look at where the leader is and what it has been sent;
\* the rest is as before.
LEMMA EntersRest ==
  ASSUME LInv, NEW r \in Leaders, NEW from, NEW to, NEW p, NEW op, NEW n, Enters(r, from, to, p, op, n)
  PROVE  LTypes' /\ CallsInv' /\ CellsInv' /\ BarrierInv' /\ CopiedInv'
<1> USE DEF LInv
<1>1. UNCHANGED <<env, file, dest, total, kept, lost, var>> /\ pc[r] = from /\ pc' = [pc EXCEPT ![r] = to]
  BY DEF Enters, copying
<1>15. calls' \in [Leaders -> Seq(Ops \X Nat)]
  BY Entered DEF Enters
<1>2. /\ Pos(r) \in Nat
      /\ p = Pos(r) + 1 /\ Pos(r)' = p /\ calls'[r][p] = Call(p)'
      /\ \A i \in 1 .. Pos(r) : calls'[r][i] = calls[r][i]
      /\ \A q \in Leaders : q # r => calls'[q] = calls[q] /\ Pos(q)' = Pos(q)
  BY Entered DEF Enters
<1>3. \A q \in Leaders : pc'[q] = IF q = r THEN to ELSE pc[q]
  BY <1>1 DEF LTypes
<1>4. LTypes'
  <2>1. to \in Points
    BY DEF Enters, Hop, Points
  <2>2. pc' \in [Leaders -> Points]
    BY <1>1, <2>1 DEF LTypes
  <2> QED BY <1>1, <1>15, <2>2 DEF LTypes, Enters, Ops, Broadcast
<1>5. \A q \in Leaders : \A i \in 1 .. Pos(q) : Call(i)' = Call(i)
  <2>1. CASE UNCHANGED sent
    BY <2>1, SameCalls
  <2>2. CASE r = Root /\ Len(sent) \in 0 .. 2
    <3>0. Len(sent) # 3
      BY <2>2
    <3>1. \A q \in Leaders : Pos(q) \in Nat /\ Pos(q) < 4
      BY <3>0, BeforeSize, PosType
    <3>2. Call(1)' = Call(1) /\ Call(2)' = Call(2) /\ Call(3)' = Call(3)
      BY DEF Call
    <3> QED BY <3>1, <3>2
  <2> QED BY <2>1, <2>2 DEF Enters, Sends
<1>6. CallsInv'
  <2>1. ASSUME NEW q \in Leaders, NEW i \in 1 .. Pos(q)' PROVE calls'[q][i] = Call(i)'
    <3>1. CASE q # r
      BY <1>2, <1>5, <2>1, <3>1 DEF CallsInv
    <3>2. CASE q = r /\ i = p
      BY <1>2, <3>2
    <3>3. CASE q = r /\ i # p
      <4>1. i \in 1 .. Pos(r)
        BY <1>2, <2>1, <3>3
      <4> QED BY <1>2, <1>5, <3>3, <4>1 DEF CallsInv
    <3> QED BY <3>1, <3>2, <3>3
  <2> QED BY <2>1 DEF CallsInv
<1>7. \A q \in Leaders : Pos(q)' >= Pos(q) /\ Pos(q) \in Nat /\ Pos(q)' \in Nat
  BY <1>2, PosType
<1>8. to # "loop" /\ (to = "close" => from = "copy") /\ (to = "read" => from = "copy") /\ to \notin {"copy", "died"}
  BY DEF Enters, Hop
<1>9. \A q \in Leaders : pc'[q] = "loop" => pc[q] = "loop"
  BY <1>3, <1>8
<1>10. BarrierInv'
  <2>1. ASSUME env.sync, NEW q \in Leaders, total[q] > 0 \/ (pc[q] = "loop" /\ q \in env.runs), NEW u \in Leaders
        PROVE  Pos(u)' >= 5
    <3>1. Pos(u) >= 5
      BY <2>1 DEF BarrierInv
    <3> QED BY <1>7, <3>1
  <2> QED BY <1>1, <1>9, <2>1 DEF BarrierInv
<1>11. \A q \in Leaders : pc'[q] \in {"copy", "read", "close", "died"} => pc[q] \in {"copy", "read", "close", "died"}
  BY <1>1, <1>3, <1>8
<1>12. CASE UNCHANGED sent
  <2>1. Whole' = Whole
    BY <1>12, SameCalls
  <2> QED BY <1>1, <1>4, <1>6, <1>9, <1>10, <1>11, <2>1 DEF CellsInv, CopiedInv, Dest
<1>13. CASE Len(sent) # 3 /\ Whole' \in Nat
  <2>1. \A q \in Leaders : /\ total[q] = 0 /\ kept[q] = {} /\ dest[q] = {}
                           /\ pc[q] \notin {"open", "copy", "read", "close", "died"}
                           /\ ~ (pc[q] = "loop" /\ q \in env.runs)
    BY <1>13, BeforeSize
  <2>2. CellsInv'
    BY <1>1, <1>13, <2>1 DEF CellsInv
  <2>3. CopiedInv'
    BY <1>1, <1>9, <1>11, <2>1 DEF CopiedInv
  <2> QED BY <1>4, <1>6, <1>10, <2>2, <2>3
<1>14. Len(sent) \in 0 .. 2 => Len(sent) # 3
  OBVIOUS
<1> QED BY <1>12, <1>13, <1>14 DEF Enters, Sends

LEMMA EntersLInv ==
  ASSUME LInv, NEW r \in Leaders, NEW from, NEW to, NEW p, NEW op, NEW n, Enters(r, from, to, p, op, n)
  PROVE  Told' /\ Has(r)' => LInv'
<1> USE DEF LInv
<1>1. UNCHANGED <<env, file, dest, total, kept, lost, var>> /\ pc[r] = from /\ pc' = [pc EXCEPT ![r] = to]
  BY DEF Enters, copying
<1>2. /\ Pos(r) \in Nat /\ Pos(r)' = Pos(r) + 1
      /\ \A q \in Leaders : q # r => Pos(q)' = Pos(q)
  BY Entered DEF Enters
<1>3. \A q \in Leaders : pc'[q] = IF q = r THEN to ELSE pc[q]
  BY <1>1 DEF LTypes
<1>4. ASSUME NEW q \in Leaders, q # r PROVE AtPos(q)' /\ Has(q)'
  <2>1. pc'[q] = pc[q] /\ Pos(q)' = Pos(q) /\ total'[q] = total[q] /\ kept'[q] = kept[q] /\ env' = env
        /\ bytes'[q] = bytes[q] /\ size'[q] = size[q] /\ var'[q] = var[q]
    BY <1>1, <1>2, <1>3, <1>4 DEF Enters
  <2>2. AtPos(q) /\ Has(q)
    BY DEF PosInv, SentInv
  <2>3. CASE UNCHANGED sent
    <3>1. Whole' = Whole /\ \A k : After(k)' = After(k)
      BY <2>3, SameCalls
    <3> QED BY <2>1, <2>2, <2>3, <3>1 DEF AtPos, Has
  <2>4. CASE Len(sent) \in 0 .. 2
    <3>1. Len(sent) # 3
      BY <2>4
    <3>2. /\ Pos(q) < 4 /\ Pos(q) \in Nat /\ pc[q] \notin {"open", "copy", "read", "close", "died"}
          /\ ~ (pc[q] = "loop" /\ q \in env.runs)
      BY <3>1, BeforeSize, PosType
    <3> QED BY <2>1, <2>2, <3>2 DEF AtPos, Has
  <2> QED BY <2>3, <2>4 DEF Enters, Sends
<1>5. AtPos(r)'
  <2>1. pc'[r] = to /\ AtPos(r) /\ r \in env.runs /\ total'[r] = total[r] /\ kept'[r] = kept[r] /\ env' = env
    BY <1>1, <1>3 DEF PosInv, AtPos, Enters, Hop
  <2>2. CASE from = "bcast" /\ to = "length"
    BY <1>1, <1>2, <2>1, <2>2 DEF AtPos, Points
  <2>3. CASE from = "length" /\ to = "string"
    BY <1>1, <1>2, <2>1, <2>3 DEF AtPos, Points
  <2>4. CASE from = "stat" /\ to = "size"
    BY <1>1, <1>2, <2>1, <2>4 DEF AtPos, Points
  <2>5. CASE from = "size" /\ to = "open"
    BY <1>1, <1>2, <2>1, <2>5 DEF AtPos, Points
  <2>6. CASE from = "copy" /\ to \in {"read", "close"}
    <3>1. Pos(r) >= 4 /\ total[r] = After(Pos(r) - 4) /\ Len(sent) = 3
      BY <1>1, <1>2, <2>1, <2>6 DEF AtPos, SentInv, Has
    <3>2. UNCHANGED sent
      BY <3>1 DEF Enters, Sends
    <3>3. Whole' = Whole /\ \A k : After(k)' = After(k)
      BY <3>2, SameCalls
    <3>4. Pos(r)' >= 5 /\ Pos(r)' - 5 = Pos(r) - 4
      BY <1>2, <3>1
    <3>5. total'[r] = After(Pos(r)' - 5) /\ (to = "read" => total'[r] < Whole) /\ (to = "close" => total'[r] = Whole)
      BY <2>1, <3>1, <3>4 DEF Enters
    <3>6. After(Pos(r) - 5)' = After(Pos(r)' - 5)
      BY <3>3 DEF After
    <3> QED BY <2>1, <2>6, <3>3, <3>4, <3>5, <3>6 DEF AtPos
  <2> QED BY <2>2, <2>3, <2>4, <2>5, <2>6 DEF Enters, Hop
<1>6. PosInv'
  BY <1>4, <1>5 DEF PosInv
<1>7. Len(sent)' = IF Pos(Root)' < 3 THEN Pos(Root)' ELSE 3
  <2>1. Len(sent) = (IF Pos(Root) < 3 THEN Pos(Root) ELSE 3) /\ Pos(Root) \in Nat
    BY Constants, PosType DEF SentInv
  <2>2. CASE r # Root
    BY <1>2, <2>1, <2>2, Constants DEF Enters, Sends
  <2>3. CASE r = Root
    <3>1. Pos(Root)' = Pos(Root) + 1
      BY <1>2, <2>3
    <3>2. CASE UNCHANGED sent /\ Pos(Root) >= 3
      BY <2>1, <3>1, <3>2
    <3>3. CASE Len(sent) \in 0 .. 2 /\ Len(sent') = Len(sent) + 1
      BY <2>1, <3>1, <3>3
    <3> QED BY <2>3, <3>2, <3>3 DEF Enters, Sends
  <2> QED BY <2>2, <2>3
<1>8. Told' /\ Has(r)' => SentInv'
  BY <1>1, <1>4, <1>7 DEF SentInv
<1> QED BY <1>6, <1>8, EntersRest

LEMMA Where == ASSUME LInv, NEW r \in Leaders PROVE AtPos(r) /\ Pos(r) \in Nat
BY PosType DEF LInv, PosInv

LEMMA Roots ==
  ASSUME LInv
  PROVE  /\ Pos(Root) \in Nat /\ VarLen + 1 \in Nat /\ Root \in Leaders
         /\ Len(sent) = (IF Pos(Root) < 3 THEN Pos(Root) ELSE 3) /\ var[Root] = "hello"
BY Constants, PosType DEF LInv, SentInv

LEMMA Appends ==
  ASSUME NEW S, NEW s \in Seq(S), NEW e \in S
  PROVE  /\ Append(s, e) \in Seq(S) /\ Len(Append(s, e)) = Len(s) + 1 /\ Append(s, e)[Len(s) + 1] = e
         /\ \A i \in 1 .. Len(s) : Append(s, e)[i] = s[i]
OBVIOUS

LEMMA ToldNow == ASSUME LInv PROVE Told
BY DEF LInv, SentInv

LEMMA BcastLengthLInv == ASSUME LInv, NEW r \in Leaders, BcastLength(r) PROVE LInv'
<1>1. pc[r] = "bcast" /\ Pos(r) = 0
  BY Where DEF BcastLength, Goto, AtPos
<1>2. Call(1)' = <<"bcast int", 1>>
  BY DEF Call
<1>3. CASE r = Root
  <2>0. Len(sent) = 0
    BY <1>1, <1>3, Roots
  <2>1. sent \in Seq(Nat \cup {"hello"}) /\ Len(sent) = 0 /\ sent' = Append(sent, VarLen + 1)
        /\ bytes' = [bytes EXCEPT ![r] = VarLen + 1] /\ size' = size
    BY <1>3, <2>0 DEF LInv, LTypes, BcastLength
  <2>2. sent' \in Seq(Nat \cup {"hello"}) /\ Len(sent') = 1 /\ sent'[1] = VarLen + 1
    BY <2>1, Roots
  <2>3. Whole' \in Nat
    BY <2>2 DEF Whole
  <2>4. /\ bytes' \in [Leaders -> Nat] /\ size' \in [Leaders -> Nat] /\ bytes'[r] = VarLen + 1
        /\ \A q \in Leaders : q # r => bytes'[q] = bytes[q] /\ size'[q] = size[q]
    BY <2>1, Roots DEF LInv, LTypes
  <2>5. Enters(r, "bcast", "length", 1, "bcast int", 1)
    <3>1. Sends(r)
      BY <1>3, <2>1, <2>2, <2>3 DEF Sends
    <3>2. 1 = Pos(r) + 1
      BY <1>1
    <3>3. pc' = [pc EXCEPT ![r] = "length"] /\ Enter(r, "bcast int", 1) /\ UNCHANGED <<env, file, copying, var>>
      BY DEF BcastLength, Goto
    <3>4. Hop("bcast", "length")
      BY DEF Hop
    <3> QED BY <1>1, <1>2, <2>2, <2>4, <3>1, <3>2, <3>3, <3>4 DEF Enters, Ops, Broadcast
  <2>6. Told'
    BY <1>3, <2>2, <2>4 DEF Told
  <2>7. Pos(r)' = 1 /\ pc'[r] = "length"
    BY <1>1, <2>5, Entered DEF Enters, LInv, LTypes
  <2>8. Has(r)'
    BY <2>7 DEF Has
  <2> QED BY <2>5, <2>6, <2>8, EntersLInv
<1>4. CASE r # Root
  <2>1. UNCHANGED <<sent, bytes, size>>
    BY <1>4 DEF BcastLength
  <2>2. Enters(r, "bcast", "length", 1, "bcast int", 1)
    <3>1. Sends(r)
      BY <1>4, <2>1 DEF Sends
    <3>2. sent \in Seq(Nat \cup {"hello"}) /\ bytes \in [Leaders -> Nat] /\ size \in [Leaders -> Nat]
      BY DEF LInv, LTypes
    <3>3. 1 = Pos(r) + 1
      BY <1>1
    <3>4. pc' = [pc EXCEPT ![r] = "length"] /\ Enter(r, "bcast int", 1) /\ UNCHANGED <<env, file, copying, var>>
      BY DEF BcastLength, Goto
    <3>5. Hop("bcast", "length")
      BY DEF Hop
    <3> QED BY <1>1, <1>2, <2>1, <3>1, <3>2, <3>3, <3>4, <3>5 DEF Enters, Ops, Broadcast
  <2>3. Told'
    BY <2>1, ToldNow DEF Told
  <2>4. Pos(r)' = 1 /\ pc'[r] = "length"
    BY <1>1, <2>2, Entered DEF Enters, LInv, LTypes
  <2>5. Has(r)'
    BY <2>4 DEF Has
  <2> QED BY <2>2, <2>3, <2>5, EntersLInv
<1> QED BY <1>3, <1>4

LEMMA EnteredAt ==
  ASSUME LInv, NEW r \in Leaders, NEW from, NEW to, NEW p, NEW op, NEW n, Enters(r, from, to, p, op, n)
  PROVE  Pos(r)' = p /\ pc'[r] = to
BY Entered DEF Enters, LInv, LTypes

\* What a leader receives by its p-th call, a broadcast, is what was sent.
LEMMA Receives ==
  ASSUME LInv, NEW r \in Leaders, Pos(r) \in 1 .. 3, BcastReturns(r)
  PROVE  r # Root => Pos(r) <= Len(sent) /\ Received(r) = sent[Pos(r)]
BY BroadcastCount DEF BcastReturns, Received

LEMMA BcastStringLInv == ASSUME LInv, NEW r \in Leaders, BcastString(r) PROVE LInv'
<1>0. pc[r] = "length"
  BY DEF BcastString, Goto
<1>1. Pos(r) = 1 /\ Pos(r) \in 1 .. 3
  BY <1>0, Where DEF AtPos
<1>2. Call(2)' = <<"bcast char", VarLen + 1>>
  BY DEF Call
<1>3. /\ sent \in Seq(Nat \cup {"hello"}) /\ bytes \in [Leaders -> Nat] /\ size \in [Leaders -> Nat]
      /\ Len(sent) \in Nat /\ VarLen + 1 \in Nat /\ Root \in Leaders
  <2>1. sent \in Seq(Nat \cup {"hello"}) /\ bytes \in [Leaders -> Nat] /\ size \in [Leaders -> Nat]
    BY DEF LInv, LTypes
  <2> QED BY <2>1, Roots
<1>4. (IF r = Root THEN bytes[r] ELSE Received(r)) = VarLen + 1 /\ Len(sent) >= 1 /\ sent[1] = VarLen + 1
      /\ bytes[Root] = VarLen + 1
  <2>1. CASE r = Root
    <3>1. Len(sent) = 1
      BY <1>1, <2>1, Roots
    <3> QED BY <2>1, <3>1, ToldNow DEF Told
  <2>2. CASE r # Root
    <3>1. Len(sent) >= 1 /\ Received(r) = sent[1]
      BY <1>1, <2>2, Receives DEF BcastString
    <3> QED BY <2>2, <3>1, ToldNow DEF Told
  <2> QED BY <2>1, <2>2
<1>5. /\ bytes' = [bytes EXCEPT ![r] = VarLen + 1] /\ Enter(r, "bcast char", VarLen + 1) /\ size' = size
      /\ pc' = [pc EXCEPT ![r] = "string"] /\ UNCHANGED <<env, file, copying, var>>
      /\ r = Root => sent' = Append(sent, var[r])
      /\ r # Root => sent' = sent
  <2>1. \E m : m = (IF r = Root THEN bytes[r] ELSE Received(r)) /\ bytes' = [bytes EXCEPT ![r] = m] /\ Enter(r, "bcast char", m)
    BY DEF BcastString
  <2>2. bytes' = [bytes EXCEPT ![r] = VarLen + 1] /\ Enter(r, "bcast char", VarLen + 1)
    BY <1>4, <2>1
  <2>3. sent' = (IF r = Root THEN Append(sent, var[r]) ELSE sent) /\ pc' = [pc EXCEPT ![r] = "string"]
        /\ UNCHANGED <<env, file, copying, var, size>>
    BY DEF BcastString, Goto
  <2> QED BY <2>2, <2>3
<1>6. /\ bytes' \in [Leaders -> Nat] /\ size' \in [Leaders -> Nat] /\ bytes'[r] = VarLen + 1 /\ bytes'[Root] = VarLen + 1
      /\ \A q \in Leaders : q # r => bytes'[q] = bytes[q] /\ size'[q] = size[q]
  BY <1>3, <1>4, <1>5
<1>7. Hop("length", "string") /\ 2 = Pos(r) + 1
  BY <1>1 DEF Hop
<1>8. CASE r = Root
  <2>1. Len(sent) = 1
    BY <1>1, <1>8, Roots
  <2>9. sent' = Append(sent, "hello")
    <3>1. sent' = Append(sent, var[r]) /\ var[r] = "hello"
      BY <1>5, <1>8, Roots
    <3> QED BY <3>1
  <2>2. sent' \in Seq(Nat \cup {"hello"}) /\ Len(sent') = 2 /\ sent'[1] = VarLen + 1 /\ sent'[2] = "hello"
    <3>1. sent \in Seq(Nat \cup {"hello"}) /\ "hello" \in Nat \cup {"hello"} /\ sent[1] = VarLen + 1
      BY <1>3, <1>4
    <3>2. /\ sent' \in Seq(Nat \cup {"hello"}) /\ Len(sent') = Len(sent) + 1 /\ sent'[Len(sent) + 1] = "hello"
          /\ \A i \in 1 .. Len(sent) : sent'[i] = sent[i]
      BY <2>9, <3>1, Appends
    <3>3. Len(sent) + 1 = 2 /\ 1 \in 1 .. Len(sent)
      BY <2>1
    <3> QED BY <3>1, <3>2, <3>3
  <2>3. Whole' \in Nat
    BY <2>2 DEF Whole
  <2>4. Sends(r)
    BY <1>8, <2>1, <2>2, <2>3 DEF Sends
  <2>5. Enters(r, "length", "string", 2, "bcast char", VarLen + 1)
    BY <1>0, <1>2, <1>3, <1>5, <1>6, <1>7, <2>2, <2>4 DEF Enters, Ops, Broadcast
  <2>6. Told'
    BY <1>6, <2>2 DEF Told
  <2>7. Pos(r)' = 2 /\ pc'[r] = "string"
    BY <2>5, EnteredAt
  <2>8. Has(r)'
    BY <1>6, <2>7 DEF Has
  <2> QED BY <2>5, <2>6, <2>8, EntersLInv
<1>9. CASE r # Root
  <2>1. UNCHANGED sent /\ Sends(r)
    BY <1>5, <1>9 DEF Sends
  <2>2. Enters(r, "length", "string", 2, "bcast char", VarLen + 1)
    BY <1>0, <1>2, <1>3, <1>5, <1>6, <1>7, <2>1 DEF Enters, Ops, Broadcast
  <2>3. Told'
    BY <1>5, <1>6, <2>1, ToldNow DEF Told
  <2>4. Pos(r)' = 2 /\ pc'[r] = "string"
    BY <2>2, EnteredAt
  <2>5. Has(r)'
    BY <1>6, <2>4 DEF Has
  <2> QED BY <2>2, <2>3, <2>5, EntersLInv
<1> QED BY <1>8, <1>9

\* What the leader r has been told so far.
LEMMA Knows ==
  ASSUME LInv, NEW r \in Leaders
  PROVE  /\ Pos(r) >= 2 => bytes[r] = VarLen + 1
         /\ Pos(r) >= 4 => Len(sent) = 3
         /\ pc[r] \in {"open", "copy", "read", "close", "died"} => size[r] = Whole
         /\ r \in env.runs /\ pc[r] \notin {"start", "bcast", "length", "string"} => var[r] = "hello"
BY DEF LInv, SentInv, Has

LEMMA SomeTypes ==
  ASSUME LInv
  PROVE  /\ sent \in Seq(Nat \cup {"hello"}) /\ Len(sent) \in Nat /\ file \in Nat
         /\ bytes \in [Leaders -> Nat] /\ size \in [Leaders -> Nat] /\ total \in [Leaders -> Nat]
BY DEF LInv, LTypes

LEMMA BcastSizeLInv ==
  ASSUME LInv, NEW r \in Leaders, BcastSize(r), ~ CopyFails(r, "stat")
  PROVE  LInv'
<1>0. pc[r] = "stat" /\ pc' = [pc EXCEPT ![r] = "size"] /\ UNCHANGED <<env, file, copying, bytes, var>>
  BY DEF BcastSize, Goto
<1>7. Enter(r, "bcast byte", 8)
  BY DEF BcastSize
<1>1. Pos(r) = 2 /\ r \in env.runs
  BY <1>0, Where DEF AtPos
<1>2. Call(3)' = <<"bcast byte", 8>>
  BY DEF Call
<1>3. bytes[r] = VarLen + 1 /\ var[r] = "hello"
  BY <1>0, <1>1, Knows
<1>4. Hop("stat", "size") /\ 3 = Pos(r) + 1
  BY <1>1 DEF Hop
<1>5. CASE r = Root
  <2>0. Len(sent) = 2
    BY <1>1, <1>5, Roots
  <2>1. sent' = Append(sent, file) /\ size' = [size EXCEPT ![r] = file]
    BY <1>5 DEF BcastSize
  <2>2. /\ sent' \in Seq(Nat \cup {"hello"}) /\ Len(sent') = Len(sent) + 1 /\ sent'[Len(sent) + 1] = file
        /\ \A i \in 1 .. Len(sent) : sent'[i] = sent[i]
    <3>1. file \in Nat \cup {"hello"}
      BY SomeTypes
    <3> QED BY <2>1, <3>1, SomeTypes, Appends
  <2>3. Len(sent') = 3 /\ sent'[3] = file /\ sent'[1] = sent[1] /\ sent'[2] = sent[2]
    BY <2>0, <2>2
  <2>4. Whole' \in Nat
    BY <2>3, SomeTypes DEF Whole
  <2>5. Sends(r)
    BY <1>5, <2>0, <2>2, <2>4 DEF Sends
  <2>6. /\ bytes' \in [Leaders -> Nat] /\ size' \in [Leaders -> Nat] /\ size'[Root] = file
        /\ \A q \in Leaders : q # r => bytes'[q] = bytes[q] /\ size'[q] = size[q]
    BY <1>0, <1>5, <2>1, SomeTypes
  <2>7. Enters(r, "stat", "size", 3, "bcast byte", 8)
    BY <1>0, <1>2, <1>4, <1>7, <2>2, <2>5, <2>6 DEF Enters, Ops, Broadcast
  <2>8. Told'
    BY <1>0, <2>0, <2>3, <2>6, ToldNow, SomeTypes DEF Told
  <2>9. Pos(r)' = 3 /\ pc'[r] = "size"
    BY <2>7, EnteredAt
  <2>10. Has(r)'
    BY <1>0, <1>3, <2>9 DEF Has
  <2> QED BY <2>7, <2>8, <2>10, EntersLInv
<1>6. CASE r # Root
  <2>1. UNCHANGED <<sent, bytes, size>>
    BY <1>6 DEF BcastSize, CopyFails
  <2>2. Sends(r)
    BY <1>6, <2>1 DEF Sends
  <2>3. Enters(r, "stat", "size", 3, "bcast byte", 8)
    BY <1>0, <1>2, <1>4, <1>7, <2>1, <2>2, SomeTypes DEF Enters, Ops, Broadcast
  <2>4. Told'
    BY <2>1, ToldNow DEF Told
  <2>5. Pos(r)' = 3 /\ pc'[r] = "size"
    BY <2>3, EnteredAt
  <2>6. Has(r)'
    BY <1>0, <1>3, <2>5 DEF Has
  <2> QED BY <2>3, <2>4, <2>6, EntersLInv
<1> QED BY <1>5, <1>6

LEMMA FileOpenLInv == ASSUME LInv, NEW r \in Leaders, FileOpen(r) PROVE LInv'
<1>0. pc[r] = "size" /\ pc' = [pc EXCEPT ![r] = "open"] /\ UNCHANGED <<env, file, copying, sent, bytes, var>>
  BY DEF FileOpen, Goto
<1>13. Enter(r, "file open", 0) /\ size' = [size EXCEPT ![r] = SizeReceived(r)]
  BY DEF FileOpen
<1>1. Pos(r) = 3 /\ Pos(r) \in 1 .. 3 /\ r \in env.runs
  BY <1>0, Where DEF AtPos
<1>2. Call(4)' = <<"file open", 0>>
  BY DEF Call
<1>3. bytes[r] = VarLen + 1 /\ var[r] = "hello"
  BY <1>0, <1>1, Knows
<1>4. Hop("size", "open") /\ 4 = Pos(r) + 1
  BY <1>1 DEF Hop
<1>5. Len(sent) = 3 /\ SizeReceived(r) = sent[3]
  <2>1. Len(sent) <= 3 /\ Len(sent) \in Nat
    <3>1. Pos(Root) \in Nat /\ Len(sent) = IF Pos(Root) < 3 THEN Pos(Root) ELSE 3
      BY Roots
    <3> QED BY <3>1
  <2>2. CASE r = Root
    <3>1. Len(sent) = 3
      BY <1>1, <2>2, Roots
    <3>2. size[Root] = sent[3]
      BY <3>1, ToldNow DEF Told
    <3> QED BY <2>2, <3>1, <3>2 DEF SizeReceived
  <2>3. CASE r # Root
    <3>1. 3 <= Len(sent) /\ Received(r) = sent[3]
      BY <1>1, <2>3, Receives DEF FileOpen
    <3>2. Len(sent) = 3
      BY <2>1, <3>1
    <3> QED BY <2>3, <3>1, <3>2 DEF SizeReceived
  <2> QED BY <2>2, <2>3
<1>6. Whole = sent[3] /\ Whole \in Nat /\ Whole' = Whole
  BY <1>0, <1>5, WholeType DEF Whole
<1>7. /\ bytes' \in [Leaders -> Nat] /\ size' \in [Leaders -> Nat] /\ size'[r] = Whole
      /\ \A q \in Leaders : q # r => bytes'[q] = bytes[q] /\ size'[q] = size[q]
  <2>1. size' = [size EXCEPT ![r] = Whole]
    BY <1>5, <1>6, <1>13
  <2> QED BY <1>0, <1>6, <2>1, SomeTypes
<1>8. Sends(r)
  BY <1>0, <1>1 DEF Sends
<1>9. Enters(r, "size", "open", 4, "file open", 0)
  BY <1>0, <1>2, <1>4, <1>13, <1>7, <1>8, SomeTypes DEF Enters, Ops, Broadcast
<1>10. Told'
  <2>1. size'[Root] = sent[3] /\ Root \in Leaders
    <3>1. size[Root] = sent[3]
      BY <1>5, ToldNow DEF Told
    <3> QED BY <1>6, <1>7, <3>1, Roots
  <2> QED BY <1>0, <2>1, ToldNow DEF Told
<1>11. Pos(r)' = 4 /\ pc'[r] = "open"
  BY <1>9, EnteredAt
<1>12. Has(r)'
  BY <1>0, <1>3, <1>5, <1>6, <1>7, <1>11 DEF Has
<1> QED BY <1>9, <1>10, <1>12, EntersLInv

\* Where a leader is that copies: what it has copied, what is left, and the call to come.
LEMMA Copying ==
  ASSUME LInv, NEW r \in Leaders, pc[r] \in {"copy", "read"}
  PROVE  /\ Pos(r) \in Nat /\ Pos(r) >= 4 /\ r \in env.runs /\ Len(sent) = 3
         /\ size[r] = Whole /\ Whole \in Nat /\ total[r] \in Nat /\ total[r] <= Whole
         /\ Chunk(r) = Piece(total[r])
         /\ bytes[r] = VarLen + 1 /\ var[r] = "hello"
         /\ pc[r] = "copy" => total[r] = After(Pos(r) - 4)
         /\ pc[r] = "read" => Pos(r) >= 5 /\ total[r] = After(Pos(r) - 5) /\ total[r] < Whole
<1>1. /\ Pos(r) \in Nat /\ Pos(r) >= 4 /\ r \in env.runs
      /\ pc[r] = "copy" => total[r] = After(Pos(r) - 4)
      /\ pc[r] = "read" => Pos(r) >= 5 /\ total[r] = After(Pos(r) - 5) /\ total[r] < Whole
  BY Where DEF AtPos
<1>2. Len(sent) = 3 /\ size[r] = Whole /\ bytes[r] = VarLen + 1 /\ var[r] = "hello"
  BY <1>1, Knows
<1>3. Whole \in Nat /\ total[r] \in Nat /\ total[r] <= Whole
  BY WholeType DEF LInv, LTypes, CellsInv
<1>4. Chunk(r) = Piece(total[r])
  BY <1>2 DEF Chunk, Piece
<1> QED BY <1>1, <1>2, <1>3, <1>4

LEMMA LaterCall ==
  ASSUME NEW p \in Nat, p >= 5
  PROVE  /\ After(p - 5) < Whole => Call(p) = <<"file read", Piece(After(p - 5))>>
         /\ ~ (After(p - 5) < Whole) => Call(p) = <<"file close", 0>>
<1>1. p # 1 /\ p # 2 /\ p # 3 /\ p # 4
  OBVIOUS
<1> QED BY ONLY <1>1, Zenon DEF Call

LEMMA FileReadLInv == ASSUME LInv, NEW r \in Leaders, FileRead(r) PROVE LInv'
<1>0. pc[r] = "copy" /\ pc' = [pc EXCEPT ![r] = "read"]
      /\ UNCHANGED <<env, file, copying, sent, bytes, var, size>>
  BY DEF FileRead, Goto
<1>1. PICK p : p = Pos(r) + 1
  OBVIOUS
<1>2. /\ Pos(r) \in Nat /\ Pos(r) >= 4 /\ Len(sent) = 3 /\ total[r] = After(Pos(r) - 4)
      /\ size[r] = Whole /\ bytes[r] = VarLen + 1 /\ var[r] = "hello" /\ Chunk(r) = Piece(total[r])
  BY <1>0, Copying
<1>3. total[r] < Whole
  BY <1>2 DEF FileRead, More
<1>4. Pos(r) - 4 \in Nat /\ p \in Nat /\ p >= 5 /\ p - 5 = Pos(r) - 4
  BY <1>1, <1>2
<1>5. Piece(total[r]) \in Nat
  BY <1>2, <1>3, <1>4, AfterStep
<1>6. Call(p)' = <<"file read", Piece(total[r])>>
  <2>1. After(p - 5) = total[r] /\ After(p - 5) < Whole
    BY <1>2, <1>3, <1>4
  <2>2. Call(p) = <<"file read", Piece(After(p - 5))>>
    BY <1>4, <2>1, LaterCall
  <2> QED BY <1>0, <2>1, <2>2, SameCalls
<1>7. Enter(r, "file read", Piece(total[r]))
  BY <1>2 DEF FileRead
<1>8. Hop("copy", "read")
  BY DEF Hop
<1>9. Sends(r)
  BY <1>0, <1>2 DEF Sends
<1>10. Enters(r, "copy", "read", p, "file read", Piece(total[r]))
  BY <1>0, <1>1, <1>3, <1>5, <1>6, <1>7, <1>8, <1>9, SomeTypes DEF Enters, Ops, Broadcast
<1>11. Told'
  BY <1>0, ToldNow DEF Told
<1>12. Pos(r)' = p /\ pc'[r] = "read"
  BY <1>10, EnteredAt
<1>13. Whole' = Whole
  BY <1>0, SameCalls
<1>14. Has(r)'
  BY <1>0, <1>2, <1>12, <1>13 DEF Has
<1> QED BY <1>10, <1>11, <1>14, EntersLInv

LEMMA FileCloseLInv == ASSUME LInv, NEW r \in Leaders, FileClose(r) PROVE LInv'
<1>0. pc[r] = "copy" /\ pc' = [pc EXCEPT ![r] = "close"]
      /\ UNCHANGED <<env, file, copying, sent, bytes, var, size>>
  BY DEF FileClose, Goto
<1>1. PICK p : p = Pos(r) + 1
  OBVIOUS
<1>2. /\ Pos(r) \in Nat /\ Pos(r) >= 4 /\ Len(sent) = 3 /\ total[r] = After(Pos(r) - 4)
      /\ size[r] = Whole /\ bytes[r] = VarLen + 1 /\ var[r] = "hello"
      /\ Whole \in Nat /\ total[r] \in Nat /\ total[r] <= Whole
  BY <1>0, Copying
<1>3. total[r] = Whole
  <2>1. ~ (total[r] < Whole)
    BY <1>2 DEF FileClose, More
  <2> QED BY <1>2, <2>1
<1>4. Pos(r) - 4 \in Nat /\ p \in Nat /\ p >= 5 /\ p - 5 = Pos(r) - 4
  BY <1>1, <1>2
<1>6. Call(p)' = <<"file close", 0>>
  <2>1. ~ (After(p - 5) < Whole)
    BY <1>2, <1>3, <1>4
  <2>2. Call(p) = <<"file close", 0>>
    BY <1>4, <2>1, LaterCall
  <2> QED BY <1>0, <2>2, SameCalls
<1>7. Enter(r, "file close", 0)
  BY DEF FileClose
<1>8. Hop("copy", "close")
  BY DEF Hop
<1>9. Sends(r)
  BY <1>0, <1>2 DEF Sends
<1>10. Enters(r, "copy", "close", p, "file close", 0)
  BY <1>0, <1>1, <1>3, <1>6, <1>7, <1>8, <1>9, SomeTypes DEF Enters, Ops, Broadcast
<1>11. Told'
  BY <1>0, ToldNow DEF Told
<1>12. Pos(r)' = p /\ pc'[r] = "close"
  BY <1>10, EnteredAt
<1>13. Whole' = Whole
  BY <1>0, SameCalls
<1>14. Has(r)'
  BY <1>0, <1>2, <1>12, <1>13 DEF Has
<1> QED BY <1>10, <1>11, <1>14, EntersLInv

-----------------------------------------------------------------------------
(* Steps that copy. *)

Copies(r, from, to) ==
  /\ pc[r] = from /\ pc' = [pc EXCEPT ![r] = to] /\ UNCHANGED <<env, file, calls, sent, bytes, var, size>>
  /\ \/ from \in {"open", "read"} /\ to = "copy"
     \/ from = "close" /\ to = "loop"
  /\ \A q \in Leaders : q # r => total'[q] = total[q] /\ kept'[q] = kept[q]
  /\ total' \in [Leaders -> Nat] /\ kept' \in [Leaders -> SUBSET Nat] /\ dest' \in [Leaders -> SUBSET Nat]
  /\ lost' \subseteq Leaders

\* Such a step leaves what has been sent and called as it was.
LEMMA CopiesRest ==
  ASSUME LInv, NEW r \in Leaders, NEW from, NEW to, Copies(r, from, to)
  PROVE  /\ LTypes' /\ SentInv' /\ CallsInv'
         /\ AtPos(r)' => PosInv'
<1> USE DEF LInv
<1>1. /\ pc[r] = from /\ UNCHANGED <<env, file, calls, sent, bytes, var, size>>
      /\ \A q \in Leaders : q # r => total'[q] = total[q] /\ kept'[q] = kept[q]
  BY DEF Copies
<1>2. Whole' = Whole /\ (\A k : After(k)' = After(k) /\ Call(k)' = Call(k)) /\ \A q : Pos(q)' = Pos(q)
  BY <1>1, SameCalls DEF Pos
<1>3. \A q \in Leaders : pc'[q] = IF q = r THEN to ELSE pc[q]
  BY DEF Copies, LTypes
<1>4. from \in {"open", "read", "close"} /\ to \in {"copy", "loop"} /\ (to = "copy" => from \in {"open", "read"})
  BY DEF Copies
<1>5. LTypes'
  <2>1. pc' \in [Leaders -> Points]
    BY <1>4 DEF Copies, LTypes, Points
  <2> QED BY <1>1, <2>1 DEF LTypes, Copies, Ops, Broadcast
<1>6. SentInv'
  <2>1. \A q \in Leaders : pc'[q] \in {"open", "copy", "read", "close", "died"} =>
          pc[q] \in {"open", "copy", "read", "close", "died"}
    BY <1>1, <1>3, <1>4
  <2>2. \A q \in Leaders : pc'[q] \notin {"start", "bcast", "length", "string"} =>
          pc[q] \notin {"start", "bcast", "length", "string"}
    BY <1>1, <1>3, <1>4
  <2> QED BY <1>1, <1>2, <2>1, <2>2 DEF SentInv, Told, Has
<1>7. CallsInv'
  BY <1>1, <1>2 DEF CallsInv
<1>8. ASSUME NEW q \in Leaders, q # r PROVE AtPos(q)'
  <2>1. AtPos(q) /\ pc'[q] = pc[q] /\ total'[q] = total[q] /\ kept'[q] = kept[q]
    BY <1>1, <1>3, <1>8 DEF PosInv
  <2> QED BY <1>1, <1>2, <2>1 DEF AtPos
<1>9. AtPos(r)' => PosInv'
  BY <1>8 DEF PosInv
<1> QED BY <1>5, <1>6, <1>7, <1>9

LEMMA DestType == ASSUME NEW r \in Leaders PROVE Dest(r) \in Leaders
BY Constants DEF Dest

LEMMA DestinationLInv ==
  ASSUME LInv, NEW r \in Leaders, CopyDestination(r), ~ CopyFails(r, "open")
  PROVE  LInv'
<1> USE DEF LInv
<1>1. /\ pc[r] = "open" /\ pc' = [pc EXCEPT ![r] = "copy"] /\ dest' = [dest EXCEPT ![Dest(r)] = {}]
      /\ UNCHANGED <<env, file, total, kept, lost, calls, sent, bytes, var, size>>
  BY DEF CopyDestination, Goto
<1>2. Whole' = Whole /\ (\A k : After(k)' = After(k)) /\ \A q : Pos(q)' = Pos(q)
  BY <1>1, SameCalls DEF Pos
<1>3. \A q \in Leaders : pc'[q] = IF q = r THEN "copy" ELSE pc[q]
  BY <1>1 DEF LTypes
<1>4. Dest(r) \in Leaders /\ \A d \in Leaders : dest'[d] = IF d = Dest(r) THEN {} ELSE dest[d]
  BY <1>1, DestType DEF LTypes
<1>5. Copies(r, "open", "copy")
  <2>1. dest' \in [Leaders -> SUBSET Nat]
    BY <1>1, <1>4 DEF LTypes
  <2> QED BY <1>1, <2>1 DEF Copies, LTypes
<1>6. Pos(r) = 4 /\ r \in env.runs /\ total[r] = 0 /\ kept[r] = {}
  BY <1>1, Where DEF AtPos, Points
<1>7. AtPos(r)'
  <2>1. After(0) = 0 /\ Pos(r) - 4 = 0
    BY <1>6, AfterStep
  <2>2. After(Pos(r) - 4)' = 0
    BY <1>2, <1>6, <2>1
  <2>3. pc'[r] = "copy" /\ Pos(r)' = 4 /\ total'[r] = 0
    BY <1>1, <1>2, <1>3, <1>6
  <2> QED BY <1>1, <1>6, <2>2, <2>3 DEF AtPos
<1>8. CellsInv'
  BY <1>1, <1>2, <1>4 DEF CellsInv
<1>9. \A q \in Leaders : pc'[q] = "loop" => pc[q] = "loop"
  BY <1>3
<1>10. BarrierInv'
  BY <1>1, <1>2, <1>9 DEF BarrierInv
<1>11. CopiedInv'
  <2>1. SUFFICES ASSUME env.shared => env.sync, NEW q \in Leaders
                 PROVE  /\ pc'[q] \in {"copy", "read", "close", "died"} => 1 .. total[q] \subseteq dest'[Dest(q)] \cup kept[q]
                        /\ pc'[q] = "loop" /\ q \in env.runs /\ q \notin lost => 1 .. Whole \subseteq dest'[Dest(q)]
    BY <1>1, <1>2 DEF CopiedInv, Dest
  <2>2. CASE q = r
    BY <1>3, <1>6, <2>2
  <2>3. CASE q # r /\ ~ env.shared
    <3>1. Dest(q) = q /\ Dest(r) = r /\ dest'[q] = dest[q] /\ pc'[q] = pc[q]
      BY <1>3, <1>4, <2>3 DEF Dest
    <3> QED BY <2>1, <3>1 DEF CopiedInv
  <2>4. CASE q # r /\ env.shared
    <3>1. ~ (Pos(r) >= 5)
      BY <1>6
    <3>2. ~ (total[q] > 0) /\ ~ (pc[q] = "loop" /\ q \in env.runs)
      BY <2>1, <2>4, <3>1 DEF BarrierInv
    <3>3. total[q] = 0
      BY <3>2 DEF LTypes
    <3> QED BY <1>9, <3>2, <3>3
  <2> QED BY <2>2, <2>3, <2>4
<1> QED BY <1>5, <1>7, <1>8, <1>10, <1>11, CopiesRest

\* A chunk is copied once everybody has entered the call that reads it.
LEMMA ChunkWrittenLInv == ASSUME LInv, NEW r \in Leaders, ChunkWritten(r) PROVE LInv'
<1> USE DEF LInv
<1> DEFINE t == total[r]
           cells == t + 1 .. t + Chunk(r)
<1>1. pc[r] = "read" /\ pc' = [pc EXCEPT ![r] = "copy"] /\ total' = [total EXCEPT ![r] = t + Chunk(r)]
      /\ UNCHANGED <<env, file, lost, calls, sent, bytes, var, size>>
  BY DEF ChunkWritten, Goto
<1>2. PICK k \in {{}, cells} :
        /\ kept' = [kept EXCEPT ![r] = k]
        /\ dest' = [dest EXCEPT ![Dest(r)] = dest[Dest(r)] \cup kept[r] \cup (cells \ k)]
  BY DEF ChunkWritten
<1>3. FileReturns(r)
  BY DEF ChunkWritten
<1>4. Whole' = Whole /\ (\A j : After(j)' = After(j)) /\ \A q : Pos(q)' = Pos(q)
  BY <1>1, SameCalls DEF Pos
<1>5. \A q \in Leaders : pc'[q] = IF q = r THEN "copy" ELSE pc[q]
  BY <1>1 DEF LTypes
<1>6. /\ Pos(r) \in Nat /\ Pos(r) >= 5 /\ r \in env.runs /\ t = After(Pos(r) - 5) /\ t < Whole /\ t \in Nat
      /\ Chunk(r) = Piece(t) /\ Whole \in Nat
  BY <1>1, Copying
<1>7. PICK u : u = t + Chunk(r)
  OBVIOUS
<1>8. Chunk(r) \in Nat /\ Chunk(r) > 0 /\ u \in Nat /\ u = After(Pos(r) - 4) /\ u <= Whole
  <2>1. Pos(r) - 5 \in Nat /\ Pos(r) - 4 \in Nat /\ (Pos(r) - 5) + 1 = Pos(r) - 4
    BY <1>6
  <2>2. Piece(t) \in Nat /\ Piece(t) > 0 /\ After((Pos(r) - 5) + 1) = t + Piece(t)
    BY <1>6, <2>1, AfterStep
  <2>3. After(Pos(r) - 4) <= Whole
    BY <2>1, AfterStep
  <2> QED BY <1>6, <1>7, <2>1, <2>2, <2>3
<1>9. cells \subseteq 1 .. u /\ 1 .. u \subseteq (1 .. t) \cup cells /\ k \subseteq cells /\ cells \subseteq Nat
  BY <1>6, <1>7, <1>8
<1>10. /\ Dest(r) \in Leaders
       /\ \A d \in Leaders : dest'[d] = IF d = Dest(r) THEN dest[d] \cup kept[r] \cup (cells \ k) ELSE dest[d]
       /\ \A q \in Leaders : kept'[q] = (IF q = r THEN k ELSE kept[q]) /\ total'[q] = IF q = r THEN u ELSE total[q]
  <2>1. Dest(r) \in Leaders
    BY DestType
  <2>2. dest \in [Leaders -> SUBSET Nat] /\ kept \in [Leaders -> SUBSET Nat] /\ total \in [Leaders -> Nat]
    BY DEF LTypes
  <2> QED BY <1>1, <1>2, <1>7, <2>1, <2>2
<1> HIDE DEF cells, t
<1>11. Copies(r, "read", "copy")
  <2>1. total' \in [Leaders -> Nat]
    BY <1>1, <1>7, <1>8 DEF LTypes
  <2>2. kept' \in [Leaders -> SUBSET Nat]
    BY <1>2, <1>9 DEF LTypes
  <2>3. kept[r] \subseteq Nat /\ dest[Dest(r)] \subseteq Nat
    BY <1>10 DEF LTypes
  <2>4. dest' \in [Leaders -> SUBSET Nat]
    <3>1. dest[Dest(r)] \cup kept[r] \cup (cells \ k) \in SUBSET Nat
      BY <1>9, <2>3
    <3> QED BY <1>2, <3>1 DEF LTypes
  <2>5. lost' \subseteq Leaders
    BY <1>1 DEF LTypes
  <2> QED BY <1>1, <1>10, <2>1, <2>2, <2>4, <2>5 DEF Copies
<1>12. AtPos(r)'
  <2>1. pc'[r] = "copy" /\ Pos(r)' = Pos(r) /\ Pos(r) >= 4 /\ total'[r] = u /\ env' = env
    BY <1>1, <1>4, <1>5, <1>6, <1>10
  <2>2. After(Pos(r) - 4)' = u
    BY <1>1, <1>4, <1>8
  <2> QED BY <1>6, <2>1, <2>2 DEF AtPos
<1>13. CellsInv'
  <2>1. kept[r] \subseteq 1 .. Whole /\ cells \subseteq 1 .. Whole /\ \A d \in Leaders : dest[d] \subseteq 1 .. Whole
    <3>1. kept[r] \subseteq 1 .. t /\ 1 .. t \subseteq 1 .. Whole /\ 1 .. u \subseteq 1 .. Whole
      BY <1>6, <1>8 DEF CellsInv, t
    <3> QED BY <1>9, <3>1 DEF CellsInv
  <2>2. \A d \in Leaders : dest'[d] \subseteq 1 .. Whole
    BY <1>10, <2>1
  <2>3. \A q \in Leaders : kept'[q] \subseteq 1 .. total'[q] /\ total'[q] <= Whole
    <3>1. ASSUME NEW q \in Leaders, q # r PROVE kept'[q] = kept[q] /\ total'[q] = total[q]
      BY <1>10, <3>1
    <3>2. kept'[r] \subseteq 1 .. u /\ total'[r] = u /\ u <= Whole
      BY <1>8, <1>9, <1>10
    <3> QED BY <3>1, <3>2 DEF CellsInv
  <2> QED BY <1>4, <2>2, <2>3 DEF CellsInv
<1>14. BarrierInv'
  <2>1. ASSUME env.sync, NEW q \in Leaders PROVE Pos(q) >= 5
    <3>1. Pos(q) >= Pos(r) /\ Pos(q) \in Nat
      BY <1>3, <2>1, PosType DEF FileReturns, Pos
    <3> QED BY <1>6, <3>1
  <2> QED BY <1>1, <1>4, <2>1 DEF BarrierInv
<1>15. CopiedInv'
  <2>1. SUFFICES ASSUME env.shared => env.sync, NEW q \in Leaders
                 PROVE  /\ pc'[q] \in {"copy", "read", "close", "died"} => 1 .. total'[q] \subseteq dest'[Dest(q)] \cup kept'[q]
                        /\ pc'[q] = "loop" /\ q \in env.runs /\ q \notin lost => 1 .. Whole \subseteq dest'[Dest(q)]
    BY <1>1, <1>4 DEF CopiedInv, Dest
  <2>2. CASE q = r
    <3>1. 1 .. t \subseteq dest[Dest(r)] \cup kept[r]
      BY <1>1, <2>1 DEF CopiedInv, t
    <3>2. dest'[Dest(r)] = dest[Dest(r)] \cup kept[r] \cup (cells \ k) /\ kept'[r] = k /\ total'[r] = u /\ pc'[r] = "copy"
      BY <1>5, <1>10
    <3>3. 1 .. u \subseteq dest'[Dest(r)] \cup k
      BY <1>9, <3>1, <3>2
    <3> QED BY <2>2, <3>2, <3>3
  <2>3. CASE q # r
    <3>1. Dest(q) \in Leaders /\ pc'[q] = pc[q] /\ total'[q] = total[q] /\ kept'[q] = kept[q]
      BY <1>5, <1>10, <2>3, DestType
    <3>2. dest[Dest(q)] \subseteq dest'[Dest(q)]
      BY <1>10, <3>1
    <3>3. /\ pc[q] \in {"copy", "read", "close", "died"} => 1 .. total[q] \subseteq dest[Dest(q)] \cup kept[q]
          /\ pc[q] = "loop" /\ q \in env.runs /\ q \notin lost => 1 .. Whole \subseteq dest[Dest(q)]
      BY <2>1 DEF CopiedInv
    <3> QED BY <3>1, <3>2, <3>3
  <2> QED BY <2>2, <2>3
<1> QED BY <1>11, <1>12, <1>13, <1>14, <1>15, CopiesRest

LEMMA FcloseLInv == ASSUME LInv, NEW r \in Leaders, Fclose(r) PROVE LInv'
<1> USE DEF LInv
<1>1. pc[r] = "close" /\ pc' = [pc EXCEPT ![r] = "loop"] /\ kept' = [kept EXCEPT ![r] = {}]
      /\ UNCHANGED <<env, file, total, calls, sent, bytes, var, size>>
  BY DEF Fclose, Goto
<1>2. \/ dest' = [dest EXCEPT ![Dest(r)] = dest[Dest(r)] \cup kept[r]] /\ lost' = lost
      \/ dest' = dest /\ lost' = lost \cup {r}
  BY DEF Fclose
<1>3. FileReturns(r)
  BY DEF Fclose
<1>4. Whole' = Whole /\ (\A j : After(j)' = After(j)) /\ \A q : Pos(q)' = Pos(q)
  BY <1>1, SameCalls DEF Pos
<1>5. \A q \in Leaders : pc'[q] = IF q = r THEN "loop" ELSE pc[q]
  BY <1>1 DEF LTypes
<1>6. Pos(r) \in Nat /\ Pos(r) >= 5 /\ r \in env.runs /\ total[r] = After(Pos(r) - 5) /\ total[r] = Whole /\ Whole \in Nat
  BY <1>1, Where, WholeType DEF AtPos
<1>7. /\ Dest(r) \in Leaders /\ lost \subseteq lost'
      /\ \A q \in Leaders : kept'[q] = IF q = r THEN {} ELSE kept[q]
      /\ \A d \in Leaders : dest[d] \subseteq dest'[d] /\ dest'[d] \subseteq dest[d] \cup kept[r]
      /\ dest[Dest(r)] \cup kept[r] \subseteq dest'[Dest(r)] \/ r \in lost'
  <2>1. Dest(r) \in Leaders
    BY DestType
  <2>2. dest \in [Leaders -> SUBSET Nat] /\ kept \in [Leaders -> SUBSET Nat]
    BY DEF LTypes
  <2> QED BY <1>1, <1>2, <2>1, <2>2
<1>8. Copies(r, "close", "loop")
  <2>1. kept' \in [Leaders -> SUBSET Nat] /\ lost' \subseteq Leaders
    BY <1>1, <1>2 DEF LTypes
  <2>2. dest' \in [Leaders -> SUBSET Nat]
    <3>1. dest[Dest(r)] \cup kept[r] \in SUBSET Nat
      BY <1>7 DEF LTypes
    <3> QED BY <1>2, <3>1 DEF LTypes
  <2>3. total' \in [Leaders -> Nat]
    BY <1>1 DEF LTypes
  <2> QED BY <1>1, <1>7, <2>1, <2>2, <2>3 DEF Copies
<1>9. AtPos(r)'
  <2>1. pc'[r] = "loop" /\ Pos(r)' = Pos(r) /\ total'[r] = total[r] /\ env' = env
    BY <1>1, <1>4, <1>5
  <2>2. After(Pos(r) - 5)' = total[r]
    BY <1>1, <1>4, <1>6
  <2> QED BY <1>4, <1>6, <2>1, <2>2 DEF AtPos
<1>10. CellsInv'
  <2>1. kept[r] \subseteq 1 .. Whole /\ \A d \in Leaders : dest[d] \subseteq 1 .. Whole
    BY <1>6 DEF CellsInv
  <2>2. \A d \in Leaders : dest'[d] \subseteq 1 .. Whole
    BY <1>7, <2>1
  <2>3. \A q \in Leaders : kept'[q] \subseteq 1 .. total[q] /\ total[q] <= Whole
    BY <1>7 DEF CellsInv
  <2> QED BY <1>1, <1>4, <2>2, <2>3 DEF CellsInv
<1>11. BarrierInv'
  <2>1. ASSUME env.sync, NEW q \in Leaders PROVE Pos(q) >= 5
    <3>1. Pos(q) >= Pos(r) /\ Pos(q) \in Nat
      BY <1>3, <2>1, PosType DEF FileReturns, Pos
    <3> QED BY <1>6, <3>1
  <2> QED BY <1>1, <1>4, <2>1 DEF BarrierInv
<1>12. CopiedInv'
  <2>1. SUFFICES ASSUME env.shared => env.sync, NEW q \in Leaders
                 PROVE  /\ pc'[q] \in {"copy", "read", "close", "died"} => 1 .. total[q] \subseteq dest'[Dest(q)] \cup kept'[q]
                        /\ pc'[q] = "loop" /\ q \in env.runs /\ q \notin lost' => 1 .. Whole \subseteq dest'[Dest(q)]
    BY <1>1, <1>4 DEF CopiedInv, Dest
  <2>2. CASE q = r
    <3>1. 1 .. Whole \subseteq dest[Dest(r)] \cup kept[r]
      BY <1>1, <1>6, <2>1 DEF CopiedInv
    <3> QED BY <1>5, <1>7, <2>2, <3>1
  <2>3. CASE q # r
    <3>1. Dest(q) \in Leaders /\ pc'[q] = pc[q] /\ kept'[q] = kept[q]
      BY <1>5, <1>7, <2>3, DestType
    <3>2. dest[Dest(q)] \subseteq dest'[Dest(q)]
      BY <1>7, <3>1
    <3>3. /\ pc[q] \in {"copy", "read", "close", "died"} => 1 .. total[q] \subseteq dest[Dest(q)] \cup kept[q]
          /\ pc[q] = "loop" /\ q \in env.runs /\ q \notin lost => 1 .. Whole \subseteq dest[Dest(q)]
      BY <2>1 DEF CopiedInv
    <3> QED BY <1>7, <3>1, <3>2, <3>3
  <2> QED BY <2>2, <2>3
<1> QED BY <1>8, <1>9, <1>10, <1>11, <1>12, CopiesRest

-----------------------------------------------------------------------------
\* Hook, AssertFails, a copy that fails and the end of the broadcast.
LEMMA MovesAre ==
  ASSUME LInv, NEW r \in Leaders,
         \/ Hook(r) \/ CopyFails(r, "stat") \/ CopyFails(r, "open") \/ AssertFails(r) \/ BcastEnd(r)
  PROVE  LInv'
<1>1. CASE Hook(r)
  <2>1. Moves(r, "start", IF r \in env.runs THEN "bcast" ELSE "loop")
    BY <1>1 DEF Hook, Goto, Moves
  <2> QED BY <2>1, MovesLInv
<1>2. CASE CopyFails(r, "stat")
  <2>1. Moves(r, "stat", "caught")
    BY <1>2 DEF CopyFails, Goto, Moves
  <2> QED BY <2>1, MovesLInv
<1>3. CASE CopyFails(r, "open")
  <2>1. Moves(r, "open", "caught")
    BY <1>3 DEF CopyFails, Goto, Moves
  <2> QED BY <2>1, MovesLInv
<1>4. CASE AssertFails(r)
  <2>1. Moves(r, "read", "died")
    BY <1>4 DEF AssertFails, Goto, Moves
  <2> QED BY <2>1, MovesLInv
<1>5. CASE BcastEnd(r)
  <2>1. pc[r] = "string" /\ pc' = [pc EXCEPT ![r] = "stat"]
        /\ UNCHANGED <<env, file, copying, calls, sent, bytes, size>>
    BY <1>5 DEF BcastEnd, Goto
  <2>2. Pos(r) = 2 /\ Pos(r) \in 1 .. 3
    BY <2>1, Where DEF AtPos
  <2>3. var' = [var EXCEPT ![r] = "hello"]
    <3>1. CASE r = Root
      <4>1. var' = var /\ var[r] = "hello" /\ var \in [Leaders -> {"hello", None}]
        BY <1>5, <3>1, Roots DEF BcastEnd, LInv, LTypes
      <4> QED BY <4>1
    <3>2. CASE r # Root
      <4>1. 2 <= Len(sent) /\ Received(r) = sent[2]
        BY <1>5, <2>2, <3>2, Receives DEF BcastEnd
      <4>2. Len(sent) \in Nat
        BY SomeTypes
      <4>3. Received(r) = "hello"
        BY <4>1, <4>2, ToldNow DEF Told
      <4>4. var' = [var EXCEPT ![r] = Received(r)]
        BY <1>5, <3>2 DEF BcastEnd
      <4> QED BY <4>3, <4>4
    <3> QED BY <3>1, <3>2
  <2>4. Moves(r, "string", "stat")
    BY <2>1, <2>3 DEF Moves
  <2> QED BY <2>4, MovesLInv
<1> QED BY <1>1, <1>2, <1>3, <1>4, <1>5

LEMMA AsideLInv == ASSUME LInv, FileChanges \/ \E r \in Leaders : Abort(r) PROVE LInv'
<1>1. UNCHANGED <<env, copying, pc, calls, sent, bytes, var, size>>
  BY DEF FileChanges, Abort
<1>2. file' \in Nat
  BY Constants, SomeTypes DEF FileChanges, Abort
<1> QED BY <1>1, <1>2, OutsideLInv

LEMMA LInvNext == LInv /\ [Next]_vars => LInv'
<1> SUFFICES ASSUME LInv, [Next]_vars PROVE LInv'
  OBVIOUS
<1>1. CASE UNCHANGED vars
  <2>1. UNCHANGED <<env, copying, pc, calls, sent, bytes, var, size>> /\ file' = file
    BY <1>1 DEF vars, copying
  <2> QED BY <2>1, SomeTypes, OutsideLInv
<1>2. CASE FileChanges
  BY <1>2, AsideLInv
<1>3. ASSUME NEW r \in Leaders, Leader(r) PROVE LInv'
  <2>1. CASE Hook(r) \/ AssertFails(r) \/ BcastEnd(r)
    BY <2>1, MovesAre
  <2>2. CASE BcastLength(r)
    BY <2>2, BcastLengthLInv
  <2>3. CASE BcastString(r)
    BY <2>3, BcastStringLInv
  <2>4. CASE BcastSize(r)
    BY <2>4, BcastSizeLInv, MovesAre
  <2>5. CASE FileOpen(r)
    BY <2>5, FileOpenLInv
  <2>6. CASE CopyDestination(r)
    BY <2>6, DestinationLInv, MovesAre
  <2>7. CASE FileRead(r)
    BY <2>7, FileReadLInv
  <2>8. CASE ChunkWritten(r)
    BY <2>8, ChunkWrittenLInv
  <2>9. CASE FileClose(r)
    BY <2>9, FileCloseLInv
  <2>10. CASE Fclose(r)
    BY <2>10, FcloseLInv
  <2>11. CASE Abort(r)
    BY <2>11, AsideLInv
  <2> QED BY <1>3, <2>1, <2>2, <2>3, <2>4, <2>5, <2>6, <2>7, <2>8, <2>9, <2>10, <2>11 DEF Leader
<1> QED BY <1>1, <1>2, <1>3 DEF Next

LEMMA LInvAlways == Spec => []LInv
BY LInvInit, LInvNext, PTL DEF Spec

-----------------------------------------------------------------------------
(***************************************************************************)
(* However many leaders there are and however the file changes under them, *)
(* they agree on every collective call: the i-th call of each is the i-th  *)
(* of all, because bcast_size and turbine_io_bcast make every count follow *)
(* from what the root has sent (turbine_io_copy_to).                       *)
(***************************************************************************)
THEOREM CallsMatch == Spec => []MatchedCalls
<1>1. LInv => MatchedCalls
  <2>1. ASSUME LInv, NEW r \in Leaders, NEW q \in Leaders, NEW i \in 1 .. Len(calls[r]), i <= Len(calls[q])
        PROVE  calls[q][i] = calls[r][i]
    <3>1. Pos(q) \in Nat /\ i \in 1 .. Pos(r) /\ i \in 1 .. Pos(q)
      BY <2>1, PosType DEF Pos
    <3> QED BY <2>1, <3>1 DEF LInv, CallsInv
  <2> QED BY <2>1 DEF MatchedCalls
<1> QED BY <1>1, LInvAlways, PTL

(***************************************************************************)
(* A leader that comes out of the hook has the root's variable and, unless *)
(* its fclose failed, the whole file at its destination and nothing else,  *)
(* in chunks of any size, where the destination is its own or the calls on *)
(* files keep everybody together (turbine_io_bcast, turbine_io_copy_to).   *)
(***************************************************************************)
THEOREM CopiesAreWhole == Spec => []CopiesWhole
<1>1. LInv => CopiesWhole
  <2>1. SUFFICES ASSUME LInv, NEW r \in env.runs, pc[r] = "loop", env.shared => env.sync, r \notin lost
                 PROVE  dest[Dest(r)] = 1 .. size[Root] /\ bytes[r] = bytes[Root] /\ var[r] = var[Root]
    BY DEF CopiesWhole
  <2>2. r \in Leaders
    BY <2>1 DEF LInv, LTypes
  <2>3. Pos(r) >= 5 /\ Pos(r) \in Nat
    BY <2>1, <2>2, Where DEF AtPos
  <2>4. bytes[r] = VarLen + 1 /\ Len(sent) = 3 /\ var[r] = "hello"
    BY <2>1, <2>2, <2>3, Knows
  <2>5. bytes[Root] = VarLen + 1 /\ size[Root] = sent[3]
    BY <2>1, <2>4, ToldNow DEF Told
  <2>6. Whole = size[Root]
    BY <2>4, <2>5 DEF Whole
  <2>7. 1 .. Whole \subseteq dest[Dest(r)]
    BY <2>1, <2>2 DEF LInv, CopiedInv
  <2>8. dest[Dest(r)] \subseteq 1 .. Whole
    BY <2>1, <2>2, DestType DEF LInv, CellsInv
  <2>9. var[Root] = "hello"
    BY <2>1, Roots
  <2> QED BY <2>4, <2>5, <2>6, <2>7, <2>8, <2>9
<1> QED BY <1>1, LInvAlways, PTL
=============================================================================
