------------------------------ MODULE Handles ------------------------------
(***************************************************************************)
(* Handles and subscripts of the data commands, and the memory they are    *)
(* parsed into (code/src/tcl/adlb/tcl-adlb.c).                             *)
(*                                                                         *)
(* A handle is a string: an id, or an id and subscripts separated by dots. *)
(* The subscript that ADLB is given is a pointer and a length; the pointer *)
(* leads into the string of a Tcl object, into the one scratch buffer all  *)
(* commands share, or into a block of the heap.  A string is a sequence of *)
(* characters, a character being a number; an id is one character.         *)
(***************************************************************************)
EXTENDS Integers, Sequences, FiniteSets

CONSTANT ScratchLen     \* TCL_ADLB_SCRATCH_LEN, the longest subscript of ADLB

ASSUME ScratchAssumption == ScratchLen \in Nat \ {0}

Dot  == -1
Nul  == 0
Junk == -2              \* what malloc leaves in a cell

\* Where a pointer leads: nowhere, to a Tcl object, to tcl_adlb_scratch, or
\* to the block with that number.
Null    == -1
Object  == -2
Scratch == 0

NoSub == [at |-> Null, len |-> 0, text |-> <<>>]

\* ADLB_Subscript_Impl: the handle with subscripts appended to it.
SubscriptHandle(handle, subs) ==
    LET h[k \in 0 .. Len(subs)] ==
          IF k = 0 THEN handle ELSE h[k - 1] \o <<Dot>> \o subs[k]
    IN  h[Len(subs)]

(***************************************************************************)
(* Memory: m.heap maps the live blocks to their contents, m.scratch is the *)
(* scratch buffer, m.fault records a free of a dead block.                 *)
(***************************************************************************)
\* A block that has been given back, or no block at all.
Dead(m, loc) == loc \notin {Object, Scratch} \cup DOMAIN m.heap

ContentsAt(m, loc) ==
    IF loc = Scratch THEN m.scratch
    ELSE IF loc \in DOMAIN m.heap THEN m.heap[loc] ELSE <<>>

SetContents(m, loc, text) ==
    IF loc = Scratch THEN [m EXCEPT !.scratch = text]
    ELSE [m EXCEPT !.heap = [b \in DOMAIN m.heap \cup {loc} |->
                               IF b = loc THEN text ELSE m.heap[b]]]

\* The lowest free address: malloc may hand out again what was freed.
Fresh(m) == CHOOSE b \in 1 .. Cardinality(DOMAIN m.heap) + 1 :
              /\ b \notin DOMAIN m.heap
              /\ 1 .. b - 1 \subseteq DOMAIN m.heap

Malloc(m, text) == SetContents(m, Fresh(m), text)

Free(m, loc) ==
    IF loc \in DOMAIN m.heap
    THEN [m EXCEPT !.heap = [b \in DOMAIN m.heap \ {loc} |-> m.heap[b]]]
    ELSE [m EXCEPT !.fault = TRUE]

\* The blocks f[i] are given back, in any order.
FreeAll(m, f) ==
    [m EXCEPT !.heap = [b \in DOMAIN m.heap \ {f[i] : i \in DOMAIN f} |-> m.heap[b]],
              !.fault = @ \/ \E i \in DOMAIN f : \/ f[i] \notin DOMAIN m.heap
                                                \/ \E j \in DOMAIN f \ {i} : f[j] = f[i]]

\* cells written over text from position at (from 1) on.
Overwrite(text, at, cells) ==
    [i \in 1 .. Len(text) |->
       IF i \in at .. at + Len(cells) - 1 THEN cells[i - at + 1] ELSE text[i]]

\* ADLB_Resize_buf: room for need characters, what was there kept; the
\* scratch buffer is left to its owner, an own block is reallocated, where it
\* is or at a new address.
ResizeBuf(m, buf, need, moves) ==
    LET old  == IF buf = Null THEN <<>> ELSE ContentsAt(m, buf)
        new  == Overwrite([i \in 1 .. need |-> Junk], 1, old)
        more == Malloc(m, new)
    IN  IF Len(old) >= need THEN [mem |-> m, buf |-> buf]
        ELSE IF buf \in {Null, Scratch} THEN [mem |-> more, buf |-> Fresh(m)]
        ELSE IF moves THEN [mem |-> Free(more, buf), buf |-> Fresh(m)]
        ELSE [mem |-> SetContents(m, buf, new), buf |-> buf]

(***************************************************************************)
(* Parsing.  A parse is [mem, id, val, buf, stale]: the memory it leaves   *)
(* behind, the id, the subscript, the buffer it may own (tcl_adlb_handle)  *)
(* and whether a dead block has been read for it.                          *)
(***************************************************************************)
\* The subscript as it is read.  In a dead block there may still be what was
\* there, as if it had never moved, or anything else.
SubText(m, val) ==
    IF val.at = Object THEN val.text
    ELSE IF Dead(m, val.at) THEN [i \in 1 .. val.len |-> Junk]
    ELSE SubSeq(ContentsAt(m, val.at), 1, val.len)

\* Before anything is parsed.
NoParse(m) == [mem |-> m, id |-> <<>>, val |-> NoSub, buf |-> Null, stale |-> FALSE]

\* The subscript there is, copied to the buffer when that has been made larger:
\* the pointer may lead to where the buffer was before (tcl-adlb.c:5485, 5535).
OldSub(p, m) == SubText(m, p.val)

\* ADLB_Parse_Struct_Subscript: copies str, or appends it to what is there,
\* the terminator of that becoming a dot.  The new terminator goes to
\* data[length] in both cases.
ParseStructSub(p, str, append, moves) ==
    LET old  == IF append THEN p.val.len ELSE 0
        r    == ResizeBuf(p.mem, p.buf, old + Len(str) + 1, moves)
        base == ContentsAt(r.mem, r.buf)
        kept == IF old = 0 THEN base
                ELSE Overwrite(Overwrite(base, 1, OldSub(p, r.mem)), old, <<Dot>>)
        text == Overwrite(Overwrite(kept, old + 1, str), Len(str) + 1, <<Nul>>)
    IN  [p EXCEPT !.mem = SetContents(r.mem, r.buf, text),
                  !.buf = r.buf,
                  !.val = [at |-> r.buf, len |-> old + Len(str) + 1, text |-> <<>>],
                  !.stale = @ \/ (old # 0 /\ Dead(r.mem, p.val.at))]

\* append_subscript
AppendSub(p, sub, moves) ==
    LET r    == ResizeBuf(p.mem, p.buf, p.val.len + Len(sub), moves)
        kept == Overwrite(Overwrite(ContentsAt(r.mem, r.buf), 1, OldSub(p, r.mem)),
                          p.val.len, <<Dot>>)
        text == Overwrite(kept, p.val.len + 1, sub)
    IN  [p EXCEPT !.mem = SetContents(r.mem, r.buf, text),
                  !.buf = r.buf,
                  !.val = [at |-> r.buf, len |-> p.val.len + Len(sub), text |-> <<>>],
                  !.stale = @ \/ Dead(r.mem, p.val.at)]

\* ADLB_Extract_Handle: the subscript starts behind the first dot.
FirstDot(handle) ==
    CHOOSE i \in 1 .. Len(handle) :
        /\ handle[i] = Dot
        /\ \A j \in 1 .. i - 1 : handle[j] # Dot

ExtractHandle(handle) ==
    IF \A i \in 1 .. Len(handle) : handle[i] # Dot
    THEN [id |-> handle, sub |-> <<>>]
    ELSE [id  |-> SubSeq(handle, 1, FirstDot(handle) - 1),
          sub |-> SubSeq(handle, FirstDot(handle) + 1, Len(handle))]

\* Faulty: a handle is always parsed into the scratch buffer.
ParseHandleFaulty(m, handle, useScratch) ==
    LET h == ExtractHandle(handle)
        p == [NoParse(m) EXCEPT !.id = h.id]
    IN  IF h.sub = <<>> THEN p
        ELSE ParseStructSub([p EXCEPT !.buf = Scratch], h.sub, FALSE, FALSE)

\* ADLB_Parse_Handle
ParseHandle(m, handle, useScratch) ==
    LET h == ExtractHandle(handle)
        p == [NoParse(m) EXCEPT !.id = h.id]
    IN  IF h.sub = <<>> THEN p
        ELSE ParseStructSub([p EXCEPT !.buf = IF useScratch THEN Scratch ELSE Null],
                            h.sub, FALSE, FALSE)

\* ADLB_Parse_Subscript with append, as every command calls it.  A container
\* subscript alone stays in its Tcl object.
ParseSub(p, kind, sub, moves) ==
    IF kind = "container"
    THEN LET terminated == sub \o <<Nul>>
         IN  IF p.val.len = 0
             THEN [p EXCEPT !.buf = Null,
                            !.val = [at |-> Object, len |-> Len(terminated),
                                     text |-> terminated]]
             ELSE AppendSub(p, terminated, moves)
    ELSE IF sub = <<>> THEN p
    ELSE ParseStructSub(p, sub, TRUE, moves)

HasSub(p) == p.val.len > 0

\* Those of the buffers that are blocks of their own.
Lent(bufs) == {i \in DOMAIN bufs : bufs[i] \notin {Null, Scratch}}

\* ADLB_Parse_Handle_Cleanup and free_non_scratch
Cleanup(m, buf) == IF buf \in {Null, Scratch} THEN m ELSE Free(m, buf)
=============================================================================
