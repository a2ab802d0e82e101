------------------------------ MODULE Commands -----------------------------
(***************************************************************************)
(* The data commands of one interpreter as users of memory                 *)
(* (code/src/tcl/adlb/tcl-adlb.c, code/src/tcl/turbine/tcl-turbine.c).     *)
(*                                                                         *)
(* A command parses its handles into shared or allocated buffers, hands    *)
(* ADLB the ids and subscripts, and gives the buffers back.  Blobs live    *)
(* longer: adlb::retrieve_blob leaves a copy in the heap that the program  *)
(* holds as a Tcl list and blob_cache holds under its handle, until one of *)
(* the two free commands.  An interpreter runs one command at a time, so   *)
(* that a command is one step, or two where it waits for ADLB in between.  *)
(* An error returns from wherever it is found, in most places before the   *)
(* buffers are given back.                                                 *)
(***************************************************************************)
EXTENDS Handles

CONSTANTS
    Paths,        \* the handles: an id and the subscripts appended to it
    Subs,         \* the subscripts given beside a handle
    BlobPaths,    \* the handles of blobs
    Lists,        \* the lists of numbers that blobs are made from
    MaxBlobs,     \* variables of the program that hold a blob
    MaxLeaks,     \* bound: blocks that failing commands leave behind
    MaxInputs     \* TCL_TURBINE_MAX_INPUTS, which a rule's inputs must stay below

VARIABLES
    heap, fault,
    blobCache,    \* the entries of blob_cache, which may have a key twice
    blobs,        \* the Tcl list in each variable of the program
    call,         \* the call to ADLB a command is in: what the program asked
                  \* for, what ADLB was passed, and the buffers to give back
    leaked,       \* history variable: the blocks failing commands left behind
    finalized

commandsVars == <<heap, fault, blobCache, blobs, call, leaked, finalized>>

\* The memory a command starts with.  What the scratch buffer holds then is
\* left over from other commands, and not to be read.
mem == [heap    |-> heap,
        scratch |-> [i \in 1 .. ScratchLen |-> Junk],
        fault   |-> fault]

SetMem(m) == heap' = m.heap /\ fault' = m.fault

HandleOf(path) == SubscriptHandle(path.id, path.subs)

\* The subscript of a member as ADLB is to see it.
MemberOf(path, subs) ==
    LET all == path.subs \o subs
    IN  IF all = <<>> THEN <<>>
        ELSE Tail(SubscriptHandle(<<>>, all)) \o <<Nul>>

\* The contents of the blob with a handle, as the store holds it.
DataOf(path) == <<path.id[1], Len(path.subs)>>

NoHandle == [id |-> <<>>, subs |-> <<>>]

\* An id is one character.  The first dot ends it, and a handle that ends with
\* that dot would be read as the id alone.  A handle that names a blob has one
\* way to read it.
ASSUME CommandsAssumption ==
    /\ Subs \cup Lists \subseteq Seq(Int) /\ {MaxBlobs, MaxLeaks, MaxInputs} \subseteq Nat
    /\ \A p \in Paths \cup BlobPaths :
         /\ p = [id |-> p.id, subs |-> p.subs]
         /\ p.id \in Seq(Int) /\ Len(p.id) = 1 /\ p.id[1] # Dot
         /\ p.subs \in Seq(Seq(Int)) \ {<<<<>>>>}
    /\ \A p, q \in BlobPaths : HandleOf(p) = HandleOf(q) => p = q

\* A variable without a blob.
NoBlob == [ptr |-> Null, data |-> <<>>, path |-> NoHandle, freed |-> FALSE]

NoCall == [asked |-> <<>>, passed |-> <<>>, bufs |-> <<>>, structAppend |-> FALSE,
           stale |-> FALSE, keeps |-> FALSE]

Idle == ~finalized /\ call = NoCall

CommandsInit ==
    /\ heap = <<>>
    /\ fault = FALSE
    /\ blobCache = {}
    /\ blobs = [k \in 1 .. MaxBlobs |-> NoBlob]
    /\ call = NoCall
    /\ leaked = {}
    /\ finalized = FALSE

Passed(m, p) == <<p.id, SubText(m, p.val)>>

\* The command calls ADLB, with memory m and the handles parsed into it.  keeps:
\* an error that ADLB answers is returned before the buffers are given back.
CallAdlb(m, asked, parses, structAppend, keeps) ==
    /\ SetMem(m)
    /\ call' = [asked  |-> asked,
                passed |-> [i \in 1 .. Len(parses) |-> Passed(m, parses[i])],
                bufs   |-> [i \in 1 .. Len(parses) |-> parses[i].buf],
                structAppend |-> structAppend,
                stale  |-> \E i \in 1 .. Len(parses) : parses[i].stale,
                keeps  |-> keeps]
    /\ UNCHANGED <<leaked, finalized>>

\* The blocks among bufs are left behind.
Leak(bufs) ==
    /\ leaked' = leaked \cup {bufs[i] : i \in Lent(bufs)}
    /\ Cardinality(leaked') <= MaxLeaks

\* An error is returned with memory m and without the cleanup of bufs.
Abandon(m, bufs) ==
    /\ SetMem(m)
    /\ Leak(bufs)
    /\ UNCHANGED <<blobCache, blobs, call, finalized>>

\* ADLB has answered: ADLB_PARSE_HANDLE_CLEANUP, or the loop at the end of
\* Turbine_Rule_Cmd.
Return ==
    /\ call # NoCall
    /\ SetMem(FreeAll(mem, [i \in Lent(call.bufs) |-> call.bufs[i]]))
    /\ call' = NoCall
    /\ UNCHANGED <<blobCache, blobs, leaked, finalized>>

\* ADLB has answered with an error, or with a value that cannot be converted,
\* and the command does not get to its cleanup (CHECK_ADLB_RETRIEVE and the like).
ReturnError ==
    /\ call.keeps
    /\ Leak(call.bufs)
    /\ call' = NoCall
    /\ UNCHANGED <<heap, fault, blobCache, blobs, finalized>>

(***************************************************************************)
(* Commands that name members                                              *)
(***************************************************************************)
MemberParse(path, kind, sub, moves) ==
    ParseSub(ParseHandle(mem, HandleOf(path), TRUE), kind, sub, moves)

\* The member that is meant: an empty struct subscript adds nothing.
Asked(path, kind, sub) ==
    <<path.id, MemberOf(path, IF kind = "struct" /\ sub = <<>> THEN <<>> ELSE <<sub>>)>>

\* A handle that has subscripts, and one more for a struct member.
AppendsStruct(path, kind, sub) ==
    kind = "struct" /\ path.subs # <<>> /\ sub # <<>>

\* ADLB_Lookup_Impl, and with it ADLB_Insert_Impl and ADLB_Exists_Impl, which
\* parse in the same way.  A missing subscript is an error, with nothing to
\* give back; an argument that is no number is one, too.
Lookup(path, kind, sub, moves) ==
    /\ Idle
    /\ LET p == MemberParse(path, kind, sub, moves)
       IN  /\ HasSub(p)
           /\ \/ /\ CallAdlb(p.mem, <<Asked(path, kind, sub)>>, <<p>>,
                             AppendsStruct(path, kind, sub), TRUE)
                 /\ UNCHANGED <<blobCache, blobs>>
              \/ Abandon(p.mem, <<p.buf>>)

\* ADLB_Insert_Atomic_Cmd
InsertAtomic(path, sub, moves) ==
    /\ Idle
    /\ LET p == MemberParse(path, "container", sub, moves)
       IN  \/ /\ CallAdlb(p.mem, <<Asked(path, "container", sub)>>, <<p>>, FALSE, TRUE)
              /\ UNCHANGED <<blobCache, blobs>>
           \/ Abandon(p.mem, <<p.buf>>)

\* ADLB_Subscribe_Cmd
Subscribe(path) ==
    /\ Idle
    /\ LET p == ParseHandle(mem, HandleOf(path), TRUE)
       IN  \/ /\ CallAdlb(p.mem, <<<<path.id, MemberOf(path, <<>>)>>>>, <<p>>, FALSE, TRUE)
              /\ UNCHANGED <<blobCache, blobs>>
           \/ Abandon(p.mem, <<p.buf>>)

\* ADLB_Reference_Impl: the handle of the reference is parsed while the
\* other one is in the scratch buffer.  It may be no handle, and what comes
\* behind it no type or number.  ADLB's answer is looked at after the cleanup.
Reference(path, kind, sub, ref, moves) ==
    /\ Idle
    /\ LET p == MemberParse(path, kind, sub, moves)
           r == ParseHandle(p.mem, HandleOf(ref), FALSE)
       IN  /\ HasSub(p)
           /\ \/ /\ CallAdlb(r.mem,
                             <<Asked(path, kind, sub), <<ref.id, MemberOf(ref, <<>>)>>>>,
                             <<p, r>>, AppendsStruct(path, kind, sub), FALSE)
                 /\ UNCHANGED <<blobCache, blobs>>
              \/ Abandon(p.mem, <<p.buf>>)
              \/ Abandon(r.mem, <<p.buf, r.buf>>)

\* turbine_extract_ids: parses the inputs, keeping the memory of those with a
\* subscript.
ExtractIds(paths) ==
    LET x[k \in 0 .. Len(paths)] ==
          IF k = 0 THEN NoParse(mem) ELSE ParseHandle(x[k - 1].mem, HandleOf(paths[k]), FALSE)
    IN  [mem |-> x[Len(paths)].mem, parses |-> [k \in 1 .. Len(paths) |-> x[k]]]

\* Turbine_Rule_Cmd: all inputs go to ADLB_Dput at once.
Rule(paths) ==
    /\ Idle
    /\ Len(paths) < MaxInputs
    /\ LET x == ExtractIds(paths)
       IN  CallAdlb(x.mem,
                    [i \in 1 .. Len(paths) |-> <<paths[i].id, MemberOf(paths[i], <<>>)>>],
                    x.parses, FALSE, TRUE)
    /\ UNCHANGED <<blobCache, blobs>>

\* The input behind paths is no handle.
RuleError(paths) ==
    /\ Idle
    /\ Len(paths) + 1 < MaxInputs
    /\ LET x == ExtractIds(paths)
       IN  Abandon(x.mem, [i \in 1 .. Len(paths) |-> x.parses[i].buf])

(***************************************************************************)
(* Blobs                                                                   *)
(***************************************************************************)
\* Faulty: the subscript is left out.
CacheKeyFaulty(m, p) == p.id

\* blob_cache_key: the id, and the subscript if there is one.
CacheKey(m, p) == p.id \o SubText(m, p.val)

\* build_tcl_blob: pointer, contents and handle.  freed is a history variable:
\* a free command has named the handle since.
BlobValue(block, data, path) ==
    [ptr |-> block, data |-> data, path |-> path, freed |-> FALSE]

\* ADLB_Retrieve_Blob_Impl and cache_blob: a copy of the transfer buffer,
\* added to the table whether or not the handle is there.  Every error comes
\* before the copy.
RetrieveBlob(path, k) ==
    /\ Idle
    /\ blobs[k] = NoBlob
    /\ LET p  == ParseHandle(mem, HandleOf(path), TRUE)
           b  == Fresh(p.mem)
           m  == Malloc(p.mem, DataOf(path))
       IN  \/ /\ blobCache' = blobCache \cup {[key |-> CacheKey(m, p), block |-> b]}
              /\ blobs' = [blobs EXCEPT ![k] = BlobValue(b, DataOf(path), path)]
              /\ CallAdlb(m, <<<<path.id, MemberOf(path, <<>>)>>>>, <<p>>, FALSE, FALSE)
           \/ Abandon(p.mem, <<p.buf>>)

\* Faulty: the block is freed and stays in the table.
UncacheBlobFaulty(m, e) == [mem |-> Free(m, e.block), cache |-> blobCache]

\* uncache_blob: takes e, one of the entries with the key, from the table.
UncacheBlob(m, e) == [mem |-> Free(m, e.block), cache |-> blobCache \ {e}]

Cached(key) == {e \in blobCache : e.key = key}

\* What is left of the program's lists when it has given back number k.
WithoutBlob(k) ==
    [j \in 1 .. MaxBlobs |->
       IF j = k THEN NoBlob
       ELSE IF blobs[k].path # NoHandle /\ blobs[j].path = blobs[k].path
            THEN [blobs[j] EXCEPT !.freed = TRUE] ELSE blobs[j]]

\* ADLB_Blob_Free_Cmd, by handle.
BlobFree(k) ==
    /\ Idle
    /\ blobs[k].path # NoHandle
    /\ LET p == ParseHandle(mem, HandleOf(blobs[k].path), TRUE)
       IN  \E e \in Cached(CacheKey(p.mem, p)) :
             LET u == UncacheBlob(p.mem, e)
             IN  /\ blobCache' = u.cache
                 /\ SetMem(Cleanup(u.mem, p.buf))
    /\ blobs' = WithoutBlob(k)
    /\ UNCHANGED <<call, leaked, finalized>>

\* It is an error if the handle is not cached.
BlobFreeError(path) ==
    /\ Idle
    /\ LET p == ParseHandle(mem, HandleOf(path), TRUE)
       IN  /\ Cached(CacheKey(p.mem, p)) = {}
           /\ Abandon(p.mem, <<p.buf>>)

\* ADLB_Local_Blob_Free_Cmd, by list: a list without a handle owns its block;
\* one with a handle is looked for in the table, and freed itself if it is
\* not there.
LocalBlobFree(k) ==
    /\ Idle
    /\ blobs[k] # NoBlob
    /\ IF blobs[k].path = NoHandle
       THEN /\ SetMem(Free(mem, blobs[k].ptr))
            /\ UNCHANGED blobCache
       ELSE LET p == ParseHandle(mem, HandleOf(blobs[k].path), TRUE)
                hits == Cached(CacheKey(p.mem, p))
            IN  IF hits = {}
                THEN /\ SetMem(Cleanup(Free(p.mem, blobs[k].ptr), p.buf))
                     /\ UNCHANGED blobCache
                ELSE \E e \in hits :
                       LET u == UncacheBlob(p.mem, e)
                       IN  /\ blobCache' = u.cache
                           /\ SetMem(Cleanup(u.mem, p.buf))
    /\ blobs' = WithoutBlob(k)
    /\ UNCHANGED <<call, leaked, finalized>>

\* ADLB_Blob_From_Int_List_Cmd and the like: a block of the list's own, which
\* is filled element by element.  One that is no number is an error.
BlobFromList(list, k) ==
    /\ Idle
    /\ blobs[k] = NoBlob
    /\ LET m == Malloc(mem, list)
       IN  \/ /\ SetMem(m)
              /\ blobs' = [blobs EXCEPT ![k] = BlobValue(Fresh(mem), list, NoHandle)]
              /\ UNCHANGED <<blobCache, call, leaked, finalized>>
           \/ Abandon(m, <<Fresh(mem)>>)

\* blob_cache_finalize: the table and the blocks in it.
FinalizeBlobs ==
    /\ Idle
    /\ SetMem(FreeAll(mem, [e \in blobCache |-> e.block]))
    /\ blobCache' = {}
    /\ finalized' = TRUE
    /\ UNCHANGED <<blobs, call, leaked>>

Done == finalized /\ UNCHANGED commandsVars

CommandsNext ==
    \/ \E path \in Paths, sub \in Subs, moves \in BOOLEAN :
         \/ InsertAtomic(path, sub, moves)
         \/ \E kind \in {"container", "struct"} :
              \/ Lookup(path, kind, sub, moves)
              \/ \E ref \in Paths : Reference(path, kind, sub, ref, moves)
    \/ \E path \in Paths : Subscribe(path)
    \/ \E n \in 0 .. MaxInputs : \E paths \in [1 .. n -> Paths] :
         Rule(paths) \/ RuleError(paths)
    \/ Return
    \/ ReturnError
    \/ \E path \in BlobPaths, k \in 1 .. MaxBlobs : RetrieveBlob(path, k)
    \/ \E path \in BlobPaths : BlobFreeError(path)
    \/ \E k \in 1 .. MaxBlobs :
         \/ \E list \in Lists : BlobFromList(list, k)
         \/ BlobFree(k) \/ LocalBlobFree(k)
    \/ FinalizeBlobs
    \/ Done

CommandsSpec == CommandsInit /\ [][CommandsNext]_commandsVars

(***************************************************************************)
(* Properties                                                              *)
(***************************************************************************)
\* ADLB is passed the members the program named: the subscripts a handle was
\* built with, in order, and the one given beside it, each string ended; also
\* when a command holds several handles at once, one of them in the scratch
\* buffer, or one too long for that (tcl-adlb.c:4558, tcl-turbine.c:1041).  Two
\* cases are outside it.  When a struct subscript is appended to a handle that
\* has subscripts, its terminator is written inside the subscript
\* (tcl-adlb.c:5547).  When a block moves as a subscript is appended to it, the
\* old one is read where it was (tcl-adlb.c:5485).  StructMembers and
\* LongMembers state what the code promises there.
NamesMember == ~call.structAppend /\ ~call.stale => call.passed = call.asked

\* A struct subscript is passed as the text of all its indices, ended by one
\* terminator, also when it was put together from a handle and an index
\* (tcl-adlb.c:5521).
StructMembers == call.structAppend /\ ~call.stale => call.passed = call.asked

\* A subscript too long for the scratch buffer is passed as a short one is
\* (tcl-adlb.c:5464, 5487).
LongMembers == ~call.structAppend => call.passed = call.asked

\* Every live block has one owner, a table entry, a blob made locally or the
\* command under way, unless a failing command has left it behind.  No block is
\* freed twice, none that is owned is among those left behind, none vanishes
\* from the books, and the table has an entry for every retrieved list the
\* program still has to give back.
MemoryOwned ==
    LET held   == {k \in 1 .. MaxBlobs : blobs[k] # NoBlob}
        locals == {k \in held : blobs[k].path = NoHandle}
        lent   == Lent(call.bufs)
        owned  == {blobs[k].ptr : k \in locals} \cup {call.bufs[i] : i \in lent}
                  \cup {e.block : e \in blobCache}
    IN  /\ ~fault
        /\ DOMAIN heap = owned \cup leaked
        /\ owned \cap leaked = {}
        /\ Cardinality(owned) = Cardinality(locals) + Cardinality(lent) + Cardinality(blobCache)
        /\ ~finalized => Cardinality(blobCache) + Cardinality(locals) = Cardinality(held)

\* What a command parsed its handles into is released when it is over, whatever
\* it returns (tcl-adlb.h:123, tcl-turbine.c:401).
NothingLeaked == leaked = {}

\* A blob the program holds is intact as long as no free command has named its
\* handle: other retrieves, and handles that start with the same id, leave it
\* alone (blob_cache_key).  After such a command another list of the same
\* handle may be dead, for the table has both under one key.
BlobsValid ==
    ~finalized =>
        \A k \in 1 .. MaxBlobs :
            blobs[k] # NoBlob /\ ~blobs[k].freed =>
                /\ blobs[k].ptr \in DOMAIN heap
                /\ heap[blobs[k].ptr] = blobs[k].data

\* Every list the program has not given back points to its blob: a list with a
\* handle is in the table (tcl-adlb.c:3457), and giving back another list does
\* not free it.
ListsValid ==
    ~finalized =>
        \A k \in 1 .. MaxBlobs :
            blobs[k] # NoBlob => /\ blobs[k].ptr \in DOMAIN heap
                                 /\ heap[blobs[k].ptr] = blobs[k].data
=============================================================================
