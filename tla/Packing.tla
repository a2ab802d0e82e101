------------------------------ MODULE Packing ------------------------------
(***************************************************************************)
(* How Tcl values become the bytes the data store and the checkpoint file  *)
(* hold, and how they come back (code/src/tcl/adlb/tcl-adlb.c).            *)
(*                                                                         *)
(* One interpreter declares its struct types, packs the arguments of a     *)
(* call (adlb::xpt_pack, the key of a checkpoint entry), packs those of a  *)
(* second call of the same function, unpacks the first ones again          *)
(* (adlb::xpt_unpack), and passes the first argument through the store     *)
(* (adlb::store, adlb::retrieve, adlb::enumerate).                         *)
(*                                                                         *)
(* A Tcl object is a tagged pair: <<"type", t>> for a type name,           *)
(* <<"int", n>>, <<"str", characters>>, <<"dict", pairs in order of        *)
(* insertion>> or <<"list", elements>>.  A buffer is a sequence of cells,  *)
(* a cell standing for what one ADLB routine appends at once.  ADLB's own  *)
(* routines are modelled by what the commands expect of them.              *)
(***************************************************************************)
EXTENDS Integers, Sequences, FiniteSets, SequencesExt, TLC

CONSTANTS
    Structs,      \* <<[name |-> type name, fields |-> <<<<field name, type>>, ...>>], ...>>
    NamesInit,    \* the initial size of field_name_objs (64 in the code)
    VintMax,      \* VINT_MAX_BYTES, the cells reserved for an unknown length
    Signatures    \* sets of argument lists, each the calls of one function

ASSUME PackingAssumption ==
    /\ NamesInit \in Nat \ {0}
    /\ VintMax \in Nat \ {0}

VARIABLES
    names,        \* field_name_objs: its size and the struct ids it holds
    calls,        \* the two argument lists
    packed,       \* the two buffers
    argpos,       \* the next argument to pack, in each list
    out,          \* the values unpacked so far, <<>> before the first
    bufpos,       \* packed_pos of the unpacking
    datum,        \* what the store holds: a type and a buffer
    got,          \* the values read from the store, by command
    failed,       \* some command returned TCL_ERROR or an assertion failed
    pc

vars == <<names, calls, packed, argpos, out, bufpos, datum, got, failed, pc>>

Nothing == <<"none", 0>>
Type(t) == <<"type", t>>

(***************************************************************************)
(* Type names                                                              *)
(***************************************************************************)
StructIds == 0 .. Len(Structs) - 1

IsStruct(t) == \E i \in StructIds : Structs[i + 1].name = t

IdOf(t) == CHOOSE i \in StructIds : Structs[i + 1].name = t

FieldsOf(t) == Structs[IdOf(t) + 1].fields

\* The types whose length is not known before they are packed
\* (ADLB_pack_pad_size).
Padded(t) == t \in {"container", "multiset"}

\* get_compound_type: the position behind the type names that start at p,
\* need of them being still to read.
RECURSIVE SlurpTypes(_, _, _)
SlurpTypes(objv, p, need) ==
    IF need = 0 \/ p > Len(objv) THEN p
    ELSE SlurpTypes(objv, p + 1,
           IF objv[p] = Type("container") THEN 2
           ELSE IF objv[p] = Type("multiset") THEN 1
           ELSE need - 1)

CompoundTypeAt(objv, p) ==
    [i \in 1 .. SlurpTypes(objv, p, 1) - p |-> objv[p + i - 1][2]]

(***************************************************************************)
(* Packing                                                                 *)
(***************************************************************************)
Err == <<"error", 0>>
Nul == <<"char", 0>>

Chars(s) == [i \in 1 .. Len(s) |-> <<"char", s[i]>>] \o <<Nul>>

\* ADLB_Append_buffer's prefix, and the one that is reserved first and
\* written over when the length is known.
Prefix(n) == <<<<"len", n>>>>
ReservedPrefix(n) == Prefix(n) \o [i \in 1 .. VintMax - 1 |-> <<"pad", 0>>]

PrefixCells(t) == IF Padded(t) THEN VintMax ELSE 1

DictKeys(v) == {v[2][i][1] : i \in 1 .. Len(v[2])}

DictGet(v, k) == v[2][CHOOSE i \in 1 .. Len(v[2]) : v[2][i][1] = k][2]

\* The string representation Tcl's lsort compares, a word per character.
RECURSIVE Representation(_)
Representation(v) ==
    CASE v[1] = "int"  -> <<v[2]>>
      [] v[1] = "str"  -> v[2]
      [] v[1] = "dict" -> FlattenSeq([i \in 1 .. Len(v[2]) |->
                             v[2][i][1] \o Representation(v[2][i][2])])
      [] v[1] = "list" -> FlattenSeq([i \in 1 .. Len(v[2]) |->
                             Representation(v[2][i])])

Precedes(a, b) ==
    \E k \in 0 .. Len(a) :
        /\ k < Len(b)
        /\ SubSeq(a, 1, k) = SubSeq(b, 1, k)
        /\ k = Len(a) \/ a[k + 1] < b[k + 1]

LSort(vs) ==
    LET Before(a, b) == Precedes(Representation(a), Representation(b))
    IN  SortSeq(vs, Before)

SortedEntries(entries) ==
    LET Before(a, b) == Precedes(a[1], b[1])
    IN  SortSeq(entries, Before)

\* tcl_dict_to_adlb_struct and ADLB_Pack: a header with the offset of each
\* field, and a cell before each field that says whether the dict has it.
\* adlb_tclobj2datum refuses containers and multisets.
RECURSIVE PackDatum(_, _), PackStruct(_, _)
PackStruct(t, v) ==
    LET fields == FieldsOf(t)
        n      == Len(fields)
        body   == [i \in 1 .. n |->
                     IF fields[i][1] \in DictKeys(v)
                     THEN <<<<"valid", 1>>>> \o
                          PackDatum(fields[i][2], DictGet(v, fields[i][1]))
                     ELSE <<<<"valid", 0>>>>]
        before(i) == Len(FlattenSeq(SubSeq(body, 1, i - 1)))
    IN  <<Type(t)>>
        \o [i \in 1 .. n |-> <<"offset", 1 + n + before(i)>>]
        \o FlattenSeq(body)

PackDatum(t, v) ==
    CASE t = "integer" -> <<v>>
      [] t = "string"  -> Chars(v[2])
      [] IsStruct(t)   -> PackStruct(t, v)
      [] Padded(t)     -> <<Err>>

\* Faulty: the keys are left in the order they were inserted in.
EntriesOfFaulty(v, canonicalize) == v[2]

\* The entries of a dict, the keys in order when the result is to be canonical.
EntriesOf(v, canonicalize) ==
    IF canonicalize THEN SortedEntries(v[2]) ELSE v[2]

ElementsOf(v, canonicalize) ==
    IF canonicalize THEN LSort(v[2]) ELSE v[2]

AppendKey(key) == Prefix(Len(key) + 1) \o Chars(key)

\* adlb_tclobj_bin_append: types[p] is the type of v, what follows it the
\* types of v's parts.  Reading past the end of types is an error.
RECURSIVE BinAppend(_, _, _, _, _), AppendKeyVal(_, _, _, _),
          PackContainer(_, _, _, _), PackMultiset(_, _, _, _)
BinAppend(types, p, v, prefix, canonicalize) ==
    IF p > Len(types) THEN <<Err>>
    ELSE IF Padded(types[p])
    THEN LET body == IF types[p] = "container"
                     THEN PackContainer(types, p + 1, v, canonicalize)
                     ELSE PackMultiset(types, p + 1, v, canonicalize)
         IN  (IF prefix THEN ReservedPrefix(Len(body)) ELSE <<>>) \o body
    ELSE LET data == PackDatum(types[p], v)
         IN  (IF prefix THEN Prefix(Len(data)) ELSE <<>>) \o data

\* tcl_append_key_val: the value's type, at p, is read again for each value.
AppendKeyVal(types, p, entry, canonicalize) ==
    AppendKey(entry[1]) \o BinAppend(types, p, entry[2], TRUE, canonicalize)

\* tcl_dict_to_packed_container: the key's type at p, the value's behind it.
PackContainer(types, p, v, canonicalize) ==
    IF p + 1 > Len(types) THEN <<Err>>
    ELSE LET entries == EntriesOf(v, canonicalize)
         IN  <<<<"entries", Len(entries)>>, Type(types[p]), Type(types[p + 1])>>
             \o FlattenSeq([i \in 1 .. Len(entries) |->
                  AppendKeyVal(types, p + 1, entries[i], canonicalize)])

\* tcl_list_to_packed_multiset
PackMultiset(types, p, v, canonicalize) ==
    IF p > Len(types) THEN <<Err>>
    ELSE LET elements == ElementsOf(v, canonicalize)
         IN  <<<<"entries", Len(elements)>>, Type(types[p])>>
             \o FlattenSeq([i \in 1 .. Len(elements) |->
                  BinAppend(types, p, elements[i], TRUE, canonicalize)])

\* adlb_tclobj2bin_compound, and adlb_tclobj2bin, which knows one type.
CompoundBin(types, v, canonicalize) == BinAppend(types, 1, v, FALSE, canonicalize)
SimpleBin(t, v) == BinAppend(<<t>>, 1, v, FALSE, FALSE)

Spoilt(buf) == \E i \in 1 .. Len(buf) : buf[i] = Err

(***************************************************************************)
(* Unpacking                                                               *)
(***************************************************************************)
Bad == <<"bad", 0>>

\* ADLB_Unpack_buffer: what the length at position p (from 0) says, and the
\* position behind it.
LengthAt(buf, p) == buf[p + 1][2]
DataAt(t, buf, p) ==
    SubSeq(buf, p + PrefixCells(t) + 1, p + PrefixCells(t) + LengthAt(buf, p))
After(t, buf, p) == p + PrefixCells(t) + LengthAt(buf, p)

CanUnpack(t, buf, p) ==
    /\ p < Len(buf)
    /\ buf[p + 1][1] = "len"
    /\ After(t, buf, p) <= Len(buf)

\* Faulty: the terminator is taken for a character.
StringOfFaulty(buf) == [i \in 1 .. Len(buf) |-> buf[i][2]]

\* A packed string without its terminator.
StringOf(buf) == [i \in 1 .. Len(buf) - 1 |-> buf[i][2]]

\* A field of a packed struct runs to the offset of the next one, the last to
\* the end.  Its start and end are positions from 0.
FieldStart(buf, i) == buf[1 + i][2]
FieldEnd(buf, n, i) == IF i = n THEN Len(buf) ELSE FieldStart(buf, i + 1)

\* adlb_datum2tclobj
RECURSIVE ToObj(_, _), StructToDict(_, _), Entries(_, _, _, _, _), Elements(_, _, _, _, _)
ToObj(t, buf) ==
    CASE t = "integer"   -> IF Len(buf) = 1 THEN buf[1] ELSE Bad
      [] t = "string"    -> IF buf # <<>> /\ Last(buf) = Nul
                            THEN <<"str", StringOf(buf)>> ELSE Bad
      [] IsStruct(t)     -> StructToDict(t, buf)
      [] t = "container" -> <<"dict", Entries(buf, 3, buf[1][2], buf[3][2], TRUE)>>
      [] t = "multiset"  -> <<"list", Elements(buf, 2, buf[1][2], buf[2][2], TRUE)>>

\* packed_struct_to_tcl_dict: the fields that are there.
StructToDict(t, buf) ==
    LET fields == FieldsOf(t)
        n == Len(fields)
        there == SelectSeq([i \in 1 .. n |-> i],
                   LAMBDA i : buf[FieldStart(buf, i) + 1] = <<"valid", 1>>)
        val(i) == ToObj(fields[i][2],
                    SubSeq(buf, FieldStart(buf, i) + 2, FieldEnd(buf, n, i)))
    IN  IF buf = <<>> \/ buf[1] # Type(t) THEN Bad
        ELSE <<"dict", [k \in 1 .. Len(there) |->
                 <<fields[there[k]][1], val(there[k])>>]>>

\* The n entries of packed_container_to_dict from position p on, with whole to
\* the end of the buffer: bytes left over are an error.
Entries(buf, p, n, valType, whole) ==
    IF n = 0 THEN IF whole => p = Len(buf) THEN <<>> ELSE <<<<<<>>, Bad>>>>
    ELSE IF ~CanUnpack("string", buf, p) THEN <<<<<<>>, Bad>>>>
    ELSE LET q == After("string", buf, p)
         IN  IF ~CanUnpack(valType, buf, q) THEN <<<<<<>>, Bad>>>>
             ELSE <<<<StringOf(DataAt("string", buf, p)),
                      ToObj(valType, DataAt(valType, buf, q))>>>>
                  \o Entries(buf, After(valType, buf, q), n - 1, valType, whole)

\* Those of packed_multiset_to_list.
Elements(buf, p, n, elemType, whole) ==
    IF n = 0 THEN IF whole => p = Len(buf) THEN <<>> ELSE <<Bad>>
    ELSE IF ~CanUnpack(elemType, buf, p) THEN <<Bad>>
    ELSE <<ToObj(elemType, DataAt(elemType, buf, p))>>
         \o Elements(buf, After(elemType, buf, p), n - 1, elemType, whole)

(***************************************************************************)
(* The commands                                                            *)
(***************************************************************************)
Init ==
    /\ names = [size |-> NamesInit, ids |-> {}]
    /\ calls \in UNION {S \X S : S \in Signatures}
    /\ packed = <<<<>>, <<>>>>
    /\ argpos = <<1, 1>>
    /\ out = <<>>
    /\ bufpos = 0
    /\ datum = Nothing
    /\ got = <<>>
    /\ failed = FALSE
    /\ pc = "declare"

\* field_name_objs_add: the table doubles, or grows to the id itself when that
\* is not enough.
NamesSize(id) ==
    IF names.size > id THEN names.size
    ELSE IF names.size * 2 <= id THEN id ELSE names.size * 2

\* ADLB_Declare_Struct_Type_Cmd: the compiler numbers the types from 0.
DeclareStruct ==
    /\ pc = "declare"
    /\ LET id == Cardinality(names.ids)
       IN  /\ id \in StructIds
           /\ names' = [size |-> NamesSize(id), ids |-> names.ids \cup {id}]
           /\ failed' = (failed \/ id >= NamesSize(id))
    /\ UNCHANGED <<calls, packed, argpos, out, bufpos, datum, got, pc>>

Declared ==
    /\ pc = "declare"
    /\ names.ids = StructIds
    /\ pc' = "pack"
    /\ UNCHANGED <<names, calls, packed, argpos, out, bufpos, datum, got, failed>>

\* A turn of the loop of ADLB_Xpt_Pack_Cmd, for the first or the second call.
PackField(c) ==
    /\ pc = "pack"
    /\ c = 2 => argpos[1] > Len(calls[1])
    /\ argpos[c] <= Len(calls[c])
    /\ LET p == argpos[c]
           q == SlurpTypes(calls[c], p, 1)
           bytes == IF q > Len(calls[c]) THEN <<Err>>
                    ELSE BinAppend(CompoundTypeAt(calls[c], p), 1, calls[c][q],
                                   TRUE, TRUE)
       IN  /\ packed' = [packed EXCEPT ![c] = @ \o bytes]
           /\ argpos' = [argpos EXCEPT ![c] = q + 1]
           /\ failed' = (failed \/ Spoilt(bytes))
    /\ UNCHANGED <<names, calls, out, bufpos, datum, got, pc>>

Packed ==
    /\ pc = "pack"
    /\ \A c \in 1 .. 2 : argpos[c] > Len(calls[c])
    /\ pc' = IF failed THEN "done" ELSE "unpack"
    /\ argpos' = [argpos EXCEPT ![1] = 1]
    /\ UNCHANGED <<names, calls, packed, out, bufpos, datum, got, failed>>

\* A turn of the loop of ADLB_Xpt_Unpack_Cmd, which is given the outermost
\* type of each field only.
UnpackField ==
    /\ pc = "unpack"
    /\ argpos[1] <= Len(calls[1])
    /\ LET t == calls[1][argpos[1]][2]
           ok == CanUnpack(t, packed[1], bufpos)
           obj == IF ok THEN ToObj(t, DataAt(t, packed[1], bufpos)) ELSE Bad
       IN  /\ out' = Append(out, obj)
           /\ bufpos' = IF ok THEN After(t, packed[1], bufpos) ELSE bufpos
           /\ failed' = (failed \/ obj = Bad)
           /\ argpos' = [argpos EXCEPT ![1] = SlurpTypes(calls[1], @, 1) + 1]
    /\ UNCHANGED <<names, calls, packed, datum, got, pc>>

Unpacked ==
    /\ pc = "unpack"
    /\ argpos[1] > Len(calls[1])
    /\ pc' = "store"
    /\ UNCHANGED <<names, calls, packed, argpos, out, bufpos, datum, got, failed>>

FirstType == calls[1][1][2]
FirstValue == calls[1][SlurpTypes(calls[1], 1, 1)]

\* ADLB_Store_Cmd: a container or multiset is packed with all its types
\* (adlb_tclobj2bin_compound), another value alone (adlb_tclobj2bin).
Store ==
    /\ pc = "store"
    /\ LET bytes == IF Padded(FirstType)
                    THEN CompoundBin(CompoundTypeAt(calls[1], 1), FirstValue, FALSE)
                    ELSE SimpleBin(FirstType, FirstValue)
       IN  /\ datum' = <<FirstType, bytes>>
           /\ failed' = (failed \/ Spoilt(bytes))
    /\ pc' = "retrieve"
    /\ UNCHANGED <<names, calls, packed, argpos, out, bufpos, got>>

\* ADLB_Retrieve_Impl with the type given, which must be the one stored.
Retrieve ==
    /\ pc = "retrieve"
    /\ datum[1] = FirstType
    /\ LET obj == ToObj(datum[1], datum[2])
       IN  /\ got' = Append(got, obj)
           /\ failed' = (failed \/ obj = Bad)
    /\ pc' = IF FirstType = "container" THEN "enumerate" ELSE "done"
    /\ UNCHANGED <<names, calls, packed, argpos, out, bufpos, datum>>

\* ADLB_Enumerate: the server sends the entries without a header.
EnumerateReply(keys, vals) ==
    LET entries == FirstValue[2]
        valTypes == Tail(Tail(CompoundTypeAt(calls[1], 1)))
    IN  FlattenSeq([i \in 1 .. Len(entries) |->
            (IF keys THEN AppendKey(entries[i][1]) ELSE <<>>)
            \o (IF vals THEN BinAppend(valTypes, 1, entries[i][2], TRUE, FALSE)
                        ELSE <<>>)])

\* ADLB_Enumerate_Cmd and enumerate_object: a dict, a list of subscripts, one
\* of members, or the number of records.
EnumerateObject(keys, vals) ==
    LET n == Len(FirstValue[2])
        buf == EnumerateReply(keys, vals)
        valType == datum[2][3][2]
        keyList[i \in 0 .. n] == IF i = 0 THEN 0 ELSE After("string", buf, keyList[i - 1])
    IN  CASE keys /\ vals   -> <<"dict", Entries(buf, 0, n, valType, FALSE)>>
          [] keys /\ ~vals  -> <<"list", [i \in 1 .. n |->
                                 <<"str", StringOf(DataAt("string", buf, keyList[i - 1]))>>]>>
          [] ~keys /\ vals  -> <<"list", Elements(buf, 0, n, valType, FALSE)>>
          [] ~keys /\ ~vals -> <<"int", n>>

Enumerate ==
    /\ pc = "enumerate"
    /\ \E keys, vals \in BOOLEAN :
         got' = Append(got, <<keys, vals, EnumerateObject(keys, vals)>>)
    /\ pc' = "done"
    /\ UNCHANGED <<names, calls, packed, argpos, out, bufpos, datum, failed>>

Done == pc = "done" /\ UNCHANGED vars

Next ==
    \/ DeclareStruct \/ Declared
    \/ \E c \in 1 .. 2 : PackField(c)
    \/ Packed \/ UnpackField \/ Unpacked
    \/ Store \/ Retrieve \/ Enumerate
    \/ Done

Spec == Init /\ [][Next]_vars

(***************************************************************************)
(* Properties                                                              *)
(***************************************************************************)
\* Equal as Swift values: a dict has no order, nor has a multiset.
RECURSIVE Same(_, _)
Same(v, w) ==
    /\ v[1] = w[1]
    /\ CASE v[1] = "dict" -> /\ DictKeys(v) = DictKeys(w)
                             /\ \A k \in DictKeys(v) : Same(DictGet(v, k), DictGet(w, k))
         [] v[1] = "list" -> /\ Len(v[2]) = Len(w[2])
                             /\ \E p \in Permutations(1 .. Len(v[2])) :
                                  \A i \in 1 .. Len(v[2]) : Same(v[2][i], w[2][p[i]])
         [] OTHER         -> v[2] = w[2]

IsValue(obj) == obj[1] # "type"

ValuesOf(call) == SelectSeq(call, IsValue)

SameCall(c, d) ==
    LET v == ValuesOf(c)
        w == ValuesOf(d)
    IN  /\ Len(v) = Len(w)
        /\ \A i \in 1 .. Len(v) : Same(v[i], w[i])

\* What the commands read back is what they were given, whatever the nesting:
\* the fields of a checkpoint entry, a stored value, and the entries of an
\* enumerated container.  The lengths, offsets and types that
\* adlb_tclobj_bin_append writes in one pass are the ones adlb_datum2tclobj
\* finds, although it is told the outermost type only.  Nothing fails on the
\* way: the list of types lasts as long as the nesting of the value, every
\* length read lies in the buffer, and the table of field names holds every id
\* (field_name_objs_add, tcl-adlb.c:598-616).
RoundTrip ==
    /\ ~failed
    /\ \A i \in 1 .. Len(out) : Same(out[i], ValuesOf(calls[1])[i])
    /\ got # <<>> => Same(got[1], FirstValue)
    /\ Len(got) = 2 =>
         LET entries == FirstValue[2]
             result == got[2][3]
         IN  CASE got[2][1] /\ got[2][2]   -> result = FirstValue
               [] got[2][1] /\ ~got[2][2]  ->
                    result[2] = [i \in 1 .. Len(entries) |-> <<"str", entries[i][1]>>]
               [] ~got[2][1] /\ got[2][2]  ->
                    result[2] = [i \in 1 .. Len(entries) |-> entries[i][2]]
               [] ~got[2][1] /\ ~got[2][2] -> result[2] = Len(entries)

\* Two calls of a function have one checkpoint key if and only if their
\* arguments are equal: adlb::xpt_pack with canonicalize neither tells equal
\* dicts and multisets apart by the order they were built in, nor runs two
\* arguments together (tcl-adlb.c:5137-5147).  Multisets of dicts are outside
\* it: lsort compares their elements before the elements are canonical.
KeyIdentity ==
    pc \in {"unpack", "store"} =>
        (packed[1] = packed[2] <=> SameCall(calls[1], calls[2]))
=============================================================================
