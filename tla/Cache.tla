-------------------------------- MODULE Cache --------------------------------
(***************************************************************************)
(* A worker's cache of data-store values (code/src/turbine/cache.c), as    *)
(* the accessors of lib/data.tcl and lib/files.tcl use it.                 *)
(*                                                                         *)
(* The cache keeps one set of entries under two structures: a hash table   *)
(* from datum to entry, and a tree from the stamp of the last access to    *)
(* the entry, whose leftmost node is the next victim.  Memory is counted   *)
(* down in an unsigned long, so arithmetic on it is modulo 2^w.            *)
(*                                                                         *)
(* The data store is external: a datum is assigned once, counts the read   *)
(* references on it, and is deleted when there are none.  The worker is    *)
(* one process and its accessors do not overlap; the other ranks assign    *)
(* data and drop references between any two of its calls to the store.     *)
(***************************************************************************)
EXTENDS Integers, FiniteSets, FiniteSetsExt

CONSTANTS
  Data,        \* data of a type the accessors cache
  Eager,       \* those cached by their store accessor: integer, ref, file
  Values,      \* binary forms of values
  None,        \* no value, no datum
  Length,      \* bytes in the binary form of each value
  MaxEntries,  \* TURBINE_CACHE_SIZE
  MaxMemory,   \* TURBINE_CACHE_MAX
  Modulus,     \* 2^w, w the width of an unsigned long
  MaxRefs,     \* bound: read references this worker starts with
  MaxCounter   \* bound: accesses to the cache, and buffers handed to it

ASSUME DataAssumption == Eager \in SUBSET Data /\ None \notin Data /\ None \notin Values
ASSUME LengthAssumption == Length \in [Values -> Nat]
ASSUME SizeAssumption ==
  /\ MaxEntries \in Nat /\ Modulus \in Nat \ {0} /\ MaxMemory \in 0 .. Modulus - 1
  /\ MaxRefs \in Nat

VARIABLES
  phase,    \* "init", "run", "decr" (a hit owes a decrement), "end", "fail", "crash"
  entries,  \* the entries the table holds
  lru,      \* nodes of the tree: [key, td]
  counter, memory,
  buffers,  \* buffers cache_store was handed and nobody has freed
  current,  \* the datum of the hit in progress
  got,      \* what the last retrieve returned: [td, data]
  value,    \* data store: what each datum was assigned
  refs,     \* data store: read reference count of each datum
  mine,     \* read references code on this worker still holds
  theirs    \* read references other ranks still hold

cache == <<entries, lru, counter, memory, buffers>>
store == <<value, refs, mine, theirs>>
vars  == <<phase, cache, current, got, store>>

Entry == [td : Data, data : Values, stamp : Nat]

Init ==
  /\ phase = "init"
  /\ entries = {} /\ lru = {} /\ counter = 0 /\ memory = 0 /\ buffers = 0
  /\ current = None /\ got = [td |-> None, data |-> None]
  /\ value = [d \in Data |-> None]
  /\ mine = [d \in Data |-> MaxRefs] /\ theirs = [d \in Data |-> 1]
  /\ refs = [d \in Data |-> MaxRefs + 1]

\* setup_cache and turbine_cache_init.
CacheInit ==
  /\ phase = "init"
  /\ phase' = "run"
  /\ memory' = MaxMemory
  /\ UNCHANGED <<entries, lru, counter, buffers, current, got, store>>

-----------------------------------------------------------------------------
(* The cache's own operations. *)

\* turbine_cache_check
CacheCheck(d) == MaxEntries # 0 /\ \E e \in entries : e.td = d

\* entry_init, and the node a stamp gives an entry in the tree.
NewEntry(d, v) == [td |-> d, data |-> v, stamp |-> counter]
Node(k, d) == [key |-> k, td |-> d]

\* table_lp_search
EntryOf(d) == CHOOSE e \in entries : e.td = d

\* turbine_cache_retrieve: move the node, stamp the entry.
Touch(d) ==
  LET e == EntryOf(d) IN
  /\ lru' = (lru \ {Node(e.stamp, d)}) \cup {Node(counter, d)}
  /\ entries' = (entries \ {e}) \cup {[e EXCEPT !.stamp = counter]}
  /\ counter' = counter + 1
  /\ UNCHANGED <<memory, buffers>>

\* Faulty: the newest entry goes.
Rightmost(n) == n \in lru /\ \A m \in lru : n.key >= m.key

\* rbtree_leftmost
Leftmost(n) == n \in lru /\ \A m \in lru : n.key <= m.key

\* cache_shrink: memory is unsigned, so its loop is never entered.
Shrink(nodes, m) ==
  IF m < 0 THEN {n \in nodes : \E k \in nodes : k.key < n.key} ELSE nodes

\* memory -= length
Less(m, v) == (m - Length[v]) % Modulus

\* cache_add
CacheAdd(d, v) ==
  /\ entries' = entries \cup {NewEntry(d, v)}
  /\ memory' = Less(memory, v)
  /\ lru' = Shrink(lru \cup {Node(counter, d)}, memory')
  /\ counter' = counter + 1
  /\ buffers' = buffers + 1
  /\ UNCHANGED phase

\* Faulty: the victim's bytes are not given back.
ReplaceKeepsBytes(d, v) ==
  \E n \in lru : \E e \in entries :
    /\ Leftmost(n) /\ e.td = n.td
    /\ entries' = (entries \ {e}) \cup {NewEntry(d, v)}
    /\ memory' = Less(memory, v)
    /\ lru' = Shrink((lru \ {n}) \cup {Node(counter, d)}, memory')
    /\ counter' = counter + 1
    /\ UNCHANGED <<phase, buffers>>

\* Faulty: the victim's buffer is not freed.
ReplaceLeaks(d, v) ==
  \E n \in lru : \E e \in entries :
    /\ Leftmost(n) /\ e.td = n.td
    /\ entries' = (entries \ {e}) \cup {NewEntry(d, v)}
    /\ memory' = (memory + Length[e.data] - Length[v]) % Modulus
    /\ lru' = Shrink((lru \ {n}) \cup {Node(counter, d)}, memory')
    /\ counter' = counter + 1
    /\ buffers' = buffers + 1
    /\ UNCHANGED phase

(***************************************************************************)
(* cache_replace: the leftmost node's entry is reused for the new datum.   *)
(* With an empty tree there is no node, and the code dereferences NULL.    *)
(***************************************************************************)
CacheReplace(d, v) ==
  IF lru = {}
  THEN phase' = "crash" /\ UNCHANGED cache
  ELSE \E n \in lru : \E e \in entries :
         /\ Leftmost(n) /\ e.td = n.td
         /\ entries' = (entries \ {e}) \cup {NewEntry(d, v)}
         /\ memory' = (memory + Length[e.data] - Length[v]) % Modulus
         /\ lru' = Shrink((lru \ {n}) \cup {Node(counter, d)}, memory')
         /\ counter' = counter + 1
         /\ UNCHANGED <<phase, buffers>>

(***************************************************************************)
(* turbine_cache_store.  The cache owns the buffer it is handed; disabled, *)
(* it drops it on the floor.                                               *)
(***************************************************************************)
CacheStore(d, v) ==
  IF MaxEntries = 0
  THEN buffers' = buffers + 1 /\ UNCHANGED <<phase, entries, lru, counter, memory>>
  ELSE IF MaxEntries - Cardinality(entries) = 1
       THEN CacheReplace(d, v)
       ELSE CacheAdd(d, v)

-----------------------------------------------------------------------------
(* Accessors: store_integer, retrieve_integer and their like. *)

Busy == counter < MaxCounter /\ buffers < MaxCounter

\* The datum is closed and the caller holds a reference, as a rule's body does.
MayRead(d) == phase = "run" /\ value[d] # None /\ mine[d] > 0 /\ Busy

\* store_integer, store_ref, store_file, store_file_ref
StoreEager(d, v) ==
  /\ phase = "run" /\ Busy /\ d \in Eager
  /\ value[d] = None /\ refs[d] > 0
  /\ value' = [value EXCEPT ![d] = v]
  /\ CacheStore(d, v)
  /\ UNCHANGED <<current, got, refs, mine, theirs>>

\* store_float, store_string
StorePlain(d, v) ==
  /\ phase = "run" /\ d \notin Eager
  /\ value[d] = None /\ refs[d] > 0
  /\ value' = [value EXCEPT ![d] = v]
  /\ UNCHANGED <<phase, cache, current, got, refs, mine, theirs>>

\* Faulty: a hit with decrref leaves the store's count alone.
HitKeepsRef(d, decr) ==
  /\ MayRead(d) /\ CacheCheck(d)
  /\ Touch(d)
  /\ got' = [td |-> d, data |-> EntryOf(d).data]
  /\ mine' = [mine EXCEPT ![d] = @ - (IF decr THEN 1 ELSE 0)]
  /\ UNCHANGED <<phase, current, value, refs, theirs>>

\* Hit: cache_retrieve, then with decrref a call to the store is still to come.
RetrieveHit(d, decr) ==
  /\ MayRead(d) /\ CacheCheck(d)
  /\ Touch(d)
  /\ got' = [td |-> d, data |-> EntryOf(d).data]
  /\ \/ decr /\ phase' = "decr" /\ current' = d
     \/ ~decr /\ UNCHANGED <<phase, current>>
  /\ UNCHANGED store

\* read_refcount_decr after a hit
HitDecr ==
  /\ phase = "decr"
  /\ phase' = "run" /\ current' = None
  /\ refs' = [refs EXCEPT ![current] = @ - 1]
  /\ mine' = [mine EXCEPT ![current] = @ - 1]
  /\ UNCHANGED <<cache, got, value, theirs>>

\* Faulty: the cache is given the wrong datum's value.
MissValueOld(d) == IF got.data = None THEN value[d] ELSE got.data

\* What the miss path hands to cache_store.
MissValue(d) == value[d]

\* adlb::retrieve_decr or adlb::retrieve
StoreDrop(decr) == IF decr THEN 1 ELSE 0

(***************************************************************************)
(* Miss, or cachemode is not CACHED: ask the data store, which takes the   *)
(* reference back in the same call; the value goes into the cache in mode  *)
(* CACHED, except from multi_retrieve and for a struct.  A datum the store *)
(* no longer has is an error.                                              *)
(***************************************************************************)
RetrieveMiss(d, decr, keep) ==
  /\ MayRead(d)
  /\ keep => ~CacheCheck(d)
  /\ IF refs[d] = 0
     THEN phase' = "fail" /\ UNCHANGED <<cache, got, store>>
     ELSE /\ got' = [td |-> d, data |-> value[d]]
          /\ refs' = [refs EXCEPT ![d] = @ - StoreDrop(decr)]
          /\ mine' = [mine EXCEPT ![d] = @ - (IF decr THEN 1 ELSE 0)]
          /\ \/ keep /\ CacheStore(d, MissValue(d))
             \/ ~keep /\ UNCHANGED <<phase, cache>>
          /\ UNCHANGED <<value, theirs>>
  /\ UNCHANGED current

\* turbine_cache_finalize: the table's buffers, the table and the tree go.
Finalize ==
  /\ phase = "run"
  /\ phase' = "end"
  /\ buffers' = buffers - Cardinality(entries)
  /\ entries' = {} /\ lru' = {}
  /\ UNCHANGED <<counter, memory, current, got, store>>

-----------------------------------------------------------------------------
(* The other ranks, through the data store. *)

OtherStore(d, v) ==
  /\ value[d] = None /\ refs[d] > 0
  /\ value' = [value EXCEPT ![d] = v]
  /\ UNCHANGED <<phase, cache, current, got, refs, mine, theirs>>

OtherDecr(d) ==
  /\ theirs[d] > 0
  /\ theirs' = [theirs EXCEPT ![d] = @ - 1]
  /\ refs' = [refs EXCEPT ![d] = @ - 1]
  /\ UNCHANGED <<phase, cache, current, got, value, mine>>

-----------------------------------------------------------------------------
Next ==
  \/ CacheInit \/ HitDecr \/ Finalize
  \/ \E d \in Data :
       \/ OtherDecr(d)
       \/ \E v \in Values : StoreEager(d, v) \/ StorePlain(d, v) \/ OtherStore(d, v)
       \/ \E decr \in BOOLEAN : RetrieveHit(d, decr)
       \/ \E decr, keep \in BOOLEAN : RetrieveMiss(d, decr, keep)

Spec == Init /\ [][Next]_vars

-----------------------------------------------------------------------------
(* Properties. *)

\* The values the variables take.
TypeOK ==
  /\ phase \in {"init", "run", "decr", "end", "fail", "crash"}
  /\ entries \in SUBSET Entry
  /\ lru \in SUBSET [key : Nat, td : Data]
  /\ counter \in Nat /\ memory \in 0 .. Modulus - 1 /\ buffers \in Nat
  /\ current \in Data \cup {None}
  /\ got \in [td : Data \cup {None}, data : Values \cup {None}]
  /\ value \in [Data -> Values \cup {None}]
  /\ refs \in [Data -> Nat] /\ mine \in [Data -> Nat] /\ theirs \in [Data -> Nat]

(***************************************************************************)
(* The table and the tree are over the same entries: through any sequence  *)
(* of hits, additions and replacements each entry is under its own datum   *)
(* once in the table and under its own stamp once in the tree, so that     *)
(* rbtree_move and table_lp_remove always find what they look for.         *)
(***************************************************************************)
TablesAgree ==
  /\ lru = {Node(e.stamp, e.td) : e \in entries}
  /\ \A e, f \in entries : e.td = f.td \/ e.stamp = f.stamp => e = f
  /\ \A e \in entries : e.stamp < counter

(***************************************************************************)
(* The cache never holds more than TURBINE_CACHE_SIZE entries (in fact one *)
(* fewer: the last place is never filled), and assert(entries.size <=      *)
(* max_entries) holds at every store.                                      *)
(***************************************************************************)
WithinSize == entries # {} => Cardinality(entries) < MaxEntries

(***************************************************************************)
(* What the cache returns for a datum is what the store was assigned, also *)
(* after the store has deleted it, and so is the last value an accessor    *)
(* returned, by whichever of the two paths.                                *)
(***************************************************************************)
ValuesCurrent ==
  /\ \A e \in entries : e.data = value[e.td]
  /\ got.td # None => got.data = value[got.td]

(***************************************************************************)
(* A retrieve with decrref gives back one reference, whether the cache or  *)
(* the store answers: the store's count is what the ranks between them     *)
(* hold.  A decrement still owed after a hit is on a reference held.       *)
(***************************************************************************)
RefsBalanced ==
  /\ \A d \in Data : refs[d] = mine[d] + theirs[d]
  /\ phase = "decr" => current \in Data /\ mine[current] > 0

(***************************************************************************)
(* No accessor fails for a caller that holds a reference, and the cache    *)
(* never looks for a victim in an empty tree.                              *)
(***************************************************************************)
NoFailure == phase \notin {"fail", "crash"}

(***************************************************************************)
(* Every buffer handed to an enabled cache is freed exactly once, when its *)
(* entry is replaced or the cache finalized.                               *)
(***************************************************************************)
BuffersOwned == MaxEntries # 0 => buffers = Cardinality(entries)

Bytes == MapThenSumSet(LAMBDA e : Length[e.data], entries)

(***************************************************************************)
(* memory is the budget less the bytes of the entries, as an unsigned long *)
(* sees it.                                                                *)
(***************************************************************************)
MemoryAccounted == phase \in {"run", "decr"} => memory = (MaxMemory - Bytes) % Modulus

\* The entries E in the order of their stamps.
IsOrder(s, E) ==
  /\ s \in [1 .. Cardinality(E) -> E]
  /\ \A i, j \in 1 .. Cardinality(E) : i < j => s[i].stamp < s[j].stamp

Order(E) == CHOOSE s \in [1 .. Cardinality(E) -> E] : IsOrder(s, E)

UseOrder == [i \in 1 .. Cardinality(entries) |-> Order(entries)[i].td]
HeldValues == [d \in Data |-> IF \E e \in entries : e.td = d THEN EntryOf(d).data ELSE None]
Places == IF MaxEntries = 0 THEN 0 ELSE MaxEntries - 1

\* The cache as its comments describe it: a limited number of bytes.
Promised == INSTANCE LruCache WITH
              order <- UseOrder, holds <- HeldValues, Capacity <- Places, Budget <- MaxMemory

\* The cache as it is: cache_shrink never evicts, so the bytes have no limit.
Lru == INSTANCE LruCache WITH
         order <- UseOrder, holds <- HeldValues, Capacity <- Places, Budget <- None

(***************************************************************************)
(* The stamps, the table and the tree together behave as a least recently  *)
(* used cache of TURBINE_CACHE_SIZE - 1 entries: a hit makes its datum the *)
(* youngest, a store to a full cache displaces the oldest and no other.    *)
(* This is the promise without its budget, which has no effect in the      *)
(* code; WithinBudget is the part that does not hold.                      *)
(***************************************************************************)
ImplementsLru == Lru!Spec

(***************************************************************************)
(* The entries never take more bytes than TURBINE_CACHE_MAX: "After a      *)
(* cache update, we may be over-allocated on memory.  Shrink the cache     *)
(* until we are under budget again" (cache_shrink).                        *)
(***************************************************************************)
WithinBudget == Promised!WithinBudget

=============================================================================
