----------------------------- MODULE CacheProofs -----------------------------
(***************************************************************************)
(* Proofs about Cache, for every set of data, size of cache and width of   *)
(* the memory count.                                                       *)
(*                                                                         *)
(* The invariants support one another: that a store never repeats a key of *)
(* the table rests on cached values being those of assigned data, that the *)
(* leftmost node has an entry rests on the two structures agreeing, and    *)
(* that there is a leftmost node rests on the count of entries.            *)
(***************************************************************************)
EXTENDS Cache, Sequences, FiniteSetTheorems, SequenceTheorems, WellFoundedInduction, TLAPS

\* Table E and tree L are over the same entries, all stamped before k.
Agree(E, L, k) ==
  /\ L = {Node(e.stamp, e.td) : e \in E}
  /\ \A e, f \in E : e.td = f.td \/ e.stamp = f.stamp => e = f
  /\ \A e \in E : e.stamp < k

\* The number of entries leaves the last place free.
Room(E) == IsFiniteSet(E) /\ (E # {} => Cardinality(E) < MaxEntries)

GotInv == got.td # None => got.data # None

CInv ==
  /\ TypeOK /\ Agree(entries, lru, counter) /\ Room(entries)
  /\ ValuesCurrent /\ GotInv /\ RefsBalanced /\ BuffersOwned

-----------------------------------------------------------------------------
(* Facts about the table and the tree. *)

\* Dropping an entry from both keeps them in agreement.
LEMMA AgreeDrop ==
  ASSUME NEW E \in SUBSET Entry, NEW L, NEW k \in Nat, NEW e \in E, Agree(E, L, k)
  PROVE  Agree(E \ {e}, L \ {Node(e.stamp, e.td)}, k)
<1>1. \A f \in E : Node(f.stamp, f.td) = Node(e.stamp, e.td) => f = e
  BY DEF Agree, Node, Entry
<1> QED BY <1>1 DEF Agree

\* Adding an entry of a new datum, stamped with the counter, to both does too.
LEMMA AgreeAdd ==
  ASSUME NEW E \in SUBSET Entry, NEW L, NEW k \in Nat, NEW n \in Entry,
         Agree(E, L, k), n.stamp = k, \A f \in E : f.td # n.td
  PROVE  Agree(E \cup {n}, L \cup {Node(k, n.td)}, k + 1)
<1>1. \A f \in E : f.stamp \in Nat /\ f.stamp < k
  BY DEF Agree, Entry
<1>2. \A e, f \in E \cup {n} : e.td = f.td \/ e.stamp = f.stamp => e = f
  BY <1>1 DEF Agree
<1>3. \A e \in E \cup {n} : e.stamp < k + 1
  BY <1>1
<1>4. L \cup {Node(k, n.td)} = {Node(e.stamp, e.td) : e \in E \cup {n}}
  BY DEF Agree
<1> QED BY <1>2, <1>3, <1>4 DEF Agree

\* The unsigned count stays in its range.
LEMMA MemoryRange == ASSUME NEW x \in Int PROVE x % Modulus \in 0 .. Modulus - 1
BY SizeAssumption

\* An unsigned count is never negative: cache_shrink does nothing.
LEMMA ShrinkNothing == ASSUME NEW L, NEW m \in Nat PROVE Shrink(L, m) = L
BY DEF Shrink

\* A found entry is in the table, under the datum looked for.
LEMMA EntryFound ==
  ASSUME NEW d \in Data, CacheCheck(d)
  PROVE  EntryOf(d) \in entries /\ EntryOf(d).td = d
BY DEF CacheCheck, EntryOf

-----------------------------------------------------------------------------
(* What the cache's operations do to the invariant. *)

CacheTypes ==
  /\ entries \in SUBSET Entry /\ lru \in SUBSET [key : Nat, td : Data]
  /\ counter \in Nat /\ memory \in 0 .. Modulus - 1 /\ buffers \in Nat

\* Replacing one entry, or none, by a new one stamped with the counter.
LEMMA SwapEntry ==
  ASSUME CInv, NEW e \in entries, NEW n \in Entry, n.stamp = counter,
         \A f \in entries \ {e} : f.td # n.td,
         entries' = (entries \ {e}) \cup {n},
         lru' = (lru \ {Node(e.stamp, e.td)}) \cup {Node(counter, n.td)},
         counter' = counter + 1
  PROVE  /\ entries' \in SUBSET Entry /\ lru' \in SUBSET [key : Nat, td : Data]
         /\ counter' \in Nat
         /\ Agree(entries', lru', counter') /\ Room(entries')
         /\ Cardinality(entries') = Cardinality(entries)
<1>1. entries \in SUBSET Entry /\ lru \in SUBSET [key : Nat, td : Data] /\ counter \in Nat
  BY DEF CInv, TypeOK
<1>2. Agree(entries \ {e}, lru \ {Node(e.stamp, e.td)}, counter)
  BY <1>1, AgreeDrop DEF CInv
<1>3. Agree(entries', lru', counter')
  BY <1>1, <1>2, AgreeAdd
<1>4. n.td \in Data /\ Node(counter, n.td) \in [key : Nat, td : Data]
  BY <1>1 DEF Entry, Node
<1>5. IsFiniteSet(entries) /\ Cardinality(entries) \in Nat
  BY FS_CardinalityType DEF CInv, Room
<1>6. IsFiniteSet(entries \ {e}) /\ Cardinality(entries \ {e}) = Cardinality(entries) - 1
  BY <1>5, FS_RemoveElement
<1>7. n \notin entries \ {e}
  OBVIOUS
<1>8. IsFiniteSet(entries') /\ Cardinality(entries') = Cardinality(entries)
  <2> DEFINE R == entries \ {e}
  <2>1. IsFiniteSet(R) /\ n \notin R /\ Cardinality(R) = Cardinality(entries) - 1
    BY <1>6, <1>7
  <2>2. entries' = R \cup {n}
    OBVIOUS
  <2> HIDE DEF R
  <2>3. IsFiniteSet(R \cup {n}) /\ Cardinality(R \cup {n}) = Cardinality(R) + 1
    BY <2>1, FS_AddElement
  <2>4. Cardinality(R \cup {n}) = Cardinality(entries)
    BY <1>5, <2>1, <2>3
  <2>5. IsFiniteSet(entries')
    BY <2>2, <2>3
  <2> QED BY <2>2, <2>4, <2>5
<1> QED BY <1>1, <1>3, <1>4, <1>8 DEF Room, CInv

\* A hit restamps its entry and changes no value.
LEMMA TouchOK ==
  ASSUME CInv, NEW d \in Data, CacheCheck(d), Touch(d)
  PROVE  /\ CacheTypes' /\ Agree(entries', lru', counter') /\ Room(entries')
         /\ BuffersOwned'
         /\ \A f \in entries' : \E g \in entries : f.td = g.td /\ f.data = g.data
<1> DEFINE e == EntryOf(d)
           n == [e EXCEPT !.stamp = counter]
<1>1. e \in entries /\ e.td = d /\ e \in Entry /\ counter \in Nat
  BY EntryFound DEF CInv, TypeOK
<1>2. n \in Entry /\ n.stamp = counter /\ n.td = d /\ n.data = e.data
  BY <1>1 DEF Entry
<1>3. \A f \in entries \ {e} : f.td # n.td
  BY <1>1, <1>2 DEF CInv, Agree
<1>4. /\ entries' = (entries \ {e}) \cup {n}
      /\ lru' = (lru \ {Node(e.stamp, e.td)}) \cup {Node(counter, n.td)}
      /\ counter' = counter + 1 /\ memory' = memory /\ buffers' = buffers
  BY <1>1, <1>2 DEF Touch
<1> HIDE DEF e, n
<1>5. /\ entries' \in SUBSET Entry /\ lru' \in SUBSET [key : Nat, td : Data]
      /\ counter' \in Nat /\ Agree(entries', lru', counter') /\ Room(entries')
      /\ Cardinality(entries') = Cardinality(entries)
  BY <1>1, <1>2, <1>3, <1>4, SwapEntry
<1>6. BuffersOwned'
  BY <1>4, <1>5 DEF CInv, BuffersOwned
<1>7. CacheTypes'
  BY <1>4, <1>5 DEF CInv, TypeOK, CacheTypes
<1> QED BY <1>1, <1>2, <1>4, <1>5, <1>6, <1>7

\* A store of a datum not in the cache adds it, in place of another or not.
LEMMA StoreOK ==
  ASSUME CInv, NEW d \in Data, NEW v \in Values, CacheStore(d, v),
         \A f \in entries : f.td # d
  PROVE  /\ CacheTypes' /\ Agree(entries', lru', counter') /\ Room(entries')
         /\ BuffersOwned'
         /\ phase' = phase \/ (phase' = "crash" /\ MaxEntries = 1)
         /\ \A f \in entries' : f \in entries \/ (f.td = d /\ f.data = v)
<1> DEFINE n == NewEntry(d, v)
<1>1. /\ entries \in SUBSET Entry /\ lru \in SUBSET [key : Nat, td : Data]
      /\ counter \in Nat /\ memory \in 0 .. Modulus - 1 /\ buffers \in Nat
      /\ MaxEntries \in Nat /\ Modulus \in Nat \ {0} /\ Length[v] \in Nat
  BY SizeAssumption, LengthAssumption DEF CInv, TypeOK
<1>2. n \in Entry /\ n.stamp = counter /\ n.td = d /\ n.data = v
  BY <1>1 DEF Entry, NewEntry
<1>3. IsFiniteSet(entries) /\ Cardinality(entries) \in Nat
  BY FS_CardinalityType DEF CInv, Room
<1>4. CASE MaxEntries = 0
  <2>1. entries = {}
    BY <1>3, <1>4 DEF CInv, Room
  <2>2. buffers' = buffers + 1 /\ UNCHANGED <<phase, entries, lru, counter, memory>>
    BY <1>3, <1>4, <2>1, FS_EmptySet DEF CacheStore
  <2> QED BY <1>1, <1>4, <2>2 DEF CInv, BuffersOwned, CacheTypes
<1>5. CASE MaxEntries - Cardinality(entries) = 1 /\ lru = {}
  <2>1. entries = {}
    BY <1>5 DEF CInv, Agree
  <2>2. MaxEntries = 1
    BY <1>1, <1>5, <2>1, FS_EmptySet
  <2>3. phase' = "crash" /\ UNCHANGED cache
    BY <1>5, <2>2 DEF CacheStore, CacheReplace
  <2> QED BY <1>1, <2>2, <2>3 DEF CInv, BuffersOwned, CacheTypes, cache
<1>6. CASE MaxEntries - Cardinality(entries) = 1 /\ lru # {}
  <2>1. MaxEntries # 0
    BY <1>3, <1>6
  <2>2. PICK m \in lru, e \in entries :
          /\ Leftmost(m) /\ e.td = m.td
          /\ entries' = (entries \ {e}) \cup {n}
          /\ memory' = (memory + Length[e.data] - Length[v]) % Modulus
          /\ lru' = Shrink((lru \ {m}) \cup {Node(counter, d)}, memory')
          /\ counter' = counter + 1
          /\ UNCHANGED <<phase, buffers>>
    BY <1>6, <2>1 DEF CacheStore, CacheReplace
  <2>3. e.data \in Values /\ Length[e.data] \in Nat
    BY <1>1, LengthAssumption DEF Entry
  <2>4. memory' \in 0 .. Modulus - 1
    BY <1>1, <2>2, <2>3, MemoryRange
  <2>5. m = Node(e.stamp, e.td)
    BY <2>2 DEF CInv, Agree, Node
  <2>6. lru' = (lru \ {Node(e.stamp, e.td)}) \cup {Node(counter, n.td)}
    BY <1>1, <1>2, <2>2, <2>4, <2>5, ShrinkNothing
  <2> HIDE DEF n
  <2>7. /\ entries' \in SUBSET Entry /\ lru' \in SUBSET [key : Nat, td : Data]
        /\ counter' \in Nat /\ Agree(entries', lru', counter') /\ Room(entries')
        /\ Cardinality(entries') = Cardinality(entries)
    BY <1>2, <2>2, <2>6, SwapEntry
  <2>8. CacheTypes' /\ BuffersOwned'
    BY <1>1, <2>2, <2>4, <2>7 DEF CacheTypes, BuffersOwned, CInv
  <2> QED BY <1>2, <2>2, <2>7, <2>8
<1>7. CASE MaxEntries # 0 /\ MaxEntries - Cardinality(entries) # 1
  <2>1. /\ entries' = entries \cup {n}
        /\ memory' = (memory - Length[v]) % Modulus
        /\ lru' = Shrink(lru \cup {Node(counter, d)}, memory')
        /\ counter' = counter + 1 /\ buffers' = buffers + 1 /\ phase' = phase
    BY <1>7 DEF CacheStore, CacheAdd, Less
  <2>2. memory' \in 0 .. Modulus - 1
    BY <1>1, <2>1, MemoryRange
  <2>3. lru' = lru \cup {Node(counter, n.td)}
    BY <1>1, <1>2, <2>1, <2>2, ShrinkNothing
  <2> HIDE DEF n
  <2>4. Agree(entries', lru', counter')
    <3>1. Agree(entries, lru, counter) /\ \A f \in entries : f.td # n.td
      BY <1>2 DEF CInv
    <3>2. Agree(entries \cup {n}, lru \cup {Node(counter, n.td)}, counter + 1)
      BY <1>1, <1>2, <3>1, AgreeAdd
    <3> QED BY <2>1, <2>3, <3>2
  <2>5. n \notin entries
    BY <1>2
  <2>6. IsFiniteSet(entries') /\ Cardinality(entries') = Cardinality(entries) + 1
    BY <1>3, <2>1, <2>5, FS_AddElement
  <2>7. Cardinality(entries) + 1 < MaxEntries
    <3>1. CASE entries = {}
      BY <1>1, <1>7, <3>1, FS_EmptySet
    <3>2. CASE entries # {}
      BY <1>1, <1>3, <1>7, <3>2 DEF CInv, Room
    <3> QED BY <3>1, <3>2
  <2>8. Room(entries')
    BY <2>6, <2>7 DEF Room
  <2>9. CacheTypes' /\ BuffersOwned'
    <3>1. Node(counter, n.td) \in [key : Nat, td : Data]
      BY <1>1, <1>2 DEF Node
    <3>2. entries' \in SUBSET Entry /\ lru' \in SUBSET [key : Nat, td : Data]
      BY <1>1, <1>2, <2>1, <2>3, <3>1
    <3>3. buffers' \in Nat /\ counter' \in Nat
      BY <1>1, <2>1
    <3>4. BuffersOwned'
      BY <1>7, <2>1, <2>6 DEF BuffersOwned, CInv
    <3> QED BY <2>2, <3>2, <3>3, <3>4 DEF CacheTypes
  <2> QED BY <1>2, <2>1, <2>4, <2>8, <2>9
<1> QED BY <1>4, <1>5, <1>6, <1>7

-----------------------------------------------------------------------------
(* The invariant, action by action. *)

\* The variables of the data store and of the accessor in progress.
StoreTypes ==
  /\ phase \in {"init", "run", "decr", "end", "fail", "crash"}
  /\ current \in Data \cup {None}
  /\ got \in [td : Data \cup {None}, data : Values \cup {None}]
  /\ value \in [Data -> Values \cup {None}]
  /\ refs \in [Data -> Nat] /\ mine \in [Data -> Nat] /\ theirs \in [Data -> Nat]

\* The invariant holds at the start.
LEMMA CInvInit == Init => CInv
<1> SUFFICES ASSUME Init PROVE CInv
  OBVIOUS
<1>1. TypeOK
  BY SizeAssumption DEF Init, TypeOK
<1>2. IsFiniteSet(entries) /\ Cardinality(entries) = 0
  BY FS_EmptySet DEF Init
<1> QED BY <1>1, <1>2, DataAssumption, SizeAssumption
        DEF Init, CInv, Agree, Room, ValuesCurrent, GotInv, RefsBalanced, BuffersOwned

\* An assigned datum is never assigned again, so no assignment makes a cached
\* or a returned value out of date.
LEMMA AssignOK ==
  ASSUME CInv, NEW d \in Data, NEW v \in Values, value[d] = None,
         value' = [value EXCEPT ![d] = v]
  PROVE  /\ \A e \in entries : e.td # d /\ value'[e.td] = value[e.td]
         /\ got.td # None => got.td # d /\ value'[got.td] = value[got.td]
         /\ value'[d] = v /\ value' \in [Data -> Values \cup {None}]
<1>1. \A e \in entries : e.td \in Data /\ e.data \in Values /\ e.data = value[e.td]
  BY DEF CInv, TypeOK, ValuesCurrent, Entry
<1>2. got.td # None => got.td \in Data /\ got.data # None /\ got.data = value[got.td]
  BY DEF CInv, TypeOK, ValuesCurrent, GotInv
<1>3. value \in [Data -> Values \cup {None}]
  BY DEF CInv, TypeOK
<1> QED BY <1>1, <1>2, <1>3, DataAssumption

LEMMA CInvNext == CInv /\ [Next]_vars => CInv'
<1> SUFFICES ASSUME CInv, [Next]_vars PROVE CInv'
  OBVIOUS
<1>t. CacheTypes /\ StoreTypes
  BY DEF CInv, TypeOK, CacheTypes, StoreTypes
<1>1. CASE CacheInit
  <2>1. CacheTypes'
    BY <1>t, <1>1, SizeAssumption DEF CacheInit, CacheTypes
  <2>2. StoreTypes'
    BY <1>t, <1>1 DEF CacheInit, StoreTypes, store
  <2>3. TypeOK'
    BY <2>1, <2>2 DEF TypeOK, CacheTypes, StoreTypes
  <2> QED BY <1>1, <2>3 DEF CacheInit, store, CInv, ValuesCurrent, GotInv, RefsBalanced, BuffersOwned
<1>2. CASE HitDecr
  <2>1. current \in Data /\ mine[current] > 0 /\ refs[current] = mine[current] + theirs[current]
    BY <1>2 DEF HitDecr, CInv, RefsBalanced
  <2>2. StoreTypes'
    BY <1>t, <1>2, <2>1 DEF HitDecr, StoreTypes
  <2>3. TypeOK'
    BY <1>t, <1>2, <2>2 DEF HitDecr, cache, CacheTypes, TypeOK, StoreTypes
  <2>4. RefsBalanced'
    BY <1>t, <1>2, <2>1 DEF HitDecr, CInv, RefsBalanced, StoreTypes
  <2> QED BY <1>2, <2>3, <2>4 DEF HitDecr, cache, CInv, ValuesCurrent, GotInv, BuffersOwned
<1>3. CASE Finalize
  <2>1. IsFiniteSet({}) /\ Cardinality({}) = 0
    BY FS_EmptySet
  <2>2. BuffersOwned' /\ buffers' \in Nat
    <3>1. CASE MaxEntries = 0
      <4>1. entries = {}
        BY <3>1, FS_CardinalityType DEF CInv, Room
      <4> QED BY <1>t, <1>3, <2>1, <3>1, <4>1 DEF Finalize, BuffersOwned, CacheTypes
    <3>2. CASE MaxEntries # 0
      <4>1. buffers = Cardinality(entries) /\ buffers \in Nat
        BY <1>t, <3>2 DEF CInv, BuffersOwned, CacheTypes
      <4>2. buffers' = 0
        BY <1>3, <4>1 DEF Finalize
      <4> QED BY <1>3, <2>1, <4>2 DEF Finalize, BuffersOwned
    <3> QED BY <3>1, <3>2
  <2>3. CacheTypes'
    BY <1>t, <1>3, <2>2 DEF Finalize, CacheTypes
  <2>4. StoreTypes'
    BY <1>t, <1>3 DEF Finalize, StoreTypes, store
  <2>5. TypeOK'
    BY <2>3, <2>4 DEF TypeOK, CacheTypes, StoreTypes
  <2> QED BY <1>3, <2>1, <2>2, <2>5
          DEF Finalize, store, CInv, Agree, Room, ValuesCurrent, GotInv, RefsBalanced
<1>4. ASSUME NEW d \in Data, OtherDecr(d) PROVE CInv'
  <2>1. refs[d] = mine[d] + theirs[d] /\ theirs[d] > 0
    BY <1>4 DEF OtherDecr, CInv, RefsBalanced
  <2>2. StoreTypes'
    BY <1>t, <1>4, <2>1 DEF OtherDecr, StoreTypes
  <2>3. TypeOK'
    BY <1>t, <1>4, <2>2 DEF OtherDecr, cache, CacheTypes, TypeOK, StoreTypes
  <2>4. RefsBalanced'
    BY <1>t, <1>4, <2>1 DEF OtherDecr, CInv, RefsBalanced, StoreTypes
  <2> QED BY <1>4, <2>3, <2>4 DEF OtherDecr, cache, CInv, ValuesCurrent, GotInv, BuffersOwned
<1>5. ASSUME NEW d \in Data, NEW v \in Values, StoreEager(d, v) PROVE CInv'
  <2>1. /\ \A e \in entries : e.td # d /\ value'[e.td] = value[e.td]
        /\ got.td # None => got.td # d /\ value'[got.td] = value[got.td]
        /\ value'[d] = v /\ value' \in [Data -> Values \cup {None}]
    BY <1>5, AssignOK DEF StoreEager
  <2>2. /\ CacheTypes' /\ Agree(entries', lru', counter') /\ Room(entries')
        /\ BuffersOwned'
        /\ phase' = phase \/ (phase' = "crash" /\ MaxEntries = 1)
        /\ \A f \in entries' : f \in entries \/ (f.td = d /\ f.data = v)
    BY <1>5, <2>1, StoreOK DEF StoreEager
  <2>3. UNCHANGED <<current, got, refs, mine, theirs>> /\ phase = "run"
    BY <1>5 DEF StoreEager
  <2>4. StoreTypes'
    BY <1>t, <2>1, <2>2, <2>3 DEF StoreTypes
  <2>5. ValuesCurrent'
    BY <2>1, <2>2, <2>3 DEF CInv, ValuesCurrent
  <2>6. GotInv' /\ RefsBalanced'
    BY <2>2, <2>3 DEF CInv, GotInv, RefsBalanced
  <2>7. TypeOK'
    BY <2>2, <2>4 DEF TypeOK, CacheTypes, StoreTypes
  <2> QED BY <2>2, <2>5, <2>6, <2>7 DEF CInv
<1>6. ASSUME NEW d \in Data, NEW v \in Values, StorePlain(d, v) \/ OtherStore(d, v)
      PROVE  CInv'
  <2>1. value[d] = None /\ value' = [value EXCEPT ![d] = v]
        /\ UNCHANGED <<phase, cache, current, got, refs, mine, theirs>>
    BY <1>6 DEF StorePlain, OtherStore
  <2>2. /\ \A e \in entries : e.td # d /\ value'[e.td] = value[e.td]
        /\ got.td # None => got.td # d /\ value'[got.td] = value[got.td]
        /\ value' \in [Data -> Values \cup {None}]
    BY <2>1, AssignOK
  <2>3. TypeOK'
    BY <1>t, <2>1, <2>2 DEF cache, CacheTypes, StoreTypes, TypeOK
  <2>4. ValuesCurrent'
    BY <2>1, <2>2 DEF CInv, ValuesCurrent, cache
  <2> QED BY <2>1, <2>3, <2>4 DEF cache, CInv, GotInv, RefsBalanced, BuffersOwned
<1>7. ASSUME NEW d \in Data, NEW decr \in BOOLEAN, RetrieveHit(d, decr) PROVE CInv'
  <2>1. CacheCheck(d) /\ Touch(d) /\ MayRead(d) /\ UNCHANGED store
        /\ got' = [td |-> d, data |-> EntryOf(d).data]
    BY <1>7 DEF RetrieveHit
  <2>2. /\ CacheTypes' /\ Agree(entries', lru', counter') /\ Room(entries')
        /\ BuffersOwned'
        /\ \A f \in entries' : \E g \in entries : f.td = g.td /\ f.data = g.data
    BY <2>1, TouchOK
  <2>3. EntryOf(d) \in entries /\ EntryOf(d).td = d /\ EntryOf(d).data \in Values
    BY <1>t, <2>1, EntryFound DEF CacheTypes, Entry
  <2>4. StoreTypes'
    BY <1>t, <1>7, <2>1, <2>3 DEF StoreTypes, store, RetrieveHit
  <2>5. ValuesCurrent' /\ GotInv'
    BY <2>1, <2>2, <2>3, DataAssumption DEF CInv, ValuesCurrent, GotInv, store
  <2>6. RefsBalanced'
    BY <1>7, <2>1 DEF CInv, RefsBalanced, store, RetrieveHit, MayRead
  <2>7. TypeOK'
    BY <2>2, <2>4 DEF TypeOK, CacheTypes, StoreTypes
  <2> QED BY <2>2, <2>5, <2>6, <2>7 DEF CInv
<1>8. ASSUME NEW d \in Data, NEW decr \in BOOLEAN, NEW keep \in BOOLEAN,
             RetrieveMiss(d, decr, keep)
      PROVE  CInv'
  <2>1. /\ phase = "run" /\ value[d] # None /\ mine[d] > 0 /\ current' = current
        /\ refs[d] = mine[d] + theirs[d] /\ value[d] \in Values
        /\ mine[d] \in Nat /\ theirs[d] \in Nat
    BY <1>t, <1>8 DEF RetrieveMiss, MayRead, CInv, RefsBalanced, StoreTypes
  <2>2. refs[d] # 0
    BY <2>1
  <2> DEFINE k == IF decr THEN 1 ELSE 0
  <2>3. /\ got' = [td |-> d, data |-> value[d]]
        /\ refs' = [refs EXCEPT ![d] = @ - k] /\ mine' = [mine EXCEPT ![d] = @ - k]
        /\ UNCHANGED <<value, theirs>>
        /\ (keep /\ CacheStore(d, value[d])) \/ (~keep /\ UNCHANGED <<phase, cache>>)
    BY <1>8, <2>2 DEF RetrieveMiss, StoreDrop, MissValue
  <2>4. k \in 0 .. 1
    OBVIOUS
  <2> HIDE DEF k
  <2>5. /\ CacheTypes' /\ Agree(entries', lru', counter') /\ Room(entries')
        /\ BuffersOwned'
        /\ phase' = phase \/ (phase' = "crash" /\ MaxEntries = 1)
        /\ \A f \in entries' : f \in entries \/ (f.td = d /\ f.data = value[d])
    <3>1. CASE keep
      <4>1. ~CacheCheck(d) /\ CacheStore(d, value[d])
        BY <1>8, <2>3, <3>1 DEF RetrieveMiss
      <4>2. MaxEntries = 0 => entries = {}
        BY FS_CardinalityType DEF CInv, Room
      <4>3. \A f \in entries : f.td # d
        BY <4>1, <4>2 DEF CacheCheck
      <4> QED BY <2>1, <4>1, <4>3, StoreOK
    <3>2. CASE ~keep
      BY <1>t, <2>3, <3>2 DEF cache, CInv, CacheTypes, BuffersOwned
    <3> QED BY <3>1, <3>2
  <2>6. StoreTypes'
    <3>1. refs[d] - k \in Nat /\ mine[d] - k \in Nat
      BY <2>1, <2>4
    <3>2. refs' \in [Data -> Nat] /\ mine' \in [Data -> Nat]
      BY <1>t, <2>3, <3>1 DEF StoreTypes
    <3> QED BY <1>t, <2>1, <2>3, <2>5, <3>2 DEF StoreTypes
  <2>7. RefsBalanced'
    <3>1. \A c \in Data : refs'[c] = mine'[c] + theirs'[c]
      <4> TAKE c \in Data
      <4>1. CASE c = d
        <5>1. refs'[c] = refs[d] - k /\ mine'[c] = mine[d] - k /\ theirs'[c] = theirs[d]
          BY <1>t, <2>3, <4>1 DEF StoreTypes
        <5> QED BY <2>1, <2>4, <5>1
      <4>2. CASE c # d
        BY <1>t, <2>3, <4>2 DEF StoreTypes, CInv, RefsBalanced
      <4> QED BY <4>1, <4>2
    <3> QED BY <2>1, <2>5, <3>1 DEF RefsBalanced
  <2>8. ValuesCurrent' /\ GotInv'
    BY <2>1, <2>3, <2>5 DEF CInv, ValuesCurrent, GotInv
  <2>9. TypeOK'
    BY <2>5, <2>6 DEF TypeOK, CacheTypes, StoreTypes
  <2> QED BY <2>5, <2>7, <2>8, <2>9 DEF CInv
<1>9. CASE UNCHANGED vars
  BY <1>9 DEF vars, cache, store, CInv, TypeOK, ValuesCurrent, GotInv, RefsBalanced, BuffersOwned
<1> QED BY <1>1, <1>2, <1>3, <1>4, <1>5, <1>6, <1>7, <1>8, <1>9 DEF Next

\* The invariant holds throughout.
LEMMA CInvAlways == Spec => []CInv
BY CInvInit, CInvNext, PTL DEF Spec

-----------------------------------------------------------------------------
(* Theorems. *)

\* Type correctness: the unsigned memory count never leaves its range and no
\* reference count goes below zero.
THEOREM CacheTypeCorrect == Spec => []TypeOK
<1>1. CInv => TypeOK
  BY DEF CInv
<1> QED BY <1>1, CInvAlways, PTL

\* The hash table and the LRU tree of cache.c stay over the same entries.
THEOREM TablesStayInAgreement == Spec => []TablesAgree
<1>1. CInv => TablesAgree
  BY DEF CInv, Agree, TablesAgree
<1> QED BY <1>1, CInvAlways, PTL

\* The number of entries stays below TURBINE_CACHE_SIZE.
THEOREM SizeIsKept == Spec => []WithinSize
<1>1. CInv => WithinSize
  BY DEF CInv, Room, WithinSize
<1> QED BY <1>1, CInvAlways, PTL

\* A hit returns what the data store was assigned.
THEOREM HitsAreCurrent == Spec => []ValuesCurrent
<1>1. CInv => ValuesCurrent
  BY DEF CInv
<1> QED BY <1>1, CInvAlways, PTL

\* The hit path and the miss path release references alike.
THEOREM ReferencesBalance == Spec => []RefsBalanced
<1>1. CInv => RefsBalanced
  BY DEF CInv
<1> QED BY <1>1, CInvAlways, PTL

\* An enabled cache frees every buffer it is handed exactly once.
THEOREM BuffersAreOwned == Spec => []BuffersOwned
<1>1. CInv => BuffersOwned
  BY DEF CInv
<1> QED BY <1>1, CInvAlways, PTL

\* Unless TURBINE_CACHE_SIZE is 1, no accessor fails and no victim is sought
\* in an empty tree.
THEOREM AccessorsSucceed ==
  ASSUME MaxEntries # 1
  PROVE  Spec => []NoFailure
<1>1. Init => NoFailure
  BY DEF Init, NoFailure
<1>2. CInv /\ NoFailure /\ [Next]_vars => NoFailure'
  <2> SUFFICES ASSUME CInv, NoFailure, [Next]_vars PROVE NoFailure'
    OBVIOUS
  <2>1. ASSUME NEW d \in Data, NEW v \in Values, StoreEager(d, v) PROVE NoFailure'
    <3>1. \A f \in entries : f.td # d
      BY <2>1, AssignOK DEF StoreEager
    <3>2. phase' = phase
      BY <2>1, <3>1, StoreOK DEF StoreEager
    <3> QED BY <3>2 DEF NoFailure
  <2>2. ASSUME NEW d \in Data, NEW decr \in BOOLEAN, NEW keep \in BOOLEAN,
               RetrieveMiss(d, decr, keep)
        PROVE  NoFailure'
    <3>1. refs[d] # 0 /\ value[d] \in Values
      BY <2>2 DEF RetrieveMiss, MayRead, CInv, TypeOK, RefsBalanced
    <3>2. (keep /\ ~CacheCheck(d) /\ CacheStore(d, value[d])) \/ phase' = phase
      BY <2>2, <3>1 DEF RetrieveMiss, MissValue
    <3>3. MaxEntries = 0 => entries = {}
      BY FS_CardinalityType DEF CInv, Room
    <3>4. ~CacheCheck(d) => \A f \in entries : f.td # d
      BY <3>3 DEF CacheCheck
    <3>5. phase' = phase
      BY <3>1, <3>2, <3>4, StoreOK
    <3> QED BY <3>5 DEF NoFailure
  <2>3. CASE CacheInit \/ HitDecr \/ Finalize
    BY <2>3 DEF CacheInit, HitDecr, Finalize, NoFailure
  <2>4. ASSUME NEW d \in Data, OtherDecr(d) PROVE NoFailure'
    BY <2>4 DEF OtherDecr, NoFailure
  <2>5. ASSUME NEW d \in Data, NEW v \in Values, StorePlain(d, v) \/ OtherStore(d, v)
        PROVE  NoFailure'
    BY <2>5 DEF StorePlain, OtherStore, NoFailure
  <2>6. ASSUME NEW d \in Data, NEW decr \in BOOLEAN, RetrieveHit(d, decr) PROVE NoFailure'
    BY <2>6 DEF RetrieveHit, NoFailure
  <2>7. CASE UNCHANGED vars
    BY <2>7 DEF vars, NoFailure
  <2> QED BY <2>1, <2>2, <2>3, <2>4, <2>5, <2>6, <2>7 DEF Next
<1> QED BY <1>1, <1>2, CInvAlways, PTL DEF Spec

-----------------------------------------------------------------------------
(* Sums over finite sets. *)

Some(s) == CHOOSE x \in s : TRUE

\* g[s] is the sum of f over s, for every s in D, as MapThenSumSet computes it.
SumsOn(g, f, D) == g = [s \in D |-> IF s = {} THEN 0 ELSE f[Some(s)] + g[s \ {Some(s)}]]

\* The sums of the integers f over all subsets of a finite set S.
Summing(g, f, S) == IsFiniteSet(S) /\ (\A x \in S : f[x] \in Int) /\ SumsOn(g, f, SUBSET S)

LEMMA SomeIn == ASSUME NEW s, s # {} PROVE Some(s) \in s
BY DEF Some

\* A set of natural numbers that is not empty has a least one.
LEMMA Least == ASSUME NEW S, S \subseteq Nat, S # {} PROVE \E x \in S : \A y \in S : x <= y
<1>1. PICK x \in S : \A y \in S : ~ (<<y, x>> \in OpToRel(<, Nat))
  BY NatLessThanWellFounded, WFMin
<1>2. ASSUME NEW y \in S PROVE x <= y
  <2>1. x \in Nat /\ y \in Nat
    OBVIOUS
  <2>2. SUFFICES ASSUME y < x PROVE FALSE
    BY <2>1
  <2>3. <<y, x>> \in Nat \X Nat /\ <<y, x>>[1] < <<y, x>>[2]
    BY <2>1, <2>2
  <2>4. <<y, x>> \in OpToRel(<, Nat)
    BY <2>3, Zenon DEF OpToRel
  <2> QED BY <1>1, <2>4
<1> QED BY <1>2

\* A finite set without one of its members.
LEMMA Without ==
  ASSUME NEW s, IsFiniteSet(s), NEW x \in s
  PROVE  IsFiniteSet(s \ {x}) /\ Cardinality(s) \in Nat /\ Cardinality(s \ {x}) \in Nat
         /\ Cardinality(s) = Cardinality(s \ {x}) + 1
<1>1. IsFiniteSet(s \ {x}) /\ Cardinality(s) \in Nat /\ Cardinality(s \ {x}) = Cardinality(s) - 1
  BY FS_RemoveElement, FS_CardinalityType
<1>2. Cardinality(s \ {x}) \in Nat
  BY <1>1, FS_CardinalityType
<1> QED BY <1>1, <1>2

\* Among finite sets, if there are any, one is smallest: induction on their size.
LEMMA Smallest ==
  ASSUME NEW B, B # {}, \A s \in B : IsFiniteSet(s)
  PROVE  \E s \in B : \A x \in s : s \ {x} \notin B
<1> DEFINE C == {Cardinality(s) : s \in B}
<1>1. C \subseteq Nat /\ C # {}
  BY FS_CardinalityType
<1>2. PICK n \in C : \A m \in C : n <= m
  BY <1>1, Least
<1>3. PICK s \in B : Cardinality(s) = n
  OBVIOUS
<1>4. ASSUME NEW x \in s, s \ {x} \in B PROVE FALSE
  <2>1. Cardinality(s \ {x}) \in Nat /\ n = Cardinality(s \ {x}) + 1 /\ Cardinality(s \ {x}) \in C
    BY <1>3, <1>4, Without
  <2>2. n <= Cardinality(s \ {x}) /\ n \in Nat
    <3> HIDE DEF C
    <3> QED BY <1>1, <1>2, <2>1
  <2> QED BY ONLY <2>1, <2>2
<1> QED BY <1>4

\* The recursion of MapThenSumSet has a solution.
LEMMA SumsExist ==
  ASSUME NEW S, IsFiniteSet(S), NEW f, \A x \in S : f[x] \in Int
  PROVE  \E g : Summing(g, f, S)
<1> DEFINE L(n) == {s \in SUBSET S : Cardinality(s) <= n}
           T == {n \in Nat : ~ \E g : SumsOn(g, f, L(n))}
<1>1. \A s \in SUBSET S : IsFiniteSet(s) /\ Cardinality(s) \in Nat
  BY FS_Subset, FS_CardinalityType
<1>2. T = {}
  <2>1. SUFFICES ASSUME T # {} PROVE FALSE
    OBVIOUS
  <2>2. PICK n \in T : \A m \in T : n <= m
    BY <2>1, Least
  <2>3. n \in Nat
    OBVIOUS
  <2>4. CASE n = 0
    <3>1. \A s \in L(0) : s = {}
      BY <1>1, FS_EmptySet
    <3>2. [s \in L(0) |-> 0] =
            [s \in L(0) |-> IF s = {} THEN 0 ELSE f[Some(s)] + [t \in L(0) |-> 0][s \ {Some(s)}]]
      BY <3>1
    <3>3. SumsOn([s \in L(0) |-> 0], f, L(0))
      BY <3>2 DEF SumsOn
    <3> QED BY <2>2, <2>4, <3>3
  <2>5. CASE n # 0
    <3>0. n - 1 \in Nat /\ ~ (n <= n - 1)
      BY <2>3, <2>5
    <3>1. n - 1 \in Nat /\ n - 1 \notin T
      <4> HIDE DEF T
      <4> QED BY <2>2, <3>0
    <3>2. PICK g : SumsOn(g, f, L(n - 1))
      BY <3>1
    <3> DEFINE h == [s \in L(n) |-> IF s = {} THEN 0 ELSE f[Some(s)] + g[s \ {Some(s)}]]
    <3>3. \A s \in L(n) : s # {} => s \ {Some(s)} \in L(n - 1) /\ s \ {Some(s)} \in L(n)
      <4>1. ASSUME NEW s \in L(n), s # {} PROVE s \ {Some(s)} \in L(n - 1) /\ s \ {Some(s)} \in L(n)
        <5>1. IsFiniteSet(s) /\ Some(s) \in s /\ Cardinality(s) <= n /\ s \ {Some(s)} \in SUBSET S
          BY <1>1, <4>1, SomeIn
        <5>2. Cardinality(s \ {Some(s)}) \in Nat /\ Cardinality(s) = Cardinality(s \ {Some(s)}) + 1
          BY <5>1, Without
        <5>3. Cardinality(s \ {Some(s)}) <= n - 1 /\ Cardinality(s \ {Some(s)}) <= n
          BY <2>3, <5>1, <5>2
        <5> QED BY <5>1, <5>3
      <4> QED BY <4>1
    <3>4. \A s \in L(n - 1) : s \in L(n) /\ h[s] = g[s]
      <4>1. \A s \in L(n - 1) : s \in L(n)
        BY <1>1, <2>3
      <4>2. \A s \in L(n - 1) : g[s] = IF s = {} THEN 0 ELSE f[Some(s)] + g[s \ {Some(s)}]
        BY <3>2 DEF SumsOn
      <4> QED BY <4>1, <4>2
    <3>5. \A s \in L(n) : s # {} => h[s \ {Some(s)}] = g[s \ {Some(s)}]
      BY <3>3, <3>4
    <3>6. SumsOn(h, f, L(n))
      <4>1. h = [s \in L(n) |-> IF s = {} THEN 0 ELSE f[Some(s)] + h[s \ {Some(s)}]]
        BY <3>5
      <4> QED BY <4>1 DEF SumsOn
    <3> QED BY <2>2, <3>6
  <2> QED BY <2>4, <2>5
<1>3. L(Cardinality(S)) = SUBSET S
  BY FS_Subset, FS_CardinalityType
<1>4. Cardinality(S) \in Nat
  BY FS_CardinalityType
<1>5. PICK g : SumsOn(g, f, SUBSET S)
  BY <1>2, <1>3, <1>4
<1> QED BY <1>5 DEF Summing

\* What a sum over the members of s is, by any of its solutions.
LEMMA SumsAgree ==
  ASSUME NEW S, NEW f, NEW T \in SUBSET S, NEW g, NEW h, Summing(g, f, S), SumsOn(h, f, SUBSET T)
  PROVE  h[T] = g[T]
<1> DEFINE B == {s \in SUBSET T : h[s] # g[s]}
<1>1. /\ \A s \in SUBSET S : g[s] = IF s = {} THEN 0 ELSE f[Some(s)] + g[s \ {Some(s)}]
      /\ \A s \in SUBSET T : h[s] = IF s = {} THEN 0 ELSE f[Some(s)] + h[s \ {Some(s)}]
  BY DEF SumsOn, Summing
<1>2. SUFFICES ASSUME B # {} PROVE FALSE
  OBVIOUS
<1>3. \A s \in B : IsFiniteSet(s)
  BY FS_Subset DEF Summing
<1>4. PICK s \in B : \A x \in s : s \ {x} \notin B
  BY <1>2, <1>3, Smallest
<1>5. s \in SUBSET T /\ s \in SUBSET S /\ h[s] # g[s]
  OBVIOUS
<1>6. s # {}
  BY <1>1, <1>5
<1>7. h[s \ {Some(s)}] = g[s \ {Some(s)}]
  BY <1>4, <1>5, <1>6, SomeIn
<1> QED BY <1>1, <1>5, <1>6, <1>7

\* Any member can be taken out of a sum first.
LEMMA SumWithout ==
  ASSUME NEW S, NEW f, NEW g, Summing(g, f, S)
  PROVE  g[{}] = 0 /\ \A s \in SUBSET S : g[s] \in Int /\ \A x \in s : g[s] = f[x] + g[s \ {x}]
<1>1. \A s \in SUBSET S : g[s] = IF s = {} THEN 0 ELSE f[Some(s)] + g[s \ {Some(s)}]
  BY DEF SumsOn, Summing
<1>2. \A s \in SUBSET S : IsFiniteSet(s)
  BY FS_Subset DEF Summing
<1>5. \A x \in S : f[x] \in Int
  BY DEF Summing
<1>3. \A s \in SUBSET S : g[s] \in Int
  <2> DEFINE B == {s \in SUBSET S : g[s] \notin Int}
  <2>1. SUFFICES ASSUME B # {} PROVE FALSE
    OBVIOUS
  <2>2. PICK s \in B : \A x \in s : s \ {x} \notin B
    BY <1>2, <2>1, Smallest
  <2>3. s \in SUBSET S /\ g[s] \notin Int
    OBVIOUS
  <2>4. s # {}
    <3>1. g[{}] = 0
      BY <1>1
    <3> QED BY <2>3, <3>1
  <2>5. Some(s) \in s
    BY <2>4, SomeIn
  <2>6. g[s \ {Some(s)}] \in Int /\ f[Some(s)] \in Int
    BY <1>5, <2>2, <2>3, <2>5
  <2>7. g[s] = f[Some(s)] + g[s \ {Some(s)}]
    BY <1>1, <2>3, <2>4
  <2> QED BY <2>3, <2>6, <2>7
<1>4. \A s \in SUBSET S : \A x \in s : g[s] = f[x] + g[s \ {x}]
  <2> DEFINE B == {s \in SUBSET S : \E x \in s : g[s] # f[x] + g[s \ {x}]}
  <2>1. SUFFICES ASSUME B # {} PROVE FALSE
    OBVIOUS
  <2>2. PICK s \in B : \A x \in s : s \ {x} \notin B
    BY <1>2, <2>1, Smallest
  <2>3. PICK x \in s : g[s] # f[x] + g[s \ {x}]
    OBVIOUS
  <2>4. PICK c : c = Some(s)
    OBVIOUS
  <2>5. s \in SUBSET S /\ c \in s /\ g[s] = f[c] + g[s \ {c}]
    BY <1>1, <2>3, <2>4, SomeIn
  <2>6. x # c
    BY <2>3, <2>5
  <2>7. g[s \ {c}] = f[x] + g[(s \ {c}) \ {x}] /\ g[s \ {x}] = f[c] + g[(s \ {x}) \ {c}]
    <3>1. s \ {c} \notin B /\ s \ {x} \notin B
      BY <2>2, <2>5
    <3>2. s \ {c} \in SUBSET S /\ s \ {x} \in SUBSET S /\ x \in s \ {c} /\ c \in s \ {x}
      BY <2>5, <2>6
    <3> QED BY <3>1, <3>2
  <2>8. (s \ {c}) \ {x} = (s \ {x}) \ {c} /\ (s \ {c}) \ {x} \in SUBSET S
    BY <2>5
  <2>9. PICK w : w = g[(s \ {c}) \ {x}]
    OBVIOUS
  <2>10. w \in Int /\ f[x] \in Int /\ f[c] \in Int
    BY <1>3, <1>5, <2>5, <2>8, <2>9
  <2>11. g[s] = f[c] + (f[x] + w) /\ g[s \ {x}] = f[c] + w
    BY <2>5, <2>7, <2>8, <2>9
  <2> QED BY <2>3, <2>10, <2>11
<1> QED BY <1>1, <1>3, <1>4

-----------------------------------------------------------------------------
(* Unsigned arithmetic. *)

\* A multiple of m between -m and m is 0.
LEMMA SmallMultiple == ASSUME NEW m \in Nat \ {0}, NEW k \in Int, m * k < m, -m < m * k PROVE k = 0
<1>1. k < 1
  <2>1. SUFFICES ASSUME k >= 1 PROVE m * k >= m
    OBVIOUS
  <2> QED BY <2>1
<1>2. k > -1
  <2>1. SUFFICES ASSUME k <= -1 PROVE m * k <= -m
    OBVIOUS
  <2> QED BY <2>1
<1> QED BY <1>1, <1>2

\* Division with remainder.
LEMMA DivMod == ASSUME NEW m \in Nat \ {0}, NEW c \in Int
  PROVE \E x \in Int, r \in 0 .. m - 1 : r = c % m /\ c = m * x + r
<1>1. c \div m \in Int
  BY SMT
<1>2. c % m \in 0 .. m - 1
  BY SMT
<1>3. c % m = c - (c \div m) * m
  BY Z3
<1>4. PICK x \in Int : x = c \div m
  BY <1>1
<1>5. PICK r \in 0 .. m - 1 : r = c % m
  BY <1>2
<1>6. r = c - x * m
  BY <1>3, <1>4, <1>5
<1>7. c = m * x + r
  BY ONLY <1>6, m \in Nat, c \in Int, x \in Int, r \in Int
<1> QED BY <1>5, <1>7, Zenon

\* Multiples of m vanish modulo m, and the modulus may be taken early.
LEMMA ModAdd == ASSUME NEW m \in Nat \ {0}, NEW c \in Int, NEW q \in Int PROVE (c + m * q) % m = c % m
<1> DEFINE d == c + m * q
<1>0. d \in Int
  OBVIOUS
<1>1. PICK x \in Int, r \in 0 .. m - 1 : r = c % m /\ c = m * x + r
  BY DivMod
<1> HIDE DEF d
<1>2. PICK y \in Int, s \in 0 .. m - 1 : s = d % m /\ d = m * y + s
  BY <1>0, DivMod
<1>3. m * x + r + m * q = m * y + s
  BY <1>1, <1>2 DEF d
<1>4. m * (x + q - y) = s - r
  BY ONLY <1>3, m \in Nat, x \in Int, y \in Int, q \in Int, r \in Int, s \in Int
<1>5. x + q - y = 0
  <2>1. s - r < m /\ -m < s - r
    OBVIOUS
  <2>2. x + q - y \in Int
    OBVIOUS
  <2> QED BY <1>4, <2>1, <2>2, SmallMultiple
<1>6. s = r
  <2>1. m * 0 = 0
    OBVIOUS
  <2> QED BY <1>4, <1>5, <2>1
<1> QED BY <1>1, <1>2, <1>6 DEF d

LEMMA ModShift == ASSUME NEW m \in Nat \ {0}, NEW a \in Int, NEW b \in Int
  PROVE ((a % m) + b) % m = (a + b) % m
<1>1. PICK x \in Int, r \in 0 .. m - 1 : r = a % m /\ a = m * x + r
  BY DivMod
<1>2. a + b = (r + b) + m * x
  BY <1>1
<1>3. ((r + b) + m * x) % m = (r + b) % m
  <2>1. r + b \in Int
    OBVIOUS
  <2> QED BY ONLY <2>1, ModAdd, m \in Nat \ {0}, x \in Int
<1> QED BY <1>1, <1>2, <1>3

-----------------------------------------------------------------------------
(* The memory count. *)

Total(E) == MapThenSumSet(LAMBDA e : Length[e.data], E)
Sizes(E) == [e \in E |-> Length[e.data]]

\* The bytes of a table are the sum over its entries, whatever table it is part of.
LEMMA TotalIs ==
  ASSUME NEW S, S \subseteq Entry, NEW E \in SUBSET S, NEW g, Summing(g, Sizes(S), S)
  PROVE  Total(E) = g[E]
<1> DEFINE P(k) == k = [s \in SUBSET E |-> IF s = {} THEN 0 ELSE Length[Some(s).data] + k[s \ {Some(s)}]]
<1>1. Total(E) = (CHOOSE k : P(k))[E]
  BY DEF Total, MapThenSumSet, MapThenFoldSet, Some
<1>2. \A s \in SUBSET E : s # {} => Sizes(S)[Some(s)] = Length[Some(s).data]
  BY SomeIn DEF Sizes
<1>3. IsFiniteSet(E) /\ \A e \in E : Sizes(S)[e] \in Int
  BY FS_Subset DEF Summing
<1>4. PICK h : SumsOn(h, Sizes(S), SUBSET E)
  <2>1. \E h : Summing(h, Sizes(S), E)
    BY ONLY <1>3, SumsExist
  <2> QED BY <2>1 DEF Summing
<1>5. P(h)
  <2>1. h = [s \in SUBSET E |-> IF s = {} THEN 0 ELSE Sizes(S)[Some(s)] + h[s \ {Some(s)}]]
    BY <1>4 DEF SumsOn
  <2> QED BY <1>2, <2>1
<1>6. PICK k : P(k) /\ Total(E) = k[E]
  <2> HIDE DEF P
  <2> QED BY <1>1, <1>5
<1>7. SumsOn(k, Sizes(S), SUBSET E)
  <2>1. k = [s \in SUBSET E |-> IF s = {} THEN 0 ELSE Sizes(S)[Some(s)] + k[s \ {Some(s)}]]
    BY <1>2, <1>6
  <2> QED BY <2>1 DEF SumsOn
<1>8. k[E] = g[E]
  BY ONLY <1>7, SumsAgree, E \in SUBSET S, Summing(g, Sizes(S), S)
<1> QED BY <1>6, <1>8

\* An empty table has no bytes; an entry more adds its own.
LEMMA TotalAdd ==
  ASSUME NEW E, E \subseteq Entry, IsFiniteSet(E), NEW n \in Entry, n \notin E
  PROVE  /\ Total(E) \in Int /\ Length[n.data] \in Nat
         /\ Total(E \cup {n}) = Total(E) + Length[n.data]
<1> DEFINE S == E \cup {n}
<1>1. S \subseteq Entry /\ IsFiniteSet(S) /\ E \in SUBSET S /\ n \in S /\ S \ {n} = E /\ S \in SUBSET S
  BY FS_AddElement
<1>2. \A e \in S : Sizes(S)[e] = Length[e.data] /\ Length[e.data] \in Nat
  BY <1>1, LengthAssumption DEF Sizes, Entry
<1> HIDE DEF S
<1>3. PICK g : Summing(g, Sizes(S), S)
  <2>1. \A e \in S : Sizes(S)[e] \in Int
    BY <1>2
  <2> QED BY ONLY <1>1, <2>1, SumsExist
<1>4. g[{}] = 0 /\ \A s \in SUBSET S : g[s] \in Int /\ \A x \in s : g[s] = Sizes(S)[x] + g[s \ {x}]
  BY ONLY <1>3, SumWithout
<1>5. Total(S) = g[S] /\ Total(E) = g[E]
  BY <1>1, <1>3, TotalIs
<1>6. g[S] = Length[n.data] + g[E] /\ g[E] \in Int
  BY <1>1, <1>2, <1>4
<1>7. Length[n.data] \in Nat
  BY <1>1, <1>2
<1>8. Total(S) = Total(E) + Length[n.data] /\ Total(E) \in Int
  BY ONLY <1>5, <1>6, <1>7
<1> QED BY <1>7, <1>8 DEF S

LEMMA TotalEmpty == Total({}) = 0
<1>1. IsFiniteSet({}) /\ {} \subseteq Entry
  BY FS_EmptySet
<1>2. PICK g : Summing(g, Sizes({}), {})
  BY ONLY <1>1, SumsExist
<1>3. g[{}] = 0
  BY <1>2 DEF Summing, SumsOn
<1> QED BY <1>1, <1>2, <1>3, TotalIs

\* One entry replaced by another.
LEMMA TotalSwap ==
  ASSUME NEW E, E \subseteq Entry, IsFiniteSet(E), NEW e \in E, NEW n \in Entry, n \notin E \ {e}
  PROVE  /\ Total(E) \in Int /\ Length[e.data] \in Nat /\ Length[n.data] \in Nat
         /\ Total((E \ {e}) \cup {n}) = Total(E) - Length[e.data] + Length[n.data]
<1> DEFINE R == E \ {e}
<1>1. R \subseteq Entry /\ IsFiniteSet(R) /\ e \in Entry /\ e \notin R /\ n \notin R /\ R \cup {e} = E
  BY FS_RemoveElement
<1> HIDE DEF R
<1>2. Total(R) \in Int /\ Length[e.data] \in Nat /\ Total(R \cup {e}) = Total(R) + Length[e.data]
  BY ONLY <1>1, TotalAdd
<1>3. Length[n.data] \in Nat /\ Total(R \cup {n}) = Total(R) + Length[n.data]
  BY ONLY <1>1, TotalAdd, n \in Entry
<1>4. Total(E) = Total(R) + Length[e.data]
  BY <1>1, <1>2
<1> QED BY <1>2, <1>3, <1>4 DEF R

\* memory is what the budget leaves, and the table is empty before the first use.
Budget(m, E) == m = (MaxMemory - Total(E)) % Modulus

MemInv ==
  /\ phase = "init" => entries = {}
  /\ phase \in {"run", "decr"} => Budget(memory, entries)

\* Taking bytes from the count as memory does, modulo Modulus.
LEMMA Charge ==
  ASSUME NEW m, NEW t \in Int, NEW b \in Int, m = (MaxMemory - t) % Modulus
  PROVE  (m - b) % Modulus = (MaxMemory - (t + b)) % Modulus
<1>1. Modulus \in Nat \ {0} /\ MaxMemory - t \in Int /\ -b \in Int
  BY SizeAssumption
<1>2. (((MaxMemory - t) % Modulus) + (-b)) % Modulus = ((MaxMemory - t) + (-b)) % Modulus
  BY ONLY <1>1, ModShift
<1>3. (MaxMemory - t) + (-b) = MaxMemory - (t + b)
  BY SizeAssumption
<1>4. m \in Int
  BY <1>1
<1>5. m + (-b) = m - b
  BY <1>4
<1> QED BY <1>2, <1>3, <1>5

LEMMA TouchBudget ==
  ASSUME CInv, NEW d \in Data, CacheCheck(d), Touch(d), Budget(memory, entries)
  PROVE  Budget(memory', entries')
<1> DEFINE e == EntryOf(d)
           n == [e EXCEPT !.stamp = counter]
<1>1. e \in entries /\ e \in Entry /\ e.td = d /\ counter \in Nat /\ entries \subseteq Entry /\ IsFiniteSet(entries)
  BY EntryFound DEF CInv, TypeOK, Room
<1>2. n \in Entry /\ n.data = e.data /\ n.td = d
  BY <1>1 DEF Entry
<1>3. n \notin entries \ {e}
  BY <1>1, <1>2 DEF CInv, Agree
<1>4. entries' = (entries \ {e}) \cup {n} /\ memory' = memory
  BY DEF Touch
<1> HIDE DEF e, n
<1>5. /\ Total(entries) \in Int /\ Length[e.data] \in Nat
      /\ Total(entries') = Total(entries) - Length[e.data] + Length[n.data]
  BY <1>1, <1>2, <1>3, <1>4, TotalSwap
<1>6. Total(entries') = Total(entries)
  BY <1>2, <1>5
<1> QED BY <1>4, <1>6 DEF Budget

LEMMA StoreBudget ==
  ASSUME CInv, NEW d \in Data, NEW v \in Values, CacheStore(d, v),
         \A f \in entries : f.td # d, Budget(memory, entries)
  PROVE  Budget(memory', entries')
<1> DEFINE n == NewEntry(d, v)
<1>1. /\ entries \subseteq Entry /\ IsFiniteSet(entries) /\ counter \in Nat
      /\ memory \in Int
  BY SizeAssumption DEF CInv, TypeOK, Room
<1>2. n \in Entry /\ n.data = v /\ n.td = d /\ n \notin entries
  BY <1>1 DEF NewEntry, Entry
<1>3. CASE MaxEntries = 0 \/ (MaxEntries - Cardinality(entries) = 1 /\ lru = {})
  <2>1. memory' = memory /\ entries' = entries
    BY <1>3 DEF CacheStore, CacheReplace, cache
  <2> QED BY <2>1
<1>4. CASE MaxEntries # 0 /\ MaxEntries - Cardinality(entries) = 1 /\ lru # {}
  <2>1. PICK e \in entries :
          /\ entries' = (entries \ {e}) \cup {n}
          /\ memory' = (memory + Length[e.data] - Length[v]) % Modulus
    BY <1>4 DEF CacheStore, CacheReplace
  <2> HIDE DEF n
  <2>2. /\ Total(entries) \in Int /\ Length[e.data] \in Nat /\ Length[n.data] \in Nat
        /\ Total(entries') = Total(entries) - Length[e.data] + Length[n.data]
    BY <1>1, <1>2, <2>1, TotalSwap
  <2> DEFINE b == Length[v] - Length[e.data]
  <2>3. b \in Int /\ memory + Length[e.data] - Length[v] = memory - b /\ Total(entries') = Total(entries) + b
    BY <1>1, <1>2, <2>2
  <2> HIDE DEF b
  <2>4. (memory - b) % Modulus = (MaxMemory - (Total(entries) + b)) % Modulus
    BY <2>2, <2>3, Charge DEF Budget
  <2> QED BY <2>1, <2>3, <2>4 DEF Budget
<1>5. CASE MaxEntries # 0 /\ MaxEntries - Cardinality(entries) # 1
  <2>1. entries' = entries \cup {n} /\ memory' = (memory - Length[v]) % Modulus
    BY <1>5 DEF CacheStore, CacheAdd, Less
  <2> HIDE DEF n
  <2>2. Total(entries) \in Int /\ Length[v] \in Nat /\ Total(entries') = Total(entries) + Length[v]
    BY <1>1, <1>2, <2>1, TotalAdd
  <2>3. PICK b \in Int : b = Length[v]
    BY <2>2
  <2>4. (memory - b) % Modulus = (MaxMemory - (Total(entries) + b)) % Modulus
    BY <2>2, <2>3, Charge DEF Budget
  <2> QED BY <2>1, <2>2, <2>3, <2>4 DEF Budget
<1> QED BY <1>3, <1>4, <1>5

LEMMA MemInvNext == CInv /\ MemInv /\ [Next]_vars => MemInv'
<1> SUFFICES ASSUME CInv, MemInv, [Next]_vars PROVE MemInv'
  OBVIOUS
<1>1. CASE CacheInit
  <2>1. entries = {} /\ entries' = {} /\ memory' = MaxMemory /\ phase' = "run"
    BY <1>1 DEF CacheInit, MemInv
  <2>2. MaxMemory - 0 = MaxMemory /\ MaxMemory % Modulus = MaxMemory
    BY SizeAssumption
  <2> QED BY <2>1, <2>2, TotalEmpty DEF MemInv, Budget
<1>2. CASE HitDecr
  BY <1>2 DEF HitDecr, cache, MemInv, Budget
<1>3. CASE Finalize
  BY <1>3 DEF Finalize, MemInv
<1>4. ASSUME NEW d \in Data, NEW v \in Values, StoreEager(d, v) PROVE MemInv'
  <2>1. \A f \in entries : f.td # d
    BY <1>4, AssignOK DEF StoreEager
  <2>2. Budget(memory', entries') /\ phase = "run"
    BY <1>4, <2>1, StoreBudget DEF StoreEager, MemInv
  <2>3. phase' # "init"
    BY <1>4, <2>1, <2>2, StoreOK DEF StoreEager
  <2> QED BY <2>2, <2>3 DEF MemInv
<1>5. ASSUME NEW d \in Data, NEW v \in Values, StorePlain(d, v) \/ OtherStore(d, v)
      PROVE  MemInv'
  BY <1>5 DEF StorePlain, OtherStore, cache, MemInv, Budget
<1>6. ASSUME NEW d \in Data, OtherDecr(d) PROVE MemInv'
  BY <1>6 DEF OtherDecr, cache, MemInv, Budget
<1>7. ASSUME NEW d \in Data, NEW decr \in BOOLEAN, RetrieveHit(d, decr) PROVE MemInv'
  <2>1. phase = "run" /\ phase' # "init" /\ CacheCheck(d) /\ Touch(d)
    BY <1>7 DEF RetrieveHit, MayRead
  <2>2. Budget(memory', entries')
    BY <2>1, TouchBudget DEF MemInv
  <2> QED BY <2>1, <2>2 DEF MemInv
<1>8. ASSUME NEW d \in Data, NEW decr \in BOOLEAN, NEW keep \in BOOLEAN, RetrieveMiss(d, decr, keep)
      PROVE  MemInv'
  <2>1. phase = "run" /\ value[d] \in Values /\ refs[d] # 0
    BY <1>8 DEF RetrieveMiss, MayRead, CInv, TypeOK, RefsBalanced
  <2>2. CASE ~keep
    <3>1. UNCHANGED <<phase, cache>>
      BY <1>8, <2>1, <2>2 DEF RetrieveMiss
    <3> QED BY <3>1 DEF cache, MemInv, Budget
  <2>3. CASE keep
    <3>1. ~CacheCheck(d) /\ CacheStore(d, value[d])
      BY <1>8, <2>1, <2>3 DEF RetrieveMiss, MissValue
    <3>2. MaxEntries = 0 => entries = {}
      BY FS_CardinalityType DEF CInv, Room
    <3>3. \A f \in entries : f.td # d
      BY <3>1, <3>2 DEF CacheCheck
    <3>4. Budget(memory', entries')
      BY <2>1, <3>1, <3>3, StoreBudget DEF MemInv
    <3>5. phase' # "init"
      BY <2>1, <3>1, <3>3, StoreOK
    <3> QED BY <3>4, <3>5 DEF MemInv
  <2> QED BY <2>2, <2>3
<1>9. CASE UNCHANGED vars
  BY <1>9 DEF vars, cache, MemInv, Budget
<1> QED BY <1>1, <1>2, <1>3, <1>4, <1>5, <1>6, <1>7, <1>8, <1>9 DEF Next

\* The unsigned count of cache.c is the budget less the bytes cached, modulo its
\* width: additions, replacements and hits never lose or invent a byte.
THEOREM MemoryIsAccounted == Spec => []MemoryAccounted
<1>1. Init => MemInv
  BY DEF Init, MemInv
<1>2. MemInv => MemoryAccounted
  BY DEF MemInv, MemoryAccounted, Budget, Bytes, Total
<1> QED BY <1>1, <1>2, CInvAlways, MemInvNext, PTL DEF Spec

-----------------------------------------------------------------------------
(* The order of the entries. *)

\* Entries that their stamps tell apart, all stamped before some count.
Stamped(E) ==
  /\ IsFiniteSet(E) /\ E \subseteq Entry
  /\ \A e, f \in E : e.stamp = f.stamp => e = f
  /\ \E k \in Nat : \A e \in E : e.stamp < k

LEMMA StampedSubset ==
  ASSUME NEW E, Stamped(E), NEW T \in SUBSET E
  PROVE  Stamped(T) /\ Cardinality(T) \in Nat
BY FS_Subset, FS_CardinalityType DEF Stamped

\* s with one more entry, and s without its i-th.
Longer(s, m, n) == [i \in 1 .. m + 1 |-> IF i = m + 1 THEN n ELSE s[i]]
Shorter(s, m, i) == [j \in 1 .. m - 1 |-> IF j < i THEN s[j] ELSE s[j + 1]]

\* The youngest entry goes to the end.
LEMMA OrderAdd ==
  ASSUME NEW E, Stamped(E), NEW s, IsOrder(s, E), NEW n \in Entry, \A e \in E : e.stamp < n.stamp
  PROVE  /\ Cardinality(E) \in Nat /\ Cardinality(E \cup {n}) = Cardinality(E) + 1
         /\ IsOrder(Longer(s, Cardinality(E), n), E \cup {n})
<1> DEFINE m == Cardinality(E)
           l == Longer(s, m, n)
<1>1. m \in Nat /\ \A e \in E : e.stamp \in Nat
  BY FS_CardinalityType DEF Stamped, Entry
<1>2. n \notin E /\ n.stamp \in Nat
  BY <1>1 DEF Entry
<1>3. Cardinality(E \cup {n}) = m + 1
  BY <1>2, FS_AddElement DEF Stamped
<1>4. s \in [1 .. m -> E] /\ \A i, j \in 1 .. m : i < j => s[i].stamp < s[j].stamp
  BY DEF IsOrder
<1> HIDE DEF m
<1>5. l \in [1 .. m + 1 -> E \cup {n}]
  BY <1>1, <1>4 DEF Longer
<1>6. ASSUME NEW i \in 1 .. m + 1, NEW j \in 1 .. m + 1, i < j PROVE l[i].stamp < l[j].stamp
  <2>1. i \in 1 .. m /\ l[i] = s[i] /\ s[i] \in E
    BY <1>1, <1>4, <1>6 DEF Longer
  <2>2. CASE j = m + 1
    BY <2>1, <2>2 DEF Longer
  <2>3. CASE j # m + 1
    <3>1. j \in 1 .. m /\ l[j] = s[j]
      BY <1>1, <2>3 DEF Longer
    <3> QED BY <1>4, <1>6, <2>1, <3>1
  <2> QED BY <2>2, <2>3
<1> HIDE DEF l
<1>7. IsOrder(l, E \cup {n})
  BY <1>3, <1>5, <1>6 DEF IsOrder
<1> QED BY <1>1, <1>3, <1>7 DEF m, l

\* A set that is not empty has a youngest entry.
LEMMA Youngest ==
  ASSUME NEW E, Stamped(E), E # {}
  PROVE  \E e \in E : \A f \in E \ {e} : f.stamp < e.stamp
<1> DEFINE K == {k \in Nat : \A e \in E : e.stamp < k}
<1>1. K # {} /\ K \subseteq Nat /\ \A e \in E : e.stamp \in Nat
  BY DEF Stamped, Entry
<1>2. PICK k \in K : \A l \in K : k <= l
  BY <1>1, Least
<1>3. k \in Nat /\ k > 0 /\ \A e \in E : e.stamp < k
  BY <1>1
<1>4. k - 1 \notin K /\ k - 1 \in Nat
  <2>1. k - 1 \in Nat /\ ~ (k <= k - 1)
    BY <1>3
  <2> HIDE DEF K
  <2> QED BY <1>2, <2>1
<1>5. PICK e \in E : ~ (e.stamp < k - 1)
  BY <1>4
<1>6. \A f \in E : f.stamp <= e.stamp
  BY <1>1, <1>3, <1>5
<1>7. \A f \in E \ {e} : f.stamp < e.stamp
  BY <1>1, <1>6 DEF Stamped
<1> QED BY <1>7

\* Entries can be ordered: induction on how many there are.
LEMMA OrderExists ==
  ASSUME NEW E, Stamped(E)
  PROVE  \E s : IsOrder(s, E)
<1> DEFINE B == {T \in SUBSET E : ~ \E s : IsOrder(s, T)}
<1> SUFFICES ASSUME B # {} PROVE FALSE
  OBVIOUS
<1>1. \A T \in B : IsFiniteSet(T)
  BY StampedSubset DEF Stamped
<1>2. PICK T \in B : \A x \in T : T \ {x} \notin B
  BY <1>1, Smallest
<1>3. T \in SUBSET E /\ ~ \E s : IsOrder(s, T)
  OBVIOUS
<1>4. T # {}
  <2>1. Cardinality({}) = 0
    BY FS_EmptySet
  <2>2. IsOrder([i \in 1 .. 0 |-> 0], {})
    BY <2>1 DEF IsOrder
  <2> QED BY <1>3, <2>2
<1>5. PICK y \in T : \A f \in T \ {y} : f.stamp < y.stamp
  BY <1>3, <1>4, StampedSubset, Youngest
<1>6. PICK s : IsOrder(s, T \ {y})
  BY <1>2, <1>3
<1>7. Stamped(T \ {y}) /\ y \in Entry
  BY <1>3, StampedSubset DEF Stamped
<1>8. IsOrder(Longer(s, Cardinality(T \ {y}), y), (T \ {y}) \cup {y})
  BY <1>5, <1>6, <1>7, OrderAdd
<1>9. (T \ {y}) \cup {y} = T
  OBVIOUS
<1> QED BY <1>3, <1>8, <1>9

\* An order has every entry.
LEMMA OrderOnto ==
  ASSUME NEW E, Stamped(E), NEW s, IsOrder(s, E), NEW e \in E
  PROVE  \E i \in 1 .. Cardinality(E) : s[i] = e
<1> DEFINE m == Cardinality(E)
<1>1. m \in Nat /\ IsFiniteSet(E)
  BY FS_CardinalityType DEF Stamped
<1>2. s \in [1 .. m -> E] /\ \A i, j \in 1 .. m : i < j => s[i].stamp < s[j].stamp
  BY DEF IsOrder
<1>3. IsFiniteSet(1 .. m) /\ Cardinality(1 .. m) = m
  BY <1>1, FS_Interval
<1>4. \A f \in E : f.stamp \in Nat
  BY DEF Stamped, Entry
<1>5. \A i, j \in 1 .. m : s[i] = s[j] => i = j
  <2>1. ASSUME NEW i \in 1 .. m, NEW j \in 1 .. m, s[i] = s[j], i # j PROVE FALSE
    <3>1. i < j \/ j < i
      BY <1>1, <2>1
    <3>2. s[i].stamp < s[i].stamp
      BY <1>2, <2>1, <3>1
    <3> QED BY <1>2, <1>4, <3>2
  <2> QED BY <2>1
<1>6. s \in Injection(1 .. m, E)
  BY <1>2, <1>5 DEF Injection, IsInjective
<1>7. s \in Surjection(1 .. m, E)
  BY <1>1, <1>3, <1>6, FS_Injection
<1> QED BY <1>7 DEF Surjection

\* There is one order.
LEMMA OrderIs ==
  ASSUME NEW E, Stamped(E), NEW s, IsOrder(s, E)
  PROVE  Order(E) = s
<1> DEFINE m == Cardinality(E)
           t == Order(E)
<1>1. m \in Nat
  BY FS_CardinalityType DEF Stamped
<1>2. IsOrder(t, E)
  BY DEF Order, IsOrder
<1> HIDE DEF t
<1>3. /\ s \in [1 .. m -> E] /\ \A i, j \in 1 .. m : i < j => s[i].stamp < s[j].stamp
      /\ t \in [1 .. m -> E] /\ \A i, j \in 1 .. m : i < j => t[i].stamp < t[j].stamp
  BY <1>2 DEF IsOrder
<1>4. \A f \in E : f.stamp \in Nat
  BY DEF Stamped, Entry
<1> DEFINE D == {i \in 1 .. m : s[i] # t[i]}
<1>5. D = {}
  <2> SUFFICES ASSUME D # {} PROVE FALSE
    OBVIOUS
  <2>1. D \subseteq Nat
    BY <1>1
  <2>2. PICK i \in D : \A j \in D : i <= j
    BY <2>1, Least
  <2>3. i \in 1 .. m /\ s[i] # t[i] /\ \A j \in 1 .. m : j < i => s[j] = t[j]
    <3>1. ASSUME NEW j \in 1 .. m, j < i, s[j] # t[j] PROVE FALSE
      <4>1. j \in D /\ i \in Nat /\ j \in Nat
        BY <1>1, <3>1
      <4>2. i <= j
        <5> HIDE DEF D
        <5> QED BY <2>2, <4>1
      <4> QED BY <3>1, <4>1, <4>2
    <3> QED BY <3>1
  <2> HIDE DEF D, m
  <2>4. s[i].stamp \in Nat /\ t[i].stamp \in Nat /\ s[i].stamp # t[i].stamp
    BY <1>3, <1>4, <2>3 DEF Stamped
  <2>7. s[i] \in E /\ t[i] \in E
    BY ONLY <1>3, <2>3
  <2>5. CASE s[i].stamp < t[i].stamp
    <3>1. PICK j \in 1 .. m : t[j] = s[i]
      BY ONLY <1>2, <2>7, Stamped(E), OrderOnto DEF m
    <3>2. t[j].stamp < t[i].stamp /\ t[j].stamp \in Nat
      BY <2>4, <2>5, <3>1
    <3>3. ~ (i < j) /\ i # j
      <4>1. i < j => t[i].stamp < t[j].stamp
        BY <1>3, <2>3, <3>1
      <4> QED BY <2>4, <3>2, <4>1
    <3>4. j < i /\ s[j] = t[j]
      BY <1>1, <2>3, <3>3 DEF m
    <3>5. s[j].stamp < s[i].stamp
      BY <1>3, <2>3, <3>4
    <3> QED BY <2>4, <3>1, <3>4, <3>5
  <2>6. CASE t[i].stamp < s[i].stamp
    <3>1. PICK j \in 1 .. m : s[j] = t[i]
      BY ONLY <2>7, Stamped(E), IsOrder(s, E), OrderOnto DEF m
    <3>2. s[j].stamp < s[i].stamp /\ s[j].stamp \in Nat
      BY <2>4, <2>6, <3>1
    <3>3. ~ (i < j) /\ i # j
      <4>1. i < j => s[i].stamp < s[j].stamp
        BY <1>3, <2>3, <3>1
      <4> QED BY <2>4, <3>2, <4>1
    <3>4. j < i /\ s[j] = t[j]
      BY <1>1, <2>3, <3>3 DEF m
    <3>5. t[j].stamp < t[i].stamp
      BY <1>3, <2>3, <3>4
    <3> QED BY <2>4, <3>1, <3>4, <3>5
  <2> QED BY <2>4, <2>5, <2>6
<1>6. \A i \in 1 .. m : s[i] = t[i]
  BY <1>5
<1>7. s = t
  <2>1. s = [i \in 1 .. m |-> s[i]] /\ t = [i \in 1 .. m |-> t[i]]
    BY <1>3
  <2> HIDE DEF m, D
  <2>2. [i \in 1 .. m |-> s[i]] = [i \in 1 .. m |-> t[i]]
    BY ONLY <1>6
  <2> QED BY ONLY <2>1, <2>2
<1> QED BY <1>7 DEF t

\* Taking the i-th entry away.
LEMMA OrderDrop ==
  ASSUME NEW E, Stamped(E), NEW s, IsOrder(s, E), NEW i \in 1 .. Cardinality(E)
  PROVE  /\ s[i] \in E /\ Cardinality(E) \in Nat /\ Cardinality(E \ {s[i]}) = Cardinality(E) - 1
         /\ IsOrder(Shorter(s, Cardinality(E), i), E \ {s[i]})
<1> DEFINE m == Cardinality(E)
           l == Shorter(s, m, i)
<1>1. m \in Nat /\ \A e \in E : e.stamp \in Nat
  BY FS_CardinalityType DEF Stamped, Entry
<1>2. s \in [1 .. m -> E] /\ \A j, k \in 1 .. m : j < k => s[j].stamp < s[k].stamp
  BY DEF IsOrder
<1>3. s[i] \in E
  BY <1>2
<1>4. Cardinality(E \ {s[i]}) = m - 1
  BY <1>3, FS_RemoveElement DEF Stamped
<1>5. i \in 1 .. m
  OBVIOUS
<1> HIDE DEF m
<1>6. \A j, k \in 1 .. m : s[j] = s[k] => j = k
  <2>1. ASSUME NEW j \in 1 .. m, NEW k \in 1 .. m, s[j] = s[k], j # k PROVE FALSE
    <3>1. j < k \/ k < j
      BY <1>1, <2>1
    <3>2. s[j].stamp < s[j].stamp /\ s[j] \in E
      BY <1>2, <2>1, <3>1
    <3> QED BY <1>1, <3>2
  <2> QED BY <2>1
<1>7. \A j \in 1 .. m - 1 : /\ j \in 1 .. m /\ j + 1 \in 1 .. m
                            /\ l[j] = IF j < i THEN s[j] ELSE s[j + 1]
  BY <1>1 DEF Shorter
<1>8. l \in [1 .. m - 1 -> E \ {s[i]}]
  <2>1. ASSUME NEW j \in 1 .. m - 1 PROVE l[j] \in E \ {s[i]}
    <3>1. CASE j < i
      BY ONLY <1>1, <1>2, <1>5, <1>6, <1>7, <2>1, <3>1
    <3>2. CASE ~ (j < i)
      <4>1. l[j] = s[j + 1] /\ j + 1 \in 1 .. m /\ j + 1 # i
        BY ONLY <1>1, <1>5, <1>7, <2>1, <3>2
      <4> QED BY ONLY <1>2, <1>5, <1>6, <4>1
    <3> QED BY <3>1, <3>2
  <2>2. l = [j \in 1 .. m - 1 |-> l[j]]
    BY DEF Shorter
  <2> HIDE DEF l
  <2> QED BY <2>1, <2>2
<1>9. ASSUME NEW j \in 1 .. m - 1, NEW k \in 1 .. m - 1, j < k PROVE l[j].stamp < l[k].stamp
  <2> DEFINE a == IF j < i THEN j ELSE j + 1
             b == IF k < i THEN k ELSE k + 1
  <2>1. a \in 1 .. m /\ b \in 1 .. m /\ a < b
    BY <1>1, <1>5, <1>9
  <2>2. l[j] = s[a] /\ l[k] = s[b]
    BY <1>7
  <2> QED BY <1>2, <2>1, <2>2
<1> HIDE DEF l
<1>10. IsOrder(l, E \ {s[i]})
  BY <1>4, <1>8, <1>9 DEF IsOrder
<1> QED BY <1>1, <1>3, <1>4, <1>10 DEF m, l

-----------------------------------------------------------------------------
(* The mapping of the entries to a least recently used cache. *)

\* The data in the order of use, and their values.
Tds(E) == [i \in 1 .. Cardinality(E) |-> Order(E)[i].td]
Held(E) == [d \in Data |-> IF \E e \in E : e.td = d THEN (CHOOSE e \in E : e.td = d).data ELSE None]

LEMMA TdsType ==
  ASSUME NEW E, Stamped(E)
  PROVE  /\ Cardinality(E) \in Nat /\ IsOrder(Order(E), E)
         /\ Tds(E) \in Seq(Data) /\ Len(Tds(E)) = Cardinality(E)
         /\ \A d : (\E i \in 1 .. Len(Tds(E)) : Tds(E)[i] = d) <=> \E e \in E : e.td = d
<1> DEFINE m == Cardinality(E)
           s == Order(E)
<1>1. m \in Nat
  BY FS_CardinalityType DEF Stamped
<1>2. IsOrder(s, E)
  BY OrderExists, OrderIs
<1>3. s \in [1 .. m -> E] /\ \A e \in E : e.td \in Data
  BY <1>2 DEF IsOrder, Stamped, Entry
<1> HIDE DEF m, s
<1>4. [i \in 1 .. m |-> s[i].td] \in [1 .. m -> Data]
  BY <1>3
<1> DEFINE t == [i \in 1 .. m |-> s[i].td]
<1>5. t \in Seq(Data)
  BY <1>1, <1>4, SeqDef
<1>6. DOMAIN t = 1 .. m
  OBVIOUS
<1>7. Len(t) = m
  <2> HIDE DEF t
  <2> QED BY <1>1, <1>5, <1>6, LenProperties
<1>8. ASSUME NEW d PROVE (\E i \in 1 .. m : t[i] = d) <=> \E e \in E : e.td = d
  <2>1. ASSUME NEW e \in E, e.td = d PROVE \E i \in 1 .. m : t[i] = d
    <3>1. PICK i \in 1 .. m : s[i] = e
      BY <1>2, OrderOnto DEF m
    <3> QED BY <2>1, <3>1
  <2> QED BY <1>3, <2>1
<1>9. t = Tds(E)
  BY DEF t, Tds, m, s
<1> QED BY <1>1, <1>2, <1>5, <1>7, <1>8, <1>9 DEF m, s

\* A new entry, the youngest, appends its datum.
LEMMA TdsAdd ==
  ASSUME NEW E, Stamped(E), NEW n \in Entry, \A e \in E : e.stamp < n.stamp
  PROVE  Stamped(E \cup {n}) /\ Tds(E \cup {n}) = Append(Tds(E), n.td)
<1> DEFINE F == E \cup {n}
           m == Cardinality(E)
           t == Tds(E)
           u == Tds(F)
<1>1. Stamped(F)
  <2>1. IsFiniteSet(F) /\ F \subseteq Entry /\ n.stamp + 1 \in Nat
    BY FS_AddElement DEF Stamped, Entry
  <2>2. \A e, f \in F : e.stamp = f.stamp => e = f
    BY DEF Stamped, Entry
  <2>3. \A e \in F : e.stamp < n.stamp + 1
    BY DEF Stamped, Entry
  <2> QED BY <2>1, <2>2, <2>3 DEF Stamped
<1>2. /\ m \in Nat /\ IsOrder(Order(E), E) /\ t \in Seq(Data) /\ Len(t) = m
      /\ u \in Seq(Data) /\ Len(u) = Cardinality(F)
  BY <1>1, TdsType
<1>3. Cardinality(F) = m + 1 /\ IsOrder(Longer(Order(E), m, n), F)
  BY <1>2, OrderAdd
<1>4. Order(F) = Longer(Order(E), m, n)
  BY <1>1, <1>3, OrderIs
<1>5. \A i \in 1 .. m + 1 : u[i] = (IF i = m + 1 THEN n ELSE Order(E)[i]).td
  BY <1>2, <1>3, <1>4 DEF Tds, Longer
<1>6. \A i \in 1 .. m : t[i] = Order(E)[i].td
  BY DEF Tds
<1>7. n.td \in Data
  BY DEF Entry
<1> HIDE DEF F, m, t, u
<1>8. /\ Append(t, n.td) \in Seq(Data) /\ Len(Append(t, n.td)) = m + 1
      /\ \A i \in 1 .. m : Append(t, n.td)[i] = t[i]
      /\ Append(t, n.td)[m + 1] = n.td
  BY ONLY <1>2, <1>7, AppendProperties
<1>9. \A i \in 1 .. m + 1 : u[i] = Append(t, n.td)[i]
  BY <1>2, <1>5, <1>6, <1>8
<1>10. u = Append(t, n.td)
  BY ONLY <1>2, <1>3, <1>8, <1>9, SeqEqual
<1> QED BY <1>1, <1>10 DEF F, t, u

\* An entry taken away takes its datum out of the order.
LEMMA TdsDrop ==
  ASSUME NEW E, Stamped(E), NEW i \in 1 .. Cardinality(E)
  PROVE  /\ Order(E)[i] \in E /\ Tds(E)[i] = Order(E)[i].td
         /\ Tds(E \ {Order(E)[i]}) = SubSeq(Tds(E), 1, i - 1) \o SubSeq(Tds(E), i + 1, Len(Tds(E)))
         /\ i = 1 => Tds(E) # << >> /\ Tds(E \ {Order(E)[i]}) = Tail(Tds(E)) /\ Head(Tds(E)) = Order(E)[i].td
<1> DEFINE e == Order(E)[i]
           F == E \ {e}
           m == Cardinality(E)
           t == Tds(E)
           u == Tds(F)
           a == SubSeq(t, 1, i - 1)
           b == SubSeq(t, i + 1, m)
<1>1. Stamped(F)
  BY StampedSubset
<1>2. /\ m \in Nat /\ IsOrder(Order(E), E) /\ t \in Seq(Data) /\ Len(t) = m
      /\ u \in Seq(Data) /\ Len(u) = Cardinality(F)
  BY <1>1, TdsType
<1>3. e \in E /\ Cardinality(F) = m - 1 /\ IsOrder(Shorter(Order(E), m, i), F)
  BY <1>2, OrderDrop
<1>4. Order(F) = Shorter(Order(E), m, i)
  BY <1>1, <1>3, OrderIs
<1>5. \A j \in 1 .. m - 1 : u[j] = (IF j < i THEN Order(E)[j] ELSE Order(E)[j + 1]).td
  BY <1>3, <1>4 DEF Tds, Shorter
<1>6. \A j \in 1 .. m : t[j] = Order(E)[j].td
  BY DEF Tds
<1>7. i \in 1 .. m /\ i \in Nat /\ i > 0 /\ i <= m
  BY <1>2
<1> HIDE DEF e, F, m, t, u
<1>8. \A j \in 1 .. m - 1 : u[j] = IF j < i THEN t[j] ELSE t[j + 1]
  BY ONLY <1>2, <1>5, <1>6, <1>7
<1>9. /\ a \in Seq(Data) /\ Len(a) = i - 1 /\ \A j \in 1 .. i - 1 : a[j] = t[j]
      /\ b \in Seq(Data) /\ Len(b) = m - i /\ \A j \in 1 .. m - i : b[j] = t[i + j]
  BY ONLY <1>2, <1>7
<1> HIDE DEF a, b
<1>10. /\ a \o b \in Seq(Data) /\ Len(a \o b) = m - 1
       /\ \A j \in 1 .. m - 1 : (a \o b)[j] = IF j < i THEN t[j] ELSE t[j + 1]
  <2>1. /\ a \o b \in Seq(Data) /\ Len(a \o b) = Len(a) + Len(b)
        /\ \A j \in 1 .. Len(a) + Len(b) : (a \o b)[j] = IF j <= Len(a) THEN a[j] ELSE b[j - Len(a)]
    BY ONLY <1>9, ConcatProperties
  <2>2. Len(a) + Len(b) = m - 1
    BY ONLY <1>2, <1>7, <1>9
  <2>3. ASSUME NEW j \in 1 .. m - 1 PROVE (a \o b)[j] = IF j < i THEN t[j] ELSE t[j + 1]
    <3>1. (a \o b)[j] = IF j <= i - 1 THEN a[j] ELSE b[j - (i - 1)]
      BY ONLY <1>9, <2>1, <2>2, <2>3
    <3>2. CASE j < i
      BY ONLY <1>2, <1>7, <1>9, <2>3, <3>1, <3>2
    <3>3. CASE ~ (j < i)
      <4>1. j - (i - 1) \in 1 .. m - i /\ i + (j - (i - 1)) = j + 1 /\ ~ (j <= i - 1)
        BY ONLY <1>2, <1>7, <2>3, <3>3
      <4> QED BY ONLY <1>9, <3>1, <3>3, <4>1
    <3> QED BY <3>2, <3>3
  <2> QED BY <2>1, <2>2, <2>3
<1>11. u = a \o b
  BY ONLY <1>2, <1>3, <1>8, <1>10, SeqEqual
<1>12. ASSUME i = 1 PROVE t # << >> /\ u = Tail(t) /\ Head(t) = t[1]
  <2>1. Len(t) # 0 /\ t # << >>
    BY ONLY <1>2, <1>7
  <2>2. /\ Tail(t) \in Seq(Data) /\ Len(Tail(t)) = m - 1 /\ Head(t) = t[1]
        /\ \A j \in 1 .. m - 1 : Tail(t)[j] = t[j + 1]
    BY ONLY <1>2, <2>1, HeadTailProperties
  <2>3. \A j \in 1 .. m - 1 : u[j] = Tail(t)[j]
    BY ONLY <1>2, <1>8, <1>12, <2>2
  <2>4. u = Tail(t)
    BY ONLY <1>2, <1>3, <2>2, <2>3, SeqEqual
  <2> QED BY <2>1, <2>2, <2>4
<1> QED BY <1>2, <1>3, <1>6, <1>7, <1>11, <1>12 DEF e, F, m, t, u, a, b

\* Each datum has one entry at most.
OnePerDatum(E) == E \subseteq Entry /\ \A e, f \in E : e.td = f.td => e = f

LEMMA HeldIs ==
  ASSUME NEW E, OnePerDatum(E), NEW d \in Data
  PROVE  /\ \A e \in E : e.td = d => Held(E)[d] = e.data
         /\ (\A e \in E : e.td # d) => Held(E)[d] = None
<1>1. ASSUME NEW e \in E, e.td = d PROVE Held(E)[d] = e.data
  <2>1. (CHOOSE f \in E : f.td = d) = e
    BY <1>1 DEF OnePerDatum
  <2> QED BY <1>1, <2>1 DEF Held
<1>2. ASSUME \A e \in E : e.td # d PROVE Held(E)[d] = None
  BY <1>2 DEF Held
<1> QED BY <1>1, <1>2

\* What becomes of the values when an entry is added.
LEMMA HeldAdd ==
  ASSUME NEW E, OnePerDatum(E), NEW n \in Entry, \A e \in E : e.td # n.td
  PROVE  OnePerDatum(E \cup {n}) /\ Held(E \cup {n}) = [Held(E) EXCEPT ![n.td] = n.data]
<1> DEFINE F == E \cup {n}
           h == [Held(E) EXCEPT ![n.td] = n.data]
<1>1. OnePerDatum(F)
  BY DEF OnePerDatum
<1>2. n.td \in Data
  BY DEF Entry
<1>3. Held(E) = [d \in Data |-> Held(E)[d]] /\ Held(F) = [d \in Data |-> Held(F)[d]]
  BY DEF Held
<1>4. ASSUME NEW d \in Data PROVE Held(F)[d] = IF d = n.td THEN n.data ELSE Held(E)[d]
  <2>1. CASE d = n.td
    BY <1>1, <2>1, HeldIs
  <2>2. CASE d # n.td /\ \E e \in E : e.td = d
    <3>1. PICK e \in E : e.td = d
      BY <2>2
    <3>2. Held(E)[d] = e.data
      BY <3>1, HeldIs
    <3>3. Held(F)[d] = e.data
      BY <1>1, <3>1, HeldIs
    <3> QED BY <2>2, <3>2, <3>3
  <2>3. CASE d # n.td /\ \A e \in E : e.td # d
    <3>1. Held(E)[d] = None
      BY <2>3, HeldIs
    <3>2. Held(F)[d] = None
      BY <1>1, <2>3, HeldIs
    <3> QED BY <2>3, <3>1, <3>2
  <2> QED BY <2>1, <2>2, <2>3
<1> HIDE DEF F
<1>5. h = [d \in Data |-> IF d = n.td THEN n.data ELSE Held(E)[d]]
  BY <1>3
<1>6. Held(F) = h
  BY ONLY <1>3, <1>4, <1>5
<1> QED BY <1>1, <1>6 DEF F

\* And when one is taken away.
LEMMA HeldDrop ==
  ASSUME NEW E, OnePerDatum(E), NEW e \in E
  PROVE  OnePerDatum(E \ {e}) /\ Held(E \ {e}) = [Held(E) EXCEPT ![e.td] = None]
<1> DEFINE F == E \ {e}
           h == [Held(E) EXCEPT ![e.td] = None]
<1>1. OnePerDatum(F) /\ e.td \in Data
  BY DEF OnePerDatum, Entry
<1>2. Held(E) = [d \in Data |-> Held(E)[d]] /\ Held(F) = [d \in Data |-> Held(F)[d]]
  BY DEF Held
<1>3. ASSUME NEW d \in Data PROVE Held(F)[d] = IF d = e.td THEN None ELSE Held(E)[d]
  <2>1. CASE d = e.td
    <3>1. \A f \in F : f.td # d
      BY <2>1 DEF OnePerDatum
    <3> QED BY <1>1, <2>1, <3>1, HeldIs
  <2>2. CASE d # e.td /\ \E f \in E : f.td = d
    <3>1. PICK f \in E : f.td = d
      BY <2>2
    <3>2. Held(E)[d] = f.data
      BY <3>1, HeldIs
    <3>3. f \in F
      BY <2>2, <3>1
    <3>4. Held(F)[d] = f.data
      BY <1>1, <3>1, <3>3, HeldIs
    <3> QED BY <2>2, <3>2, <3>4
  <2>3. CASE d # e.td /\ \A f \in E : f.td # d
    <3>1. Held(E)[d] = None
      BY <2>3, HeldIs
    <3>2. Held(F)[d] = None
      BY <1>1, <2>3, HeldIs
    <3> QED BY <2>3, <3>1, <3>2
  <2> QED BY <2>1, <2>2, <2>3
<1> HIDE DEF F
<1>4. h = [d \in Data |-> IF d = e.td THEN None ELSE Held(E)[d]]
  BY <1>2
<1>5. Held(F) = h
  BY ONLY <1>2, <1>3, <1>4
<1> QED BY <1>1, <1>5 DEF F

\* What the mapping needs of the table holds in every state.
LEMMA Mapped == CInv => Stamped(entries) /\ OnePerDatum(entries) /\ \A e \in entries : e.stamp < counter
BY DEF CInv, TypeOK, Agree, Room, Stamped, OnePerDatum

\* The mapping of Cache, in terms of the entries.
LEMMA MappingIs == UseOrder = Tds(entries) /\ HeldValues = Held(entries)
BY DEF UseOrder, HeldValues, Tds, Held, EntryOf

\* Without a limit on bytes nothing goes beyond what a full cache displaces.
LEMMA KeepAll ==
  ASSUME NEW s \in Seq(Data), NEW h \in [Data -> Values \cup {None}],
         Tds(entries') = s, Held(entries') = h
  PROVE  Lru!Keep(s, h)
<1>1. /\ UseOrder' = s /\ HeldValues' = h
  <2>1. (UseOrder = Tds(entries) /\ HeldValues = Held(entries))'
    BY MappingIs, PTL
  <2> QED BY <2>1
<1>2. Len(s) \in Nat /\ 0 \in 0 .. Len(s) /\ 0 .. 0 - 1 = {}
  BY SMT
<1>3. SubSeq(s, 0 + 1, Len(s)) = s
  BY <1>2, SMT
<1>4. Lru!First(s, 0) = {}
  BY SMT DEF Lru!First
<1>5. h = [d \in Data |-> IF d \in Lru!First(s, 0) THEN None ELSE h[d]]
  BY <1>4
<1>6. \A t : Lru!Fits(t, h)
  BY DEF Lru!Fits
<1> QED BY <1>1, <1>2, <1>3, <1>5, <1>6 DEF Lru!Keep

LEMMA MappedNext == UseOrder' = Tds(entries') /\ HeldValues' = Held(entries')
<1>1. (UseOrder = Tds(entries) /\ HeldValues = Held(entries))'
  BY MappingIs, PTL
<1> QED BY <1>1

\* The values of any set of entries.
LEMMA HeldType ==
  ASSUME CInv, NEW d \in Data, NEW v \in Values, CacheStore(d, v)
  PROVE  Held(entries') \in [Data -> Values \cup {None}]
<1>1. entries \subseteq Entry /\ NewEntry(d, v) \in Entry
  BY DEF CInv, TypeOK, NewEntry, Entry
<1>2. entries' \subseteq entries \cup {NewEntry(d, v)}
  <2>1. CASE MaxEntries = 0
    BY <2>1 DEF CacheStore
  <2>2. CASE CacheReplace(d, v)
    BY <2>2 DEF CacheReplace, cache
  <2>3. CASE CacheAdd(d, v)
    BY <2>3 DEF CacheAdd
  <2> QED BY <2>1, <2>2, <2>3 DEF CacheStore
<1>3. entries' \subseteq Entry
  BY <1>1, <1>2
<1> QED BY <1>3 DEF Held, Entry

LEMMA LruInit == Init => Lru!Init
<1> SUFFICES ASSUME Init PROVE Lru!Init
  OBVIOUS
<1>1. entries = {} /\ Cardinality(entries) = 0
  BY FS_EmptySet DEF Init
<1>2. Tds(entries) = << >> /\ Held(entries) = [d \in Data |-> None]
  BY <1>1 DEF Tds, Held
<1> QED BY <1>2, MappingIs DEF Lru!Init

\* A hit makes its datum the youngest.
LEMMA TouchIsUse ==
  ASSUME CInv, NEW d \in Data, CacheCheck(d), Touch(d)
  PROVE  Lru!Use(d)
<1> DEFINE e == EntryOf(d)
           n == [e EXCEPT !.stamp = counter]
           R == entries \ {e}
           t == Tds(entries)
<1>1. e \in entries /\ e \in Entry /\ e.td = d /\ counter \in Nat
  BY EntryFound DEF CInv, TypeOK
<1>2. n \in Entry /\ n.data = e.data /\ n.td = d /\ n.stamp = counter
  BY <1>1 DEF Entry
<1>3. entries' = R \cup {n}
  BY DEF Touch
<1>4. Stamped(entries) /\ OnePerDatum(entries) /\ \A f \in entries : f.stamp < counter
  BY Mapped
<1> HIDE DEF e, n
<1>5. \A f \in R : f.td # n.td /\ f.stamp < n.stamp
  BY <1>1, <1>2, <1>4 DEF OnePerDatum
<1>6. Stamped(R) /\ IsOrder(Order(entries), entries)
  BY <1>4, StampedSubset, TdsType
<1>7. PICK i \in 1 .. Cardinality(entries) : Order(entries)[i] = e
  BY <1>1, <1>4, <1>6, OrderOnto
<1>8. /\ Tds(R) = SubSeq(t, 1, i - 1) \o SubSeq(t, i + 1, Len(t)) /\ t[i] = d
      /\ Len(t) = Cardinality(entries)
  BY <1>1, <1>4, <1>7, TdsDrop, TdsType
<1>9. Tds(R \cup {n}) = Append(Tds(R), d)
  BY <1>2, <1>5, <1>6, TdsAdd
<1>10. OnePerDatum(R) /\ Held(R) = [Held(entries) EXCEPT ![d] = None]
  BY <1>1, <1>4, HeldDrop
<1>11. Held(R \cup {n}) = [Held(R) EXCEPT ![d] = e.data]
  BY <1>2, <1>5, <1>10, HeldAdd
<1>12. Held(entries)[d] = e.data /\ Held(entries) = [x \in Data |-> Held(entries)[x]]
  <2>1. Held(entries)[d] = e.data
    BY <1>1, <1>4, HeldIs
  <2> QED BY <2>1 DEF Held
<1>13. Held(R \cup {n}) = Held(entries)
  <2> DEFINE h == Held(entries)
  <2>1. [[h EXCEPT ![d] = None] EXCEPT ![d] = e.data] = h
    <3> HIDE DEF h
    <3>1. h[d] = e.data /\ h = [x \in Data |-> h[x]]
      BY <1>12 DEF h
    <3> QED BY ONLY <3>1
  <2> QED BY <1>10, <1>11, <2>1
<1>14. /\ i \in 1 .. Len(t) /\ t[i] = d
       /\ Tds(entries') = Append(SubSeq(t, 1, i - 1) \o SubSeq(t, i + 1, Len(t)), d)
       /\ Held(entries') = Held(entries)
  BY <1>3, <1>7, <1>8, <1>9, <1>13
<1>15. \E j \in 1 .. Len(t) : t[j] = d
         /\ Tds(entries') = Append(SubSeq(t, 1, j - 1) \o SubSeq(t, j + 1, Len(t)), d)
  BY <1>14
<1> HIDE DEF R
<1> QED BY <1>14, <1>15, MappingIs, MappedNext DEF Lru!Use, Lru!Without

\* A store fills a free place or displaces the datum used least recently.
LEMMA StoreIsInsert ==
  ASSUME CInv, NEW d \in Data, NEW v \in Values, CacheStore(d, v), \A f \in entries : f.td # d
  PROVE  Lru!Insert(d, v) \/ Lru!Displace(d, v) \/ UNCHANGED entries
<1> DEFINE n == NewEntry(d, v)
           t == Tds(entries)
           m == Cardinality(entries)
<1>1. /\ counter \in Nat /\ m \in Nat /\ (entries # {} => m < MaxEntries)
      /\ Stamped(entries) /\ OnePerDatum(entries) /\ \A f \in entries : f.stamp < counter
      /\ lru = {Node(f.stamp, f.td) : f \in entries} /\ entries \subseteq Entry
  BY Mapped, FS_CardinalityType DEF CInv, TypeOK, Room, Agree
<1>2. n \in Entry /\ n.data = v /\ n.td = d /\ n.stamp = counter
  BY <1>1 DEF NewEntry, Entry
<1>3. t \in Seq(Data) /\ Len(t) = m /\ ~ \E i \in 1 .. Len(t) : t[i] = d
  BY <1>1, TdsType
<1>4. CASE MaxEntries = 0 \/ (MaxEntries - m = 1 /\ lru = {})
  BY <1>4 DEF CacheStore, CacheReplace, cache
<1>5. CASE MaxEntries # 0 /\ MaxEntries - m = 1 /\ lru # {}
  <2>1. PICK k \in lru : \E f \in entries : /\ Leftmost(k) /\ f.td = k.td
                                             /\ entries' = (entries \ {f}) \cup {n}
    BY <1>5 DEF CacheStore, CacheReplace
  <2>2. PICK e \in entries : Leftmost(k) /\ e.td = k.td /\ entries' = (entries \ {e}) \cup {n}
    BY <2>1
  <2> HIDE DEF n
  <2>3. PICK g \in entries : k = Node(g.stamp, g.td)
    BY <1>1, <2>1
  <2>4. g = e /\ k.key = e.stamp
    BY <1>1, <2>2, <2>3 DEF OnePerDatum, Node
  <2>5. \A f \in entries : e.stamp <= f.stamp
    <3>1. ASSUME NEW f \in entries PROVE e.stamp <= f.stamp
      <4>1. Node(f.stamp, f.td) \in lru /\ Node(f.stamp, f.td).key = f.stamp
        BY <1>1 DEF Node
      <4> QED BY <2>2, <2>4, <4>1 DEF Leftmost
    <3> QED BY <3>1
  <2>6. PICK i \in 1 .. m : Order(entries)[i] = e
    BY <1>1, TdsType, OrderOnto
  <2>7. i = 1
    <3>1. SUFFICES ASSUME i # 1 PROVE FALSE
      OBVIOUS
    <3>2. 1 \in 1 .. m /\ 1 < i
      BY <1>1, <2>6, <3>1
    <3>3. IsOrder(Order(entries), entries)
      BY <1>1, TdsType
    <3>4. Order(entries)[1].stamp < e.stamp /\ Order(entries)[1] \in entries
      BY <2>6, <3>2, <3>3 DEF IsOrder
    <3>5. Order(entries)[1].stamp \in Nat /\ e.stamp \in Nat
      BY <1>1, <3>4 DEF Entry
    <3> QED BY <2>5, <3>4, <3>5
  <2> DEFINE R == entries \ {e}
  <2>8. t # << >> /\ Tds(R) = Tail(t) /\ Head(t) = e.td
    BY <1>1, <2>6, <2>7, TdsDrop
  <2>9. Stamped(R) /\ OnePerDatum(R) /\ Held(R) = [Held(entries) EXCEPT ![e.td] = None]
    BY <1>1, StampedSubset, HeldDrop
  <2>10. \A f \in R : f.td # n.td /\ f.stamp < n.stamp
    BY <1>1, <1>2
  <2>11. Tds(entries') = Append(Tail(t), d)
    BY <1>2, <2>2, <2>8, <2>9, <2>10, TdsAdd
  <2>12. Held(entries') = [Held(R) EXCEPT ![d] = v]
    BY <1>2, <2>2, <2>9, <2>10, HeldAdd
  <2>13. e.td # d
    OBVIOUS
  <2> DEFINE h == Held(entries)
             b == Head(t)
  <2>14. [[h EXCEPT ![b] = None] EXCEPT ![d] = v] = [h EXCEPT ![d] = v, ![b] = None]
    <3>1. b # d
      BY <2>8, <2>13
    <3> HIDE DEF h, b
    <3> QED BY ONLY <3>1
  <2>15. Held(entries') = [h EXCEPT ![d] = v, ![Head(t)] = None]
    BY <2>8, <2>9, <2>12, <2>14
  <2>16. Len(t) = Places /\ Places > 0
    <3>1. m # 0
      BY <1>1, <2>2, FS_EmptySet DEF Stamped
    <3> QED BY SizeAssumption, <1>1, <1>3, <1>5, <3>1 DEF Places
  <2>17. Lru!Displace(d, v)
    <3> HIDE DEF R
    <3>1. Append(Tail(t), d) \in Seq(Data) /\ Held(entries') \in [Data -> Values \cup {None}]
      BY <1>3, <2>8, <2>11, HeldType
    <3>2. Lru!Keep(Append(Tail(t), d), [h EXCEPT ![d] = v, ![Head(t)] = None])
      BY <2>11, <2>15, <3>1, KeepAll
    <3> QED BY <1>3, <2>16, <3>2, MappingIs DEF Lru!Displace, Lru!cached, Lru!First
  <2> QED BY <2>17
<1>6. CASE MaxEntries # 0 /\ MaxEntries - m # 1
  <2>1. entries' = entries \cup {n}
    BY <1>6 DEF CacheStore, CacheAdd
  <2> HIDE DEF n
  <2>2. \A f \in entries : f.td # n.td /\ f.stamp < n.stamp
    BY <1>1, <1>2
  <2>3. Tds(entries') = Append(t, d) /\ Held(entries') = [Held(entries) EXCEPT ![d] = v]
    BY <1>1, <1>2, <2>1, <2>2, TdsAdd, HeldAdd
  <2>4. Len(t) < Places
    <3>1. m < MaxEntries
      BY SizeAssumption, <1>1, <1>6, FS_EmptySet DEF Stamped
    <3> QED BY SizeAssumption, <1>1, <1>3, <1>6, <3>1 DEF Places
  <2>5. Lru!Insert(d, v)
    <3>1. Append(t, d) \in Seq(Data) /\ Held(entries') \in [Data -> Values \cup {None}]
      BY <1>3, HeldType
    <3>2. Lru!Keep(Append(t, d), [Held(entries) EXCEPT ![d] = v])
      BY <2>3, <3>1, KeepAll
    <3> QED BY <1>3, <2>4, <3>2, MappingIs DEF Lru!Insert, Lru!cached, Lru!First
  <2> QED BY <2>5
<1> QED BY <1>4, <1>5, <1>6

\* Without a change of the table the cache has done nothing.
LEMMA SameTable ==
  ASSUME UNCHANGED entries
  PROVE  UNCHANGED <<Tds(entries), Held(entries)>>
BY DEF Tds, Held

\* Finalizing forgets everything.
LEMMA FinalizeIsClear == Finalize => Lru!Clear
<1> SUFFICES ASSUME Finalize PROVE Lru!Clear
  OBVIOUS
<1>1. entries' = {} /\ Cardinality(entries') = 0
  BY FS_EmptySet DEF Finalize
<1>2. Tds(entries') = << >> /\ Held(entries') = [d \in Data |-> None]
  BY <1>1 DEF Tds, Held
<1> QED BY <1>2, MappedNext DEF Lru!Clear

LEMMA LruNext == CInv /\ [Next]_vars => [Lru!Next]_<<Tds(entries), Held(entries)>>
<1> SUFFICES ASSUME CInv, [Next]_vars PROVE Lru!Next \/ UNCHANGED <<Tds(entries), Held(entries)>>
  OBVIOUS
<1>1. CASE CacheInit \/ HitDecr \/ UNCHANGED vars
  BY <1>1, SameTable DEF CacheInit, HitDecr, vars, cache
<1>2. CASE Finalize
  BY <1>2, FinalizeIsClear DEF Lru!Next
<1>3. ASSUME NEW d \in Data, OtherDecr(d) \/ \E v \in Values : StorePlain(d, v) \/ OtherStore(d, v)
      PROVE  UNCHANGED <<Tds(entries), Held(entries)>>
  BY <1>3, SameTable DEF OtherDecr, StorePlain, OtherStore, cache
<1>4. ASSUME NEW d \in Data, NEW v \in Values, StoreEager(d, v)
      PROVE  Lru!Next \/ UNCHANGED <<Tds(entries), Held(entries)>>
  <2>1. \A f \in entries : f.td # d
    BY <1>4, AssignOK DEF StoreEager
  <2> QED BY <1>4, <2>1, StoreIsInsert, SameTable DEF StoreEager, Lru!Next
<1>5. ASSUME NEW d \in Data, NEW decr \in BOOLEAN, RetrieveHit(d, decr) PROVE Lru!Next
  BY <1>5, TouchIsUse DEF RetrieveHit, Lru!Next
<1>6. ASSUME NEW d \in Data, NEW decr \in BOOLEAN, NEW keep \in BOOLEAN, RetrieveMiss(d, decr, keep)
      PROVE  Lru!Next \/ UNCHANGED <<Tds(entries), Held(entries)>>
  <2>1. value[d] \in Values /\ refs[d] # 0
    BY <1>6 DEF RetrieveMiss, MayRead, CInv, TypeOK, RefsBalanced
  <2>2. CASE ~keep
    BY <1>6, <2>1, <2>2, SameTable DEF RetrieveMiss, cache
  <2>3. CASE keep
    <3>1. ~CacheCheck(d) /\ CacheStore(d, value[d])
      BY <1>6, <2>1, <2>3 DEF RetrieveMiss, MissValue
    <3>2. MaxEntries = 0 => entries = {}
      BY FS_CardinalityType DEF CInv, Room
    <3>3. \A f \in entries : f.td # d
      BY <3>1, <3>2 DEF CacheCheck
    <3> QED BY <2>1, <3>1, <3>3, StoreIsInsert, SameTable DEF Lru!Next
  <2> QED BY <2>2, <2>3
<1> QED BY <1>1, <1>2, <1>3, <1>4, <1>5, <1>6 DEF Next

\* The cache is a least recently used cache: whatever its size, a hit makes its
\* datum the youngest, and a store to a full cache displaces the oldest datum
\* and no other (turbine_cache_retrieve, cache_add, cache_replace).
THEOREM CacheIsLru == Spec => ImplementsLru
<1>1. CInv /\ [Next]_vars => [Lru!Next]_<<UseOrder, HeldValues>>
  <2> SUFFICES ASSUME CInv, [Next]_vars PROVE Lru!Next \/ UNCHANGED <<UseOrder, HeldValues>>
    OBVIOUS
  <2>1. Lru!Next \/ UNCHANGED <<Tds(entries), Held(entries)>>
    BY LruNext
  <2>2. UseOrder = Tds(entries) /\ HeldValues = Held(entries)
    BY MappingIs
  <2>3. UseOrder' = Tds(entries') /\ HeldValues' = Held(entries')
    BY MappedNext
  <2>4. Tds(entries)' = Tds(entries') /\ Held(entries)' = Held(entries')
    BY DEF Tds, Held
  <2> QED BY <2>1, <2>2, <2>3, <2>4
<1> QED BY <1>1, LruInit, CInvAlways, PTL DEF Spec, ImplementsLru, Lru!Spec
=============================================================================
