------------------------------ MODULE JobProofs ------------------------------
(***************************************************************************)
(* Proofs about Job, for every number of ranks, set of work types, tree of *)
(* tasks and layout.                                                       *)
(***************************************************************************)
EXTENDS Job, FiniteSetTheorems, WellFoundedInduction, TLAPS

-----------------------------------------------------------------------------
(* The inductive invariant. *)

Early == {"off", "init", "ready", "serve", "reload", "barrier", "enter"}
Late  == {"stop", "wait", "left", "finalize", "done"}

\* What the user asked for is a number of servers; rank 0 is not one of them.
EnvInv ==
  /\ env.servers \in 0 .. Size
  /\ mode[0] # SERVER /\ pc[0] # "serve"

\* A service runs from the start of the loop, and not beyond its end.
ServiceInv ==
  \A r \in Ranks :
    /\ pc[r] \in Early => service[r] = "none"
    /\ pc[r] \in Late \ {"stop"} => service[r] # "running"

\* The wait for the service is not over.
WaitInv ==
  \A r \in Ranks : /\ pc[r] \in Early \cup {"get", "eval", "stop"} => waits[r] = 0
                   /\ pc[r] = "wait" => waits[r] < Tries

\* A rank has a task only while it evaluates it or after it has failed.
CurInv ==
  \A r \in Ranks : /\ pc[r] \in Early \cup Late \cup {"get"} => cur[r] = None
                   /\ pc[r] = "eval" => cur[r] \in Tasks

\* What has been put is somewhere.
Known == queue \cup ran \cup {cur[r] : r \in Ranks}

PutInv ==
  /\ pc[0] \in Late \cup {"get", "eval"} => ChildrenOf(None) \subseteq Known
  /\ \A t \in ran : ChildrenOf(t) \subseteq Known

\* Once ADLB has shut down, nothing is queued and nobody evaluates anything.
QuietInv ==
  (job = "shutdown" \/ \E r \in Ranks : pc[r] \in Late) =>
    queue = {} /\ \A q \in Ranks : pc[q] \in Late \cup {"get", "serve"}

XptInv == \A r \in Ranks : pc[r] \in {"finalize", "done"} => r \in xpt

Progress == ServiceInv /\ WaitInv /\ CurInv /\ XptInv
JInv == TypeOK /\ EnvInv /\ Progress /\ PutInv /\ QuietInv

-----------------------------------------------------------------------------
(* Sums over finite sets. *)

Some(s) == CHOOSE x \in s : TRUE

\* g[s] is the sum of f over s, for every s in D, as MapThenSumSet computes it.
SumsOn(g, f, D) == g = [s \in D |-> IF s = {} THEN 0 ELSE f[Some(s)] + g[s \ {Some(s)}]]

\* The sums of the integers f over all subsets of a finite set S.
Summing(g, f, S) == IsFiniteSet(S) /\ (\A x \in S : f[x] \in Int) /\ SumsOn(g, f, SUBSET S)

LEMMA SomeIn == ASSUME NEW s, s # {} PROVE Some(s) \in s
BY DEF Some

\* A set of natural numbers that is not empty has a least one.
LEMMA Least == ASSUME NEW S, S \subseteq Nat, S # {} PROVE \E x \in S : \A y \in S : x <= y
<1>1. PICK x \in S : \A y \in S : ~ (<<y, x>> \in OpToRel(<, Nat))
  BY NatLessThanWellFounded, WFMin
<1>2. ASSUME NEW y \in S PROVE x <= y
  <2>1. x \in Nat /\ y \in Nat
    OBVIOUS
  <2>2. SUFFICES ASSUME y < x PROVE FALSE
    BY <2>1
  <2>3. <<y, x>> \in Nat \X Nat /\ <<y, x>>[1] < <<y, x>>[2]
    BY <2>1, <2>2
  <2>4. <<y, x>> \in OpToRel(<, Nat)
    BY <2>3, Zenon DEF OpToRel
  <2> QED BY <1>1, <2>4
<1> QED BY <1>2

\* A finite set without one of its members.
LEMMA Without ==
  ASSUME NEW s, IsFiniteSet(s), NEW x \in s
  PROVE  IsFiniteSet(s \ {x}) /\ Cardinality(s) \in Nat /\ Cardinality(s \ {x}) \in Nat
         /\ Cardinality(s) = Cardinality(s \ {x}) + 1
<1>1. IsFiniteSet(s \ {x}) /\ Cardinality(s) \in Nat /\ Cardinality(s \ {x}) = Cardinality(s) - 1
  BY FS_RemoveElement, FS_CardinalityType
<1>2. Cardinality(s \ {x}) \in Nat
  BY <1>1, FS_CardinalityType
<1> QED BY <1>1, <1>2

\* Among finite sets, if there are any, one is smallest: induction on their size.
LEMMA Smallest ==
  ASSUME NEW B, B # {}, \A s \in B : IsFiniteSet(s)
  PROVE  \E s \in B : \A x \in s : s \ {x} \notin B
<1> DEFINE C == {Cardinality(s) : s \in B}
<1>1. C \subseteq Nat /\ C # {}
  BY FS_CardinalityType
<1>2. PICK n \in C : \A m \in C : n <= m
  BY <1>1, Least
<1>3. PICK s \in B : Cardinality(s) = n
  OBVIOUS
<1>4. ASSUME NEW x \in s, s \ {x} \in B PROVE FALSE
  <2>1. Cardinality(s \ {x}) \in Nat /\ n = Cardinality(s \ {x}) + 1 /\ Cardinality(s \ {x}) \in C
    BY <1>3, <1>4, Without
  <2>2. n <= Cardinality(s \ {x}) /\ n \in Nat
    <3> HIDE DEF C
    <3> QED BY <1>1, <1>2, <2>1
  <2> QED BY ONLY <2>1, <2>2
<1> QED BY <1>4

\* The recursion of MapThenSumSet has a solution.
LEMMA SumsExist ==
  ASSUME NEW S, IsFiniteSet(S), NEW f, \A x \in S : f[x] \in Int
  PROVE  \E g : Summing(g, f, S)
<1> DEFINE L(n) == {s \in SUBSET S : Cardinality(s) <= n}
           T == {n \in Nat : ~ \E g : SumsOn(g, f, L(n))}
<1>1. \A s \in SUBSET S : IsFiniteSet(s) /\ Cardinality(s) \in Nat
  BY FS_Subset, FS_CardinalityType
<1>2. T = {}
  <2>1. SUFFICES ASSUME T # {} PROVE FALSE
    OBVIOUS
  <2>2. PICK n \in T : \A m \in T : n <= m
    BY <2>1, Least
  <2>3. n \in Nat
    OBVIOUS
  <2>4. CASE n = 0
    <3>1. \A s \in L(0) : s = {}
      BY <1>1, FS_EmptySet
    <3>2. [s \in L(0) |-> 0] =
            [s \in L(0) |-> IF s = {} THEN 0 ELSE f[Some(s)] + [t \in L(0) |-> 0][s \ {Some(s)}]]
      BY <3>1
    <3>3. SumsOn([s \in L(0) |-> 0], f, L(0))
      BY <3>2 DEF SumsOn
    <3> QED BY <2>2, <2>4, <3>3
  <2>5. CASE n # 0
    <3>0. n - 1 \in Nat /\ ~ (n <= n - 1)
      BY <2>3, <2>5
    <3>1. n - 1 \in Nat /\ n - 1 \notin T
      <4> HIDE DEF T
      <4> QED BY <2>2, <3>0
    <3>2. PICK g : SumsOn(g, f, L(n - 1))
      BY <3>1
    <3> DEFINE h == [s \in L(n) |-> IF s = {} THEN 0 ELSE f[Some(s)] + g[s \ {Some(s)}]]
    <3>3. \A s \in L(n) : s # {} => s \ {Some(s)} \in L(n - 1) /\ s \ {Some(s)} \in L(n)
      <4>1. ASSUME NEW s \in L(n), s # {} PROVE s \ {Some(s)} \in L(n - 1) /\ s \ {Some(s)} \in L(n)
        <5>1. IsFiniteSet(s) /\ Some(s) \in s /\ Cardinality(s) <= n /\ s \ {Some(s)} \in SUBSET S
          BY <1>1, <4>1, SomeIn
        <5>2. Cardinality(s \ {Some(s)}) \in Nat /\ Cardinality(s) = Cardinality(s \ {Some(s)}) + 1
          BY <5>1, Without
        <5>3. Cardinality(s \ {Some(s)}) <= n - 1 /\ Cardinality(s \ {Some(s)}) <= n
          BY <2>3, <5>1, <5>2
        <5> QED BY <5>1, <5>3
      <4> QED BY <4>1
    <3>4. \A s \in L(n - 1) : s \in L(n) /\ h[s] = g[s]
      <4>1. \A s \in L(n - 1) : s \in L(n)
        BY <1>1, <2>3
      <4>2. \A s \in L(n - 1) : g[s] = IF s = {} THEN 0 ELSE f[Some(s)] + g[s \ {Some(s)}]
        BY <3>2 DEF SumsOn
      <4> QED BY <4>1, <4>2
    <3>5. \A s \in L(n) : s # {} => h[s \ {Some(s)}] = g[s \ {Some(s)}]
      BY <3>3, <3>4
    <3>6. SumsOn(h, f, L(n))
      <4>1. h = [s \in L(n) |-> IF s = {} THEN 0 ELSE f[Some(s)] + h[s \ {Some(s)}]]
        BY <3>5
      <4> QED BY <4>1 DEF SumsOn
    <3> QED BY <2>2, <3>6
  <2> QED BY <2>4, <2>5
<1>3. L(Cardinality(S)) = SUBSET S
  BY FS_Subset, FS_CardinalityType
<1>4. Cardinality(S) \in Nat
  BY FS_CardinalityType
<1>5. PICK g : SumsOn(g, f, SUBSET S)
  BY <1>2, <1>3, <1>4
<1> QED BY <1>5 DEF Summing

\* What a sum over the members of s is, by any of its solutions.
LEMMA SumsAgree ==
  ASSUME NEW S, NEW f, NEW T \in SUBSET S, NEW g, NEW h, Summing(g, f, S), SumsOn(h, f, SUBSET T)
  PROVE  h[T] = g[T]
<1> DEFINE B == {s \in SUBSET T : h[s] # g[s]}
<1>1. /\ \A s \in SUBSET S : g[s] = IF s = {} THEN 0 ELSE f[Some(s)] + g[s \ {Some(s)}]
      /\ \A s \in SUBSET T : h[s] = IF s = {} THEN 0 ELSE f[Some(s)] + h[s \ {Some(s)}]
  BY DEF SumsOn, Summing
<1>2. SUFFICES ASSUME B # {} PROVE FALSE
  OBVIOUS
<1>3. \A s \in B : IsFiniteSet(s)
  BY FS_Subset DEF Summing
<1>4. PICK s \in B : \A x \in s : s \ {x} \notin B
  BY <1>2, <1>3, Smallest
<1>5. s \in SUBSET T /\ s \in SUBSET S /\ h[s] # g[s]
  OBVIOUS
<1>6. s # {}
  BY <1>1, <1>5
<1>7. h[s \ {Some(s)}] = g[s \ {Some(s)}]
  BY <1>4, <1>5, <1>6, SomeIn
<1> QED BY <1>1, <1>5, <1>6, <1>7

\* Any member can be taken out of a sum first.
LEMMA SumWithout ==
  ASSUME NEW S, NEW f, NEW g, Summing(g, f, S)
  PROVE  g[{}] = 0 /\ \A s \in SUBSET S : g[s] \in Int /\ \A x \in s : g[s] = f[x] + g[s \ {x}]
<1>1. \A s \in SUBSET S : g[s] = IF s = {} THEN 0 ELSE f[Some(s)] + g[s \ {Some(s)}]
  BY DEF SumsOn, Summing
<1>2. \A s \in SUBSET S : IsFiniteSet(s)
  BY FS_Subset DEF Summing
<1>5. \A x \in S : f[x] \in Int
  BY DEF Summing
<1>3. \A s \in SUBSET S : g[s] \in Int
  <2> DEFINE B == {s \in SUBSET S : g[s] \notin Int}
  <2>1. SUFFICES ASSUME B # {} PROVE FALSE
    OBVIOUS
  <2>2. PICK s \in B : \A x \in s : s \ {x} \notin B
    BY <1>2, <2>1, Smallest
  <2>3. s \in SUBSET S /\ g[s] \notin Int
    OBVIOUS
  <2>4. s # {}
    <3>1. g[{}] = 0
      BY <1>1
    <3> QED BY <2>3, <3>1
  <2>5. Some(s) \in s
    BY <2>4, SomeIn
  <2>6. g[s \ {Some(s)}] \in Int /\ f[Some(s)] \in Int
    BY <1>5, <2>2, <2>3, <2>5
  <2>7. g[s] = f[Some(s)] + g[s \ {Some(s)}]
    BY <1>1, <2>3, <2>4
  <2> QED BY <2>3, <2>6, <2>7
<1>4. \A s \in SUBSET S : \A x \in s : g[s] = f[x] + g[s \ {x}]
  <2> DEFINE B == {s \in SUBSET S : \E x \in s : g[s] # f[x] + g[s \ {x}]}
  <2>1. SUFFICES ASSUME B # {} PROVE FALSE
    OBVIOUS
  <2>2. PICK s \in B : \A x \in s : s \ {x} \notin B
    BY <1>2, <2>1, Smallest
  <2>3. PICK x \in s : g[s] # f[x] + g[s \ {x}]
    OBVIOUS
  <2>4. PICK c : c = Some(s)
    OBVIOUS
  <2>5. s \in SUBSET S /\ c \in s /\ g[s] = f[c] + g[s \ {c}]
    BY <1>1, <2>3, <2>4, SomeIn
  <2>6. x # c
    BY <2>3, <2>5
  <2>7. g[s \ {c}] = f[x] + g[(s \ {c}) \ {x}] /\ g[s \ {x}] = f[c] + g[(s \ {x}) \ {c}]
    <3>1. s \ {c} \notin B /\ s \ {x} \notin B
      BY <2>2, <2>5
    <3>2. s \ {c} \in SUBSET S /\ s \ {x} \in SUBSET S /\ x \in s \ {c} /\ c \in s \ {x}
      BY <2>5, <2>6
    <3> QED BY <3>1, <3>2
  <2>8. (s \ {c}) \ {x} = (s \ {x}) \ {c} /\ (s \ {c}) \ {x} \in SUBSET S
    BY <2>5
  <2>9. PICK w : w = g[(s \ {c}) \ {x}]
    OBVIOUS
  <2>10. w \in Int /\ f[x] \in Int /\ f[c] \in Int
    BY <1>3, <1>5, <2>5, <2>8, <2>9
  <2>11. g[s] = f[c] + (f[x] + w) /\ g[s \ {x}] = f[c] + w
    BY <2>5, <2>7, <2>8, <2>9
  <2> QED BY <2>3, <2>10, <2>11
<1> QED BY <1>1, <1>3, <1>4

\* Sums of natural numbers grow with the set.
LEMMA SumGrows ==
  ASSUME NEW S, NEW f, NEW g, Summing(g, f, S), \A x \in S : f[x] \in Nat
  PROVE  \A s \in SUBSET S : g[s] \in Nat /\ \A t \in SUBSET s : g[t] <= g[s]
<1>1. g[{}] = 0 /\ \A s \in SUBSET S : g[s] \in Int /\ \A x \in s : g[s] = f[x] + g[s \ {x}]
  BY ONLY Summing(g, f, S), SumWithout
<1>2. \A s \in SUBSET S : IsFiniteSet(s)
  BY FS_Subset DEF Summing
<1> DEFINE B == {s \in SUBSET S : \E t \in SUBSET s : ~ (g[t] <= g[s])}
<1>3. B = {}
  <2>1. SUFFICES ASSUME B # {} PROVE FALSE
    OBVIOUS
  <2>2. PICK s \in B : \A x \in s : s \ {x} \notin B
    BY <1>2, <2>1, Smallest
  <2>3. PICK t \in SUBSET s : ~ (g[t] <= g[s])
    OBVIOUS
  <2>4. s \in SUBSET S /\ t \in SUBSET S /\ g[s] \in Int /\ g[t] \in Int
    BY <1>1
  <2>5. t # s
    BY <2>3, <2>4
  <2>6. PICK x \in s : x \notin t
    BY <2>5
  <2>7. t \in SUBSET (s \ {x}) /\ s \ {x} \in SUBSET S
    BY <2>4, <2>6
  <2>8. g[t] <= g[s \ {x}]
    BY <2>2, <2>6, <2>7
  <2>9. g[s] = f[x] + g[s \ {x}] /\ g[s \ {x}] \in Int /\ f[x] \in Nat
    BY <1>1, <2>4, <2>7
  <2> QED BY <2>3, <2>4, <2>8, <2>9
<1>4. \A s \in SUBSET S : \A t \in SUBSET s : g[t] <= g[s]
  BY <1>3
<1>5. \A s \in SUBSET S : g[{}] <= g[s]
  BY <1>4
<1> QED BY <1>1, <1>4, <1>5

\* Members that count nothing add nothing.
LEMMA SumOfZeros ==
  ASSUME NEW S, NEW f, NEW g, Summing(g, f, S), NEW T \in SUBSET S, \A x \in S \ T : f[x] = 0
  PROVE  g[S] = g[T]
<1>1. g[{}] = 0 /\ \A s \in SUBSET S : g[s] \in Int /\ \A x \in s : g[s] = f[x] + g[s \ {x}]
  BY ONLY Summing(g, f, S), SumWithout
<1>2. \A s \in SUBSET S : IsFiniteSet(s)
  BY FS_Subset DEF Summing
<1> DEFINE B == {s \in SUBSET S : T \subseteq s /\ g[s] # g[T]}
<1>3. SUFFICES ASSUME B # {} PROVE FALSE
  OBVIOUS
<1>4. PICK s \in B : \A x \in s : s \ {x} \notin B
  BY <1>2, <1>3, Smallest
<1>5. s \in SUBSET S /\ T \subseteq s /\ g[s] # g[T]
  OBVIOUS
<1>6. PICK x \in s : x \notin T
  BY <1>5
<1>7. s \ {x} \in SUBSET S /\ T \subseteq s \ {x}
  BY <1>5, <1>6
<1>8. g[s \ {x}] = g[T]
  BY <1>4, <1>6, <1>7
<1>9. g[s] = f[x] + g[s \ {x}] /\ f[x] = 0 /\ g[s \ {x}] \in Int
  BY <1>1, <1>5, <1>6, <1>7
<1> QED BY <1>5, <1>8, <1>9

\* The members of a set of numbers up to one of them, and before it.
LEMMA Prefixes ==
  ASSUME NEW W, W \subseteq Nat, NEW t \in W
  PROVE  /\ {u \in W : u <= t} \in SUBSET W /\ {u \in W : u < t} \in SUBSET W /\ t \in {u \in W : u <= t}
         /\ {u \in W : u < t} = {u \in W : u <= t} \ {t}
         /\ \A v \in W : v < t => {u \in W : u <= v} \in SUBSET {u \in W : u < t}
         /\ \A m \in W : m < t /\ (\A y \in {u \in W : u < t} : y <= m)
                           => {u \in W : u <= m} = {u \in W : u < t}
<1>1. ASSUME NEW v \in W, v < t PROVE {u \in W : u <= v} \in SUBSET {u \in W : u < t}
  <2>1. ASSUME NEW u \in W, u <= v PROVE u < t
    <3>1. u \in Nat /\ v \in Nat /\ t \in Nat
      OBVIOUS
    <3> QED BY ONLY <1>1, <2>1, <3>1
  <2> QED BY <2>1
<1>2. {u \in W : u < t} = {u \in W : u <= t} \ {t} /\ t \in {u \in W : u <= t}
  <2>1. ASSUME NEW u \in W PROVE (u < t <=> u <= t /\ u # t) /\ t <= t
    <3>1. u \in Nat /\ t \in Nat
      OBVIOUS
    <3> QED BY ONLY <3>1
  <2> QED BY <2>1
<1> QED BY <1>1, <1>2

\* A finite set of natural numbers that is not empty has a greatest one.
LEMMA Greatest ==
  ASSUME NEW S, S \subseteq Nat, IsFiniteSet(S), S # {}
  PROVE  \E m \in S : \A y \in S : y <= m
<1> DEFINE B == {s \in SUBSET S : s # {} /\ ~ \E m \in s : \A y \in s : y <= m}
<1>1. SUFFICES ASSUME B # {} PROVE FALSE
  OBVIOUS
<1>2. \A s \in B : IsFiniteSet(s)
  BY FS_Subset
<1>3. PICK s \in B : \A x \in s : s \ {x} \notin B
  BY <1>1, <1>2, Smallest
<1>4. s \in SUBSET S /\ s # {} /\ ~ \E m \in s : \A y \in s : y <= m
  OBVIOUS
<1>5. PICK x \in s : TRUE
  BY <1>4
<1>6. PICK m \in s \ {x} : \A y \in s \ {x} : y <= m
  <2>1. s \ {x} # {}
    BY <1>4, <1>5
  <2> QED BY <1>3, <1>4, <1>5, <2>1
<1>7. CASE x <= m
  BY <1>4, <1>5, <1>6, <1>7
<1>8. CASE ~ (x <= m)
  BY <1>4, <1>5, <1>6, <1>8
<1> QED BY <1>7, <1>8

-----------------------------------------------------------------------------
(* Facts about the constants and the layout. *)

LEMMA MinIn == ASSUME NEW S, S \subseteq Nat, S # {} PROVE Min(S) \in S /\ \A y \in S : Min(S) <= y
<1>1. \E x \in S : \A y \in S : x <= y
  BY Least
<1> QED BY <1>1 DEF Min

LEMMA RankZero == 0 \in Ranks /\ Size \in Nat
  BY JobAssumption DEF Ranks

LEMMA TypesAreNumbers == Types \subseteq Nat /\ SERVER \notin Types /\ UNSET \notin Types
  BY JobAssumption DEF Types, WORK, SERVER, UNSET

\* A mode is a work type, SERVER for servers only, or not set.
LEMMA ModeType ==
  ASSUME NEW r
  PROVE  /\ ModeOf(r) \in Types \cup {SERVER, UNSET}
         /\ ModeOf(r) = SERVER => AmServer(r)
<1> DEFINE fits == {t \in WorkTypes : r < Bound(t)}
<1>1. fits \subseteq Types
  BY DEF WorkTypes
<1>2. fits # {} => Min(fits) \in Types
  BY <1>1, MinIn, TypesAreNumbers
<1>3. SERVER # UNSET
  BY DEF SERVER, UNSET
<1> HIDE DEF fits
<1>4. ModeOf(r) = IF AmServer(r) THEN SERVER ELSE IF fits = {} THEN UNSET ELSE Min(fits)
  BY DEF ModeOf, fits
<1> QED BY <1>2, <1>3, <1>4, TypesAreNumbers

\* The environment: env never changes.
EnvTypes ==
  /\ env \in [servers : 0 .. Size, basic : BOOLEAN, count : [Extra -> 0 .. Size - 1],
              reload : Loads, service : Services]
  /\ env.basic => \A t \in Extra : env.count[t] = 0

Counts == [t \in Types |-> Count(t)]

LEMMA TypesFinite == IsFiniteSet(Extra) /\ IsFiniteSet(Types) /\ Extra = Types \ {WORK} /\ WORK \in Types
<1>1. IsFiniteSet(Extra) /\ Extra \subseteq Nat \ {WORK}
  BY JobAssumption
<1>2. IsFiniteSet({WORK})
  BY FS_Singleton
<1> QED BY <1>1, <1>2, FS_Union DEF Types

\* The extra workers asked for.
LEMMA SumIs ==
  ASSUME EnvTypes
  PROVE  \E g : /\ Summing(g, env.count, Extra) /\ Sum(Extra) = g[Extra] /\ Sum(Extra) \in Nat
                /\ env.basic => Sum(Extra) = 0
<1>1. IsFiniteSet(Extra) /\ (\A t \in Extra : env.count[t] \in Int) /\ \A t \in Extra : env.count[t] \in Nat
  BY TypesFinite, JobAssumption DEF EnvTypes
<1>2. PICK h : Summing(h, env.count, Extra)
  BY <1>1, SumsExist
<1>3. Sum(Extra) = (CHOOSE k : SumsOn(k, env.count, SUBSET Extra))[Extra]
  BY DEF Sum, MapThenSumSet, MapThenFoldSet, SumsOn, Some
<1>4. \E k : SumsOn(k, env.count, SUBSET Extra)
  BY <1>2 DEF Summing
<1>5. PICK g : SumsOn(g, env.count, SUBSET Extra) /\ Sum(Extra) = g[Extra]
  BY <1>3, <1>4
<1>6. Summing(g, env.count, Extra)
  BY <1>1, <1>5 DEF Summing
<1>7. Sum(Extra) \in Nat
  BY <1>1, <1>5, <1>6, SumGrows
<1>8. env.basic => Sum(Extra) = 0
  <2>1. SUFFICES ASSUME env.basic PROVE Sum(Extra) = 0
    OBVIOUS
  <2>2. \A t \in Extra : env.count[t] = 0
    BY <2>1 DEF EnvTypes
  <2>3. g[Extra] = g[{}]
    BY <1>6, <2>2, SumOfZeros
  <2>4. g[{}] = 0
    BY <1>6 DEF Summing, SumsOn
  <2> QED BY <1>5, <2>3, <2>4
<1> QED BY <1>5, <1>6, <1>7, <1>8

\* A layout that was not refused has a regular worker, and all workers have a type.
LEMMA CountsAre ==
  ASSUME EnvTypes, Allocatable, NWorkers > 0
  PROVE  /\ NWorkers \in Nat /\ Count(WORK) > 0 /\ \A t \in Types : Count(t) \in Nat /\ Counts[t] = Count(t)
         /\ \A t \in Extra : Counts[t] = env.count[t]
         /\ Count(WORK) + Sum(Extra) = NWorkers
<1>1. Sum(Extra) \in Nat /\ (env.basic => Sum(Extra) = 0)
  BY SumIs
<1>2. NWorkers \in Int
  BY JobAssumption DEF NWorkers, EnvTypes
<1>3. Count(WORK) = NWorkers - Sum(Extra)
  BY DEF Count
<1>4. Sum(Extra) < NWorkers
  BY <1>1, <1>2 DEF Allocatable
<1>5. \A t \in Extra : Count(t) = env.count[t] /\ env.count[t] \in Nat
  <2>1. \A t \in Extra : t # WORK /\ env.count[t] \in Nat
    BY TypesFinite, JobAssumption DEF EnvTypes
  <2> QED BY <2>1 DEF Count
<1>6. \A t \in Types : t = WORK \/ t \in Extra
  BY DEF Types
<1>7. Count(WORK) \in Nat /\ Count(WORK) > 0 /\ Count(WORK) + Sum(Extra) = NWorkers /\ NWorkers \in Nat
  BY <1>1, <1>2, <1>3, <1>4
<1>8. \A t \in Types : Count(t) \in Nat
  BY <1>5, <1>6, <1>7
<1>9. \A t \in Types : Counts[t] = Count(t)
  BY DEF Counts
<1> QED BY <1>5, <1>7, <1>8, <1>9, TypesFinite

\* The bounds are sums of the counts; there are as many places as workers.
LEMMA BoundsAre ==
  ASSUME EnvTypes, Allocatable, NWorkers > 0
  PROVE  \E g : /\ Summing(g, Counts, Types) /\ g[Types] = NWorkers
                /\ \A t : Bound(t) = g[{u \in WorkTypes : u <= t}]
<1>1. IsFiniteSet(Types) /\ \A t \in Types : Counts[t] \in Int
  BY CountsAre, TypesFinite
<1>2. PICK g : Summing(g, Counts, Types)
  BY <1>1, SumsExist
<1>3. g[Types] = NWorkers
  <2>1. PICK h : Summing(h, env.count, Extra) /\ Sum(Extra) = h[Extra]
    BY SumIs
  <2>2. \A s \in SUBSET Extra : s # {} => Counts[Some(s)] = env.count[Some(s)]
    BY CountsAre, SomeIn
  <2>3. SumsOn(h, Counts, SUBSET Extra)
    <3>1. h = [s \in SUBSET Extra |-> IF s = {} THEN 0 ELSE env.count[Some(s)] + h[s \ {Some(s)}]]
      BY <2>1 DEF Summing, SumsOn
    <3>2. h = [s \in SUBSET Extra |-> IF s = {} THEN 0 ELSE Counts[Some(s)] + h[s \ {Some(s)}]]
      BY <2>2, <3>1
    <3> QED BY <3>2 DEF SumsOn
  <2>4. Extra \in SUBSET Types
    BY TypesFinite
  <2>5. h[Extra] = g[Extra]
    BY <1>2, <2>3, <2>4, SumsAgree
  <2>6. g[Types] = Counts[WORK] + g[Types \ {WORK}]
    <3>1. /\ g[{}] = 0
          /\ \A s \in SUBSET Types : g[s] \in Int /\ \A x \in s : g[s] = Counts[x] + g[s \ {x}]
      BY ONLY <1>2, SumWithout
    <3> QED BY <3>1, TypesFinite
  <2>7. Counts[WORK] = Count(WORK) /\ Count(WORK) + Sum(Extra) = NWorkers
    BY CountsAre, TypesFinite
  <2> QED BY <2>1, <2>5, <2>6, <2>7, TypesFinite
<1>4. ASSUME NEW t PROVE Bound(t) = g[{u \in WorkTypes : u <= t}]
  <2> DEFINE W == {u \in WorkTypes : u <= t}
             P(k) == k = [s \in SUBSET W |-> IF s = {} THEN 0 ELSE Count(Some(s)) + k[s \ {Some(s)}]]
  <2>1. W \in SUBSET Types
    BY DEF WorkTypes
  <2>2. Bound(t) = (CHOOSE k : P(k))[W]
    BY DEF Bound, MapThenSumSet, MapThenFoldSet, Some
  <2>3. \A s \in SUBSET W : s # {} => Counts[Some(s)] = Count(Some(s))
    BY <2>1, CountsAre, SomeIn
  <2>4. IsFiniteSet(W) /\ \A u \in W : Counts[u] \in Int
    BY <1>1, <2>1, FS_Subset
  <2> HIDE DEF W
  <2>5. PICK h : SumsOn(h, Counts, SUBSET W)
    <3>1. \E h : Summing(h, Counts, W)
      BY <2>4, SumsExist
    <3> QED BY <3>1 DEF Summing
  <2>6. P(h)
    <3>1. h = [s \in SUBSET W |-> IF s = {} THEN 0 ELSE Counts[Some(s)] + h[s \ {Some(s)}]]
      BY <2>5 DEF SumsOn
    <3> QED BY <2>3, <3>1
  <2>7. PICK k : P(k) /\ Bound(t) = k[W]
    <3> HIDE DEF P
    <3> QED BY <2>2, <2>6
  <2>8. SumsOn(k, Counts, SUBSET W)
    <3>1. k = [s \in SUBSET W |-> IF s = {} THEN 0 ELSE Counts[Some(s)] + k[s \ {Some(s)}]]
      BY <2>3, <2>7
    <3> QED BY <3>1 DEF SumsOn
  <2>9. k[W] = g[W]
    BY <1>2, <2>1, <2>8, SumsAgree
  <2> QED BY <2>7, <2>9 DEF W
<1> QED BY <1>2, <1>3, <1>4

\* The ranks before those of type t.
Below(t) == Bound(t) - Count(t)

\* The ranges of the types follow each other without gap, in the order of the types.
LEMMA Places ==
  ASSUME EnvTypes, Allocatable, NWorkers > 0
  PROVE  /\ \A t \in WorkTypes : /\ Below(t) \in Nat /\ Bound(t) \in Nat
                                 /\ Bound(t) = Below(t) + Count(t) /\ Bound(t) <= NWorkers
         /\ \A t, u \in WorkTypes : u < t => Bound(u) <= Below(t)
         /\ \A t \in WorkTypes : Below(t) = 0 \/ \E u \in WorkTypes : u < t /\ Bound(u) = Below(t)
         /\ \E t \in WorkTypes : Bound(t) = NWorkers
         /\ WORK \in WorkTypes /\ Bound(WORK) > 0
<1> DEFINE Upto(t) == {u \in WorkTypes : u <= t}
           Under(t) == {u \in WorkTypes : u < t}
<1>1. PICK g : /\ Summing(g, Counts, Types) /\ g[Types] = NWorkers
               /\ \A t : Bound(t) = g[Upto(t)]
  BY BoundsAre
<1>2. /\ g[{}] = 0
      /\ \A s \in SUBSET Types : g[s] \in Int /\ \A x \in s : g[s] = Counts[x] + g[s \ {x}]
  BY ONLY <1>1, SumWithout
<1>3. \A t \in Types : Counts[t] \in Nat /\ Counts[t] = Count(t)
  BY CountsAre
<1>4. \A s \in SUBSET Types : g[s] \in Nat /\ \A t \in SUBSET s : g[t] <= g[s]
  BY ONLY <1>1, <1>3, SumGrows
<1>5. WorkTypes \in SUBSET Types /\ WORK \in WorkTypes /\ WorkTypes \subseteq Nat /\ IsFiniteSet(WorkTypes)
  <2>1. WorkTypes \in SUBSET Types /\ WORK \in WorkTypes
    BY TypesFinite DEF WorkTypes
  <2> QED BY <2>1, TypesFinite, TypesAreNumbers, FS_Subset
<1>6. \A t \in WorkTypes : Upto(t) \in SUBSET Types /\ Under(t) \in SUBSET Types /\ t \in Upto(t)
                           /\ Under(t) = Upto(t) \ {t}
  <2> HIDE DEF Upto, Under
  <2>1. ASSUME NEW t \in WorkTypes
        PROVE  /\ Upto(t) \in SUBSET WorkTypes /\ Under(t) \in SUBSET WorkTypes /\ t \in Upto(t)
               /\ Under(t) = Upto(t) \ {t}
    BY <1>5, Prefixes DEF Upto, Under
  <2> QED BY <1>5, <2>1
<1>7. ASSUME NEW t \in WorkTypes
      PROVE  /\ Bound(t) = g[Upto(t)] /\ Below(t) = g[Under(t)] /\ Bound(t) \in Nat /\ Below(t) \in Nat
             /\ Bound(t) = Below(t) + Count(t) /\ Bound(t) <= NWorkers
  <2>1. Bound(t) = g[Upto(t)]
    BY <1>1
  <2>2. g[Upto(t)] = Counts[t] + g[Under(t)]
    BY <1>2, <1>6
  <2>3. Counts[t] = Count(t) /\ Counts[t] \in Nat
    BY <1>3, <1>5
  <2>4. g[Upto(t)] \in Nat /\ g[Under(t)] \in Nat /\ g[Upto(t)] <= g[Types]
    BY <1>4, <1>6
  <2> HIDE DEF Upto, Under
  <2> QED BY <1>1, <2>1, <2>2, <2>3, <2>4 DEF Below
<1>8. ASSUME NEW t \in WorkTypes, NEW u \in WorkTypes, u < t PROVE Bound(u) <= Below(t)
  <2>1. Upto(u) \in SUBSET Under(t)
    BY <1>5, <1>8, Prefixes
  <2>2. g[Upto(u)] <= g[Under(t)]
    BY <1>4, <1>6, <2>1
  <2> QED BY <1>7, <2>2
<1>9. ASSUME NEW t \in WorkTypes, Below(t) # 0 PROVE \E u \in WorkTypes : u < t /\ Bound(u) = Below(t)
  <2>1. Under(t) # {}
    BY <1>2, <1>7, <1>9
  <2>2. Under(t) \subseteq Nat /\ IsFiniteSet(Under(t))
    BY <1>5, FS_Subset
  <2>3. PICK m \in Under(t) : \A y \in Under(t) : y <= m
    BY <2>1, <2>2, Greatest
  <2>4. m \in WorkTypes /\ m < t /\ Upto(m) = Under(t)
    <3>1. m \in WorkTypes /\ m < t
      OBVIOUS
    <3> QED BY <1>5, <2>3, <3>1, Prefixes
  <2> QED BY <1>7, <2>4
<1>10. \E t \in WorkTypes : Bound(t) = NWorkers
  <2>1. PICK m \in WorkTypes : \A y \in WorkTypes : y <= m
    BY <1>5, Greatest
  <2>2. Upto(m) = WorkTypes
    BY <2>1
  <2>3. \A t \in Types \ WorkTypes : Counts[t] = 0
    BY <1>3 DEF WorkTypes
  <2>4. Summing(g, Counts, Types) /\ WorkTypes \in SUBSET Types
    BY <1>1, <1>5
  <2>5. g[Types] = g[WorkTypes]
    BY ONLY <2>3, <2>4, SumOfZeros
  <2> QED BY <1>1, <1>7, <2>2, <2>5
<1>11. Bound(WORK) > 0
  <2>1. Count(WORK) > 0 /\ Count(WORK) \in Nat
    BY CountsAre, TypesFinite
  <2>2. Bound(WORK) = Below(WORK) + Count(WORK) /\ Below(WORK) \in Nat
    BY <1>5, <1>7
  <2> QED BY ONLY <2>1, <2>2
<1> QED BY <1>5, <1>7, <1>8, <1>9, <1>10, <1>11

\* setup_mode gives every rank below the servers the type whose range it is in.
LEMMA ModesAre ==
  ASSUME EnvTypes, Allocatable, NWorkers > 0
  PROVE  /\ \A r \in Ranks : r < NWorkers => ModeOf(r) \in WorkTypes
         /\ \A r \in Ranks : r >= NWorkers <=> ModeOf(r) = SERVER
         /\ \A t \in WorkTypes : {r \in Ranks : ModeOf(r) = t} = Below(t) .. Bound(t) - 1
         /\ ModeOf(0) = WORK
<1> DEFINE fits(r) == {t \in WorkTypes : r < Bound(t)}
<1>1. WorkTypes \subseteq Nat /\ WorkTypes \subseteq Types
  BY TypesAreNumbers DEF WorkTypes
<1>2. NWorkers \in Nat /\ NWorkers <= Size /\ Ranks = 0 .. Size - 1 /\ Size \in Nat
  BY CountsAre, JobAssumption DEF EnvTypes, NWorkers, Ranks
<1>3. \A r : ModeOf(r) = IF r >= NWorkers THEN SERVER ELSE IF fits(r) = {} THEN UNSET ELSE Min(fits(r))
  BY DEF ModeOf, AmServer
<1>4. ASSUME NEW r \in Ranks, r < NWorkers
      PROVE  ModeOf(r) \in WorkTypes /\ r < Bound(ModeOf(r)) /\ \A y \in fits(r) : ModeOf(r) <= y
  <2>1. fits(r) # {}
    BY <1>2, <1>4, Places
  <2>2. fits(r) \subseteq Nat
    BY <1>1
  <2>3. Min(fits(r)) \in fits(r) /\ \A y \in fits(r) : Min(fits(r)) <= y
    BY <2>1, <2>2, MinIn
  <2>4. ~ (r >= NWorkers)
    BY <1>2, <1>4
  <2>5. ModeOf(r) = Min(fits(r))
    BY <1>3, <2>1, <2>4
  <2> QED BY <2>3, <2>5
<1>5. \A r \in Ranks : r >= NWorkers <=> ModeOf(r) = SERVER
  <2>1. ASSUME NEW r \in Ranks, r < NWorkers PROVE ModeOf(r) # SERVER
    BY <1>1, <1>4, <2>1, TypesAreNumbers
  <2>2. ASSUME NEW r \in Ranks, r >= NWorkers PROVE ModeOf(r) = SERVER
    BY <1>3, <2>2
  <2> QED BY <1>2, <2>1, <2>2
<1>6. ASSUME NEW t \in WorkTypes PROVE {r \in Ranks : ModeOf(r) = t} = Below(t) .. Bound(t) - 1
  <2>1. /\ Below(t) \in Nat /\ Bound(t) \in Nat /\ Bound(t) <= NWorkers
        /\ \A u \in WorkTypes : Bound(u) \in Nat /\ Below(u) \in Nat
        /\ \A u \in WorkTypes : u < t => Bound(u) <= Below(t)
        /\ Below(t) = 0 \/ \E u \in WorkTypes : u < t /\ Bound(u) = Below(t)
    BY Places
  <2>2. ASSUME NEW r \in Ranks, ModeOf(r) = t PROVE r \in Below(t) .. Bound(t) - 1
    <3>1. r < NWorkers
      <4>1. t # SERVER
        BY <1>1, TypesAreNumbers
      <4> QED BY <1>2, <1>5, <2>2, <4>1
    <3>2. r < Bound(t) /\ \A y \in fits(r) : t <= y
      BY <1>4, <2>2, <3>1
    <3>3. ASSUME r < Below(t) PROVE FALSE
      <4>1. Below(t) # 0 /\ r \in Nat
        BY <1>2, <2>1, <3>3
      <4>2. PICK u \in WorkTypes : u < t /\ Bound(u) = Below(t)
        BY <2>1, <4>1
      <4>3. u \in fits(r)
        BY <3>3, <4>2
      <4> QED BY <1>1, <3>2, <4>2, <4>3
    <3> QED BY <1>2, <2>1, <3>2, <3>3
  <2>3. ASSUME NEW r \in Below(t) .. Bound(t) - 1 PROVE r \in Ranks /\ ModeOf(r) = t
    <3>1. r \in Ranks /\ r < NWorkers /\ r < Bound(t) /\ r >= Below(t) /\ r \in Nat
      BY <1>2, <2>1
    <3>2. ModeOf(r) \in WorkTypes /\ r < Bound(ModeOf(r)) /\ ModeOf(r) <= t
      BY <1>4, <3>1
    <3>3. ASSUME ModeOf(r) < t PROVE FALSE
      <4>1. Bound(ModeOf(r)) <= Below(t) /\ Bound(ModeOf(r)) \in Nat
        BY <2>1, <3>2, <3>3
      <4> QED BY <2>1, <3>1, <3>2, <4>1
    <3>4. ModeOf(r) \in Nat /\ t \in Nat
      BY <1>1, <3>2
    <3> QED BY <3>1, <3>2, <3>3, <3>4
  <2> QED BY <2>2, <2>3
<1>7. ModeOf(0) = WORK
  <2>1. 0 \in Ranks /\ 0 < NWorkers /\ WORK \in fits(0)
    BY <1>2, Places, RankZero
  <2>2. ModeOf(0) <= WORK /\ ModeOf(0) \in Nat
    BY <1>1, <1>4, <2>1
  <2> QED BY <2>2 DEF WORK
<1> QED BY <1>4, <1>5, <1>6, <1>7

-----------------------------------------------------------------------------
LEMMA JInvInit == Init => JInv
<1> SUFFICES ASSUME Init PROVE JInv
  OBVIOUS
<1>1. TypeOK
  <2>1. 0 \in 0 .. Tries
    BY JobAssumption
  <2> QED BY <2>1 DEF Init, TypeOK, States
<1>2. EnvInv
  BY RankZero DEF Init, EnvInv, SERVER, UNSET
<1>3. Progress
  BY DEF Init, Progress, ServiceInv, WaitInv, CurInv, XptInv, Early, Late
<1>4. PutInv /\ QuietInv
  BY RankZero DEF Init, PutInv, QuietInv, Late
<1> QED BY <1>1, <1>2, <1>3, <1>4 DEF JInv

\* Steps that change nothing but where the rank is, before the loop ends.
Moves(r, from, to) ==
  /\ Only(r, from, to)
  /\ \/ from \in Early \ {"serve"} /\ to \in (Early \ {"serve"}) \cup {"exited", "caught", "trapped"}
     \/ from = "finalize" /\ to = "done"

LEMMA MovesJInv ==
  ASSUME JInv, NEW r \in Ranks, NEW from, NEW to, Moves(r, from, to)
  PROVE  JInv'
<1> USE DEF JInv
<1>0. from \in States /\ to \in States
  BY DEF Moves, Early, States
<1>1. TypeOK'
  BY <1>0 DEF Moves, Only, Goto, data, TypeOK
<1>2. EnvInv'
  BY RankZero DEF Moves, Only, Goto, data, TypeOK, EnvInv, Early
<1>3. Progress'
  BY DEF Moves, Only, Goto, data, TypeOK, Progress, ServiceInv, WaitInv, CurInv, XptInv, Early, Late
<1>4. PutInv'
  BY RankZero DEF Moves, Only, Goto, data, TypeOK, PutInv, Known, Early, Late
<1>5. QuietInv'
  BY DEF Moves, Only, Goto, data, TypeOK, QuietInv, Early, Late
<1> QED BY <1>1, <1>2, <1>3, <1>4, <1>5

-----------------------------------------------------------------------------
(* The steps to the loop. *)

\* The rank gets its mode; rank 0 only if there is a worker.
LEMMA AdlbInitJInv == ASSUME JInv, NEW r \in Ranks, AdlbInit(r) PROVE JInv'
<1> USE DEF JInv
<1>1. CASE Dies(r, "init")
  BY <1>1, MovesJInv DEF Dies, Moves, Early
<1>2. CASE ~Dies(r, "init")
  <2>1. /\ ~(r = 0 /\ NWorkers <= 0) /\ Goto(r, "init", "ready")
        /\ mode' = [mode EXCEPT ![r] = ModeOf(r)]
        /\ UNCHANGED <<env, loaded, queue, cur, ran, starters, service, waits, xpt, job>>
    BY <1>2 DEF AdlbInit
  <2>2. TypeOK'
    BY <2>1, ModeType DEF Goto, TypeOK, States
  <2>3. EnvInv'
    <3>1. r = 0 => ModeOf(r) # SERVER
      BY <2>1, ModeType, RankZero DEF AmServer, NWorkers, EnvInv
    <3> QED BY <2>1, <3>1, RankZero DEF Goto, TypeOK, EnvInv
  <2>4. Progress' /\ PutInv' /\ QuietInv'
    BY <2>1, RankZero DEF Goto, TypeOK, Progress, ServiceInv, WaitInv, CurInv, XptInv, PutInv, QuietInv,
       Known, Early, Late
  <2> QED BY <2>2, <2>3, <2>4
<1> QED BY <1>1, <1>2

\* Servers start to serve, workers go on.
LEMMA XptInitJInv == ASSUME JInv, NEW r \in Ranks, XptInit(r) PROVE JInv'
<1> USE DEF JInv
<1>1. CASE mode[r] = SERVER
  <2>1. Only(r, "ready", "serve") /\ r # 0
    BY <1>1 DEF XptInit, EnvInv
  <2>2. TypeOK' /\ EnvInv'
    BY <2>1, RankZero DEF Only, Goto, data, TypeOK, States, EnvInv
  <2>3. Progress' /\ PutInv' /\ QuietInv'
    BY <2>1, RankZero DEF Only, Goto, data, TypeOK, Progress, ServiceInv, WaitInv, CurInv, XptInv, PutInv,
       QuietInv, Known, Early, Late
  <2> QED BY <2>2, <2>3
<1>2. CASE mode[r] # SERVER
  BY <1>2, MovesJInv DEF XptInit, Moves, Early
<1> QED BY <1>1, <1>2

\* The reload succeeds or ends the rank.
LEMMA ReloadJInv == ASSUME JInv, NEW r \in Ranks, Reload(r) PROVE JInv'
<1> USE DEF JInv
<1>1. CASE Dies(r, "reload")
  BY <1>1, MovesJInv DEF Dies, Moves, Early
<1>2. CASE ~Dies(r, "reload")
  <2>1. /\ Goto(r, "reload", "barrier") /\ loaded' = loaded \cup {r}
        /\ UNCHANGED <<env, mode, queue, cur, ran, starters, service, waits, xpt, job>>
    BY <1>2 DEF Reload
  <2>2. TypeOK' /\ EnvInv'
    BY <2>1, RankZero DEF Goto, TypeOK, States, EnvInv
  <2>3. Progress' /\ PutInv' /\ QuietInv'
    BY <2>1, RankZero DEF Goto, TypeOK, Progress, ServiceInv, WaitInv, CurInv, XptInv, PutInv, QuietInv,
       Known, Early, Late
  <2> QED BY <2>2, <2>3
<1> QED BY <1>1, <1>2

\* The loop starts: rank 0 puts what the rules put.
LEMMA EnterJInv == ASSUME JInv, NEW r \in Ranks, Enter(r) PROVE JInv'
<1> USE DEF JInv
<1>1. /\ Goto(r, "enter", "get") /\ StartService(r)
      /\ IF r = 0 THEN queue' = queue \cup ChildrenOf(None) /\ starters' = starters \cup {r}
         ELSE UNCHANGED <<queue, starters>>
      /\ UNCHANGED <<env, mode, loaded, cur, ran, waits, xpt, job>>
  BY DEF Enter
<1>2. PICK s \in {"none", "running", "failed"} : service' = [service EXCEPT ![r] = s]
  BY <1>1 DEF StartService
<1>3. TypeOK'
  BY <1>1, <1>2 DEF Goto, TypeOK, States, ChildrenOf
<1>4. EnvInv'
  BY <1>1, RankZero DEF Goto, TypeOK, EnvInv
<1>5. Progress'
  BY <1>1, <1>2 DEF Goto, TypeOK, Progress, ServiceInv, WaitInv, CurInv, XptInv, Early, Late
<1>6. PutInv'
  BY <1>1, RankZero DEF Goto, TypeOK, PutInv, Known, Late
<1>7. QuietInv'
  BY <1>1 DEF Goto, TypeOK, QuietInv, Late
<1> QED BY <1>3, <1>4, <1>5, <1>6, <1>7

\* The rules or a task fail after having put some tasks.
LEMMA FailsJInv ==
  ASSUME JInv, NEW r \in Ranks, NEW from \in {"enter", "eval"}, NEW S \in SUBSET Tasks, Fails(r, from, S),
         starters' \in {starters, starters \cup {r}},
         UNCHANGED <<env, mode, loaded, cur, ran, service, waits, xpt, job>>
  PROVE  JInv'
<1> USE DEF JInv
<1>1. PICK to \in {"caught", "trapped"} : Goto(r, from, to)
  BY DEF Fails
<1>2. PICK P \in SUBSET S : queue' = queue \cup P
  BY DEF Fails
<1>3. TypeOK' /\ EnvInv'
  BY <1>1, <1>2, RankZero DEF Goto, TypeOK, States, EnvInv
<1>4. Progress'
  BY <1>1 DEF Goto, TypeOK, Progress, ServiceInv, WaitInv, CurInv, XptInv, Early, Late
<1>5. PutInv'
  BY <1>1, <1>2, RankZero DEF Goto, TypeOK, PutInv, Known, Late
<1>6. QuietInv'
  BY <1>1 DEF Goto, TypeOK, QuietInv, Late
<1> QED BY <1>3, <1>4, <1>5, <1>6

-----------------------------------------------------------------------------
(* The loop. *)

LEMMA GetJInv == ASSUME JInv, NEW r \in Ranks, Get(r) PROVE JInv'
<1> USE DEF JInv
<1>1. PICK t \in queue : Get(r)!(t)
  BY DEF Get
<1>2. TypeOK' /\ EnvInv'
  BY <1>1, RankZero DEF Goto, TypeOK, States, EnvInv
<1>3. Progress'
  BY <1>1 DEF Goto, TypeOK, Progress, ServiceInv, WaitInv, CurInv, XptInv, Early, Late
<1>4. PutInv'
  <2>1. Known \ {None} \subseteq Known'
    <3>1. cur[r] = None
      BY <1>1 DEF Goto, Progress, CurInv
    <3>2. \A q \in Ranks : cur'[q] = IF q = r THEN t ELSE cur[q]
      BY <1>1 DEF TypeOK
    <3> QED BY <1>1, <3>1, <3>2 DEF Known
  <2>2. \A t2 : None \notin ChildrenOf(t2)
    BY JobAssumption DEF ChildrenOf
  <2> QED BY <1>1, <2>1, <2>2, RankZero DEF Goto, TypeOK, PutInv, Late
<1>5. QuietInv'
  BY <1>1 DEF Goto, TypeOK, QuietInv, Late
<1> QED BY <1>2, <1>3, <1>4, <1>5

LEMMA EvalJInv == ASSUME JInv, NEW r \in Ranks, Eval(r) PROVE JInv'
<1> USE DEF JInv
<1>1. /\ Goto(r, "eval", "get")
      /\ ran' = ran \cup {cur[r]} /\ queue' = queue \cup ChildrenOf(cur[r])
      /\ cur' = [cur EXCEPT ![r] = None]
      /\ UNCHANGED <<env, mode, loaded, starters, service, waits, xpt, job>>
  BY DEF Eval
<1>2. TypeOK'
  <2>1. cur[r] \in Tasks /\ ChildrenOf(cur[r]) \subseteq Tasks
    BY <1>1 DEF Goto, Progress, CurInv, ChildrenOf
  <2> QED BY <1>1, <2>1 DEF Goto, TypeOK, States
<1>3. EnvInv'
  BY <1>1, RankZero DEF Goto, TypeOK, EnvInv
<1>4. Progress'
  BY <1>1 DEF Goto, TypeOK, Progress, ServiceInv, WaitInv, CurInv, XptInv, Early, Late
<1>5. PutInv'
  <2>1. Known \ {None} \subseteq Known'
    <3>1. \A q \in Ranks : cur'[q] = IF q = r THEN None ELSE cur[q]
      BY <1>1 DEF TypeOK
    <3> QED BY <1>1, <3>1 DEF Known
  <2>2. \A t : None \notin ChildrenOf(t)
    BY JobAssumption DEF ChildrenOf
  <2>3. ChildrenOf(cur[r]) \subseteq Known'
    BY <1>1 DEF Known
  <2> QED BY <1>1, <2>1, <2>2, <2>3, RankZero DEF Goto, TypeOK, PutInv, Late
<1>6. QuietInv'
  BY <1>1 DEF Goto, TypeOK, QuietInv, Late
<1> QED BY <1>2, <1>3, <1>4, <1>5, <1>6

\* A rank fails at the rules, its startup command, its configuration or a task.
LEMMA ErrorJInv ==
  ASSUME JInv, NEW r \in Ranks, RulesError(r) \/ EvalError(r) \/ StartupError(r) \/ ConfigureError(r)
  PROVE  JInv'
<1>1. \A t : ChildrenOf(t) \in SUBSET Tasks
  BY DEF ChildrenOf
<1>2. CASE RulesError(r)
  BY <1>1, <1>2, FailsJInv DEF RulesError
<1>3. CASE EvalError(r)
  BY <1>1, <1>3, FailsJInv DEF EvalError
<1>4. CASE StartupError(r) \/ ConfigureError(r)
  BY <1>4, MovesJInv DEF StartupError, ConfigureError, Moves, Early
<1> QED BY <1>2, <1>3, <1>4

\* ADLB shuts down: all workers ask for work and none is queued.
LEMMA ShutdownJInv == ASSUME JInv, Shutdown PROVE JInv'
<1> USE DEF JInv
<1>1. TypeOK' /\ EnvInv'
  BY DEF Shutdown, TypeOK, EnvInv
<1>2. Progress' /\ PutInv'
  BY DEF Shutdown, Progress, ServiceInv, WaitInv, CurInv, XptInv, PutInv, Known
<1>3. QuietInv'
  BY DEF Shutdown, QuietInv
<1> QED BY <1>1, <1>2, <1>3

\* A rank hears of it: a worker goes on to stop its service, a server has none.
LEMMA GetShutdownJInv == ASSUME JInv, NEW r \in Ranks, GetShutdown(r) PROVE JInv'
<1> USE DEF JInv
<1>1. CASE Only(r, "get", "stop")
  <2>1. TypeOK' /\ EnvInv'
    BY <1>1, RankZero DEF Only, Goto, data, TypeOK, States, EnvInv
  <2>2. Progress' /\ PutInv'
    BY <1>1, RankZero DEF Only, Goto, data, TypeOK, Progress, ServiceInv, WaitInv, CurInv, XptInv, PutInv,
       Known, Early, Late
  <2>3. QuietInv'
    BY <1>1 DEF GetShutdown, Only, Goto, data, TypeOK, QuietInv, Late
  <2> QED BY <2>1, <2>2, <2>3
<1>2. CASE Only(r, "serve", "left")
  <2>1. TypeOK' /\ EnvInv'
    BY <1>2, RankZero DEF Only, Goto, data, TypeOK, States, EnvInv
  <2>2. Progress' /\ PutInv'
    BY <1>2, RankZero DEF Only, Goto, data, TypeOK, EnvInv, Progress, ServiceInv, WaitInv, CurInv, XptInv,
       PutInv, Known, Early, Late
  <2>3. QuietInv'
    BY <1>2 DEF GetShutdown, Only, Goto, data, TypeOK, QuietInv, Late
  <2> QED BY <2>1, <2>2, <2>3
<1> QED BY <1>1, <1>2 DEF GetShutdown

-----------------------------------------------------------------------------
(* The service, and the end. *)

LEMMA ServiceFinalizeJInv == ASSUME JInv, NEW r \in Ranks, ServiceFinalize(r) PROVE JInv'
<1> USE DEF JInv
<1>1. TypeOK' /\ EnvInv'
  BY RankZero DEF ServiceFinalize, Goto, TypeOK, States, EnvInv
<1>2. Progress'
  BY JobAssumption DEF ServiceFinalize, Goto, TypeOK, Progress, ServiceInv, WaitInv, CurInv, XptInv, Early, Late
<1>3. PutInv' /\ QuietInv'
  BY RankZero DEF ServiceFinalize, Goto, TypeOK, PutInv, QuietInv, Known, Late
<1> QED BY <1>1, <1>2, <1>3

LEMMA ServiceWaitJInv == ASSUME JInv, NEW r \in Ranks, ServiceWait(r) PROVE JInv'
<1> USE DEF JInv
<1>1. waits[r] \in 0 .. Tries /\ waits[r] < Tries
  BY DEF ServiceWait, Goto, TypeOK, Progress, WaitInv
<1>2. TypeOK' /\ EnvInv'
  BY <1>1, RankZero, JobAssumption DEF ServiceWait, Goto, TypeOK, States, EnvInv
<1>3. Progress'
  BY <1>1, JobAssumption
  DEF ServiceWait, Goto, TypeOK, Progress, ServiceInv, WaitInv, CurInv, XptInv, Early, Late
<1>4. PutInv' /\ QuietInv'
  BY RankZero DEF ServiceWait, Goto, TypeOK, PutInv, QuietInv, Known, Late
<1> QED BY <1>2, <1>3, <1>4

LEMMA ServiceExitJInv == ASSUME JInv, NEW r \in Ranks, ServiceExit(r) PROVE JInv'
<1> USE DEF JInv
<1>1. TypeOK' /\ EnvInv'
  BY DEF ServiceExit, TypeOK, EnvInv
<1>2. Progress'
  BY DEF ServiceExit, TypeOK, Progress, ServiceInv, WaitInv, CurInv, XptInv, Early, Late
<1>3. PutInv' /\ QuietInv'
  BY DEF ServiceExit, PutInv, QuietInv, Known
<1> QED BY <1>1, <1>2, <1>3

LEMMA XptFinalizeJInv == ASSUME JInv, NEW r \in Ranks, XptFinalize(r) PROVE JInv'
<1> USE DEF JInv
<1>1. TypeOK' /\ EnvInv'
  BY RankZero DEF XptFinalize, Goto, TypeOK, States, EnvInv
<1>2. Progress'
  BY DEF XptFinalize, Goto, TypeOK, Progress, ServiceInv, WaitInv, CurInv, XptInv, Early, Late
<1>3. PutInv' /\ QuietInv'
  BY RankZero DEF XptFinalize, Goto, TypeOK, PutInv, QuietInv, Known, Late
<1> QED BY <1>1, <1>2, <1>3

\* The job is ended from outside: every rank stays where it is.
LEMMA AbortJInv == ASSUME JInv, Launcher \/ \E r \in Ranks : Abort(r) PROVE JInv'
<1> USE DEF JInv
<1>1. /\ job' = "aborted"
      /\ UNCHANGED <<env, pc, mode, loaded, queue, cur, ran, starters, service, waits, xpt>>
  BY DEF Launcher, Abort
<1>2. TypeOK' /\ EnvInv'
  BY <1>1 DEF TypeOK, EnvInv
<1>3. Progress' /\ PutInv' /\ QuietInv'
  BY <1>1 DEF Progress, ServiceInv, WaitInv, CurInv, XptInv, PutInv, QuietInv, Known
<1> QED BY <1>2, <1>3

-----------------------------------------------------------------------------
LEMMA JInvNext == JInv /\ [Next]_vars => JInv'
<1> SUFFICES ASSUME JInv, [Next]_vars PROVE JInv'
  OBVIOUS
<1>1. ASSUME NEW r \in Ranks, Rank(r) PROVE JInv'
  <2>1. CASE Allocate(r)
    BY <2>1, MovesJInv DEF Allocate, Dies, Moves, Early
  <2>2. CASE WorkerBarrier(r)
    BY <2>2, MovesJInv DEF WorkerBarrier, Moves, Early
  <2>3. CASE Finalize(r)
    BY <2>3, MovesJInv DEF Finalize, Moves
  <2>4. CASE AdlbInit(r) \/ XptInit(r) \/ Reload(r) \/ Enter(r) \/ Get(r) \/ Eval(r)
    BY <2>4, AdlbInitJInv, XptInitJInv, ReloadJInv, EnterJInv, GetJInv, EvalJInv
  <2>5. CASE GetShutdown(r) \/ ServiceFinalize(r) \/ ServiceWait(r) \/ XptFinalize(r) \/ Abort(r)
    BY <2>5, GetShutdownJInv, ServiceFinalizeJInv, ServiceWaitJInv, XptFinalizeJInv, AbortJInv
  <2>6. CASE RulesError(r) \/ EvalError(r)
    BY <2>6, ErrorJInv
  <2> QED BY <1>1, <2>1, <2>2, <2>3, <2>4, <2>5, <2>6 DEF Rank
<1>2. ASSUME NEW r \in Ranks, ConfigureError(r) \/ StartupError(r) PROVE JInv'
  BY <1>2, ErrorJInv
<1>3. CASE UNCHANGED vars
  BY <1>3 DEF vars, JInv, TypeOK, EnvInv, Progress, ServiceInv, WaitInv, CurInv, XptInv, PutInv, QuietInv, Known
<1> QED BY <1>1, <1>2, <1>3, ShutdownJInv, ServiceExitJInv, AbortJInv DEF Next, Ended

LEMMA JInvAlways == Spec => []JInv
  BY JInvInit, JInvNext, PTL DEF Spec

-----------------------------------------------------------------------------
(* The start: who gets which mode, and when the rules are evaluated. *)

\* A rank has been given its mode.
Seated(r) == mode[r] # UNSET \/ pc[r] \notin {"off", "init", "exited"}

\* A mode is what setup_mode computed from a layout that was not refused.
SeatInv ==
  /\ EnvTypes
  /\ \A r \in Ranks : /\ pc[r] = "init" => Allocatable
                      /\ pc[r] \in {"off", "init"} => mode[r] = UNSET
                      /\ Seated(r) => mode[r] = ModeOf(r) /\ Allocatable
  /\ Seated(0) => NWorkers > 0

\* Only workers reload, and rank 0 is past the barrier when it comes to the rules.
RulesInv ==
  /\ \A r \in Ranks : pc[r] = "reload" => ~AmServer(r)
  /\ loaded \subseteq {r \in Ranks : ~AmServer(r)}
  /\ starters \subseteq {0} /\ (0 \in starters => mode[0] = WORK)
  /\ env.reload # "none" /\ (pc[0] = "enter" \/ 0 \in starters) => {r \in Ranks : ~AmServer(r)} \subseteq loaded

StartInv == SeatInv /\ RulesInv

\* The layout is a function of env.
LEMMA EnvSame ==
  ASSUME env' = env
  PROVE  /\ EnvTypes' = EnvTypes /\ NWorkers' = NWorkers /\ Allocatable' = Allocatable
         /\ \A r : ModeOf(r)' = ModeOf(r) /\ AmServer(r)' = AmServer(r)
<1>1. EnvTypes' = EnvTypes
  BY DEF EnvTypes
<1>2. NWorkers' = NWorkers /\ \A r : AmServer(r)' = AmServer(r)
  BY DEF NWorkers, AmServer
<1>3. Allocatable' = Allocatable
  BY DEF Allocatable, NWorkers, Sum, MapThenSumSet, MapThenFoldSet
<1>4. \A r : ModeOf(r)' = ModeOf(r)
  BY DEF ModeOf, AmServer, Bound, Count, WorkTypes, NWorkers, Sum, MapThenSumSet, MapThenFoldSet
<1> QED BY <1>1, <1>2, <1>3, <1>4

\* Where rank r goes is of no concern to the start.
Onward(r) ==
  \/ pc'[r] = pc[r]
  \/ /\ pc'[r] \notin {"off", "init", "reload", "enter"}
     /\ pc'[r] = "exited" \/ pc[r] \notin {"off", "init", "exited"}

LEMMA OnwardStartInv ==
  ASSUME StartInv, UNCHANGED <<env, mode, loaded, starters>>, \A q \in Ranks : Onward(q)
  PROVE  StartInv'
<1>1. /\ EnvTypes' = EnvTypes /\ NWorkers' = NWorkers /\ Allocatable' = Allocatable
      /\ \A r : ModeOf(r)' = ModeOf(r) /\ AmServer(r)' = AmServer(r)
  BY EnvSame
<1>2. \A q \in Ranks : Seated(q)' => Seated(q)
  BY DEF Seated, Onward
<1>3. SeatInv'
  <2>1. ASSUME NEW r \in Ranks
        PROVE  /\ (pc[r] = "init")' => Allocatable
               /\ (pc[r] \in {"off", "init"})' => mode[r] = UNSET
    BY DEF StartInv, SeatInv, Onward
  <2> QED BY <1>1, <1>2, <2>1, RankZero DEF StartInv, SeatInv
<1>4. RulesInv'
  <2>1. \A r \in Ranks : pc'[r] = "reload" => ~AmServer(r)
    BY DEF StartInv, RulesInv, Onward
  <2>2. pc'[0] = "enter" => pc[0] = "enter"
    BY RankZero DEF Onward
  <2> QED BY <1>1, <2>1, <2>2 DEF StartInv, RulesInv
<1> QED BY <1>3, <1>4 DEF StartInv

\* Rank r goes from one place to another.
LEMMA GotoOnward ==
  ASSUME TypeOK, NEW r \in Ranks, NEW from, NEW to, Goto(r, from, to),
         to \notin {"off", "init", "reload", "enter"}, to = "exited" \/ from \notin {"off", "init", "exited"}
  PROVE  \A q \in Ranks : Onward(q)
  BY DEF TypeOK, Goto, Onward

LEMMA OnlyStartInv ==
  ASSUME JInv, StartInv, NEW r \in Ranks, NEW from, NEW to, Only(r, from, to),
         to \notin {"off", "init", "reload", "enter"}, to = "exited" \/ from \notin {"off", "init", "exited"}
  PROVE  StartInv'
<1>1. Goto(r, from, to) /\ UNCHANGED <<env, mode, loaded, starters>>
  BY DEF Only, data
<1>2. \A q \in Ranks : Onward(q)
  BY <1>1, GotoOnward DEF JInv
<1> QED BY <1>1, <1>2, OnwardStartInv

LEMMA AllocateStartInv == ASSUME JInv, StartInv, NEW r \in Ranks, Allocate(r) PROVE StartInv'
<1>1. CASE Dies(r, "off")
  BY <1>1, OnlyStartInv DEF Dies
<1>2. CASE Only(r, "off", "init") /\ Allocatable
  <2>1. /\ EnvTypes' = EnvTypes /\ NWorkers' = NWorkers /\ Allocatable' = Allocatable
        /\ \A q : ModeOf(q)' = ModeOf(q) /\ AmServer(q)' = AmServer(q)
    BY <1>2, EnvSame DEF Only, data
  <2>2. /\ UNCHANGED <<env, mode, loaded, starters>> /\ pc[r] = "off" /\ pc'[r] = "init"
        /\ \A q \in Ranks : q # r => pc'[q] = pc[q]
    BY <1>2 DEF Only, Goto, data, JInv, TypeOK
  <2>3. \A q \in Ranks : Seated(q)' => Seated(q)
    BY <2>2 DEF Seated
  <2>4. SeatInv'
    BY <1>2, <2>1, <2>2, <2>3, RankZero DEF StartInv, SeatInv
  <2>5. RulesInv'
    BY <2>1, <2>2, RankZero DEF StartInv, RulesInv
  <2> QED BY <2>4, <2>5 DEF StartInv
<1> QED BY <1>1, <1>2 DEF Allocate

LEMMA AdlbInitStartInv == ASSUME JInv, StartInv, NEW r \in Ranks, AdlbInit(r) PROVE StartInv'
<1>1. CASE Dies(r, "init")
  BY <1>1, OnlyStartInv DEF Dies
<1>2. CASE /\ Goto(r, "init", "ready") /\ mode' = [mode EXCEPT ![r] = ModeOf(r)]
           /\ UNCHANGED <<env, loaded, starters>> /\ ~ (r = 0 /\ NWorkers <= 0)
  <2>1. /\ EnvTypes' = EnvTypes /\ NWorkers' = NWorkers /\ Allocatable' = Allocatable
        /\ \A q : ModeOf(q)' = ModeOf(q) /\ AmServer(q)' = AmServer(q)
    BY <1>2, EnvSame
  <2>2. /\ pc[r] = "init" /\ pc'[r] = "ready" /\ \A q \in Ranks : q # r => pc'[q] = pc[q] /\ mode'[q] = mode[q]
        /\ mode'[r] = ModeOf(r)
    BY <1>2 DEF Goto, JInv, TypeOK
  <2>3. \A q \in Ranks : q # r => (Seated(q)' => Seated(q))
    BY <2>2 DEF Seated
  <2>4. Allocatable /\ mode[r] = UNSET
    BY <2>2 DEF StartInv, SeatInv
  <2>5. r = 0 => NWorkers > 0
    <3>1. NWorkers \in Int
      BY RankZero DEF StartInv, SeatInv, EnvTypes, NWorkers
    <3> QED BY <1>2, <3>1
  <2>6. SeatInv'
    <3>1. ASSUME NEW q \in Ranks
          PROVE  /\ pc'[q] = "init" => Allocatable
                 /\ pc'[q] \in {"off", "init"} => mode'[q] = UNSET
                 /\ Seated(q)' => mode'[q] = ModeOf(q) /\ Allocatable
      BY <2>2, <2>3, <2>4 DEF StartInv, SeatInv
    <3>2. Seated(0)' => NWorkers > 0
      BY <2>3, <2>5, RankZero DEF StartInv, SeatInv
    <3> QED BY <2>1, <3>1, <3>2 DEF StartInv, SeatInv
  <2>7. RulesInv'
    <3>1. UNSET # WORK
      BY DEF UNSET, WORK
    <3>2. 0 \in starters => mode'[0] = WORK
      BY <2>2, <2>4, <3>1, RankZero DEF StartInv, RulesInv
    <3> QED BY <1>2, <2>1, <2>2, <3>2, RankZero DEF StartInv, RulesInv
  <2> QED BY <2>6, <2>7 DEF StartInv
<1> QED BY <1>1, <1>2 DEF AdlbInit

\* A rank with a mode goes to reload, or to the rules.
LEMMA MayStart ==
  ASSUME JInv, StartInv, NEW r \in Ranks, NEW from, NEW to, Only(r, from, to),
         from \notin {"off", "init", "exited"}, to \in {"reload", "enter"}, to = "reload" => ~AmServer(r),
         to = "enter" /\ env.reload # "none" => {q \in Ranks : ~AmServer(q)} \subseteq loaded
  PROVE  StartInv'
<1>1. /\ UNCHANGED <<env, mode, loaded, starters>> /\ pc[r] = from /\ pc'[r] = to
      /\ \A q \in Ranks : q # r => pc'[q] = pc[q]
  BY DEF Only, Goto, data, JInv, TypeOK
<1>2. /\ EnvTypes' = EnvTypes /\ NWorkers' = NWorkers /\ Allocatable' = Allocatable
      /\ \A q : ModeOf(q)' = ModeOf(q) /\ AmServer(q)' = AmServer(q)
  BY <1>1, EnvSame
<1>3. \A q \in Ranks : Seated(q)' => Seated(q)
  BY <1>1 DEF Seated
<1>4. SeatInv'
  <2>1. ASSUME NEW q \in Ranks
        PROVE  /\ pc'[q] = "init" => Allocatable
               /\ pc'[q] \in {"off", "init"} => mode[q] = UNSET
    BY <1>1 DEF StartInv, SeatInv
  <2> QED BY <1>1, <1>2, <1>3, <2>1, RankZero DEF StartInv, SeatInv
<1>5. RulesInv'
  <2>1. \A q \in Ranks : pc'[q] = "reload" => ~AmServer(q)
    BY <1>1 DEF StartInv, RulesInv
  <2>2. env.reload # "none" /\ (pc'[0] = "enter" \/ 0 \in starters) => {q \in Ranks : ~AmServer(q)} \subseteq loaded
    BY <1>1, RankZero DEF StartInv, RulesInv
  <2> QED BY <1>1, <1>2, <2>1, <2>2 DEF StartInv, RulesInv
<1> QED BY <1>4, <1>5 DEF StartInv

LEMMA XptInitStartInv == ASSUME JInv, StartInv, NEW r \in Ranks, XptInit(r) PROVE StartInv'
<1>1. CASE mode[r] = SERVER
  <2>1. Only(r, "ready", "serve")
    BY <1>1 DEF XptInit
  <2> QED BY <2>1, OnlyStartInv
<1>2. CASE mode[r] # SERVER
  <2>1. pc[r] = "ready" /\ Only(r, "ready", IF env.reload # "none" THEN "reload" ELSE "enter")
    BY <1>2 DEF XptInit, Only, Goto
  <2>2. mode[r] = ModeOf(r)
    BY <2>1 DEF StartInv, SeatInv, Seated
  <2>3. ~AmServer(r)
    BY <1>2, <2>2 DEF ModeOf
  <2> QED BY <2>1, <2>3, MayStart
<1> QED BY <1>1, <1>2

LEMMA WorkerBarrierStartInv == ASSUME JInv, StartInv, NEW r \in Ranks, WorkerBarrier(r) PROVE StartInv'
  BY MayStart DEF WorkerBarrier

LEMMA ReloadStartInv == ASSUME JInv, StartInv, NEW r \in Ranks, Reload(r) PROVE StartInv'
<1>1. CASE Dies(r, "reload")
  BY <1>1, OnlyStartInv DEF Dies
<1>2. CASE Goto(r, "reload", "barrier") /\ loaded' = loaded \cup {r} /\ UNCHANGED <<env, mode, starters>>
  <2>1. /\ EnvTypes' = EnvTypes /\ NWorkers' = NWorkers /\ Allocatable' = Allocatable
        /\ \A q : ModeOf(q)' = ModeOf(q) /\ AmServer(q)' = AmServer(q)
    BY <1>2, EnvSame
  <2>2. /\ pc[r] = "reload" /\ pc'[r] = "barrier" /\ \A q \in Ranks : q # r => pc'[q] = pc[q]
    BY <1>2 DEF Goto, JInv, TypeOK
  <2>3. \A q \in Ranks : Seated(q)' => Seated(q)
    BY <1>2, <2>2 DEF Seated
  <2>4. SeatInv'
    <3>1. ASSUME NEW q \in Ranks
          PROVE  /\ pc'[q] = "init" => Allocatable
                 /\ pc'[q] \in {"off", "init"} => mode[q] = UNSET
      BY <2>2 DEF StartInv, SeatInv
    <3> QED BY <1>2, <2>1, <2>3, <3>1, RankZero DEF StartInv, SeatInv
  <2>5. RulesInv'
    BY <1>2, <2>1, <2>2, RankZero DEF StartInv, RulesInv
  <2> QED BY <2>4, <2>5 DEF StartInv
<1> QED BY <1>1, <1>2 DEF Reload

\* Rank 0 has evaluated the rules, or they have failed; the others start.
LEMMA EnterStartInv ==
  ASSUME JInv, StartInv, NEW r \in Ranks, Enter(r) \/ RulesError(r)
  PROVE  StartInv'
<1>1. PICK to \in {"get", "caught", "trapped"} :
        /\ Goto(r, "enter", to) /\ UNCHANGED <<env, mode, loaded>>
        /\ starters' = IF r = 0 THEN starters \cup {r} ELSE starters
  BY DEF Enter, RulesError, Fails
<1>2. StartInv'
  <2>1. \A q \in Ranks : Onward(q)
    BY <1>1, GotoOnward DEF JInv
  <2>2. CASE r # 0
    BY <1>1, <2>1, <2>2, OnwardStartInv
  <2>3. CASE r = 0
    <3>1. /\ EnvTypes' = EnvTypes /\ NWorkers' = NWorkers /\ Allocatable' = Allocatable
          /\ \A q : ModeOf(q)' = ModeOf(q) /\ AmServer(q)' = AmServer(q)
      BY <1>1, EnvSame
    <3>2. /\ pc[0] = "enter" /\ pc'[0] = to /\ \A q \in Ranks : q # 0 => pc'[q] = pc[q]
      BY <1>1, <2>3 DEF Goto, JInv, TypeOK
    <3>3. mode[0] = WORK
      <4>1. EnvTypes /\ Allocatable /\ NWorkers > 0 /\ mode[0] = ModeOf(0)
        BY <3>2, RankZero DEF StartInv, SeatInv, Seated
      <4> QED BY <4>1, ModesAre
    <3>4. \A q \in Ranks : Seated(q)' => Seated(q)
      BY <1>1, <3>2 DEF Seated
    <3>5. SeatInv'
      <4>1. ASSUME NEW q \in Ranks
            PROVE  /\ pc'[q] = "init" => Allocatable
                   /\ pc'[q] \in {"off", "init"} => mode[q] = UNSET
        BY <3>2 DEF StartInv, SeatInv
      <4> QED BY <1>1, <3>1, <3>4, <4>1, RankZero DEF StartInv, SeatInv
    <3>6. RulesInv'
      BY <1>1, <2>3, <3>1, <3>2, <3>3, RankZero DEF StartInv, RulesInv
    <3> QED BY <3>5, <3>6 DEF StartInv
  <2> QED BY <2>2, <2>3
<1> QED BY <1>2

\* The loop and the end.
LEMMA LoopStartInv ==
  ASSUME JInv, StartInv, NEW r \in Ranks,
         Get(r) \/ Eval(r) \/ GetShutdown(r) \/ ServiceFinalize(r) \/ ServiceWait(r) \/ XptFinalize(r)
         \/ Finalize(r) \/ ConfigureError(r) \/ StartupError(r) \/ EvalError(r)
  PROVE  StartInv'
<1>1. CASE Get(r)
  BY <1>1, GotoOnward, OnwardStartInv DEF Get, JInv
<1>2. CASE Eval(r)
  BY <1>2, GotoOnward, OnwardStartInv, OnlyStartInv DEF Eval, JInv
<1>3. CASE GetShutdown(r) \/ Finalize(r) \/ ConfigureError(r) \/ StartupError(r)
  BY <1>3, OnlyStartInv DEF GetShutdown, Finalize, ConfigureError, StartupError
<1>4. CASE ServiceFinalize(r)
  BY <1>4, GotoOnward, OnwardStartInv DEF ServiceFinalize, JInv
<1>5. CASE ServiceWait(r)
  BY <1>5, GotoOnward, OnwardStartInv DEF ServiceWait, JInv
<1>6. CASE XptFinalize(r)
  BY <1>6, GotoOnward, OnwardStartInv DEF XptFinalize, JInv
<1>7. CASE EvalError(r)
  BY <1>7, GotoOnward, OnwardStartInv DEF EvalError, Fails, JInv
<1> QED BY <1>1, <1>2, <1>3, <1>4, <1>5, <1>6, <1>7

LEMMA StartInvNext == JInv /\ StartInv /\ [Next]_vars => StartInv'
<1> SUFFICES ASSUME JInv, StartInv, [Next]_vars PROVE StartInv'
  OBVIOUS
<1>1. CASE \/ Shutdown \/ Launcher \/ Ended \/ UNCHANGED vars
           \/ \E r \in Ranks : Abort(r) \/ ServiceExit(r)
  <2>1. UNCHANGED <<env, pc, mode, loaded, starters>>
    BY <1>1 DEF Shutdown, Launcher, Ended, Abort, ServiceExit, vars
  <2> QED BY <2>1, OnwardStartInv DEF Onward
<1>2. ASSUME NEW r \in Ranks, Rank(r) \/ ConfigureError(r) \/ StartupError(r), ~ Abort(r) PROVE StartInv'
  BY <1>2, AllocateStartInv, AdlbInitStartInv, XptInitStartInv, ReloadStartInv, WorkerBarrierStartInv,
     EnterStartInv, LoopStartInv DEF Rank
<1> QED BY <1>1, <1>2 DEF Next

LEMMA StartInvInit == Init => StartInv
<1> SUFFICES ASSUME Init PROVE StartInv
  OBVIOUS
<1>1. SeatInv
  BY RankZero DEF Init, SeatInv, EnvTypes, Seated
<1>2. RulesInv
  BY RankZero DEF Init, RulesInv
<1> QED BY <1>1, <1>2 DEF StartInv

LEMMA StartInvAlways == Spec => [](JInv /\ StartInv)
  BY JInvAlways, StartInvInit, StartInvNext, PTL DEF Spec

\* No rank of a feasible layout comes out of turbine::init without a mode.
LeftInv == Feasible => \A r \in Ranks : pc[r] \notin {"off", "init"} => mode[r] # UNSET

LEMMA LeftInvNext == JInv /\ StartInv /\ LeftInv /\ [Next]_vars => LeftInv'
<1> SUFFICES ASSUME JInv, StartInv, LeftInv, [Next]_vars, Feasible', NEW q \in Ranks, pc'[q] \notin {"off", "init"}
             PROVE  mode'[q] # UNSET
  BY DEF LeftInv
<1>1. UNCHANGED env
  BY DEF Next, Shutdown, Launcher, Ended, Rank, ConfigureError, StartupError, ServiceExit, Allocate, Dies,
         AdlbInit, XptInit, Reload, WorkerBarrier, Enter, RulesError, Get, Eval, EvalError, GetShutdown,
         ServiceFinalize, ServiceWait, XptFinalize, Finalize, Abort, Only, data, vars
<1>2. Feasible
  <2>1. NWorkers' = NWorkers /\ Allocatable' = Allocatable
    BY <1>1, EnvSame
  <2> QED BY <1>1, <2>1 DEF Feasible
<1>3. ASSUME NEW r \in Ranks, Allocate(r) PROVE mode'[q] # UNSET
  <2>1. Only(r, "off", "init")
    BY <1>2, <1>3 DEF Allocate, Feasible
  <2> QED BY <1>2, <2>1 DEF Only, Goto, data, JInv, TypeOK, LeftInv
<1>4. ASSUME NEW r \in Ranks, AdlbInit(r) PROVE mode'[q] # UNSET
  <2>1. ModeOf(r) # UNSET
    <3>1. EnvTypes /\ Allocatable /\ NWorkers > 0
      BY <1>2 DEF Feasible, StartInv, SeatInv
    <3>2. (r < NWorkers => ModeOf(r) \in WorkTypes) /\ (r >= NWorkers <=> ModeOf(r) = SERVER)
      BY <3>1, ModesAre
    <3>3. r < NWorkers \/ r >= NWorkers
      BY <3>1, CountsAre, JobAssumption DEF Ranks, EnvTypes, NWorkers
    <3> QED BY <3>2, <3>3, TypesAreNumbers DEF WorkTypes, SERVER, UNSET
  <2>2. ~(r = 0 /\ NWorkers <= 0) /\ ~(Size < 2)
    <3>1. NWorkers \in Int /\ Size \in Nat
      BY RankZero DEF StartInv, SeatInv, EnvTypes, NWorkers
    <3> QED BY ONLY <1>2, <3>1 DEF Feasible
  <2>3. Goto(r, "init", "ready") /\ mode' = [mode EXCEPT ![r] = ModeOf(r)]
    BY <1>4, <2>1, <2>2 DEF AdlbInit
  <2> QED BY <1>2, <2>1, <2>3 DEF Goto, JInv, TypeOK, LeftInv
<1>5. CASE /\ UNCHANGED mode
           /\ \A r \in Ranks : pc[r] \in {"off", "init"} => pc'[r] = pc[r]
  BY <1>2, <1>5 DEF LeftInv
<1>6. ASSUME NEW r \in Ranks, Rank(r) \/ ConfigureError(r) \/ StartupError(r), ~Allocate(r), ~AdlbInit(r)
      PROVE  /\ UNCHANGED mode
             /\ \A p \in Ranks : pc[p] \in {"off", "init"} => pc'[p] = pc[p]
  BY <1>6 DEF Rank, ConfigureError, StartupError, XptInit, Reload, WorkerBarrier, Enter, RulesError, Fails, Get,
         Eval, EvalError, GetShutdown, ServiceFinalize, ServiceWait, XptFinalize, Finalize, Abort, Dies, Only,
         Goto, data, JInv, TypeOK
<1>7. ASSUME Shutdown \/ Launcher \/ Ended \/ UNCHANGED vars \/ \E r \in Ranks : ServiceExit(r)
      PROVE  UNCHANGED <<mode, pc>>
  BY <1>7 DEF Shutdown, Launcher, Ended, ServiceExit, vars
<1> QED BY <1>3, <1>4, <1>5, <1>6, <1>7 DEF Next

LEMMA LeftInvAlways == Spec => [](StartInv /\ LeftInv)
<1>1. Init => LeftInv
  BY DEF Init, LeftInv
<1> QED BY <1>1, LeftInvNext, StartInvAlways, PTL DEF Spec

-----------------------------------------------------------------------------
(* The theorems. *)

\* Type correctness; setup_mode gives each rank a mode there is, and
\* service_shutdown waits no longer than its back-off allows.
THEOREM JobTypeCorrect == Spec => []TypeOK
<1>1. JInv => TypeOK BY DEF JInv
<1> QED BY <1>1, JInvAlways, PTL

\* A rank that leaves its loop normally has told its service to stop.
THEOREM ServicesAreTold == Spec => []ServicesTold
<1>1. JInv => ServicesTold BY DEF JInv, Progress, ServiceInv, ServicesTold, Late
<1> QED BY <1>1, JInvAlways, PTL

\* A job that ends without error has run all that its rules and tasks put, and
\* has finalized checkpointing on every rank.
THEOREM EndsAreClean == Spec => []CleanEnd
<1>1. JInv => CleanEnd
  <2> SUFFICES ASSUME JInv, Arrived(Ranks, {"done"}) PROVE CleanEnd
    BY DEF CleanEnd
  <2>1. \A r \in Ranks : pc[r] = "done"
    BY DEF Arrived
  <2>2. queue = {} /\ (\A r \in Ranks : cur[r] = None) /\ ChildrenOf(None) \subseteq Known
    BY <2>1, RankZero DEF JInv, QuietInv, Progress, CurInv, PutInv, Late
  <2>3. Known \subseteq ran \cup {None}
    BY <2>2 DEF Known
  <2>4. \A t : None \notin ChildrenOf(t)
    BY JobAssumption DEF ChildrenOf
  <2>5. ChildrenOf(None) \subseteq ran /\ \A t \in ran : ChildrenOf(t) \subseteq ran
    BY <2>2, <2>3, <2>4 DEF JInv, PutInv
  <2>6. xpt = Ranks
    BY <2>1 DEF JInv, TypeOK, Progress, XptInv
  <2> QED BY <2>2, <2>5, <2>6 DEF CleanEnd
<1> QED BY <1>1, JInvAlways, PTL

\* No rank is left out, and the ranks have the modes that were asked for,
\* whatever number of servers and workers of each type: the ranges setup_mode
\* walks through fit exactly.
THEOREM LayoutIsAsAsked == Spec => []LayoutAsAsked
<1> DEFINE Counted == /\ \A t \in WorkTypes : Cardinality({r \in Ranks : mode[r] = t}) = Count(t)
                      /\ Cardinality(Servers) = env.servers
<1>1. ASSUME StartInv, \A r \in Ranks : mode[r] # UNSET PROVE Counted
  <2>1. EnvTypes /\ Allocatable /\ NWorkers > 0 /\ \A r \in Ranks : mode[r] = ModeOf(r)
    BY <1>1, RankZero DEF StartInv, SeatInv, Seated
  <2>2. /\ \A r \in Ranks : r < NWorkers => mode[r] \in WorkTypes
        /\ \A r \in Ranks : r >= NWorkers <=> mode[r] = SERVER
        /\ \A t \in WorkTypes : {r \in Ranks : mode[r] = t} = Below(t) .. Bound(t) - 1
    BY <2>1, ModesAre
  <2>3. /\ NWorkers \in Nat /\ NWorkers + env.servers = Size /\ Size \in Nat /\ Ranks = 0 .. Size - 1
        /\ env.servers \in Nat /\ NWorkers <= Size
    BY <2>1, CountsAre, RankZero DEF EnvTypes, NWorkers, Ranks
  <2>4. ASSUME NEW t \in WorkTypes PROVE Cardinality({r \in Ranks : mode[r] = t}) = Count(t)
    <3>1. Below(t) \in Nat /\ Bound(t) \in Nat /\ Bound(t) = Below(t) + Count(t) /\ Count(t) \in Nat
      BY <2>1, Places, CountsAre DEF WorkTypes
    <3>2. Cardinality(Below(t) .. Bound(t) - 1) =
            IF Below(t) > Bound(t) - 1 THEN 0 ELSE (Bound(t) - 1) - Below(t) + 1
      <4>1. Below(t) \in Int /\ Bound(t) - 1 \in Int
        BY ONLY <3>1
      <4> QED BY ONLY <4>1, FS_Interval
    <3>3. Cardinality(Below(t) .. Bound(t) - 1) = Count(t)
      BY ONLY <3>1, <3>2
    <3> QED BY <2>2, <3>3
  <2>5. Cardinality(Servers) = env.servers
    <3>1. Servers = {r \in Ranks : r >= NWorkers}
      BY <2>2 DEF Servers
    <3>2. {r \in Ranks : r >= NWorkers} = NWorkers .. Size - 1
      BY ONLY <2>3
    <3>3. Cardinality(NWorkers .. Size - 1) = IF NWorkers > Size - 1 THEN 0 ELSE (Size - 1) - NWorkers + 1
      BY <2>3, FS_Interval
    <3>4. Cardinality(NWorkers .. Size - 1) = env.servers
      BY ONLY <2>3, <3>3
    <3> QED BY <3>1, <3>2, <3>4
  <2> QED BY <2>4, <2>5
<1>2. ASSUME StartInv, NEW r \in Ranks, mode[r] # UNSET
      PROVE  (RankIsServer(r) <=> r \in Servers) /\ (RankIsWorker(r) <=> r \in Workers)
  <2>1. mode[r] = ModeOf(r) /\ NWorkers \in Int /\ r \in Int
    BY <1>2, RankZero DEF StartInv, SeatInv, Seated, EnvTypes, NWorkers, Ranks
  <2>2. mode[r] \in Types \cup {SERVER} /\ (mode[r] = SERVER <=> AmServer(r)) /\ SERVER \notin Types
    BY <1>2, <2>1, ModeType, TypesAreNumbers DEF ModeOf
  <2>3. RankIsServer(r) <=> AmServer(r)
    BY DEF RankIsServer, AmServer
  <2>4. RankIsWorker(r) <=> ~AmServer(r)
    BY ONLY <2>1 DEF RankIsWorker, AmServer
  <2> QED BY <2>2, <2>3, <2>4 DEF Servers, Workers
<1>3. StartInv /\ LeftInv => LayoutAsAsked
  BY <1>1, <1>2 DEF LayoutAsAsked, LeftInv
<1> QED BY <1>3, LeftInvAlways, PTL

\* The rules are evaluated by rank 0, a regular worker, after every worker has
\* reloaded its share of the checkpoints.
THEOREM RulesWaitForReload == Spec => []RulesAfterReload
<1>1. StartInv => RulesAfterReload
  <2> SUFFICES ASSUME StartInv PROVE RulesAfterReload
    OBVIOUS
  <2>1. starters # {} => starters = {0} /\ mode[0] = WORK
    BY DEF StartInv, RulesInv
  <2>2. starters # {} /\ env.reload # "none" => loaded = {r \in Ranks : ~AmServer(r)}
    BY <2>1 DEF StartInv, RulesInv
  <2>3. ASSUME NEW r \in Ranks PROVE RankIsWorker(r) <=> ~AmServer(r)
    <3>1. NWorkers \in Int /\ r \in Int
      BY RankZero DEF StartInv, SeatInv, EnvTypes, NWorkers, Ranks
    <3> QED BY ONLY <3>1 DEF RankIsWorker, AmServer
  <2> QED BY <2>1, <2>2, <2>3 DEF RulesAfterReload
<1> QED BY <1>1, StartInvAlways, PTL

=============================================================================
