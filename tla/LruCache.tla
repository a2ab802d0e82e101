------------------------------- MODULE LruCache -------------------------------
(***************************************************************************)
(* What the cache promises: it remembers the Capacity data used last, in   *)
(* the order of their use, and of those only as many as fit its Budget of  *)
(* bytes.  order[1] is the datum to go next.                               *)
(***************************************************************************)
EXTENDS Integers, Sequences, FiniteSetsExt

CONSTANTS
  Data, Values, None,
  Length,    \* bytes of each value
  Capacity,  \* data it may hold
  Budget     \* bytes it may hold; None when there is no limit

VARIABLES
  order,   \* the cached data, least recently used first
  holds    \* their values; None for a datum not in order

First(s, k) == {s[i] : i \in 1 .. k}
Bytes(s, h) == MapThenSumSet(LAMBDA d : Length[h[d]], First(s, Len(s)))
Fits(s, h) == Budget = None \/ Bytes(s, h) <= Budget

cached == First(order, Len(order))
Without(i) == SubSeq(order, 1, i - 1) \o SubSeq(order, i + 1, Len(order))

Init == order = << >> /\ holds = [d \in Data |-> None]

\* Of the data s with the values h, the oldest go until the others fit.
Keep(s, h) ==
  \E k \in 0 .. Len(s) :
    /\ Fits(SubSeq(s, k + 1, Len(s)), h)
    /\ \A j \in 0 .. k - 1 : ~Fits(SubSeq(s, j + 1, Len(s)), h)
    /\ order' = SubSeq(s, k + 1, Len(s))
    /\ holds' = [d \in Data |-> IF d \in First(s, k) THEN None ELSE h[d]]

Use(d) ==
  /\ \E i \in 1 .. Len(order) : order[i] = d /\ order' = Append(Without(i), d)
  /\ UNCHANGED holds

Insert(d, v) ==
  /\ d \notin cached /\ Len(order) < Capacity
  /\ Keep(Append(order, d), [holds EXCEPT ![d] = v])

Displace(d, v) ==
  /\ d \notin cached /\ Len(order) = Capacity /\ Capacity > 0
  /\ Keep(Append(Tail(order), d), [holds EXCEPT ![d] = v, ![Head(order)] = None])

Clear == order' = << >> /\ holds' = [d \in Data |-> None]

Next ==
  \/ Clear
  \/ \E d \in Data : Use(d) \/ \E v \in Values : Insert(d, v) \/ Displace(d, v)

Spec == Init /\ [][Next]_<<order, holds>>

\* What every state of Spec satisfies when there is a limit.
WithinBudget == Fits(order, holds)
=============================================================================
