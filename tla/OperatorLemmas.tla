---------------------------- MODULE OperatorLemmas -----------------------------
(***************************************************************************)
(* What the operators of Agenda and RoadGraph do, for every agenda and     *)
(* every graph.  Recursive functions are reasoned about through Recursion  *)
(* and Ind, which rest on the natural numbers being well-founded.          *)
(*                                                                         *)
(* Of the road graph, the two facts replanning depends on: the preferred   *)
(* route is one (CanonicalWalkIsUnique), and with other blocked edges off  *)
(* it, or from its second node on, it is the preferred route still         *)
(* (OffRouteClosure, RouteAfterAHop).  Of orders: the members of a finite  *)
(* set are numbered by their predecessors (RanksNumber).                   *)
(***************************************************************************)
EXTENDS Agenda, RoadGraph, FiniteSetTheorems, SequenceTheorems, WellFoundedInduction, TLAPS

\* A set of numbers that is not empty has a least element.
LEMMA Least ==
    ASSUME NEW S \in SUBSET Nat, S # {}
    PROVE  \E n \in S : \A m \in S : n <= m
<1>1. IsWellFoundedOn(OpToRel(<, Nat), Nat)
  BY NatLessThanWellFounded
<1>2. PICK x \in S : \A y \in S : ~(<<y, x>> \in OpToRel(<, Nat))
  BY <1>1, WFMin
<1>3. \A y \in S : ~(y < x)
  BY <1>2 DEF OpToRel
<1>. QED
  BY <1>3

\* What holds of 0 and, with every number, of the next, holds of every number.
LEMMA Ind ==
    ASSUME NEW S, 0 \in S, \A n \in Nat : n \in S => n + 1 \in S
    PROVE  Nat \subseteq S
<1> DEFINE T == Nat \ S
<1>1. SUFFICES ASSUME T # {} PROVE FALSE
  OBVIOUS
<1>2. PICK n \in T : \A m \in T : n <= m
  BY <1>1, Least
<1>3. n # 0 /\ n - 1 \in Nat /\ n - 1 \notin T
  BY <1>2
<1>. QED
  BY <1>3

(* Recursion over 0..n: a first value and, for each step, a function from  *)
(* the value before it to the value after it, determine a function.        *)
Recurs(f, n, D, first, step) ==
    /\ f \in [0..n -> D]
    /\ f[0] = first
    /\ \A i \in 1..n : f[i] = step[i][f[i - 1]]

\* There is one: it is built up step by step.
LEMMA Recursion ==
    ASSUME NEW n \in Nat, NEW D, NEW first \in D, NEW step \in [1..n -> [D -> D]]
    PROVE  \E f : Recurs(f, n, D, first, step)
<1> DEFINE Good(m, f) == /\ f[0] = first
                         /\ \A i \in 1..m : f[i] = step[i][f[i - 1]]
           S == {m \in Nat : m <= n => \E f \in [0..m -> D] : Good(m, f)}
<1>1. 0 \in S
  <2>1. [i \in 0..0 |-> first] \in [0..0 -> D] /\ Good(0, [i \in 0..0 |-> first])
    OBVIOUS
  <2>. QED
    BY <2>1
<1>2. ASSUME NEW m \in Nat, m \in S PROVE m + 1 \in S
  <2>1. SUFFICES ASSUME m + 1 <= n PROVE \E f \in [0..(m + 1) -> D] : Good(m + 1, f)
    OBVIOUS
  <2>2. PICK f \in [0..m -> D] : Good(m, f)
    BY <1>2, <2>1
  <2> DEFINE h == [i \in 0..(m + 1) |-> IF i = m + 1 THEN step[i][f[m]] ELSE f[i]]
  <2>3. step[m + 1][f[m]] \in D
    BY <2>1
  <2>4. h \in [0..(m + 1) -> D]
    BY <2>3
  <2>5. h[0] = first
    BY <2>2
  <2>6. \A i \in 1..(m + 1) : h[i] = step[i][h[i - 1]]
    <3> SUFFICES ASSUME NEW i \in 1..(m + 1) PROVE h[i] = step[i][h[i - 1]]
      OBVIOUS
    <3>1. CASE i = m + 1
      BY <3>1
    <3>2. CASE i # m + 1
      <4>1. i \in 1..m /\ i - 1 \in 0..m /\ i - 1 # m + 1
        BY <3>2
      <4>. QED
        BY <4>1, <2>2
    <3>. QED
      BY <3>1, <3>2
  <2>. QED
    BY <2>4, <2>5, <2>6
<1>. HIDE DEF S
<1>3. n \in S
  BY <1>1, <1>2, Ind
<1>. QED
  BY <1>3 DEF S, Recurs

-----------------------------------------------------------------------------
(* The agenda.                                                             *)

(* An event is put at some place, and what was there or behind it moves    *)
(* back by one.                                                            *)
LEMMA EnqueueShifts ==
    ASSUME NEW S, NEW q \in Seq(S), NEW e \in S
    PROVE  LET place == 1 + Cardinality({i \in DOMAIN q : q[i].at <= e.at})
           IN  /\ place \in 1..(Len(q) + 1)
               /\ Enqueue(q, e) \in Seq(S)
               /\ Len(Enqueue(q, e)) = Len(q) + 1
               /\ \A i \in 1..(Len(q) + 1) :
                    Enqueue(q, e)[i] = IF i < place THEN q[i]
                                       ELSE IF i = place THEN e ELSE q[i - 1]
<1> DEFINE early == {i \in DOMAIN q : q[i].at <= e.at}
           place == 1 + Cardinality(early)
           left == SubSeq(q, 1, place - 1)
           right == SubSeq(q, place, Len(q))
<1>1. Len(q) \in Nat /\ DOMAIN q = 1..Len(q)
  OBVIOUS
<1>2. place \in 1..(Len(q) + 1)
  <2>1. IsFiniteSet(1..Len(q)) /\ Cardinality(1..Len(q)) = Len(q)
    BY <1>1, FS_Interval
  <2>2. early \in SUBSET (1..Len(q))
    BY <1>1
  <2>3. Cardinality(early) <= Len(q) /\ Cardinality(early) \in Nat
    BY <2>1, <2>2, FS_Subset, FS_CardinalityType
  <2>. QED
    BY <2>3
<1>3. Enqueue(q, e) = (left \o <<e>>) \o right
  BY DEF Enqueue, InsertAt
<1> HIDE DEF place
<1>4. /\ left \in Seq(S) /\ Len(left) = place - 1
      /\ \A i \in 1..(place - 1) : left[i] = q[i]
  BY <1>1, <1>2
<1>5. /\ right \in Seq(S) /\ Len(right) = Len(q) + 1 - place
      /\ \A i \in 1..(Len(q) + 1 - place) : right[i] = q[place + i - 1]
  BY <1>1, <1>2
<1> HIDE DEF left, right
<1>6. /\ left \o <<e>> \in Seq(S) /\ Len(left \o <<e>>) = place
      /\ \A i \in 1..place : (left \o <<e>>)[i] = IF i = place THEN e ELSE q[i]
  BY <1>2, <1>4
<1>7. /\ Enqueue(q, e) \in Seq(S) /\ Len(Enqueue(q, e)) = Len(q) + 1
      /\ \A i \in 1..(Len(q) + 1) :
            Enqueue(q, e)[i] = IF i <= place THEN (left \o <<e>>)[i] ELSE right[i - place]
  <2> DEFINE front == left \o <<e>>
  <2>1. front \in Seq(S) /\ Len(front) = place /\ Enqueue(q, e) = front \o right
    BY <1>3, <1>6
  <2> HIDE DEF front
  <2>2. /\ front \o right \in Seq(S)
        /\ Len(front \o right) = Len(front) + Len(right)
        /\ \A i \in 1..(Len(front) + Len(right)) :
             (front \o right)[i] = IF i <= Len(front) THEN front[i]
                                   ELSE right[i - Len(front)]
    BY <2>1, <1>5, ConcatProperties
  <2>3. Len(front) + Len(right) = Len(q) + 1
    BY <2>1, <1>5, <1>1, <1>2
  <2>. QED
    BY <2>1, <2>2, <2>3 DEF front
<1>8. \A i \in 1..(Len(q) + 1) :
        Enqueue(q, e)[i] = IF i < place THEN q[i] ELSE IF i = place THEN e ELSE q[i - 1]
  <2> SUFFICES ASSUME NEW i \in 1..(Len(q) + 1)
               PROVE  Enqueue(q, e)[i] = IF i < place THEN q[i]
                                         ELSE IF i = place THEN e ELSE q[i - 1]
    OBVIOUS
  <2>1. CASE i <= place
    BY <2>1, <1>2, <1>6, <1>7
  <2>2. CASE i > place
    <3>1. i - place \in 1..(Len(q) + 1 - place) /\ place + (i - place) - 1 = i - 1
      BY <2>2, <1>1, <1>2
    <3>2. Enqueue(q, e)[i] = right[i - place]
      BY <2>2, <1>1, <1>2, <1>7
    <3>3. right[i - place] = q[place + (i - place) - 1]
      BY <3>1, <1>5
    <3>. QED
      BY <2>2, <3>1, <3>2, <3>3, <1>2
  <2>. QED
    BY <2>1, <2>2, <1>2
<1>. QED
  BY <1>2, <1>7, <1>8 DEF place

\* An event that is put into the agenda joins those in it.
LEMMA EnqueueAdds ==
    ASSUME NEW S, NEW q \in Seq(S), NEW e \in S
    PROVE  Range(Enqueue(q, e)) = Range(q) \cup {e}
<1> DEFINE p == Enqueue(q, e)
           place == 1 + Cardinality({i \in DOMAIN q : q[i].at <= e.at})
<1>1. /\ place \in 1..(Len(q) + 1) /\ p \in Seq(S) /\ Len(p) = Len(q) + 1
      /\ \A i \in 1..(Len(q) + 1) :
           p[i] = IF i < place THEN q[i] ELSE IF i = place THEN e ELSE q[i - 1]
  BY EnqueueShifts
<1>2. DOMAIN p = 1..(Len(q) + 1) /\ DOMAIN q = 1..Len(q) /\ Len(q) \in Nat
  BY <1>1
<1> HIDE DEF p, place
<1>3. \A i \in DOMAIN p : p[i] \in Range(q) \cup {e}
  <2> SUFFICES ASSUME NEW i \in DOMAIN p, i # place PROVE p[i] \in Range(q)
    BY <1>1, <1>2
  <2>1. \/ i \in DOMAIN q /\ p[i] = q[i]
        \/ i - 1 \in DOMAIN q /\ p[i] = q[i - 1]
    BY <1>1, <1>2
  <2>. QED
    BY <2>1 DEF Range
<1>4. \A i \in DOMAIN q : q[i] \in Range(p)
  <2> SUFFICES ASSUME NEW i \in DOMAIN q PROVE q[i] \in Range(p)
    OBVIOUS
  <2>1. \/ i \in DOMAIN p /\ p[i] = q[i]
        \/ i + 1 \in DOMAIN p /\ p[i + 1] = q[(i + 1) - 1] /\ (i + 1) - 1 = i
    BY <1>1, <1>2
  <2>. QED
    BY <2>1 DEF Range
<1>5. e \in Range(p)
  BY <1>1, <1>2 DEF Range
<1>. QED
  BY <1>3, <1>4, <1>5 DEF Range, p

\* At most one of the events in q is one of A.
Once(q, A) == \A i, j \in DOMAIN q : q[i] \in A /\ q[j] \in A => i = j

\* Of the events in A, an agenda with one at most still has one at most.
LEMMA EnqueueOnce ==
    ASSUME NEW S, NEW q \in Seq(S), NEW e \in S, NEW A, Once(q, A),
           e \in A => Range(q) \cap A = {}
    PROVE  Once(Enqueue(q, e), A)
<1> DEFINE p == Enqueue(q, e)
           place == 1 + Cardinality({i \in DOMAIN q : q[i].at <= e.at})
           from(i) == IF i < place THEN i ELSE i - 1
<1>1. /\ place \in 1..(Len(q) + 1) /\ p \in Seq(S) /\ Len(p) = Len(q) + 1
      /\ \A i \in 1..(Len(q) + 1) :
           p[i] = IF i < place THEN q[i] ELSE IF i = place THEN e ELSE q[i - 1]
  BY EnqueueShifts
<1>2. DOMAIN p = 1..(Len(q) + 1) /\ DOMAIN q = 1..Len(q) /\ Len(q) \in Nat
  BY <1>1
<1> HIDE DEF p, place
<1>3. \A i \in DOMAIN p : i # place => from(i) \in DOMAIN q /\ p[i] = q[from(i)]
  BY <1>1, <1>2
<1>4. \A i, j \in DOMAIN p : i # place /\ j # place /\ from(i) = from(j) => i = j
  BY <1>1, <1>2
<1> HIDE DEF from
<1>5. \A i \in DOMAIN p : i # place => p[i] \in Range(q)
  BY <1>3 DEF Range
<1>6. SUFFICES ASSUME NEW i \in DOMAIN p, NEW j \in DOMAIN p, p[i] \in A, p[j] \in A
               PROVE  i = j
  BY DEF Once, p
<1>7. CASE i # place /\ j # place
  BY <1>3, <1>4, <1>6, <1>7 DEF Once
<1>8. CASE i = place \/ j = place
  <2>1. p[place] = e
    BY <1>1
  <2>. QED
    BY <1>5, <1>6, <1>8, <2>1
<1>. QED
  BY <1>7, <1>8

\* The events of q are in the order of their ticks.
InOrder(q) == \A i, j \in DOMAIN q : i < j => q[i].at <= q[j].at

(* In an agenda that is in order, the new event's place is behind those of *)
(* its tick or an earlier one, and before the rest.                        *)
LEMMA EnqueueInOrder ==
    ASSUME NEW S, \A s \in S : s.at \in Int,
           NEW q \in Seq(S), NEW e \in S, InOrder(q)
    PROVE  LET place == 1 + Cardinality({i \in DOMAIN q : q[i].at <= e.at})
           IN  /\ InOrder(Enqueue(q, e))
               /\ \A i \in DOMAIN q : IF i < place THEN q[i].at <= e.at
                                      ELSE q[i].at > e.at
<1> DEFINE early == {i \in DOMAIN q : q[i].at <= e.at}
           place == 1 + Cardinality(early)
           p == Enqueue(q, e)
<1>1. /\ place \in 1..(Len(q) + 1) /\ p \in Seq(S) /\ Len(p) = Len(q) + 1
      /\ \A i \in 1..(Len(q) + 1) :
           p[i] = IF i < place THEN q[i] ELSE IF i = place THEN e ELSE q[i - 1]
  BY EnqueueShifts
<1>2. DOMAIN p = 1..(Len(q) + 1) /\ DOMAIN q = 1..Len(q) /\ Len(q) \in Nat
  BY <1>1
<1>3. \A i \in DOMAIN q : q[i].at \in Int
  OBVIOUS
<1>4. e.at \in Int
  OBVIOUS
<1>5. PICK n \in 0..Len(q) : early = 1..n
  <2> DEFINE late == {i \in 1..(Len(q) + 1) : i \notin early}
  <2>1. late \in SUBSET Nat /\ Len(q) + 1 \in late
    BY <1>2
  <2>2. PICK m \in late : \A i \in late : m <= i
    BY <2>1, Least
  <2>3. m \in 1..(Len(q) + 1) /\ 1..(m - 1) \subseteq early
    <3>1. m \in 1..(Len(q) + 1)
      OBVIOUS
    <3>2. \A i \in 1..(m - 1) : i \in 1..(Len(q) + 1) /\ ~(m <= i)
      BY <3>1, <1>2
    <3> HIDE DEF early
    <3>. QED
      BY <3>1, <3>2, <2>2
  <2>4. \A i \in early : i <= m - 1
    <3> SUFFICES ASSUME NEW i \in early, i >= m PROVE FALSE
      BY <1>2, <2>3
    <3>1. i # m /\ m \in DOMAIN q /\ m \notin early
      BY <2>2, <2>3, <1>2
    <3>2. q[m].at <= q[i].at
      BY <3>1, <1>2 DEF InOrder
    <3>. QED
      BY <3>1, <3>2, <1>3, <1>4
  <2>5. early = 1..(m - 1)
    BY <2>3, <2>4, <1>2
  <2>. QED
    BY <2>3, <2>5, <1>2
<1>6. place = n + 1
  <2>1. Cardinality(1..n) = n
    BY FS_Interval
  <2> HIDE DEF early
  <2>. QED
    BY <2>1, <1>5
<1>7. \A i \in DOMAIN q : IF i < place THEN q[i].at <= e.at ELSE q[i].at > e.at
  BY <1>2, <1>3, <1>4, <1>5, <1>6
<1> HIDE DEF p, place, early
<1>8. ASSUME NEW i \in DOMAIN p, NEW j \in DOMAIN p, i < j PROVE p[i].at <= p[j].at
  <2>1. CASE i < place /\ j < place
    BY <2>1, <1>1, <1>2, <1>8 DEF InOrder
  <2>2. CASE i < place /\ j = place
    BY <2>2, <1>1, <1>2, <1>7
  <2>3. CASE i < place /\ j > place
    <3>1. i < j - 1 \/ i = j - 1
      BY <2>3, <1>1, <1>2
    <3>2. i \in DOMAIN q /\ j - 1 \in DOMAIN q /\ p[i] = q[i] /\ p[j] = q[j - 1]
      BY <2>3, <1>1, <1>2
    <3>. QED
      BY <3>1, <3>2, <1>3 DEF InOrder
  <2>4. CASE i = place
    <3>1. j - 1 \in DOMAIN q /\ j - 1 >= place /\ p[i] = e /\ p[j] = q[j - 1]
      BY <2>4, <1>1, <1>2, <1>8
    <3>. QED
      BY <3>1, <1>1, <1>2, <1>3, <1>4, <1>7
  <2>5. CASE i > place
    <3>1. /\ i - 1 \in DOMAIN q /\ j - 1 \in DOMAIN q /\ i - 1 < j - 1
          /\ p[i] = q[i - 1] /\ p[j] = q[j - 1]
      BY <2>5, <1>1, <1>2, <1>8
    <3>. QED
      BY <3>1 DEF InOrder
  <2>. QED
    BY <2>1, <2>2, <2>3, <2>4, <2>5, <1>1, <1>2
<1>. QED
  BY <1>7, <1>8 DEF InOrder, p, place, early

(* The agenda p is q with e at its place: behind all of its tick or an     *)
(* earlier one, and before all later ones.                                 *)
Inserted(q, p, e, place) ==
    /\ Len(q) \in Nat /\ place \in 1..(Len(q) + 1) /\ Len(p) = Len(q) + 1
    /\ \A i \in 1..(Len(q) + 1) :
         p[i] = IF i < place THEN q[i] ELSE IF i = place THEN e ELSE q[i - 1]
    /\ \A i \in 1..Len(q) : IF i < place THEN q[i].at <= e.at ELSE e.at < q[i].at

\* Enqueuing is such an insertion.
LEMMA EnqueueInserts ==
    ASSUME NEW S, \A s \in S : s.at \in Int, NEW q \in Seq(S), InOrder(q), NEW e \in S
    PROVE  \E place : Inserted(q, Enqueue(q, e), e, place)
<1> DEFINE place == 1 + Cardinality({i \in DOMAIN q : q[i].at <= e.at})
           p == Enqueue(q, e)
<1>1. /\ place \in 1..(Len(q) + 1) /\ p \in Seq(S) /\ Len(p) = Len(q) + 1
      /\ \A i \in 1..(Len(q) + 1) :
           p[i] = IF i < place THEN q[i] ELSE IF i = place THEN e ELSE q[i - 1]
  BY EnqueueShifts
<1>2. \A i \in DOMAIN q : IF i < place THEN q[i].at <= e.at ELSE q[i].at > e.at
  BY EnqueueInOrder
<1>3. DOMAIN q = 1..Len(q) /\ Len(q) \in Nat
  OBVIOUS
<1> HIDE DEF place, p
<1>4. ASSUME NEW i \in 1..Len(q)
      PROVE  IF i < place THEN q[i].at <= e.at ELSE e.at < q[i].at
  <2>1. q[i].at \in Int /\ e.at \in Int
    BY <1>3
  <2>. QED
    BY <1>2, <1>3, <2>1
<1>5. Inserted(q, p, e, place)
  BY <1>1, <1>3, <1>4 DEF Inserted
<1>. QED
  BY <1>5 DEF p

\* Where an event of an agenda is after an insertion.
Moved(i, place) == IF i < place THEN i ELSE i + 1

\* It is there, before the new event if it is due no later.
LEMMA MovedIs ==
    ASSUME NEW q, NEW p, NEW e, NEW place, Inserted(q, p, e, place), NEW i \in 1..Len(q)
    PROVE  /\ Moved(i, place) \in 1..Len(p)
           /\ p[Moved(i, place)] = q[i]
           /\ Moved(i, place) # place
           /\ i < place => q[i].at <= e.at
           /\ ~(i < place) => e.at < q[i].at
<1> DEFINE n == Len(q)
           j == Moved(i, place)
<1>1. /\ n \in Nat /\ place \in 1..(n + 1) /\ Len(p) = n + 1 /\ i \in 1..n
      /\ \A h \in 1..(n + 1) :
           p[h] = IF h < place THEN q[h] ELSE IF h = place THEN e ELSE q[h - 1]
      /\ \A h \in 1..n : IF h < place THEN q[h].at <= e.at ELSE e.at < q[h].at
  BY DEF Inserted
<1> HIDE DEF n
<1>3. IF i < place THEN q[i].at <= e.at ELSE e.at < q[i].at
  BY <1>1
<1>4. CASE i < place
  <2>1. j = i /\ i \in 1..(n + 1) /\ i # place
    BY <1>1, <1>4 DEF Moved
  <2>. QED
    BY <1>1, <1>3, <1>4, <2>1
<1>5. CASE ~(i < place)
  <2>1. /\ j = i + 1 /\ i + 1 \in 1..(n + 1) /\ i + 1 # place /\ (i + 1) - 1 = i
        /\ ~(i + 1 < place)
    BY <1>1, <1>5 DEF Moved
  <2>2. p[i + 1] = q[(i + 1) - 1]
    BY <1>1, <2>1
  <2>. QED
    BY <1>1, <1>3, <1>5, <2>1, <2>2
<1>. QED
  BY <1>4, <1>5

\* And an event that is there but the new one was in the agenda before.
LEMMA MovedFrom ==
    ASSUME NEW q, NEW p, NEW e, NEW place, Inserted(q, p, e, place),
           NEW j \in 1..Len(p), j # place
    PROVE  \E i \in 1..Len(q) : j = Moved(i, place)
<1> DEFINE n == Len(q)
<1>1. n \in Nat /\ place \in 1..(n + 1) /\ Len(p) = n + 1
  BY DEF Inserted
<1> HIDE DEF n
<1>2. CASE j < place
  <2>1. j \in 1..n /\ j = Moved(j, place)
    BY <1>1, <1>2 DEF Moved
  <2>. QED
    BY <2>1 DEF n
<1>3. CASE j > place
  <2>1. j - 1 \in 1..n /\ j = Moved(j - 1, place)
    BY <1>1, <1>3 DEF Moved
  <2>. QED
    BY <2>1 DEF n
<1>. QED
  BY <1>1, <1>2, <1>3

\* The new event is where it was put, and no two events change places.
LEMMA NewIs ==
    ASSUME NEW q, NEW p, NEW e, NEW place, Inserted(q, p, e, place)
    PROVE  /\ Len(q) \in Nat /\ Len(p) = Len(q) + 1
           /\ place \in 1..Len(p) /\ p[place] = e
BY DEF Inserted

\* The same of all events.
MovedOver(q, p, e, place) ==
    \A i \in 1..Len(q) :
        /\ Moved(i, place) \in 1..Len(p)
        /\ p[Moved(i, place)] = q[i]
        /\ (i < place => q[i].at <= e.at)
        /\ (~(i < place) => e.at < q[i].at)

\* It is so after an insertion.
LEMMA AllMoved ==
    ASSUME NEW q, NEW p, NEW e, NEW place, Inserted(q, p, e, place)
    PROVE  MovedOver(q, p, e, place)
<1> SUFFICES ASSUME NEW i \in 1..Len(q)
             PROVE  /\ Moved(i, place) \in 1..Len(p)
                    /\ p[Moved(i, place)] = q[i]
                    /\ (i < place => q[i].at <= e.at)
                    /\ (~(i < place) => e.at < q[i].at)
  BY DEF MovedOver
<1>1. Moved(i, place) \in 1..Len(p)
  BY MovedIs
<1>2. p[Moved(i, place)] = q[i]
  BY MovedIs
<1>3. i < place => q[i].at <= e.at
  BY MovedIs
<1>4. ~(i < place) => e.at < q[i].at
  BY MovedIs
<1>. QED
  BY <1>1, <1>2, <1>3, <1>4

\* Moving keeps positions in order.
LEMMA MovedInOrder ==
    ASSUME NEW i \in Nat, NEW j \in Nat, NEW place \in Nat
    PROVE  /\ i <= j => Moved(i, place) <= Moved(j, place)
           /\ (i < j <=> Moved(i, place) < Moved(j, place))
           /\ (Moved(i, place) < place <=> i < place)
           /\ ~(i < place) => Moved(i, place) = i + 1
BY DEF Moved

(* What can be followed through the single steps, from the agenda before   *)
(* to the one after the last event, is true of EnqueueAll.                 *)
LEMMA EnqueueAllByStep ==
    ASSUME NEW S, NEW q \in Seq(S), NEW es \in Seq(S),
           NEW K \in [0..Len(es) -> SUBSET Seq(S)], q \in K[0],
           \A i \in 1..Len(es) : \A p \in K[i - 1] : Enqueue(p, es[i]) \in K[i]
    PROVE  EnqueueAll(q, es) \in K[Len(es)]
<1> DEFINE n == Len(es)
           D == SUBSET Seq(S)
           Next(X, i) == {Enqueue(rest, es[i]) : rest \in X}
           Steps(f) == f = [i \in 0..Len(es) |->
                IF i = 0 THEN {q} ELSE {Enqueue(rest, es[i]) : rest \in f[i - 1]}]
           after == CHOOSE f : Steps(f)
           step == [i \in 1..n |-> [X \in D |-> Next(X, i)]]
           first == {q}
<1>1. n \in Nat /\ first \in D
  OBVIOUS
<1>2. step \in [1..n -> [D -> D]] /\ \A i \in 1..n : \A X \in D : step[i][X] = Next(X, i)
  <2>1. ASSUME NEW i \in 1..n, NEW p \in Seq(S) PROVE Enqueue(p, es[i]) \in Seq(S)
    <3>1. es[i] \in S
      OBVIOUS
    <3>. QED
      BY <3>1, EnqueueShifts
  <2>2. ASSUME NEW i \in 1..n, NEW X \in D PROVE Next(X, i) \in D
    BY <2>1
  <2> HIDE DEF Next, D
  <2>. QED
    BY <2>2
<1> HIDE DEF n, step, first, D
<1>3. PICK f : Recurs(f, n, D, first, step)
  BY <1>1, <1>2, Recursion
<1>4. \A i \in 0..n : f[i] = IF i = 0 THEN {q} ELSE Next(f[i - 1], i)
  <2> SUFFICES ASSUME NEW i \in 0..n
               PROVE  f[i] = IF i = 0 THEN {q} ELSE Next(f[i - 1], i)
    OBVIOUS
  <2> HIDE DEF Next
  <2>1. CASE i = 0
    BY <1>3, <2>1 DEF Recurs, first
  <2>2. CASE i # 0
    <3>1. i \in 1..n /\ i - 1 \in 0..n
      BY <1>1, <2>2
    <3>2. f[i - 1] \in D /\ f[i] = step[i][f[i - 1]]
      BY <1>3, <3>1 DEF Recurs
    <3>. QED
      BY <1>2, <2>2, <3>1, <3>2
  <2>. QED
    BY <2>1, <2>2
<1>5. f = [i \in 0..n |-> IF i = 0 THEN {q} ELSE Next(f[i - 1], i)]
  <2>1. f \in [0..n -> D]
    BY <1>3 DEF Recurs
  <2> HIDE DEF Next
  <2>. QED
    BY <1>4, <2>1
<1>6. Steps(f)
  BY <1>5 DEF n
<1>7. Steps(after)
  <2> HIDE DEF Steps
  <2>. QED
    BY <1>6
<1>8. EnqueueAll(q, es) = CHOOSE all \in after[n] : TRUE
  BY DEF EnqueueAll, n
<1>9. \A i \in 0..n : after[i] = IF i = 0 THEN {q} ELSE Next(after[i - 1], i)
  <2> HIDE DEF after
  <2>. QED
    BY <1>7 DEF n
<1> HIDE DEF after, Steps
<1> DEFINE T == {i \in Nat : i <= n => \E p \in K[i] : after[i] = {p}}
<1>10. 0 \in T
  <2>1. 0 \in 0..n
    BY <1>1
  <2>2. after[0] = {q}
    BY <1>9, <2>1
  <2>. QED
    BY <2>2
<1>11. ASSUME NEW k \in Nat, k \in T PROVE k + 1 \in T
  <2>1. SUFFICES ASSUME k + 1 <= n PROVE \E p \in K[k + 1] : after[k + 1] = {p}
    OBVIOUS
  <2>2. PICK p \in K[k] : after[k] = {p}
    BY <1>1, <1>11, <2>1
  <2> DEFINE i == k + 1
  <2>3. i \in 1..n /\ i \in 0..n /\ i # 0 /\ i - 1 = k
    BY <1>1, <2>1
  <2> HIDE DEF i
  <2>4. after[i] = Next({p}, i)
    BY <1>9, <2>2, <2>3
  <2>5. after[i] = {Enqueue(p, es[i])} /\ Enqueue(p, es[i]) \in K[i]
    BY <2>2, <2>3, <2>4 DEF n
  <2>. QED
    BY <2>5 DEF i
<1> HIDE DEF T
<1>12. n \in T
  BY <1>1, <1>10, <1>11, Ind
<1>13. PICK p \in K[n] : after[n] = {p}
  BY <1>1, <1>12 DEF T
<1>. QED
  BY <1>8, <1>13 DEF n

\* Sequences of S, one after the other, are a sequence of S.
LEMMA FlattenSeqType ==
    ASSUME NEW S, NEW ss \in Seq(Seq(S))
    PROVE  FlattenSeq(ss) \in Seq(S)
<1> DEFINE n == Len(ss)
           D == Seq(S)
           Flat(f) == f = [i \in 1..Len(ss) |->
                             IF i = 1 THEN ss[i] ELSE f[i - 1] \o ss[i]]
           flat == CHOOSE f : Flat(f)
           step == [i \in 1..(n - 1) |-> [x \in D |-> x \o ss[i + 1]]]
<1>1. /\ n \in Nat
      /\ \A i \in 1..n : ss[i] \in D
  OBVIOUS
<1>2. CASE n = 0
  BY <1>2 DEF FlattenSeq
<1>3. CASE n # 0
  <2>1. FlattenSeq(ss) = flat[n]
    BY <1>3 DEF FlattenSeq
  <2>2. step \in [1..(n - 1) -> [D -> D]] /\ ss[1] \in D
    <3>1. ASSUME NEW i \in 1..(n - 1), NEW x \in D PROVE x \o ss[i + 1] \in D
      <4>1. i + 1 \in 1..n
        BY <1>1
      <4>. QED
        BY <4>1, <1>1
    <3>. QED
      BY <3>1, <1>1, <1>3
  <2> HIDE DEF n, step, D
  <2>3. PICK f : Recurs(f, n - 1, D, ss[1], step)
    BY <1>1, <1>3, <2>2, Recursion
  <2> DEFINE h == [i \in 1..n |-> f[i - 1]]
  <2>4. Flat(h)
    <3>1. h[1] = ss[1]
      BY <2>3, <1>1, <1>3 DEF Recurs
    <3>2. ASSUME NEW i \in 1..n, i # 1 PROVE h[i] = h[i - 1] \o ss[i]
      <4>1. i - 1 \in 1..(n - 1) /\ (i - 1) - 1 \in 0..(n - 1) /\ (i - 1) + 1 = i
        BY <1>1, <3>2
      <4>2. f[(i - 1) - 1] \in D
        BY <4>1, <2>3 DEF Recurs
      <4>3. f[i - 1] = step[i - 1][f[(i - 1) - 1]]
        BY <4>1, <2>3 DEF Recurs
      <4>4. f[i - 1] = f[(i - 1) - 1] \o ss[i]
        BY <4>1, <4>2, <4>3 DEF step
      <4>5. h[i] = f[i - 1] /\ h[i - 1] = f[(i - 1) - 1]
        BY <4>1, <1>1
      <4>. QED
        BY <4>4, <4>5
    <3>. QED
      BY <3>1, <3>2 DEF n
  <2>5. Flat(flat)
    BY <2>4
  <2> HIDE DEF flat, h
  <2>6. /\ flat[1] = ss[1]
        /\ \A i \in 1..n : i # 1 => flat[i] = flat[i - 1] \o ss[i]
    <3>1. \A i \in 1..n : flat[i] = IF i = 1 THEN ss[i] ELSE flat[i - 1] \o ss[i]
      BY <2>5 DEF n
    <3>2. 1 \in 1..n
      BY <1>1, <1>3
    <3>. QED
      BY <3>1, <3>2, Zenon
  <2> DEFINE T == {i \in Nat : i + 1 <= n => flat[i + 1] \in D}
  <2>7. 0 \in T
    BY <2>6, <1>1
  <2>8. ASSUME NEW i \in Nat, i \in T PROVE i + 1 \in T
    <3>1. SUFFICES ASSUME (i + 1) + 1 <= n PROVE flat[(i + 1) + 1] \in D
      OBVIOUS
    <3>2. flat[i + 1] \in D /\ (i + 1) + 1 \in 1..n /\ (i + 1) + 1 # 1 /\ ((i + 1) + 1) - 1 = i + 1
      BY <1>1, <2>8, <3>1
    <3>3. flat[(i + 1) + 1] = flat[i + 1] \o ss[(i + 1) + 1] /\ ss[(i + 1) + 1] \in D
      BY <1>1, <2>6, <3>2
    <3>. QED
      BY <3>2, <3>3 DEF D
  <2> HIDE DEF T
  <2>9. Nat \subseteq T
    BY <2>7, <2>8, Ind
  <2>. QED
    BY <1>1, <1>3, <2>1, <2>9 DEF T, D
<1>. QED
  BY <1>1, <1>2, <1>3

\* The elements of a sequence are finitely many.
LEMMA ElementsAreFinite ==
    ASSUME NEW S, NEW s \in Seq(S)
    PROVE  IsFiniteSet(ToSet(s)) /\ ToSet(s) \subseteq S
<1>1. /\ Len(s) \in Nat /\ DOMAIN s = 1..Len(s) /\ \A i \in 1..Len(s) : s[i] \in S
      /\ ToSet(s) = {s[i] : i \in DOMAIN s}
  BY DEF ToSet
<1>2. s \in Surjection(1..Len(s), ToSet(s))
  <2>1. s \in [1..Len(s) -> ToSet(s)]
    BY <1>1
  <2>. QED
    BY <1>1, <2>1 DEF Surjection
<1>3. IsFiniteSet(1..Len(s))
  <2>1. 1 \in Int /\ Len(s) \in Int
    BY <1>1
  <2>. QED
    BY <2>1, FS_Interval
<1>. QED
  BY <1>1, <1>2, <1>3, FS_Surjection

-----------------------------------------------------------------------------
(* Routes.                                                                 *)

\* An element, as a sequence of one.
LEMMA OneElement ==
    ASSUME NEW S, NEW x \in S
    PROVE  <<x>> \in Seq(S) /\ Len(<<x>>) = 1 /\ <<x>>[1] = x
OBVIOUS

\* A function on 1..n is a sequence of length n.
LEMMA FunctionIsSequence ==
    ASSUME NEW S, NEW n \in Nat, NEW m \in [1..n -> S]
    PROVE  m \in Seq(S) /\ Len(m) = n
OBVIOUS

\* What is left of a sequence from its j-th element on.
LEMMA RestOfASequence ==
    ASSUME NEW S, NEW s \in Seq(S), NEW j \in 1..Len(s)
    PROVE  /\ SubSeq(s, j, Len(s)) \in Seq(S)
           /\ Len(SubSeq(s, j, Len(s))) = Len(s) - j + 1
           /\ \A i \in 1..(Len(s) - j + 1) : SubSeq(s, j, Len(s))[i] = s[j + i - 1]
OBVIOUS

\* A sequence of nodes from start to goal that visits none twice.
IsPath(G, start, goal, p) ==
    /\ p \in Seq(G.nodes) /\ p # <<>>
    /\ p[1] = start /\ p[Len(p)] = goal
    /\ \A i, j \in 1..Len(p) : p[i] = p[j] => i = j

\* What Paths enumerates are sequences that visit no node twice.
LEMMA PathsAreShort ==
    ASSUME NEW G, IsGraph(G), NEW start \in G.nodes, NEW goal \in G.nodes,
           NEW p \in Paths(G, start, goal)
    PROVE  IsPath(G, start, goal, p)
<1>1. CASE start = goal
  <2>1. p = <<start>>
    BY <1>1 DEF Paths
  <2>. QED
    BY <1>1, <2>1 DEF IsPath
<1>2. CASE start # goal
  <2>1. PICK m \in Middles(G, start, goal) :
          /\ \A i, j \in DOMAIN m : m[i] = m[j] => i = j
          /\ p = <<start>> \o m \o <<goal>>
    BY <1>2 DEF Paths
  <2>2. PICK n \in 0..Cardinality(G.nodes \ {start, goal}) :
          m \in [1..n -> G.nodes \ {start, goal}]
    BY DEF Middles
  <2>3. n \in Nat
    <3>1. Cardinality(G.nodes \ {start, goal}) \in Nat
      BY FS_Difference, FS_CardinalityType DEF IsGraph
    <3>. QED
      BY <3>1
  <2>4. /\ m \in Seq(G.nodes) /\ Len(m) = n
        /\ \A i \in 1..n : m[i] \notin {start, goal}
    BY <2>2, <2>3
  <2>5. /\ p \in Seq(G.nodes) /\ Len(p) = n + 2
        /\ p[1] = start /\ p[n + 2] = goal
        /\ \A i \in 1..n : p[i + 1] = m[i]
    <3> DEFINE front == <<start>> \o m
    <3>1. /\ front \in Seq(G.nodes) /\ Len(front) = n + 1
          /\ front[1] = start
          /\ \A i \in 1..n : front[i + 1] = m[i]
      <4>1. /\ <<start>> \in Seq(G.nodes) /\ Len(<<start>>) = 1 /\ <<start>>[1] = start
        BY OneElement
      <4>. QED
        BY <4>1, <2>3, <2>4, ConcatProperties
    <3>2. /\ <<goal>> \in Seq(G.nodes) /\ Len(<<goal>>) = 1 /\ <<goal>>[1] = goal
      BY OneElement
    <3>3. p = front \o <<goal>>
      BY <2>1
    <3> HIDE DEF front
    <3>. QED
      BY <3>1, <3>2, <3>3, <2>3, ConcatProperties
  <2>6. ASSUME NEW i \in 1..Len(p), NEW j \in 1..Len(p), p[i] = p[j] PROVE i = j
    <3>1. \A k \in 1..Len(p) : k = 1 \/ k = n + 2 \/ (k - 1 \in 1..n /\ p[k] = m[k - 1])
      <4> SUFFICES ASSUME NEW k \in 1..Len(p), k # 1, k # n + 2
                   PROVE  k - 1 \in 1..n /\ p[k] = m[k - 1]
        OBVIOUS
      <4>1. k - 1 \in 1..n /\ (k - 1) + 1 = k
        BY <2>3, <2>5
      <4>. QED
        BY <4>1, <2>5
    <3>2. (i = 1 \/ i = n + 2) /\ (j = 1 \/ j = n + 2) => i = j
      BY <1>2, <2>3, <2>5, <2>6
    <3>3. (i = 1 \/ i = n + 2) => (j = 1 \/ j = n + 2)
      BY <3>1, <2>4, <2>5, <2>6
    <3>4. (j = 1 \/ j = n + 2) => (i = 1 \/ i = n + 2)
      BY <3>1, <2>4, <2>5, <2>6
    <3>5. i - 1 \in 1..n /\ j - 1 \in 1..n /\ p[i] = m[i - 1] /\ p[j] = m[j - 1] => i = j
      <4> SUFFICES ASSUME i - 1 \in 1..n, j - 1 \in 1..n,
                          p[i] = m[i - 1], p[j] = m[j - 1]
                   PROVE  i = j
        OBVIOUS
      <4>1. i - 1 \in DOMAIN m /\ j - 1 \in DOMAIN m /\ m[i - 1] = m[j - 1]
        BY <2>2, <2>6
      <4>2. i - 1 = j - 1
        BY <2>1, <4>1
      <4>. QED
        BY <4>2, <2>3
    <3>. QED
      BY <3>1, <3>2, <3>3, <3>4, <3>5
  <2>7. p # <<>> /\ p[Len(p)] = goal
    BY <2>3, <2>5
  <2>. QED
    BY <2>5, <2>6, <2>7 DEF IsPath
<1>. QED
  BY <1>1, <1>2

\* Paths leaves none of them out: its bound on their length excludes none.
LEMMA PathsAreAll ==
    ASSUME NEW G, IsGraph(G), NEW start \in G.nodes, NEW goal \in G.nodes,
           NEW p, IsPath(G, start, goal, p)
    PROVE  p \in Paths(G, start, goal)
<1>1. /\ p \in Seq(G.nodes) /\ Len(p) \in Nat /\ Len(p) >= 1
      /\ p[1] = start /\ p[Len(p)] = goal
      /\ \A i \in 1..Len(p) : p[i] \in G.nodes
      /\ \A i, j \in 1..Len(p) : p[i] = p[j] => i = j
  BY DEF IsPath
<1>2. CASE start = goal
  <2>1. Len(p) = 1
    <3>1. 1 \in 1..Len(p) /\ Len(p) \in 1..Len(p) /\ p[1] = p[Len(p)]
      BY <1>1, <1>2
    <3>. QED
      BY <1>1, <3>1
  <2>2. p = <<start>>
    BY <1>1, <2>1
  <2>. QED
    BY <1>2, <2>2 DEF Paths
<1>3. CASE start # goal
  <2> DEFINE n == Len(p) - 2
             M == G.nodes \ {start, goal}
             m == [i \in 1..n |-> p[i + 1]]
  <2>1. n \in Nat
    BY <1>1, <1>3
  <2>2. /\ m \in [1..n -> M]
        /\ \A i, j \in 1..n : m[i] = m[j] => i = j
    <3>1. ASSUME NEW i \in 1..n PROVE p[i + 1] \in M
      <4>1. i + 1 \in 1..Len(p) /\ i + 1 # 1 /\ i + 1 # Len(p)
        BY <1>1
      <4>2. p[i + 1] # p[1] /\ p[i + 1] # p[Len(p)]
        BY <1>1, <4>1
      <4>. QED
        BY <1>1, <4>1, <4>2
    <3>2. ASSUME NEW i \in 1..n, NEW j \in 1..n, p[i + 1] = p[j + 1] PROVE i = j
      <4>1. i + 1 \in 1..Len(p) /\ j + 1 \in 1..Len(p)
        BY <1>1
      <4>2. i + 1 = j + 1
        BY <1>1, <4>1, <3>2
      <4>. QED
        BY <4>2
    <3>. QED
      BY <3>1, <3>2
  <2>3. n <= Cardinality(M)
    <3>1. IsFiniteSet(M)
      BY FS_Difference DEF IsGraph
    <3>2. m \in Injection(1..n, M)
      BY <2>2 DEF Injection, IsInjective
    <3> HIDE DEF M, m, n
    <3>3. Cardinality(1..n) <= Cardinality(M)
      BY <3>1, <3>2, FS_Injection
    <3>4. Cardinality(1..n) = n
      <4>1. 1 \in Int /\ n \in Int
        BY <2>1
      <4>. QED
        BY <2>1, <4>1, FS_Interval
    <3>. QED
      BY <3>3, <3>4
  <2>4. m \in Middles(G, start, goal)
    <3>1. Cardinality(M) \in Nat
      BY FS_Difference, FS_CardinalityType DEF IsGraph
    <3>2. n \in 0..Cardinality(M)
      BY <2>1, <2>3, <3>1
    <3>3. m \in [1..n -> G.nodes \ {start, goal}]
      BY <2>2
    <3> HIDE DEF m, n
    <3>. QED
      BY <3>2, <3>3 DEF Middles
  <2>5. p = <<start>> \o m \o <<goal>>
    <3> DEFINE front == <<start>> \o m
    <3>1. m \in Seq(G.nodes) /\ Len(m) = n
      <4>1. m \in [1..n -> G.nodes]
        BY <2>2
      <4> HIDE DEF m, n
      <4>. QED
        BY <2>1, <4>1, FunctionIsSequence
    <3>2. /\ front \in Seq(G.nodes) /\ Len(front) = n + 1
          /\ front[1] = start
          /\ \A i \in 1..n : front[i + 1] = m[i]
      <4>1. /\ <<start>> \in Seq(G.nodes) /\ Len(<<start>>) = 1 /\ <<start>>[1] = start
        BY OneElement
      <4> HIDE DEF m, n
      <4>. QED
        BY <4>1, <2>1, <3>1, ConcatProperties
    <3>3. /\ <<goal>> \in Seq(G.nodes) /\ Len(<<goal>>) = 1 /\ <<goal>>[1] = goal
      BY OneElement
    <3> DEFINE whole == front \o <<goal>>
    <3> HIDE DEF front
    <3>4. /\ whole \in Seq(G.nodes) /\ Len(whole) = n + 2
          /\ whole[n + 2] = goal
          /\ \A i \in 1..(n + 1) : whole[i] = front[i]
      <4> HIDE DEF n
      <4>. QED
        BY <3>2, <3>3, <2>1, ConcatProperties
    <3>5. ASSUME NEW i \in 1..Len(p) PROVE p[i] = whole[i]
      <4>1. CASE i = 1
        BY <4>1, <1>1, <2>1, <3>2, <3>4
      <4>2. CASE i = Len(p)
        BY <4>2, <1>1, <3>4
      <4>3. CASE i # 1 /\ i # Len(p)
        <5>1. i - 1 \in 1..n /\ (i - 1) + 1 = i /\ i \in 1..(n + 1)
          BY <4>3, <1>1
        <5>2. m[i - 1] = p[(i - 1) + 1]
          BY <5>1
        <5> HIDE DEF m, n, whole
        <5>3. whole[i] = front[i] /\ front[i] = m[i - 1]
          BY <5>1, <3>2, <3>4
        <5>. QED
          BY <5>1, <5>2, <5>3
      <4>. QED
        BY <4>1, <4>2, <4>3
    <3>6. Len(p) = Len(whole)
      BY <1>1, <3>4
    <3> HIDE DEF whole
    <3>7. p = whole
      BY <1>1, <3>4, <3>5, <3>6, SeqEqual
    <3>. QED
      BY <3>7 DEF whole, front
  <2> HIDE DEF m
  <2>. QED
    BY <1>3, <2>2, <2>4, <2>5 DEF Paths
<1>. QED
  BY <1>2, <1>3

IsWalk(G, blocked, start, goal, p) ==
    /\ IsPath(G, start, goal, p)
    /\ \A i \in 1..(Len(p) - 1) : IsHop(G, blocked, p[i], p[i + 1])

\* Walks enumerates exactly the paths a robot may drive.
LEMMA WalksAreWalks ==
    ASSUME NEW G, IsGraph(G), NEW blocked, NEW start \in G.nodes, NEW goal \in G.nodes
    PROVE  \A p : p \in Walks(G, blocked, start, goal) <=> IsWalk(G, blocked, start, goal, p)
BY PathsAreShort, PathsAreAll DEF Walks, IsWalk

\* The edge of a hop is the only one between its nodes.
LEMMA HopHasItsEdge ==
    ASSUME NEW G, IsGraph(G), NEW blocked, NEW u, NEW v, IsHop(G, blocked, u, v)
    PROVE  LET e == EdgeBetween(G, u, v)
           IN  /\ e \in EdgeIds(G) /\ Ends(G, e) = {u, v}
               /\ TraversableFrom(G, blocked, e, u)
               /\ G.cost[e] \in Nat \ {0}
<1>1. PICK e \in EdgeIds(G) : Ends(G, e) = {u, v} /\ TraversableFrom(G, blocked, e, u)
  BY DEF IsHop
<1>2. EdgeBetween(G, u, v) \in EdgeIds(G) /\ Ends(G, EdgeBetween(G, u, v)) = {u, v}
  BY <1>1 DEF EdgeBetween
<1>3. EdgeBetween(G, u, v) = e
  BY <1>1, <1>2 DEF IsGraph
<1>. QED
  BY <1>1, <1>3 DEF IsGraph

\* What the k-th hop of p costs.
Leg(G, p, k) == G.cost[EdgeBetween(G, p[k], p[k + 1])]

\* The sum that CostTo is, leg by leg.
LEMMA CostToSums ==
    ASSUME NEW G, NEW p, NEW n \in Nat \ {0},
           \A k \in 1..(n - 1) : Leg(G, p, k) \in Nat
    PROVE  /\ CostTo(G, p, 1) = 0
           /\ \A k \in 1..n : CostTo(G, p, k) \in Nat
           /\ \A k \in 1..(n - 1) : CostTo(G, p, k + 1) = CostTo(G, p, k) + Leg(G, p, k)
<1> DEFINE step == [k \in 1..(n - 1) |-> [x \in Nat |-> x + Leg(G, p, k)]]
<1>1. PICK f : Recurs(f, n - 1, Nat, 0, step)
  <2>1. step \in [1..(n - 1) -> [Nat -> Nat]]
    <3>1. \A k \in 1..(n - 1), x \in Nat : x + Leg(G, p, k) \in Nat
      OBVIOUS
    <3>. QED
      BY <3>1
  <2> DEFINE D == Nat
             m == n - 1
  <2>2. m \in Nat /\ 0 \in D /\ step \in [1..m -> [D -> D]]
    BY <2>1
  <2> HIDE DEF step, D, m
  <2>3. \E f : Recurs(f, m, D, 0, step)
    BY <2>2, Recursion
  <2>. QED
    BY <2>3 DEF D, m
<1>2. /\ f[0] = 0
      /\ \A k \in 0..(n - 1) : f[k] \in Nat
      /\ \A k \in 1..(n - 1) : f[k] = f[k - 1] + Leg(G, p, k)
  <2>1. f[0] = 0 /\ \A k \in 0..(n - 1) : f[k] \in Nat
    BY <1>1 DEF Recurs
  <2>2. ASSUME NEW k \in 1..(n - 1) PROVE f[k] = f[k - 1] + Leg(G, p, k)
    <3>1. f[k] = step[k][f[k - 1]]
      BY <1>1 DEF Recurs
    <3>2. k - 1 \in 0..(n - 1)
      OBVIOUS
    <3>. QED
      BY <2>1, <3>1, <3>2
  <2>. QED
    BY <2>1, <2>2
<1> HIDE DEF step
<1>3. ASSUME NEW i \in 1..n PROVE CostTo(G, p, i) = f[i - 1]
  <2> DEFINE Sum(u) == u = [k \in 1..i |->
                              IF k = 1 THEN 0
                              ELSE u[k - 1] + G.cost[EdgeBetween(G, p[k - 1], p[k])]]
             upto == CHOOSE u : Sum(u)
             h == [k \in 1..i |-> f[k - 1]]
  <2>1. CostTo(G, p, i) = upto[i]
    BY DEF CostTo
  <2>2. \A k \in 1..i : k # 1 =>
          /\ k - 1 \in 1..(n - 1) /\ k - 1 \in 1..i /\ (k - 1) + 1 = k
          /\ Leg(G, p, k - 1) = G.cost[EdgeBetween(G, p[k - 1], p[k])]
    <3> SUFFICES ASSUME NEW k \in 1..i, k # 1
                 PROVE  /\ k - 1 \in 1..(n - 1) /\ k - 1 \in 1..i /\ (k - 1) + 1 = k
                        /\ Leg(G, p, k - 1) = G.cost[EdgeBetween(G, p[k - 1], p[k])]
      OBVIOUS
    <3>1. k - 1 \in 1..(n - 1) /\ k - 1 \in 1..i /\ (k - 1) + 1 = k
      OBVIOUS
    <3>. QED
      BY <3>1 DEF Leg
  <2>3. Sum(h)
    <3>1. ASSUME NEW k \in 1..i, k # 1
          PROVE  h[k] = h[k - 1] + G.cost[EdgeBetween(G, p[k - 1], p[k])]
      <4>1. f[k - 1] = f[(k - 1) - 1] + Leg(G, p, k - 1)
        BY <1>2, <2>2, <3>1
      <4>2. h[k] = f[k - 1] /\ h[k - 1] = f[(k - 1) - 1]
        BY <2>2, <3>1
      <4>. QED
        BY <2>2, <3>1, <4>1, <4>2
    <3>2. h[1] = 0
      BY <1>2
    <3>. QED
      BY <3>1, <3>2
  <2>4. Sum(upto)
    BY <2>3
  <2> HIDE DEF upto
  <2>5. /\ upto[1] = 0
        /\ \A k \in 1..i : k # 1 => upto[k] = upto[k - 1] + Leg(G, p, k - 1)
    BY <2>2, <2>4
  <2> DEFINE T == {k \in Nat : k + 1 <= i => upto[k + 1] = f[k]}
  <2>6. 0 \in T
    BY <1>2, <2>5
  <2>7. ASSUME NEW k \in Nat, k \in T PROVE k + 1 \in T
    <3>1. SUFFICES ASSUME (k + 1) + 1 <= i PROVE upto[(k + 1) + 1] = f[k + 1]
      OBVIOUS
    <3>2. /\ (k + 1) + 1 \in 1..i /\ (k + 1) + 1 # 1 /\ ((k + 1) + 1) - 1 = k + 1
          /\ k + 1 \in 1..(n - 1) /\ (k + 1) - 1 = k
      BY <3>1
    <3>3. upto[(k + 1) + 1] = upto[k + 1] + Leg(G, p, k + 1)
      BY <2>5, <3>2
    <3>4. f[k + 1] = f[k] + Leg(G, p, k + 1)
      BY <1>2, <3>2
    <3>5. upto[k + 1] = f[k]
      BY <2>7, <3>1
    <3>. QED
      BY <3>3, <3>4, <3>5
  <2> HIDE DEF T
  <2>8. Nat \subseteq T
    BY <2>6, <2>7, Ind
  <2>9. i - 1 \in T
    BY <2>8
  <2>. QED
    BY <2>1, <2>9 DEF T
<1>4. CostTo(G, p, 1) = 0
  BY <1>2, <1>3
<1>5. \A k \in 1..n : CostTo(G, p, k) \in Nat
  BY <1>2, <1>3
<1>6. ASSUME NEW k \in 1..(n - 1)
      PROVE  CostTo(G, p, k + 1) = CostTo(G, p, k) + Leg(G, p, k)
  <2>1. k + 1 \in 1..n /\ k \in 1..n /\ (k + 1) - 1 = k
    OBVIOUS
  <2>2. CostTo(G, p, k + 1) = f[k] /\ CostTo(G, p, k) = f[k - 1]
    BY <1>3, <2>1
  <2>. QED
    BY <1>2, <2>2
<1>. QED
  BY <1>4, <1>5, <1>6

\* The legs of a walk, and so the way along it, cost something.
LEMMA WalkCosts ==
    ASSUME NEW G, IsGraph(G), NEW blocked, NEW start, NEW goal,
           NEW p, IsWalk(G, blocked, start, goal, p)
    PROVE  /\ Len(p) \in Nat \ {0}
           /\ CostTo(G, p, 1) = 0
           /\ \A k \in 1..Len(p) : CostTo(G, p, k) \in Nat
           /\ \A k \in 1..(Len(p) - 1) :
                /\ Leg(G, p, k) \in Nat \ {0}
                /\ CostTo(G, p, k + 1) = CostTo(G, p, k) + Leg(G, p, k)
           /\ Cost(G, p) \in Nat
<1>1. Len(p) \in Nat \ {0}
  BY DEF IsWalk, IsPath
<1>2. \A k \in 1..(Len(p) - 1) : Leg(G, p, k) \in Nat \ {0}
  BY HopHasItsEdge DEF IsWalk, Leg
<1>3. /\ CostTo(G, p, 1) = 0
      /\ \A k \in 1..Len(p) : CostTo(G, p, k) \in Nat
      /\ \A k \in 1..(Len(p) - 1) : CostTo(G, p, k + 1) = CostTo(G, p, k) + Leg(G, p, k)
  BY <1>1, <1>2, CostToSums
<1>. QED
  BY <1>1, <1>2, <1>3 DEF Cost

\* What is left of a walk at its j-th node is a walk, and its cost the rest.
LEMMA RestOfAWalk ==
    ASSUME NEW G, IsGraph(G), NEW blocked, NEW start, NEW goal,
           NEW p, IsWalk(G, blocked, start, goal, p), NEW j \in 1..Len(p)
    PROVE  LET rest == SubSeq(p, j, Len(p))
           IN  /\ IsWalk(G, blocked, p[j], goal, rest)
               /\ Len(rest) = Len(p) - j + 1
               /\ \A i \in 1..Len(rest) :
                    /\ rest[i] = p[j - 1 + i]
                    /\ CostTo(G, p, j - 1 + i) = CostTo(G, p, j) + CostTo(G, rest, i)
<1> DEFINE r == SubSeq(p, j, Len(p))
<1>1. /\ Len(p) \in Nat \ {0} /\ p \in Seq(G.nodes)
      /\ p[Len(p)] = goal
      /\ \A i \in 1..Len(p) : p[i] \in G.nodes
      /\ \A i, k \in 1..Len(p) : p[i] = p[k] => i = k
      /\ \A i \in 1..(Len(p) - 1) : IsHop(G, blocked, p[i], p[i + 1])
  BY DEF IsWalk, IsPath
<1>2. /\ r \in Seq(G.nodes) /\ Len(r) = Len(p) - j + 1
      /\ \A i \in 1..Len(r) : r[i] = p[j - 1 + i]
  <2>1. /\ r \in Seq(G.nodes) /\ Len(r) = Len(p) - j + 1
        /\ \A i \in 1..(Len(p) - j + 1) : r[i] = p[j + i - 1]
    BY <1>1, RestOfASequence
  <2> HIDE DEF r
  <2>2. ASSUME NEW i \in 1..Len(r) PROVE r[i] = p[j - 1 + i]
    <3>1. j + i - 1 = j - 1 + i
      BY <2>1
    <3>. QED
      BY <2>1, <3>1
  <2>. QED
    BY <2>1, <2>2
<1> HIDE DEF r
<1>3. IsWalk(G, blocked, p[j], goal, r)
  <2>1. r # <<>> /\ Len(r) \in Nat
    BY <1>1, <1>2
  <2>2. r[1] = p[j] /\ r[Len(r)] = goal
    <3>1. 1 \in 1..Len(r) /\ Len(r) \in 1..Len(r) /\ j - 1 + 1 = j /\ j - 1 + Len(r) = Len(p)
      BY <1>1, <1>2
    <3>2. r[1] = p[j - 1 + 1] /\ r[Len(r)] = p[j - 1 + Len(r)]
      BY <1>2, <3>1
    <3>. QED
      BY <1>1, <3>1, <3>2
  <2>3. ASSUME NEW i \in 1..Len(r), NEW k \in 1..Len(r), r[i] = r[k] PROVE i = k
    <3>1. j - 1 + i \in 1..Len(p) /\ j - 1 + k \in 1..Len(p)
      BY <1>1, <1>2
    <3>2. p[j - 1 + i] = p[j - 1 + k]
      BY <1>2, <2>3
    <3>3. j - 1 + i = j - 1 + k
      BY <1>1, <3>1, <3>2
    <3>. QED
      BY <3>3
  <2>4. ASSUME NEW i \in 1..(Len(r) - 1) PROVE IsHop(G, blocked, r[i], r[i + 1])
    <3>1. /\ i \in 1..Len(r) /\ i + 1 \in 1..Len(r)
          /\ j - 1 + i \in 1..(Len(p) - 1) /\ j - 1 + (i + 1) = (j - 1 + i) + 1
      BY <1>1, <1>2
    <3>2. r[i] = p[j - 1 + i] /\ r[i + 1] = p[(j - 1 + i) + 1]
      BY <1>2, <3>1
    <3>3. IsHop(G, blocked, p[j - 1 + i], p[(j - 1 + i) + 1])
      BY <1>1, <3>1
    <3>. QED
      BY <3>2, <3>3
  <2>. QED
    BY <1>2, <2>1, <2>2, <2>3, <2>4 DEF IsWalk, IsPath
<1>4. /\ \A k \in 1..Len(p) : CostTo(G, p, k) \in Nat
      /\ \A k \in 1..(Len(p) - 1) :
           /\ Leg(G, p, k) \in Nat \ {0}
           /\ CostTo(G, p, k + 1) = CostTo(G, p, k) + Leg(G, p, k)
  BY WalkCosts
<1>5. /\ CostTo(G, r, 1) = 0
      /\ \A k \in 1..Len(r) : CostTo(G, r, k) \in Nat
      /\ \A k \in 1..(Len(r) - 1) : CostTo(G, r, k + 1) = CostTo(G, r, k) + Leg(G, r, k)
  BY <1>3, WalkCosts
<1> DEFINE T == {i \in Nat : i + 1 <= Len(r) =>
                   CostTo(G, p, j - 1 + (i + 1)) = CostTo(G, p, j) + CostTo(G, r, i + 1)}
<1>6. 0 \in T
  <2>1. j - 1 + (0 + 1) = j /\ 0 + 1 = 1
    BY <1>1
  <2>. QED
    BY <1>1, <1>4, <1>5, <2>1
<1>7. ASSUME NEW i \in Nat, i \in T PROVE i + 1 \in T
  <2>1. SUFFICES ASSUME (i + 1) + 1 <= Len(r)
                 PROVE  CostTo(G, p, j - 1 + ((i + 1) + 1)) =
                           CostTo(G, p, j) + CostTo(G, r, (i + 1) + 1)
    OBVIOUS
  <2> DEFINE a == j - 1 + (i + 1)
  <2>2. /\ i + 1 \in 1..(Len(r) - 1) /\ i + 1 \in 1..Len(r) /\ (i + 1) + 1 \in 1..Len(r)
        /\ a \in 1..(Len(p) - 1) /\ a + 1 = j - 1 + ((i + 1) + 1) /\ a \in 1..Len(p)
    BY <1>1, <1>2, <2>1
  <2>3. Leg(G, r, i + 1) = Leg(G, p, a)
    <3>1. r[i + 1] = p[a] /\ r[(i + 1) + 1] = p[a + 1]
      BY <1>2, <2>2
    <3>. QED
      BY <3>1 DEF Leg
  <2>4. CostTo(G, p, a) = CostTo(G, p, j) + CostTo(G, r, i + 1)
    BY <1>7, <2>1
  <2> HIDE DEF a
  <2>5. CostTo(G, p, a + 1) = CostTo(G, p, a) + Leg(G, p, a)
    BY <1>4, <2>2
  <2>6. CostTo(G, r, (i + 1) + 1) = CostTo(G, r, i + 1) + Leg(G, r, i + 1)
    BY <1>5, <2>2
  <2>7. CostTo(G, p, j) \in Nat /\ CostTo(G, r, i + 1) \in Nat /\ Leg(G, p, a) \in Nat
    BY <1>4, <1>5, <2>2
  <2>8. CostTo(G, p, a + 1) = CostTo(G, p, j) + CostTo(G, r, (i + 1) + 1)
    BY <2>3, <2>4, <2>5, <2>6, <2>7
  <2>. QED
    BY <2>2, <2>8
<1> HIDE DEF T
<1>8. Nat \subseteq T
  BY <1>6, <1>7, Ind
<1>9. ASSUME NEW i \in 1..Len(r)
      PROVE  CostTo(G, p, j - 1 + i) = CostTo(G, p, j) + CostTo(G, r, i)
  <2>1. i - 1 \in T /\ (i - 1) + 1 = i
    BY <1>8, <1>2
  <2>. QED
    BY <2>1, <1>2 DEF T
<1>. QED
  BY <1>2, <1>3, <1>9 DEF r

(* Two walks of the same cost, equal from the goal back to some node, are  *)
(* as far from the start there.                                            *)
LEMMA EqualFromTheGoal ==
    ASSUME NEW G, IsGraph(G), NEW blocked, NEW start, NEW goal,
           NEW p, IsWalk(G, blocked, start, goal, p),
           NEW q, IsWalk(G, blocked, start, goal, q),
           Cost(G, p) = Cost(G, q),
           NEW k \in Nat, k < Len(p), k < Len(q),
           \A i \in 0..k : p[Len(p) - i] = q[Len(q) - i]
    PROVE  CostTo(G, p, Len(p) - k) = CostTo(G, q, Len(q) - k)
<1> DEFINE T == {i \in Nat : i <= k =>
                   CostTo(G, p, Len(p) - i) = CostTo(G, q, Len(q) - i)}
<1>1. /\ Len(p) \in Nat \ {0} /\ Len(q) \in Nat \ {0}
      /\ \A i \in 1..Len(p) : CostTo(G, p, i) \in Nat
      /\ \A i \in 1..Len(q) : CostTo(G, q, i) \in Nat
      /\ \A i \in 1..(Len(p) - 1) : /\ Leg(G, p, i) \in Nat
                                    /\ CostTo(G, p, i + 1) = CostTo(G, p, i) + Leg(G, p, i)
      /\ \A i \in 1..(Len(q) - 1) : /\ Leg(G, q, i) \in Nat
                                    /\ CostTo(G, q, i + 1) = CostTo(G, q, i) + Leg(G, q, i)
  BY WalkCosts
<1>2. 0 \in T
  BY <1>1 DEF Cost
<1>3. ASSUME NEW i \in Nat, i \in T PROVE i + 1 \in T
  <2>1. SUFFICES ASSUME i + 1 <= k
                 PROVE  CostTo(G, p, Len(p) - (i + 1)) = CostTo(G, q, Len(q) - (i + 1))
    OBVIOUS
  <2> DEFINE a == Len(p) - (i + 1)
             b == Len(q) - (i + 1)
  <2>2. /\ a \in 1..(Len(p) - 1) /\ a \in 1..Len(p) /\ a + 1 = Len(p) - i
        /\ b \in 1..(Len(q) - 1) /\ b \in 1..Len(q) /\ b + 1 = Len(q) - i
        /\ i \in 0..k /\ i + 1 \in 0..k
    BY <1>1, <2>1
  <2>3. p[a] = q[b] /\ p[a + 1] = q[b + 1]
    <3>1. p[Len(p) - (i + 1)] = q[Len(q) - (i + 1)] /\ p[Len(p) - i] = q[Len(q) - i]
      BY <2>2
    <3>2. p[a] = q[b]
      BY <3>1
    <3> HIDE DEF a, b
    <3>. QED
      BY <2>2, <3>1, <3>2
  <2>4. Leg(G, p, a) = Leg(G, q, b)
    BY <2>3 DEF Leg
  <2>5. CostTo(G, p, Len(p) - i) = CostTo(G, q, Len(q) - i)
    BY <1>3, <2>1
  <2> HIDE DEF a, b
  <2>6. CostTo(G, p, a) = CostTo(G, q, b)
    <3>1. CostTo(G, p, a + 1) = CostTo(G, q, b + 1)
      BY <2>2, <2>5
    <3>2. /\ CostTo(G, p, a + 1) = CostTo(G, p, a) + Leg(G, p, a)
          /\ CostTo(G, q, b + 1) = CostTo(G, q, b) + Leg(G, q, b)
      BY <1>1, <2>2
    <3>3. /\ CostTo(G, p, a) \in Nat /\ Leg(G, p, a) \in Nat
          /\ CostTo(G, q, b) \in Nat /\ Leg(G, q, b) \in Nat
      BY <1>1, <2>2
    <3>. QED
      BY <2>4, <3>1, <3>2, <3>3
  <2>. QED
    BY <2>6 DEF a, b
<1> HIDE DEF T
<1>4. k \in T
  BY <1>2, <1>3, Ind
<1>. QED
  BY <1>4 DEF T

\* Seen from the goal, p and q first differ at their k-th node back.
Part(p, q, k) ==
    /\ k \in 1..(Len(p) - 1) /\ k < Len(q)
    /\ \A i \in 0..(k - 1) : p[Len(p) - i] = q[Len(q) - i]
    /\ p[Len(p) - k] # q[Len(q) - k]

\* The node there that is settled first is p's.
Ahead(G, p, q, k) ==
    \/ CostTo(G, p, Len(p) - k) < CostTo(G, q, Len(q) - k)
    \/ /\ CostTo(G, p, Len(p) - k) = CostTo(G, q, Len(q) - k)
       /\ p[Len(p) - k] < q[Len(q) - k]

\* Two paths between the same nodes part somewhere, seen from the goal.
LEMMA DifferentPathsPart ==
    ASSUME NEW G, NEW start, NEW goal, NEW p, IsPath(G, start, goal, p),
           NEW q, IsPath(G, start, goal, q), p # q
    PROVE  \E k \in Nat : Part(p, q, k)
<1>1. /\ Len(p) \in Nat \ {0} /\ Len(q) \in Nat \ {0}
      /\ p \in Seq(G.nodes) /\ q \in Seq(G.nodes)
      /\ p[1] = start /\ q[1] = start /\ p[Len(p)] = goal /\ q[Len(q)] = goal
      /\ \A i, j \in 1..Len(p) : p[i] = p[j] => i = j
      /\ \A i, j \in 1..Len(q) : q[i] = q[j] => i = j
  BY DEF IsPath
<1> DEFINE S == {k \in Nat : k < Len(p) /\ k < Len(q) /\ p[Len(p) - k] # q[Len(q) - k]}
<1>2. S # {}
  <2> SUFFICES ASSUME \A k \in Nat : k < Len(p) /\ k < Len(q) =>
                        p[Len(p) - k] = q[Len(q) - k]
               PROVE  FALSE
    OBVIOUS
  <2>1. Len(p) <= Len(q) => Len(p) = Len(q)
    <3> SUFFICES ASSUME Len(p) <= Len(q) PROVE Len(p) = Len(q)
      OBVIOUS
    <3>1. p[Len(p) - (Len(p) - 1)] = q[Len(q) - (Len(p) - 1)]
      BY <1>1
    <3>2. Len(p) - (Len(p) - 1) = 1 /\ Len(q) - (Len(p) - 1) \in 1..Len(q)
      BY <1>1
    <3>3. 1 = Len(q) - (Len(p) - 1)
      BY <1>1, <3>1, <3>2
    <3>. QED
      BY <1>1, <3>3
  <2>2. Len(q) <= Len(p) => Len(p) = Len(q)
    <3> SUFFICES ASSUME Len(q) <= Len(p) PROVE Len(p) = Len(q)
      OBVIOUS
    <3>1. p[Len(p) - (Len(q) - 1)] = q[Len(q) - (Len(q) - 1)]
      <4>1. Len(q) - 1 \in Nat /\ Len(q) - 1 < Len(p) /\ Len(q) - 1 < Len(q)
        BY <1>1
      <4>. QED
        BY <4>1
    <3>2. Len(q) - (Len(q) - 1) = 1 /\ Len(p) - (Len(q) - 1) \in 1..Len(p)
      BY <1>1
    <3>3. 1 = Len(p) - (Len(q) - 1)
      BY <1>1, <3>1, <3>2
    <3>. QED
      BY <1>1, <3>3
  <2>3. Len(p) = Len(q)
    BY <1>1, <2>1, <2>2
  <2>4. ASSUME NEW i \in 1..Len(p) PROVE p[i] = q[i]
    <3>1. /\ Len(p) - i \in Nat /\ Len(p) - i < Len(p)
          /\ Len(p) - (Len(p) - i) = i /\ Len(q) - (Len(p) - i) = i
      BY <1>1, <2>3
    <3>2. p[Len(p) - (Len(p) - i)] = q[Len(q) - (Len(p) - i)]
      BY <2>3, <3>1
    <3>. QED
      BY <3>1, <3>2
  <2>5. p = q
    BY <1>1, <2>3, <2>4, SeqEqual
  <2>. QED
    BY <2>5
<1>3. PICK k \in S : \A i \in S : k <= i
  <2>1. S \in SUBSET Nat
    OBVIOUS
  <2> HIDE DEF S
  <2>. QED
    BY <1>2, <2>1, Least
<1>4. k \in Nat /\ k < Len(p) /\ k < Len(q) /\ p[Len(p) - k] # q[Len(q) - k]
  OBVIOUS
<1>5. k # 0
  BY <1>1, <1>4
<1>6. ASSUME NEW i \in 0..(k - 1) PROVE p[Len(p) - i] = q[Len(q) - i]
  <2>1. i \in Nat /\ i < Len(p) /\ i < Len(q) /\ ~(k <= i)
    BY <1>1, <1>4
  <2>. QED
    BY <1>3, <2>1
<1>7. k \in 1..(Len(p) - 1)
  BY <1>1, <1>4, <1>5
<1> HIDE DEF S
<1>8. Part(p, q, k)
  BY <1>4, <1>6, <1>7 DEF Part
<1>. QED
  BY <1>4, <1>8

\* Two paths part at one place only, whichever is looked at first.
LEMMA PartOnce ==
    ASSUME NEW S, NEW p \in Seq(S), NEW q \in Seq(S), NEW k, Part(p, q, k)
    PROVE  /\ Part(q, p, k)
           /\ \A i : Part(p, q, i) => i = k
<1>1. Len(p) \in Nat /\ Len(q) \in Nat /\ k \in Nat \ {0}
  BY DEF Part
<1>2. Part(q, p, k)
  BY <1>1 DEF Part
<1>3. ASSUME NEW i, Part(p, q, i) PROVE i = k
  <2>1. i \in Nat \ {0}
    BY <1>1, <1>3 DEF Part
  <2>2. ~(i < k)
    <3>1. i < k => i \in 0..(k - 1)
      BY <1>1, <2>1
    <3>. QED
      BY <1>3, <3>1 DEF Part
  <2>3. ~(k < i)
    <3>1. k < i => k \in 0..(i - 1)
      BY <1>1, <2>1
    <3>. QED
      BY <1>3, <3>1 DEF Part
  <2>. QED
    BY <1>1, <2>1, <2>2, <2>3
<1>. QED
  BY <1>2, <1>3

\* Of two walks of the same cost, what is settled first is decided there.
LEMMA SettledWhereTheyPart ==
    ASSUME NEW G, IsGraph(G), NEW blocked, NEW start, NEW goal,
           NEW p, IsWalk(G, blocked, start, goal, p),
           NEW q, IsWalk(G, blocked, start, goal, q),
           Cost(G, p) = Cost(G, q), NEW k, Part(p, q, k)
    PROVE  SettledFirst(G, p, q) <=> Ahead(G, p, q, k)
<1>1. /\ Len(p) \in Nat \ {0} /\ Len(q) \in Nat \ {0}
      /\ p \in Seq(G.nodes) /\ q \in Seq(G.nodes)
      /\ G.nodes \subseteq Nat
  BY DEF IsWalk, IsPath, IsGraph
<1>2. ASSUME Ahead(G, p, q, k) PROVE SettledFirst(G, p, q)
  BY <1>2 DEF Ahead, SettledFirst, Part
<1>3. ASSUME SettledFirst(G, p, q) PROVE Ahead(G, p, q, k)
  <2>1. PICK i \in 1..(Len(p) - 1) :
          /\ i < Len(q)
          /\ \A j \in 0..(i - 1) : p[Len(p) - j] = q[Len(q) - j]
          /\ Ahead(G, p, q, i)
    BY <1>3 DEF SettledFirst, Ahead
  <2>2. p[Len(p) - i] # q[Len(q) - i]
    <3> SUFFICES ASSUME p[Len(p) - i] = q[Len(q) - i] PROVE FALSE
      OBVIOUS
    <3>1. i \in Nat /\ i < Len(p) /\ \A j \in 0..i : p[Len(p) - j] = q[Len(q) - j]
      <4>1. \A j \in 0..i : j = i \/ j \in 0..(i - 1)
        BY <1>1
      <4>2. \A j \in 0..i : p[Len(p) - j] = q[Len(q) - j]
        BY <2>1, <4>1
      <4>3. i \in Nat /\ i < Len(p)
        BY <1>1
      <4>. QED
        BY <4>2, <4>3
    <3>2. CostTo(G, p, Len(p) - i) = CostTo(G, q, Len(q) - i)
      BY <2>1, <3>1, EqualFromTheGoal
    <3>3. /\ CostTo(G, p, Len(p) - i) \in Nat
          /\ p[Len(p) - i] \in Nat
      <4>1. Len(p) - i \in 1..Len(p)
        BY <1>1
      <4>2. CostTo(G, p, Len(p) - i) \in Nat
        BY <4>1, WalkCosts
      <4>. QED
        BY <1>1, <4>1, <4>2
    <3>. QED
      BY <2>1, <3>2, <3>3 DEF Ahead
  <2>3. Part(p, q, i)
    BY <2>1, <2>2 DEF Part
  <2>4. i = k
    BY <1>1, <2>3, PartOnce
  <2>. QED
    BY <2>1, <2>4
<1>. QED
  BY <1>2, <1>3

\* What Ahead compares are numbers.
LEMMA AheadIsAnOrder ==
    ASSUME NEW G, IsGraph(G), NEW blocked, NEW start, NEW goal,
           NEW p, IsWalk(G, blocked, start, goal, p),
           NEW k \in Nat, k < Len(p)
    PROVE  CostTo(G, p, Len(p) - k) \in Nat /\ p[Len(p) - k] \in Nat
<1>1. Len(p) \in Nat /\ Len(p) - k \in 1..Len(p) /\ p \in Seq(G.nodes) /\ G.nodes \subseteq Nat
  BY DEF IsWalk, IsPath, IsGraph
<1>2. CostTo(G, p, Len(p) - k) \in Nat
  BY <1>1, WalkCosts
<1>. QED
  BY <1>1, <1>2

\* Of two walks between the same ends one is preferred, and only one.
LEMMA PreferredIsTotal ==
    ASSUME NEW G, IsGraph(G), NEW blocked, NEW start, NEW goal,
           NEW p, IsWalk(G, blocked, start, goal, p),
           NEW q, IsWalk(G, blocked, start, goal, q), p # q
    PROVE  Preferred(G, p, q) <=> ~Preferred(G, q, p)
<1>1. Cost(G, p) \in Nat /\ Cost(G, q) \in Nat
  BY WalkCosts
<1>2. CASE Cost(G, p) # Cost(G, q)
  BY <1>1, <1>2 DEF Preferred
<1>3. CASE Cost(G, p) = Cost(G, q)
  <2>1. PICK k \in Nat : Part(p, q, k)
    BY DifferentPathsPart DEF IsWalk
  <2>2. Part(q, p, k)
    BY <2>1, PartOnce DEF IsWalk, IsPath
  <2>3. /\ SettledFirst(G, p, q) <=> Ahead(G, p, q, k)
        /\ SettledFirst(G, q, p) <=> Ahead(G, q, p, k)
    BY <1>3, <2>1, <2>2, SettledWhereTheyPart
  <2>4. k < Len(p) /\ k < Len(q) /\ p[Len(p) - k] # q[Len(q) - k]
    BY <2>1, <2>2 DEF Part, IsWalk, IsPath
  <2>5. /\ CostTo(G, p, Len(p) - k) \in Nat /\ p[Len(p) - k] \in Nat
        /\ CostTo(G, q, Len(q) - k) \in Nat /\ q[Len(q) - k] \in Nat
    BY <2>4, AheadIsAnOrder
  <2>6. Ahead(G, p, q, k) <=> ~Ahead(G, q, p, k)
    BY <2>4, <2>5 DEF Ahead
  <2>. QED
    BY <1>1, <1>3, <2>3, <2>6 DEF Preferred
<1>. QED
  BY <1>2, <1>3

\* No walk is preferred to itself.
LEMMA NotPreferredToItself ==
    ASSUME NEW G, IsGraph(G), NEW blocked, NEW start, NEW goal,
           NEW p, IsWalk(G, blocked, start, goal, p)
    PROVE  ~Preferred(G, p, p)
<1>1. Cost(G, p) \in Nat /\ Len(p) \in Nat
  BY WalkCosts
<1>2. SUFFICES ASSUME NEW k \in 1..(Len(p) - 1), Ahead(G, p, p, k) PROVE FALSE
  BY <1>1 DEF Preferred, SettledFirst, Ahead
<1>3. CostTo(G, p, Len(p) - k) \in Nat /\ p[Len(p) - k] \in Nat
  <2>1. k \in Nat /\ k < Len(p)
    BY <1>1
  <2>. QED
    BY <2>1, AheadIsAnOrder
<1>. QED
  BY <1>2, <1>3 DEF Ahead

\* What is preferred to a walk that is preferred to r is preferred to r.
LEMMA PreferredIsTransitive ==
    ASSUME NEW G, IsGraph(G), NEW blocked, NEW start, NEW goal,
           NEW p, IsWalk(G, blocked, start, goal, p),
           NEW q, IsWalk(G, blocked, start, goal, q),
           NEW r, IsWalk(G, blocked, start, goal, r),
           Preferred(G, p, q), Preferred(G, q, r)
    PROVE  Preferred(G, p, r)
<1>1. Cost(G, p) \in Nat /\ Cost(G, q) \in Nat /\ Cost(G, r) \in Nat
  BY WalkCosts
<1>2. CASE ~(Cost(G, p) = Cost(G, q) /\ Cost(G, q) = Cost(G, r))
  BY <1>1, <1>2 DEF Preferred
<1>3. CASE Cost(G, p) = Cost(G, q) /\ Cost(G, q) = Cost(G, r)
  <2>1. p # q /\ q # r
    BY NotPreferredToItself
  <2>2. PICK i \in Nat : Part(p, q, i)
    BY <2>1, DifferentPathsPart DEF IsWalk
  <2>3. PICK j \in Nat : Part(q, r, j)
    BY <2>1, DifferentPathsPart DEF IsWalk
  <2>4. /\ Ahead(G, p, q, i) /\ Ahead(G, q, r, j)
    <3>1. SettledFirst(G, p, q) /\ SettledFirst(G, q, r)
      BY <1>1, <1>3 DEF Preferred
    <3>. QED
      BY <1>3, <2>2, <2>3, <3>1, SettledWhereTheyPart
  <2>5. /\ Len(p) \in Nat /\ Len(q) \in Nat /\ Len(r) \in Nat
        /\ i >= 1 /\ i < Len(p) /\ i < Len(q) /\ j >= 1 /\ j < Len(q) /\ j < Len(r)
        /\ \A a \in 0..(i - 1) : p[Len(p) - a] = q[Len(q) - a]
        /\ \A a \in 0..(j - 1) : q[Len(q) - a] = r[Len(r) - a]
        /\ p[Len(p) - i] # q[Len(q) - i]
        /\ q[Len(q) - j] # r[Len(r) - j]
    <3>1. /\ Len(p) \in Nat /\ Len(q) \in Nat /\ Len(r) \in Nat
      BY DEF IsWalk, IsPath
    <3>. QED
      BY <2>2, <2>3, <3>1 DEF Part
  <2>6. CASE i < j
    <3>1. /\ \A a \in 0..i : q[Len(q) - a] = r[Len(r) - a]
          /\ i < Len(r)
      BY <2>5, <2>6
    <3>2. CostTo(G, q, Len(q) - i) = CostTo(G, r, Len(r) - i)
      BY <1>3, <2>5, <3>1, EqualFromTheGoal
    <3>3. q[Len(q) - i] = r[Len(r) - i]
      BY <3>1
    <3>4. Ahead(G, p, r, i)
      BY <2>4, <3>2, <3>3 DEF Ahead
    <3>5. Part(p, r, i)
      <4>1. \A a \in 0..(i - 1) : p[Len(p) - a] = r[Len(r) - a]
        BY <2>5, <3>1
      <4>2. p[Len(p) - i] # r[Len(r) - i]
        BY <2>5, <3>3
      <4>. QED
        BY <2>5, <3>1, <4>1, <4>2 DEF Part
    <3>6. SettledFirst(G, p, r)
      BY <1>3, <3>4, <3>5, SettledWhereTheyPart
    <3>. QED
      BY <1>3, <3>6 DEF Preferred
  <2>7. CASE j < i
    <3>1. /\ \A a \in 0..j : p[Len(p) - a] = q[Len(q) - a]
          /\ j < Len(p)
      BY <2>5, <2>7
    <3>2. CostTo(G, p, Len(p) - j) = CostTo(G, q, Len(q) - j)
      BY <1>3, <2>5, <3>1, EqualFromTheGoal
    <3>3. p[Len(p) - j] = q[Len(q) - j]
      BY <3>1
    <3>4. Ahead(G, p, r, j)
      BY <2>4, <3>2, <3>3 DEF Ahead
    <3>5. Part(p, r, j)
      <4>1. \A a \in 0..(j - 1) : p[Len(p) - a] = r[Len(r) - a]
        BY <2>5, <3>1
      <4>2. p[Len(p) - j] # r[Len(r) - j]
        BY <2>5, <3>3
      <4>. QED
        BY <2>5, <3>1, <4>1, <4>2 DEF Part
    <3>6. SettledFirst(G, p, r)
      BY <1>3, <3>4, <3>5, SettledWhereTheyPart
    <3>. QED
      BY <1>3, <3>6 DEF Preferred
  <2>8. CASE i = j
    <3>1. /\ CostTo(G, p, Len(p) - i) \in Nat /\ p[Len(p) - i] \in Nat
          /\ CostTo(G, q, Len(q) - i) \in Nat /\ q[Len(q) - i] \in Nat
          /\ CostTo(G, r, Len(r) - i) \in Nat /\ r[Len(r) - i] \in Nat
      BY <2>5, <2>8, AheadIsAnOrder
    <3>2. Ahead(G, p, r, i)
      <4>1. Ahead(G, p, q, i) /\ Ahead(G, q, r, i)
        BY <2>4, <2>8
      <4>. QED
        BY <3>1, <4>1 DEF Ahead
    <3>3. SettledFirst(G, p, r)
      <4>1. \A a \in 0..(i - 1) : p[Len(p) - a] = r[Len(r) - a]
        BY <2>5, <2>8
      <4>2. i \in 1..(Len(p) - 1) /\ i < Len(r)
        BY <2>5, <2>8
      <4>. QED
        BY <3>2, <4>1, <4>2 DEF Ahead, SettledFirst
    <3>. QED
      BY <1>3, <3>3 DEF Preferred
  <2>. QED
    BY <2>6, <2>7, <2>8
<1>. QED
  BY <1>2, <1>3

\* A finite set has a first element under a total and transitive relation.
LEMMA FirstOfFinitelyMany ==
    ASSUME NEW W, IsFiniteSet(W), W # {}, NEW R,
           \A x, y \in W : x # y => <<x, y>> \in R \/ <<y, x>> \in R,
           \A x, y, z \in W : <<x, y>> \in R /\ <<y, z>> \in R => <<x, z>> \in R
    PROVE  \E x \in W : \A y \in W \ {x} : <<x, y>> \in R
<1> DEFINE Has(V) == V # {} => \E x \in V : \A y \in V \ {x} : <<x, y>> \in R
           S == {n \in Nat : \A V \in SUBSET W :
                   IsFiniteSet(V) /\ Cardinality(V) = n => Has(V)}
<1>1. 0 \in S
  <2>1. ASSUME NEW V \in SUBSET W, IsFiniteSet(V), Cardinality(V) = 0 PROVE Has(V)
    BY <2>1, FS_EmptySet
  <2>. QED
    BY <2>1
<1>2. ASSUME NEW n \in Nat, n \in S PROVE n + 1 \in S
  <2>1. SUFFICES ASSUME NEW V \in SUBSET W, IsFiniteSet(V), Cardinality(V) = n + 1
                 PROVE  Has(V)
    OBVIOUS
  <2>2. PICK v \in V : TRUE
    <3>1. V # {}
      BY <2>1, FS_EmptySet
    <3>. QED
      BY <3>1
  <2>3. IsFiniteSet(V \ {v}) /\ Cardinality(V \ {v}) = n
    <3>1. IsFiniteSet(V \ {v}) /\ Cardinality(V \ {v}) = Cardinality(V) - 1
      BY <2>1, <2>2, FS_RemoveElement
    <3>. QED
      BY <2>1, <3>1
  <2>4. Has(V \ {v})
    BY <1>2, <2>3
  <2>5. CASE V \ {v} = {}
    BY <2>5, <2>2
  <2>6. CASE V \ {v} # {}
    <3>1. PICK x \in V \ {v} : \A y \in (V \ {v}) \ {x} : <<x, y>> \in R
      BY <2>4, <2>6
    <3>2. CASE <<x, v>> \in R
      <4>1. \A y \in V \ {x} : <<x, y>> \in R
        BY <3>1, <3>2
      <4>. QED
        BY <4>1
    <3>3. CASE <<v, x>> \in R
      <4>1. ASSUME NEW y \in V \ {v} PROVE <<v, y>> \in R
        <5>1. y = x \/ <<x, y>> \in R
          BY <3>1
        <5>. QED
          BY <3>3, <5>1, <2>2
      <4>. QED
        BY <2>2, <4>1
    <3>. QED
      BY <2>2, <3>2, <3>3
  <2>. QED
    BY <2>5, <2>6
<1> HIDE DEF S
<1>3. Cardinality(W) \in S
  BY <1>1, <1>2, Ind, FS_CardinalityType
<1>4. Has(W)
  BY <1>3 DEF S
<1>. QED
  BY <1>4

\* There are finitely many sequences of a length over a finite set.
LEMMA FinitelyManyFunctions ==
    ASSUME NEW S, IsFiniteSet(S), NEW n \in Nat
    PROVE  IsFiniteSet([1..n -> S])
<1> DEFINE T == {k \in Nat : IsFiniteSet([1..k -> S])}
<1>1. 0 \in T
  <2>1. \A f, h \in [1..0 -> S] : f = h
    OBVIOUS
  <2>2. PICK f : f \in [1..0 -> S]
    <3>1. [i \in 1..0 |-> 0] \in [1..0 -> S]
      OBVIOUS
    <3>. QED
      BY <3>1
  <2>3. [1..0 -> S] = {f}
    BY <2>1, <2>2
  <2>. QED
    BY <2>3, FS_Singleton
<1>2. ASSUME NEW k \in Nat, k \in T PROVE k + 1 \in T
  <2> DEFINE A == [1..k -> S] \X S
             B == [1..(k + 1) -> S]
             h == [a \in A |-> [i \in 1..(k + 1) |-> IF i = k + 1 THEN a[2] ELSE a[1][i]]]
  <2>1. IsFiniteSet(A)
    BY <1>2, FS_Product
  <2>2. h \in [A -> B]
    <3>1. ASSUME NEW a \in A
          PROVE  [i \in 1..(k + 1) |-> IF i = k + 1 THEN a[2] ELSE a[1][i]] \in B
      <4>1. a[1] \in [1..k -> S] /\ a[2] \in S
        OBVIOUS
      <4>2. \A i \in 1..(k + 1) : i # k + 1 => i \in 1..k
        OBVIOUS
      <4> HIDE DEF A
      <4>. QED
        BY <4>1, <4>2
    <3> HIDE DEF A, B
    <3>. QED
      BY <3>1
  <2>3. ASSUME NEW b \in B PROVE \E a \in A : h[a] = b
    <3> DEFINE a == << [i \in 1..k |-> b[i]], b[k + 1] >>
    <3>1. a \in A
      OBVIOUS
    <3>2. h[a] = [i \in 1..(k + 1) |-> IF i = k + 1 THEN a[2] ELSE a[1][i]]
      BY <3>1
    <3>3. \A i \in 1..(k + 1) : (IF i = k + 1 THEN a[2] ELSE a[1][i]) = b[i]
      <4>1. \A i \in 1..(k + 1) : i # k + 1 => i \in 1..k
        OBVIOUS
      <4>. QED
        BY <4>1
    <3>4. h[a] = b
      <4> HIDE DEF a, h
      <4>. QED
        BY <3>2, <3>3
    <3>. QED
      BY <3>1, <3>4
  <2>4. h \in Surjection(A, B)
    <3> HIDE DEF A, B, h
    <3>. QED
      BY <2>2, <2>3 DEF Surjection
  <2>5. IsFiniteSet(B)
    <3> HIDE DEF A, B, h
    <3>. QED
      BY <2>1, <2>4, FS_Surjection
  <2>. QED
    BY <2>5
<1> HIDE DEF T
<1>3. n \in T
  BY <1>1, <1>2, Ind
<1>. QED
  BY <1>3 DEF T

\* There are finitely many walks from one node to another.
LEMMA FinitelyManyWalks ==
    ASSUME NEW G, IsGraph(G), NEW blocked, NEW start \in G.nodes, NEW goal \in G.nodes
    PROVE  IsFiniteSet(Walks(G, blocked, start, goal))
<1> DEFINE UpTo(n) == {s \in Seq(G.nodes) : Len(s) <= n}
           T == {n \in Nat : IsFiniteSet(UpTo(n))}
           N == Cardinality(G.nodes)
<1>1. IsFiniteSet(G.nodes) /\ N \in Nat
  BY FS_CardinalityType DEF IsGraph
<1>2. 0 \in T
  <2>1. UpTo(0) \subseteq {<<>>}
    <3> SUFFICES ASSUME NEW s \in Seq(G.nodes), Len(s) <= 0 PROVE s = <<>>
      OBVIOUS
    <3>1. Len(s) = 0
      OBVIOUS
    <3>. QED
      BY <3>1
  <2>2. IsFiniteSet({<<>>})
    BY FS_Singleton
  <2>. QED
    BY <2>1, <2>2, FS_Subset
<1>3. ASSUME NEW n \in Nat, n \in T PROVE n + 1 \in T
  <2>1. IsFiniteSet([1..(n + 1) -> G.nodes])
    BY <1>1, FinitelyManyFunctions
  <2>2. UpTo(n + 1) \subseteq UpTo(n) \cup [1..(n + 1) -> G.nodes]
    <3> SUFFICES ASSUME NEW s \in Seq(G.nodes), Len(s) <= n + 1, ~(Len(s) <= n)
                 PROVE  s \in [1..(n + 1) -> G.nodes]
      OBVIOUS
    <3>1. Len(s) = n + 1 /\ s \in [1..Len(s) -> G.nodes]
      OBVIOUS
    <3>. QED
      BY <3>1
  <2>3. IsFiniteSet(UpTo(n) \cup [1..(n + 1) -> G.nodes])
    BY <1>3, <2>1, FS_Union
  <2> HIDE DEF UpTo
  <2>4. IsFiniteSet(UpTo(n + 1))
    BY <2>2, <2>3, FS_Subset
  <2>. QED
    BY <2>4
<1> HIDE DEF T
<1>4. IsFiniteSet(UpTo(N))
  BY <1>1, <1>2, <1>3, Ind DEF T
<1>5. ASSUME NEW p \in Walks(G, blocked, start, goal) PROVE p \in UpTo(N)
  <2>1. IsPath(G, start, goal, p)
    BY WalksAreWalks DEF IsWalk
  <2>2. /\ p \in Seq(G.nodes) /\ Len(p) \in Nat
        /\ \A i, j \in 1..Len(p) : p[i] = p[j] => i = j
    BY <2>1 DEF IsPath
  <2> DEFINE n == Len(p)
  <2>3. p \in Injection(1..n, G.nodes)
    BY <2>2 DEF Injection, IsInjective
  <2>0. 1 \in Int /\ n \in Int /\ n \in Nat
    BY <2>2
  <2> HIDE DEF N, n
  <2>4. Cardinality(1..n) = n /\ IsFiniteSet(1..n)
    <3>1. IsFiniteSet(1..n) /\ Cardinality(1..n) = IF 1 > n THEN 0 ELSE n - 1 + 1
      BY <2>0, FS_Interval
    <3>. QED
      BY <2>0, <3>1
  <2>5. Cardinality(1..n) <= N
    BY <1>1, <2>3, FS_Injection DEF N
  <2>. QED
    BY <1>1, <2>2, <2>4, <2>5 DEF n
<1> HIDE DEF UpTo
<1>. QED
  BY <1>4, <1>5, FS_Subset

(* There is a canonical walk wherever there is one at all, and only one.   *)
LEMMA CanonicalWalkExists ==
    ASSUME NEW G, IsGraph(G), NEW blocked, NEW start \in G.nodes, NEW goal \in G.nodes,
           Walks(G, blocked, start, goal) # {}
    PROVE  \E p : IsCanonical(G, blocked, start, goal, p)
<1> DEFINE W == Walks(G, blocked, start, goal)
           R == {x \in W \X W : Preferred(G, x[1], x[2])}
<1>1. IsFiniteSet(W) /\ W # {}
  BY FinitelyManyWalks
<1>2. \A p : p \in W <=> IsWalk(G, blocked, start, goal, p)
  BY WalksAreWalks
<1>3. \A x, y : <<x, y>> \in R <=> x \in W /\ y \in W /\ Preferred(G, x, y)
  OBVIOUS
<1> HIDE DEF W, R
<1>4. \A x, y \in W : x # y => <<x, y>> \in R \/ <<y, x>> \in R
  BY <1>2, <1>3, PreferredIsTotal
<1>5. \A x, y, z \in W : <<x, y>> \in R /\ <<y, z>> \in R => <<x, z>> \in R
  BY <1>2, <1>3, PreferredIsTransitive
<1>6. \E x \in W : \A y \in W \ {x} : <<x, y>> \in R
  BY <1>1, <1>4, <1>5, FirstOfFinitelyMany
<1>. QED
  BY <1>3, <1>6 DEF IsCanonical, W

\* The route a graph, its blocked edges, a start and a goal determine is one.
LEMMA CanonicalWalkIsUnique ==
    ASSUME NEW G, IsGraph(G), NEW blocked, NEW start \in G.nodes, NEW goal \in G.nodes,
           NEW p, IsCanonical(G, blocked, start, goal, p),
           NEW q, IsCanonical(G, blocked, start, goal, q)
    PROVE  p = q
<1> SUFFICES ASSUME p # q PROVE FALSE
  OBVIOUS
<1>1. IsWalk(G, blocked, start, goal, p) /\ IsWalk(G, blocked, start, goal, q)
  BY WalksAreWalks DEF IsCanonical
<1>2. Preferred(G, p, q) /\ Preferred(G, q, p)
  BY DEF IsCanonical
<1>. QED
  BY <1>1, <1>2, PreferredIsTotal

\* The canonical route is the one along the canonical walk.
LEMMA CanonicalRouteIsAlong ==
    ASSUME NEW G, IsGraph(G), NEW blocked, NEW start \in G.nodes, NEW goal \in G.nodes,
           NEW p, IsCanonical(G, blocked, start, goal, p)
    PROVE  CanonicalRoute(G, blocked, start, goal) = RouteAlong(G, p)
<1>1. Walks(G, blocked, start, goal) # {}
  BY DEF IsCanonical
<1> DEFINE c == CHOOSE q \in Walks(G, blocked, start, goal) :
                   IsCanonical(G, blocked, start, goal, q)
<1>2. IsCanonical(G, blocked, start, goal, c)
  <2>1. \E q \in Walks(G, blocked, start, goal) : IsCanonical(G, blocked, start, goal, q)
    BY DEF IsCanonical
  <2>. QED
    BY <2>1
<1>3. CanonicalRoute(G, blocked, start, goal) = RouteAlong(G, c)
  BY <1>1 DEF CanonicalRoute
<1> HIDE DEF c
<1>4. c = p
  BY <1>2, CanonicalWalkIsUnique
<1>. QED
  BY <1>3, <1>4

(* Costs grow along a walk.                                                *)
LEMMA CostsGrow ==
    ASSUME NEW G, IsGraph(G), NEW blocked, NEW start, NEW goal,
           NEW p, IsWalk(G, blocked, start, goal, p), NEW k \in 2..Len(p)
    PROVE  CostTo(G, p, k) > 0
<1>1. /\ Len(p) \in Nat /\ k - 1 \in 1..(Len(p) - 1) /\ k - 1 \in 1..Len(p)
      /\ (k - 1) + 1 = k
  BY WalkCosts
<1>2. CostTo(G, p, k - 1) \in Nat /\ Leg(G, p, k - 1) \in Nat \ {0}
  BY <1>1, WalkCosts
<1>3. CostTo(G, p, (k - 1) + 1) = CostTo(G, p, k - 1) + Leg(G, p, k - 1)
  BY <1>1, WalkCosts
<1>. QED
  BY <1>1, <1>2, <1>3

(* A walk that starts a hop earlier.                                       *)
LEMMA EarlierStart ==
    ASSUME NEW G, IsGraph(G), NEW blocked, NEW start, NEW next, NEW goal,
           NEW q, IsWalk(G, blocked, next, goal, q), start \in G.nodes,
           \A i \in 1..Len(q) : q[i] # start, IsHop(G, blocked, start, next)
    PROVE  \E w : /\ IsWalk(G, blocked, start, goal, w)
                  /\ Len(w) = Len(q) + 1 /\ w[1] = start
                  /\ \A i \in 1..Len(q) : w[1 + i] = q[i]
                  /\ SubSeq(w, 2, Len(w)) = q
<1>1. /\ Len(q) \in Nat \ {0} /\ q \in Seq(G.nodes)
      /\ q[1] = next /\ q[Len(q)] = goal
      /\ \A i \in 1..Len(q) : q[i] \in G.nodes
      /\ \A i, k \in 1..Len(q) : q[i] = q[k] => i = k
      /\ \A i \in 1..(Len(q) - 1) : IsHop(G, blocked, q[i], q[i + 1])
  BY DEF IsWalk, IsPath
<1> DEFINE n == Len(q)
           w == [i \in 1..(n + 1) |-> IF i = 1 THEN start ELSE q[i - 1]]
<1>2. w \in [1..(n + 1) -> G.nodes]
  BY <1>1
<1>3. w \in Seq(G.nodes) /\ Len(w) = n + 1
  <2>1. n + 1 \in Nat
    BY <1>1
  <2> HIDE DEF w, n
  <2>. QED
    BY <1>2, <2>1, FunctionIsSequence
<1>4. w[1] = start /\ \A i \in 1..n : w[1 + i] = q[i]
  BY <1>1
<1> HIDE DEF w
<1>5. ASSUME NEW i \in 1..(n + 1), NEW k \in 1..(n + 1), w[i] = w[k] PROVE i = k
  <2>1. CASE i = 1 /\ k = 1
    BY <2>1
  <2>2. CASE i = 1 /\ k # 1
    <3>1. k - 1 \in 1..n /\ 1 + (k - 1) = k
      BY <1>1, <2>2
    <3>. QED
      BY <1>4, <1>5, <2>2, <3>1
  <2>3. CASE i # 1 /\ k = 1
    <3>1. i - 1 \in 1..n /\ 1 + (i - 1) = i
      BY <1>1, <2>3
    <3>. QED
      BY <1>4, <1>5, <2>3, <3>1
  <2>4. CASE i # 1 /\ k # 1
    <3>1. i - 1 \in 1..n /\ 1 + (i - 1) = i /\ k - 1 \in 1..n /\ 1 + (k - 1) = k
      BY <1>1, <2>4
    <3>2. q[i - 1] = q[k - 1]
      <4>1. w[1 + (i - 1)] = q[i - 1] /\ w[1 + (k - 1)] = q[k - 1]
        BY <1>4, <3>1
      <4>. QED
        BY <1>5, <3>1, <4>1
    <3>3. i - 1 = k - 1
      BY <1>1, <3>1, <3>2
    <3>. QED
      BY <3>1, <3>3
  <2>. QED
    BY <2>1, <2>2, <2>3, <2>4
<1>6. ASSUME NEW i \in 1..n PROVE IsHop(G, blocked, w[i], w[i + 1])
  <2>1. CASE i = 1
    <3>1. w[i + 1] = next
      BY <1>1, <1>4, <2>1
    <3>. QED
      BY <1>4, <2>1, <3>1
  <2>2. CASE i # 1
    <3>1. i - 1 \in 1..(n - 1) /\ i - 1 \in 1..n /\ 1 + (i - 1) = i /\ 1 + i = i + 1
          /\ (i - 1) + 1 = i
      BY <1>1, <2>2
    <3>2. w[1 + (i - 1)] = q[i - 1] /\ w[1 + i] = q[i]
      BY <1>4, <3>1
    <3>3. IsHop(G, blocked, q[i - 1], q[(i - 1) + 1])
      BY <1>1, <3>1
    <3>. QED
      BY <3>1, <3>2, <3>3
  <2>. QED
    BY <2>1, <2>2
<1>7. w[Len(w)] = goal /\ w # <<>>
  <2>1. Len(w) = 1 + n /\ n \in 1..n
    BY <1>1, <1>3
  <2>. QED
    BY <1>1, <1>3, <1>4, <2>1
<1>8. IsWalk(G, blocked, start, goal, w)
  BY <1>1, <1>3, <1>4, <1>5, <1>6, <1>7 DEF IsWalk, IsPath
<1>9. SubSeq(w, 2, Len(w)) = q
  <2>1. 2 \in 1..Len(w) /\ Len(w) - 2 + 1 = n
    BY <1>1, <1>3
  <2> DEFINE r == SubSeq(w, 2, Len(w))
  <2>2. r \in Seq(G.nodes) /\ Len(r) = n /\ \A i \in 1..n : r[i] = w[2 + i - 1]
    BY <1>3, <2>1, RestOfASequence
  <2> HIDE DEF r
  <2>3. ASSUME NEW i \in 1..n PROVE r[i] = q[i]
    <3>1. 2 + i - 1 = 1 + i
      OBVIOUS
    <3>. QED
      BY <1>4, <2>2, <3>1
  <2>4. r = q
    BY <1>1, <2>2, <2>3, SeqEqual
  <2>. QED
    BY <2>4 DEF r
<1>. QED
  BY <1>3, <1>4, <1>8, <1>9

(* Having gone the first hop of the canonical walk, the rest of it is the  *)
(* canonical walk from there.                                              *)
LEMMA RestIsCanonical ==
    ASSUME NEW G, IsGraph(G), NEW blocked, NEW start \in G.nodes, NEW goal \in G.nodes,
           NEW p, IsCanonical(G, blocked, start, goal, p), Len(p) >= 2
    PROVE  /\ p[2] \in G.nodes
           /\ IsCanonical(G, blocked, p[2], goal, SubSeq(p, 2, Len(p)))
<1> DEFINE rest == SubSeq(p, 2, Len(p))
           leg == CostTo(G, p, 2)
<1>1. /\ IsWalk(G, blocked, start, goal, p)
      /\ \A q : IsWalk(G, blocked, start, goal, q) /\ q # p => Preferred(G, p, q)
  BY WalksAreWalks DEF IsCanonical
<1>2. /\ Len(p) \in Nat /\ p[2] \in G.nodes /\ p[1] = start /\ 2 \in 1..Len(p)
      /\ \A i \in 1..Len(p) : p[i] \in G.nodes
      /\ \A i, k \in 1..Len(p) : p[i] = p[k] => i = k
      /\ IsHop(G, blocked, p[1], p[2])
  <2>1. Len(p) \in Nat /\ 1 \in 1..(Len(p) - 1) /\ 1 + 1 = 2
    BY <1>1, WalkCosts
  <2>2. IsHop(G, blocked, p[1], p[1 + 1])
    BY <1>1, <2>1 DEF IsWalk
  <2>. QED
    BY <1>1, <2>1, <2>2 DEF IsWalk, IsPath
<1>3. /\ IsWalk(G, blocked, p[2], goal, rest)
      /\ Len(rest) = Len(p) - 1
      /\ \A i \in 1..Len(rest) : /\ rest[i] = p[1 + i]
                                 /\ CostTo(G, p, 1 + i) = leg + CostTo(G, rest, i)
  <2>1. 2 - 1 = 1 /\ Len(p) - 2 + 1 = Len(p) - 1
    BY <1>2
  <2>. QED
    BY <1>1, <1>2, <2>1, RestOfAWalk
<1>4. leg \in Nat \ {0} /\ leg = Leg(G, p, 1) /\ CostTo(G, p, 1) = 0
  <2>1. 1 \in 1..(Len(p) - 1) /\ 1 + 1 = 2
    BY <1>2
  <2>2. CostTo(G, p, 1) = 0
    BY <1>1, WalkCosts
  <2>3. Leg(G, p, 1) \in Nat \ {0} /\ CostTo(G, p, 1 + 1) = CostTo(G, p, 1) + Leg(G, p, 1)
    BY <1>1, <2>1, WalkCosts
  <2>. QED
    BY <2>1, <2>2, <2>3
<1>5. Cost(G, p) = leg + Cost(G, rest) /\ Cost(G, rest) \in Nat
  <2>1. Len(rest) \in 1..Len(rest) /\ 1 + Len(rest) = Len(p)
    BY <1>2, <1>3
  <2>2. CostTo(G, p, 1 + Len(rest)) = leg + CostTo(G, rest, Len(rest))
    BY <1>3, <2>1
  <2>. QED
    BY <1>3, <2>1, <2>2, WalkCosts DEF Cost
<1> HIDE DEF leg, rest
<1>6. ASSUME NEW q, IsWalk(G, blocked, p[2], goal, q), q # rest
      PROVE  Preferred(G, rest, q)
  <2>1. /\ Len(q) \in Nat \ {0} /\ q[1] = p[2] /\ q[Len(q)] = goal
        /\ Cost(G, q) \in Nat /\ CostTo(G, q, 1) = 0
        /\ \A i \in 1..Len(q) : CostTo(G, q, i) \in Nat
    BY <1>6, WalkCosts DEF IsWalk, IsPath
  <2>2. CASE \E j \in 1..Len(q) : q[j] = start
    <3>1. PICK j \in 1..Len(q) : q[j] = start
      BY <2>2
    <3>2. j \in 2..Len(q)
      BY <1>2, <2>1, <3>1
    <3> DEFINE w == SubSeq(q, j, Len(q))
    <3>3. /\ IsWalk(G, blocked, start, goal, w) /\ Len(w) = Len(q) - j + 1
          /\ \A i \in 1..Len(w) : CostTo(G, q, j - 1 + i) = CostTo(G, q, j) + CostTo(G, w, i)
      BY <1>6, <3>1, RestOfAWalk
    <3> HIDE DEF w
    <3>4. Cost(G, q) = CostTo(G, q, j) + Cost(G, w)
      <4>1. Len(w) \in 1..Len(w) /\ j - 1 + Len(w) = Len(q)
        BY <2>1, <3>1, <3>3
      <4>2. CostTo(G, q, j - 1 + Len(w)) = CostTo(G, q, j) + CostTo(G, w, Len(w))
        BY <3>3, <4>1
      <4>. QED
        BY <4>1, <4>2 DEF Cost
    <3>5. CostTo(G, q, j) > 0 /\ CostTo(G, q, j) \in Nat
      BY <1>6, <2>1, <3>2, CostsGrow
    <3>6. Cost(G, w) \in Nat
      BY <3>3, WalkCosts
    <3>7. Cost(G, p) <= Cost(G, w)
      <4>1. CASE w = p
        BY <3>6, <4>1
      <4>2. CASE w # p
        <5>1. Preferred(G, p, w)
          BY <1>1, <3>3, <4>2
        <5>. QED
          BY <1>4, <1>5, <3>6, <5>1 DEF Preferred
      <4>. QED
        BY <4>1, <4>2
    <3>8. Cost(G, rest) < Cost(G, q)
      BY <1>4, <1>5, <3>4, <3>5, <3>6, <3>7
    <3>. QED
      BY <3>8 DEF Preferred
  <2>3. CASE \A j \in 1..Len(q) : q[j] # start
    <3>0. IsHop(G, blocked, start, p[2])
      BY <1>2
    <3>1. PICK w : /\ IsWalk(G, blocked, start, goal, w)
                   /\ Len(w) = Len(q) + 1 /\ w[1] = start
                   /\ \A i \in 1..Len(q) : w[1 + i] = q[i]
                   /\ SubSeq(w, 2, Len(w)) = q
      BY <1>6, <2>3, <3>0, EarlierStart
    <3>2. 2 \in 1..Len(w) /\ 1 \in 1..(Len(w) - 1) /\ 1 \in 1..Len(q)
      BY <2>1, <3>1
    <3>3. w[2] = p[2]
      <4>1. w[1 + 1] = q[1]
        BY <3>1, <3>2
      <4>. QED
        BY <2>1, <4>1
    <3>4. CostTo(G, w, 1) = 0 /\ CostTo(G, w, 2) = leg
      <4>1. CostTo(G, w, 1) = 0
        BY <3>1, WalkCosts
      <4>2. Leg(G, w, 1) \in Nat /\ CostTo(G, w, 1 + 1) = CostTo(G, w, 1) + Leg(G, w, 1)
        BY <3>1, <3>2, WalkCosts
      <4>3. Leg(G, w, 1) = Leg(G, p, 1)
        BY <1>2, <3>1, <3>3 DEF Leg
      <4>. QED
        BY <1>4, <4>1, <4>2, <4>3
    <3>5. \A i \in 1..Len(q) : CostTo(G, w, 1 + i) = leg + CostTo(G, q, i)
      <4>1. /\ Len(q) = Len(w) - 2 + 1 /\ 2 - 1 = 1
        BY <2>1, <3>1
      <4>2. \A i \in 1..Len(SubSeq(w, 2, Len(w))) :
              CostTo(G, w, 2 - 1 + i) = CostTo(G, w, 2) + CostTo(G, SubSeq(w, 2, Len(w)), i)
        BY <3>1, <3>2, RestOfAWalk
      <4>3. \A i \in 1..Len(q) : CostTo(G, w, 2 - 1 + i) = CostTo(G, w, 2) + CostTo(G, q, i)
        BY <3>1, <4>2
      <4>. QED
        BY <3>4, <4>1, <4>3
    <3>6. Cost(G, w) = leg + Cost(G, q)
      <4>1. Len(q) \in 1..Len(q) /\ 1 + Len(q) = Len(w)
        BY <2>1, <3>1
      <4>2. CostTo(G, w, 1 + Len(q)) = leg + CostTo(G, q, Len(q))
        BY <3>5, <4>1
      <4>. QED
        BY <4>1, <4>2 DEF Cost
    <3>7. w # p
      BY <1>6, <3>1 DEF rest
    <3>8. Preferred(G, p, w)
      BY <1>1, <3>1, <3>7
    <3>9. CASE Cost(G, p) < Cost(G, w)
      BY <1>4, <1>5, <2>1, <3>6, <3>9 DEF Preferred
    <3>10. CASE Cost(G, p) = Cost(G, w) /\ SettledFirst(G, p, w)
      <4>1. Cost(G, rest) = Cost(G, q)
        BY <1>4, <1>5, <2>1, <3>6, <3>10
      <4>2. PICK k \in 1..(Len(p) - 1) :
              /\ k < Len(w)
              /\ \A i \in 0..(k - 1) : p[Len(p) - i] = w[Len(w) - i]
              /\ Ahead(G, p, w, k)
        BY <3>10 DEF SettledFirst, Ahead
      <4>3. /\ \A i \in 2..Len(w) : CostTo(G, w, i) > 0
            /\ \A i \in 2..Len(p) : CostTo(G, p, i) > 0
            /\ \A i \in 1..Len(w) : CostTo(G, w, i) \in Nat
            /\ \A i \in 1..Len(p) : CostTo(G, p, i) \in Nat
            /\ \A i, j \in 1..Len(w) : w[i] = w[j] => i = j
            /\ \A i \in 1..Len(w) : w[i] \in Nat
        <5>1. /\ \A i \in 2..Len(w) : CostTo(G, w, i) > 0
              /\ \A i \in 1..Len(w) : CostTo(G, w, i) \in Nat
          BY <3>1, CostsGrow, WalkCosts
        <5>2. /\ \A i \in 2..Len(p) : CostTo(G, p, i) > 0
              /\ \A i \in 1..Len(p) : CostTo(G, p, i) \in Nat
          BY <1>1, CostsGrow, WalkCosts
        <5>3. /\ w \in Seq(G.nodes) /\ G.nodes \subseteq Nat
              /\ \A i, j \in 1..Len(w) : w[i] = w[j] => i = j
          BY <3>1 DEF IsWalk, IsPath, IsGraph
        <5>. QED
          BY <5>1, <5>2, <5>3
      <4>4. k # Len(p) - 1
        <5> SUFFICES ASSUME k = Len(p) - 1 PROVE FALSE
          OBVIOUS
        <5>1. k - 1 \in 0..(k - 1) /\ Len(p) - (k - 1) = 2 /\ Len(p) - k = 1
              /\ Len(w) - (k - 1) \in 1..Len(w) /\ Len(w) - k \in 1..Len(w)
          BY <1>2, <2>1, <3>1, <4>2
        <5>2. w[2] = w[Len(w) - (k - 1)]
          BY <3>3, <4>2, <5>1
        <5>3. 2 = Len(w) - (k - 1)
          BY <3>2, <4>3, <5>1, <5>2
        <5>4. Len(w) - k = 1
          BY <2>1, <3>1, <4>2, <5>3
        <5>. QED
          BY <1>2, <1>4, <3>1, <3>4, <4>2, <4>3, <5>1, <5>4 DEF Ahead
      <4>5. k # Len(w) - 1
        <5> SUFFICES ASSUME k = Len(w) - 1 PROVE FALSE
          OBVIOUS
        <5>1. Len(w) - k = 1 /\ Len(p) - k \in 2..Len(p)
          BY <1>2, <2>1, <3>1, <4>2, <4>4
        <5>2. CostTo(G, p, Len(p) - k) > 0 /\ CostTo(G, p, Len(p) - k) \in Nat
          BY <4>3, <5>1
        <5>. QED
          BY <3>4, <4>2, <5>1, <5>2 DEF Ahead
      <4>6. k \in 1..(Len(rest) - 1) /\ k < Len(q)
        <5>1. /\ Len(p) \in Nat /\ Len(rest) = Len(p) - 1 /\ k < Len(w)
              /\ Len(q) \in Nat /\ Len(w) = Len(q) + 1
          BY <1>2, <1>3, <2>1, <3>1, <4>2
        <5>. QED
          BY <4>4, <4>5, <5>1
      <4>7. ASSUME NEW i \in 0..k
            PROVE  rest[Len(rest) - i] = p[Len(p) - i] /\ q[Len(q) - i] = w[Len(w) - i]
        <5>1. /\ Len(rest) - i \in 1..Len(rest) /\ 1 + (Len(rest) - i) = Len(p) - i
              /\ Len(q) - i \in 1..Len(q) /\ 1 + (Len(q) - i) = Len(w) - i
          BY <1>2, <1>3, <2>1, <3>1, <4>6
        <5>2. rest[Len(rest) - i] = p[1 + (Len(rest) - i)]
          BY <1>3, <5>1
        <5>3. w[1 + (Len(q) - i)] = q[Len(q) - i]
          BY <3>1, <5>1
        <5>. QED
          BY <5>1, <5>2, <5>3
      <4>8. \A i \in 0..(k - 1) : rest[Len(rest) - i] = q[Len(q) - i]
        <5>1. \A i \in 0..(k - 1) : i \in 0..k
          BY <4>6
        <5>. QED
          BY <4>2, <4>7, <5>1
      <4>9. Ahead(G, rest, q, k)
        <5>1. /\ Len(rest) - k \in 1..Len(rest) /\ 1 + (Len(rest) - k) = Len(p) - k
              /\ Len(q) - k \in 1..Len(q) /\ 1 + (Len(q) - k) = Len(w) - k
              /\ k \in 0..k
          BY <1>2, <1>3, <2>1, <3>1, <4>6
        <5>2. CostTo(G, p, Len(p) - k) = leg + CostTo(G, rest, Len(rest) - k)
          BY <1>3, <5>1
        <5>3. CostTo(G, w, Len(w) - k) = leg + CostTo(G, q, Len(q) - k)
          BY <3>5, <5>1
        <5>4. CostTo(G, rest, Len(rest) - k) \in Nat /\ CostTo(G, q, Len(q) - k) \in Nat
          BY <1>3, <2>1, <5>1, WalkCosts
        <5>5. rest[Len(rest) - k] = p[Len(p) - k] /\ q[Len(q) - k] = w[Len(w) - k]
          BY <4>7, <5>1
        <5>. QED
          BY <1>4, <4>2, <5>2, <5>3, <5>4, <5>5 DEF Ahead
      <4>. QED
        BY <4>1, <4>6, <4>8, <4>9 DEF Preferred, SettledFirst, Ahead
    <3>. QED
      BY <3>8, <3>9, <3>10 DEF Preferred
  <2>. QED
    BY <2>2, <2>3
<1>7. /\ rest \in Walks(G, blocked, p[2], goal)
      /\ \A q \in Walks(G, blocked, p[2], goal) : IsWalk(G, blocked, p[2], goal, q)
  BY <1>2, <1>3, WalksAreWalks
<1>. QED
  BY <1>2, <1>6, <1>7 DEF IsCanonical, rest

(* A route along a walk is a route: what AStarPlanner promises of every    *)
(* result that is found.                                                   *)
LEMMA RouteAlongAWalk ==
    ASSUME NEW G, IsGraph(G), NEW blocked, NEW start, NEW goal,
           NEW p, IsWalk(G, blocked, start, goal, p)
    PROVE  LET route == RouteAlong(G, p)
           IN  /\ route.found /\ route.nodes = p
               /\ route.nodes \in Seq(G.nodes) /\ route.edges \in Seq(EdgeIds(G))
               /\ Len(route.edges) \in Nat /\ Len(route.nodes) = Len(route.edges) + 1
               /\ route.nodes[1] = start /\ route.nodes[Len(route.nodes)] = goal
               /\ \A i \in 1..Len(route.edges) :
                    /\ route.edges[i] = EdgeBetween(G, p[i], p[i + 1])
                    /\ route.edges[i] \in EdgeIds(G)
                    /\ Ends(G, route.edges[i]) = {route.nodes[i], route.nodes[i + 1]}
                    /\ TraversableFrom(G, blocked, route.edges[i], route.nodes[i])
<1>1. /\ Len(p) \in Nat \ {0} /\ p \in Seq(G.nodes)
      /\ p[1] = start /\ p[Len(p)] = goal
      /\ \A i \in 1..(Len(p) - 1) : IsHop(G, blocked, p[i], p[i + 1])
  BY DEF IsWalk, IsPath
<1> DEFINE n == Len(p) - 1
           edges == [i \in 1..n |-> EdgeBetween(G, p[i], p[i + 1])]
<1>2. \A i \in 1..n : /\ EdgeBetween(G, p[i], p[i + 1]) \in EdgeIds(G)
                      /\ Ends(G, EdgeBetween(G, p[i], p[i + 1])) = {p[i], p[i + 1]}
                      /\ TraversableFrom(G, blocked, EdgeBetween(G, p[i], p[i + 1]), p[i])
  BY <1>1, HopHasItsEdge
<1>3. edges \in Seq(EdgeIds(G)) /\ Len(edges) = n
  <2>1. n \in Nat /\ edges \in [1..n -> EdgeIds(G)]
    BY <1>1, <1>2
  <2> HIDE DEF n, edges
  <2>. QED
    BY <2>1, FunctionIsSequence
<1>4. \A i \in 1..n : edges[i] = EdgeBetween(G, p[i], p[i + 1])
  OBVIOUS
<1>5. /\ RouteAlong(G, p).found /\ RouteAlong(G, p).nodes = p
      /\ RouteAlong(G, p).edges = edges
  BY DEF RouteAlong
<1>6. Len(p) = n + 1 /\ n \in Nat
  BY <1>1
<1> HIDE DEF n, edges
<1>. QED
  BY <1>1, <1>2, <1>3, <1>4, <1>5, <1>6

(* What the canonical route is, whether there is one or not.               *)
LEMMA CanonicalRouteCases ==
    ASSUME NEW G, IsGraph(G), NEW blocked, NEW start \in G.nodes, NEW goal \in G.nodes
    PROVE  \/ /\ Walks(G, blocked, start, goal) = {}
              /\ CanonicalRoute(G, blocked, start, goal) = NoRoute
           \/ \E p : /\ IsCanonical(G, blocked, start, goal, p)
                     /\ IsWalk(G, blocked, start, goal, p)
                     /\ CanonicalRoute(G, blocked, start, goal) = RouteAlong(G, p)
<1>1. CASE Walks(G, blocked, start, goal) = {}
  BY <1>1 DEF CanonicalRoute
<1>2. CASE Walks(G, blocked, start, goal) # {}
  <2>1. PICK p : IsCanonical(G, blocked, start, goal, p)
    BY <1>2, CanonicalWalkExists
  <2>2. IsWalk(G, blocked, start, goal, p)
    BY <2>1, WalksAreWalks DEF IsCanonical
  <2>3. CanonicalRoute(G, blocked, start, goal) = RouteAlong(G, p)
    BY <2>1, CanonicalRouteIsAlong
  <2>. QED
    BY <2>1, <2>2, <2>3
<1>. QED
  BY <1>1, <1>2

\* The record a route is.
LEMMA NoRouteIsNone ==
    /\ NoRoute.found = FALSE /\ NoRoute.nodes = <<>> /\ NoRoute.edges = <<>>
BY DEF NoRoute

(* A closure beyond the best route leaves it the best one: why a robot     *)
(* need not plan again for it (robot.hpp).                                 *)
LEMMA OffRouteClosure ==
    ASSUME NEW G, IsGraph(G), NEW blocked, NEW start \in G.nodes, NEW goal \in G.nodes,
           NEW e, ~UsesEdge(CanonicalRoute(G, blocked, start, goal), e)
    PROVE  CanonicalRoute(G, blocked \cup {e}, start, goal)
              = CanonicalRoute(G, blocked, start, goal)
<1> DEFINE more == blocked \cup {e}
<1>1. Walks(G, more, start, goal) \subseteq Walks(G, blocked, start, goal)
  BY DEF Walks, IsHop, TraversableFrom
<1>2. CASE Walks(G, blocked, start, goal) = {}
  BY <1>1, <1>2 DEF CanonicalRoute
<1>3. CASE Walks(G, blocked, start, goal) # {}
  <2>1. PICK p : /\ IsCanonical(G, blocked, start, goal, p)
                 /\ IsWalk(G, blocked, start, goal, p)
                 /\ CanonicalRoute(G, blocked, start, goal) = RouteAlong(G, p)
    BY <1>3, CanonicalRouteCases
  <2>2. ASSUME NEW i \in 1..(Len(p) - 1) PROVE IsHop(G, more, p[i], p[i + 1])
    <3> DEFINE f == EdgeBetween(G, p[i], p[i + 1])
               route == RouteAlong(G, p)
    <3>1. /\ Len(route.edges) = Len(p) - 1 /\ route.edges \in Seq(EdgeIds(G))
          /\ route.edges[i] = f
          /\ f \in EdgeIds(G) /\ Ends(G, f) = {p[i], p[i + 1]}
          /\ TraversableFrom(G, blocked, f, p[i])
      <4>1. /\ route.nodes = p /\ Len(route.nodes) = Len(route.edges) + 1
            /\ Len(route.edges) \in Nat /\ route.edges \in Seq(EdgeIds(G))
            /\ \A j \in 1..Len(route.edges) : route.edges[j] = EdgeBetween(G, p[j], p[j + 1])
        BY <2>1, RouteAlongAWalk
      <4>3. IsHop(G, blocked, p[i], p[i + 1])
        BY <2>1 DEF IsWalk
      <4>4. f \in EdgeIds(G) /\ Ends(G, f) = {p[i], p[i + 1]} /\ TraversableFrom(G, blocked, f, p[i])
        BY <4>3, HopHasItsEdge
      <4> HIDE DEF route
      <4>2. i \in 1..Len(route.edges) /\ Len(route.edges) = Len(p) - 1
        BY <4>1
      <4>. QED
        BY <4>1, <4>2, <4>4
    <3> HIDE DEF route, f
    <3>2. i \in DOMAIN route.edges
      BY <3>1
    <3>3. f # e
      BY <2>1, <3>1, <3>2 DEF UsesEdge, route
    <3>. QED
      BY <3>1, <3>3 DEF IsHop, TraversableFrom
  <2>3. p \in Walks(G, more, start, goal)
    <3>1. IsWalk(G, more, start, goal, p)
      BY <2>1, <2>2 DEF IsWalk
    <3>. QED
      BY <3>1, WalksAreWalks
  <2>4. IsCanonical(G, more, start, goal, p)
    BY <1>1, <2>1, <2>3 DEF IsCanonical
  <2>5. CanonicalRoute(G, more, start, goal) = RouteAlong(G, p)
    BY <2>4, CanonicalRouteIsAlong
  <2>. QED
    BY <2>1, <2>5
<1>. QED
  BY <1>2, <1>3

(* Having gone the first hop of the best route, the rest of it is the best *)
(* route: why a robot need not plan again for having departed.             *)
LEMMA RouteAfterAHop ==
    ASSUME NEW G, IsGraph(G), NEW blocked, NEW start \in G.nodes, NEW goal \in G.nodes,
           CanonicalRoute(G, blocked, start, goal).edges # <<>>
    PROVE  LET route == CanonicalRoute(G, blocked, start, goal)
           IN  /\ route.nodes[2] \in G.nodes
               /\ CanonicalRoute(G, blocked, route.nodes[2], goal) =
                    [found |-> TRUE, nodes |-> Tail(route.nodes), edges |-> Tail(route.edges)]
<1>1. PICK p : /\ IsCanonical(G, blocked, start, goal, p)
               /\ IsWalk(G, blocked, start, goal, p)
               /\ CanonicalRoute(G, blocked, start, goal) = RouteAlong(G, p)
  BY CanonicalRouteCases, NoRouteIsNone
<1> DEFINE edges == RouteAlong(G, p).edges
           rest == SubSeq(p, 2, Len(p))
<1>2. /\ RouteAlong(G, p).nodes = p /\ p \in Seq(G.nodes) /\ edges \in Seq(EdgeIds(G))
      /\ Len(edges) \in Nat /\ Len(p) = Len(edges) + 1
      /\ \A i \in 1..Len(edges) : edges[i] = EdgeBetween(G, p[i], p[i + 1])
  BY <1>1, RouteAlongAWalk
<1> HIDE DEF edges
<1>3. edges # <<>>
  BY <1>1 DEF edges
<1>4. Len(edges) \in Nat \ {0} /\ Len(p) >= 2
  BY <1>2, <1>3
<1>5. p[2] \in G.nodes /\ IsCanonical(G, blocked, p[2], goal, rest)
  BY <1>1, <1>4, RestIsCanonical
<1>6. CanonicalRoute(G, blocked, p[2], goal) = RouteAlong(G, rest)
  BY <1>5, CanonicalRouteIsAlong
<1>7. /\ rest \in Seq(G.nodes) /\ Len(rest) = Len(p) - 1
      /\ \A i \in 1..Len(rest) : rest[i] = p[i + 1]
  <2>1. 2 \in 1..Len(p) /\ Len(p) - 2 + 1 = Len(p) - 1
    BY <1>2, <1>4
  <2>2. /\ rest \in Seq(G.nodes) /\ Len(rest) = Len(p) - 2 + 1
        /\ \A i \in 1..(Len(p) - 2 + 1) : rest[i] = p[2 + i - 1]
    BY <1>2, <2>1, RestOfASequence
  <2> HIDE DEF rest
  <2>3. ASSUME NEW i \in 1..Len(rest) PROVE rest[i] = p[i + 1]
    <3>1. 2 + i - 1 = i + 1 /\ i \in 1..(Len(p) - 2 + 1)
      BY <2>2
    <3>. QED
      BY <2>2, <3>1
  <2>. QED
    BY <2>1, <2>2, <2>3
<1> HIDE DEF rest
<1>8. rest = Tail(p)
  <2>1. Tail(p) \in Seq(G.nodes) /\ Len(Tail(p)) = Len(p) - 1
        /\ \A i \in 1..(Len(p) - 1) : Tail(p)[i] = p[i + 1]
    BY <1>2, <1>4
  <2>. QED
    BY <1>7, <2>1, SeqEqual
<1>9. RouteAlong(G, rest).edges = Tail(edges)
  <2> DEFINE later == RouteAlong(G, rest).edges
  <2>1. /\ later \in Seq(EdgeIds(G)) /\ Len(rest) = Len(later) + 1 /\ Len(later) \in Nat
        /\ \A i \in 1..Len(later) : later[i] = EdgeBetween(G, rest[i], rest[i + 1])
    <3>1. IsWalk(G, blocked, p[2], goal, rest)
      BY <1>5, WalksAreWalks DEF IsCanonical
    <3>. QED
      BY <3>1, RouteAlongAWalk
  <2> HIDE DEF later
  <2>2. Tail(edges) \in Seq(EdgeIds(G)) /\ Len(Tail(edges)) = Len(edges) - 1
        /\ \A i \in 1..(Len(edges) - 1) : Tail(edges)[i] = edges[i + 1]
    BY <1>2, <1>4
  <2>3. Len(later) = Len(edges) - 1
    BY <1>2, <1>7, <2>1
  <2>4. ASSUME NEW i \in 1..Len(later) PROVE later[i] = Tail(edges)[i]
    <3>1. /\ i \in 1..Len(rest) /\ i + 1 \in 1..Len(rest) /\ i \in 1..(Len(edges) - 1)
          /\ i + 1 \in 1..Len(edges)
      BY <1>2, <1>7, <2>1, <2>3
    <3>2. later[i] = EdgeBetween(G, p[i + 1], p[(i + 1) + 1])
      BY <1>7, <2>1, <3>1
    <3>3. edges[i + 1] = EdgeBetween(G, p[i + 1], p[(i + 1) + 1])
      BY <1>2, <3>1
    <3>. QED
      BY <2>2, <3>1, <3>2, <3>3
  <2>5. later = Tail(edges)
    BY <2>1, <2>2, <2>3, <2>4, SeqEqual
  <2>. QED
    BY <2>5 DEF later
<1>10. RouteAlong(G, rest) = [found |-> TRUE, nodes |-> Tail(p), edges |-> Tail(edges)]
  BY <1>8, <1>9 DEF RouteAlong
<1>. QED
  BY <1>1, <1>2, <1>5, <1>6, <1>10 DEF edges

\* The relation R, a set of pairs, orders S strictly and totally.
Orders(R, S) ==
    /\ \A x \in S : <<x, x>> \notin R
    /\ \A x, y, z \in S : <<x, y>> \in R /\ <<y, z>> \in R => <<x, z>> \in R
    /\ \A x, y \in S : x # y => <<x, y>> \in R \/ <<y, x>> \in R

\* How many of S come before x.
Rank(R, S, x) == Cardinality({y \in S : <<y, x>> \in R})

\* The ranks number S from 0 upwards, each number once, in S's order.
RanksNumber(R, S) ==
    /\ \A x \in S : Rank(R, S, x) \in 0..(Cardinality(S) - 1)
    /\ \A x, y \in S : <<x, y>> \in R => Rank(R, S, x) < Rank(R, S, y)
    /\ \A x, y \in S : Rank(R, S, x) = Rank(R, S, y) => x = y
    /\ \A k \in 0..(Cardinality(S) - 1) : \E x \in S : Rank(R, S, x) = k

\* A finite set is numbered by the ranks in any order of it.
LEMMA RanksAreNumbers ==
    ASSUME NEW S, IsFiniteSet(S), NEW R, Orders(R, S)
    PROVE  RanksNumber(R, S)
<1> DEFINE before(x) == {y \in S : <<y, x>> \in R}
           n == Cardinality(S)
           T == 0..(n - 1)
<1>1. \A x, y \in S : <<x, y>> \in R =>
        before(x) \cup {x} \subseteq before(y) /\ x \notin before(x)
  BY DEF Orders
<1>2. \A x \in S : x \notin before(x) /\ before(x) \subseteq S
  BY DEF Orders
<1>3. n \in Nat
  BY FS_CardinalityType
<1> HIDE DEF before, n
<1>4. ASSUME NEW x \in S
      PROVE  IsFiniteSet(before(x)) /\ Cardinality(before(x)) \in Nat
  BY <1>2, FS_Subset, FS_CardinalityType
<1>5. ASSUME NEW x \in S, NEW A, before(x) \cup {x} \subseteq A, A \subseteq S
      PROVE  Cardinality(before(x)) < Cardinality(A)
  <2>1. IsFiniteSet(A) /\ Cardinality(A) \in Nat
    BY <1>5, FS_Subset, FS_CardinalityType
  <2>2. Cardinality(before(x) \cup {x}) = Cardinality(before(x)) + 1
    BY <1>2, <1>4, FS_AddElement
  <2>3. Cardinality(before(x) \cup {x}) <= Cardinality(A)
    BY <1>5, <2>1, FS_Subset
  <2>4. Cardinality(before(x)) \in Nat
    BY <1>4
  <2>. QED
    BY <2>1, <2>2, <2>3, <2>4
<1>6. \A x \in S : Rank(R, S, x) = Cardinality(before(x))
  BY DEF Rank, before
<1>7. \A x, y \in S : <<x, y>> \in R => Rank(R, S, x) < Rank(R, S, y)
  BY <1>1, <1>2, <1>5, <1>6
<1>8. \A x \in S : Rank(R, S, x) \in T
  <2> SUFFICES ASSUME NEW x \in S PROVE Rank(R, S, x) \in T
    OBVIOUS
  <2>1. Cardinality(before(x)) < Cardinality(S) /\ Cardinality(before(x)) \in Nat
    BY <1>2, <1>4, <1>5
  <2>. QED
    BY <1>3, <1>6, <2>1 DEF n
<1>9. \A x, y \in S : Rank(R, S, x) = Rank(R, S, y) => x = y
  <2> SUFFICES ASSUME NEW x \in S, NEW y \in S, Rank(R, S, x) = Rank(R, S, y), x # y
               PROVE  FALSE
    OBVIOUS
  <2>1. Rank(R, S, x) \in Int
    BY <1>3, <1>8
  <2>2. Rank(R, S, x) < Rank(R, S, y) \/ Rank(R, S, y) < Rank(R, S, x)
    BY <1>7 DEF Orders
  <2>. QED
    BY <2>1, <2>2
<1>10. \A k \in T : \E x \in S : Rank(R, S, x) = k
  <2> DEFINE f == [x \in S |-> Rank(R, S, x)]
  <2>1. IsFiniteSet(T) /\ Cardinality(T) = n
    <3>1. 0 \in Int /\ n - 1 \in Int /\ n - 1 - 0 + 1 = n
      BY <1>3
    <3>. QED
      BY <1>3, <3>1, FS_Interval
  <2>2. f \in Injection(S, T)
    BY <1>8, <1>9 DEF Injection, IsInjective
  <2>3. f \in Surjection(S, T)
    <3> HIDE DEF f, T
    <3>. QED
      BY <2>1, <2>2, FS_Injection DEF n
  <2>. QED
    BY <2>3 DEF Surjection
<1>. QED
  BY <1>7, <1>8, <1>9, <1>10 DEF RanksNumber, n

\* How many numbers of S are below n.
Smaller(S, n) == Cardinality({m \in S : m < n})

\* A finite set of integers, numbered from 0 upwards.
SmallerNumber(S) ==
    /\ \A n \in S : Smaller(S, n) \in 0..(Cardinality(S) - 1)
    /\ \A m, n \in S : m < n => Smaller(S, m) < Smaller(S, n)
    /\ \A m, n \in S : Smaller(S, m) = Smaller(S, n) => m = n

\* Integers are numbered by how many there are below them.
LEMMA IntegersAreNumbered ==
    ASSUME NEW S \in SUBSET Int, IsFiniteSet(S)
    PROVE  SmallerNumber(S)
<1> DEFINE R == {p \in Int \X Int : p[1] < p[2]}
<1>1. \A x, y \in Int : <<x, y>> \in R <=> x < y
  OBVIOUS
<1> HIDE DEF R
<1>2. Orders(R, S)
  BY <1>1 DEF Orders
<1>3. RanksNumber(R, S)
  BY <1>2, RanksAreNumbers
<1>4. ASSUME NEW n \in S PROVE Rank(R, S, n) = Smaller(S, n)
  <2>1. {m \in S : m < n} = {m \in S : <<m, n>> \in R}
    BY <1>1
  <2>. QED
    BY <2>1 DEF Rank, Smaller
<1>5. \A m, n \in S : m < n => <<m, n>> \in R
  BY <1>1
<1>6. \A n \in S : Smaller(S, n) \in 0..(Cardinality(S) - 1)
  BY <1>3, <1>4 DEF RanksNumber
<1>7. \A m, n \in S : m < n => Smaller(S, m) < Smaller(S, n)
  <2> SUFFICES ASSUME NEW m \in S, NEW n \in S, m < n
               PROVE  Smaller(S, m) < Smaller(S, n)
    OBVIOUS
  <2>1. Rank(R, S, m) < Rank(R, S, n)
    BY <1>3, <1>5 DEF RanksNumber
  <2>. QED
    BY <1>4, <2>1
<1>8. \A m, n \in S : Smaller(S, m) = Smaller(S, n) => m = n
  BY <1>3, <1>4 DEF RanksNumber
<1>. QED
  BY <1>6, <1>7, <1>8 DEF SmallerNumber

\* The values of a function on a finite set are finitely many.
LEMMA ValuesAreFinite ==
    ASSUME NEW f, IsFiniteSet(DOMAIN f)
    PROVE  IsFiniteSet({f[x] : x \in DOMAIN f})
<1> DEFINE S == DOMAIN f
           T == {f[x] : x \in S}
           g == [x \in S |-> f[x]]
<1>1. g \in Surjection(S, T)
  BY DEF Surjection
<1> HIDE DEF g, T
<1>2. IsFiniteSet(T)
  BY <1>1, FS_Surjection
<1>. QED
  BY <1>2 DEF T
================================================================================
